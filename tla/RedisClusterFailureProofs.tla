---------------------- MODULE RedisClusterFailureProofs ----------------------
(***************************************************************************)
(* Theorems about RedisClusterFailure, for any number of masters, replicas *)
(* and packets on their way.                                               *)
(***************************************************************************)
EXTENDS RedisClusterFailure, FiniteSetTheorems, TLAPS

-----------------------------------------------------------------------------
(* What the parts of a step do.                                            *)

\* The new state of the cluster as n sees it, f being its flag of Target and
\* sl whether Target serves slots.
Covered(n, f, sl, s) ==
  s = "ok" => /\ ~(Full /\ sl /\ f = "fail")
              /\ sl /\ f # "up" => Cardinality(Masters) - 1 >= Cardinality(Masters) \div 2 + 1

\* clusterUpdateState is type correct, changes n only, and an ok state is one
\* that was justified by what n knows.
LEMMA UpdateState ==
  ASSUME FailureAssumption, TypeOK, NEW n \in Observers,
         NEW f \in {"up", "pfail", "fail"}, NEW sl \in BOOLEAN,
         clusterUpdateState(n, f, sl)
  PROVE  /\ state' \in [Observers -> {"ok", "fail"}]
         /\ minority' \in [Observers -> BOOLEAN]
         /\ Covered(n, f, sl, state'[n])
         /\ \A m \in Observers \ {n} : state'[m] = state[m]
<1> DEFINE C      == Cardinality(Masters)
           size   == C - (IF sl THEN 0 ELSE 1)
           reach  == size - (IF sl /\ f # "up" THEN 1 ELSE 0)
           minor  == reach < size \div 2 + 1
           recent == minor \/ minority[n]
           bad    == (Full /\ sl /\ f = "fail") \/ minor
           new    == IF bad THEN "fail" ELSE "ok"
<1>1. /\ minority' = [minority EXCEPT ![n] = recent]
      /\ state' = [state EXCEPT ![n] = IF new = "ok" /\ n \in Masters /\ recent THEN @ ELSE new]
  BY DEF clusterUpdateState
<1>2. state \in [Observers -> {"ok", "fail"}] /\ minority \in [Observers -> BOOLEAN]
  BY DEF TypeOK
<1>3. minority' \in [Observers -> BOOLEAN]
  <2> HIDE DEF minor
  <2>1. recent \in BOOLEAN
    OBVIOUS
  <2> HIDE DEF recent
  <2> QED BY <1>1, <1>2, <2>1
<1>4. C \in Nat
  BY FS_CardinalityType DEF FailureAssumption
<1>5. ~bad => Covered(n, f, sl, state'[n])
  <2> HIDE DEF C
  <2>1. ASSUME ~minor, sl, f # "up" PROVE C - 1 >= C \div 2 + 1
    BY <1>4, <2>1
  <2> HIDE DEF minor
  <2> QED BY <2>1 DEF Covered, C
<1>6. bad => state'[n] = "fail"
  <2> HIDE DEF bad, recent
  <2> QED BY <1>1, <1>2
<1>7. state' \in [Observers -> {"ok", "fail"}] /\ \A m \in Observers \ {n} : state'[m] = state[m]
  <2> HIDE DEF bad, recent
  <2> QED BY <1>1, <1>2
<1> HIDE DEF bad
<1> QED BY <1>3, <1>5, <1>6, <1>7 DEF Covered

\* Flag is type correct and remembers the masters that lost Target.
LEMMA FlagChange ==
  ASSUME FailureAssumption, TypeOK, NEW n \in Observers,
         NEW f \in {"up", "pfail", "fail"}, Flag(n, f)
  PROVE  /\ flag' \in [Observers -> {"up", "pfail", "fail"}]
         /\ old' \in [Observers -> BOOLEAN]
         /\ \A m \in Observers : old'[m] => flag'[m] = "fail"
         /\ flag'[n] = f /\ \A m \in Observers \ {n} : flag'[m] = flag[m]
         /\ said' \subseteq Masters \ {Target} /\ said \subseteq said'
         /\ n \in Masters /\ f # "up" => n \in said'
BY DEF Flag, TypeOK, Observers, FailureAssumption

-----------------------------------------------------------------------------
(* Types, and the state of the cluster.                                    *)

LEMMA TypeInit ==
  ASSUME FailureAssumption, Init
  PROVE  TypeOK
BY DEF FailureAssumption, Init, TypeOK

SafeState == TypeOK /\ ServesCovered

LEMMA ServesInit ==
  ASSUME Init
  PROVE  ServesCovered
BY DEF Init, ServesCovered

\* What a node knows of itself after a step that looked at the cluster.
LEMMA ServesStep ==
  ASSUME FailureAssumption, ServesCovered, NEW n \in Observers,
         slots \in [Observers -> BOOLEAN],
         Covered(n, flag'[n], slots'[n], state'[n]),
         \A m \in Observers \ {n} : /\ state'[m] = state[m] /\ flag'[m] = flag[m]
                                    /\ slots'[m] = slots[m]
  PROVE  ServesCovered'
<1> SUFFICES ASSUME NEW m \in Observers, state'[m] = "ok"
             PROVE  /\ Full /\ slots'[m] => flag'[m] # "fail"
                    /\ slots'[m] /\ flag'[m] # "up" => Cardinality(Masters) - 1 >= Quorum(m)'
  BY DEF ServesCovered
<1>1. slots'[m] => Quorum(m)' = Cardinality(Masters) \div 2 + 1
  <2>1. Cardinality(Masters) \in Nat
    BY FS_CardinalityType DEF FailureAssumption
  <2> QED BY <2>1 DEF Quorum
<1>2. slots[m] => Quorum(m) = Cardinality(Masters) \div 2 + 1
  <2>1. Cardinality(Masters) \in Nat
    BY FS_CardinalityType DEF FailureAssumption
  <2> QED BY <2>1 DEF Quorum
<1>3. CASE m = n
  BY <1>1, <1>3 DEF Covered
<1>4. CASE m # n
  BY <1>1, <1>2, <1>4 DEF ServesCovered
<1> QED BY <1>3, <1>4

\* What a received packet does, in the terms of the lemmas above.
LEMMA Received ==
  ASSUME FailureAssumption, TypeOK, NEW p \in net, receive(p)
  PROVE  LET n == p.to
             r == FailureReport(n, p)
         IN /\ n \in Observers /\ p.from \in Observers /\ p.from # n
            /\ slots' = slots /\ cut' = cut /\ cuts' = cuts /\ lost' = lost
            /\ \/ /\ reports' = [reports EXCEPT ![n] = r] /\ net' = net \ {p}
                  /\ UNCHANGED <<flag, old, said, state, minority>>
               \/ /\ reports' = [reports EXCEPT ![n] = r]
                  /\ net' = (net \ {p}) \cup clusterSendFail(n)
                  /\ markNodeAsFailingIfNeeded(n, r)
                  /\ Flag(n, "fail") /\ clusterUpdateState(n, "fail", slots[n])
               \/ /\ reports' = reports /\ net' = net \ {p} /\ p.type = "fail"
                  /\ Flag(n, "fail") /\ clusterUpdateState(n, "fail", slots[n])
               \/ /\ reports' = reports /\ net' = net \ {p}
                  /\ UNCHANGED <<flag, old, said, state, minority>>
<1>1. p.to \in Observers /\ p.from \in Observers /\ p.from # p.to
  BY DEF TypeOK, Packets
<1>2. slots' = slots /\ cut' = cut /\ cuts' = cuts /\ lost' = lost
  BY DEF receive
<1>3. CASE clusterProcessGossipSection(p.to, p)
  BY <1>1, <1>2, <1>3 DEF clusterProcessGossipSection
<1>4. CASE processFail(p.to, p)
  BY <1>1, <1>2, <1>4 DEF processFail
<1> QED BY <1>3, <1>4 DEF receive

\* The packets a node sends.
LEMMA SentPackets ==
  ASSUME NEW n \in Observers
  PROVE  /\ clusterSendFail(n) \subseteq Packets
         /\ \A q \in clusterSendFail(n) : q.from = n /\ q.to # n /\ q.type = "fail"
BY DEF clusterSendFail, Packets

LEMMA ReportType ==
  ASSUME FailureAssumption, TypeOK, NEW p \in net
  PROVE  /\ FailureReport(p.to, p) \subseteq Masters \ {Target}
         /\ FailureReport(p.to, p) \subseteq reports[p.to] \cup {p.from}
         /\ ~(p.from \in Masters /\ Target \in p.failing) => FailureReport(p.to, p) \subseteq reports[p.to]
<1>1. p.to \in Observers /\ p.from \in Observers /\ p.failing \subseteq {Target}
  BY DEF TypeOK, Packets
<1>2. reports[p.to] \subseteq Masters \ {Target}
  BY <1>1 DEF TypeOK
<1> QED BY <1>1, <1>2 DEF FailureReport, Observers

LEMMA SafeStep ==
  ASSUME FailureAssumption, SafeState, [Next]_vars
  PROVE  SafeState'
<1> USE DEF SafeState
<1>0. TypeOK /\ ServesCovered
  OBVIOUS
<1>1. CASE UNCHANGED vars
  BY <1>1 DEF TypeOK, ServesCovered, Quorum, vars
<1>2. ASSUME NEW n \in Observers, timeout(n) PROVE SafeState'
  <2>1. Flag(n, "pfail") /\ clusterUpdateState(n, "pfail", slots[n])
        /\ UNCHANGED <<cut, reports, slots, net, cuts, lost>> /\ slots[n] \in BOOLEAN
    BY <1>2 DEF timeout, TypeOK
  <2>2. /\ flag' \in [Observers -> {"up", "pfail", "fail"}] /\ old' \in [Observers -> BOOLEAN]
        /\ \A m \in Observers : old'[m] => flag'[m] = "fail"
        /\ flag'[n] = "pfail" /\ \A m \in Observers \ {n} : flag'[m] = flag[m]
        /\ said' \subseteq Masters \ {Target}
    BY <2>1, FlagChange
  <2>3. /\ state' \in [Observers -> {"ok", "fail"}] /\ minority' \in [Observers -> BOOLEAN]
        /\ Covered(n, "pfail", slots[n], state'[n])
        /\ \A m \in Observers \ {n} : state'[m] = state[m]
    BY <2>1, UpdateState
  <2>4. ServesCovered'
    BY <2>1, <2>2, <2>3, ServesStep DEF TypeOK
  <2>5. TypeOK'
    BY <2>1, <2>2, <2>3 DEF TypeOK
  <2> QED BY <2>4, <2>5
<1>3. ASSUME NEW n \in Observers, pong(n) PROVE SafeState'
  <2>1. Flag(n, "up") /\ clusterUpdateState(n, "up", slots[n])
        /\ UNCHANGED <<cut, reports, slots, net, cuts, lost>> /\ slots[n] \in BOOLEAN
    BY <1>3 DEF pong, TypeOK
  <2>2. /\ flag' \in [Observers -> {"up", "pfail", "fail"}] /\ old' \in [Observers -> BOOLEAN]
        /\ \A m \in Observers : old'[m] => flag'[m] = "fail"
        /\ flag'[n] = "up" /\ \A m \in Observers \ {n} : flag'[m] = flag[m]
        /\ said' \subseteq Masters \ {Target}
    BY <2>1, FlagChange
  <2>3. /\ state' \in [Observers -> {"ok", "fail"}] /\ minority' \in [Observers -> BOOLEAN]
        /\ Covered(n, "up", slots[n], state'[n])
        /\ \A m \in Observers \ {n} : state'[m] = state[m]
    BY <2>1, UpdateState
  <2>4. ServesCovered'
    BY <2>1, <2>2, <2>3, ServesStep DEF TypeOK
  <2>5. TypeOK'
    BY <2>1, <2>2, <2>3 DEF TypeOK
  <2> QED BY <2>4, <2>5
<1>4. ASSUME NEW n \in Observers, age(n) PROVE SafeState'
  BY <1>4 DEF age, TypeOK, ServesCovered, Quorum
<1>5. ASSUME NEW n \in Observers, rejoin(n) PROVE SafeState'
  <2> DEFINE sz == Cardinality(Masters) - (IF slots[n] THEN 0 ELSE 1)
             minor == sz - (IF slots[n] /\ flag[n] # "up" THEN 1 ELSE 0) < sz \div 2 + 1
             missing == Full /\ slots[n] /\ flag[n] = "fail"
  <2>1. /\ ~minor /\ minority' = [minority EXCEPT ![n] = FALSE]
        /\ state' = [state EXCEPT ![n] = IF missing THEN "fail" ELSE "ok"]
        /\ UNCHANGED <<cut, flag, old, reports, slots, net, said, cuts, lost>>
    BY <1>5 DEF rejoin
  <2>2. Cardinality(Masters) \in Nat
    BY FS_CardinalityType DEF FailureAssumption
  <2>3. slots[n] /\ flag[n] # "up" => Cardinality(Masters) - 1 >= Cardinality(Masters) \div 2 + 1
    BY <2>1, <2>2
  <2> HIDE DEF minor
  <2>4. state'[n] = IF missing THEN "fail" ELSE "ok"
    BY <2>1 DEF TypeOK
  <2>5. Covered(n, flag'[n], slots'[n], state'[n])
    BY <2>1, <2>3, <2>4 DEF Covered
  <2> HIDE DEF missing
  <2>6. ServesCovered'
    BY <2>1, <2>5, ServesStep DEF TypeOK
  <2> QED BY <2>1, <2>6 DEF TypeOK
<1>6. ASSUME NEW n \in Observers, NEW to \in SUBSET Observers, clusterSendPing(n, to) PROVE SafeState'
  <2> DEFINE S == {[type |-> "ping", from |-> n, to |-> m, failing |-> Failing(n)] : m \in to}
  <2>1. /\ net' = net \cup S
        /\ UNCHANGED <<cut, flag, old, reports, slots, state, minority, said, cuts, lost>>
    BY <1>6 DEF clusterSendPing
  <2>2. S \subseteq Packets /\ \A q \in S : q.from # q.to
    <3>1. Failing(n) \in SUBSET {Target}
      BY DEF Failing
    <3>2. to \subseteq Observers \ {n}
      BY <1>6 DEF clusterSendPing, Gossiped
    <3> QED BY <3>1, <3>2 DEF Packets
  <2> HIDE DEF S
  <2> QED BY <2>1, <2>2 DEF TypeOK, ServesCovered, Quorum
<1>7. ASSUME NEW p \in net, receive(p) PROVE SafeState'
  <2> DEFINE n == p.to
             r == FailureReport(n, p)
  <2>1. /\ n \in Observers /\ slots' = slots /\ cut' = cut /\ cuts' = cuts /\ lost' = lost
        /\ slots[n] \in BOOLEAN
    BY <1>7, Received DEF TypeOK
  <2>2. reports' \in [Observers -> SUBSET (Masters \ {Target})]
    <3>1. reports' = [reports EXCEPT ![n] = r] \/ reports' = reports
      BY <1>7, Received
    <3> QED BY <2>1, <3>1, ReportType DEF TypeOK
  <2>3. net' \subseteq Packets /\ \A q \in net' : q.from # q.to
    <3>1. net' \subseteq net \cup clusterSendFail(n)
      BY <1>7, Received
    <3> QED BY <2>1, <3>1, SentPackets DEF TypeOK
  <2>4. CASE UNCHANGED <<flag, old, said, state, minority>>
    BY <2>1, <2>2, <2>3, <2>4 DEF TypeOK, ServesCovered, Quorum
  <2>5. CASE Flag(n, "fail") /\ clusterUpdateState(n, "fail", slots[n])
    <3>1. ServesCovered'
      BY <2>1, <2>5, UpdateState, FlagChange, ServesStep, SMTT(30) DEF TypeOK
    <3>2. TypeOK'
      BY <2>1, <2>2, <2>3, <2>5, UpdateState, FlagChange DEF TypeOK
    <3> QED BY <3>1, <3>2
  <2> QED BY <1>7, <2>4, <2>5, Received
<1>8. ASSUME NEW n \in Observers, failover(n) PROVE SafeState'
  <2>1. /\ slots' = [slots EXCEPT ![n] = FALSE] /\ clusterUpdateState(n, flag[n], FALSE)
        /\ UNCHANGED <<cut, flag, old, reports, net, said, cuts, lost>>
        /\ flag[n] \in {"up", "pfail", "fail"}
    BY <1>8 DEF failover, TypeOK
  <2>2. slots' \in [Observers -> BOOLEAN] /\ slots'[n] = FALSE
        /\ \A m \in Observers \ {n} : slots'[m] = slots[m]
    BY <2>1 DEF TypeOK
  <2>3. /\ state' \in [Observers -> {"ok", "fail"}] /\ minority' \in [Observers -> BOOLEAN]
        /\ Covered(n, flag[n], FALSE, state'[n])
        /\ \A m \in Observers \ {n} : state'[m] = state[m]
    BY <2>1, UpdateState
  <2>4. ServesCovered'
    BY <2>1, <2>2, <2>3, ServesStep DEF TypeOK
  <2> QED BY <2>1, <2>2, <2>3, <2>4 DEF TypeOK
<1>9. ASSUME NEW n \in Observers, NEW m \in Masters \ {Target}, clusterNodeCleanupFailureReports(n, m)
      PROVE  SafeState'
  BY <1>9 DEF clusterNodeCleanupFailureReports, TypeOK, ServesCovered, Quorum
<1>10. ASSUME partition PROVE SafeState'
  BY <1>10 DEF partition, TypeOK, ServesCovered, Quorum, FailureAssumption
<1>11. ASSUME lose PROVE SafeState'
  BY <1>11 DEF lose, TypeOK, ServesCovered, Quorum, FailureAssumption
<1> QED
  BY <1>1, <1>2, <1>3, <1>4, <1>5, <1>6, <1>7, <1>8, <1>9, <1>10, <1>11 DEF Next, Look, Talk, Sent

\* The nodes, packets and reports stay well formed (FAIL packets and gossip are
\* never processed for an unknown node, clusterProcessPacket).
THEOREM FailureTypeCorrect == ASSUME FailureAssumption PROVE Spec => []TypeOK
BY TypeInit, ServesInit, SafeStep, PTL DEF Spec, SafeState

\* A node never serves a cluster it knows to miss slots or to be a minority:
\* every change of a flag or of the slots is followed by clusterUpdateState,
\* and the rejoin delay only ever keeps a node from serving.
THEOREM ServesOnlyCovered == ASSUME FailureAssumption PROVE Spec => []ServesCovered
BY TypeInit, ServesInit, SafeStep, PTL DEF Spec, SafeState

-----------------------------------------------------------------------------
(* The majority behind a FAIL.                                             *)

\* Whoever flags Target, reports it or is reported has lost it; a FAIL packet
\* on its way has a majority behind it.
SaidInv ==
  /\ \A n \in Observers : n \in Masters /\ flag[n] # "up" => n \in said
  /\ \A n \in Observers : reports[n] \subseteq said /\ n \notin reports[n]
  /\ \A p \in net : p.from \in Masters /\ Target \in p.failing => p.from \in said
  /\ \A p \in net : p.type = "fail" => Cardinality(said) >= Majority
  /\ MajorityLostIt

LEMMA SaidInit ==
  ASSUME Init
  PROVE  SaidInv
BY DEF Init, SaidInv, MajorityLostIt

LEMMA MajorityType ==
  ASSUME FailureAssumption, TypeOK
  PROVE  /\ Cardinality(Masters) \in Nat /\ Majority \in Int
         /\ IsFiniteSet(said) /\ Cardinality(said) \in Nat
         /\ \A n \in Observers : Quorum(n) >= Majority /\ Quorum(n) \in Int
<1>1. Cardinality(Masters) \in Nat
  BY FS_CardinalityType DEF FailureAssumption
<1>2. IsFiniteSet(said)
  BY FS_Subset DEF FailureAssumption, TypeOK
<1>3. Cardinality(said) \in Nat
  BY <1>2, FS_CardinalityType
<1>4. Majority \in Int
  BY <1>1 DEF Majority
<1>5. ASSUME NEW n \in Observers PROVE Quorum(n) >= Majority /\ Quorum(n) \in Int
  <2>1. CASE \A m \in Observers : slots[m]
    BY <1>1, <2>1 DEF Quorum, Majority
  <2>2. CASE ~\A m \in Observers : slots[m]
    BY <1>1, <2>2 DEF Quorum, Majority
  <2> QED BY <2>1, <2>2
<1> QED BY <1>1, <1>2, <1>3, <1>4, <1>5

\* said only grows in the steps that look at it, and the majority only shrinks.
LEMMA SaidGrows ==
  ASSUME FailureAssumption, TypeOK, TypeOK', said \subseteq said',
         \A n \in Observers : slots'[n] => slots[n]
  PROVE  Cardinality(said) >= Majority => Cardinality(said') >= Majority'
<1>1. Cardinality(Masters) \in Nat /\ Cardinality(said) \in Nat /\ Majority \in Int
  BY MajorityType
<1>2. IsFiniteSet(said') /\ Cardinality(said') \in Nat
  <2>1. said' \subseteq Masters
    BY DEF TypeOK
  <2>2. IsFiniteSet(said')
    BY <2>1, FS_Subset DEF FailureAssumption
  <2> QED BY <2>2, FS_CardinalityType
<1>3. Cardinality(said) <= Cardinality(said')
  BY <1>2, FS_Subset
<1>4. Majority' \in Int /\ Majority >= Majority'
  <2>1. CASE \A n \in Observers : slots'[n]
    BY <1>1, <2>1 DEF Majority
  <2>2. CASE ~\A n \in Observers : slots'[n]
    BY <1>1, <2>2 DEF Majority
  <2> QED BY <2>1, <2>2
<1> QED BY <1>1, <1>2, <1>3, <1>4

\* The reports that let a node mark Target, its own view included, come from
\* as many masters as it asks for.
LEMMA MarkedByMajority ==
  ASSUME FailureAssumption, TypeOK, SaidInv, NEW n \in Observers, NEW r,
         r \subseteq said, n \notin r, markNodeAsFailingIfNeeded(n, r)
  PROVE  Cardinality(said) >= Majority
<1>1. IsFiniteSet(said) /\ Cardinality(said) \in Nat /\ Majority \in Int
      /\ Quorum(n) >= Majority /\ Quorum(n) \in Int
  BY MajorityType
<1>2. IsFiniteSet(r) /\ Cardinality(r) \in Nat /\ Cardinality(r) <= Cardinality(said)
  BY <1>1, FS_Subset, FS_CardinalityType
<1>3. Cardinality(r) + (IF n \in Masters THEN 1 ELSE 0) >= Quorum(n) /\ flag[n] = "pfail"
  BY DEF markNodeAsFailingIfNeeded
<1>4. CASE n \in Masters
  <2>1. r \cup {n} \subseteq said
    BY <1>3, <1>4 DEF SaidInv
  <2>2. Cardinality(r \cup {n}) = Cardinality(r) + 1
    BY <1>2, FS_AddElement
  <2>3. Cardinality(r \cup {n}) <= Cardinality(said)
    BY <1>1, <2>1, FS_Subset
  <2> QED BY <1>1, <1>2, <1>3, <1>4, <2>2, <2>3
<1>5. CASE n \notin Masters
  BY <1>1, <1>2, <1>3, <1>5
<1> QED BY <1>4, <1>5

LEMMA SaidStep ==
  ASSUME FailureAssumption, SafeState, SafeState', SaidInv, [Next]_vars
  PROVE  SaidInv'
<1>0. TypeOK /\ TypeOK'
  BY DEF SafeState
<1>1. CASE UNCHANGED vars
  BY <1>1 DEF SaidInv, MajorityLostIt, Majority, vars
<1>2. ASSUME NEW n \in Observers, timeout(n) PROVE SaidInv'
  <2>1. /\ flag[n] = "up" /\ Flag(n, "pfail")
        /\ UNCHANGED <<reports, slots, net>>
    BY <1>2 DEF timeout
  <2>2. /\ flag'[n] = "pfail" /\ \A m \in Observers \ {n} : flag'[m] = flag[m]
        /\ said \subseteq said' /\ (n \in Masters => n \in said')
    BY <1>0, <2>1, FlagChange
  <2>3. Cardinality(said) >= Majority => Cardinality(said') >= Majority'
    BY <1>0, <2>1, <2>2, SaidGrows
  <2> QED BY <2>1, <2>2, <2>3 DEF SaidInv, MajorityLostIt
<1>3. ASSUME NEW n \in Observers, pong(n) PROVE SaidInv'
  <2>1. Flag(n, "up") /\ UNCHANGED <<reports, slots, net>>
    BY <1>3 DEF pong
  <2>2. /\ flag'[n] = "up" /\ \A m \in Observers \ {n} : flag'[m] = flag[m]
        /\ said \subseteq said'
    BY <1>0, <2>1, FlagChange
  <2>3. Cardinality(said) >= Majority => Cardinality(said') >= Majority'
    BY <1>0, <2>1, <2>2, SaidGrows
  <2> QED BY <2>1, <2>2, <2>3 DEF SaidInv, MajorityLostIt
<1>4. ASSUME NEW n \in Observers, age(n) PROVE SaidInv'
  BY <1>4 DEF age, SaidInv, MajorityLostIt, Majority
<1>5. ASSUME NEW n \in Observers, rejoin(n) PROVE SaidInv'
  BY <1>5 DEF rejoin, SaidInv, MajorityLostIt, Majority
<1>6. ASSUME NEW n \in Observers, NEW to \in SUBSET Observers, clusterSendPing(n, to) PROVE SaidInv'
  <2> DEFINE S == {[type |-> "ping", from |-> n, to |-> m, failing |-> Failing(n)] : m \in to}
  <2>1. net' = net \cup S /\ UNCHANGED <<flag, reports, slots, said>>
    BY <1>6 DEF clusterSendPing
  <2>2. \A q \in S : q.type = "ping" /\ q.from = n /\ q.failing = Failing(n)
    OBVIOUS
  <2>3. Target \in Failing(n) => flag[n] # "up"
    BY DEF Failing
  <2> HIDE DEF S
  <2> QED BY <2>1, <2>2, <2>3 DEF SaidInv, MajorityLostIt, Majority
<1>7. ASSUME NEW p \in net, receive(p) PROVE SaidInv'
  <2> DEFINE n == p.to
             r == FailureReport(n, p)
  <2>1. n \in Observers /\ p.from # n /\ slots' = slots
    BY <1>0, <1>7, Received
  <2>2. r \subseteq said /\ n \notin r
    BY <1>0, <2>1, ReportType DEF SaidInv
  <2> HIDE DEF r
  <2>3. \A m \in Observers : reports'[m] \subseteq said /\ m \notin reports'[m]
    <3>1. reports' = [reports EXCEPT ![n] = r] \/ reports' = reports
      BY <1>0, <1>7, Received DEF r
    <3> QED BY <1>0, <2>2, <3>1 DEF SaidInv, TypeOK
  <2>4. CASE UNCHANGED <<flag, said>> /\ net' = net \ {p}
    BY <2>1, <2>3, <2>4 DEF SaidInv, MajorityLostIt, Majority
  <2>5. CASE /\ Flag(n, "fail") /\ net' \subseteq net \cup clusterSendFail(n)
             /\ Cardinality(said) >= Majority
    <3>1. /\ flag'[n] = "fail" /\ \A m \in Observers \ {n} : flag'[m] = flag[m]
          /\ said \subseteq said' /\ (n \in Masters => n \in said')
      BY <1>0, <2>1, <2>5, FlagChange
    <3>2. Cardinality(said') >= Majority'
      BY <1>0, <2>1, <2>5, <3>1, SaidGrows
    <3>3. \A q \in net' : q.from \in Masters /\ Target \in q.failing => q.from \in said'
      BY <2>1, <2>5, <3>1, SentPackets DEF SaidInv
    <3> QED BY <2>3, <3>1, <3>2, <3>3 DEF SaidInv, MajorityLostIt
  <2>6. CASE markNodeAsFailingIfNeeded(n, r) /\ Flag(n, "fail") /\ net' = (net \ {p}) \cup clusterSendFail(n)
    BY <1>0, <2>1, <2>2, <2>5, <2>6, MarkedByMajority
  <2>7. CASE p.type = "fail" /\ Flag(n, "fail") /\ net' = net \ {p}
    BY <2>5, <2>7 DEF SaidInv
  <2> QED BY <1>0, <1>7, <2>4, <2>6, <2>7, Received DEF r
<1>8. ASSUME NEW n \in Observers, failover(n) PROVE SaidInv'
  <2>1. slots' = [slots EXCEPT ![n] = FALSE] /\ UNCHANGED <<flag, reports, net, said>>
    BY <1>8 DEF failover
  <2>2. \A m \in Observers : slots'[m] => slots[m]
    BY <1>0, <2>1 DEF TypeOK
  <2>3. Cardinality(said) >= Majority => Cardinality(said') >= Majority'
    BY <1>0, <2>1, <2>2, SaidGrows
  <2> QED BY <2>1, <2>3 DEF SaidInv, MajorityLostIt
<1>9. ASSUME NEW n \in Observers, NEW m \in Masters \ {Target}, clusterNodeCleanupFailureReports(n, m)
      PROVE  SaidInv'
  <2>1. /\ reports' = [reports EXCEPT ![n] = @ \ {m}]
        /\ UNCHANGED <<flag, slots, net, said>>
    BY <1>9 DEF clusterNodeCleanupFailureReports
  <2> QED BY <1>0, <2>1 DEF SaidInv, MajorityLostIt, Majority, TypeOK
<1>10. ASSUME partition PROVE SaidInv'
  <2>1. /\ said' = said \/ ((\A n \in Observers : flag[n] = "up" /\ reports[n] = {}) /\ net = {})
        /\ UNCHANGED <<flag, slots, reports, net>>
    BY <1>10 DEF partition
  <2> QED BY <2>1 DEF SaidInv, MajorityLostIt, Majority
<1>11. ASSUME lose PROVE SaidInv'
  BY <1>11 DEF lose, SaidInv, MajorityLostIt, Majority
<1> QED
  BY <1>1, <1>2, <1>3, <1>4, <1>5, <1>6, <1>7, <1>8, <1>9, <1>10, <1>11 DEF Next, Look, Talk, Sent

\* Nobody has Target as FAIL without a majority of the masters that lost it,
\* whatever is lost, repeated or crosses on the wire and however the network
\* changes (markNodeAsFailingIfNeeded).
THEOREM FailNeedsMajority == ASSUME FailureAssumption PROVE Spec => []MajorityLostIt
<1>1. SaidInv => MajorityLostIt
  BY DEF SaidInv
<1> QED BY <1>1, TypeInit, ServesInit, SaidInit, SafeStep, SaidStep, PTL DEF Spec, SafeState

\* The first FAIL is set by a node that itself gets no answer; only a FAIL
\* packet makes others believe it (markNodeAsFailingIfNeeded).
THEOREM FirstMarkIsSeen == ASSUME FailureAssumption PROVE Spec => [][SeenByWhoMarks]_vars
<1>1. ASSUME TypeOK, Next PROVE SeenByWhoMarks
  <2> SUFFICES ASSUME NEW n \in Observers, flag[n] # "fail", flag'[n] = "fail"
               PROVE  flag[n] = "pfail" \/ \E p \in net : p.type = "fail"
    BY DEF SeenByWhoMarks
  <2>1. PICK p \in net : receive(p)
    BY <1>1 DEF Next, Look, Talk, Sent, timeout, pong, age, rejoin, clusterSendPing, failover,
      clusterNodeCleanupFailureReports, partition, lose, Flag, TypeOK
  <2>2. CASE p.to = n
    BY <1>1, <2>1, <2>2, Received DEF markNodeAsFailingIfNeeded
  <2>3. CASE p.to # n
    <3>1. Flag(p.to, "fail") \/ flag' = flag
      BY <1>1, <2>1, Received
    <3> QED BY <1>1, <2>3, <3>1 DEF Flag, TypeOK
  <2> QED BY <2>2, <2>3
<1> QED BY <1>1, FailureTypeCorrect, PTL DEF Spec

=============================================================================
