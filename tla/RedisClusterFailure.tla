------------------------ MODULE RedisClusterFailure ------------------------
(***************************************************************************)
(* Redis Cluster: how the nodes come to agree that one of them is failing. *)
(* Who gets no answer for a node timeout flags the node PFAIL, says so in  *)
(* the gossip of its packets, and turns the flag into FAIL once a majority *)
(* of the masters said the same; a FAIL packet then forces the others.     *)
(*                                                                         *)
(* Everything is about one master, Target.  cut are the nodes it cannot be *)
(* reached from; all others always reach each other.  A PING with nothing  *)
(* to say about Target changes nothing here and is left out.  Reports do   *)
(* not carry a time: one may expire unless its sender has Target as PFAIL, *)
(* because only the PFAIL nodes are in each PING, twice per timeout.       *)
(***************************************************************************)
EXTENDS Integers, FiniteSets

CONSTANTS
  Masters, Replicas, Target,
  Full,        \* cluster-require-full-coverage
  MaxTalkers,  \* bound on nodes whose packets are on their way
  MaxCuts,     \* bound on changes of the network
  MaxLost      \* bound on lost packets

FailureAssumption ==
  /\ Target \in Masters /\ Masters \cap Replicas = {} /\ IsFiniteSet(Masters)
  /\ Full \in BOOLEAN /\ MaxTalkers \in Nat /\ MaxCuts \in Nat /\ MaxLost \in Nat

VARIABLES
  cut,       \* who does not reach Target
  flag,      \* what each node thinks of it: up, pfail, fail
  old,       \* FAIL is old enough to be undone
  reports,   \* fail_reports: the masters that reported it to this node
  slots,     \* it serves slots, as far as this node knows
  state,     \* cluster state: ok or fail
  minority,  \* among_minority_time is less than the rejoin delay ago
  net,       \* packets on their way
  said,      \* the masters that flagged Target since it was last fine
  cuts, lost

vars == <<cut, flag, old, reports, slots, state, minority, net, said, cuts, lost>>

-----------------------------------------------------------------------------
Observers == (Masters \cup Replicas) \ {Target}

Quorum(n) == (Cardinality(Masters) - (IF slots[n] THEN 0 ELSE 1)) \div 2 + 1

Init ==
  /\ cut = {} /\ net = {} /\ said = {} /\ cuts = 0 /\ lost = 0
  /\ flag = [n \in Observers |-> "up"] /\ old = [n \in Observers |-> FALSE]
  /\ reports = [n \in Observers |-> {}]
  /\ slots = [n \in Observers |-> TRUE]
  /\ state = [n \in Observers |-> "ok"]
  /\ minority = [n \in Observers |-> FALSE]

\* Run at the end of every step that asks for CLUSTER_TODO_UPDATE_STATE: all
\* slots served by a node that is not FAIL, a majority of the masters in
\* reach, and for a master some time to be told what happened meanwhile.
clusterUpdateState(n, f, sl) ==
  LET size   == Cardinality(Masters) - (IF sl THEN 0 ELSE 1)
      reach  == size - (IF sl /\ f # "up" THEN 1 ELSE 0)
      minor  == reach < size \div 2 + 1
      recent == minor \/ minority[n]
      new    == IF (Full /\ sl /\ f = "fail") \/ minor THEN "fail" ELSE "ok"
  IN /\ minority' = [minority EXCEPT ![n] = recent]
     /\ state' = [state EXCEPT ![n] = IF new = "ok" /\ n \in Masters /\ recent THEN @ ELSE new]

Flag(n, f) ==
  /\ flag' = [flag EXCEPT ![n] = f]
  /\ old' = [old EXCEPT ![n] = FALSE]
  /\ said' = IF n \in Masters /\ f # "up" THEN said \cup {n} ELSE said

-----------------------------------------------------------------------------
\* clusterCron: no answer to a ping for the node timeout.
timeout(n) ==
  /\ n \in cut /\ flag[n] = "up"
  /\ Flag(n, "pfail")
  /\ clusterUpdateState(n, "pfail", slots[n])
  /\ UNCHANGED <<cut, reports, slots, net, cuts, lost>>

\* A master with slots stays FAIL until nobody seems to care for its slots.
clearNodeFailureIfNeeded(n) == ~slots[n] \/ old[n]

\* Its PONG.
pong(n) ==
  /\ n \notin cut
  /\ flag[n] = "pfail" \/ (flag[n] = "fail" /\ clearNodeFailureIfNeeded(n))
  /\ Flag(n, "up")
  /\ clusterUpdateState(n, "up", slots[n])
  /\ UNCHANGED <<cut, reports, slots, net, cuts, lost>>

\* fail_time is twice the node timeout ago.
age(n) ==
  /\ flag[n] = "fail" /\ ~old[n]
  /\ old' = [old EXCEPT ![n] = TRUE]
  /\ UNCHANGED <<cut, flag, reports, slots, state, minority, net, said, cuts, lost>>

\* The rejoin delay is over; clusterCron keeps looking while the state is FAIL.
rejoin(n) ==
  /\ minority[n]
  /\ LET f == flag[n]
         sz == Cardinality(Masters) - (IF slots[n] THEN 0 ELSE 1)
         minor == sz - (IF slots[n] /\ f # "up" THEN 1 ELSE 0) < sz \div 2 + 1
     IN /\ ~minor
        /\ minority' = [minority EXCEPT ![n] = FALSE]
        /\ state' = [state EXCEPT ![n] = IF Full /\ slots[n] /\ f = "fail" THEN "fail" ELSE "ok"]
  /\ UNCHANGED <<cut, flag, old, reports, slots, net, said, cuts, lost>>

-----------------------------------------------------------------------------
Sent(n) == {p \in net : p.from = n}

\* Target as an entry of the gossip section: among the flagged nodes or not.
Failing(n) == IF flag[n] # "up" THEN {Target} ELSE {}

\* Who gets a PING of n that has Target in it: all when it is PFAIL, which the
\* end of every section lists; healthy and FAIL nodes are drawn at random.
Gossiped(n) ==
  LET all == Observers \ {n} IN IF flag[n] = "pfail" THEN {all} ELSE SUBSET all \ {{}}

clusterSendPing(n, to) ==
  /\ Sent(n) = {} /\ Cardinality({p.from : p \in net}) < MaxTalkers
  /\ to \in Gossiped(n)
  /\ net' = net \cup {[type |-> "ping", from |-> n, to |-> m, failing |-> Failing(n)] : m \in to}
  /\ UNCHANGED <<cut, flag, old, reports, slots, state, minority, said, cuts, lost>>

clusterSendFail(n) ==
  {[type |-> "fail", from |-> n, to |-> m, failing |-> {Target}] : m \in Observers \ {n}}

\* Mutant: a replica counts itself too.
CountMyself(n, r) == flag[n] = "pfail" /\ Cardinality(r) + 1 >= Quorum(n)

markNodeAsFailingIfNeeded(n, r) ==
  flag[n] = "pfail" /\ Cardinality(r) + (IF n \in Masters THEN 1 ELSE 0) >= Quorum(n)

\* clusterNodeAddFailureReport and clusterNodeDelFailureReport: masters only.
FailureReport(n, p) ==
  CASE p.from \notin Masters -> reports[n]
    [] p.from \in Masters /\ Target \in p.failing -> reports[n] \cup {p.from}
    [] OTHER -> reports[n] \ {p.from}

clusterProcessGossipSection(n, p) ==
  LET r == FailureReport(n, p)
  IN /\ p.type = "ping"
     /\ reports' = [reports EXCEPT ![n] = r]
     /\ IF p.from \in Masters /\ Target \in p.failing /\ markNodeAsFailingIfNeeded(n, r)
        THEN /\ Flag(n, "fail")
             /\ net' = (net \ {p}) \cup clusterSendFail(n)
             /\ clusterUpdateState(n, "fail", slots[n])
        ELSE net' = net \ {p} /\ UNCHANGED <<flag, old, said, state, minority>>

\* A FAIL packet does not ask what the node sees.
processFail(n, p) ==
  /\ p.type = "fail"
  /\ net' = net \ {p}
  /\ IF flag[n] # "fail"
     THEN Flag(n, "fail") /\ clusterUpdateState(n, "fail", slots[n])
     ELSE UNCHANGED <<flag, old, said, state, minority>>
  /\ UNCHANGED reports

receive(p) ==
  /\ clusterProcessGossipSection(p.to, p) \/ processFail(p.to, p)
  /\ UNCHANGED <<cut, slots, cuts, lost>>

\* A report that was not repeated in time.
clusterNodeCleanupFailureReports(n, m) ==
  /\ m \in reports[n] /\ flag[m] # "pfail" /\ Sent(m) = {}
  /\ reports' = [reports EXCEPT ![n] = @ \ {m}]
  /\ UNCHANGED <<cut, flag, old, slots, state, minority, net, said, cuts, lost>>

\* n learns that a replica took over (see RedisClusterElection), which needs
\* the votes of masters that have Target as FAIL.
failover(n) ==
  /\ slots[n] /\ Cardinality({m \in Masters \ {Target} : flag[m] = "fail" \/ ~slots[m]}) >= Quorum(n)
  /\ slots' = [slots EXCEPT ![n] = FALSE]
  /\ clusterUpdateState(n, flag[n], FALSE)
  /\ UNCHANGED <<cut, flag, old, reports, net, said, cuts, lost>>

-----------------------------------------------------------------------------
\* The network changes; said starts again when Target was fine everywhere.
partition ==
  /\ cuts < MaxCuts
  /\ \E c \in SUBSET Observers : c # cut /\ cut' = c
  /\ said' = IF (\A n \in Observers : flag[n] = "up" /\ reports[n] = {}) /\ net = {} THEN {} ELSE said
  /\ cuts' = cuts + 1
  /\ UNCHANGED <<flag, old, reports, slots, state, minority, net, lost>>

lose ==
  /\ lost < MaxLost
  /\ \E p \in net : net' = net \ {p}
  /\ lost' = lost + 1
  /\ UNCHANGED <<cut, flag, old, reports, slots, state, minority, said, cuts>>

Look(n) == timeout(n) \/ pong(n) \/ age(n) \/ rejoin(n)

Talk(n) == (\E to \in SUBSET Observers : clusterSendPing(n, to)) \/ \E p \in Sent(n) : receive(p)

Next ==
  \/ \E n \in Observers : Look(n) \/ Talk(n) \/ failover(n)
  \/ \E n \in Observers, m \in Masters \ {Target} : clusterNodeCleanupFailureReports(n, m)
  \/ partition \/ lose

Spec == Init /\ [][Next]_vars

\* clusterCron runs ten times a second and pings everybody again and again; it
\* reconnects to Target first, so that the random choice falls on it, too.
Fairness ==
  /\ \A n \in Observers : WF_vars(Look(n))
  /\ \A n \in Observers : SF_vars(clusterSendPing(n, Observers \ {n})) /\ WF_vars(Talk(n))

FairSpec == Spec /\ Fairness

-----------------------------------------------------------------------------
Packets == [type : {"ping", "fail"}, from : Observers, to : Observers, failing : SUBSET {Target}]

\* The types; only a node that is flagged has an age, and nobody writes to itself.
TypeOK ==
  /\ cut \subseteq Observers /\ said \subseteq Masters \ {Target}
  /\ flag \in [Observers -> {"up", "pfail", "fail"}]
  /\ reports \in [Observers -> SUBSET (Masters \ {Target})]
  /\ slots \in [Observers -> BOOLEAN] /\ minority \in [Observers -> BOOLEAN]
  /\ state \in [Observers -> {"ok", "fail"}]
  /\ old \in [Observers -> BOOLEAN] /\ \A n \in Observers : old[n] => flag[n] = "fail"
  /\ net \subseteq Packets /\ \A p \in net : p.from # p.to
  /\ cuts \in 0..MaxCuts /\ lost \in 0..MaxLost

\* The size of the smallest majority some node asks for: a master whose slots
\* were taken over does not count any more.
Majority ==
  (Cardinality(Masters) - (IF \A n \in Observers : slots[n] THEN 0 ELSE 1)) \div 2 + 1

\* "The majority of the masters signaled the node is down": nobody has Target
\* as FAIL unless that many masters had lost it since it was last fine.
MajorityLostIt ==
  \A n \in Observers : flag[n] = "fail" => Cardinality(said) >= Majority

\* The first node to turn to FAIL saw it itself, in reports alone nobody
\* believes ("we don't just trust the number of failure reports").
SeenByWhoMarks ==
  (\A n \in Observers : flag[n] # "fail") =>
     \A n \in Observers : flag'[n] = "fail" =>
        flag[n] = "pfail" \/ \E p \in net : p.type = "fail"

\* A node does not serve a cluster it knows to miss slots, or in a minority.
ServesCovered ==
  \A n \in Observers : state[n] = "ok" =>
     /\ Full /\ slots[n] => flag[n] # "fail"
     /\ slots[n] /\ flag[n] # "up" => Cardinality(Masters) - 1 >= Quorum(n)

\* "Eventually the FAIL state will propagate to all the cluster": when nobody
\* reaches Target any more everybody comes to flag it, lost packets or not.
Unreachable == cut = Observers
AllFail == \A n \in Observers : flag[n] = "fail"
\* "The FAIL flag will be cleared after some time": when everybody reaches it
\* again nobody stays with the flag and the cluster is served again.
Reachable == cut = {}
AllUp == \A n \in Observers : flag[n] = "up" /\ state[n] = "ok"
=============================================================================
