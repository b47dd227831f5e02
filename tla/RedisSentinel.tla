---------------------------- MODULE RedisSentinel ----------------------------
(***************************************************************************)
(* Redis Sentinel: the sentinels that watch one master and its replicas    *)
(* agree that the master is down, elect one of them to fail it over, and   *)
(* spread the new configuration with their hello messages.                 *)
(*                                                                         *)
(* A step of a sentinel is one call of its timer, one command or reply it  *)
(* handles, or one INFO output it reads.  Time is left out: a delay or a   *)
(* timeout is a choice of the step that tests it.  A command for a server  *)
(* arrives at once or is lost, INFO shows what the server is now, and a    *)
(* question to another sentinel is answered at once, or the answer is lost *)
(* (one that is late is one that the next call of the timer asks).         *)
(***************************************************************************)
EXTENDS Integers, FiniteSets, FiniteSetsExt

CONSTANTS
  Sentinels, Servers,
  First,          \* the master they are configured with
  Down,           \* servers that do not answer at first
  Quorum,         \* its quorum
  Candidates,     \* bound on who starts a failover
  ParallelSyncs,  \* parallel-syncs
  Nobody,
  Ops,            \* out of hello, forced, reset, restart, crash, doubt, lose, late, forget
  MaxEpoch,       \* bound on current_epoch
  MaxFaults       \* bound on restarts, crashes, resets and commands of users

SentinelAssumption ==
  /\ First \in Servers /\ Down \subseteq Servers /\ Candidates \subseteq Sentinels
  /\ Nobody \notin Sentinels \cup Servers
  /\ Quorum \in Nat \ {0} /\ ParallelSyncs \in Nat \ {0}
  /\ Ops \subseteq {"hello", "forced", "reset", "restart", "crash", "doubt", "lose", "late", "forget"}
  /\ MaxEpoch \in Nat /\ MaxFaults \in Nat

VARIABLES
  node,     \* each sentinel: its memory and its configuration file
  role,     \* whom each server replicates, itself when it is a master
  up,       \* the servers that answer
  hello,    \* what each sentinel published last
  voted,    \* votes given: sentinel, epoch, leader
  elected,  \* elections won: sentinel, failover_epoch, epoch of the votes
  faults

vars == <<node, role, up, hello, voted, elected, faults>>

-----------------------------------------------------------------------------
NoAnswer == [down |-> FALSE, leader |-> Nobody, epoch |-> 0]
Plain == [r \in Servers |-> "none"]

\* The master instance and what is known through it.
Memory(epoch, addr, cepoch, lepoch, slaves, peers) ==
  [epoch |-> epoch, addr |-> addr, cepoch |-> cepoch, leader |-> Nobody, lepoch |-> lepoch,
   slaves |-> slaves, peers |-> peers, sdown |-> FALSE, fs |-> "none", fepoch |-> 0,
   force |-> FALSE, promoted |-> Nobody, conf |-> Plain,
   ans |-> [t \in Sentinels |-> NoAnswer]]

\* The address to tell others: the promoted slave's once it is a master.
sentinelGetCurrentMasterAddress(m) ==
  IF m.promoted # Nobody /\ m.fs = "reconf_slaves" THEN m.promoted ELSE m.addr

rewriteConfigSentinelOption(m) ==
  LET a == sentinelGetCurrentMasterAddress(m)
  IN [epoch |-> m.epoch, addr |-> a, cepoch |-> m.cepoch, lepoch |-> m.lepoch,
      slaves |-> {IF r = a THEN m.addr ELSE r : r \in m.slaves}, peers |-> m.peers]

sentinelHandleConfiguration(d) ==
  Memory(Max({d.epoch, d.cepoch}), d.addr, d.cepoch, d.lepoch, d.slaves, d.peers)

sentinelFlushConfig(n) == [n EXCEPT !.disk = rewriteConfigSentinelOption(n.mem)]

Init ==
  LET m(s) == Memory(0, First, 0, 0, Servers \ {First}, Sentinels \ {s})
  IN /\ node = [s \in Sentinels |->
                  [mem |-> m(s), disk |-> rewriteConfigSentinelOption(m(s))]]
     /\ role = [r \in Servers |-> First] /\ up = Servers \ Down
     /\ hello = [s \in Sentinels |-> [epoch |-> 0, addr |-> First, cepoch |-> 0]]
     /\ voted = {} /\ elected = {} /\ faults = 0

Fault == faults < MaxFaults /\ faults' = faults + 1

-----------------------------------------------------------------------------
\* Down.

\* What the timer may find the master to be: one that does not answer, or
\* that says it is a slave, is down; links may make one look down that is not.
Perceived(m) ==
  IF "doubt" \in Ops THEN BOOLEAN ELSE {m.addr \notin up \/ role[m.addr] # m.addr}

sentinelCheckSubjectivelyDown(n, down) == [n EXCEPT !.mem.sdown = down]

sentinelCheckObjectivelyDown(m) ==
  m.sdown /\ 1 + Cardinality({t \in m.peers : m.ans[t].down}) >= Quorum

-----------------------------------------------------------------------------
\* Votes.

sentinelVoteLeader(n, req, id) ==
  LET a == IF req > n.mem.epoch
           THEN sentinelFlushConfig([n EXCEPT !.mem.epoch = req]) ELSE n
  IN IF a.mem.lepoch < req /\ a.mem.epoch <= req
     THEN sentinelFlushConfig([a EXCEPT !.mem.leader = id, !.mem.lepoch = a.mem.epoch])
     ELSE a

VotesFor(m, c) ==
  Cardinality({t \in m.peers : m.ans[t].leader = c /\ m.ans[t].epoch = m.epoch})

\* Which of the most voted comes first is up to the dictionary.
Favourites(m) ==
  {c \in Sentinels : VotesFor(m, c) > 0 /\ \A d \in Sentinels : VotesFor(m, d) <= VotesFor(m, c)}

\* sentinelGetLeader: the votes of the others as they told, and one's own,
\* given now if it is not yet given.
sentinelGetLeader(n, fav) ==
  LET v == sentinelVoteLeader(n, n.mem.fepoch, fav)
      mine == v.mem.leader # Nobody /\ v.mem.lepoch = n.mem.fepoch
      votes(c) == VotesFor(n.mem, c) + (IF mine /\ v.mem.leader = c THEN 1 ELSE 0)
      winner == IF mine /\ votes(v.mem.leader) > VotesFor(n.mem, fav)
                THEN v.mem.leader ELSE fav
      voters == Cardinality(n.mem.peers) + 1
  IN [n |-> v,
      leader |-> IF votes(winner) >= voters \div 2 + 1 /\ votes(winner) >= Quorum
                 THEN winner ELSE Nobody]

-----------------------------------------------------------------------------
\* The failover, one state per call of the timer.  Each operator gives the
\* possible outcomes: the sentinel, and the SLAVEOF commands it sends.

Quiet(n) == [n |-> n, sent |-> {}]
SLAVEOF(r, a) == [to |-> r, of |-> a]

sentinelStartFailover(n) ==
  [n EXCEPT !.mem.fs = "wait_start", !.mem.fepoch = n.mem.epoch + 1,
            !.mem.epoch = n.mem.epoch + 1]

\* The delay since the last attempt, or since the vote for another, is over
\* or not.
sentinelStartFailoverIfNeeded(n, s) ==
  IF /\ sentinelCheckObjectivelyDown(n.mem) /\ n.mem.fs = "none"
     /\ s \in Candidates /\ n.mem.epoch < MaxEpoch
  THEN {sentinelStartFailover(n), n}
  ELSE {n}

sentinelAbortFailover(n) ==
  [n EXCEPT !.mem.fs = "none", !.mem.force = FALSE, !.mem.promoted = Nobody]

sentinelFailoverWaitStart(n, s) ==
  UNION {LET g == sentinelGetLeader(n, fav)
         IN IF g.leader = s \/ n.mem.force
            THEN {Quiet([g.n EXCEPT !.mem.fs = "select_slave"])}
            ELSE {Quiet(g.n), Quiet(sentinelAbortFailover(g.n))}
         : fav \in IF Favourites(n.mem) = {} THEN {s} ELSE Favourites(n.mem)}

\* Which replicas qualify and which is best depends on their links, on their
\* priorities and offsets: any that answers may be selected, or none.
sentinelSelectSlave(n) == n.mem.slaves \cap up

sentinelFailoverSelectSlave(n) ==
  {Quiet([n EXCEPT !.mem.fs = "send_noone", !.mem.promoted = r]) : r \in sentinelSelectSlave(n)}
    \cup (IF sentinelSelectSlave(n) = {} \/ "doubt" \in Ops
          THEN {Quiet(sentinelAbortFailover(n))} ELSE {})

sentinelFailoverSendSlaveOfNoOne(n) ==
  IF n.mem.promoted \notin up THEN {Quiet(n), Quiet(sentinelAbortFailover(n))}
  ELSE {[n |-> [n EXCEPT !.mem.fs = "wait_promotion"],
         sent |-> {SLAVEOF(n.mem.promoted, n.mem.promoted)}]}

sentinelFailoverWaitPromotion(n) == {Quiet(n), Quiet(sentinelAbortFailover(n))}

\* sentinelResetMaster: the votes and epochs stay, all else is forgotten.
sentinelResetMaster(n, slaves, peers, addr) ==
  LET m == n.mem
  IN [n EXCEPT !.mem = [Memory(m.epoch, addr, m.cepoch, m.lepoch, slaves, peers)
                          EXCEPT !.ans = [t \in Sentinels |->
                                            IF t \in peers THEN m.ans[t] ELSE NoAnswer],
                                 !.fepoch = m.fepoch]]

sentinelResetMasterAndChangeAddress(n, a) ==
  sentinelFlushConfig(
    sentinelResetMaster(n, (n.mem.slaves \cup {n.mem.addr}) \ {a}, n.mem.peers, a))

\* sentinelFailoverDetectEnd, and when it is the end the switch to the
\* promoted slave at the end of the same timer call.
sentinelFailoverDetectEnd(o) ==
  LET m == o.n.mem
      left == {r \in m.slaves \ {m.promoted} : m.conf[r] # "done" /\ r \in up}
      switched == sentinelResetMasterAndChangeAddress(o.n, m.promoted)
      late == {r \in left : m.conf[r] # "sent"}
  IN IF m.promoted \notin up THEN {o}
     ELSE {[n |-> switched,
            sent |-> o.sent \cup {SLAVEOF(r, m.promoted) : r \in late}]}
          \cup (IF left = {} THEN {[o EXCEPT !.n = switched]} ELSE {o})

\* At most parallel-syncs slaves at a time are told, in any order; one that
\* takes too long is taken for reconfigured.
sentinelFailoverReconfNextSlave(n) ==
  LET m == n.mem
      busy == {r \in m.slaves : m.conf[r] \in {"sent", "inprog"}}
      free == {r \in m.slaves \ {m.promoted} : m.conf[r] = "none" /\ r \in up}
      room == Max({0, ParallelSyncs - Cardinality(busy)})
      told == IF Cardinality(free) <= room THEN {free} ELSE kSubset(room, free)
      late == IF room > 0 THEN SUBSET {r \in m.slaves : m.conf[r] = "sent"} ELSE {{}}
  IN UNION {sentinelFailoverDetectEnd(
              [n |-> [n EXCEPT !.mem.conf = [r \in Servers |->
                        IF r \in x THEN "sent" ELSE IF r \in l THEN "done" ELSE m.conf[r]]],
               sent |-> {SLAVEOF(r, m.promoted) : r \in x}])
            : x \in told, l \in late}

sentinelFailoverStateMachine(n, s) ==
  CASE n.mem.fs = "none" -> {Quiet(n)}
    [] n.mem.fs = "wait_start" -> sentinelFailoverWaitStart(n, s)
    [] n.mem.fs = "select_slave" -> sentinelFailoverSelectSlave(n)
    [] n.mem.fs = "send_noone" -> sentinelFailoverSendSlaveOfNoOne(n)
    [] n.mem.fs = "wait_promotion" -> sentinelFailoverWaitPromotion(n)
    [] n.mem.fs = "reconf_slaves" -> sentinelFailoverReconfNextSlave(n)

\* What others said is forgotten when it is too old.
Stale(m) ==
  IF "forget" \in Ops THEN SUBSET {t \in m.peers : m.ans[t] # NoAnswer} ELSE {{}}

Forget(n, old) ==
  [n EXCEPT !.mem.ans = [t \in Sentinels |->
      IF t \in old THEN [n.mem.ans[t] EXCEPT !.down = FALSE, !.leader = Nobody]
      ELSE n.mem.ans[t]]]

\* SLAVEOF runs, with CONFIG REWRITE, in a transaction, or not at all.
sentinelSendSlaveOf(sent) ==
  {[r \in Servers |-> IF \E c \in got : c.to = r THEN (CHOOSE c \in got : c.to = r).of
                      ELSE role[r]]
   : got \in IF "lose" \in Ops THEN SUBSET sent ELSE {sent}}

NewVotes(s, n) ==
  IF n.mem.leader # Nobody
     /\ <<n.mem.leader, n.mem.lepoch>> # <<node[s].mem.leader, node[s].mem.lepoch>>
  THEN {<<s, n.mem.lepoch, n.mem.leader>>} ELSE {}

\* sentinelHandleRedisInstance on the master, from sentinelTimer.
Timer(s) ==
  \E down \in Perceived(node[s].mem) :
  \E n \in sentinelStartFailoverIfNeeded(sentinelCheckSubjectivelyDown(node[s], down), s) :
  \E o \in sentinelFailoverStateMachine(n, s) :
  \E old \in Stale(o.n.mem) :
  LET end == Forget(o.n, old)
  IN /\ node' = [node EXCEPT ![s] = end]
     /\ voted' = voted \cup NewVotes(s, end)
     /\ role' \in sentinelSendSlaveOf(o.sent)
     /\ elected' = IF end.mem.fs = "select_slave" /\ ~n.mem.force
                   THEN elected \cup {<<s, n.mem.fepoch, n.mem.epoch>>} ELSE elected
     /\ UNCHANGED <<up, hello, faults>>

-----------------------------------------------------------------------------
\* Messages between sentinels.

sentinelReceiveIsMasterDownReply(n, t, reply) ==
  [n EXCEPT !.mem.ans[t] = IF reply.leader = Nobody THEN [@ EXCEPT !.down = reply.down]
                           ELSE reply]

\* Once it takes the master for down, s asks the others, and for their vote
\* when it has started a failover.
sentinelAskMasterStateToOtherSentinels(s, t) ==
  LET m == node[s].mem
      known == node[t].mem.addr = m.addr
      votes == known /\ m.fs # "none"
      n == IF votes THEN sentinelVoteLeader(node[t], m.epoch, s) ELSE node[t]
      reply == [down |-> known /\ node[t].mem.sdown,
                leader |-> IF votes THEN n.mem.leader ELSE Nobody, epoch |-> n.mem.lepoch]
      base == [node EXCEPT ![t] = n]
  IN /\ m.sdown /\ t \in m.peers
     /\ \E lost \in IF "lose" \in Ops THEN BOOLEAN ELSE {FALSE} :
          node' = IF lost THEN base
                  ELSE [base EXCEPT ![s] = sentinelReceiveIsMasterDownReply(@, t, reply)]
     /\ voted' = voted \cup NewVotes(t, n)
     /\ UNCHANGED <<role, up, hello, elected, faults>>

HelloNow(s) ==
  LET m == node[s].mem
  IN [epoch |-> m.epoch, cepoch |-> m.cepoch, addr |-> sentinelGetCurrentMasterAddress(m)]

\* A hello that may still be read when its sender is further.
sentinelSendHello(s) ==
  /\ "late" \in Ops
  /\ hello' = [hello EXCEPT ![s] = HelloNow(s)]
  /\ UNCHANGED <<node, role, up, voted, elected, faults>>

\* A sentinel heard for the first time is added; a newer epoch is written;
\* a newer configuration is taken, and written if the address is another.
sentinelProcessHelloMessage(n, s, h) ==
  LET a == IF s \in n.mem.peers THEN n
           ELSE sentinelFlushConfig([n EXCEPT !.mem.peers = @ \cup {s}])
      b == IF h.epoch > a.mem.epoch
           THEN sentinelFlushConfig([a EXCEPT !.mem.epoch = h.epoch]) ELSE a
      c == IF b.mem.cepoch < h.cepoch THEN [b EXCEPT !.mem.cepoch = h.cepoch] ELSE b
  IN IF b.mem.cepoch < h.cepoch /\ h.addr # b.mem.addr
     THEN sentinelResetMasterAndChangeAddress(c, h.addr) ELSE c

ReceiveHello(t, s) ==
  /\ s # t /\ "hello" \in Ops
  /\ node' = [node EXCEPT ![t] = 
       sentinelProcessHelloMessage(@, s, IF "late" \in Ops THEN hello[s] ELSE HelloNow(s))]
  /\ UNCHANGED <<role, up, hello, voted, elected, faults>>

-----------------------------------------------------------------------------
\* INFO of a server, and commands of users.

sentinelMasterLooksSane(m) == m.addr \in up /\ role[m.addr] = m.addr /\ ~m.sdown

\* The promoted slave is a master now: the failover has its epoch.
Promoted(n) ==
  sentinelFlushConfig([n EXCEPT !.mem.cepoch = n.mem.fepoch, !.mem.fs = "reconf_slaves"])

\* The progress of a slave that was told to replicate the promoted one.
Reconfigured(n, r) ==
  LET c == n.mem.conf[r]
      b == IF c = "sent" /\ role[r] = n.mem.promoted THEN "inprog" ELSE c
  IN [n EXCEPT !.mem.conf[r] = IF b = "inprog" /\ role[r] \in up THEN "done" ELSE b]

sentinelRefreshInstanceInfo(s, r) ==
  LET n == node[s]
      m == n.mem
      new == {q \in up \ m.slaves : role[q] = r /\ q # r}
  IN /\ r \in up /\ r \in m.slaves \cup {m.addr}
     /\ \/ /\ r = m.addr
           /\ node' = [node EXCEPT ![s] =
                         IF new = {} THEN n
                         ELSE sentinelFlushConfig([n EXCEPT !.mem.slaves = @ \cup new])]
           /\ UNCHANGED role
        \/ /\ r # m.addr /\ role[r] = r /\ r = m.promoted /\ m.fs = "wait_promotion"
           /\ node' = [node EXCEPT ![s] = Promoted(n)]
           /\ UNCHANGED role
        \/ /\ r # m.addr /\ role[r] = r /\ r # m.promoted /\ sentinelMasterLooksSane(m)
           /\ role' \in sentinelSendSlaveOf({SLAVEOF(r, m.addr)})
           /\ UNCHANGED node
        \/ /\ r # m.addr /\ role[r] # r
           /\ node' = [node EXCEPT ![s] = Reconfigured(n, r)]
           /\ role' \in IF role[r] # m.addr /\ sentinelMasterLooksSane(m)
                        THEN sentinelSendSlaveOf({SLAVEOF(r, m.addr)}) ELSE {role}
     /\ UNCHANGED <<up, hello, voted, elected, faults>>

\* SENTINEL FAILOVER
FailoverCommand(s) ==
  /\ "forced" \in Ops /\ Fault
  /\ node[s].mem.fs = "none" /\ sentinelSelectSlave(node[s]) # {}
  /\ node[s].mem.epoch < MaxEpoch
  /\ node' = [node EXCEPT ![s] = [sentinelStartFailover(@) EXCEPT !.mem.force = TRUE]]
  /\ UNCHANGED <<role, up, hello, voted, elected>>

\* SENTINEL RESET
ResetCommand(s) ==
  /\ "reset" \in Ops /\ Fault
  /\ node' = [node EXCEPT ![s] = sentinelResetMaster(@, {}, {}, node[s].mem.addr)]
  /\ UNCHANGED <<role, up, hello, voted, elected>>

-----------------------------------------------------------------------------
\* Faults.

Restart(s) ==
  /\ "restart" \in Ops /\ Fault
  /\ node' = [node EXCEPT ![s].mem = sentinelHandleConfiguration(node[s].disk)]
  /\ UNCHANGED <<role, up, hello, voted, elected>>

\* A server goes away, or comes back with the configuration it rewrote.
Crash(r) ==
  /\ "crash" \in Ops /\ Fault
  /\ up' = IF r \in up THEN up \ {r} ELSE up \cup {r}
  /\ UNCHANGED <<node, role, hello, voted, elected>>

Next ==
  \/ \E s \in Sentinels :
       \/ Timer(s) \/ sentinelSendHello(s)
       \/ FailoverCommand(s) \/ ResetCommand(s) \/ Restart(s)
       \/ \E t \in Sentinels : sentinelAskMasterStateToOtherSentinels(s, t) \/ ReceiveHello(s, t)
       \/ \E r \in Servers : sentinelRefreshInstanceInfo(s, r)
  \/ \E r \in Servers : Crash(r)

Spec == Init /\ [][Next]_vars

\* The timers run, INFO and hello messages go on being exchanged, and the
\* questions are answered.
Fairness ==
  \A s \in Sentinels :
    /\ WF_vars(Timer(s))
    /\ \A t \in Sentinels : WF_vars(ReceiveHello(s, t))
    /\ \A r \in Servers : WF_vars(sentinelRefreshInstanceInfo(s, r))

FairSpec == Spec /\ Fairness

-----------------------------------------------------------------------------
\* Properties.

States == {"none", "wait_start", "select_slave", "send_noone", "wait_promotion", "reconf_slaves"}

\* Types; a failover past the selection has its slave among those of the
\* master, as sentinelFailoverReconfNextSlave and the INFO handler rely on
\* when they follow promoted_slave.
TypeOK ==
  /\ role \in [Servers -> Servers] /\ up \subseteq Servers /\ faults \in 0..MaxFaults
  /\ \A s \in Sentinels : LET m == node[s].mem IN
       /\ m.fs \in States /\ m.addr \in Servers /\ m.addr \notin m.slaves
       /\ m.epoch \in 0..MaxEpoch /\ m.cepoch <= m.epoch /\ m.lepoch <= m.epoch
       /\ (m.fs \in {"send_noone", "wait_promotion", "reconf_slaves"}) <=> (m.promoted \in m.slaves)
       /\ (m.promoted = Nobody) => m.conf = Plain

\* A sentinel votes for one leader per epoch, whatever it forgets in a
\* restart or a reset (sentinelVoteLeader).
OneVotePerEpoch ==
  \A v, w \in voted : v[1] = w[1] /\ v[2] = w[2] => v[3] = w[3]

\* Whoever wins with votes of its own epoch was really voted for by a quorum,
\* and is the only one (sentinelGetLeader).
LeaderHasQuorum ==
  \A e \in {x \in elected : x[2] = x[3]} :
    /\ Cardinality({t \in Sentinels : <<t, e[2], e[1]>> \in voted}) >= Quorum
    /\ \A f \in elected : f[2] = f[3] /\ e[2] = f[2] => e[1] = f[1]

\* As long as nobody wins with votes of a later epoch, two sentinels with
\* the same config_epoch, in memory or on disk, name the same master
\* (sentinelProcessHelloMessage, sentinelRefreshInstanceInfo).
EpochNamesMaster ==
  (\A e \in elected : e[2] = e[3]) =>
    \A s, t \in Sentinels : LET m == node[s].mem  n == node[t].mem IN
      /\ m.cepoch = n.cepoch
           => sentinelGetCurrentMasterAddress(m) = sentinelGetCurrentMasterAddress(n)
      /\ m.cepoch = node[t].disk.cepoch
           => sentinelGetCurrentMasterAddress(m) = node[t].disk.addr

\* A sentinel that does not restart never goes back to an older configuration.
ConfigEpochGrows ==
  \A s \in Sentinels : node'[s].mem.cepoch < node[s].mem.cepoch =>
     node'[s].mem = sentinelHandleConfiguration(node[s].disk)

\* A failover whose slave is promoted ends with the switch to it, unless a
\* newer configuration arrives (sentinelAbortFailover).
FailoverReachesEnd ==
  \A s \in Sentinels : LET m == node[s].mem  n == node'[s].mem IN
    m.fs = "reconf_slaves" /\ n.fs # m.fs => n.addr = m.promoted \/ n.cepoch > m.cepoch

\* In the end the sentinels agree on the master, with its epoch (the hellos
\* of sentinelSendHello).
Agree ==
  \A s, t \in Sentinels : LET m == node[s].mem  n == node[t].mem IN
    /\ m.cepoch = n.cepoch
    /\ sentinelGetCurrentMasterAddress(m) = sentinelGetCurrentMasterAddress(n)
\* In the end every server that answers replicates the master that the
\* sentinels name, if that one is well (sentinelFailoverReconfNextSlave,
\* sentinelRefreshInstanceInfo).
Follow ==
  \A s \in Sentinels : LET a == sentinelGetCurrentMasterAddress(node[s].mem) IN
    a \in up /\ role[a] = a => \A r \in up : role[r] = a
=============================================================================
