------------------------ MODULE RedisClusterElection ------------------------
(***************************************************************************)
(* Redis Cluster: the replicas of one shard compete for the slots of their *)
(* master.  They ask the masters of the other shards for votes, the winner *)
(* takes over with the epoch of its election, and everybody learns the new *)
(* configuration from the headers of later packets, from UPDATE packets,   *)
(* or not yet.                                                             *)
(*                                                                         *)
(* Shard are the nodes of the contested shard, numbered by the order of    *)
(* their IDs; all its slots move together and stand for one.  Voters are   *)
(* the masters of the other shards, which keep their slots.  When a master *)
(* counts as failing is not told here: any replica may try at any time.    *)
(***************************************************************************)
EXTENDS Integers, FiniteSets, FiniteSetsExt

CONSTANTS
  Shard, Voters,
  Ops,         \* out of elect, force, takeover, crash, again
  MaxEpoch,    \* bound on epochs
  MaxHeaders,  \* bound on PINGs and PONGs on their way
  MaxFaults    \* bound on crashes and lost packets

ASSUME ElectionAssumption ==
  /\ Shard \subseteq Nat \ {0} /\ Shard # {} /\ Voters \cap (Shard \cup {0}) = {}
  /\ IsFiniteSet(Shard) /\ IsFiniteSet(Voters)
  /\ Ops \subseteq {"elect", "force", "takeover", "crash", "again"}
  /\ MaxEpoch \in Nat /\ MaxHeaders \in Nat /\ MaxFaults \in Nat

VARIABLES
  node,     \* what each node has in memory
  disk,     \* its nodes.conf
  net,      \* packets on their way
  won,      \* elections won: node and epoch
  votes,    \* votes given: voter, epoch, candidate
  faults

vars == <<node, disk, net, won, votes, faults>>

-----------------------------------------------------------------------------
NoNode == 0
Nodes == Shard \cup Voters
First == Min(Shard)

\* cur, lv: currentEpoch and lastVoteEpoch; ce, so, own: configEpoch, master
\* and the owner of the slots, as this node knows them.
Config0 == [cur |-> 1, lv |-> 0, ce |-> [s \in Shard |-> IF s = First THEN 1 ELSE 0],
            so |-> [s \in Shard |-> IF s = First THEN NoNode ELSE First], own |-> First]

\* An election: not yet, waiting for its time, votes asked for, too old.
NoElection == [st |-> "none", ep |-> 0, count |-> 0]

\* The last vote about each master (voted_time): for which election.
NoVotes == [s \in Shard |-> [who |-> NoNode, ep |-> 0]]

Init ==
  /\ node = [n \in Nodes |-> [cfg |-> Config0, auth |-> NoElection, voted |-> NoVotes]]
  /\ disk = [n \in Nodes |-> Config0]
  /\ net = {} /\ won = {} /\ votes = {} /\ faults = 0

IsMaster(c, n) == n \in Voters \/ c.so[n] = NoNode

MasterOf(c, n) == IF IsMaster(c, n) THEN n ELSE c.so[n]

\* Mutant: half of the voters are enough, the majority's + 1 forgotten.
HalfQuorum == (Cardinality(Voters) + 1) \div 2

\* cluster->size / 2 + 1: every voter serves slots, and the contested shard.
Quorum == (Cardinality(Voters) + 1) \div 2 + 1

\* A header: the epoch and the slots of the sender or of its master.
clusterBuildMessageHdr(type, n, c, to) ==
  LET m == MasterOf(c, n)
  IN [type |-> type, from |-> n, to |-> to, cur |-> c.cur,
      cfg |-> IF m \in Shard THEN c.ce[m] ELSE 0,
      slots |-> c.own = m, so |-> IF n \in Shard THEN c.so[n] ELSE NoNode,
      force |-> FALSE, about |-> NoNode, uep |-> 0]

Headers == {p \in net : p.type = "ping"}

\* Mutant: lastVoteEpoch is not written.
VoteNotSaved(n, c) == [disk EXCEPT ![n] = [c EXCEPT !.lv = disk[n].lv]]

\* clusterBeforeSleep: all but a newer currentEpoch is saved before anything
\* is sent.
clusterSaveConfig(n, c) ==
  IF [c EXCEPT !.cur = 0] = [disk[n] EXCEPT !.cur = 0] THEN disk ELSE [disk EXCEPT ![n] = c]

Become(n, c) == /\ node' = [node EXCEPT ![n].cfg = c]
                /\ disk' = clusterSaveConfig(n, c)

-----------------------------------------------------------------------------
(* Elections.                                                              *)

\* The vote is asked for, in an epoch of its own.
clusterRequestFailoverAuth(n, force) ==
  /\ n \in Shard
  /\ LET c == node[n].cfg
         c1 == [c EXCEPT !.cur = @ + 1]
     IN /\ node[n].auth.st = "delay" /\ ~IsMaster(c, n) /\ c.own = c.so[n] /\ c.cur < MaxEpoch
        /\ node' = [node EXCEPT ![n].cfg = c1, ![n].auth.st = "sent", ![n].auth.ep = c1.cur]
        /\ disk' = [disk EXCEPT ![n] = c1]
        /\ net' = net \cup {[clusterBuildMessageHdr("request", n, c1, m) EXCEPT !.force = force]
                             : m \in Nodes \ {n}}
  /\ UNCHANGED <<won, votes, faults>>

\* An election is scheduled, the first one or after the retry time: no answer
\* to the last one is on its way any more (clusterCron drops a link whose peer
\* is silent for half a node timeout, the retry time is four of them).
ScheduleElection(n) ==
  /\ "elect" \in Ops /\ n \in Shard
  /\ LET c == node[n].cfg
     IN ~IsMaster(c, n) /\ c.own = c.so[n] /\ c.cur < MaxEpoch
  /\ node[n].auth.st \in {"none", "expired"}
  /\ \A p \in net : ~(p.type = "request" /\ p.from = n) /\ ~(p.type = "ack" /\ p.to = n)
  /\ node' = [node EXCEPT ![n].auth.st = "delay", ![n].auth.count = 0]
  /\ UNCHANGED <<disk, net, won, votes, faults>>

\* auth_timeout has passed.
expire(n) ==
  /\ n \in Shard /\ node[n].auth.st = "sent"
  /\ node' = [node EXCEPT ![n].auth.st = "expired"]
  /\ UNCHANGED <<disk, net, won, votes, faults>>

\* What a node does with a packet's header, before its type matters.
UpdateEpochs(c, p) ==
  [c EXCEPT !.cur = IF p.cur > @ THEN p.cur ELSE @,
            !.ce = IF p.from \in Shard /\ p.cfg > @[p.from] THEN [@ EXCEPT ![p.from] = p.cfg] ELSE @]

\* The last vote about master s is two node timeouts old: that is as long as
\* an election lasts.
TwoTimeoutsAgo(m, s) ==
  LET v == node[m].voted[s]
  IN v.who = NoNode \/ node[v.who].auth.ep # v.ep \/ node[v.who].auth.st # "sent"

\* Only a master with slots votes, once per epoch, for a replica whose
\* configuration of the slots it claims is not outdated.
MayVote(m, c, p) ==
  /\ IsMaster(c, m) /\ (m \in Voters \/ c.own = m)
  /\ p.cur >= c.cur
  /\ c.lv # c.cur
  /\ ~IsMaster(c, p.from)
  /\ c.so[p.from] # m \/ p.force
  /\ TwoTimeoutsAgo(m, c.so[p.from])
  /\ p.slots => c.own = NoNode \/ c.ce[c.own] <= p.cfg

clusterSendFailoverAuthIfNeeded(m) ==
  \E p \in net :
     /\ p.type = "request" /\ p.to = m
     /\ LET c  == UpdateEpochs(node[m].cfg, p)
            c1 == [c EXCEPT !.lv = c.cur]
        IN IF MayVote(m, c, p)
           THEN /\ node' = [node EXCEPT ![m].cfg = c1,
                              ![m].voted[c.so[p.from]] = [who |-> p.from, ep |-> c1.cur]]
                /\ disk' = clusterSaveConfig(m, c1)
                /\ net' = (net \ {p}) \cup {clusterBuildMessageHdr("ack", m, c1, p.from)}
                /\ votes' = votes \cup {<<m, c1.cur, p.from>>}
           ELSE Become(m, c) /\ net' = net \ {p} /\ UNCHANGED votes
     /\ UNCHANGED <<won, faults>>

VoteCounts(n, c, p) ==
  /\ IsMaster(c, p.from) /\ (p.from \in Voters \/ c.own = p.from)
  /\ p.cur >= node[n].auth.ep

receiveAuthAck(n) ==
  \E p \in net :
     /\ p.type = "ack" /\ p.to = n
     /\ LET c == UpdateEpochs(node[n].cfg, p)
        IN /\ node' = [node EXCEPT ![n].cfg = c,
                              ![n].auth.count = IF VoteCounts(n, c, p) THEN @ + 1 ELSE @]
           /\ disk' = clusterSaveConfig(n, c)
     /\ net' = net \ {p}
     /\ UNCHANGED <<won, votes, faults>>

\* The node is a master with all slots of its master; a PONG tells everybody.
clusterFailoverReplaceYourMaster(n, c) ==
  LET c1 == [c EXCEPT !.so[n] = NoNode, !.own = IF @ = c.so[n] THEN n ELSE @]
  IN /\ node' = [node EXCEPT ![n].cfg = c1]
     /\ disk' = [disk EXCEPT ![n] = c1]
     /\ net' = net \cup {clusterBuildMessageHdr("ping", n, c1, m) : m \in Nodes \ {n}}

\* Mutant: half of the masters is enough.
HalfElects(n) ==
  /\ n \in Shard
  /\ LET c == node[n].cfg
         a == node[n].auth
     IN /\ a.st = "sent" /\ a.count >= Quorum - 1 /\ ~IsMaster(c, n) /\ c.own = c.so[n]
        /\ clusterFailoverReplaceYourMaster(n, [c EXCEPT !.ce[n] = IF @ < a.ep THEN a.ep ELSE @])
        /\ won' = won \cup {[who |-> n, ep |-> a.ep]}
  /\ UNCHANGED <<votes, faults>>

\* Quorum reached in time.  Nothing ends the election then: "again" lets a
\* winner that was demoted come back before its time is over.
winElection(n) ==
  /\ n \in Shard
  /\ LET c == node[n].cfg
         a == node[n].auth
     IN /\ a.st = "sent" /\ a.count >= Quorum /\ ~IsMaster(c, n) /\ c.own = c.so[n]
        /\ "again" \in Ops \/ [who |-> n, ep |-> a.ep] \notin won
        /\ clusterFailoverReplaceYourMaster(n, [c EXCEPT !.ce[n] = IF @ < a.ep THEN a.ep ELSE @])
        /\ won' = won \cup {[who |-> n, ep |-> a.ep]}
  /\ UNCHANGED <<votes, faults>>

\* CLUSTER FAILOVER TAKEOVER: a new epoch without asking anybody.
takeover(n) ==
  /\ "takeover" \in Ops /\ n \in Shard
  /\ LET c   == node[n].cfg
         max == Max({c.cur} \cup {c.ce[s] : s \in Shard})
         c1  == IF c.ce[n] = 0 \/ c.ce[n] # max THEN [c EXCEPT !.cur = @ + 1, !.ce[n] = c.cur + 1] ELSE c
     IN /\ ~IsMaster(c, n) /\ c.cur < MaxEpoch
        /\ clusterFailoverReplaceYourMaster(n, c1)
  /\ UNCHANGED <<won, votes, faults>>

-----------------------------------------------------------------------------
(* Learning a configuration.                                               *)

\* s claims the slots with epoch ep: they are bound to it when that is newer;
\* who loses them replicates s, and who replicates a replica moves up.
clusterUpdateSlotsConfigWith(m, c, s, ep, slots) ==
  LET newer == slots /\ c.own # s /\ (c.own = NoNode \/ c.ce[c.own] < ep)
      mine  == newer /\ m \in Shard /\ c.own = MasterOf(c, m)
      c1    == IF newer THEN [c EXCEPT !.own = s] ELSE c
  IN CASE s = m -> c
       [] s # m /\ mine -> [c1 EXCEPT !.so[m] = s]
       [] s # m /\ ~mine /\ m \in Shard /\ ~IsMaster(c1, m) /\ ~IsMaster(c1, c1.so[m]) ->
            [c1 EXCEPT !.so[m] = c1.so[c1.so[m]]]
       [] OTHER -> c1

\* Role switch of the sender.
SetRole(c, p) ==
  CASE p.from \in Voters -> c
    [] p.from \in Shard /\ p.so = NoNode -> [c EXCEPT !.so[p.from] = NoNode]
    [] OTHER -> [c EXCEPT !.so[p.from] = p.so,
                          !.own = IF c.so[p.from] = NoNode /\ @ = p.from THEN NoNode ELSE @]

\* Of two masters with one epoch the one with the smaller ID takes a new one.
clusterHandleConfigEpochCollision(m, c, p) ==
  IF /\ m \in Shard /\ p.from \in Shard /\ IsMaster(c, m) /\ IsMaster(c, p.from)
     /\ p.cfg = c.ce[m] /\ c.ce[p.from] = c.ce[m] /\ p.from > m
  THEN [c EXCEPT !.cur = @ + 1, !.ce[m] = c.cur + 1] ELSE c

\* PING and PONG: epochs, role, slots, and an UPDATE for who is outdated.
clusterProcessPacket(m) ==
  \E p \in Headers :
     /\ p.to = m
     /\ LET c1 == SetRole(UpdateEpochs(node[m].cfg, p), p)
            sm == IF p.from \in Shard THEN MasterOf(c1, p.from) ELSE NoNode
            dirty == sm # NoNode /\ (c1.own = sm) # p.slots
            c2 == IF dirty /\ IsMaster(c1, p.from)
                  THEN clusterUpdateSlotsConfigWith(m, c1, p.from, p.cfg, p.slots) ELSE c1
            old == dirty /\ p.slots /\ c2.own \notin {NoNode, p.from} /\ c2.ce[c2.own] > p.cfg
            c3 == clusterHandleConfigEpochCollision(m, c2, p)
        IN /\ Become(m, c3)
           /\ net' = (net \ {p}) \cup
                (IF old THEN {[clusterBuildMessageHdr("update", m, c2, p.from)
                                 EXCEPT !.about = c2.own, !.uep = c2.ce[c2.own]]}
                        ELSE {})
     /\ UNCHANGED <<won, votes, faults>>

\* UPDATE about another node.
receiveUpdate(m) ==
  \E p \in net :
     /\ p.type = "update" /\ p.to = m
     /\ LET c  == UpdateEpochs(node[m].cfg, p)
            x  == p.about
            c1 == [c EXCEPT !.so[x] = NoNode, !.ce[x] = p.uep]
        IN Become(m, IF c.ce[x] >= p.uep THEN c
                     ELSE clusterUpdateSlotsConfigWith(m, c1, x, p.uep, TRUE))
     /\ net' = net \ {p}
     /\ UNCHANGED <<won, votes, faults>>

\* clusterCron pings everybody it did not hear of lately.
clusterSendPing(n) ==
  /\ Cardinality(Headers) + Cardinality(Nodes) - 1 <= MaxHeaders
  /\ net' = net \cup {clusterBuildMessageHdr("ping", n, node[n].cfg, m) : m \in Nodes \ {n}}
  /\ UNCHANGED <<node, disk, won, votes, faults>>

-----------------------------------------------------------------------------
\* The process restarts with its nodes.conf.
crash(n) ==
  /\ "crash" \in Ops /\ faults < MaxFaults
  /\ LET max == Max({disk[n].cur} \cup {disk[n].ce[s] : s \in Shard})
     IN node' = [node EXCEPT ![n] = [cfg |-> [disk[n] EXCEPT !.cur = max],
                                       auth |-> NoElection, voted |-> NoVotes]]
  /\ faults' = faults + 1
  /\ UNCHANGED <<disk, net, won, votes>>

\* A link breaks.
lose ==
  /\ faults < MaxFaults
  /\ \E p \in net : net' = net \ {p}
  /\ faults' = faults + 1
  /\ UNCHANGED <<node, disk, won, votes>>

Learn(n) == clusterProcessPacket(n) \/ receiveUpdate(n)

Elect(n) ==
  \/ ScheduleElection(n) \/ expire(n)
  \/ \E f \in {FALSE} \cup {"force" \in Ops} : clusterRequestFailoverAuth(n, f)
  \/ receiveAuthAck(n) \/ winElection(n)

Next ==
  \/ \E n \in Shard : Elect(n) \/ takeover(n)
  \/ \E n \in Nodes : clusterSendFailoverAuthIfNeeded(n) \/ Learn(n) \/ clusterSendPing(n) \/ crash(n)
  \/ lose

Spec == Init /\ [][Next]_vars

\* Packets arrive, and clusterCron pings everybody again and again.
Fairness ==
  /\ \A n \in Nodes : WF_vars(clusterProcessPacket(n)) /\ WF_vars(receiveUpdate(n))
  /\ \A n \in Nodes : SF_vars(clusterSendPing(n))

FairSpec == Spec /\ Fairness

-----------------------------------------------------------------------------
ConfigType == [cur : Nat, lv : Nat, ce : [Shard -> Nat],
               so : [Shard -> Shard \cup {NoNode}], own : Shard \cup {NoNode}]

AuthType == [st : {"none", "delay", "sent", "expired"}, ep : Nat, count : Nat]

VotedType == [Shard -> [who : Shard \cup {NoNode}, ep : Nat]]

\* The types of the state of a node, in memory and in nodes.conf.
TypeOK ==
  /\ node \in [Nodes -> [cfg : ConfigType, auth : AuthType, voted : VotedType]]
  /\ disk \in [Nodes -> ConfigType]
  /\ faults \in 0..MaxFaults

\* currentEpoch is the newest epoch a node knows or voted in.
EpochsKnown ==
  \A n \in Nodes : LET c == node[n].cfg IN c.lv <= c.cur /\ \A s \in Shard : c.ce[s] <= c.cur

\* A node votes once in an epoch, also when it restarts in between
\* (lastVoteEpoch is saved before the vote leaves).
OneVotePerEpoch ==
  \A v, w \in votes : v[1] = w[1] /\ v[2] = w[2] => v = w

\* Who wins an election was voted for by a majority of the masters, in that
\* epoch ("the slaves need to get voted by a majority").
MajorityVoted ==
  \A w \in won : Cardinality({v \in votes : v[2] = w.ep /\ v[3] = w.who}) >= Quorum

\* The nodes of the contested shard that voted in an epoch.
ShardVoters(e) == {m \in Shard : \E v \in votes : v[1] = m /\ v[2] = e}

\* "It is not possible that different slaves get the same config epoch during
\* a failover election": so it is as long as at most one node of the shard,
\* its one master, votes in the epoch.  An old master that was not told yet
\* and the new one may both vote for a replica of theirs.
OneWinnerPerEpoch ==
  \A v, w \in won : v.ep = w.ep /\ Cardinality(ShardVoters(v.ep)) <= 1 => v = w

\* A node that holds one owner of the slots is talked into another one by a
\* packet (PING, PONG, UPDATE: clusterUpdateSlotsConfigWith) only when that
\* one's epoch is newer, and by a restart never.
NewerLearned ==
  \A n \in Nodes :
    LET c == node[n].cfg
        d == node'[n].cfg
    IN c.own # d.own /\ NoNode \notin {c.own, d.own} /\ d.own # n => d.ce[d.own] > c.ce[c.own]

\* Nor does a node take the slots for itself with an epoch that is not newer
\* than their owner's.  This is so when elections and takeovers do not meet,
\* for late votes of an old election make a replica win against a takeover
\* that it has heard of meanwhile, and unless an election is won "again".
NewerTaken ==
  \A n \in Nodes :
    LET c == node[n].cfg
        d == node'[n].cfg
    IN c.own # d.own /\ c.own # NoNode /\ d.own = n => d.ce[n] > c.ce[c.own]

\* A master of the shard holds the slots: who hears of another owner is its
\* replica in the same step, and who wins an election takes the slots of the
\* master it replaces (clusterFailoverReplaceYourMaster).  A takeover needs no
\* slots, so a replica may take over from a master that has lost them.
MastersServe ==
  "takeover" \notin Ops =>
     \A n \in Shard : IsMaster(node[n].cfg, n) => node[n].cfg.own = n

\* In the end all nodes agree whom the slots belong to, and who serves them,
\* also when two replicas took them over with one epoch (the smaller ID takes
\* a new epoch, "the last failover wins", and UPDATE packets demote the loser).
Agree ==
  \E s \in Shard : \A n \in Nodes :
    /\ node[n].cfg.own = s
    /\ n \in Shard => (IsMaster(node[n].cfg, n) <=> n = s)
=============================================================================
