--------------------- MODULE RedisClusterElectionProofs ---------------------
(***************************************************************************)
(* Elections of Redis Cluster for any shard, any number of other masters   *)
(* and any bounds.  NodesInv relates what a node knows, its nodes.conf and *)
(* the packets on their way; VotesInv adds that lastVoteEpoch is not       *)
(* behind any vote, MajorityInv what a candidate's count stands for.       *)
(* ServeInv is about roles and the owner of the slots.                     *)
(***************************************************************************)
EXTENDS RedisClusterElection, TLAPS, FiniteSetTheorems

\* What the epochs of one node's configuration keep to.
Good(c) ==
  /\ c \in ConfigType
  /\ c.lv <= c.cur
  /\ \A s \in Shard : c.ce[s] <= c.cur

\* d comes after c: nothing but a vote changes lastVoteEpoch.
Follows(c, d) == Good(d) /\ d.lv = c.lv /\ d.cur >= c.cur

\* What a packet on its way keeps to.
PacketOK(p) ==
  /\ p.type \in {"request", "ack", "ping", "update"}
  /\ p.from \in Nodes /\ p.to \in Nodes /\ p.so \in Shard \cup {NoNode}
  /\ p.cur \in Nat /\ p.cfg \in Nat /\ p.uep \in Nat
  /\ p.cfg <= p.cur /\ p.uep <= p.cur
  /\ p.type = "update" => p.about \in Shard
  /\ p.type = "request" => p.from \in Shard
  /\ p.type = "ack" => p.to \in Shard

-----------------------------------------------------------------------------
(* Numbers and finite sets.                                                *)

LEMMA MinNat ==
  ASSUME NEW S \in SUBSET Nat, S # {}
  PROVE  Min(S) \in S /\ \A y \in S : Min(S) <= y
<1> DEFINE Below(x) == {y \in Nat : y <= x}
           T == {Below(x) : x \in S}
<1>1. \A x \in S : IsFiniteSet(Below(x))
  <2>1. TAKE x \in S
  <2>2. Below(x) \in SUBSET Nat /\ \A y \in Below(x) : y <= x
    OBVIOUS
  <2>3. QED
    BY <2>2, FS_BoundedSetOfNaturals
<1>2. T \subseteq FiniteSubsetsOf(Nat) /\ T # {}
  BY <1>1 DEF FiniteSubsetsOf
<1>3. PICK B \in T : \A C \in T : ~(<<C, B>> \in StrictSubsetOrdering(Nat))
  <2> HIDE DEF T
  <2>1. QED
    BY <1>2, FS_StrictSubsetOrderingWellFounded, WFMin
<1>4. PICK x \in S : B = Below(x)
  BY <1>3
<1>5. \A y \in S : x <= y
  <2>1. SUFFICES ASSUME NEW y \in S, y < x PROVE FALSE
    OBVIOUS
  <2>2. Below(y) \subseteq Below(x) /\ x \in Below(x) /\ x \notin Below(y)
    BY <2>1
  <2>3. Below(y) \in T /\ Below(y) \in SUBSET Nat /\ Below(x) \in SUBSET Nat
    OBVIOUS
  <2> HIDE DEF Below, T
  <2>4. <<Below(y), Below(x)>> \in StrictSubsetOrdering(Nat)
    BY <2>2, <2>3 DEF StrictSubsetOrdering
  <2>5. QED
    BY <1>3, <1>4, <2>3, <2>4
<1>6. QED
  BY <1>5 DEF Min

LEMMA MaxNat ==
  ASSUME NEW S \in SUBSET Nat, S # {}, NEW b \in Nat, \A x \in S : x <= b
  PROVE  Max(S) \in S /\ \A y \in S : y <= Max(S)
<1> DEFINE U == {u \in Nat : \A y \in S : y <= u}
<1>1. U \in SUBSET Nat /\ U # {}
  OBVIOUS
<1> DEFINE m == Min(U)
<1>2. m \in U /\ \A y \in U : m <= y
  BY <1>1, MinNat
<1> HIDE DEF m
<1>3. m \in S
  <2>1. SUFFICES ASSUME m \notin S PROVE FALSE
    OBVIOUS
  <2>2. PICK y \in S : TRUE
    OBVIOUS
  <2>3. \A z \in S : z <= m - 1
    BY <1>2, <2>1
  <2>4. m - 1 \in U
    BY <1>2, <2>2, <2>3
  <2>5. QED
    BY <1>2, <2>4
<1>4. \A y \in S : m >= y
  BY <1>2
<1>5. QED
  BY <1>3, <1>4 DEF Max

LEMMA Sets ==
  /\ Shard \subseteq Nodes /\ Voters \subseteq Nodes /\ NoNode \notin Nodes /\ First \in Shard
  /\ IsFiniteSet(Nodes)
<1>1. Shard \subseteq Nodes /\ Voters \subseteq Nodes /\ NoNode \notin Nodes
  BY ElectionAssumption DEF Nodes, NoNode
<1>2. First \in Shard
  BY ElectionAssumption, MinNat DEF First
<1>3. IsFiniteSet(Nodes)
  BY ElectionAssumption, FS_Union DEF Nodes
<1>4. QED
  BY <1>1, <1>2, <1>3

-----------------------------------------------------------------------------
(* What the operators on configurations keep.                              *)

LEMMA EpochRaised ==
  ASSUME NEW f \in [Shard -> Nat], NEW b \in Nat, NEW e \in Nat, NEW x,
         \A s \in Shard : f[s] <= b, e <= b
  PROVE  /\ [f EXCEPT ![x] = e] \in [Shard -> Nat]
         /\ \A s \in Shard : [f EXCEPT ![x] = e][s] <= b
  OBVIOUS

LEMMA UpdateEpochsGood ==
  ASSUME NEW c, Good(c), NEW p, PacketOK(p)
  PROVE  /\ Follows(c, UpdateEpochs(c, p))
         /\ UpdateEpochs(c, p).cur >= p.cur
         /\ p.cur >= UpdateEpochs(c, p).cur => UpdateEpochs(c, p).cur = p.cur
<1> DEFINE d == UpdateEpochs(c, p)
           ce == IF p.from \in Shard /\ p.cfg > c.ce[p.from] THEN [c.ce EXCEPT ![p.from] = p.cfg] ELSE c.ce
           cur == IF p.cur > c.cur THEN p.cur ELSE c.cur
<1>1. d = [c EXCEPT !.cur = cur, !.ce = ce]
  BY DEF UpdateEpochs
<1>2. ce \in [Shard -> Nat] /\ cur \in Nat /\ cur >= c.cur /\ cur >= p.cur
  BY DEF Good, ConfigType, PacketOK
<1>3. \A s \in Shard : ce[s] <= cur
  BY DEF Good, ConfigType, PacketOK
<1>4. p.cur >= cur => cur = p.cur
  BY <1>2 DEF Good, ConfigType, PacketOK
<1> HIDE DEF ce, cur
<1>5. d \in ConfigType /\ d.cur = cur /\ d.ce = ce /\ d.lv = c.lv
  BY <1>1, <1>2 DEF Good, ConfigType
<1>6. QED
  BY <1>2, <1>3, <1>4, <1>5 DEF Good, ConfigType, Follows, PacketOK

LEMMA SetRoleGood ==
  ASSUME NEW c, Good(c), NEW p, PacketOK(p)
  PROVE  /\ Follows(c, SetRole(c, p)) /\ SetRole(c, p).cur = c.cur
         /\ SetRole(c, p).ce = c.ce
<1> DEFINE d == SetRole(c, p)
           so(x) == [c.so EXCEPT ![p.from] = x]
           own == IF c.so[p.from] = NoNode /\ c.own = p.from THEN NoNode ELSE c.own
<1>1. \/ d = c \/ d = [c EXCEPT !.so = so(NoNode)]
      \/ d = [c EXCEPT !.so = so(p.so), !.own = own]
  BY DEF SetRole
<1>2. /\ so(NoNode) \in [Shard -> Shard \cup {NoNode}] /\ so(p.so) \in [Shard -> Shard \cup {NoNode}]
      /\ own \in Shard \cup {NoNode}
  BY DEF Good, ConfigType, PacketOK
<1> HIDE DEF so, own, d
<1>3. c \in ConfigType
  BY DEF Good
<1>4. d \in ConfigType /\ d.cur = c.cur /\ d.ce = c.ce /\ d.lv = c.lv
  <2>1. CASE d = c
    BY <1>3, <2>1
  <2>2. CASE d = [c EXCEPT !.so = so(NoNode)]
    BY <1>2, <1>3, <2>2 DEF ConfigType
  <2>3. CASE d = [c EXCEPT !.so = so(p.so), !.own = own]
    BY <1>2, <1>3, <2>3 DEF ConfigType
  <2>4. QED
    BY <1>1, <2>1, <2>2, <2>3
<1>5. Follows(c, d) /\ d.cur = c.cur /\ d.ce = c.ce
  BY <1>4 DEF Good, ConfigType, Follows
<1>6. QED
  BY <1>5 DEF d

LEMMA SlotsGood ==
  ASSUME NEW c, Good(c), NEW m \in Nodes, NEW s \in Shard, NEW ep \in Nat, NEW slots
  PROVE  LET d == clusterUpdateSlotsConfigWith(m, c, s, ep, slots)
         IN Follows(c, d) /\ d.cur = c.cur /\ d.ce = c.ce
<1> DEFINE d == clusterUpdateSlotsConfigWith(m, c, s, ep, slots)
           c1 == [c EXCEPT !.own = s]
           up(b) == [b EXCEPT !.so[m] = b.so[b.so[m]]]
           to(b) == [b EXCEPT !.so[m] = s]
           Fine(b) == Follows(c, b) /\ b.cur = c.cur /\ b.ce = c.ce
<1>1. \/ d = c \/ d = c1 \/ d = to(c) \/ d = to(c1)
      \/ m \in Shard /\ c.so[m] # NoNode /\ d = up(c)
      \/ m \in Shard /\ c1.so[m] # NoNode /\ d = up(c1)
  BY DEF clusterUpdateSlotsConfigWith, IsMaster
<1>2. Fine(c) /\ Fine(c1)
  BY DEF Good, ConfigType, Follows
<1>3. ASSUME NEW b, Fine(b) PROVE Fine(to(b))
  BY <1>3 DEF Good, ConfigType, Follows
<1>4. ASSUME NEW b, Fine(b), m \in Shard, b.so[m] # NoNode PROVE Fine(up(b))
  BY <1>4 DEF Good, ConfigType, Follows
<1> HIDE DEF d, c1, up, to, Fine
<1>5. Fine(d)
  BY <1>1, <1>2, <1>3, <1>4
<1>6. QED
  BY <1>5 DEF Fine, d

LEMMA CollisionGood ==
  ASSUME NEW c, Good(c), NEW m \in Nodes, NEW p, PacketOK(p)
  PROVE  Follows(c, clusterHandleConfigEpochCollision(m, c, p))
<1> DEFINE d == [c EXCEPT !.cur = c.cur + 1, !.ce[m] = c.cur + 1]
<1>1. \/ clusterHandleConfigEpochCollision(m, c, p) = c
      \/ clusterHandleConfigEpochCollision(m, c, p) = d
  BY DEF clusterHandleConfigEpochCollision
<1>2. Follows(c, c)
  BY DEF Good, ConfigType, Follows
<1>3. Follows(c, d)
  <2> DEFINE ce == [c.ce EXCEPT ![m] = c.cur + 1]
  <2>0. c.ce \in [Shard -> Nat] /\ c.cur \in Nat /\ \A s \in Shard : c.ce[s] <= c.cur
    BY DEF Good, ConfigType
  <2>1. ce \in [Shard -> Nat] /\ \A s \in Shard : ce[s] <= c.cur + 1
    <3>1. c.cur + 1 \in Nat /\ \A s \in Shard : c.ce[s] <= c.cur + 1
      BY <2>0
    <3>2. QED
      BY <2>0, <3>1, EpochRaised
  <2>2. d = [c EXCEPT !.cur = c.cur + 1, !.ce = ce]
    BY DEF Good, ConfigType
  <2> HIDE DEF ce, d
  <2>3. d \in ConfigType /\ d.cur = c.cur + 1 /\ d.ce = ce /\ d.lv = c.lv
    <3>1. c \in ConfigType /\ c.cur + 1 \in Nat
      BY <2>0 DEF Good
    <3>2. QED
      BY <3>1, <2>1, <2>2 DEF ConfigType
  <2>4. QED
    BY <2>1, <2>3 DEF Good, ConfigType, Follows
<1>4. QED
  BY <1>1, <1>2, <1>3

LEMMA HeaderGood ==
  ASSUME NEW c, Good(c), NEW n \in Nodes, NEW to \in Nodes,
         NEW type \in {"request", "ack", "ping", "update"}
  PROVE  LET p == clusterBuildMessageHdr(type, n, c, to)
         IN /\ p.type = type /\ p.from = n /\ p.to = to /\ p.cur = c.cur
            /\ p.so \in Shard \cup {NoNode} /\ p.cfg \in Nat /\ p.cfg <= p.cur /\ p.uep = 0
  BY DEF Good, ConfigType, clusterBuildMessageHdr

LEMMA ImageFinite ==
  ASSUME NEW S, IsFiniteSet(S), NEW f, f = [x \in S |-> f[x]]
  PROVE  IsFiniteSet({f[x] : x \in S})
<1> DEFINE T == {f[x] : x \in S}
<1>1. f \in Surjection(S, T)
  BY DEF Surjection
<1>2. QED
  BY <1>1, FS_Surjection

-----------------------------------------------------------------------------
(* The state of the nodes and the packets between them.                    *)

NodeType == [Nodes -> [cfg : ConfigType, auth : AuthType, voted : VotedType]]

\* nodes.conf holds all of a configuration but a newer currentEpoch.
SavedAs(c, d) ==
  /\ d \in ConfigType /\ d.lv <= d.cur
  /\ d.lv = c.lv /\ d.ce = c.ce /\ d.so = c.so /\ d.own = c.own

MemoryOK == \A n \in Nodes : Good(node[n].cfg) /\ node[n].auth.ep <= node[n].cfg.cur
DiskOK   == \A n \in Nodes : SavedAs(node[n].cfg, disk[n])
NetOK    == IsFiniteSet(net) /\ \A p \in net : PacketOK(p)

NodesInv == TypeOK /\ MemoryOK /\ DiskOK /\ NetOK

\* Node n alone changes, to configuration c.
Changed(n, c) ==
  /\ node' \in NodeType /\ node'[n].cfg = c
  /\ \A m \in Nodes \ {n} : node'[m] = node[m]

\* Its nodes.conf follows.
Written(n, c) ==
  /\ disk' \in [Nodes -> ConfigType] /\ SavedAs(c, disk'[n])
  /\ \A m \in Nodes \ {n} : disk'[m] = disk[m]

\* Nobody votes.
NoVote == votes' = votes /\ \A n \in Nodes : node'[n].cfg.lv = node[n].cfg.lv

\* No election moves on.
NoPoll ==
  /\ \A n \in Shard : node'[n].auth = node[n].auth
  /\ \A p \in net' : p.type \in {"request", "ack"} => p \in net

LEMMA NodeStep ==
  ASSUME NodesInv, NEW n \in Nodes, NEW c, Good(c), Changed(n, c), Written(n, c),
         node'[n].auth.ep <= c.cur, NetOK', faults' \in 0..MaxFaults
  PROVE  NodesInv'
<1>1. TypeOK'
  BY DEF TypeOK, Changed, Written, NodeType
<1>2. MemoryOK'
  BY DEF NodesInv, MemoryOK, Changed
<1>3. DiskOK'
  BY DEF NodesInv, DiskOK, Changed, Written
<1>4. QED
  BY <1>1, <1>2, <1>3 DEF NodesInv

LEMMA CfgChanged ==
  ASSUME TypeOK, NEW n \in Nodes, NEW c \in ConfigType, node' = [node EXCEPT ![n].cfg = c]
  PROVE  /\ Changed(n, c)
         /\ \A m \in Nodes : node'[m].auth = node[m].auth
  BY DEF TypeOK, Changed, NodeType

LEMMA NodeChanged ==
  ASSUME TypeOK, NEW n \in Nodes, NEW r \in [cfg : ConfigType, auth : AuthType, voted : VotedType],
         node' = [node EXCEPT ![n] = r]
  PROVE  Changed(n, r.cfg) /\ node'[n] = r
  BY DEF TypeOK, Changed, NodeType

LEMMA Rewritten ==
  ASSUME TypeOK, NEW n \in Nodes, NEW c, Good(c), disk' = [disk EXCEPT ![n] = c]
  PROVE  Written(n, c)
  BY DEF TypeOK, Written, SavedAs, Good

LEMMA SaveConfig ==
  ASSUME NodesInv, NEW n \in Nodes, NEW c, Good(c), disk' = clusterSaveConfig(n, c)
  PROVE  Written(n, c)
<1>1. CASE disk' = [disk EXCEPT ![n] = c]
  BY <1>1, Rewritten DEF NodesInv
<1>2. CASE disk' = disk /\ [c EXCEPT !.cur = 0] = [disk[n] EXCEPT !.cur = 0]
  <2>1. disk[n] \in ConfigType /\ c \in ConfigType /\ disk[n].lv <= disk[n].cur
    BY DEF NodesInv, TypeOK, DiskOK, SavedAs, Good
  <2> DEFINE a == [c EXCEPT !.cur = 0]
             b == [disk[n] EXCEPT !.cur = 0]
  <2>2. a.lv = c.lv /\ a.ce = c.ce /\ a.so = c.so /\ a.own = c.own
    BY <2>1 DEF ConfigType
  <2>3. b.lv = disk[n].lv /\ b.ce = disk[n].ce /\ b.so = disk[n].so /\ b.own = disk[n].own
    BY <2>1 DEF ConfigType
  <2>4. a = b
    BY <1>2
  <2> HIDE DEF a, b
  <2>5. SavedAs(c, disk[n])
    BY <2>1, <2>2, <2>3, <2>4 DEF SavedAs
  <2>6. QED
    BY <1>2, <2>5 DEF Written, NodesInv, TypeOK
<1>3. QED
  BY <1>1, <1>2 DEF clusterSaveConfig

LEMMA Announced ==
  ASSUME NodesInv, NEW n \in Nodes, NEW c, Good(c),
         net' = net \cup {clusterBuildMessageHdr("ping", n, c, m) : m \in Nodes \ {n}}
  PROVE  NetOK' /\ \A p \in net' : p.type \in {"request", "ack"} => p \in net
<1> DEFINE f == [m \in Nodes \ {n} |-> clusterBuildMessageHdr("ping", n, c, m)]
           T == {f[m] : m \in Nodes \ {n}}
<1>1. net' = net \cup T
  OBVIOUS
<1>2. IsFiniteSet(T)
  <2>1. IsFiniteSet(Nodes \ {n})
    BY Sets, FS_RemoveElement
  <2>2. QED
    BY <2>1, ImageFinite
<1>3. IsFiniteSet(net')
  <2>1. IsFiniteSet(net)
    BY DEF NodesInv, NetOK
  <2> HIDE DEF T
  <2>2. QED
    BY <1>1, <1>2, <2>1, FS_Union, ZenonT(30)
<1>4. \A p \in T : PacketOK(p) /\ p.type = "ping"
  <2>1. ASSUME NEW m \in Nodes \ {n}
        PROVE PacketOK(clusterBuildMessageHdr("ping", n, c, m))
              /\ clusterBuildMessageHdr("ping", n, c, m).type = "ping"
    BY HeaderGood DEF PacketOK, Good, ConfigType
  <2>2. QED
    BY <2>1
<1> HIDE DEF T
<1>5. QED
  BY <1>1, <1>3, <1>4 DEF NodesInv, NetOK

LEMMA NetShrinks ==
  ASSUME NodesInv, NEW p, net' = net \ {p}
  PROVE  NetOK' /\ \A q \in net' : q \in net
  BY FS_RemoveElement DEF NodesInv, NetOK

-----------------------------------------------------------------------------
(* One lemma for each action.                                              *)

LEMMA FollowsOn ==
  ASSUME NEW c, NEW d, NEW e, Good(c), Follows(c, d), Follows(d, e)
  PROVE  Follows(c, e)
  BY DEF Follows, Good, ConfigType

LEMMA Learned ==
  ASSUME NodesInv, NEW n \in Nodes, NEW c, Follows(node[n].cfg, c), Become(n, c),
         NetOK', faults' = faults, votes' = votes
  PROVE  /\ NodesInv' /\ NoVote
         /\ \A m \in Nodes : node'[m].auth = node[m].auth
<1>1. Good(c) /\ c \in ConfigType /\ node[n].cfg \in ConfigType
  BY DEF Follows, Good, NodesInv, TypeOK
<1>2. Changed(n, c) /\ \A m \in Nodes : node'[m].auth = node[m].auth
  BY <1>1, CfgChanged DEF Become, NodesInv
<1>3. Written(n, c)
  BY <1>1, SaveConfig DEF Become
<1>4. node'[n].auth.ep <= c.cur
  <2>1. node[n].auth.ep <= node[n].cfg.cur /\ node[n].auth.ep \in Nat /\ c.cur >= node[n].cfg.cur
    BY DEF NodesInv, MemoryOK, TypeOK, AuthType, Follows
  <2>2. QED
    BY <1>1, <1>2, <2>1 DEF ConfigType
<1>5. NodesInv'
  BY <1>1, <1>2, <1>3, <1>4, NodeStep DEF NodesInv, TypeOK
<1>6. NoVote
  BY <1>2 DEF NoVote, Changed, Follows
<1>7. QED
  BY <1>2, <1>5, <1>6

LEMMA UpdatePacket ==
  ASSUME NEW c, Good(c), NEW m \in Nodes, NEW to \in Nodes, c.own \in Shard,
         NEW p, p = [clusterBuildMessageHdr("update", m, c, to) EXCEPT !.about = c.own, !.uep = c.ce[c.own]]
  PROVE  PacketOK(p) /\ p.type = "update"
<1> DEFINE h == clusterBuildMessageHdr("update", m, c, to)
<1>1. /\ h.type = "update" /\ h.from = m /\ h.to = to /\ h.cur = c.cur
      /\ h.so \in Shard \cup {NoNode} /\ h.cfg \in Nat /\ h.cfg <= h.cur
  BY HeaderGood
<1>2. /\ p.type = h.type /\ p.from = h.from /\ p.to = h.to /\ p.cur = h.cur
      /\ p.so = h.so /\ p.cfg = h.cfg /\ p.about = c.own /\ p.uep = c.ce[c.own]
  BY DEF clusterBuildMessageHdr
<1> HIDE DEF h
<1>3. c.cur \in Nat /\ c.ce[c.own] \in Nat /\ c.ce[c.own] <= c.cur
  BY DEF Good, ConfigType
<1>4. QED
  BY <1>1, <1>2, <1>3 DEF PacketOK

LEMMA PacketStep ==
  ASSUME NodesInv, NEW m \in Nodes, clusterProcessPacket(m)
  PROVE  NodesInv' /\ NoVote /\ NoPoll /\ won' = won
<1>1. PICK p \in Headers : clusterProcessPacket(m)!(p)
  BY DEF clusterProcessPacket
<1>2. p \in net /\ PacketOK(p)
  BY DEF Headers, NodesInv, NetOK
<1> DEFINE c0 == node[m].cfg
           c1 == SetRole(UpdateEpochs(c0, p), p)
           sm == IF p.from \in Shard THEN MasterOf(c1, p.from) ELSE NoNode
           dirty == sm # NoNode /\ (c1.own = sm) # p.slots
           c2 == IF dirty /\ IsMaster(c1, p.from)
                 THEN clusterUpdateSlotsConfigWith(m, c1, p.from, p.cfg, p.slots) ELSE c1
           old == dirty /\ p.slots /\ c2.own \notin {NoNode, p.from} /\ c2.ce[c2.own] > p.cfg
           c3 == clusterHandleConfigEpochCollision(m, c2, p)
           u == [clusterBuildMessageHdr("update", m, c2, p.from) EXCEPT !.about = c2.own, !.uep = c2.ce[c2.own]]
<1>3. /\ Become(m, c3)
      /\ net' = (net \ {p}) \cup (IF old THEN {u} ELSE {})
      /\ won' = won /\ votes' = votes /\ faults' = faults
  BY <1>1
<1>4. Good(c0)
  BY DEF NodesInv, MemoryOK
<1>5. Follows(c0, c1)
  <2>1. Follows(c0, UpdateEpochs(c0, p))
    BY <1>2, <1>4, UpdateEpochsGood
  <2>2. Follows(UpdateEpochs(c0, p), c1)
    BY <1>2, <2>1, SetRoleGood DEF Follows
  <2>3. QED
    BY <1>4, <2>1, <2>2, FollowsOn
<1>6. dirty => p.from \in Shard
  OBVIOUS
<1>7. Follows(c1, c2)
  <2>1. CASE dirty /\ IsMaster(c1, p.from)
    <3>1. c2 = clusterUpdateSlotsConfigWith(m, c1, p.from, p.cfg, p.slots)
      BY <2>1
    <3>2. Good(c1) /\ p.from \in Shard /\ p.cfg \in Nat
      BY <1>2, <1>5, <1>6, <2>1 DEF Follows, PacketOK
    <3> HIDE DEF c2, c1, dirty, sm
    <3>3. QED
      BY <3>1, <3>2, SlotsGood
  <2>2. CASE ~(dirty /\ IsMaster(c1, p.from))
    <3>1. c2 = c1
      BY <2>2
    <3> HIDE DEF c2, c1
    <3>2. QED
      BY <1>5, <3>1 DEF Follows, Good, ConfigType
  <2>3. QED
    BY <2>1, <2>2
<1> HIDE DEF c1, c2, sm, dirty
<1>8. Follows(c0, c2) /\ Good(c2)
  BY <1>4, <1>5, <1>7, FollowsOn DEF Follows
<1>9. Follows(c0, c3)
  <2>1. Follows(c2, c3)
    BY <1>2, <1>8, CollisionGood
  <2>2. QED
    BY <1>4, <1>8, <2>1, FollowsOn
<1>10. old => PacketOK(u) /\ u.type = "update"
  <2>1. SUFFICES ASSUME old PROVE PacketOK(u) /\ u.type = "update"
    OBVIOUS
  <2>2. c2.own \in Shard /\ p.from \in Nodes
    BY <1>2, <1>8, <2>1 DEF Good, ConfigType, PacketOK
  <2>3. QED
    BY <1>8, <2>2, UpdatePacket
<1> HIDE DEF c3, u, old
<1>11. NetOK'
  <2>1. IsFiniteSet(net \ {p}) /\ \A q \in net \ {p} : PacketOK(q)
    BY FS_RemoveElement DEF NodesInv, NetOK
  <2>2. IsFiniteSet((net \ {p}) \cup {u})
    BY <2>1, FS_AddElement
  <2>3. CASE old
    BY <1>3, <1>10, <2>1, <2>2, <2>3 DEF NetOK
  <2>4. CASE ~old
    BY <1>3, <2>1, <2>4 DEF NetOK
  <2>5. QED
    BY <2>3, <2>4
<1>12. \A q \in net' : q.type \in {"request", "ack"} => q \in net
  BY <1>3, <1>10
<1>13. NodesInv' /\ NoVote /\ \A n \in Nodes : node'[n].auth = node[n].auth
  BY <1>3, <1>9, <1>11, Learned
<1>14. QED
  BY <1>3, <1>12, <1>13, Sets DEF NoPoll

LEMMA UpdateStep ==
  ASSUME NodesInv, NEW m \in Nodes, receiveUpdate(m)
  PROVE  NodesInv' /\ NoVote /\ NoPoll /\ won' = won
<1>1. PICK p \in net : receiveUpdate(m)!(p)
  BY DEF receiveUpdate
<1> DEFINE c0 == node[m].cfg
           c == UpdateEpochs(c0, p)
           c1 == [c EXCEPT !.so[p.about] = NoNode, !.ce[p.about] = p.uep]
           d == IF c.ce[p.about] >= p.uep THEN c
                ELSE clusterUpdateSlotsConfigWith(m, c1, p.about, p.uep, TRUE)
<1>2. PacketOK(p) /\ p.about \in Shard /\ p.uep \in Nat
  BY <1>1 DEF NodesInv, NetOK, PacketOK
<1>3. Become(m, d) /\ net' = net \ {p} /\ won' = won /\ votes' = votes /\ faults' = faults
  BY <1>1
<1>4. Good(c0)
  BY DEF NodesInv, MemoryOK
<1>5. Follows(c0, c) /\ c.cur >= p.cur
  BY <1>2, <1>4, UpdateEpochsGood
<1> HIDE DEF c
<1>6. Follows(c, c1)
  <2> DEFINE ce == [c.ce EXCEPT ![p.about] = p.uep]
             so == [c.so EXCEPT ![p.about] = NoNode]
  <2>1. c \in ConfigType /\ c.cur \in Nat /\ c.ce \in [Shard -> Nat] /\ \A s \in Shard : c.ce[s] <= c.cur
    BY <1>5 DEF Follows, Good, ConfigType
  <2>2. p.uep <= c.cur
    BY <1>2, <1>5, <2>1 DEF PacketOK
  <2>3. ce \in [Shard -> Nat] /\ \A s \in Shard : ce[s] <= c.cur
    BY <1>2, <2>1, <2>2, EpochRaised
  <2>4. so \in [Shard -> Shard \cup {NoNode}]
    BY <2>1 DEF ConfigType
  <2>5. c1 = [c EXCEPT !.so = so, !.ce = ce]
    BY <2>1 DEF ConfigType
  <2> HIDE DEF ce, so, c1
  <2>6. c1 \in ConfigType /\ c1.cur = c.cur /\ c1.lv = c.lv /\ c1.ce = ce
    BY <2>1, <2>3, <2>4, <2>5 DEF ConfigType
  <2>7. QED
    BY <1>5, <2>1, <2>3, <2>6 DEF Follows, Good
<1> HIDE DEF c1
<1>7. Follows(c0, d)
  <2>1. Follows(c1, clusterUpdateSlotsConfigWith(m, c1, p.about, p.uep, TRUE))
    <3>1. Good(c1)
      BY <1>6 DEF Follows
    <3>2. QED
      BY <1>2, <3>1, SlotsGood
  <2>2. Follows(c0, clusterUpdateSlotsConfigWith(m, c1, p.about, p.uep, TRUE))
    <3>1. Follows(c0, c1)
      BY <1>4, <1>5, <1>6, FollowsOn
    <3>2. QED
      BY <1>4, <2>1, <3>1, FollowsOn
  <2>3. QED
    BY <1>5, <2>2
<1> HIDE DEF d
<1>8. NetOK' /\ \A q \in net' : q \in net
  BY <1>3, NetShrinks
<1>9. NodesInv' /\ NoVote /\ \A n \in Nodes : node'[n].auth = node[n].auth
  BY <1>3, <1>7, <1>8, Learned
<1>10. QED
  BY <1>3, <1>8, <1>9, Sets DEF NoPoll

LEMMA PingStep ==
  ASSUME NodesInv, NEW n \in Nodes, clusterSendPing(n)
  PROVE  NodesInv' /\ NoVote /\ NoPoll /\ won' = won
<1>1. /\ node' = node /\ disk' = disk /\ faults' = faults /\ votes' = votes /\ won' = won
      /\ net' = net \cup {clusterBuildMessageHdr("ping", n, node[n].cfg, m) : m \in Nodes \ {n}}
  BY DEF clusterSendPing
<1>2. NetOK' /\ \A p \in net' : p.type \in {"request", "ack"} => p \in net
  <2>1. Good(node[n].cfg)
    BY DEF NodesInv, MemoryOK
  <2>2. QED
    BY <1>1, <2>1, Announced
<1>3. QED
  BY <1>1, <1>2 DEF NodesInv, TypeOK, MemoryOK, DiskOK, NoVote, NoPoll

LEMMA LoseStep ==
  ASSUME NodesInv, lose
  PROVE  NodesInv' /\ NoVote /\ NoPoll /\ won' = won
<1>1. PICK p \in net : net' = net \ {p}
  BY DEF lose
<1>2. node' = node /\ disk' = disk /\ votes' = votes /\ won' = won /\ faults' = faults + 1 /\ faults < MaxFaults
  BY DEF lose
<1>3. NetOK' /\ \A q \in net' : q \in net
  BY <1>1, NetShrinks
<1>4. faults' \in 0..MaxFaults
  BY <1>2, ElectionAssumption DEF NodesInv, TypeOK
<1>5. QED
  BY <1>2, <1>3, <1>4 DEF NodesInv, TypeOK, MemoryOK, DiskOK, NoVote, NoPoll

LEMMA ReplaceMaster ==
  ASSUME NodesInv, NEW n \in Shard, NEW c, Follows(node[n].cfg, c),
         clusterFailoverReplaceYourMaster(n, c), votes' = votes, faults' = faults
  PROVE  NodesInv' /\ NoVote /\ NoPoll
<1> DEFINE own == IF c.own = c.so[n] THEN n ELSE c.own
           so == [c.so EXCEPT ![n] = NoNode]
           c1 == [c EXCEPT !.so[n] = NoNode, !.own = own]
<1>1. /\ node' = [node EXCEPT ![n].cfg = c1]
      /\ disk' = [disk EXCEPT ![n] = c1]
      /\ net' = net \cup {clusterBuildMessageHdr("ping", n, c1, m) : m \in Nodes \ {n}}
  BY DEF clusterFailoverReplaceYourMaster
<1>2. c \in ConfigType /\ own \in Shard \cup {NoNode} /\ so \in [Shard -> Shard \cup {NoNode}]
  BY DEF Follows, Good, ConfigType
<1>3. c1 = [c EXCEPT !.so = so, !.own = own]
  BY <1>2 DEF ConfigType
<1> HIDE DEF own, so, c1
<1>4. c1 \in ConfigType /\ c1.cur = c.cur /\ c1.lv = c.lv /\ c1.ce = c.ce
  BY <1>2, <1>3 DEF ConfigType
<1>5. Good(c1) /\ c1.lv = node[n].cfg.lv /\ c1.cur >= node[n].cfg.cur
  BY <1>4 DEF Follows, Good
<1>6. n \in Nodes
  BY Sets
<1>7. Changed(n, c1) /\ \A m \in Nodes : node'[m].auth = node[m].auth
  BY <1>1, <1>4, <1>6, CfgChanged DEF NodesInv
<1>8. Written(n, c1)
  BY <1>1, <1>5, <1>6, Rewritten DEF NodesInv
<1>9. NetOK' /\ \A p \in net' : p.type \in {"request", "ack"} => p \in net
  BY <1>1, <1>5, <1>6, Announced
<1>10. node'[n].auth.ep <= c1.cur
  <2>1. node[n].auth.ep <= node[n].cfg.cur /\ node[n].auth.ep \in Nat /\ node[n].cfg \in ConfigType
    BY <1>6 DEF NodesInv, MemoryOK, TypeOK, AuthType
  <2>2. QED
    BY <1>4, <1>5, <1>6, <1>7, <2>1 DEF ConfigType
<1>11. NodesInv'
  BY <1>5, <1>6, <1>7, <1>8, <1>9, <1>10, NodeStep DEF NodesInv, TypeOK
<1>12. NoVote
  BY <1>5, <1>7 DEF NoVote, Changed
<1>13. QED
  BY <1>7, <1>9, <1>11, <1>12, Sets DEF NoPoll

LEMMA WinStep ==
  ASSUME NodesInv, NEW n \in Shard, winElection(n)
  PROVE  NodesInv' /\ NoVote /\ NoPoll
<1> DEFINE c == node[n].cfg
           a == node[n].auth
           e == IF c.ce[n] < a.ep THEN a.ep ELSE c.ce[n]
           d == [c EXCEPT !.ce[n] = e]
<1>1. clusterFailoverReplaceYourMaster(n, d) /\ votes' = votes /\ faults' = faults
  BY DEF winElection
<1>2. n \in Nodes
  BY Sets
<1>3. /\ c \in ConfigType /\ c.cur \in Nat /\ c.ce \in [Shard -> Nat]
      /\ \A s \in Shard : c.ce[s] <= c.cur
      /\ Good(c) /\ a.ep \in Nat /\ a.ep <= c.cur
  BY <1>2 DEF NodesInv, MemoryOK, Good, ConfigType, TypeOK, AuthType
<1>4. e \in Nat /\ e <= c.cur
  BY <1>3
<1> DEFINE ce == [c.ce EXCEPT ![n] = e]
<1>5. d = [c EXCEPT !.ce = ce]
  BY <1>3 DEF ConfigType
<1> HIDE DEF e, c, d
<1>6. ce \in [Shard -> Nat] /\ \A s \in Shard : ce[s] <= c.cur
  BY <1>3, <1>4, EpochRaised
<1> HIDE DEF ce
<1>7. d \in ConfigType /\ d.cur = c.cur /\ d.lv = c.lv /\ d.ce = ce
  BY <1>3, <1>5, <1>6 DEF ConfigType
<1>8. Follows(c, d)
  BY <1>3, <1>6, <1>7 DEF Follows, Good
<1>9. QED
  BY <1>1, <1>8, ReplaceMaster DEF c

LEMMA TakeoverStep ==
  ASSUME NodesInv, NEW n \in Shard, takeover(n)
  PROVE  NodesInv' /\ NoVote /\ NoPoll /\ won' = won
<1> DEFINE c == node[n].cfg
           d == [c EXCEPT !.cur = c.cur + 1, !.ce[n] = c.cur + 1]
<1>1. PICK x \in {c, d} : clusterFailoverReplaceYourMaster(n, x)
  BY DEF takeover
<1>2. votes' = votes /\ faults' = faults /\ won' = won
  BY DEF takeover
<1>3. n \in Nodes
  BY Sets
<1>4. /\ c \in ConfigType /\ c.cur \in Nat /\ c.ce \in [Shard -> Nat]
      /\ \A s \in Shard : c.ce[s] <= c.cur
      /\ Good(c)
  BY <1>3 DEF NodesInv, MemoryOK, Good, ConfigType
<1>5. c.cur + 1 \in Nat /\ \A s \in Shard : c.ce[s] <= c.cur + 1
  BY <1>4
<1> DEFINE ce == [c.ce EXCEPT ![n] = c.cur + 1]
<1>6. d = [c EXCEPT !.cur = c.cur + 1, !.ce = ce]
  BY <1>4 DEF ConfigType
<1> HIDE DEF c, d
<1>7. ce \in [Shard -> Nat] /\ \A s \in Shard : ce[s] <= c.cur + 1
  BY <1>4, <1>5, EpochRaised
<1> HIDE DEF ce
<1>8. d \in ConfigType /\ d.cur = c.cur + 1 /\ d.lv = c.lv /\ d.ce = ce
  BY <1>4, <1>5, <1>6, <1>7 DEF ConfigType
<1>9. Follows(c, d)
  BY <1>4, <1>7, <1>8 DEF Follows, Good, ConfigType
<1>10. Follows(c, c)
  BY <1>4 DEF Follows, Good, ConfigType
<1>11. QED
  BY <1>1, <1>2, <1>9, <1>10, ReplaceMaster DEF c

LEMMA CrashStep ==
  ASSUME NodesInv, NEW n \in Nodes, crash(n)
  PROVE  /\ NodesInv' /\ NoVote /\ won' = won /\ net' = net
         /\ node'[n].auth.st = "none" /\ \A m \in Nodes \ {n} : node'[m] = node[m]
<1> DEFINE S == {disk[n].cur} \cup {disk[n].ce[s] : s \in Shard}
           c == [disk[n] EXCEPT !.cur = Max(S)]
<1>1. /\ node' = [node EXCEPT ![n] = [cfg |-> c, auth |-> NoElection, voted |-> NoVotes]]
      /\ faults' = faults + 1 /\ faults < MaxFaults
      /\ disk' = disk /\ net' = net /\ won' = won /\ votes' = votes
  BY DEF crash
<1>2. /\ disk[n] \in ConfigType /\ disk[n].cur \in Nat /\ disk[n].lv \in Nat /\ disk[n].lv <= disk[n].cur
      /\ disk[n].ce \in [Shard -> Nat] /\ disk[n].ce = node[n].cfg.ce /\ disk[n].lv = node[n].cfg.lv
      /\ disk[n].so = node[n].cfg.so /\ disk[n].own = node[n].cfg.own
      /\ node[n].cfg.cur \in Nat /\ \A s \in Shard : node[n].cfg.ce[s] <= node[n].cfg.cur
  BY DEF NodesInv, TypeOK, ConfigType, DiskOK, SavedAs, MemoryOK, Good
<1>3. Max(S) \in Nat /\ Max(S) >= disk[n].cur /\ \A s \in Shard : disk[n].ce[s] <= Max(S)
  <2> DEFINE b == disk[n].cur + node[n].cfg.cur
  <2>1. b \in Nat /\ S \in SUBSET Nat /\ S # {}
    BY <1>2
  <2>2. \A x \in S : x <= b
    <3>1. \A s \in Shard : disk[n].ce[s] \in Nat /\ disk[n].ce[s] <= node[n].cfg.cur
      BY <1>2
    <3>2. \A s \in Shard : disk[n].ce[s] <= b
      BY <1>2, <3>1
    <3>3. QED
      BY <1>2, <3>2
  <2> HIDE DEF b
  <2>3. Max(S) \in S /\ \A y \in S : y <= Max(S)
    BY <2>1, <2>2, MaxNat
  <2>4. QED
    BY <1>2, <2>1, <2>3
<1> DEFINE mx == Max(S)
<1> HIDE DEF mx
<1>4. c = [disk[n] EXCEPT !.cur = mx] /\ mx \in Nat /\ mx >= disk[n].cur /\ \A s \in Shard : disk[n].ce[s] <= mx
  BY <1>3 DEF mx
<1> HIDE DEF S, c
<1>5. /\ c \in ConfigType /\ c.cur = mx /\ c.lv = disk[n].lv /\ c.ce = disk[n].ce
      /\ c.so = disk[n].so /\ c.own = disk[n].own
  BY <1>2, <1>4 DEF ConfigType
<1>6. Good(c)
  BY <1>2, <1>4, <1>5 DEF Good
<1>7. Changed(n, c) /\ node'[n].auth.st = "none" /\ node'[n].auth.ep = 0
  <2>1. NoElection \in AuthType /\ NoVotes \in VotedType
    BY DEF NoElection, AuthType, NoVotes, VotedType
  <2>2. QED
    BY <1>1, <1>5, <2>1 DEF Changed, NodeType, NodesInv, TypeOK, NoElection
<1>8. Written(n, c)
  BY <1>1, <1>2, <1>5 DEF Written, SavedAs, NodesInv, TypeOK
<1>9. NetOK' /\ faults' \in 0..MaxFaults /\ node'[n].auth.ep <= c.cur
  BY <1>1, <1>4, <1>5, <1>7, ElectionAssumption DEF NodesInv, NetOK, TypeOK
<1>10. NodesInv'
  BY <1>6, <1>7, <1>8, <1>9, NodeStep
<1>11. NoVote
  BY <1>1, <1>2, <1>5, <1>7 DEF NoVote, Changed
<1>12. QED
  BY <1>1, <1>7, <1>10, <1>11 DEF Changed

LEMMA ScheduleStep ==
  ASSUME NodesInv, NEW n \in Shard, ScheduleElection(n) \/ expire(n)
  PROVE  /\ NodesInv' /\ NoVote /\ won' = won /\ net' = net
         /\ node'[n].auth.ep = node[n].auth.ep
         /\ \A m \in Nodes \ {n} : node'[m] = node[m]
<1>1. n \in Nodes
  BY Sets
<1>2. /\ node' \in NodeType /\ node'[n].cfg = node[n].cfg /\ node'[n].auth.ep = node[n].auth.ep
      /\ \A m \in Nodes \ {n} : node'[m] = node[m]
  <2>1. CASE ScheduleElection(n)
    <3> DEFINE a == [node[n].auth EXCEPT !.st = "delay", !.count = 0]
    <3>1. a \in AuthType /\ a.ep = node[n].auth.ep /\ node[n].cfg \in ConfigType
      BY <1>1 DEF NodesInv, TypeOK, AuthType
    <3> DEFINE r == [node[n] EXCEPT !.auth = a]
    <3>2. node' = [node EXCEPT ![n] = r]
      BY <1>1, <2>1 DEF ScheduleElection, NodesInv, TypeOK
    <3>3. r \in [cfg : ConfigType, auth : AuthType, voted : VotedType] /\ r.cfg = node[n].cfg /\ r.auth = a
      BY <1>1, <3>1 DEF NodesInv, TypeOK
    <3> HIDE DEF a, r
    <3>4. QED
      BY <1>1, <3>1, <3>2, <3>3, NodeChanged DEF Changed, NodesInv
  <2>2. CASE expire(n)
    BY <1>1, <2>2 DEF expire, NodesInv, TypeOK, NodeType, AuthType
  <2>3. QED
    BY <2>1, <2>2
<1>3. disk' = disk /\ net' = net /\ won' = won /\ votes' = votes /\ faults' = faults
  BY DEF ScheduleElection, expire
<1>4. Changed(n, node[n].cfg) /\ Written(n, node[n].cfg)
  BY <1>1, <1>2, <1>3 DEF Changed, Written, NodesInv, TypeOK, DiskOK
<1>5. Good(node[n].cfg) /\ node'[n].auth.ep <= node[n].cfg.cur
  BY <1>1, <1>2 DEF NodesInv, MemoryOK
<1>6. NetOK' /\ faults' \in 0..MaxFaults
  BY <1>3 DEF NodesInv, NetOK, TypeOK
<1>7. NodesInv'
  BY <1>1, <1>4, <1>5, <1>6, NodeStep
<1>8. QED
  BY <1>2, <1>3, <1>7 DEF NoVote

LEMMA AckStep ==
  ASSUME NodesInv, NEW n \in Shard, receiveAuthAck(n)
  PROVE  /\ NodesInv' /\ NoVote /\ won' = won
         /\ \E p \in net : p.type = "ack" /\ p.to = n /\ net' = net \ {p}
         /\ node'[n].auth.st = node[n].auth.st /\ node'[n].auth.ep = node[n].auth.ep
         /\ node'[n].auth.count \in {node[n].auth.count, node[n].auth.count + 1}
         /\ \A m \in Nodes \ {n} : node'[m] = node[m]
<1>0. PICK p \in net : receiveAuthAck(n)!(p)
  BY DEF receiveAuthAck
<1> DEFINE c == UpdateEpochs(node[n].cfg, p)
           k == IF VoteCounts(n, c, p) THEN node[n].auth.count + 1 ELSE node[n].auth.count
           a == [node[n].auth EXCEPT !.count = k]
           r == [node[n] EXCEPT !.cfg = c, !.auth = a]
<1>1. /\ node' = [node EXCEPT ![n].cfg = c, ![n].auth.count = k]
      /\ disk' = clusterSaveConfig(n, c) /\ net' = net \ {p}
      /\ p.type = "ack" /\ p.to = n /\ won' = won /\ votes' = votes /\ faults' = faults
  BY <1>0, Sets DEF NodesInv, TypeOK
<1>2. n \in Nodes /\ PacketOK(p) /\ Good(node[n].cfg) /\ TypeOK
  BY Sets DEF NodesInv, NetOK, MemoryOK
<1>3. Follows(node[n].cfg, c) /\ Good(c) /\ c \in ConfigType /\ node[n].cfg \in ConfigType
  BY <1>2, UpdateEpochsGood DEF Follows, Good
<1>4. k \in Nat /\ k \in {node[n].auth.count, node[n].auth.count + 1}
  BY <1>2 DEF TypeOK, AuthType
<1> HIDE DEF c, k
<1>5. node' = [node EXCEPT ![n] = r]
  BY <1>1, <1>2, ZenonT(30) DEF TypeOK
<1>6. a \in AuthType /\ a.ep = node[n].auth.ep /\ a.st = node[n].auth.st /\ a.count = k
  BY <1>2, <1>4 DEF TypeOK, AuthType
<1> HIDE DEF a
<1>7. r \in [cfg : ConfigType, auth : AuthType, voted : VotedType] /\ r.cfg = c /\ r.auth = a
  BY <1>2, <1>3, <1>6 DEF TypeOK
<1> HIDE DEF r
<1>8. Changed(n, c) /\ node'[n].auth = a
  BY <1>2, <1>5, <1>7, NodeChanged
<1>9. Written(n, c)
  BY <1>1, <1>2, <1>3, SaveConfig
<1>10. NetOK' /\ faults' \in 0..MaxFaults
  BY <1>1, NetShrinks DEF NodesInv, TypeOK
<1>11. node'[n].auth.ep <= c.cur
  <2>1. node[n].auth.ep <= node[n].cfg.cur /\ node[n].auth.ep \in Nat /\ c.cur >= node[n].cfg.cur
    BY <1>2, <1>3 DEF NodesInv, MemoryOK, TypeOK, AuthType, Follows
  <2>2. QED
    BY <1>3, <1>6, <1>8, <2>1 DEF ConfigType
<1>12. NodesInv'
  BY <1>2, <1>3, <1>8, <1>9, <1>10, <1>11, NodeStep
<1>13. NoVote
  BY <1>1, <1>3, <1>8 DEF NoVote, Changed, Follows
<1>14. \E q \in net : q.type = "ack" /\ q.to = n /\ net' = net \ {q}
  BY <1>1
<1>15. QED
  BY <1>1, <1>4, <1>6, <1>8, <1>12, <1>13, <1>14 DEF Changed

LEMMA RequestStep ==
  ASSUME NodesInv, NEW n \in Shard, NEW force, clusterRequestFailoverAuth(n, force)
  PROVE  /\ NodesInv' /\ NoVote /\ won' = won
         /\ node[n].auth.st = "delay" /\ node'[n].auth.st = "sent"
         /\ node'[n].auth.count = node[n].auth.count
         /\ \A p \in net' : p \in net \/ (p.type = "request" /\ p.from = n /\ p.cur = node'[n].auth.ep)
         /\ \A m \in Nodes \ {n} : node'[m] = node[m]
<1> DEFINE c == node[n].cfg
           c1 == [c EXCEPT !.cur = c.cur + 1]
           a == [node[n].auth EXCEPT !.st = "sent", !.ep = c1.cur]
           r == [node[n] EXCEPT !.cfg = c1, !.auth = a]
           f == [m \in Nodes \ {n} |-> [clusterBuildMessageHdr("request", n, c1, m) EXCEPT !.force = force]]
           T == {f[m] : m \in Nodes \ {n}}
<1>1. /\ node' = [node EXCEPT ![n].cfg = c1, ![n].auth.st = "sent", ![n].auth.ep = c1.cur]
      /\ disk' = [disk EXCEPT ![n] = c1] /\ node[n].auth.st = "delay"
      /\ won' = won /\ votes' = votes /\ faults' = faults
  BY DEF clusterRequestFailoverAuth
<1>2. net' = net \cup T
  BY DEF clusterRequestFailoverAuth
<1>3. n \in Nodes /\ Good(c) /\ TypeOK /\ c \in ConfigType /\ c.cur \in Nat
  BY Sets DEF NodesInv, MemoryOK, Good, ConfigType
<1>4. c1 \in ConfigType /\ c1.cur = c.cur + 1 /\ c1.lv = c.lv /\ c1.ce = c.ce
  BY <1>3 DEF ConfigType
<1>5. Good(c1)
  BY <1>3, <1>4 DEF Good, ConfigType
<1> HIDE DEF c1
<1>6. node' = [node EXCEPT ![n] = r]
  BY <1>1, <1>3 DEF TypeOK
<1>7. a \in AuthType /\ a.ep = c1.cur /\ a.st = "sent" /\ a.count = node[n].auth.count
  <2>1. node[n].auth \in AuthType
    BY <1>3 DEF TypeOK
  <2>2. c1.cur \in Nat
    BY <1>4 DEF ConfigType
  <2>3. QED
    BY <2>1, <2>2 DEF AuthType
<1> HIDE DEF a
<1>8. r \in [cfg : ConfigType, auth : AuthType, voted : VotedType] /\ r.cfg = c1 /\ r.auth = a
  BY <1>3, <1>4, <1>7 DEF TypeOK
<1> HIDE DEF r
<1>9. Changed(n, c1) /\ node'[n].auth = a
  BY <1>3, <1>6, <1>8, NodeChanged
<1>10. Written(n, c1)
  BY <1>1, <1>3, <1>5, Rewritten
<1>11. \A p \in T : PacketOK(p) /\ p.type = "request" /\ p.from = n /\ p.cur = c1.cur
  <2>1. SUFFICES ASSUME NEW m \in Nodes \ {n}
                 PROVE  PacketOK(f[m]) /\ f[m].type = "request" /\ f[m].from = n /\ f[m].cur = c1.cur
    OBVIOUS
  <2> DEFINE h == clusterBuildMessageHdr("request", n, c1, m)
             p == [h EXCEPT !.force = force]
  <2>2. /\ h.type = "request" /\ h.from = n /\ h.to = m /\ h.cur = c1.cur
        /\ h.so \in Shard \cup {NoNode} /\ h.cfg \in Nat /\ h.cfg <= h.cur /\ h.uep = 0
    BY <1>3, <1>5, HeaderGood
  <2>3. /\ p.type = h.type /\ p.from = h.from /\ p.to = h.to /\ p.cur = h.cur
        /\ p.so = h.so /\ p.cfg = h.cfg /\ p.uep = h.uep
    BY DEF clusterBuildMessageHdr
  <2>4. f[m] = p
    OBVIOUS
  <2> HIDE DEF h, p, f
  <2>5. c1.cur \in Nat
    BY <1>4 DEF ConfigType
  <2>6. PacketOK(p)
    BY <1>3, <2>2, <2>3, <2>5 DEF PacketOK
  <2>7. QED
    BY <2>2, <2>3, <2>4, <2>6
<1>12. IsFiniteSet(T)
  <2>1. IsFiniteSet(Nodes \ {n})
    BY Sets, FS_RemoveElement
  <2>2. f = [m \in Nodes \ {n} |-> f[m]]
    OBVIOUS
  <2> HIDE DEF f
  <2>3. QED
    BY <2>1, <2>2, ImageFinite
<1> HIDE DEF T, f
<1>13. NetOK'
  <2>1. IsFiniteSet(net) /\ \A p \in net : PacketOK(p)
    BY DEF NodesInv, NetOK
  <2>2. IsFiniteSet(net \cup T)
    BY <1>12, <2>1, FS_Union
  <2>3. QED
    BY <1>2, <1>11, <2>1, <2>2 DEF NetOK
<1>14. faults' \in 0..MaxFaults /\ node'[n].auth.ep <= c1.cur
  BY <1>1, <1>3, <1>4, <1>7, <1>9 DEF TypeOK, ConfigType
<1>15. NodesInv'
  BY <1>3, <1>5, <1>9, <1>10, <1>13, <1>14, NodeStep
<1>16. NoVote
  BY <1>1, <1>4, <1>9 DEF NoVote, Changed
<1>17. \A p \in net' : p \in net \/ (p.type = "request" /\ p.from = n /\ p.cur = node'[n].auth.ep)
  BY <1>2, <1>7, <1>9, <1>11
<1>18. QED
  BY <1>1, <1>7, <1>9, <1>15, <1>16, <1>17 DEF Changed

\* Node m answers request p with its vote, the first one in the epoch of p.
Voted(m, p) ==
  /\ p.type = "request" /\ p.to = m
  /\ node'[m].cfg.lv = p.cur /\ node[m].cfg.lv < p.cur
  /\ \A n \in Nodes \ {m} : node'[n].cfg.lv = node[n].cfg.lv
  /\ \A n \in Nodes : node'[n].auth = node[n].auth
  /\ \E q : q.type = "ack" /\ q.to = p.from /\ net' = (net \ {p}) \cup {q}
  /\ votes' = votes \cup {<<m, p.cur, p.from>>}

LEMMA VoteStep ==
  ASSUME NodesInv, NEW m \in Nodes, clusterSendFailoverAuthIfNeeded(m)
  PROVE  /\ NodesInv' /\ won' = won
         /\ (NoVote /\ NoPoll) \/ (\E p \in net : Voted(m, p))
<1>0. PICK p \in net : clusterSendFailoverAuthIfNeeded(m)!(p)
  BY DEF clusterSendFailoverAuthIfNeeded
<1> DEFINE c0 == node[m].cfg
           c == UpdateEpochs(c0, p)
           c1 == [c EXCEPT !.lv = c.cur]
           s == c.so[p.from]
           vv == [node[m].voted EXCEPT ![s] = [who |-> p.from, ep |-> c1.cur]]
           r == [node[m] EXCEPT !.cfg = c1, !.voted = vv]
           q == clusterBuildMessageHdr("ack", m, c1, p.from)
<1>1. p.type = "request" /\ p.to = m /\ won' = won /\ faults' = faults
  BY <1>0
<1>2. PacketOK(p) /\ p.from \in Shard /\ p.from \in Nodes /\ p.cur \in Nat
  BY <1>1 DEF NodesInv, NetOK, PacketOK
<1>3. Good(c0) /\ TypeOK
  BY DEF NodesInv, MemoryOK
<1>4. Follows(c0, c) /\ c.cur >= p.cur /\ (p.cur >= c.cur => c.cur = p.cur)
  BY <1>2, <1>3, UpdateEpochsGood
<1>5. CASE MayVote(m, c, p)
  <2>1. /\ node' = [node EXCEPT ![m].cfg = c1, ![m].voted[s] = [who |-> p.from, ep |-> c1.cur]]
        /\ disk' = clusterSaveConfig(m, c1)
        /\ net' = (net \ {p}) \cup {q}
        /\ votes' = votes \cup {<<m, c1.cur, p.from>>}
    BY <1>0, <1>5
  <2>2. c.cur = p.cur /\ c.lv # c.cur
    BY <1>4, <1>5 DEF MayVote
  <2> HIDE DEF c
  <2>3. c \in ConfigType /\ c.cur \in Nat /\ c.lv \in Nat /\ c.lv <= c.cur /\ c.lv = c0.lv /\ c.cur >= c0.cur
    BY <1>4 DEF Follows, Good, ConfigType
  <2>4. c1 \in ConfigType /\ c1.cur = c.cur /\ c1.lv = c.cur /\ c1.ce = c.ce
    BY <2>3 DEF ConfigType
  <2>5. Good(c1)
    BY <1>4, <2>3, <2>4 DEF Follows, Good
  <2> HIDE DEF c1
  <2>6. node' = [node EXCEPT ![m] = r]
    BY <1>3, <2>1 DEF TypeOK
  <2>7. vv \in VotedType
    BY <1>2, <1>3, <2>3, <2>4 DEF TypeOK, VotedType
  <2> HIDE DEF vv
  <2>8. /\ r \in [cfg : ConfigType, auth : AuthType, voted : VotedType]
        /\ r.cfg = c1 /\ r.auth = node[m].auth
    BY <1>3, <2>4, <2>7 DEF TypeOK
  <2> HIDE DEF r
  <2>9. Changed(m, c1) /\ node'[m].auth = node[m].auth
    BY <1>3, <2>6, <2>8, NodeChanged
  <2>10. Written(m, c1)
    BY <2>1, <2>5, SaveConfig
  <2>11. PacketOK(q) /\ q.type = "ack" /\ q.to = p.from
    <3>1. /\ q.type = "ack" /\ q.from = m /\ q.to = p.from /\ q.cur = c1.cur
          /\ q.so \in Shard \cup {NoNode} /\ q.cfg \in Nat /\ q.cfg <= q.cur /\ q.uep = 0
      BY <1>2, <2>5, HeaderGood
    <3> HIDE DEF q
    <3>2. QED
      BY <1>2, <2>3, <2>4, <3>1 DEF PacketOK
  <2> HIDE DEF q
  <2>12. NetOK'
    <3>1. IsFiniteSet(net \ {p}) /\ \A x \in net \ {p} : PacketOK(x)
      BY FS_RemoveElement DEF NodesInv, NetOK
    <3>2. IsFiniteSet((net \ {p}) \cup {q})
      BY <3>1, FS_AddElement
    <3>3. QED
      BY <2>1, <2>11, <3>1, <3>2 DEF NetOK
  <2>13. node'[m].auth.ep <= c1.cur
    <3>1. node[m].auth.ep <= c0.cur /\ node[m].auth.ep \in Nat /\ c0.cur \in Nat
      BY DEF NodesInv, MemoryOK, TypeOK, AuthType, Good, ConfigType
    <3>2. QED
      BY <2>3, <2>4, <2>9, <3>1
  <2>14. NodesInv'
    BY <1>1, <1>3, <2>5, <2>9, <2>10, <2>12, <2>13, NodeStep DEF TypeOK
  <2>15. node'[m].cfg.lv = p.cur /\ node[m].cfg.lv < p.cur
    BY <2>2, <2>3, <2>4, <2>9 DEF Changed
  <2>16. Voted(m, p)
    <3>1. /\ \A n \in Nodes \ {m} : node'[n].cfg.lv = node[n].cfg.lv
          /\ \A n \in Nodes : node'[n].auth = node[n].auth
      BY <2>9 DEF Changed
    <3>2. votes' = votes \cup {<<m, p.cur, p.from>>}
      BY <2>1, <2>2, <2>4
    <3>3. QED
      BY <1>1, <2>1, <2>11, <2>15, <3>1, <3>2 DEF Voted
  <2>17. QED
    BY <1>1, <2>14, <2>16
<1>6. CASE ~MayVote(m, c, p)
  <2>1. Become(m, c) /\ net' = net \ {p} /\ votes' = votes
    BY <1>0, <1>6
  <2>2. NetOK' /\ \A x \in net' : x \in net
    BY <2>1, NetShrinks
  <2> HIDE DEF c
  <2>3. NodesInv' /\ NoVote /\ \A n \in Nodes : node'[n].auth = node[n].auth
    BY <1>1, <1>4, <2>1, <2>2, Learned
  <2>4. QED
    BY <1>1, <2>2, <2>3, Sets DEF NoPoll
<1>7. QED
  BY <1>5, <1>6

-----------------------------------------------------------------------------
(* Types and epochs.                                                       *)

LEMMA NodesInit == Init => NodesInv
<1>1. SUFFICES ASSUME Init PROVE NodesInv
  OBVIOUS
<1> DEFINE ce == [s \in Shard |-> IF s = First THEN 1 ELSE 0]
           so == [s \in Shard |-> IF s = First THEN NoNode ELSE First]
<1>2. ce \in [Shard -> Nat] /\ so \in [Shard -> Shard \cup {NoNode}] /\ \A s \in Shard : ce[s] <= 1
  BY Sets
<1>3. Config0 = [cur |-> 1, lv |-> 0, ce |-> ce, so |-> so, own |-> First]
  BY DEF Config0
<1> HIDE DEF ce, so
<1>4. Config0 \in ConfigType /\ Good(Config0) /\ SavedAs(Config0, Config0)
  BY <1>2, <1>3, Sets DEF ConfigType, Good, SavedAs
<1>5. NoElection \in AuthType /\ NoElection.ep = 0 /\ NoVotes \in VotedType
  BY DEF NoElection, AuthType, NoVotes, VotedType
<1>6. /\ node = [n \in Nodes |-> [cfg |-> Config0, auth |-> NoElection, voted |-> NoVotes]]
      /\ disk = [n \in Nodes |-> Config0] /\ net = {} /\ faults = 0
  BY <1>1 DEF Init
<1>7. TypeOK
  BY <1>4, <1>5, <1>6, ElectionAssumption DEF TypeOK
<1>8. MemoryOK /\ DiskOK
  <2>1. Config0.cur = 1
    BY <1>3
  <2>2. \A n \in Nodes : node[n].cfg = Config0 /\ node[n].auth = NoElection /\ disk[n] = Config0
    BY <1>6
  <2>3. QED
    BY <1>4, <1>5, <2>1, <2>2 DEF MemoryOK, DiskOK
<1>9. NetOK
  BY <1>6, FS_EmptySet DEF NetOK
<1>10. QED
  BY <1>7, <1>8, <1>9 DEF NodesInv

LEMMA NodesStep ==
  ASSUME NodesInv, [Next]_vars
  PROVE  NodesInv' /\ (NoVote \/ \E m \in Nodes, p \in net : Voted(m, p))
<1>1. ASSUME NEW n \in Shard, Elect(n)
      PROVE  NodesInv' /\ NoVote
  <2>1. CASE ScheduleElection(n) \/ expire(n)
    BY <2>1, ScheduleStep
  <2>2. ASSUME NEW f \in {FALSE} \cup {"force" \in Ops}, clusterRequestFailoverAuth(n, f)
        PROVE  NodesInv' /\ NoVote
    BY <2>2, RequestStep
  <2>3. CASE receiveAuthAck(n)
    BY <2>3, AckStep
  <2>4. CASE winElection(n)
    BY <2>4, WinStep
  <2>5. QED
    BY <1>1, <2>1, <2>2, <2>3, <2>4 DEF Elect
<1>2. ASSUME NEW n \in Shard, takeover(n)
      PROVE  NodesInv' /\ NoVote
  BY <1>2, TakeoverStep
<1>3. ASSUME NEW n \in Nodes, clusterSendFailoverAuthIfNeeded(n)
      PROVE  NodesInv' /\ (NoVote \/ \E m \in Nodes, p \in net : Voted(m, p))
  BY <1>3, VoteStep
<1>4. ASSUME NEW n \in Nodes, Learn(n) \/ clusterSendPing(n) \/ crash(n)
      PROVE  NodesInv' /\ NoVote
  BY <1>4, PacketStep, UpdateStep, PingStep, CrashStep DEF Learn
<1>5. CASE lose
  BY <1>5, LoseStep
<1>6. CASE UNCHANGED vars
  <2>1. node' = node /\ disk' = disk /\ net' = net /\ votes' = votes /\ faults' = faults
    BY <1>6 DEF vars
  <2>2. QED
    BY <2>1 DEF NodesInv, TypeOK, MemoryOK, DiskOK, NetOK, NoVote
<1>7. QED
  BY <1>1, <1>2, <1>3, <1>4, <1>5, <1>6 DEF Next

LEMMA NodesAlways == Spec => []NodesInv
<1>1. NodesInv /\ [Next]_vars => NodesInv'
  BY NodesStep
<1>2. QED
  BY <1>1, NodesInit, PTL DEF Spec

\* What the nodes of a cluster of any size have in memory and in nodes.conf
\* keeps its types: roles, epochs and slots taken from packets name nodes of the
\* shard and epochs that exist (clusterState and clusterNode in cluster.h).
THEOREM ElectionTypeCorrect == Spec => []TypeOK
<1>1. NodesInv => TypeOK
  BY DEF NodesInv
<1>2. QED
  BY <1>1, NodesAlways, PTL

\* currentEpoch is never behind a configEpoch a node knows or a vote it gave,
\* whatever packets it processed and also after it restarted with a nodes.conf
\* that holds an older currentEpoch (clusterLoadConfig raises it).
THEOREM EpochsAlwaysKnown == Spec => []EpochsKnown
<1>1. NodesInv => EpochsKnown
  BY DEF NodesInv, MemoryOK, Good, EpochsKnown
<1>2. QED
  BY <1>1, NodesAlways, PTL

\* nodes.conf holds what the node has in memory, but for currentEpoch.
ConfigSaved ==
  \A n \in Nodes : LET c == node[n].cfg
                       d == disk[n]
                   IN d.lv = c.lv /\ d.ce = c.ce /\ d.so = c.so /\ d.own = c.own

\* Whenever another process or a packet can see a node, its vote, its roles,
\* epochs and slots are in nodes.conf (clusterBeforeSleep saves them before
\* replies leave): a restart loses none of them.
THEOREM RestartLosesNothing == Spec => []ConfigSaved
<1>1. NodesInv => ConfigSaved
  BY DEF NodesInv, DiskOK, SavedAs, ConfigSaved
<1>2. QED
  BY <1>1, NodesAlways, PTL

-----------------------------------------------------------------------------
(* Votes.                                                                  *)

\* lastVoteEpoch is not behind any vote the node gave.
VotesOK ==
  /\ IsFiniteSet(votes) /\ votes \subseteq Nodes \X Nat \X Shard
  /\ \A v \in votes : v[2] <= node[v[1]].cfg.lv

VotesInv == NodesInv /\ VotesOK /\ OneVotePerEpoch

LEMMA VotesStep ==
  ASSUME VotesInv, [Next]_vars
  PROVE  VotesInv' /\ votes \subseteq votes'
<1>1. NodesInv' /\ (NoVote \/ \E m \in Nodes, p \in net : Voted(m, p))
  BY NodesStep DEF VotesInv
<1>2. CASE NoVote
  <2>1. votes' = votes /\ \A v \in votes : v[1] \in Nodes
    BY <1>2 DEF NoVote, VotesInv, VotesOK
  <2>2. \A v \in votes : node'[v[1]].cfg.lv = node[v[1]].cfg.lv
    BY <1>2, <2>1 DEF NoVote
  <2>3. QED
    BY <1>1, <2>1, <2>2 DEF VotesInv, VotesOK, OneVotePerEpoch
<1>3. ASSUME NEW m \in Nodes, NEW p \in net, Voted(m, p)
      PROVE  VotesInv' /\ votes \subseteq votes'
  <2> DEFINE w == <<m, p.cur, p.from>>
  <2>1. votes' = votes \cup {w}
    BY <1>3 DEF Voted
  <2>2. p.cur \in Nat /\ p.from \in Shard
    BY <1>3 DEF Voted, VotesInv, NodesInv, NetOK, PacketOK
  <2>3. w \in Nodes \X Nat \X Shard /\ w[1] = m /\ w[2] = p.cur
    BY <2>2
  <2> HIDE DEF w
  <2>4. IsFiniteSet(votes') /\ votes' \subseteq Nodes \X Nat \X Shard
    BY <2>1, <2>3, FS_AddElement DEF VotesInv, VotesOK
  <2>5. ASSUME NEW v \in votes
        PROVE  v[2] <= node'[v[1]].cfg.lv /\ ~(v[1] = m /\ v[2] = p.cur)
    <3>1. v[1] \in Nodes /\ v[2] \in Nat /\ v[2] <= node[v[1]].cfg.lv
      BY DEF VotesInv, VotesOK
    <3>2. node[v[1]].cfg.lv \in Nat
      BY <3>1 DEF VotesInv, NodesInv, TypeOK, ConfigType
    <3>3. CASE v[1] = m
      BY <1>3, <2>2, <3>1, <3>2, <3>3 DEF Voted
    <3>4. CASE v[1] # m
      BY <1>3, <3>1, <3>4 DEF Voted
    <3>5. QED
      BY <3>3, <3>4
  <2>6. w[2] <= node'[w[1]].cfg.lv
    BY <1>3, <2>2, <2>3 DEF Voted
  <2>7. VotesOK'
    BY <2>1, <2>4, <2>5, <2>6 DEF VotesOK
  <2>8. OneVotePerEpoch'
    BY <2>1, <2>3, <2>5 DEF VotesInv, OneVotePerEpoch
  <2>9. QED
    BY <1>1, <2>1, <2>7, <2>8 DEF VotesInv
<1>4. QED
  BY <1>1, <1>2, <1>3

LEMMA VotesInit == Init => VotesInv
  BY NodesInit, FS_EmptySet DEF Init, VotesInv, VotesOK, OneVotePerEpoch

\* A node votes once in an epoch, however many replicas ask it, in whatever
\* order, and however often it restarts between (clusterSendFailoverAuthIfNeeded
\* compares lastVoteEpoch, which is saved before the vote leaves).
THEOREM OneVote == Spec => []OneVotePerEpoch
<1>1. VotesInv /\ [Next]_vars => VotesInv'
  BY VotesStep
<1>2. VotesInv => OneVotePerEpoch
  BY DEF VotesInv
<1>3. QED
  BY <1>1, <1>2, VotesInit, PTL DEF Spec

-----------------------------------------------------------------------------
(* Majorities.                                                             *)

For(e, n) == {v \in votes : v[2] = e /\ v[3] = n}
AcksTo(n) == {p \in net : p.type = "ack" /\ p.to = n}

\* An election starts with a clean count, and the votes a candidate counted or
\* that are on their way to it were given to it, in the epoch it asks in.
CountOK(n) ==
  /\ node[n].auth.st = "delay" =>
       /\ node[n].auth.count = 0 /\ AcksTo(n) = {}
       /\ \A p \in net : ~(p.type = "request" /\ p.from = n)
  /\ node[n].auth.st \in {"sent", "expired"} =>
       /\ \A p \in net : p.type = "request" /\ p.from = n => p.cur = node[n].auth.ep
       /\ node[n].auth.count + Cardinality(AcksTo(n)) <= Cardinality(For(node[n].auth.ep, n))

WonOK == won \subseteq [who : Shard, ep : Nat]

MajorityInv == VotesInv /\ WonOK /\ MajorityVoted /\ \A n \in Shard : CountOK(n)

LEMMA ForFinite ==
  ASSUME VotesOK, NEW e, NEW n
  PROVE  IsFiniteSet(For(e, n)) /\ Cardinality(For(e, n)) \in Nat
<1>1. For(e, n) \in SUBSET votes /\ IsFiniteSet(votes)
  BY DEF For, VotesOK
<1>2. QED
  BY <1>1, FS_Subset, FS_CardinalityType

LEMMA ForGrows ==
  ASSUME VotesOK', votes \subseteq votes', NEW e, NEW n
  PROVE  Cardinality(For(e, n)) <= Cardinality(For(e, n)') /\ Cardinality(For(e, n)') \in Nat
<1>1. For(e, n)' \in SUBSET votes' /\ IsFiniteSet(votes')
  BY DEF For, VotesOK
<1>2. IsFiniteSet(For(e, n)')
  BY <1>1, FS_Subset
<1>3. For(e, n) \in SUBSET For(e, n)'
  BY DEF For
<1>4. QED
  BY <1>2, <1>3, FS_Subset, FS_CardinalityType

LEMMA AcksFinite ==
  ASSUME NodesInv, NEW n
  PROVE  IsFiniteSet(AcksTo(n)) /\ Cardinality(AcksTo(n)) \in Nat
<1>1. AcksTo(n) \in SUBSET net /\ IsFiniteSet(net)
  BY DEF AcksTo, NodesInv, NetOK
<1>2. QED
  BY <1>1, FS_Subset, FS_CardinalityType

\* The steps that do not touch the election of k.
LEMMA Unpolled ==
  ASSUME MajorityInv, VotesInv', votes \subseteq votes', NEW k \in Shard,
         node'[k].auth = node[k].auth,
         \A p \in net' : \/ p \in net
                         \/ ~(p.type = "request" /\ p.from = k) /\ ~(p.type = "ack" /\ p.to = k)
  PROVE  CountOK(k)'
<1> DEFINE e == node[k].auth.ep
<1>1. CountOK(k) /\ NodesInv /\ VotesOK' /\ node[k].auth.count \in Nat
  BY Sets DEF MajorityInv, VotesInv, NodesInv, TypeOK, AuthType
<1>2. AcksTo(k)' \in SUBSET AcksTo(k)
  BY DEF AcksTo
<1>3. /\ Cardinality(AcksTo(k)') <= Cardinality(AcksTo(k))
      /\ Cardinality(AcksTo(k)) \in Nat /\ Cardinality(AcksTo(k)') \in Nat
  BY <1>1, <1>2, AcksFinite, FS_Subset, FS_CardinalityType
<1>4. /\ Cardinality(For(e, k)) <= Cardinality(For(e, k)') /\ Cardinality(For(e, k)') \in Nat
      /\ Cardinality(For(e, k)) \in Nat
  BY <1>1, ForGrows, ForFinite DEF MajorityInv, VotesInv
<1>5. For(e, k)' = For(node[k].auth.ep, k)'
  OBVIOUS
<1>6. CASE node[k].auth.st = "delay"
  <2>1. AcksTo(k)' = {}
    BY <1>1, <1>2, <1>6 DEF CountOK
  <2>2. QED
    BY <1>1, <1>6, <2>1 DEF CountOK
<1>7. CASE node[k].auth.st \in {"sent", "expired"}
  <2>1. \A p \in net' : p.type = "request" /\ p.from = k => p.cur = e
    BY <1>1, <1>7 DEF CountOK
  <2>2. node[k].auth.count + Cardinality(AcksTo(k)) <= Cardinality(For(e, k))
    BY <1>1, <1>7 DEF CountOK
  <2>3. node[k].auth.count + Cardinality(AcksTo(k)') <= Cardinality(For(e, k)')
    BY <1>1, <1>3, <1>4, <2>2
  <2>4. node[k].auth.count + Cardinality(AcksTo(k)') <= Cardinality({v \in votes' : v[2] = e /\ v[3] = k})
    BY <2>3 DEF For
  <2>5. QED
    BY <1>7, <2>1, <2>4 DEF CountOK, For
<1>8. CASE node[k].auth.st = "none"
  BY <1>8 DEF CountOK
<1>9. QED
  <2>1. node[k].auth.st \in {"none", "delay", "sent", "expired"}
    BY Sets DEF MajorityInv, VotesInv, NodesInv, TypeOK, AuthType
  <2>2. QED
    BY <2>1, <1>6, <1>7, <1>8

LEMMA WonStays ==
  ASSUME MajorityInv, VotesInv', votes \subseteq votes', won' = won
  PROVE  WonOK' /\ MajorityVoted'
<1>1. WonOK'
  BY DEF MajorityInv, WonOK
<1>2. ASSUME NEW w \in won
      PROVE  Cardinality({v \in votes' : v[2] = w.ep /\ v[3] = w.who}) >= Quorum
  <2>1. /\ Cardinality(For(w.ep, w.who)) <= Cardinality(For(w.ep, w.who)')
        /\ Cardinality(For(w.ep, w.who)') \in Nat /\ Cardinality(For(w.ep, w.who)) \in Nat
    BY ForGrows, ForFinite DEF VotesInv, MajorityInv
  <2>2. Cardinality(For(w.ep, w.who)) >= Quorum
    BY DEF MajorityInv, MajorityVoted, For
  <2>3. Quorum \in Nat
    <3>1. Cardinality(Voters) \in Nat
      BY ElectionAssumption, FS_CardinalityType
    <3>2. QED
      BY <3>1 DEF Quorum
  <2>4. Cardinality(For(w.ep, w.who)') >= Quorum
    BY <2>1, <2>2, <2>3
  <2>5. QED
    BY <2>4 DEF For
<1>3. QED
  BY <1>1, <1>2 DEF MajorityVoted, Quorum

LEMMA QuietCounts ==
  ASSUME MajorityInv, VotesInv', votes \subseteq votes', NoPoll, won' = won
  PROVE  MajorityInv'
<1>1. \A k \in Shard : CountOK(k)'
  BY Unpolled DEF NoPoll
<1>2. QED
  BY <1>1, WonStays DEF MajorityInv

LEMMA WinCounts ==
  ASSUME MajorityInv, VotesInv', votes \subseteq votes', NEW n \in Shard, winElection(n)
  PROVE  MajorityInv'
<1>1. NoPoll /\ NoVote
  BY WinStep DEF MajorityInv, VotesInv
<1>2. \A k \in Shard : CountOK(k)'
  BY <1>1, Unpolled DEF NoPoll
<1> DEFINE a == node[n].auth
           w == [who |-> n, ep |-> a.ep]
<1>3. a.st = "sent" /\ a.count >= Quorum /\ won' = won \cup {w}
  BY DEF winElection
<1>4. a.ep \in Nat /\ a.count \in Nat
  BY Sets DEF MajorityInv, VotesInv, NodesInv, TypeOK, AuthType
<1>5. w \in [who : Shard, ep : Nat] /\ w.who = n /\ w.ep = a.ep
  BY <1>4
<1>6. WonOK'
  BY <1>3, <1>5 DEF MajorityInv, WonOK
<1>7. Cardinality(For(a.ep, n)) >= Quorum
  <2>1. a.count + Cardinality(AcksTo(n)) <= Cardinality(For(a.ep, n))
    BY <1>3 DEF MajorityInv, CountOK
  <2>2. Cardinality(AcksTo(n)) \in Nat /\ Cardinality(For(a.ep, n)) \in Nat
    BY AcksFinite, ForFinite DEF MajorityInv, VotesInv
  <2>3. Quorum \in Nat
    <3>1. Cardinality(Voters) \in Nat
      BY ElectionAssumption, FS_CardinalityType
    <3>2. QED
      BY <3>1 DEF Quorum
  <2>4. QED
    BY <1>3, <1>4, <2>1, <2>2, <2>3
<1> HIDE DEF w
<1>8. \A x \in won \cup {w} : Cardinality({v \in votes : v[2] = x.ep /\ v[3] = x.who}) >= Quorum
  BY <1>5, <1>7 DEF For, MajorityInv, MajorityVoted
<1>9. MajorityVoted'
  BY <1>1, <1>3, <1>8 DEF MajorityVoted, NoVote, Quorum
<1>10. QED
  BY <1>2, <1>6, <1>9 DEF MajorityInv

LEMMA VoteCounted ==
  ASSUME MajorityInv, VotesInv', NEW m \in Nodes, NEW p \in net, Voted(m, p), won' = won
  PROVE  MajorityInv'
<1>1. PICK q : q.type = "ack" /\ q.to = p.from /\ net' = (net \ {p}) \cup {q}
  BY DEF Voted
<1>2. p.type = "request" /\ \A n \in Nodes : node'[n].auth = node[n].auth
  BY DEF Voted
<1> DEFINE w == <<m, p.cur, p.from>>
<1>3. votes' = votes \cup {w} /\ votes \subseteq votes' /\ w[2] = p.cur /\ w[3] = p.from /\ w[1] = m
  BY DEF Voted
<1>4. p.from \in Shard /\ p.cur \in Nat /\ Shard \subseteq Nodes
  BY <1>2, Sets DEF MajorityInv, VotesInv, NodesInv, NetOK, PacketOK
<1>5. w \notin votes
  <2>1. node[m].cfg.lv < p.cur /\ node[m].cfg.lv \in Nat
    BY DEF Voted, MajorityInv, VotesInv, NodesInv, TypeOK, ConfigType
  <2>2. \A v \in votes : v[2] <= node[v[1]].cfg.lv
    BY DEF MajorityInv, VotesInv, VotesOK
  <2> HIDE DEF w
  <2>3. w \in votes => p.cur <= node[m].cfg.lv
    BY <1>3, <2>2
  <2>4. QED
    BY <1>4, <2>1, <2>3
<1> HIDE DEF w
<1>6. ASSUME NEW k \in Shard, k # p.from
      PROVE  CountOK(k)'
  <2>1. \A x \in net' : x \in net \/ (~(x.type = "request" /\ x.from = k) /\ ~(x.type = "ack" /\ x.to = k))
    BY <1>1, <1>6
  <2>2. node'[k].auth = node[k].auth
    BY <1>2, <1>4
  <2>3. QED
    BY <1>3, <2>1, <2>2, Unpolled
<1>7. ASSUME NEW k \in Shard, k = p.from
      PROVE  CountOK(k)'
  <2>1. node'[k].auth = node[k].auth
    BY <1>2, <1>4
  <2>2. CountOK(k) /\ NodesInv /\ VotesOK
    BY DEF MajorityInv, VotesInv
  <2>3. node[k].auth.st # "delay"
    BY <1>2, <1>7, <2>2 DEF CountOK
  <2>4. CASE node[k].auth.st \in {"sent", "expired"}
    <3> DEFINE e == p.cur
    <3>1. /\ node[k].auth.ep = e
          /\ node[k].auth.count + Cardinality(AcksTo(k)) <= Cardinality(For(e, k))
          /\ \A x \in net : x.type = "request" /\ x.from = k => x.cur = e
      BY <1>2, <1>7, <2>2, <2>4 DEF CountOK
    <3>2. For(e, k)' = For(e, k) \cup {w} /\ w \notin For(e, k)
      BY <1>3, <1>5, <1>7 DEF For
    <3>3. Cardinality(For(e, k)') = Cardinality(For(e, k)) + 1 /\ Cardinality(For(e, k)) \in Nat
      BY <2>2, <3>2, ForFinite, FS_AddElement
    <3>4. AcksTo(k)' \in SUBSET (AcksTo(k) \cup {q})
      BY <1>1 DEF AcksTo
    <3>5. /\ Cardinality(AcksTo(k)') <= Cardinality(AcksTo(k)) + 1
          /\ Cardinality(AcksTo(k)') \in Nat /\ Cardinality(AcksTo(k)) \in Nat
      <4>1. IsFiniteSet(AcksTo(k)) /\ Cardinality(AcksTo(k)) \in Nat
        BY <2>2, AcksFinite
      <4>2. /\ IsFiniteSet(AcksTo(k) \cup {q}) /\ Cardinality(AcksTo(k) \cup {q}) \in Nat
            /\ Cardinality(AcksTo(k) \cup {q}) <= Cardinality(AcksTo(k)) + 1
        <5> DEFINE A == AcksTo(k)
        <5>1. /\ IsFiniteSet(A \cup {q})
              /\ Cardinality(A \cup {q}) = IF q \in A THEN Cardinality(A) ELSE Cardinality(A) + 1
          BY <4>1, FS_AddElement
        <5> HIDE DEF A
        <5>2. Cardinality(A \cup {q}) <= Cardinality(A) + 1 /\ Cardinality(A \cup {q}) \in Nat
          BY <4>1, <5>1 DEF A
        <5>3. QED
          BY <5>1, <5>2 DEF A
      <4>3. /\ Cardinality(AcksTo(k)') <= Cardinality(AcksTo(k) \cup {q})
            /\ Cardinality(AcksTo(k)') \in Nat
        BY <3>4, <4>2, FS_Subset, FS_CardinalityType
      <4>4. QED
        BY <4>1, <4>2, <4>3
    <3>6. node[k].auth.count \in Nat
      BY <1>4, <2>2 DEF NodesInv, TypeOK, AuthType
    <3>7. node[k].auth.count + Cardinality(AcksTo(k)') <= Cardinality(For(e, k)')
      BY <3>1, <3>3, <3>5, <3>6
    <3>8. \A x \in net' : x.type = "request" /\ x.from = k => x.cur = e
      BY <1>1, <3>1
    <3>9. QED
      BY <2>1, <2>4, <3>1, <3>7, <3>8 DEF CountOK, For
  <2>5. CASE node[k].auth.st = "none"
    BY <2>1, <2>5 DEF CountOK
  <2>6. node[k].auth.st \in {"none", "delay", "sent", "expired"}
    BY <1>4, <2>2 DEF NodesInv, TypeOK, AuthType
  <2>7. QED
    BY <2>3, <2>4, <2>5, <2>6
<1>8. QED
  BY <1>3, <1>6, <1>7, WonStays DEF MajorityInv

\* Node n alone may move its election on.
LEMMA OthersCount ==
  ASSUME MajorityInv, VotesInv', votes \subseteq votes', won' = won, NEW n \in Shard, CountOK(n)',
         \A k \in Nodes \ {n} : node'[k] = node[k],
         \A p \in net' : p \in net \/ (p.type = "request" /\ p.from = n)
  PROVE  MajorityInv'
<1>1. ASSUME NEW k \in Shard, k # n
      PROVE  CountOK(k)'
  <2>1. node'[k].auth = node[k].auth
    BY <1>1, Sets
  <2>2. \A p \in net' : p \in net \/ (~(p.type = "request" /\ p.from = k) /\ ~(p.type = "ack" /\ p.to = k))
    BY <1>1
  <2>3. QED
    BY <2>1, <2>2, Unpolled
<1>2. QED
  BY <1>1, WonStays DEF MajorityInv

LEMMA AckCounted ==
  ASSUME MajorityInv, VotesInv', votes \subseteq votes', NEW n \in Shard, receiveAuthAck(n)
  PROVE  MajorityInv'
<1>1. NodesInv /\ VotesOK /\ CountOK(n) /\ n \in Nodes
  BY Sets DEF MajorityInv, VotesInv
<1>2. /\ NoVote /\ won' = won
      /\ node'[n].auth.st = node[n].auth.st /\ node'[n].auth.ep = node[n].auth.ep
      /\ node'[n].auth.count \in {node[n].auth.count, node[n].auth.count + 1}
      /\ \A m \in Nodes \ {n} : node'[m] = node[m]
  BY <1>1, AckStep
<1>3. PICK p \in net : p.type = "ack" /\ p.to = n /\ net' = net \ {p}
  BY <1>1, AckStep
<1>4. p \in AcksTo(n) /\ AcksTo(n)' = AcksTo(n) \ {p}
  BY <1>3 DEF AcksTo
<1>5. /\ Cardinality(AcksTo(n)') = Cardinality(AcksTo(n)) - 1
      /\ Cardinality(AcksTo(n)) \in Nat /\ Cardinality(AcksTo(n)') \in Nat
  BY <1>1, <1>4, AcksFinite, FS_RemoveElement, FS_CardinalityType
<1>6. CASE node[n].auth.st \in {"sent", "expired"}
  <2>1. /\ node[n].auth.count + Cardinality(AcksTo(n)) <= Cardinality(For(node[n].auth.ep, n))
        /\ \A x \in net : x.type = "request" /\ x.from = n => x.cur = node[n].auth.ep
    BY <1>1, <1>6 DEF CountOK
  <2>2. node[n].auth.count \in Nat /\ Cardinality(For(node[n].auth.ep, n)) \in Nat
    BY <1>1, ForFinite DEF NodesInv, TypeOK, AuthType
  <2>3. node'[n].auth.count + Cardinality(AcksTo(n)') <= Cardinality(For(node[n].auth.ep, n))
    BY <1>2, <1>5, <2>1, <2>2
  <2>4. For(node[n].auth.ep, n)' = For(node[n].auth.ep, n)
    BY <1>2 DEF For, NoVote
  <2>5. CountOK(n)'
    BY <1>2, <1>3, <1>6, <2>1, <2>3, <2>4 DEF CountOK
  <2>6. QED
    BY <1>2, <1>3, <2>5, OthersCount
<1>7. CASE node[n].auth.st = "none"
  <2>1. CountOK(n)'
    BY <1>2, <1>7 DEF CountOK
  <2>2. QED
    BY <1>2, <1>3, <2>1, OthersCount
<1>8. node[n].auth.st # "delay"
  BY <1>1, <1>4 DEF CountOK
<1>9. node[n].auth.st \in {"none", "delay", "sent", "expired"}
  BY <1>1 DEF NodesInv, TypeOK, AuthType
<1>10. QED
  BY <1>6, <1>7, <1>8, <1>9

LEMMA RequestCounts ==
  ASSUME MajorityInv, VotesInv', votes \subseteq votes', NEW n \in Shard, NEW force,
         clusterRequestFailoverAuth(n, force)
  PROVE  MajorityInv'
<1>1. NodesInv /\ VotesOK' /\ CountOK(n) /\ NodesInv'
  BY DEF MajorityInv, VotesInv
<1>2. /\ NoVote /\ won' = won
      /\ node[n].auth.st = "delay" /\ node'[n].auth.st = "sent"
      /\ node'[n].auth.count = node[n].auth.count
      /\ \A p \in net' : p \in net \/ (p.type = "request" /\ p.from = n /\ p.cur = node'[n].auth.ep)
      /\ \A m \in Nodes \ {n} : node'[m] = node[m]
  BY <1>1, RequestStep
<1>3. /\ node[n].auth.count = 0 /\ AcksTo(n) = {}
      /\ \A p \in net : ~(p.type = "request" /\ p.from = n)
  BY <1>1, <1>2 DEF CountOK
<1>4. AcksTo(n)' = {}
  BY <1>2, <1>3 DEF AcksTo
<1>5. \A p \in net' : p.type = "request" /\ p.from = n => p.cur = node'[n].auth.ep
  BY <1>2, <1>3
<1>6. Cardinality(AcksTo(n)') = 0 /\ node'[n].auth.count = 0
  BY <1>2, <1>3, <1>4, FS_EmptySet
<1>7. Cardinality(For(node[n].auth.ep, n)') \in Nat
  <2>1. For(node[n].auth.ep, n)' \in SUBSET votes' /\ IsFiniteSet(votes')
    BY <1>1 DEF For, VotesOK
  <2>2. QED
    BY <2>1, FS_Subset, FS_CardinalityType
<1>8. CountOK(n)'
  BY <1>2, <1>5, <1>6, <1>7 DEF CountOK
<1>9. QED
  BY <1>2, <1>8, OthersCount

LEMMA ScheduleCounts ==
  ASSUME MajorityInv, VotesInv', votes \subseteq votes', NEW n \in Shard,
         ScheduleElection(n) \/ expire(n)
  PROVE  MajorityInv'
<1>1. NodesInv /\ CountOK(n) /\ n \in Nodes /\ node \in NodeType
  BY Sets DEF MajorityInv, VotesInv, NodesInv, TypeOK, NodeType
<1>2. /\ NoVote /\ won' = won /\ net' = net
      /\ node'[n].auth.ep = node[n].auth.ep /\ \A m \in Nodes \ {n} : node'[m] = node[m]
  BY <1>1, ScheduleStep
<1>3. CountOK(n)'
  <2>1. CASE ScheduleElection(n)
    <3>1. node'[n].auth.st = "delay" /\ node'[n].auth.count = 0
      BY <1>1, <2>1 DEF ScheduleElection, NodeType, AuthType
    <3>2. \A p \in net : ~(p.type = "request" /\ p.from = n) /\ ~(p.type = "ack" /\ p.to = n)
      BY <2>1 DEF ScheduleElection
    <3>3. AcksTo(n)' = {}
      BY <1>2, <3>2 DEF AcksTo
    <3>4. QED
      BY <1>2, <3>1, <3>2, <3>3 DEF CountOK
  <2>2. CASE expire(n)
    <3>1. /\ node[n].auth.st = "sent" /\ node'[n].auth.st = "expired"
          /\ node'[n].auth.count = node[n].auth.count
      BY <1>1, <2>2 DEF expire, NodeType, AuthType
    <3>2. AcksTo(n)' = AcksTo(n) /\ For(node[n].auth.ep, n)' = For(node[n].auth.ep, n)
      BY <1>2 DEF AcksTo, For, NoVote
    <3>3. QED
      BY <1>1, <1>2, <3>1, <3>2 DEF CountOK
  <2>3. QED
    BY <2>1, <2>2
<1>4. QED
  BY <1>2, <1>3, OthersCount

LEMMA CrashCounts ==
  ASSUME MajorityInv, VotesInv', votes \subseteq votes', NEW n \in Nodes, crash(n)
  PROVE  MajorityInv'
<1>1. /\ NoVote /\ won' = won /\ net' = net /\ node'[n].auth.st = "none"
      /\ \A m \in Nodes \ {n} : node'[m] = node[m]
  BY CrashStep DEF MajorityInv, VotesInv
<1>2. ASSUME NEW k \in Shard
      PROVE  CountOK(k)'
  <2>1. CASE k = n
    BY <1>1, <2>1 DEF CountOK
  <2>2. CASE k # n
    <3>1. node'[k].auth = node[k].auth
      BY <1>1, <2>2, Sets
    <3>2. QED
      BY <1>1, <3>1, Unpolled
  <2>3. QED
    BY <2>1, <2>2
<1>3. QED
  BY <1>1, <1>2, WonStays DEF MajorityInv

LEMMA MajorityStep ==
  ASSUME MajorityInv, [Next]_vars
  PROVE  MajorityInv'
<1>1. VotesInv' /\ votes \subseteq votes' /\ NodesInv
  BY VotesStep DEF MajorityInv, VotesInv
<1>2. ASSUME NEW n \in Shard, Elect(n)
      PROVE  MajorityInv'
  <2>1. CASE ScheduleElection(n) \/ expire(n)
    BY <1>1, <2>1, ScheduleCounts
  <2>2. ASSUME NEW f \in {FALSE} \cup {"force" \in Ops}, clusterRequestFailoverAuth(n, f)
        PROVE  MajorityInv'
    BY <1>1, <2>2, RequestCounts
  <2>3. CASE receiveAuthAck(n)
    BY <1>1, <2>3, AckCounted
  <2>4. CASE winElection(n)
    BY <1>1, <2>4, WinCounts
  <2>5. QED
    BY <1>2, <2>1, <2>2, <2>3, <2>4 DEF Elect
<1>3. ASSUME NEW n \in Shard, takeover(n)
      PROVE  MajorityInv'
  <2>1. NoPoll /\ won' = won
    BY <1>1, <1>3, TakeoverStep
  <2>2. QED
    BY <1>1, <2>1, QuietCounts
<1>4. ASSUME NEW n \in Nodes, clusterSendFailoverAuthIfNeeded(n)
      PROVE  MajorityInv'
  <2>1. won' = won /\ ((NoVote /\ NoPoll) \/ (\E p \in net : Voted(n, p)))
    BY <1>1, <1>4, VoteStep
  <2>2. CASE NoVote /\ NoPoll
    BY <1>1, <2>1, <2>2, QuietCounts
  <2>3. ASSUME NEW p \in net, Voted(n, p) PROVE MajorityInv'
    BY <1>1, <2>1, <2>3, VoteCounted
  <2>4. QED
    BY <2>1, <2>2, <2>3
<1>5. ASSUME NEW n \in Nodes, Learn(n) \/ clusterSendPing(n)
      PROVE  MajorityInv'
  <2>1. NoPoll /\ won' = won
    BY <1>1, <1>5, PacketStep, UpdateStep, PingStep DEF Learn
  <2>2. QED
    BY <1>1, <2>1, QuietCounts
<1>6. ASSUME NEW n \in Nodes, crash(n)
      PROVE  MajorityInv'
  BY <1>1, <1>6, CrashCounts
<1>7. CASE lose
  BY <1>1, <1>7, LoseStep, QuietCounts
<1>8. CASE UNCHANGED vars
  <2>1. NoPoll /\ won' = won
    BY <1>8 DEF vars, NoPoll
  <2>2. QED
    BY <1>1, <2>1, QuietCounts
<1>9. QED
  BY <1>2, <1>3, <1>4, <1>5, <1>6, <1>7, <1>8 DEF Next

LEMMA MajorityInit == Init => MajorityInv
<1>1. SUFFICES ASSUME Init PROVE MajorityInv
  OBVIOUS
<1>2. won = {} /\ \A n \in Shard : node[n].auth.st = "none"
  BY <1>1, Sets DEF Init, NoElection
<1>3. \A n \in Shard : CountOK(n)
  BY <1>2 DEF CountOK
<1>4. QED
  BY <1>1, <1>2, <1>3, VotesInit DEF MajorityInv, WonOK, MajorityVoted

LEMMA MajorityAlways == Spec => []MajorityInv
<1>1. MajorityInv /\ [Next]_vars => MajorityInv'
  BY MajorityStep
<1>2. QED
  BY <1>1, MajorityInit, PTL DEF Spec

\* Who wins an election was voted for by a majority of the masters that serve
\* slots, in the epoch of the election: late votes of an earlier election, lost
\* ones and restarts of candidate or voters change nothing
\* (clusterHandleSlaveFailover counts, clusterProcessPacket filters by epoch).
THEOREM WinnersHaveMajorities == Spec => []MajorityVoted
<1>1. MajorityInv => MajorityVoted
  BY DEF MajorityInv
<1>2. QED
  BY <1>1, MajorityAlways, PTL

LEMMA MajoritiesMeet ==
  ASSUME MajorityInv, NEW v \in won, NEW w \in won, v.ep = w.ep,
         Cardinality(ShardVoters(v.ep)) <= 1, v.who # w.who
  PROVE  FALSE
<1> DEFINE e == v.ep
           A == For(e, v.who)
           B == For(e, w.who)
           S == ShardVoters(e)
           U == Voters \cup S
<1>1. Cardinality(A) >= Quorum /\ Cardinality(B) >= Quorum
  BY DEF MajorityInv, MajorityVoted, For
<1>2. /\ IsFiniteSet(A) /\ Cardinality(A) \in Nat
      /\ IsFiniteSet(B) /\ Cardinality(B) \in Nat
  BY ForFinite DEF MajorityInv, VotesInv
<1>3. A \cap B = {}
  BY DEF For
<1>4. \A x \in A \cup B : x \in votes /\ x[2] = e /\ x[1] \in U
  <2>1. \A x \in A \cup B : x \in votes /\ x[2] = e
    BY DEF For
  <2>2. \A x \in votes : x[1] \in Shard \cup Voters
    BY DEF MajorityInv, VotesInv, VotesOK, Nodes
  <2> HIDE DEF A, B, e
  <2>3. QED
    BY <2>1, <2>2 DEF ShardVoters
<1>5. S \in SUBSET Shard /\ Cardinality(S) <= 1
  BY DEF ShardVoters
<1> HIDE DEF A, B, S
<1>6. IsFiniteSet(S) /\ Cardinality(S) \in Nat
  BY <1>5, ElectionAssumption, FS_Subset, FS_CardinalityType
<1>7. IsFiniteSet(A \cup B) /\ Cardinality(A \cup B) = Cardinality(A) + Cardinality(B)
  <2>1. Cardinality(A \cap B) = 0
    BY <1>3, FS_EmptySet
  <2>2. IsFiniteSet(A \cup B) /\ Cardinality(A \cup B) = Cardinality(A) + Cardinality(B) - Cardinality(A \cap B)
    BY <1>2, FS_Union
  <2>3. QED
    BY <1>2, <2>1, <2>2
<1>8. IsFiniteSet(Voters) /\ Cardinality(Voters) \in Nat
  BY ElectionAssumption, FS_CardinalityType
<1>9. IsFiniteSet(U) /\ Cardinality(U) \in Nat /\ Cardinality(U) <= Cardinality(Voters) + 1
  <2>1. Cardinality(Voters \cap S) \in Nat
    BY <1>8, FS_Intersection, FS_CardinalityType
  <2>2. IsFiniteSet(U) /\ Cardinality(U) = Cardinality(Voters) + Cardinality(S) - Cardinality(Voters \cap S)
    BY <1>6, <1>8, FS_Union
  <2>3. Cardinality(U) \in Nat
    BY <2>2, FS_CardinalityType
  <2>4. QED
    BY <1>5, <1>6, <1>8, <2>1, <2>2, <2>3
<1>10. Cardinality(U) < Cardinality(A \cup B)
  <2>1. 2 * Quorum > Cardinality(Voters) + 1 /\ Quorum \in Nat
    BY <1>8 DEF Quorum
  <2>2. QED
    BY <1>1, <1>2, <1>7, <1>8, <1>9, <2>1
<1> DEFINE f == [x \in A \cup B |-> x[1]]
<1>11. f \in [A \cup B -> U] /\ \A x \in A \cup B : f[x] = x[1]
  BY <1>4
<1> HIDE DEF f, U
<1>12. \E x, y \in A \cup B : x # y /\ f[x] = f[y]
  BY <1>7, <1>9, <1>10, <1>11, FS_PigeonHole
<1>13. PICK x \in A \cup B, y \in A \cup B : x # y /\ x[1] = y[1]
  BY <1>11, <1>12
<1>14. x = y
  BY <1>4, <1>13 DEF MajorityInv, VotesInv, OneVotePerEpoch
<1>15. QED
  BY <1>13, <1>14

\* Two replicas never win an election in the same epoch, as long as one node of
\* their shard at most votes in it: two majorities would share a voter, and a
\* node votes once (clusterHandleSlaveFailover, needed_quorum).
THEOREM OneWinner == Spec => []OneWinnerPerEpoch
<1>1. ASSUME MajorityInv, NEW v \in won, NEW w \in won, v.ep = w.ep,
             Cardinality(ShardVoters(v.ep)) <= 1
      PROVE  v = w
  <2>1. v.who = w.who
    BY <1>1, MajoritiesMeet
  <2>2. v \in [who : Shard, ep : Nat] /\ w \in [who : Shard, ep : Nat]
    BY <1>1 DEF MajorityInv, WonOK
  <2>3. QED
    BY <1>1, <2>1, <2>2
<1>2. MajorityInv => OneWinnerPerEpoch
  BY <1>1 DEF OneWinnerPerEpoch
<1>3. QED
  BY <1>2, MajorityAlways, PTL

-----------------------------------------------------------------------------
(* Who has the slots.                                                      *)

\* No node writes to itself, and nobody is told about itself.
LinksOK ==
  \A p \in net : p.from # p.to /\ (p.type = "update" => p.about # p.to)

\* In configuration c node n is a replica or has the slots.
ServesOwn(n, c) == n \in Shard /\ c.so[n] = NoNode => c.own = n

\* From c to d node n hears of a newer owner of the slots only.
Newer(n, c, d) ==
  c.own # d.own /\ NoNode \notin {c.own, d.own} /\ d.own # n => d.ce[d.own] > c.ce[c.own]

Kept(n, c, d) ==
  /\ "takeover" \notin Ops /\ ServesOwn(n, c) => ServesOwn(n, d)
  /\ Newer(n, c, d)

AllKept == \A n \in Nodes : Kept(n, node[n].cfg, node'[n].cfg)

LEMMA SameClaims ==
  ASSUME NEW n, NEW c, NEW d, d.so = c.so, d.own = c.own
  PROVE  Kept(n, c, d)
  BY DEF Kept, ServesOwn, Newer

LEMMA OneKept ==
  ASSUME NEW n \in Nodes, Kept(n, node[n].cfg, node'[n].cfg),
         \A m \in Nodes \ {n} : node'[m] = node[m]
  PROVE  AllKept
<1>1. \A m \in Nodes \ {n} : Kept(m, node[m].cfg, node'[m].cfg)
  BY SameClaims
<1>2. QED
  BY <1>1 DEF AllKept

LEMMA EpochsKept ==
  ASSUME NEW c, Good(c), NEW p, PacketOK(p)
  PROVE  LET d == UpdateEpochs(c, p)
         IN /\ d.so = c.so /\ d.own = c.own /\ \A s \in Shard : d.ce[s] >= c.ce[s]
            /\ p.from \in Shard => d.ce[p.from] >= p.cfg
<1> DEFINE d == UpdateEpochs(c, p)
           ce == IF p.from \in Shard /\ p.cfg > c.ce[p.from] THEN [c.ce EXCEPT ![p.from] = p.cfg] ELSE c.ce
           cur == IF p.cur > c.cur THEN p.cur ELSE c.cur
<1>1. d = [c EXCEPT !.cur = cur, !.ce = ce]
  BY DEF UpdateEpochs
<1>2. c \in ConfigType /\ c.ce \in [Shard -> Nat] /\ p.cfg \in Nat
  BY DEF Good, ConfigType, PacketOK
<1>3. (\A s \in Shard : ce[s] >= c.ce[s]) /\ (p.from \in Shard => ce[p.from] >= p.cfg)
  BY <1>2
<1> HIDE DEF ce, cur
<1>4. d.so = c.so /\ d.own = c.own /\ d.ce = ce
  BY <1>1, <1>2 DEF ConfigType
<1> HIDE DEF d
<1>5. QED
  BY <1>3, <1>4 DEF d

LEMMA RoleKept ==
  ASSUME NEW c, Good(c), NEW p, PacketOK(p), NEW m \in Nodes, p.from # m
  PROVE  LET d == SetRole(c, p)
         IN /\ d.own = c.own \/ (d.own = NoNode /\ p.from \in Shard /\ ~IsMaster(d, p.from))
            /\ ServesOwn(m, c) => ServesOwn(m, d)
<1> DEFINE d == SetRole(c, p)
           so(x) == [c.so EXCEPT ![p.from] = x]
           own == IF c.so[p.from] = NoNode /\ c.own = p.from THEN NoNode ELSE c.own
<1>0. c \in ConfigType /\ c.so \in [Shard -> Shard \cup {NoNode}] /\ c.own \in Shard \cup {NoNode}
      /\ p.from \in Nodes /\ p.so \in Shard \cup {NoNode}
  BY DEF Good, ConfigType, PacketOK
<1>1. CASE d = c
  BY <1>1
<1>2. CASE d = [c EXCEPT !.so = so(NoNode)] /\ p.from \in Shard
  <2>1. d.own = c.own /\ d.so = so(NoNode)
    BY <1>0, <1>2 DEF ConfigType
  <2>2. m \in Shard => so(NoNode)[m] = c.so[m]
    BY <1>0
  <2> HIDE DEF so, d
  <2>3. QED
    BY <2>1, <2>2 DEF ServesOwn, d
<1>3. CASE d = [c EXCEPT !.so = so(p.so), !.own = own] /\ p.from \in Shard /\ p.so # NoNode
  <2>1. d.own = own /\ d.so = so(p.so)
    BY <1>0, <1>3 DEF ConfigType
  <2>2. (m \in Shard => so(p.so)[m] = c.so[m]) /\ so(p.so)[p.from] = p.so
    BY <1>0, <1>3
  <2>3. own = c.own \/ own = NoNode
    OBVIOUS
  <2>4. c.own = m => own = c.own
    OBVIOUS
  <2> HIDE DEF so, d, own
  <2>5. ~IsMaster(d, p.from)
    BY <1>3, <2>1, <2>2, ElectionAssumption DEF IsMaster
  <2>6. QED
    BY <1>3, <2>1, <2>2, <2>3, <2>4, <2>5 DEF ServesOwn, d
<1>4. QED
  BY <1>0, <1>1, <1>2, <1>3 DEF SetRole, Nodes

LEMMA SlotsKept ==
  ASSUME NEW c, Good(c), NEW m \in Nodes, NEW s \in Shard, NEW ep \in Nat, NEW slots
  PROVE  LET d == clusterUpdateSlotsConfigWith(m, c, s, ep, slots)
         IN /\ d.own = c.own \/ (d.own = s /\ s # m /\ (c.own = NoNode \/ c.ce[c.own] < ep))
            /\ ServesOwn(m, c) => ServesOwn(m, d)
<1> DEFINE d == clusterUpdateSlotsConfigWith(m, c, s, ep, slots)
           newer == slots /\ c.own # s /\ (c.own = NoNode \/ c.ce[c.own] < ep)
           mine == newer /\ m \in Shard /\ c.own = MasterOf(c, m)
           c1 == IF newer THEN [c EXCEPT !.own = s] ELSE c
<1>1. c \in ConfigType /\ c.so \in [Shard -> Shard \cup {NoNode}] /\ c.own \in Shard \cup {NoNode} /\ s # NoNode
  BY Sets DEF Good, ConfigType
<1>2. c1 \in ConfigType /\ c1.so = c.so /\ c1.own = IF newer THEN s ELSE c.own
  BY <1>1 DEF ConfigType
<1>3. CASE s = m
  <2>1. d = c
    BY <1>3 DEF clusterUpdateSlotsConfigWith
  <2>2. QED
    BY <2>1
<1>4. CASE s # m /\ mine
  <2>1. d = [c1 EXCEPT !.so[m] = s]
    BY <1>4 DEF clusterUpdateSlotsConfigWith
  <2> HIDE DEF c1, d
  <2>2. d.own = c1.own /\ d.so[m] = s
    BY <1>1, <1>2, <1>4, <2>1 DEF ConfigType
  <2>3. QED
    BY <1>1, <1>2, <1>4, <2>2 DEF ServesOwn, d
<1>5. CASE s # m /\ ~mine
  <2>1. \/ d = c1
        \/ m \in Shard /\ ~IsMaster(c1, m) /\ ~IsMaster(c1, c1.so[m]) /\ d = [c1 EXCEPT !.so[m] = c1.so[c1.so[m]]]
    BY <1>5 DEF clusterUpdateSlotsConfigWith
  <2> HIDE DEF c1, d
  <2>2. d.own = c1.own /\ (m \in Shard /\ d.so[m] = NoNode => c.so[m] = NoNode)
    BY <1>1, <1>2, <2>1 DEF ConfigType, IsMaster
  <2>3. m \in Shard /\ c.so[m] = NoNode /\ c.own = m => ~newer
    BY <1>5 DEF MasterOf, IsMaster
  <2> HIDE DEF newer, mine
  <2>4. ServesOwn(m, c) => ServesOwn(m, d)
    BY <1>2, <2>2, <2>3 DEF ServesOwn
  <2>5. d.own = c.own \/ (d.own = s /\ s # m /\ (c.own = NoNode \/ c.ce[c.own] < ep))
    BY <1>2, <1>5, <2>2 DEF newer
  <2>6. QED
    BY <2>4, <2>5 DEF d
<1>6. QED
  BY <1>3, <1>4, <1>5

LEMMA CollisionKept ==
  ASSUME NEW c, Good(c), NEW m \in Nodes, NEW p, PacketOK(p)
  PROVE  LET d == clusterHandleConfigEpochCollision(m, c, p)
         IN d.so = c.so /\ d.own = c.own /\ \A s \in Shard : d.ce[s] >= c.ce[s]
<1> DEFINE d == clusterHandleConfigEpochCollision(m, c, p)
           ce == [c.ce EXCEPT ![m] = c.cur + 1]
<1>1. c \in ConfigType /\ c.ce \in [Shard -> Nat] /\ c.cur \in Nat /\ \A s \in Shard : c.ce[s] <= c.cur
  BY DEF Good, ConfigType
<1>2. \A s \in Shard : ce[s] >= c.ce[s] /\ c.ce[s] >= c.ce[s]
  BY <1>1
<1>3. d = c \/ d = [c EXCEPT !.cur = c.cur + 1, !.ce = ce]
  BY <1>1 DEF clusterHandleConfigEpochCollision, ConfigType
<1> HIDE DEF d, ce
<1>4. d.so = c.so /\ d.own = c.own /\ d.ce \in {c.ce, ce}
  BY <1>1, <1>3 DEF ConfigType
<1>5. QED
  BY <1>2, <1>4 DEF d

LEMMA FewerLinks ==
  ASSUME LinksOK, NEW S, net' \subseteq net \cup S,
         \A p \in S : p.from # p.to /\ p.type # "update"
  PROVE  LinksOK'
  BY DEF LinksOK

LEMMA HeaderLinks ==
  ASSUME NEW type, NEW n, NEW c, NEW m
  PROVE  LET p == clusterBuildMessageHdr(type, n, c, m)
         IN p.from = n /\ p.to = m /\ p.type = type
  BY DEF clusterBuildMessageHdr

LEMMA AnnouncedLinks ==
  ASSUME LinksOK, NEW n \in Nodes, NEW c,
         net' = net \cup {clusterBuildMessageHdr("ping", n, c, m) : m \in Nodes \ {n}}
  PROVE  LinksOK'
<1> DEFINE S == {clusterBuildMessageHdr("ping", n, c, m) : m \in Nodes \ {n}}
<1>1. \A p \in S : p.from # p.to /\ p.type # "update"
  BY HeaderLinks
<1>2. QED
  BY <1>1, FewerLinks

LEMMA PacketKept ==
  ASSUME NodesInv, LinksOK, NEW m \in Nodes, clusterProcessPacket(m)
  PROVE  AllKept /\ LinksOK'
<1>1. PICK p \in Headers : clusterProcessPacket(m)!(p)
  BY DEF clusterProcessPacket
<1>2. p \in net /\ PacketOK(p)
  BY DEF Headers, NodesInv, NetOK
<1> DEFINE c0 == node[m].cfg
           c == UpdateEpochs(c0, p)
           c1 == SetRole(c, p)
           sm == IF p.from \in Shard THEN MasterOf(c1, p.from) ELSE NoNode
           dirty == sm # NoNode /\ (c1.own = sm) # p.slots
           c2 == IF dirty /\ IsMaster(c1, p.from)
                 THEN clusterUpdateSlotsConfigWith(m, c1, p.from, p.cfg, p.slots) ELSE c1
           old == dirty /\ p.slots /\ c2.own \notin {NoNode, p.from} /\ c2.ce[c2.own] > p.cfg
           c3 == clusterHandleConfigEpochCollision(m, c2, p)
           u == [clusterBuildMessageHdr("update", m, c2, p.from) EXCEPT !.about = c2.own, !.uep = c2.ce[c2.own]]
<1>3. /\ Become(m, c3) /\ p.to = m
      /\ net' = (net \ {p}) \cup (IF old THEN {u} ELSE {})
  BY <1>1
<1>4. p.from # m /\ p.from \in Nodes /\ p.cfg \in Nat
  BY <1>2, <1>3 DEF LinksOK, PacketOK
<1>5. Good(c0)
  BY DEF NodesInv, MemoryOK
<1>6. /\ Good(c) /\ c.so = c0.so /\ c.own = c0.own /\ \A s \in Shard : c.ce[s] >= c0.ce[s]
      /\ p.from \in Shard => c.ce[p.from] >= p.cfg
  BY <1>2, <1>5, UpdateEpochsGood, EpochsKept DEF Follows
<1> HIDE DEF c
<1>7. /\ Good(c1) /\ c1.ce = c.ce
      /\ c1.own = c.own \/ (c1.own = NoNode /\ p.from \in Shard /\ ~IsMaster(c1, p.from))
      /\ ServesOwn(m, c) => ServesOwn(m, c1)
  BY <1>2, <1>4, <1>6, SetRoleGood, RoleKept DEF Follows
<1>8. dirty => p.from \in Shard
  OBVIOUS
<1> HIDE DEF c1, dirty, sm
<1>9. /\ Good(c2) /\ c2.ce = c1.ce
      /\ c2.own = c1.own \/ (c2.own = p.from /\ p.from \in Shard /\ IsMaster(c1, p.from)
                             /\ (c1.own = NoNode \/ c1.ce[c1.own] < p.cfg))
      /\ ServesOwn(m, c1) => ServesOwn(m, c2)
  <2>1. CASE dirty /\ IsMaster(c1, p.from)
    <3>1. c2 = clusterUpdateSlotsConfigWith(m, c1, p.from, p.cfg, p.slots)
      BY <2>1
    <3> HIDE DEF c2
    <3>2. QED
      BY <1>4, <1>7, <1>8, <2>1, <3>1, SlotsGood, SlotsKept DEF Follows
  <2>2. CASE ~(dirty /\ IsMaster(c1, p.from))
    BY <1>7, <2>2
  <2>3. QED
    BY <2>1, <2>2
<1> HIDE DEF c2
<1>10. /\ Good(c3) /\ c3.so = c2.so /\ c3.own = c2.own /\ \A s \in Shard : c3.ce[s] >= c2.ce[s]
  BY <1>2, <1>9, CollisionGood, CollisionKept DEF Follows
<1> HIDE DEF c3
<1>11. ServesOwn(m, c0) => ServesOwn(m, c3)
  <2>1. ServesOwn(m, c0) => ServesOwn(m, c)
    BY <1>6 DEF ServesOwn
  <2>2. ServesOwn(m, c2) => ServesOwn(m, c3)
    BY <1>10 DEF ServesOwn
  <2>3. QED
    BY <1>7, <1>9, <2>1, <2>2
<1>12. Newer(m, c0, c3)
  <2>1. SUFFICES ASSUME c0.own # c3.own, c0.own # NoNode, c3.own # NoNode
                 PROVE  c3.ce[c3.own] > c0.ce[c0.own]
    BY DEF Newer
  <2>2. c3.own = p.from /\ p.from \in Shard /\ c1.own = c0.own /\ c1.ce[c0.own] < p.cfg
    BY <1>6, <1>7, <1>9, <1>10, <2>1
  <2>3. c0.own \in Shard
    BY <1>5, <2>1 DEF Good, ConfigType
  <2>4. /\ c3.ce[p.from] \in Nat /\ c2.ce[p.from] \in Nat /\ c1.ce[p.from] \in Nat /\ c.ce[p.from] \in Nat
        /\ c1.ce[c0.own] \in Nat /\ c.ce[c0.own] \in Nat /\ c0.ce[c0.own] \in Nat
    BY <1>5, <1>6, <1>7, <1>9, <1>10, <2>2, <2>3 DEF Good, ConfigType
  <2>5. /\ c3.ce[p.from] >= c2.ce[p.from] /\ c2.ce[p.from] = c1.ce[p.from] /\ c1.ce[p.from] = c.ce[p.from]
        /\ c.ce[p.from] >= p.cfg /\ c1.ce[c0.own] = c.ce[c0.own] /\ c.ce[c0.own] >= c0.ce[c0.own]
    BY <1>6, <1>7, <1>9, <1>10, <2>2, <2>3
  <2>6. QED
    BY <1>4, <2>2, <2>4, <2>5
<1>13. AllKept
  <2>1. c3 \in ConfigType
    BY <1>10 DEF Good
  <2>2. node'[m].cfg = c3 /\ \A n \in Nodes \ {m} : node'[n] = node[n]
    BY <1>3, <2>1, CfgChanged DEF Become, Changed, NodesInv
  <2>3. Kept(m, c0, c3)
    BY <1>11, <1>12 DEF Kept
  <2>4. QED
    BY <2>2, <2>3, OneKept
<1>14. LinksOK'
  <2>1. old => u.from # u.to /\ u.about # u.to
    BY <1>4 DEF clusterBuildMessageHdr
  <2> HIDE DEF u, old
  <2>2. QED
    BY <1>3, <2>1 DEF LinksOK
<1>15. QED
  BY <1>13, <1>14

LEMMA UpdateKept ==
  ASSUME NodesInv, LinksOK, NEW m \in Nodes, receiveUpdate(m)
  PROVE  AllKept /\ LinksOK'
<1>1. PICK p \in net : receiveUpdate(m)!(p)
  BY DEF receiveUpdate
<1> DEFINE c0 == node[m].cfg
           c == UpdateEpochs(c0, p)
           x == p.about
           c1 == [c EXCEPT !.so[x] = NoNode, !.ce[x] = p.uep]
           e == clusterUpdateSlotsConfigWith(m, c1, x, p.uep, TRUE)
           d == IF c.ce[x] >= p.uep THEN c ELSE e
<1>2. PacketOK(p) /\ x \in Shard /\ p.uep \in Nat /\ x # m
  BY <1>1 DEF NodesInv, NetOK, PacketOK, LinksOK
<1>3. Become(m, d) /\ net' = net \ {p}
  BY <1>1
<1>4. Good(c0)
  BY DEF NodesInv, MemoryOK
<1>5. Good(c) /\ c.cur >= p.cur /\ c.so = c0.so /\ c.own = c0.own /\ \A s \in Shard : c.ce[s] >= c0.ce[s]
  BY <1>2, <1>4, UpdateEpochsGood, EpochsKept DEF Follows
<1> HIDE DEF c
<1>6. Good(c1) /\ c1.own = c.own /\ (m \in Shard => c1.so[m] = c.so[m])
      /\ c1.ce[x] = p.uep /\ \A s \in Shard \ {x} : c1.ce[s] = c.ce[s]
  <2> DEFINE ce == [c.ce EXCEPT ![x] = p.uep]
             so == [c.so EXCEPT ![x] = NoNode]
  <2>1. c \in ConfigType /\ c.cur \in Nat /\ c.ce \in [Shard -> Nat] /\ \A s \in Shard : c.ce[s] <= c.cur
    BY <1>5 DEF Good, ConfigType
  <2>2. p.uep <= c.cur
    BY <1>2, <1>5, <2>1 DEF PacketOK
  <2>3. /\ ce \in [Shard -> Nat] /\ \A s \in Shard : ce[s] <= c.cur
        /\ ce[x] = p.uep /\ \A s \in Shard \ {x} : ce[s] = c.ce[s]
    BY <1>2, <2>1, <2>2, EpochRaised
  <2>4. so \in [Shard -> Shard \cup {NoNode}] /\ (m \in Shard => so[m] = c.so[m])
    BY <1>2, <2>1 DEF ConfigType
  <2>5. c1 = [c EXCEPT !.so = so, !.ce = ce]
    BY <2>1 DEF ConfigType
  <2> HIDE DEF ce, so, c1
  <2>6. c1 \in ConfigType /\ c1.cur = c.cur /\ c1.lv = c.lv /\ c1.ce = ce /\ c1.so = so /\ c1.own = c.own
    BY <2>1, <2>3, <2>4, <2>5 DEF ConfigType
  <2>7. QED
    BY <1>5, <2>1, <2>3, <2>4, <2>6 DEF Good
<1> HIDE DEF c1
<1>7. /\ Good(e) /\ e.ce = c1.ce
      /\ e.own = c1.own \/ (e.own = x /\ (c1.own = NoNode \/ c1.ce[c1.own] < p.uep))
      /\ ServesOwn(m, c1) => ServesOwn(m, e)
  <2>1. PICK t : e = clusterUpdateSlotsConfigWith(m, c1, x, p.uep, t)
    OBVIOUS
  <2> HIDE DEF e, x
  <2>2. Good(e) /\ e.ce = c1.ce
    BY <1>2, <1>6, <2>1, SlotsGood DEF Follows
  <2>3. /\ e.own = c1.own \/ (e.own = x /\ (c1.own = NoNode \/ c1.ce[c1.own] < p.uep))
        /\ ServesOwn(m, c1) => ServesOwn(m, e)
    BY <1>2, <1>6, <2>1, SlotsKept
  <2>4. QED
    BY <2>2, <2>3
<1> HIDE DEF e
<1>8. Kept(m, c0, c)
  BY <1>5, SameClaims
<1>9. Kept(m, c0, e)
  <2>1. ServesOwn(m, c0) => ServesOwn(m, e)
    BY <1>5, <1>6, <1>7 DEF ServesOwn
  <2>2. Newer(m, c0, e)
    <3>1. SUFFICES ASSUME c0.own # e.own, c0.own # NoNode, e.own # NoNode
                   PROVE  e.ce[e.own] > c0.ce[c0.own]
      BY DEF Newer
    <3>2. e.own = x /\ c1.own = c0.own /\ c1.ce[c0.own] < p.uep
      BY <1>5, <1>6, <1>7, <3>1
    <3>3. c0.own \in Shard \ {x}
      BY <1>4, <3>1, <3>2 DEF Good, ConfigType
    <3>4. c0.ce[c0.own] \in Nat /\ c.ce[c0.own] \in Nat
      BY <1>4, <1>5, <3>3 DEF Good, ConfigType
    <3>5. e.ce[e.own] = p.uep /\ c1.ce[c0.own] = c.ce[c0.own] /\ c.ce[c0.own] >= c0.ce[c0.own]
      BY <1>5, <1>6, <1>7, <3>2, <3>3
    <3>6. QED
      BY <1>2, <3>2, <3>4, <3>5
  <2>3. QED
    BY <2>1, <2>2 DEF Kept
<1>10. Kept(m, c0, d) /\ d \in ConfigType
  BY <1>5, <1>7, <1>8, <1>9 DEF Good
<1> HIDE DEF d
<1>11. node'[m].cfg = d /\ \A n \in Nodes \ {m} : node'[n] = node[n]
  BY <1>3, <1>10, CfgChanged DEF Become, Changed, NodesInv
<1>12. AllKept
  BY <1>10, <1>11, OneKept
<1>13. LinksOK'
  BY <1>3 DEF LinksOK
<1>14. QED
  BY <1>12, <1>13

LEMMA RequestKept ==
  ASSUME NodesInv, LinksOK, NEW n \in Shard, NEW force, clusterRequestFailoverAuth(n, force)
  PROVE  AllKept /\ LinksOK'
<1> DEFINE c == node[n].cfg
           c1 == [c EXCEPT !.cur = c.cur + 1]
           S == {[clusterBuildMessageHdr("request", n, c1, m) EXCEPT !.force = force] : m \in Nodes \ {n}}
<1>1. n \in Nodes /\ TypeOK /\ c \in ConfigType
  BY Sets DEF NodesInv, TypeOK
<1>2. /\ node' = [node EXCEPT ![n].cfg = c1, ![n].auth.st = "sent", ![n].auth.ep = c1.cur]
      /\ net' = net \cup S
  BY DEF clusterRequestFailoverAuth
<1>3. c1.so = c.so /\ c1.own = c.own
  BY <1>1 DEF ConfigType
<1> HIDE DEF c1
<1>4. node'[n].cfg = c1 /\ \A m \in Nodes \ {n} : node'[m] = node[m]
  BY <1>1, <1>2 DEF TypeOK
<1>5. AllKept
  BY <1>1, <1>3, <1>4, SameClaims, OneKept
<1>6. \A p \in S : p.from # p.to /\ p.type # "update"
  <2>1. SUFFICES ASSUME NEW m \in Nodes \ {n}
                 PROVE  LET p == [clusterBuildMessageHdr("request", n, c1, m) EXCEPT !.force = force]
                        IN p.from # p.to /\ p.type # "update"
    BY Zenon
  <2>2. QED
    BY DEF clusterBuildMessageHdr
<1> HIDE DEF S
<1>7. QED
  BY <1>2, <1>5, <1>6, FewerLinks

LEMMA AckKept ==
  ASSUME NodesInv, LinksOK, NEW n \in Shard, receiveAuthAck(n)
  PROVE  AllKept /\ LinksOK'
<1>1. PICK p \in net : receiveAuthAck(n)!(p)
  BY DEF receiveAuthAck
<1> DEFINE c == UpdateEpochs(node[n].cfg, p)
           k == IF VoteCounts(n, c, p) THEN node[n].auth.count + 1 ELSE node[n].auth.count
<1>2. n \in Nodes /\ TypeOK /\ PacketOK(p) /\ Good(node[n].cfg)
  BY Sets DEF NodesInv, NetOK, MemoryOK
<1>3. node' = [node EXCEPT ![n].cfg = c, ![n].auth.count = k] /\ net' = net \ {p}
  BY <1>1, <1>2 DEF TypeOK
<1>4. c.so = node[n].cfg.so /\ c.own = node[n].cfg.own
  BY <1>2, EpochsKept
<1> HIDE DEF c, k
<1>5. node'[n].cfg = c /\ \A m \in Nodes \ {n} : node'[m] = node[m]
  BY <1>2, <1>3 DEF TypeOK
<1>6. AllKept
  BY <1>2, <1>4, <1>5, SameClaims, OneKept
<1>7. QED
  BY <1>3, <1>6 DEF LinksOK

LEMMA VoteKept ==
  ASSUME NodesInv, LinksOK, NEW m \in Nodes, clusterSendFailoverAuthIfNeeded(m)
  PROVE  AllKept /\ LinksOK'
<1>0. PICK p \in net : clusterSendFailoverAuthIfNeeded(m)!(p)
  BY DEF clusterSendFailoverAuthIfNeeded
<1> DEFINE c0 == node[m].cfg
           c == UpdateEpochs(c0, p)
           c1 == [c EXCEPT !.lv = c.cur]
           q == clusterBuildMessageHdr("ack", m, c1, p.from)
<1>1. PacketOK(p) /\ Good(c0) /\ TypeOK /\ p.from # m
  BY <1>0 DEF NodesInv, NetOK, MemoryOK, LinksOK
<1>2. Good(c) /\ c \in ConfigType /\ c.so = c0.so /\ c.own = c0.own
  BY <1>1, UpdateEpochsGood, EpochsKept DEF Follows, Good
<1>3. CASE MayVote(m, c, p)
  <2>1. /\ node' = [node EXCEPT ![m].cfg = c1, ![m].voted[c.so[p.from]] = [who |-> p.from, ep |-> c1.cur]]
        /\ net' = (net \ {p}) \cup {q}
    BY <1>0, <1>3
  <2> HIDE DEF c
  <2>2. c1.so = c0.so /\ c1.own = c0.own
    BY <1>2 DEF ConfigType
  <2>3. q.from # q.to /\ q.type # "update"
    BY <1>1, HeaderLinks
  <2> HIDE DEF c1, q
  <2>4. node'[m].cfg = c1 /\ \A n \in Nodes \ {m} : node'[n] = node[n]
    BY <1>1, <2>1 DEF TypeOK
  <2>5. AllKept
    BY <2>2, <2>4, SameClaims, OneKept
  <2>6. QED
    BY <2>1, <2>3, <2>5 DEF LinksOK
<1>4. CASE ~MayVote(m, c, p)
  <2>1. Become(m, c) /\ net' = net \ {p}
    BY <1>0, <1>4
  <2> HIDE DEF c
  <2>2. node'[m].cfg = c /\ \A n \in Nodes \ {m} : node'[n] = node[n]
    BY <1>1, <1>2, <2>1, CfgChanged DEF Become, Changed
  <2>3. AllKept
    BY <1>2, <2>2, SameClaims, OneKept
  <2>4. QED
    BY <2>1, <2>3 DEF LinksOK
<1>5. QED
  BY <1>3, <1>4

LEMMA ReplaceKept ==
  ASSUME NodesInv, LinksOK, NEW n \in Shard, NEW c \in ConfigType,
         clusterFailoverReplaceYourMaster(n, c), c.own = node[n].cfg.own,
         "takeover" \notin Ops => c.own = c.so[n]
  PROVE  AllKept /\ LinksOK'
<1> DEFINE own == IF c.own = c.so[n] THEN n ELSE c.own
           so == [c.so EXCEPT ![n] = NoNode]
           c1 == [c EXCEPT !.so[n] = NoNode, !.own = own]
<1>1. /\ node' = [node EXCEPT ![n].cfg = c1]
      /\ net' = net \cup {clusterBuildMessageHdr("ping", n, c1, m) : m \in Nodes \ {n}}
  BY DEF clusterFailoverReplaceYourMaster
<1>2. own \in Shard \cup {NoNode} /\ so \in [Shard -> Shard \cup {NoNode}] /\ n \in Nodes
  BY Sets DEF ConfigType
<1>3. c1 = [c EXCEPT !.so = so, !.own = own]
  BY DEF ConfigType
<1>4. own = n \/ own = c.own
  OBVIOUS
<1>5. "takeover" \notin Ops => own = n
  OBVIOUS
<1> HIDE DEF own, so, c1
<1>6. c1 \in ConfigType /\ c1.own = own
  BY <1>2, <1>3 DEF ConfigType
<1>7. node'[n].cfg = c1 /\ \A m \in Nodes \ {n} : node'[m] = node[m]
  BY <1>1, <1>2, <1>6, CfgChanged DEF Changed, NodesInv
<1>8. Kept(n, node[n].cfg, c1)
  BY <1>4, <1>5, <1>6 DEF Kept, ServesOwn, Newer
<1>9. AllKept
  BY <1>2, <1>7, <1>8, OneKept
<1>10. QED
  BY <1>1, <1>2, <1>9, AnnouncedLinks

LEMMA WinKept ==
  ASSUME NodesInv, LinksOK, NEW n \in Shard, winElection(n)
  PROVE  AllKept /\ LinksOK'
<1> DEFINE c == node[n].cfg
           e == IF c.ce[n] < node[n].auth.ep THEN node[n].auth.ep ELSE c.ce[n]
           d == [c EXCEPT !.ce[n] = e]
<1>1. clusterFailoverReplaceYourMaster(n, d) /\ c.own = c.so[n]
  BY DEF winElection
<1>2. c \in ConfigType /\ e \in Nat
  BY Sets DEF NodesInv, TypeOK, ConfigType, AuthType
<1> HIDE DEF e
<1>3. d \in ConfigType /\ d.own = c.own /\ d.so = c.so
  BY <1>2 DEF ConfigType
<1> HIDE DEF d
<1>4. QED
  BY <1>1, <1>3, ReplaceKept

LEMMA TakeoverKept ==
  ASSUME NodesInv, LinksOK, NEW n \in Shard, takeover(n)
  PROVE  AllKept /\ LinksOK'
<1> DEFINE c == node[n].cfg
           d == [c EXCEPT !.cur = c.cur + 1, !.ce[n] = c.cur + 1]
<1>1. PICK x \in {c, d} : clusterFailoverReplaceYourMaster(n, x)
  BY DEF takeover
<1>2. "takeover" \in Ops
  BY DEF takeover
<1>3. c \in ConfigType
  BY Sets DEF NodesInv, TypeOK
<1>4. d \in ConfigType /\ d.own = c.own
  <2> DEFINE ce == [c.ce EXCEPT ![n] = c.cur + 1]
  <2>1. c.cur + 1 \in Nat /\ ce \in [Shard -> Nat]
    BY <1>3 DEF ConfigType
  <2>2. d = [c EXCEPT !.cur = c.cur + 1, !.ce = ce]
    BY <1>3 DEF ConfigType
  <2> HIDE DEF ce, d, c
  <2>3. QED
    BY <1>3, <2>1, <2>2 DEF ConfigType
<1> HIDE DEF d
<1>5. QED
  BY <1>1, <1>2, <1>3, <1>4, ReplaceKept

LEMMA CrashKept ==
  ASSUME NodesInv, LinksOK, NEW n \in Nodes, crash(n)
  PROVE  AllKept /\ LinksOK'
<1> DEFINE max == Max({disk[n].cur} \cup {disk[n].ce[s] : s \in Shard})
           c == [disk[n] EXCEPT !.cur = max]
<1>1. /\ node' = [node EXCEPT ![n] = [cfg |-> c, auth |-> NoElection, voted |-> NoVotes]]
      /\ net' = net
  BY DEF crash
<1>2. disk[n] \in ConfigType /\ disk[n].so = node[n].cfg.so /\ disk[n].own = node[n].cfg.own /\ TypeOK
  BY DEF NodesInv, DiskOK, SavedAs
<1> HIDE DEF max
<1>3. c.so = node[n].cfg.so /\ c.own = node[n].cfg.own
  BY <1>2 DEF ConfigType
<1> HIDE DEF c
<1>4. node'[n].cfg = c /\ \A m \in Nodes \ {n} : node'[m] = node[m]
  BY <1>1, <1>2 DEF TypeOK
<1>5. AllKept
  BY <1>3, <1>4, SameClaims, OneKept
<1>6. QED
  BY <1>1, <1>5 DEF LinksOK

LEMMA ScheduleKept ==
  ASSUME NodesInv, LinksOK, NEW n \in Shard, ScheduleElection(n) \/ expire(n)
  PROVE  AllKept /\ LinksOK'
<1>1. net' = net /\ n \in Nodes
  BY Sets DEF ScheduleElection, expire
<1>2. \A m \in Nodes : node'[m].cfg = node[m].cfg
  BY <1>1 DEF ScheduleElection, expire, NodesInv, TypeOK
<1>3. QED
  BY <1>1, <1>2, SameClaims DEF AllKept, LinksOK

\* What the theorems about the owner of the slots rest on.
ServeInv == LinksOK /\ ("takeover" \notin Ops => \A n \in Nodes : ServesOwn(n, node[n].cfg))

LEMMA KeptStep ==
  ASSUME NodesInv, LinksOK, [Next]_vars
  PROVE  AllKept /\ LinksOK'
<1>1. ASSUME NEW n \in Shard, Elect(n)
      PROVE  AllKept /\ LinksOK'
  <2>1. CASE ScheduleElection(n) \/ expire(n)
    BY <2>1, ScheduleKept
  <2>2. ASSUME NEW f \in {FALSE} \cup {"force" \in Ops}, clusterRequestFailoverAuth(n, f)
        PROVE  AllKept /\ LinksOK'
    BY <2>2, RequestKept
  <2>3. CASE receiveAuthAck(n)
    BY <2>3, AckKept
  <2>4. CASE winElection(n)
    BY <2>4, WinKept
  <2>5. QED
    BY <1>1, <2>1, <2>2, <2>3, <2>4 DEF Elect
<1>2. ASSUME NEW n \in Shard, takeover(n)
      PROVE  AllKept /\ LinksOK'
  BY <1>2, TakeoverKept
<1>3. ASSUME NEW n \in Nodes, clusterSendPing(n)
      PROVE  AllKept /\ LinksOK'
  <2>1. node' = node /\ net' = net \cup {clusterBuildMessageHdr("ping", n, node[n].cfg, m) : m \in Nodes \ {n}}
    BY <1>3 DEF clusterSendPing
  <2>2. AllKept
    BY <2>1, SameClaims DEF AllKept
  <2>3. QED
    BY <2>1, <2>2, AnnouncedLinks
<1>4. ASSUME NEW n \in Nodes, clusterSendFailoverAuthIfNeeded(n) \/ Learn(n) \/ crash(n)
      PROVE  AllKept /\ LinksOK'
  BY <1>4, VoteKept, PacketKept, UpdateKept, CrashKept DEF Learn
<1>5. CASE lose \/ UNCHANGED vars
  <2>1. node' = node /\ net' \subseteq net
    BY <1>5 DEF lose, vars
  <2>2. QED
    BY <2>1, SameClaims DEF AllKept, LinksOK
<1>6. QED
  BY <1>1, <1>2, <1>3, <1>4, <1>5 DEF Next

LEMMA ServeInit == Init => ServeInv
<1>1. SUFFICES ASSUME Init PROVE ServeInv
  OBVIOUS
<1>2. \A n \in Nodes : node[n].cfg = Config0
  BY <1>1 DEF Init
<1>3. ASSUME NEW n \in Shard, Config0.so[n] = NoNode
      PROVE  Config0.own = n
  <2>1. Config0.so[n] = (IF n = First THEN NoNode ELSE First) /\ Config0.own = First
    BY DEF Config0
  <2>2. First # NoNode
    BY Sets
  <2>3. QED
    BY <1>3, <2>1, <2>2
<1>4. QED
  BY <1>1, <1>2, <1>3 DEF Init, ServeInv, LinksOK, ServesOwn

LEMMA ServeAlways == Spec => []ServeInv
<1>1. NodesInv /\ ServeInv /\ [Next]_vars => ServeInv'
  <2>1. SUFFICES ASSUME NodesInv, ServeInv, [Next]_vars PROVE ServeInv'
    OBVIOUS
  <2>2. AllKept /\ LinksOK'
    BY <2>1, KeptStep DEF ServeInv
  <2>3. QED
    BY <2>1, <2>2 DEF ServeInv, AllKept, Kept
<1>2. QED
  BY <1>1, ServeInit, NodesAlways, PTL DEF Spec

\* Without TAKEOVER a master of the shard always holds its slots, whatever
\* packets come late, again or not at all and whatever restarts: it gives up
\* its role together with the slots (clusterUpdateSlotsConfigWith,
\* clusterSetMaster) and wins it back only together with them
\* (clusterFailoverReplaceYourMaster).
THEOREM MastersAlwaysServe == Spec => []MastersServe
<1>1. ServeInv => MastersServe
  <2>1. Shard \subseteq Nodes /\ Shard \cap Voters = {}
    BY Sets, ElectionAssumption
  <2>2. QED
    BY <2>1 DEF ServeInv, ServesOwn, MastersServe, IsMaster
<1>2. QED
  BY <1>1, ServeAlways, PTL

\* No packet, however old, makes a node replace the owner of the slots it knows
\* by one with an epoch that is not newer, and no restart does
\* (clusterUpdateSlotsConfigWith, the UPDATE packets of clusterProcessPacket).
THEOREM OnlyNewerLearned == Spec => [][NewerLearned]_vars
<1>1. NodesInv /\ ServeInv /\ [Next]_vars => NewerLearned
  <2>1. NodesInv /\ ServeInv /\ [Next]_vars => AllKept
    BY KeptStep DEF ServeInv
  <2>2. AllKept => NewerLearned
    BY DEF AllKept, Kept, Newer, NewerLearned
  <2>3. QED
    BY <2>1, <2>2
<1>2. QED
  BY <1>1, ServeAlways, NodesAlways, PTL DEF Spec
=============================================================================
