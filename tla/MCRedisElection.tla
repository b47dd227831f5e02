-------------------------- MODULE MCRedisElection --------------------------
(***************************************************************************)
(* The elections of one shard with three nodes on a small instance.  A     *)
(* behaviour is one of elections, whose winners tell everybody, or one of  *)
(* takeovers, whose claims are also spread by the regular PINGs.           *)
(***************************************************************************)
EXTENDS RedisClusterElection, TLC

VARIABLE about

Voting ==
  \/ \E n \in Shard : Elect(n)
  \/ \E n \in Nodes : clusterSendFailoverAuthIfNeeded(n) \/ clusterProcessPacket(n) \/ crash(n)
  \/ lose

Claiming ==
  \/ \E n \in Shard : net = {} /\ takeover(n)
  \/ \E n \in Nodes : Learn(n) \/ clusterSendPing(n)
  \/ lose

MCInit == Init /\ about \in {"elections", "takeovers"}

MCNext ==
  /\ \/ about = "elections" /\ Voting
     \/ about = "takeovers" /\ Claiming
  /\ UNCHANGED about

MCSpec == MCInit /\ [][MCNext]_<<vars, about>>

Symmetry == Permutations(Voters)
=============================================================================
