--------------------------- MODULE RedisReplBuffer ---------------------------
(***************************************************************************)
(* A Redis master and the replicas that it feeds: full synchronization     *)
(* through a background save, the shared replication buffer and the        *)
(* replication backlog.                                                    *)
(*                                                                         *)
(* The stream is a list of blocks.  Every replica, and the backlog, points *)
(* into one block and counts as a reference of it; blocks are only freed   *)
(* from the head, when the backlog alone refers to them and is larger than *)
(* its configured size.  A replica in full synchronization does not read   *)
(* the stream yet, but its position is fixed when the save starts; another *)
(* replica may join that save later and take over the position.            *)
(*                                                                         *)
(* A byte of the stream is its offset.  A block is named by the offset of  *)
(* its first byte, 0 stands for NULL.                                      *)
(***************************************************************************)
EXTENDS Integers, Sequences, FiniteSets, FiniteSetsExt, SequencesExt

CONSTANTS
  Replicas,
  Chunk,        \* PROTO_REPLY_CHUNK_BYTES
  BacklogSize,  \* repl-backlog-size
  TrimPerCall,  \* REPL_BACKLOG_TRIM_BLOCKS_PER_CALL
  IndexEvery,   \* REPL_BACKLOG_INDEX_PER_BLOCKS
  Diskless,     \* repl-diskless-sync
  SaveParams,   \* whether save points are configured
  Lens,         \* lengths of the writes
  RdbOnly,      \* kinds of clients that ask for a SYNC, subset of BOOLEAN
  MaxOff,       \* bound on the stream
  MaxSyncs      \* bound on the synchronizations of a replica

ReplBufferAssumption ==
  /\ Chunk \in Nat \ {0} /\ BacklogSize \in Nat /\ TrimPerCall \in Nat \ {0}
  /\ IndexEvery \in Nat \ {0} /\ Diskless \in BOOLEAN /\ SaveParams \in BOOLEAN
  /\ Lens \subseteq (Nat \ {0}) /\ RdbOnly \subseteq BOOLEAN
  /\ MaxOff \in Nat /\ MaxSyncs \in Nat

VARIABLES
  buf,    \* the stream: off, blocks, and the backlog (on, node, histlen, offset,
          \* index, unindexed), made is the offset at which it was created
  rep,    \* the replicas, as their connection and as the data they have
  child,  \* the saving child: its target, the offset at the fork, killed
  cron    \* serverCron ran and beforeSleep has not freed clients yet

vars == <<buf, rep, child, cron>>

-----------------------------------------------------------------------------
Offline ==
  [st |-> "none", rdbonly |-> FALSE, node |-> 0, pos |-> 0, init |-> -1, onack |-> FALSE,
   closing |-> FALSE, pend |-> FALSE,
   sameid |-> FALSE, base |-> -1, next |-> 0, syncs |-> 0]

NoChild == [type |-> "none", snap |-> 0, killed |-> FALSE]

NoBacklog ==
  [off |-> 0, blocks |-> <<>>, on |-> FALSE, node |-> 0, histlen |-> 0, offset |-> 1,
   index |-> {}, unindexed |-> 0, made |-> 0]

Init ==
  /\ buf = NoBacklog
  /\ rep = [r \in Replicas |-> Offline]
  /\ child = NoChild
  /\ cron = FALSE

slaves == {r \in Replicas : rep[r].st # "none"}

Has(b, n) == \E i \in DOMAIN b.blocks : b.blocks[i].start = n

Pos(b, n) == CHOOSE i \in DOMAIN b.blocks : b.blocks[i].start = n

\* Adds d to the reference count of block n.
Ref(b, n, d) == [b EXCEPT !.blocks[Pos(b, n)].ref = @ + d]

Used(bs) == FoldSeq(LAMBDA x, y : x.used + y, 0, bs)

-----------------------------------------------------------------------------
(* The stream.                                                             *)

createReplicationBacklog(b) ==
  [NoBacklog EXCEPT !.off = b.off, !.on = TRUE, !.offset = b.off + 1, !.made = b.off]

\* At most max blocks go: n is the number of them for which the loop goes on.
incrementalTrimReplicationBacklog(b, max) ==
  LET left(j) == b.histlen - Used(SubSeq(b.blocks, 1, j))
      more(j) == /\ left(j) > BacklogSize
                 /\ Len(b.blocks) - j > 1
                 /\ b.blocks[j + 1].ref + (IF j = 0 THEN 0 ELSE 1) = 1
                 /\ left(j) - b.blocks[j + 1].size > BacklogSize
      n == CHOOSE k \in 0..max : /\ \A j \in 0..(k - 1) : more(j)
                                 /\ k = max \/ ~more(k)
      kept == SubSeq(b.blocks, n + 1, Len(b.blocks))
      c == IF n = 0 THEN b
           ELSE [b EXCEPT !.blocks = [kept EXCEPT ![1].ref = @ + 1], !.node = kept[1].start,
                          !.histlen = left(n), !.index = {i \in @ : i >= kept[1].start}]
  IN [c EXCEPT !.offset = c.off - c.histlen + 1]

\* A block more: every IndexEvery-th one is indexed.
createReplicationBacklogIndex(b, n) ==
  IF b.unindexed + 1 >= IndexEvery
    THEN [b EXCEPT !.index = @ \cup {n}, !.unindexed = 0]
    ELSE [b EXCEPT !.unindexed = @ + 1]

canFeedReplicaReplBuffer(p) == p.st \in {"end", "bulk", "online"} /\ ~p.rdbonly

clientHasPendingReplies(b, p) ==
  p.node # 0 /\ ~(p.node = Last(b.blocks).start /\ p.pos = Last(b.blocks).used)

\* Puts the client into the queue of clients to write to, unless it must have
\* been put there before.
prepareClientToWrite(b, p) ==
  [p EXCEPT !.pend = \/ @
                     \/ /\ ~p.closing /\ ~clientHasPendingReplies(b, p)
                        /\ p.st = "online" /\ ~p.onack]

\* Where the new bytes start, and the list after them: the free room of the
\* last block is used up first.
Appended(b, len) ==
  LET room == IF b.blocks = <<>> THEN 0 ELSE Last(b.blocks).size - Last(b.blocks).used
      copy == IF room >= len THEN len ELSE room
      rest == len - copy
      filled == IF copy = 0 THEN b.blocks
                ELSE [b.blocks EXCEPT ![Len(b.blocks)].used = @ + copy]
      new == [start |-> b.off + copy + 1, size |-> IF rest < Chunk THEN Chunk ELSE rest,
              used |-> rest, ref |-> 0]
  IN [blocks |-> IF rest = 0 THEN filled ELSE Append(filled, new),
      new |-> rest # 0,
      node |-> IF copy # 0 THEN Last(b.blocks).start ELSE new.start,
      pos |-> IF copy # 0 THEN Last(b.blocks).used ELSE 0]

\* A write is propagated: replicationFeedSlaves and feedReplicationBuffer.
\* Replicas at the end of the stream get the place of the new bytes.
feedReplicationBuffer(len) ==
  /\ ~cron
  /\ buf.on /\ buf.off + len <= MaxOff
  /\ LET a == Appended(buf, len)
         R == {r \in slaves : canFeedReplicaReplBuffer(rep[r]) /\ rep[r].node = 0}
         b1 == [buf EXCEPT !.off = @ + len, !.histlen = @ + len, !.blocks = a.blocks]
         b2 == Ref(b1, a.node, Cardinality(R) + IF buf.node = 0 THEN 1 ELSE 0)
         b3 == IF buf.node = 0 THEN [b2 EXCEPT !.node = a.node] ELSE b2
         b4 == IF a.new THEN createReplicationBacklogIndex(b3, Last(a.blocks).start) ELSE b3
     IN /\ buf' = incrementalTrimReplicationBacklog(b4, TrimPerCall)
        /\ rep' = [r \in Replicas |->
             LET p == prepareClientToWrite(buf, rep[r])
             IN IF ~canFeedReplicaReplBuffer(rep[r]) THEN rep[r]
                ELSE IF p.node = 0 THEN [p EXCEPT !.node = a.node, !.pos = a.pos]
                                    ELSE p]
  /\ UNCHANGED <<child, cron>>

\* A write while there is no backlog: the offset does not move.
writeUnlogged ==
  /\ ~cron /\ ~buf.on
  /\ rep' = [r \in Replicas |-> [rep[r] EXCEPT !.sameid = FALSE]]
  /\ UNCHANGED <<buf, child, cron>>

-----------------------------------------------------------------------------
(* Sending.                                                                *)

\* writeToClient of a replica: n bytes of its block, then on to the next one.
\* The write handler stays as long as there is more to send.
writeToClient(r, n) ==
  LET p == rep[r]
      i == Pos(buf, p.node)
      q == [p EXCEPT !.pos = @ + n, !.next = @ + n]
      moves == q.pos = buf.blocks[i].used /\ i < Len(buf.blocks)
      q2 == IF moves THEN [q EXCEPT !.node = buf.blocks[i + 1].start, !.pos = 0] ELSE q
      b == IF moves THEN incrementalTrimReplicationBacklog(
                           Ref(Ref(buf, p.node, -1), buf.blocks[i + 1].start, 1), TrimPerCall)
                    ELSE buf
  IN /\ p.pend /\ ~p.closing
     /\ clientHasPendingReplies(buf, p)
     /\ n \in 0..(buf.blocks[i].used - p.pos) /\ (n = 0 => p.pos = buf.blocks[i].used)
     /\ buf' = b
     /\ rep' = [rep EXCEPT ![r] = [q2 EXCEPT !.pend = clientHasPendingReplies(b, q2)]]
     /\ UNCHANGED <<child, cron>>

\* A replica that was queued with nothing to send leaves the queue.
nothingToSend(r) ==
  /\ rep[r].pend /\ ~clientHasPendingReplies(buf, rep[r])
  /\ rep' = [rep EXCEPT ![r].pend = FALSE]
  /\ UNCHANGED <<buf, child, cron>>

\* Mutant: a free client keeps its reference.
FreeKeepsRef(b, p) == b

\* The replica disconnects.  Bytes on their way may not have reached it.
freeReplicaReferencedReplBuffer(b, p) ==
  IF p.node = 0 THEN b ELSE incrementalTrimReplicationBacklog(Ref(b, p.node, -1), TrimPerCall)

anyOtherSlaveWaitRdb(r) == \E s \in slaves \ {r} : rep[s].st = "end"

freeClient(r) ==
  /\ r \in slaves
  /\ cron => rep[r].closing
  /\ buf' = freeReplicaReferencedReplBuffer(buf, rep[r])
  /\ LET p == rep[r]
         synced == p.st = "online" /\ ~p.rdbonly
     IN \E lost \in {0, 1} :
          /\ lost = 1 => synced /\ p.next - 1 > p.base
          /\ rep' = [rep EXCEPT ![r] =
               [Offline EXCEPT !.sameid = synced, !.base = IF synced THEN p.base ELSE -1,
                               !.next = IF synced THEN p.next - lost ELSE 0, !.syncs = p.syncs]]
  /\ child' = IF ~SaveParams /\ rep[r].st = "end" /\ child.type = "disk" /\ ~anyOtherSlaveWaitRdb(r)
                THEN [child EXCEPT !.killed = TRUE] ELSE child
  /\ UNCHANGED cron

\* freeClientAsync: output limit reached, a write error, a timeout.
freeClientAsync(r) ==
  /\ r \in slaves /\ ~rep[r].closing
  /\ rep' = [rep EXCEPT ![r].closing = TRUE]
  /\ UNCHANGED <<buf, child, cron>>

\* beforeSleep, once the clients to free are freed: a longer trim.
beforeSleep ==
  /\ cron => \A r \in slaves : ~rep[r].closing
  /\ cron' = FALSE
  /\ buf' = IF buf.on THEN incrementalTrimReplicationBacklog(buf, 10 * TrimPerCall) ELSE buf
  /\ UNCHANGED <<rep, child>>

-----------------------------------------------------------------------------
(* Synchronization.                                                        *)

\* The block to start from, by the index and then by search.
SearchFrom(b, o) ==
  LET above == {i \in b.index : i > o}
      below == {i \in b.index : \A j \in above : i < j}
      from == IF b.index = {} THEN b.node
              ELSE IF above = {} THEN Max(b.index)
              ELSE IF below = {} THEN b.node ELSE Max(below)
      enough == {i \in DOMAIN b.blocks : /\ b.blocks[i].start >= from
                                         /\ b.blocks[i].start + b.blocks[i].used >= o}
  IN b.blocks[Min(enough)]

Accepts(o) == buf.on /\ o >= buf.offset /\ o <= buf.offset + buf.histlen

Asks(r) == rep[r].st = "none" /\ rep[r].syncs < MaxSyncs /\ ~cron

\* PSYNC that the master can continue: addReplyReplicationBacklog.
masterTryPartialResynchronization(r) ==
  LET p == rep[r]
      q == [p EXCEPT !.st = "online", !.syncs = @ + 1]
  IN /\ Asks(r) /\ p.sameid /\ Accepts(p.next)
     /\ IF buf.histlen = 0
          THEN buf' = buf /\ rep' = [rep EXCEPT ![r] = q]
          ELSE LET o == SearchFrom(buf, p.next)
               IN /\ buf' = Ref(buf, o.start, 1)
                  /\ rep' = [rep EXCEPT ![r] =
                       [prepareClientToWrite(buf, q) EXCEPT !.node = o.start,
                                                            !.pos = p.next - o.start]]
     /\ UNCHANGED <<child, cron>>

\* A full synchronization is needed: the client joins server.slaves, and the
\* first one makes the backlog, with a new replication ID.
FullSync(r, only) ==
  [Offline EXCEPT !.st = "start", !.rdbonly = only, !.syncs = rep[r].syncs + 1]

NeedsFull(r, only) == Asks(r) /\ (only \/ ~(rep[r].sameid /\ Accepts(rep[r].next)))

Creates == slaves = {} /\ ~buf.on

BacklogFor == IF Creates THEN createReplicationBacklog(buf) ELSE buf

Others(p) == IF Creates THEN [p EXCEPT !.sameid = FALSE] ELSE p

\* The replicas for which a save starts: replicationSetupSlaveForFullResync.
Setup(p, off) == [p EXCEPT !.st = "end", !.init = off, !.next = off + 1]

\* Replica s waits for the end of a save on disk: r can join it.
Joins(r, s, only) == s \in slaves /\ rep[s].st = "end" /\ (~rep[s].rdbonly \/ only)

\* SYNC joins the save in progress: copyReplicaOutputBuffer.
syncJoins(r, s, only) ==
  /\ NeedsFull(r, only)
  /\ child.type = "disk" /\ Joins(r, s, only)
  /\ LET copies == ~only /\ rep[s].node # 0
     IN /\ rep' = [rep EXCEPT ![r] =
             [Setup(FullSync(r, only), rep[s].init) EXCEPT
                !.node = IF copies THEN rep[s].node ELSE 0, !.pos = IF copies THEN rep[s].pos ELSE 0]]
        /\ buf' = IF copies THEN Ref(buf, rep[s].node, 1) ELSE buf
  /\ UNCHANGED <<child, cron>>

\* SYNC waits: for the next save, or for the delay of diskless saves.
syncWaits(r, only) ==
  /\ NeedsFull(r, only)
  /\ \/ child.type = "socket"
     \/ child.type = "disk" /\ ~\E s \in Replicas : Joins(r, s, only)
     \/ child.type = "none" /\ Diskless
  /\ buf' = BacklogFor
  /\ rep' = [s \in Replicas |-> IF s = r THEN FullSync(r, only) ELSE Others(rep[s])]
  /\ UNCHANGED <<child, cron>>

Waiting(f) == {r \in Replicas : f[r].st = "start"}

\* startBgsaveForReplication: the waiting replicas start at the fork, or are
\* sent away if it fails.
startBgsaveForReplication(f, off, ok) ==
  /\ child' = IF ok THEN [type |-> IF Diskless THEN "socket" ELSE "disk", snap |-> off,
                          killed |-> FALSE] ELSE child
  /\ rep' = [r \in Replicas |->
               IF f[r].st # "start" THEN f[r]
               ELSE IF ok THEN Setup(f[r], off)
               ELSE [Offline EXCEPT !.syncs = f[r].syncs]]

\* SYNC with no child: the save starts at once.
syncStarts(r, only, ok) ==
  /\ NeedsFull(r, only)
  /\ child.type = "none" /\ ~Diskless
  /\ buf' = BacklogFor
  /\ startBgsaveForReplication(
       [s \in Replicas |-> IF s = r THEN FullSync(r, only) ELSE Others(rep[s])], buf.off, ok)
  /\ UNCHANGED cron

\* replicationCron starts the save that replicas wait for.
replicationStartPendingFork(ok) ==
  /\ child.type = "none" /\ Waiting(rep) # {}
  /\ startBgsaveForReplication(rep, buf.off, ok)
  /\ UNCHANGED <<buf, cron>>

\* BGSAVE by a user or a save point: nobody registers the differences.
rdbSaveBackground ==
  /\ ~cron /\ child.type = "none"
  /\ child' = [type |-> "disk", snap |-> buf.off, killed |-> FALSE]
  /\ UNCHANGED <<buf, rep, cron>>

\* The child ends: updateSlavesWaitingBgsave, from serverCron.
updateSlavesWaitingBgsave(ok) ==
  /\ ~cron
  /\ child.type # "none"
  /\ child.killed => ~ok
  /\ child' = NoChild
  /\ rep' = [r \in Replicas |->
       LET p == rep[r]
       IN IF p.st # "end" THEN p
          ELSE IF ~ok THEN [p EXCEPT !.closing = TRUE]
          ELSE IF child.type = "socket"
            THEN [p EXCEPT !.st = IF p.rdbonly THEN @ ELSE "online", !.onack = TRUE, !.base = child.snap]
          ELSE [p EXCEPT !.st = "bulk", !.base = child.snap]]
  /\ cron' = TRUE
  /\ UNCHANGED buf

\* The stream may be sent from now on.
replicaStartCommandStream(p) ==
  IF p.rdbonly THEN [p EXCEPT !.onack = FALSE, !.closing = TRUE]
               ELSE [p EXCEPT !.onack = FALSE, !.pend = TRUE]

\* The file is sent.
sendBulkToSlave(r) ==
  /\ rep[r].st = "bulk" /\ ~rep[r].closing
  /\ rep' = [rep EXCEPT ![r] =
               replicaStartCommandStream([@ EXCEPT !.st = IF rep[r].rdbonly THEN @ ELSE "online"])]
  /\ UNCHANGED <<buf, child, cron>>

\* The first REPLCONF ACK after a diskless transfer.
replconfAck(r) ==
  /\ ~cron
  /\ rep[r].st = "online" /\ rep[r].onack /\ ~rep[r].closing
  /\ rep' = [rep EXCEPT ![r] = replicaStartCommandStream(@)]
  /\ UNCHANGED <<buf, child, cron>>

\* replicationCron: no replica for long, the backlog is freed, and the
\* replication ID changes since writes are not counted any more.
freeReplicationBacklog ==
  /\ ~cron
  /\ slaves = {} /\ buf.on
  /\ buf' = [NoBacklog EXCEPT !.off = buf.off]
  /\ rep' = [r \in Replicas |-> [rep[r] EXCEPT !.sameid = FALSE]]
  /\ UNCHANGED <<child, cron>>

-----------------------------------------------------------------------------
Next ==
  \/ \E len \in Lens : feedReplicationBuffer(len)
  \/ writeUnlogged
  \/ beforeSleep
  \/ rdbSaveBackground
  \/ freeReplicationBacklog
  \/ \E ok \in BOOLEAN : replicationStartPendingFork(ok) \/ updateSlavesWaitingBgsave(ok)
  \/ \E r \in Replicas :
       \/ \E n \in 0..MaxOff : writeToClient(r, n)
       \/ nothingToSend(r)
       \/ freeClient(r) \/ freeClientAsync(r)
       \/ masterTryPartialResynchronization(r)
       \/ sendBulkToSlave(r) \/ replconfAck(r)
       \/ \E only \in RdbOnly :
            \/ \E s \in Replicas : syncJoins(r, s, only)
            \/ syncWaits(r, only)
            \/ \E ok \in BOOLEAN : syncStarts(r, only, ok)

Spec == Init /\ [][Next]_vars

-----------------------------------------------------------------------------
(* Properties.                                                             *)

TypeOK ==
  /\ buf.off \in 0..MaxOff /\ buf.histlen \in 0..MaxOff /\ buf.node \in 0..MaxOff
  /\ \A i \in DOMAIN buf.blocks :
       LET o == buf.blocks[i]
       IN o.start \in 1..MaxOff /\ o.used \in 1..o.size /\ o.ref \in 0..(Cardinality(Replicas) + 1)
  /\ buf.index \subseteq 1..MaxOff /\ buf.unindexed \in 0..(IndexEvery - 1)
  /\ \A r \in Replicas :
       /\ rep[r].st \in {"none", "start", "end", "bulk", "online"}
       /\ rep[r].pos \in 0..MaxOff /\ rep[r].next \in 0..(MaxOff + 1)
  /\ child.type \in {"none", "disk", "socket"}
  /\ cron \in BOOLEAN

\* Every reference count is the number of clients that point to the block,
\* the backlog included, and whatever is pointed to is in the list; this is
\* what the assertions of the trimming and of replicationCron rely on.
RefCounts ==
  /\ \A i \in DOMAIN buf.blocks :
       LET o == buf.blocks[i]
       IN o.ref = Cardinality({r \in Replicas : rep[r].node = o.start})
                  + (IF buf.node = o.start THEN 1 ELSE 0)
  /\ \A r \in Replicas : rep[r].node # 0 => Has(buf, rep[r].node)
  /\ buf.blocks # <<>> => buf.node = buf.blocks[1].start
  /\ buf.blocks = <<>> => buf.node = 0

\* The blocks tile the last histlen bytes of the stream, from the backlog's
\* offset on, all but the last one full (feedReplicationBuffer).
BlocksTile ==
  /\ buf.histlen = Used(buf.blocks)
  /\ buf.on => buf.offset = buf.off - buf.histlen + 1
  /\ buf.blocks # <<>> => buf.blocks[1].start = buf.offset
  /\ \A i \in 1..(Len(buf.blocks) - 1) :
       /\ buf.blocks[i].used = buf.blocks[i].size
       /\ buf.blocks[i + 1].start = buf.blocks[i].start + buf.blocks[i].used
  /\ \A i \in buf.index : Has(buf, i)

\* The next byte a replica is going to be sent is the one after the last it
\* has: after a partial resynchronization, and from the fork of the save it
\* got or joined on, nothing is skipped or sent twice.
StreamInOrder ==
  \A r \in slaves :
    canFeedReplicaReplBuffer(rep[r]) =>
      IF rep[r].node # 0
        THEN /\ rep[r].node + rep[r].pos = rep[r].next
             /\ rep[r].pos \in 0..buf.blocks[Pos(buf, rep[r].node)].used
        ELSE rep[r].next = buf.off + 1

\* The data set sent to a replica is the one at the offset it was told in
\* +FULLRESYNC (replicationSetupSlaveForFullResync, syncCommand).
SnapshotAtOffset ==
  \A r \in slaves : (rep[r].st \in {"bulk", "online"} /\ rep[r].init # -1) => rep[r].base = rep[r].init

\* An online replica with bytes to send is in the queue of clients to write
\* to, or has its write handler: the handler is looked for before bytes are
\* added, when it can still be told (prepareReplicasToWrite).
NoStuckReplica ==
  \A r \in slaves :
    (rep[r].st = "online" /\ ~rep[r].onack /\ ~rep[r].closing /\ clientHasPendingReplies(buf, rep[r]))
      => rep[r].pend

\* The backlog holds at least its configured size of history, if there was
\* as much (incrementalTrimReplicationBacklog).
KeepsHistory ==
  buf.on => buf.histlen >= Min({BacklogSize, buf.off - buf.made})
=============================================================================
