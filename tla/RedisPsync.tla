----------------------------- MODULE RedisPsync -----------------------------
(***************************************************************************)
(* Roles and histories of replicated Redis servers: REPLICAOF, promotion,  *)
(* full and partial resynchronization (PSYNC), cached masters, chains of   *)
(* replicas, and restarts from the RDB file.                               *)
(*                                                                         *)
(* A history is named by a replication ID.  A server that is promoted gets *)
(* a new ID and keeps the old one as second ID, valid up to the offset of  *)
(* its promotion; a replica may continue from its offset if the master     *)
(* knows its ID and still has the bytes.  What the servers agree on by IDs *)
(* and offsets must be true of their data.                                 *)
(*                                                                         *)
(* A write is one unit of the stream.  data is the sequence of writes that *)
(* made the data set.  pipe[r] is what r's master sent and r has not read: *)
(* the answer to PSYNC, then writes.                                       *)
(***************************************************************************)
EXTENDS Integers, Sequences, FiniteSets, SequencesExt

CONSTANTS
  Servers, NoServer,
  BacklogLen,  \* number of writes kept in a backlog
  Persist,     \* whether servers save RDB files and restart
  MaxWrites,   \* bound on the writes
  MaxEvents    \* bound on role changes, lost links, saves and restarts

PsyncAssumption ==
  /\ IsFiniteSet(Servers) /\ NoServer \notin Servers
  /\ BacklogLen \in Nat \ {0} /\ Persist \in BOOLEAN
  /\ MaxWrites \in Nat /\ MaxEvents \in Nat

VARIABLES
  srv,     \* the servers
  feed,    \* the server whose slave list r is in
  pipe,    \* what it has sent to r
  disk,    \* the RDB file of each server
  writes, ids, events

vars == <<srv, feed, pipe, disk, writes, ids, events>>

-----------------------------------------------------------------------------
NoCache == [id |-> 0, off |-> -1]

NoBacklog == [on |-> FALSE, first |-> 1, w |-> <<>>]

\* masterhost, link state, replid, replid2, second_replid_offset,
\* master_repl_offset, server.master or server.cached_master (ID and offset),
\* backlog, data.
NewServer(id) ==
  [m |-> NoServer, ls |-> "none", id |-> id, id2 |-> 0, off2 |-> -1, off |-> 0,
   cm |-> NoCache, bl |-> NoBacklog, data |-> <<>>]

NoFile == [info |-> FALSE, id |-> 0, off |-> 0, data |-> <<>>]

Init ==
  /\ \E f \in [Servers -> 1..Cardinality(Servers)] :
       /\ IsInjective(f)
       /\ srv = [s \in Servers |-> NewServer(f[s])]
  /\ feed = [s \in Servers |-> NoServer]
  /\ pipe = [s \in Servers |-> <<>>]
  /\ disk = [s \in Servers |-> NoFile]
  /\ writes = 0 /\ events = 0
  /\ ids = Cardinality(Servers)

slaves(s) == {r \in Servers : feed[r] = s}

Event == events < MaxEvents /\ events' = events + 1

-----------------------------------------------------------------------------
(* The stream of a server.                                                 *)

createReplicationBacklog(x) ==
  [x EXCEPT !.bl = [on |-> TRUE, first |-> x.off + 1, w |-> <<>>]]

\* A write enters the backlog, if there is one, and counts.
feedReplicationBuffer(x, w) ==
  IF ~x.bl.on THEN x
  ELSE LET all == Append(x.bl.w, w)
           drop == IF Len(all) > BacklogLen THEN 1 ELSE 0
       IN [x EXCEPT !.off = @ + 1,
                    !.bl = [on |-> TRUE, first |-> @.first + drop,
                            w |-> SubSeq(all, 1 + drop, Len(all))]]

Send(R, msg) == [r \in Servers |-> IF r \in R THEN Append(pipe[r], msg) ELSE pipe[r]]

\* A client writes to a master: replicationFeedSlaves.
replicationFeedSlaves(s) ==
  /\ srv[s].m = NoServer
  /\ writes < MaxWrites
  /\ writes' = writes + 1
  /\ srv' = [srv EXCEPT ![s] = [feedReplicationBuffer(srv[s], writes') EXCEPT !.data = Append(@, writes')]]
  /\ pipe' = Send(slaves(s), [t |-> "w", w |-> writes'])
  /\ UNCHANGED <<feed, disk, ids, events>>

-----------------------------------------------------------------------------
(* IDs and cached masters, as functions of a server's state.               *)

changeReplicationId(x, id) == [x EXCEPT !.id = id]

clearReplicationId2(x) == [x EXCEPT !.id2 = 0, !.off2 = -1]

\* Mutant: the second ID is valid one byte further.
ShiftOneMore(x, id) == changeReplicationId([x EXCEPT !.id2 = x.id, !.off2 = x.off + 2], id)

shiftReplicationId(x, id) == changeReplicationId([x EXCEPT !.id2 = x.id, !.off2 = x.off + 1], id)

\* replicationCacheMaster: the link is lost, ID and offset are remembered;
\* while the answer to PSYNC is awaited the cached master is still there.
replicationHandleMasterDisconnection(x) == [x EXCEPT !.ls = "connect"]

replicationDiscardCachedMaster(x) == [x EXCEPT !.cm = NoCache]

replicationCacheMasterUsingMyself(x) == [x EXCEPT !.cm = [id |-> x.id, off |-> x.off]]

\* The replicas in R lose their connection to their master.
Lost(f, R) == [r \in Servers |-> IF r \in R THEN replicationHandleMasterDisconnection(f[r]) ELSE f[r]]

Cut(R) ==
  /\ feed' = [r \in Servers |-> IF r \in R THEN NoServer ELSE feed[r]]
  /\ pipe' = [r \in Servers |-> IF r \in R THEN <<>> ELSE pipe[r]]

-----------------------------------------------------------------------------
(* PSYNC.                                                                  *)

\* Mutant: the offset is not compared for the second ID.
AcceptsAnyOffset(x, c) ==
  /\ c.id = x.id \/ c.id = x.id2
  /\ x.bl.on /\ c.off + 1 >= x.bl.first /\ c.off + 1 <= x.bl.first + Len(x.bl.w)

\* Server state x can continue a replica that has history c.
Accepts(x, c) ==
  /\ c.id = x.id \/ (c.id = x.id2 /\ c.off + 1 <= x.off2)
  /\ x.bl.on
  /\ c.off + 1 >= x.bl.first
  /\ c.off + 1 <= x.bl.first + Len(x.bl.w)

Asks(r, s) ==
  /\ srv[r].m = s /\ srv[r].ls = "connect"
  /\ feed[r] = NoServer
  /\ srv[s].m = NoServer \/ srv[s].ls = "connected"

\* +CONTINUE with the ID, then the backlog from the offset on.
masterTryPartialResynchronization(r, s) ==
  /\ Asks(r, s)
  /\ LET x == srv[s]
         c == srv[r].cm
         missed == SubSeq(x.bl.w, c.off + 2 - x.bl.first, Len(x.bl.w))
     IN /\ c # NoCache /\ Accepts(x, c)
        /\ pipe' = [pipe EXCEPT ![r] = <<[t |-> "continue", id |-> x.id]>>
                        \o [i \in DOMAIN missed |-> [t |-> "w", w |-> missed[i]]]]
  /\ srv' = [srv EXCEPT ![r].ls = "wait"]
  /\ feed' = [feed EXCEPT ![r] = s]
  /\ UNCHANGED <<disk, writes, ids, events>>

\* +FULLRESYNC with ID and offset, then the data set.  A backlog made from
\* scratch starts a new history.
syncCommand(r, s) ==
  /\ Asks(r, s)
  /\ ~(srv[r].cm # NoCache /\ Accepts(srv[s], srv[r].cm))
  /\ LET creates == slaves(s) = {} /\ ~srv[s].bl.on
         x == IF creates
                THEN createReplicationBacklog(clearReplicationId2(changeReplicationId(srv[s], ids + 1)))
                ELSE srv[s]
     IN /\ srv' = [srv EXCEPT ![s] = x, ![r].ls = "wait"]
        /\ pipe' = [pipe EXCEPT ![r] = <<[t |-> "full", id |-> x.id, off |-> x.off, data |-> x.data]>>]
        /\ ids' = IF creates THEN ids + 1 ELSE ids
  /\ feed' = [feed EXCEPT ![r] = s]
  /\ UNCHANGED <<disk, writes, events>>

Reads(r, type) == feed[r] # NoServer /\ pipe[r] # <<>> /\ Head(pipe[r]).t = type

\* The replica reads +CONTINUE: the cached master is resurrected.  If the ID
\* changed, the old one becomes the second ID and the sub-replicas are cut.
replicationResurrectCachedMaster(r) ==
  /\ Reads(r, "continue")
  /\ LET id == Head(pipe[r]).id
         x == srv[r]
         changed == id # x.cm.id
         y == IF ~changed THEN x
              ELSE [x EXCEPT !.id2 = x.cm.id, !.off2 = x.off + 1, !.id = id, !.cm.id = id]
         z == IF y.bl.on THEN y ELSE createReplicationBacklog(y)
         R == IF changed THEN slaves(r) \ {r} ELSE {}
     IN /\ srv' = Lost([srv EXCEPT ![r] = [z EXCEPT !.ls = "connected"]], R)
        /\ feed' = [q \in Servers |-> IF q \in R THEN NoServer ELSE feed[q]]
        /\ pipe' = [q \in Servers |-> IF q \in R THEN <<>> ELSE IF q = r THEN Tail(pipe[r]) ELSE pipe[q]]
  /\ UNCHANGED <<disk, writes, ids, events>>

\* The replica reads +FULLRESYNC and loads the data set; the file it was sent
\* is its RDB file from now on.  Its sub-replicas are cut.
readSyncBulkPayload(r) ==
  /\ Reads(r, "full")
  /\ LET msg == Head(pipe[r])
         x == srv[r]
         y == clearReplicationId2([x EXCEPT !.id = msg.id, !.off = msg.off, !.data = msg.data,
                                            !.cm = [id |-> msg.id, off |-> msg.off]])
         R == slaves(r) \ {r}
     IN /\ srv' = Lost([srv EXCEPT ![r] = [createReplicationBacklog(y) EXCEPT !.ls = "connected"]], R)
        /\ feed' = [q \in Servers |-> IF q \in R THEN NoServer ELSE feed[q]]
        /\ pipe' = [q \in Servers |-> IF q \in R THEN <<>> ELSE IF q = r THEN Tail(pipe[r]) ELSE pipe[q]]
        /\ disk' = IF Persist THEN [disk EXCEPT ![r] = [info |-> TRUE, id |-> msg.id, off |-> msg.off,
                                                         data |-> msg.data]]
                              ELSE disk
  /\ UNCHANGED <<writes, ids, events>>

\* Loading fails after the old data set was emptied: the cached master, the
\* backlog and the sub-replicas are gone already.
loadingFails(r) ==
  /\ Event
  /\ Reads(r, "full")
  /\ LET R == (slaves(r) \ {r})
     IN /\ srv' = Lost([srv EXCEPT ![r] = [replicationDiscardCachedMaster(@) EXCEPT
                                             !.ls = "connect", !.bl = NoBacklog, !.data = <<>>]], R)
        /\ Cut(R \cup {r})
  /\ UNCHANGED <<disk, writes, ids>>

\* The replica applies a write of its master, and hands it on.
replicationFeedStreamFromMasterStream(r) ==
  /\ Reads(r, "w") /\ srv[r].ls = "connected"
  /\ LET w == Head(pipe[r]).w
         x == [feedReplicationBuffer(srv[r], w) EXCEPT !.data = Append(@, w)]
     IN /\ srv' = [srv EXCEPT ![r] = [x EXCEPT !.cm.off = @ + 1]]
        /\ pipe' = [Send(slaves(r), [t |-> "w", w |-> w]) EXCEPT ![r] = Tail(@)]
  /\ UNCHANGED <<feed, disk, writes, ids, events>>

-----------------------------------------------------------------------------
(* Faults and roles.                                                       *)

\* The connection of r to its master is lost, with what is on it.
disconnect(r) ==
  /\ Event
  /\ feed[r] # NoServer
  /\ srv' = Lost(srv, {r})
  /\ Cut({r})
  /\ UNCHANGED <<disk, writes, ids>>

\* REPLICAOF s: sub-replicas are not disconnected.  A master takes its own
\* history as the cached master's.
replicationSetMaster(r, s) ==
  /\ Event
  /\ s # r /\ srv[r].m # s
  /\ LET x == replicationHandleMasterDisconnection(srv[r])
         y == IF srv[r].m = NoServer
                THEN replicationCacheMasterUsingMyself(replicationDiscardCachedMaster(x))
                ELSE x
     IN srv' = [srv EXCEPT ![r] = [y EXCEPT !.m = s]]
  /\ Cut({r})
  /\ UNCHANGED <<disk, writes, ids>>

\* REPLICAOF NO ONE: a new history, the sub-replicas are cut to learn its ID.
replicationUnsetMaster(r) ==
  /\ Event
  /\ srv[r].m # NoServer
  /\ LET R == slaves(r)
         x == shiftReplicationId(replicationDiscardCachedMaster(srv[r]), ids + 1)
     IN /\ srv' = Lost([srv EXCEPT ![r] = [x EXCEPT !.m = NoServer, !.ls = "none"]], R \ {r})
        /\ Cut(R \cup {r})
  /\ ids' = ids + 1
  /\ UNCHANGED <<disk, writes>>

\* A master without replicas for long: writes will not be counted, so the ID
\* changes.
freeReplicationBacklog(s) ==
  /\ Event
  /\ srv[s].m = NoServer /\ srv[s].bl.on /\ slaves(s) = {}
  /\ srv' = [srv EXCEPT ![s] = [clearReplicationId2(changeReplicationId(@, ids + 1)) EXCEPT
                                  !.bl = NoBacklog]]
  /\ ids' = ids + 1
  /\ UNCHANGED <<feed, pipe, disk, writes>>

\* rdbPopulateSaveInfo: the file gets ID and offset only if they are true of
\* the data.
rdbPopulateSaveInfo(x) == (x.m = NoServer /\ x.bl.on) \/ x.ls = "connected" \/ x.cm # NoCache

rdbSave(s) ==
  /\ Persist /\ Event
  /\ disk' = [disk EXCEPT ![s] = [info |-> rdbPopulateSaveInfo(srv[s]), id |-> srv[s].id,
                                  off |-> srv[s].off, data |-> srv[s].data]]
  /\ UNCHANGED <<srv, feed, pipe, writes, ids>>

\* What a server is after it loaded its file, as a master or as a replica.
loadDataFromDisk(f, m, id) ==
  LET x == [NewServer(id) EXCEPT !.data = f.data]
  IN IF m # NoServer
       THEN [IF f.info THEN replicationCacheMasterUsingMyself([x EXCEPT !.id = f.id, !.off = f.off])
                       ELSE x
             EXCEPT !.m = m, !.ls = "connect"]
       ELSE IF f.info /\ f.off # 0
              THEN createReplicationBacklog([x EXCEPT !.id2 = f.id, !.off2 = f.off + 1, !.off = f.off])
              ELSE IF f.info THEN [x EXCEPT !.id2 = f.id, !.off2 = 1] ELSE x

\* A crash and a restart, with the configured role.
restart(s, m) ==
  /\ Persist /\ Event
  /\ m # s
  /\ srv' = Lost([srv EXCEPT ![s] = loadDataFromDisk(disk[s], m, ids + 1)], slaves(s) \ {s})
  /\ Cut(slaves(s) \cup {s})
  /\ ids' = ids + 1
  /\ UNCHANGED <<disk, writes>>

-----------------------------------------------------------------------------
Sync ==
  \E r \in Servers :
    \/ \E s \in Servers : masterTryPartialResynchronization(r, s) \/ syncCommand(r, s)
    \/ replicationResurrectCachedMaster(r)
    \/ readSyncBulkPayload(r)
    \/ replicationFeedStreamFromMasterStream(r)

Faults ==
  \E r \in Servers :
    \/ disconnect(r) \/ loadingFails(r)
    \/ \E s \in Servers : replicationSetMaster(r, s)
    \/ replicationUnsetMaster(r)
    \/ freeReplicationBacklog(r)
    \/ rdbSave(r)
    \/ \E m \in Servers \cup {NoServer} : restart(r, m)

Next == Sync \/ Faults \/ \E s \in Servers : replicationFeedSlaves(s)

Spec == Init /\ [][Next]_vars

\* A connection that is lost is made again (replicationCron every second),
\* and what is sent is read in the end.
FairSpec == Spec /\ WF_vars(Sync)

-----------------------------------------------------------------------------
(* Properties.                                                             *)

Server ==
  [m : Servers \cup {NoServer}, ls : {"none", "connect", "wait", "connected"}, id : Nat, id2 : Nat, off2 : Int,
   off : Nat, cm : [id : Nat, off : Int], bl : [on : BOOLEAN, first : Nat, w : Seq(Nat)], data : Seq(Nat)]

Msg == [t : {"w"}, w : Nat] \cup [t : {"continue"}, id : Nat] \cup [t : {"full"}, id : Nat, off : Nat, data : Seq(Nat)]

File == [info : BOOLEAN, id : Nat, off : Nat, data : Seq(Nat)]

\* The types; IDs were handed out, an offset counts writes that were made, a
\* backlog has its size, and only the first message of a pipe answers PSYNC.
TypeOK ==
  /\ srv \in [Servers -> Server] /\ disk \in [Servers -> File]
  /\ feed \in [Servers -> Servers \cup {NoServer}] /\ pipe \in [Servers -> Seq(Msg)]
  /\ ids \in Nat /\ writes \in 0..MaxWrites /\ events \in 0..MaxEvents
  /\ \A s \in Servers :
       /\ (srv[s].ls = "none") = (srv[s].m = NoServer)
       /\ srv[s].id \in 1..ids /\ srv[s].id2 \in 0..ids
       /\ srv[s].off <= writes
       /\ Len(srv[s].bl.w) <= BacklogLen
       /\ \A i \in 2..Len(pipe[s]) : pipe[s][i].t = "w"

\* The writes in a pipe, after the answer to PSYNC.
Writes(p) ==
  LET k == IF p # <<>> /\ Head(p).t # "w" THEN 1 ELSE 0
  IN [i \in 1..(Len(p) - k) |-> p[i + k].w]

Full(r) == pipe[r] # <<>> /\ Head(pipe[r]).t = "full"

\* A replica that reads all that its master sent has its master's data: IDs
\* and offsets never let it continue a history that is not its own (PSYNC,
\* shiftReplicationId, rdbPopulateSaveInfo, the cached master).
NoDivergence ==
  \A r \in Servers :
    LET s == feed[r]
    IN s # NoServer =>
         (IF Full(r) THEN Head(pipe[r]).data ELSE srv[r].data) \o Writes(pipe[r]) = srv[s].data

\* ID and offset agree as well, down a chain of replicas: a later PSYNC, or an
\* acknowledgement, speaks of the same bytes.
OffsetsAgree ==
  \A r \in Servers :
    LET s == feed[r]
    IN s # NoServer /\ srv[r].ls = "connected" =>
         /\ srv[r].cm = [id |-> srv[r].id, off |-> srv[r].off]
         /\ srv[r].id = srv[s].id
         /\ srv[r].off + Len(Writes(pipe[r])) = srv[s].off

\* Two servers with the same ID have the same history up to the lower of
\* their offsets: an ID is never used for two histories.
OneHistoryPerId ==
  \A s, t \in Servers :
    (srv[s].id = srv[t].id /\ srv[s].bl.on /\ srv[t].bl.on) =>
      IsPrefix(srv[s].data, srv[t].data) \/ IsPrefix(srv[t].data, srv[s].data)

\* Mutual followers aside, a replica gets the data of its master in the end.
Chained(r) == srv[r].m # NoServer /\ srv[srv[r].m].m = NoServer

Same == \A r \in Servers : Chained(r) => srv[r].data = srv[srv[r].m].data
=============================================================================
