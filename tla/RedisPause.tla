----------------------------- MODULE RedisPause -----------------------------
(***************************************************************************)
(* Pausing the writes of a Redis master: CLIENT PAUSE, FAILOVER and a      *)
(* graceful SHUTDOWN each pause the clients for a purpose of their own     *)
(* while the replicas catch up with the replication stream; WAIT counts    *)
(* the replicas that acknowledged an offset.                               *)
(*                                                                         *)
(* The stream is an offset.  A replica has read it up to rep[r].off and    *)
(* the master has been told of it up to rep[r].ack.  Time is a small       *)
(* clock.  srv is the master with its clients: most of the code is one     *)
(* thread, and one event of it is a function of srv.                       *)
(***************************************************************************)
EXTENDS Integers, Sequences, FiniteSets, FiniteSetsExt, SequencesExt

CONSTANTS
  Reps, NoRep, Clients,
  Kinds,       \* the commands clients send, out of read, write and wait
  Admin,       \* the commands of the operator: pause, failover, shutdown
  MaxNow,      \* bound on the clock
  MaxCmds,     \* bound on commands and PINGs
  MaxFaults    \* bound on lost connections and lost answers

PauseAssumption ==
  /\ NoRep \notin Reps
  /\ Kinds \subseteq {"read", "write", "wait"}
  /\ Admin \subseteq {"pause", "failover", "shutdown"}
  /\ MaxNow \in Nat /\ MaxCmds \in Nat /\ MaxFaults \in Nat

VARIABLES
  srv,     \* the master
  rep,     \* the replicas, and what the master knows of them
  now, cmds, faults

vars == <<srv, rep, now, cmds, faults>>

-----------------------------------------------------------------------------
Purposes == {"client", "shutdown", "failover"}

OFF == 0
WRITE == 1
ALL == 2

Forever == MaxNow + 1

NoPause == [type |-> OFF, end |-> 0]

\* st is idle, postponed, queued for reprocessing, or wait.
IdleClient == [st |-> "idle", kind |-> "read", n |-> 0, woff |-> 0, off |-> 0, end |-> 0,
               ans |-> [n |-> 0, off |-> 0]]

NewReplica == [link |-> TRUE, off |-> 0, ack |-> 0, role |-> "replica", same |-> TRUE]

Init ==
  /\ srv = [up |-> TRUE, master |-> NoRep, off |-> 0,
            ps |-> [p \in Purposes |-> NoPause], ptype |-> OFF, pend |-> 0,
            fo |-> "none", target |-> NoRep, fend |-> 0, force |-> FALSE, reply |-> "none",
            shut |-> 0, getack |-> FALSE, split |-> FALSE,
            cl |-> [c \in Clients |-> IdleClient], wl |-> <<>>]
  /\ rep = [r \in Reps |-> NewReplica]
  /\ now = 1 /\ cmds = 0 /\ faults = 0

slaves == {r \in Reps : rep[r].link}

Command == srv.up /\ cmds < MaxCmds /\ cmds' = cmds + 1

Fault == faults < MaxFaults /\ faults' = faults + 1

-----------------------------------------------------------------------------
(* Pauses.                                                                 *)

unblockPostponedClients(x) ==
  [x EXCEPT !.cl = [c \in Clients |-> IF @[c].st = "postponed" THEN [@[c] EXCEPT !.st = "queued"]
                                                              ELSE @[c]]]

\* Expired pauses go; the strongest one left counts, up to its furthest end.
updateClientPauseTypeAndEndTime(x) ==
  LET ps == [p \in Purposes |-> IF x.ps[p].end < now THEN NoPause ELSE x.ps[p]]
      type == Max({ps[p].type : p \in Purposes})
      end == Max({0} \cup {ps[p].end : p \in {q \in Purposes : ps[q].type = type}})
      y == [x EXCEPT !.ps = ps, !.ptype = type, !.pend = end]
  IN IF type < x.ptype THEN unblockPostponedClients(y) ELSE y

pauseClients(x, p, end, type) ==
  updateClientPauseTypeAndEndTime(
    [x EXCEPT !.ps[p] = [type |-> Max({@.type, type}), end |-> Max({@.end, end})]])

unpauseClients(x, p) ==
  IF x.ps[p] = NoPause THEN x
  ELSE updateClientPauseTypeAndEndTime([x EXCEPT !.ps[p] = NoPause])

checkClientPauseTimeout(x) ==
  IF x.ptype # OFF /\ x.pend < now THEN updateClientPauseTypeAndEndTime(x) ELSE x

-----------------------------------------------------------------------------
(* The stream, WAIT.                                                       *)

\* Only a master feeds the stream.
replicationFeedSlaves(x) == IF x.master = NoRep THEN [x EXCEPT !.off = @ + 1] ELSE x

replicationCountAcksByOffset(off) == Cardinality({r \in slaves : rep[r].ack >= off})

Answer(x, c, n, off) ==
  [x EXCEPT !.cl[c] = [@ EXCEPT !.st = "idle", !.ans = [n |-> n, off |-> off]],
            !.wl = SelectSeq(@, LAMBDA d : d # c)]

waitCommand(x, c) ==
  LET off == x.cl[c].woff
      n == replicationCountAcksByOffset(off)
  IN IF x.master # NoRep THEN [x EXCEPT !.cl[c].st = "idle"]
     ELSE IF n >= x.cl[c].n THEN Answer(x, c, n, off)
     ELSE [x EXCEPT !.cl[c] = [@ EXCEPT !.st = "wait", !.off = off],
                    !.wl = <<c>> \o @, !.getack = TRUE]

\* The last client that was served vouches for those that ask for no more.
processClientsWaitingReplicas(x) ==
  LET serve(acc, c) ==
        LET w == acc.x.cl[c]
            n == replicationCountAcksByOffset(w.off)
        IN IF acc.off # 0 /\ acc.off >= w.off /\ acc.n >= w.n
             THEN [acc EXCEPT !.x = Answer(@, c, acc.n, w.off)]
           ELSE IF n >= w.n THEN [x |-> Answer(acc.x, c, n, w.off), off |-> w.off, n |-> n]
           ELSE acc
  IN FoldLeft(serve, [x |-> x, off |-> 0, n |-> 0], x.wl).x

\* replyToBlockedClientTimedOut for WAIT.
handleBlockedClientsTimeout(x) ==
  LET serve(acc, c) == IF acc.cl[c].end < now
                         THEN Answer(acc, c, replicationCountAcksByOffset(acc.cl[c].off), acc.cl[c].off)
                         ELSE acc
  IN FoldLeft(serve, x, x.wl)

\* A read-only replica refuses writes first; then a pause postpones; then the
\* command is executed and the client remembers the offset.
processCommand(x, c) ==
  LET k == x.cl[c].kind
      done(y) == [y EXCEPT !.cl[c] = [@ EXCEPT !.st = IF @ = "wait" THEN @ ELSE "idle", !.woff = y.off]]
  IN IF k = "write" /\ x.master # NoRep THEN [x EXCEPT !.cl[c].st = "idle"]
     ELSE IF x.ptype = ALL \/ (x.ptype = WRITE /\ k = "write") THEN [x EXCEPT !.cl[c].st = "postponed"]
     ELSE IF k = "write" THEN done(replicationFeedSlaves(x))
     ELSE IF k = "wait" THEN done(waitCommand(x, c))
     ELSE done(x)

processUnblockedClients(x) ==
  FoldFunction(LAMBDA c, acc : IF acc.cl[c].st = "queued" THEN processCommand(acc, c) ELSE acc,
               x, [c \in Clients |-> c])

\* A client sends a command; WAIT for n replicas with or without a timeout.
sendCommand(c) ==
  /\ Command
  /\ srv.cl[c].st = "idle"
  /\ \E k \in Kinds, n \in 1..Cardinality(Reps), end \in {now, Forever} :
       /\ k # "wait" => n = 1 /\ end = Forever
       /\ srv' = processCommand([srv EXCEPT !.cl[c] = [@ EXCEPT !.kind = k, !.n = n, !.end = end]], c)
  /\ UNCHANGED <<rep, now, faults>>

-----------------------------------------------------------------------------
(* FAILOVER.                                                               *)

clearFailoverState(x) ==
  unpauseClients([x EXCEPT !.fend = 0, !.force = FALSE, !.target = NoRep, !.fo = "none"], "failover")

\* abortFailover is this and, if a failover was in progress, disconnectSlaves.
abortFailover(x) ==
  clearFailoverState(IF x.fo = "in_progress" THEN [x EXCEPT !.master = NoRep, !.reply = "none"] ELSE x)

Disconnected(f) == [r \in Reps |-> [f[r] EXCEPT !.link = FALSE]]

\* Clients that wait are disconnected, postponed ones are not.
replicationSetMaster(x, r) ==
  [x EXCEPT !.master = r, !.wl = <<>>,
            !.cl = [c \in Clients |-> IF @[c].st = "wait" THEN IdleClient ELSE @[c]]]

failoverCommand ==
  /\ "failover" \in Admin /\ Command
  /\ srv.ptype # ALL
  /\ srv.fo = "none" /\ srv.master = NoRep /\ slaves # {}
  /\ \E target \in slaves \cup {NoRep}, timeout \in BOOLEAN, force \in BOOLEAN :
       /\ force => timeout /\ target # NoRep
       /\ srv' = pauseClients([srv EXCEPT !.fo = "wait_for_sync", !.target = target, !.force = force,
                                          !.fend = IF timeout THEN now + 1 ELSE 0],
                              "failover", Forever, WRITE)
  /\ UNCHANGED <<rep, now, faults>>

failoverAbort ==
  /\ Command
  /\ srv.ptype # ALL
  /\ srv.fo # "none"
  /\ srv' = [abortFailover(srv) EXCEPT !.split = @ \/ srv.fo = "in_progress"]
  /\ rep' = IF srv.fo = "in_progress" THEN Disconnected(rep) ELSE rep
  /\ UNCHANGED <<now, faults>>

\* The replica that is looked at: the target, or one that has caught up.
Candidates(x) ==
  IF x.target # NoRep THEN slaves \cap {x.target}
  ELSE {r \in slaves : rep[r].ack = x.off}

updateFailoverStatus(x, r) ==
  IF x.fo # "wait_for_sync" THEN x
  ELSE IF x.fend # 0 /\ x.fend <= now
         THEN IF x.force THEN replicationSetMaster([x EXCEPT !.fo = "in_progress"], x.target)
                         ELSE abortFailover(x)
  ELSE IF r \in slaves /\ rep[r].ack = x.off
         THEN replicationSetMaster([x EXCEPT !.fo = "in_progress", !.target = r], r)
  ELSE x

\* The target gets PSYNC FAILOVER: a replica with the same ID is promoted.
syncCommand(r) ==
  /\ srv.up /\ srv.fo = "in_progress" /\ srv.master = r /\ srv.reply = "none"
  /\ LET accept == rep[r].role = "replica" /\ rep[r].same
     IN /\ srv' = [srv EXCEPT !.reply = IF accept THEN "accept" ELSE "reject"]
        /\ rep' = IF accept THEN [rep EXCEPT ![r].role = "master"] ELSE rep
  /\ UNCHANGED <<now, cmds, faults>>

\* The answer is read (syncWithMaster): the failover is over, either way.
readReply ==
  /\ srv.up /\ srv.reply # "none"
  /\ LET x == [srv EXCEPT !.reply = "none"]
     IN \/ /\ srv.reply = "accept"
           /\ srv' = clearFailoverState(x)
           /\ rep' = rep
        \/ /\ srv.reply = "reject"
           /\ srv' = abortFailover(x)
           /\ rep' = Disconnected(rep)
  /\ UNCHANGED <<now, cmds, faults>>

-----------------------------------------------------------------------------
(* SHUTDOWN.                                                               *)

isReadyToShutdown(x) == \A r \in slaves : rep[r].ack = x.off

\* Saving may fail, and then the server goes on.
finishShutdown(x) ==
  {[x EXCEPT !.up = FALSE], unpauseClients([x EXCEPT !.shut = 0], "shutdown")}

prepareForShutdown(x, nowait) ==
  IF nowait \/ isReadyToShutdown(x) THEN finishShutdown(x)
  ELSE LET y == [x EXCEPT !.shut = now + 1]
           z == IF y.ptype = OFF THEN replicationFeedSlaves(y) ELSE y
       IN {pauseClients(z, "shutdown", Forever, WRITE)}

shutdownCommand ==
  /\ "shutdown" \in Admin /\ Command
  /\ srv.ptype # ALL /\ srv.shut = 0
  /\ \E nowait \in BOOLEAN : srv' \in prepareForShutdown(srv, nowait)
  /\ UNCHANGED <<rep, now, faults>>

abortShutdown ==
  /\ Command
  /\ srv.ptype # ALL /\ srv.shut # 0
  /\ srv' = unpauseClients([srv EXCEPT !.shut = 0], "shutdown")
  /\ UNCHANGED <<rep, now, faults>>

shutdownDue(x) == x.shut # 0 /\ (now >= x.shut \/ isReadyToShutdown(x))

-----------------------------------------------------------------------------
(* The event loop.                                                         *)

clientPause ==
  /\ "pause" \in Admin /\ Command
  /\ srv.ptype # ALL
  /\ \/ \E type \in {WRITE, ALL} : srv' = pauseClients(srv, "client", now, type)
     \/ srv' = unpauseClients(srv, "client")
  /\ UNCHANGED <<rep, now, faults>>

Getack(x) ==
  IF x.getack THEN LET y == checkClientPauseTimeout(x)
                   IN IF y.ptype = OFF THEN [replicationFeedSlaves(y) EXCEPT !.getack = FALSE] ELSE y
              ELSE x

beforeSleep ==
  /\ srv.up
  /\ LET x == Getack(processUnblockedClients(processClientsWaitingReplicas(
                       handleBlockedClientsTimeout(srv))))
     IN \E r \in (IF Candidates(x) = {} THEN {NoRep} ELSE Candidates(x)) :
          srv' = updateFailoverStatus(x, r)
  /\ UNCHANGED <<rep, now, cmds, faults>>

\* serverCron: a shutdown that is due, and pauses that are over.
serverCron ==
  /\ srv.up
  /\ IF shutdownDue(srv)
       THEN srv' \in {IF x.up THEN checkClientPauseTimeout(x) ELSE x : x \in finishShutdown(srv)}
       ELSE srv' = checkClientPauseTimeout(srv)
  /\ UNCHANGED <<rep, now, cmds, faults>>

\* replicationCron pings the replicas, but not during a failover (with a
\* timeout) that pauses the clients.
pingReplicas ==
  /\ Command
  /\ slaves # {}
  /\ ~(srv.fend # 0 /\ checkClientPauseTimeout(srv).ptype # OFF)
  /\ srv' = replicationFeedSlaves(IF srv.fend # 0 THEN checkClientPauseTimeout(srv) ELSE srv)
  /\ UNCHANGED <<rep, now, faults>>

Tick ==
  /\ now < MaxNow
  /\ now' = now + 1
  /\ UNCHANGED <<srv, rep, cmds, faults>>

-----------------------------------------------------------------------------
(* The replicas.                                                           *)

receive(r) ==
  /\ rep[r].link /\ rep[r].off < srv.off
  /\ rep' = [rep EXCEPT ![r].off = @ + 1]
  /\ UNCHANGED <<srv, now, cmds, faults>>

\* REPLCONF ACK arrives; it may be late.
replconfAck(r) ==
  /\ srv.up /\ rep[r].link
  /\ \E o \in rep[r].ack + 1 .. rep[r].off : rep' = [rep EXCEPT ![r].ack = o]
  /\ UNCHANGED <<srv, now, cmds, faults>>

disconnect(r) ==
  /\ Fault
  /\ rep[r].link
  /\ \E same \in BOOLEAN : rep' = [rep EXCEPT ![r].link = FALSE, ![r].same = same]
  /\ UNCHANGED <<srv, now, cmds>>

\* A new connection starts without acknowledgement; none while failing over,
\* none to a replica without a link to its master.
reconnect(r) ==
  /\ srv.up /\ srv.fo = "none" /\ srv.master = NoRep
  /\ ~rep[r].link /\ rep[r].role = "replica" /\ rep[r].same
  /\ rep' = [rep EXCEPT ![r].link = TRUE, ![r].ack = 0]
  /\ UNCHANGED <<srv, now, cmds, faults>>

\* The connection to the target breaks before the answer is read.
loseReply ==
  /\ Fault
  /\ srv.reply # "none"
  /\ srv' = [srv EXCEPT !.reply = "none", !.split = @ \/ srv.reply = "accept"]
  /\ UNCHANGED <<rep, now, cmds>>

-----------------------------------------------------------------------------
Server == beforeSleep \/ serverCron \/ readReply \/ \E r \in Reps : syncCommand(r)

Link == \E r \in Reps : receive(r) \/ replconfAck(r)

Next ==
  \/ \E c \in Clients : sendCommand(c)
  \/ clientPause \/ failoverCommand \/ failoverAbort \/ shutdownCommand \/ abortShutdown
  \/ Server \/ pingReplicas \/ Tick \/ Link
  \/ \E r \in Reps : disconnect(r) \/ reconnect(r)
  \/ loseReply

Spec == Init /\ [][Next]_vars

\* The event loop runs, time passes and connections carry what is sent.
FairSpec ==
  /\ Spec
  /\ WF_vars(beforeSleep) /\ WF_vars(serverCron) /\ WF_vars(readReply) /\ WF_vars(Tick)
  /\ \A r \in Reps : WF_vars(receive(r)) /\ WF_vars(replconfAck(r)) /\ WF_vars(syncCommand(r))

-----------------------------------------------------------------------------
(* Properties.                                                             *)

TypeOK ==
  /\ srv.ptype \in OFF..ALL /\ srv.pend \in 0..Forever
  /\ srv.fo \in {"none", "wait_for_sync", "in_progress"}
  /\ srv.master \in Reps \cup {NoRep} /\ srv.target \in Reps \cup {NoRep}
  /\ srv.reply \in {"none", "accept", "reject"}
  /\ \A c \in Clients : srv.cl[c].st \in {"idle", "postponed", "queued", "wait"}
  /\ ToSet(srv.wl) = {c \in Clients : srv.cl[c].st = "wait"}
  /\ \A r \in Reps : rep[r].ack <= rep[r].off /\ rep[r].off <= srv.off

\* As long as a failover or a shutdown is under way the clients cannot write,
\* whichever other pauses ended in the meantime (pauses have purposes).
PauseHeld ==
  srv.up =>
    /\ srv.fo # "none" \/ srv.shut # 0 => srv.ptype # OFF
    /\ (srv.fo # "none") = (srv.ps["failover"] # NoPause)
    /\ (srv.shut # 0) = (srv.ps["shutdown"] # NoPause)

\* A client is postponed only by the pause in effect: a pause that gets
\* weaker lets those go that it no longer stops (updateClientPauseTypeAndEndTime).
NoneForgotten ==
  srv.up => \A c \in Clients : srv.cl[c].st = "postponed" =>
    srv.ptype = ALL \/ (srv.ptype = WRITE /\ srv.cl[c].kind = "write")

\* FAILOVER without FORCE promotes a replica that has everything the master
\* ever sent: no write is lost.
FailoverKeepsWrites ==
  \A r \in Reps : rep[r].role = "replica" /\ rep'[r].role = "master" /\ ~srv.force =>
    rep[r].off = srv.off

\* Master and promoted replica are both masters only after an abort that came
\* too late or an answer that got lost.
OneMaster ==
  (\E r \in Reps : rep[r].role = "master") /\ srv.master = NoRep => srv.split

\* What WAIT answers is true: so many replicas have the client's writes.
WaitTrue ==
  \A c \in Clients :
    Cardinality({r \in Reps : rep[r].off >= srv.cl[c].ans.off}) >= srv.cl[c].ans.n

\* A graceful shutdown before the end of its grace period leaves every
\* connected replica with the whole stream.
ShutdownKeepsWrites ==
  srv.shut # 0 /\ ~srv'.up /\ now < srv.shut => \A r \in slaves : rep[r].off = srv.off

\* While a FAILOVER with a timeout pauses the clients the offset of the master
\* stays, so that a replica can reach it (the comment on PINGs in replicationCron).
TimedOffsetStays ==
  srv.fo # "none" /\ srv'.fo # "none" /\ srv.fend # 0 => srv'.off = srv.off

\* WAIT with a timeout, a FAILOVER with one and a shutdown that waits end.
NoTimedWait == ~srv.up \/ \A c \in Clients : srv.cl[c].st # "wait" \/ srv.cl[c].end >= MaxNow
NoTimedFailover == ~srv.up \/ srv.fo # "wait_for_sync" \/ srv.fend \notin 1..MaxNow
NoTimedShutdown == ~srv.up \/ srv.shut \notin 1..MaxNow
=============================================================================
