------------------------------ MODULE RedisAof ------------------------------
(***************************************************************************)
(* The append only file of Redis: the buffer of executed writes, the       *)
(* manifest with its BASE, INCR and HISTORY files, background fsync and    *)
(* close jobs, background rewrites, and what a restart loads.              *)
(*                                                                         *)
(* Writes are numbered.  Write w takes the bytes 2w-1 and 2w of a file, so *)
(* that half a command can be on disk; byte 0 is a hole.  The data set is  *)
(* the sequence of bytes of the writes that made it.  srv is the memory of *)
(* the process, os what the kernel keeps: files, manifest, descriptors.    *)
(* A handler has several outcomes, each with the states of the kernel it   *)
(* goes through: the process may be killed in any of them.                 *)
(* no-appendfsync-on-rewrite has its default, no.                          *)
(***************************************************************************)
EXTENDS Integers, Sequences, FiniteSets, TLC, SequencesExt

CONSTANTS
  Policy,      \* appendfsync: always, everysec or no
  Ops,         \* what happens, out of AllOps
  Errors,      \* calls that may fail, out of AllErrors
  MaxWrites, MaxRewrites, MaxFaults    \* bounds

AllOps == {"rewrite", "offrewrite", "config", "kill", "power", "shutdown"}
AllErrors == {"write", "short", "torn", "fsync", "rename", "persist", "fork", "child"}

AofAssumption ==
  /\ Policy \in {"always", "everysec", "no"}
  /\ Ops \subseteq AllOps /\ Errors \subseteq AllErrors
  /\ MaxWrites \in Nat /\ MaxRewrites \in Nat /\ MaxFaults \in Nat

VARIABLES
  srv, os,
  wr,          \* writes executed so far
  ack,         \* the part of the data set answered for after a flush
  rws, faults

vars == <<srv, os, wr, ack, rws, faults>>

-----------------------------------------------------------------------------
(* The kernel.  A file is its bytes and how many of them are on the disk   *)
(* for sure; fd is the file aof_fd is open on.                             *)

None == <<"none", 0>>
Gone == <<"gone", 0>>
Base(i) == <<"base", i>>
Incr(i) == <<"incr", i>>
TempIncr == <<"temp", 0>>

Bytes(w) == <<2 * w - 1, 2 * w>>

NoManifest == [base |-> 0, incr |-> <<>>, hist |-> {}, bseq |-> 0, iseq |-> 0]

File(c, n) == [c |-> c, synced |-> n]

Unlink(o, n) ==
  [o EXCEPT !.f = [g \in DOMAIN o.f \ {n} |-> o.f[g]],
            !.fd = IF @ = n THEN Gone ELSE @,
            !.job = IF @ = n THEN Gone ELSE @]

UnlinkAll(o, N) ==
  [o EXCEPT !.f = [g \in DOMAIN o.f \ N |-> o.f[g]],
            !.fd = IF @ \in N THEN Gone ELSE @,
            !.job = IF @ \in N THEN Gone ELSE @]

Rename(o, a, b) ==
  LET u == Unlink(o, b)
  IN [Unlink(u, a) EXCEPT !.f = @ @@ (b :> u.f[a]),
                          !.fd = IF u.fd = a THEN b ELSE u.fd,
                          !.job = IF u.job = a THEN b ELSE u.job]

Create(o, n, file) == [o EXCEPT !.f = (n :> file) @@ @]

\* write(2) at the end (O_APPEND) or at the offset, which may leave a hole.
Write(o, b) ==
  IF o.fd \notin DOMAIN o.f THEN o
  ELSE LET c   == o.f[o.fd].c
           at  == IF o.app THEN Len(c) ELSE o.pos
           pad == [i \in 1..(at - Len(c)) |-> 0]
       IN [o EXCEPT !.f[o.fd].c = c \o pad \o b, !.pos = at + Len(b)]

Truncate(o, n, k) ==
  IF n \notin DOMAIN o.f \/ k > Len(o.f[n].c) THEN o
  ELSE [o EXCEPT !.f[n] = File(SubSeq(@.c, 1, k), IF @.synced < k THEN @.synced ELSE k)]

\* The first k bytes of a file are on disk.
SyncTo(o, n, k) ==
  IF n \in DOMAIN o.f /\ k > o.f[n].synced /\ k <= Len(o.f[n].c)
  THEN [o EXCEPT !.f[n].synced = k] ELSE o

SizeOf(o, n) == IF n \in DOMAIN o.f THEN Len(o.f[n].c) ELSE 0

Sync(o, n) == SyncTo(o, n, SizeOf(o, n))

\* A queued fsync job covers what is in the file when bio calls fsync(2).
Queued == -1

-----------------------------------------------------------------------------
(* Outcomes of a handler: the states of the kernel on the way, the last    *)
(* one, the memory, what it returned and how many faults it met.           *)

Outcome(o, s, ret, n) == [via |-> {o}, os |-> o, s |-> s, ret |-> ret, n |-> n]

Then(R, F(_, _)) ==
  UNION {IF r.ret = "ok"
         THEN {[q EXCEPT !.via = @ \cup r.via, !.n = @ + r.n] : q \in F(r.os, r.s)}
         ELSE {r} : r \in R}

\* A call that may fail; the failure has an outcome of its own.
May(e, ok, failed) == {ok} \cup (IF e \in Errors THEN {failed} ELSE {})

-----------------------------------------------------------------------------
(* The manifest.                                                           *)

getNewBaseFileNameAndMarkPreAsHistory(m) ==
  [m EXCEPT !.hist = IF m.base = 0 THEN @ ELSE @ \cup {Base(m.base)},
            !.bseq = @ + 1, !.base = m.bseq + 1]

getNewIncrAofName(m) == [m EXCEPT !.iseq = @ + 1, !.incr = Append(@, m.iseq + 1)]

\* An open aof_fd means that the last INCR file is in use.
markRewrittenIncrAofAsHistory(m, fd) ==
  IF m.incr = <<>> THEN m
  ELSE LET kept == IF fd # None THEN <<Last(m.incr)>> ELSE <<>>
       IN [m EXCEPT !.hist = @ \cup {Incr(i) : i \in ToSet(m.incr) \ ToSet(kept)},
                    !.incr = kept]

Persist(o, m) == [o EXCEPT !.man = [base |-> m.base, incr |-> m.incr, hist |-> m.hist]]

\* The file is replaced by a rename, or stays as it is.
persistAofManifest(o, s, m) ==
  May("persist", Outcome(Persist(o, m), s, "ok", 0), Outcome(o, s, "err", 1))

\* A manifest that was read counts on from its BASE and INCR files.
aofLoadManifestFromFile(dm) ==
  [base |-> dm.base, incr |-> dm.incr, hist |-> dm.hist, bseq |-> dm.base,
   iseq |-> IF dm.incr = <<>> THEN 0 ELSE Last(dm.incr)]

aofDelHistoryFiles(o, s) ==
  IF s.man.hist = {} THEN {Outcome(o, s, "ok", 0)}
  ELSE LET o1 == UnlinkAll(o, s.man.hist)
           m1 == [s.man EXCEPT !.hist = {}]
       IN {[q EXCEPT !.via = @ \cup {o1}, !.ret = "ok"]
             : q \in persistAofManifest(o1, [s EXCEPT !.man = m1], m1)}

-----------------------------------------------------------------------------
(* Writing.                                                                *)

tryFsync(o, s, busy) ==
  CASE Policy = "always" ->
         May("fsync", Outcome(Sync(o, o.fd), [s EXCEPT !.uns = FALSE], "ok", 0),
                      Outcome(o, [s EXCEPT !.up = FALSE], "exit", 1))
    [] Policy = "everysec" /\ s.sec ->
         {Outcome(IF busy THEN o ELSE [o EXCEPT !.job = o.fd, !.jlen = Queued],
                  [s EXCEPT !.sec = FALSE, !.uns = IF busy THEN @ ELSE FALSE], "ok", 0)}
    [] OTHER -> {Outcome(o, s, "ok", 0)}

\* What a failed write does: exit, or keep the rest for the next attempt.
WriteError(o, s, n, trimmed) ==
  IF Policy = "always" THEN Outcome(o, [s EXCEPT !.up = FALSE], "exit", n)
  ELSE Outcome(o, [s EXCEPT !.wok = FALSE,
                            !.isz = @ + trimmed,
                            !.uns = @ \/ trimmed > 0,
                            !.buf = SubSeq(@, trimmed + 1, Len(@))], "ok", n)

\* n bytes made it; ftruncate removes them (short), or fails as well (torn).
ShortWrite(o, s, n) ==
  LET w == Write(o, SubSeq(s.buf, 1, n))
      t == WriteError(Truncate(w, w.fd, s.isz), s, 1, 0)
  IN (IF "short" \in Errors THEN {[t EXCEPT !.via = @ \cup {w}]} ELSE {})
     \cup (IF "torn" \in Errors THEN {WriteError(w, s, 1, n)} ELSE {})

FullWrite(o, s) ==
  Outcome(Write(o, s.buf),
          [s EXCEPT !.wok = TRUE, !.uns = TRUE, !.isz = @ + Len(s.buf), !.buf = <<>>,
                    !.pp = 0], "ok", 0)

\* Without a descriptor (EBADF) every write fails.
doWrite(o, s, busy) ==
  LET s0 == [s EXCEPT !.pp = 0]
  IN IF o.fd = None THEN {WriteError(o, s0, 0, 0)}
     ELSE Then({FullWrite(o, s)}, LAMBDA o1, s1 : tryFsync(o1, s1, busy))
          \cup (IF "write" \in Errors THEN {WriteError(o, s0, 1, 0)} ELSE {})
          \cup UNION {ShortWrite(o, s0, n) : n \in 1..(Len(s.buf) - 1)}

\* pp is how long the flush has been put off because of a running fsync: not
\* at all, or one more than the seconds since.
flushAppendOnlyFile(o, s, force) ==
  LET busy == Policy = "everysec" /\ o.job # None
  IN CASE s.buf = <<>> ->
            IF Policy = "everysec" /\ s.uns /\ s.sec /\ ~busy THEN tryFsync(o, s, FALSE)
            ELSE {Outcome(o, s, "ok", 0)}
       [] s.buf # <<>> /\ busy /\ ~force /\ s.pp < 3 ->
            {Outcome(o, [s EXCEPT !.pp = IF @ = 0 THEN 1 ELSE @], "ok", 0)}
       [] OTHER -> doWrite(o, s, busy)

feedAppendOnlyFile(s, b) ==
  IF s.aof = "on" \/ (s.aof = "wait" /\ s.child # "none") THEN [s EXCEPT !.buf = @ \o b] ELSE s

writeCommandsDeniedByDiskError == srv.aof # "off" /\ (~srv.wok \/ ~srv.bok)

-----------------------------------------------------------------------------
(* Rewriting.                                                              *)

\* The new file is opened without O_APPEND; the old one is closed by bio,
\* after which a queued fsync of it does nothing.
UseNewIncr(o, s, n, m) ==
  Outcome([o EXCEPT !.fd = n, !.app = FALSE, !.pos = 0, !.cls = @ \cup ({o.fd} \ {None})],
          [s EXCEPT !.isz = 0, !.man = m], "ok", 0)

openNewIncrAofForAppend(o, s) ==
  LET m  == getNewIncrAofName(s.man)
      n  == Incr(Last(m.incr))
      o1 == Create(o, n, File(<<>>, 0))
  IN CASE s.aof = "off" -> {Outcome(o, s, "ok", 0)}
       [] s.aof = "wait" -> {UseNewIncr(Create(o, TempIncr, File(<<>>, 0)), s, TempIncr, s.man)}
       [] s.aof = "on" ->
            {[q EXCEPT !.via = @ \cup {o1}]
               : q \in Then(persistAofManifest(o1, s, m), LAMBDA o2, s2 : {UseNewIncr(o2, s2, n, m)})}


\* redisFork: the child writes the data set of this moment.
Fork(o, s) ==
  May("fork", Outcome(o, [s EXCEPT !.child = "run", !.snap = s.mem, !.sched = FALSE], "ok", 0),
              Outcome(o, s, "err", 1))

\* Mutant: the child is forked before the buffer is flushed and the file switched.
ForkFirst(o, s) ==
  Then(Fork(o, s), LAMBDA o1, s1 : openNewIncrAofForAppend(o1, s1))

rewriteAppendOnlyFileBackground(o, s) ==
  IF s.child # "none" THEN {Outcome(o, s, "err", 0)}
  ELSE Then(Then(flushAppendOnlyFile(o, s, TRUE), openNewIncrAofForAppend), Fork)

\* The files that stand for the new BASE, and the INCR of a waiting AOF.
RenameTempIncr(o, s, m) ==
  LET m1 == getNewIncrAofName(m)
      n  == Incr(Last(m1.incr))
      no == [o |-> o, m |-> m, ok |-> FALSE, n |-> 1]
  IN IF TempIncr \notin DOMAIN o.f THEN {[no EXCEPT !.n = 0]}
     ELSE May("rename", [o |-> Rename(o, TempIncr, n), m |-> m1, ok |-> TRUE, n |-> 0], no)

\* What every end of a rewrite does.
RewriteCleanup(o, s) ==
  IF s.aof = "wait"
  THEN Outcome(Unlink(o, TempIncr), [s EXCEPT !.child = "none", !.buf = <<>>, !.sched = TRUE],
               "ok", 0)
  ELSE Outcome(o, [s EXCEPT !.child = "none"], "ok", 0)

\* The rewrite is given up, its new files are removed.
GiveUp(o, s, N, n) ==
  LET o1 == UnlinkAll(o, N)
      q  == RewriteCleanup(o1, s)
  IN [q EXCEPT !.via = @ \cup {o1}, !.n = n]

\* The new manifest is on disk.
Installed(o, s, m) ==
  LET s1 == [s EXCEPT !.man = m,
                      !.uns = IF o.fd # None THEN FALSE ELSE @,
                      !.sec = IF o.fd # None THEN FALSE ELSE @]
  IN Then(aofDelHistoryFiles(o, s1),
          LAMBDA o2, s2 : {RewriteCleanup(o2, [s2 EXCEPT !.aof = IF @ = "wait" THEN "on" ELSE @])})

InstallManifest(o, s, m, new) ==
  LET m1 == markRewrittenIncrAofAsHistory(m, o.fd)
  IN Then({Outcome(Persist(o, m1), s, "ok", 0)}, LAMBDA o2, s2 : Installed(o2, s2, m1))
     \cup (IF "persist" \in Errors THEN {GiveUp(o, s, new, 1)} ELSE {})

backgroundRewriteSucceeded(o, s) ==
  LET m  == getNewBaseFileNameAndMarkPreAsHistory(s.man)
      b  == Base(m.base)
      o1 == Create(o, b, File(s.snap, Len(s.snap)))
      incrs == IF s.aof = "wait" THEN RenameTempIncr(o1, s, m)
               ELSE {[o |-> o1, m |-> m, ok |-> TRUE, n |-> 0]}
      new == {b} \cup (IF s.aof = "wait" THEN {Incr(m.iseq + 1)} ELSE {})
  IN UNION {{[q EXCEPT !.via = @ \cup {o1, r.o}]
               : q \in IF r.ok THEN InstallManifest(r.o, s, r.m, new)
                               ELSE {GiveUp(r.o, s, {b}, r.n)}} : r \in incrs}
     \cup (IF "rename" \in Errors THEN {GiveUp(o, s, {}, 1)} ELSE {})

backgroundRewriteDoneHandler(o, s) ==
  backgroundRewriteSucceeded(o, s)
    \cup (IF "child" \in Errors THEN {GiveUp(o, s, {}, 1)} ELSE {})

-----------------------------------------------------------------------------
(* Switching the AOF on and off, and leaving.                              *)

\* A failed fsync is logged, and the descriptor closed all the same.
SyncAndClose(o, s) ==
  IF o.fd = None THEN {Outcome(o, s, "ok", 0)}
  ELSE May("fsync", Outcome([Sync(o, o.fd) EXCEPT !.fd = None], [s EXCEPT !.uns = FALSE, !.sec = FALSE], "ok", 0),
                    Outcome([o EXCEPT !.fd = None], s, "ok", 1))

killAppendOnlyChild(s) == [s EXCEPT !.child = "none"]

stopAppendOnly(o, s) ==
  Then(Then(flushAppendOnlyFile(o, s, TRUE), SyncAndClose),
       LAMBDA o2, s2 : {Outcome(o2, [killAppendOnlyChild(s2) EXCEPT
                                       !.aof = "off", !.sched = FALSE, !.isz = 0, !.buf = <<>>], "ok", 0)})

\* Another child, or EXEC, puts the rewrite off.
startAppendOnly(o, s, later) ==
  LET w == [s EXCEPT !.aof = "wait"]
  IN IF later THEN {Outcome(o, [w EXCEPT !.sched = TRUE, !.sec = FALSE, !.wok = TRUE, !.bok = TRUE],
                            "ok", 0)}
     ELSE {IF q.ret = "err" THEN [q EXCEPT !.s.aof = "off"]
           ELSE [q EXCEPT !.s.sec = FALSE, !.s.wok = TRUE, !.s.bok = TRUE]
             : q \in rewriteAppendOnlyFileBackground(o, killAppendOnlyChild(w))}

-----------------------------------------------------------------------------
(* Loading.                                                                *)

Whole(c) == /\ Len(c) % 2 = 0
            /\ \A i \in 1..(Len(c) \div 2) : c[2 * i - 1] % 2 = 1 /\ c[2 * i] = c[2 * i - 1] + 1

\* Cut off in the middle of its last command.
CutOff(c) == Len(c) % 2 = 1 /\ Last(c) % 2 = 1 /\ Whole(Front(c))

loadSingleAppendOnlyFile(c, last) ==
  CASE Whole(c) -> [ok |-> TRUE, c |-> c]
    [] ~Whole(c) /\ CutOff(c) /\ last -> [ok |-> TRUE, c |-> Front(c)]
    [] OTHER -> [ok |-> FALSE, c |-> <<>>]

FilesOf(m) == (IF m.base = 0 THEN <<>> ELSE <<Base(m.base)>>) \o [i \in 1..Len(m.incr) |-> Incr(m.incr[i])]

\* A listed file that does not exist, or half a command before the end, is fatal.
loadAppendOnlyFiles(o) ==
  LET ns == FilesOf(o.man)
      ld == [i \in 1..Len(ns) |-> loadSingleAppendOnlyFile(o.f[ns[i]].c, i = Len(ns))]
  IN IF ~(ToSet(ns) \subseteq DOMAIN o.f) \/ \E i \in 1..Len(ns) : ~ld[i].ok
     THEN [ok |-> FALSE, c |-> <<>>]
     ELSE [ok |-> TRUE, c |-> FlattenSeq([i \in 1..Len(ns) |-> ld[i].c])]

Process(c, aof, m) ==
  [up |-> TRUE, aof |-> aof, mem |-> c, buf |-> <<>>, isz |-> 0, wok |-> TRUE, bok |-> TRUE,
   uns |-> FALSE, sec |-> FALSE, pp |-> 0, man |-> m, child |-> "none", snap |-> <<>>,
   sched |-> FALSE]

TailCut(o, ns) ==
  IF ns # <<>> /\ CutOff(o.f[Last(ns)].c)
  THEN Truncate(o, Last(ns), Len(o.f[Last(ns)].c) - 1) ELSE o

\* A manifest without files gets a BASE, one without INCR files an INCR.
aofOpenIfNeededOnServerStart(o, s) ==
  LET m1 == IF s.man.base = 0 /\ s.man.incr = <<>>
            THEN getNewBaseFileNameAndMarkPreAsHistory(s.man) ELSE s.man
      o1 == IF m1 = s.man THEN o ELSE Create(o, Base(m1.base), File(s.mem, Len(s.mem)))
      m2 == IF m1.incr = <<>> THEN getNewIncrAofName(m1) ELSE m1
      n  == Incr(Last(m2.incr))
      o2 == [IF n \in DOMAIN o1.f THEN o1 ELSE Create(o1, n, File(<<>>, 0))
               EXCEPT !.fd = n, !.app = TRUE]
  IN Outcome(Persist(o2, m2),
             [s EXCEPT !.man = m2, !.isz = Len(o2.f[n].c)], "ok", 0)

OnServerStart(o, s) ==
  LET q == aofOpenIfNeededOnServerStart(o, s)
  IN Then({q}, aofDelHistoryFiles)

\* main(): load the manifest and the data, open the files, drop the history.
StartServer(o) ==
  LET o1 == [TailCut(o, FilesOf(o.man)) EXCEPT !.fd = None, !.job = None, !.cls = {}]
  IN OnServerStart(o1, Process(loadAppendOnlyFiles(o).c, "on", aofLoadManifestFromFile(o.man)))

-----------------------------------------------------------------------------
\* The server has never run.
Init ==
  /\ srv = [Process(<<>>, "on", NoManifest) EXCEPT !.up = FALSE]
  /\ os = [f |-> <<>>, man |-> [base |-> 0, incr |-> <<>>, hist |-> {}],
           fd |-> None, app |-> TRUE, pos |-> 0, job |-> None, jlen |-> Queued, cls |-> {}]
  /\ wr = 0 /\ ack = <<>> /\ rws = 0 /\ faults = 0

\* One of the outcomes, or a kill in one of the states on the way.
Handle(R) ==
  \E q \in R :
     /\ faults + q.n <= MaxFaults
     /\ \/ os' = q.os /\ srv' = q.s /\ faults' = faults + q.n
        \/ /\ "kill" \in Ops /\ faults + q.n < MaxFaults
           /\ os' \in q.via
           /\ srv' = [srv EXCEPT !.up = FALSE]
           /\ faults' = faults + q.n + 1

\* A write command is executed and propagated.
ExecWrite ==
  /\ srv.up /\ wr < MaxWrites /\ ~writeCommandsDeniedByDiskError
  /\ wr' = wr + 1
  /\ srv' = LET b == Bytes(wr + 1) IN feedAppendOnlyFile([srv EXCEPT !.mem = @ \o b], b)
  /\ UNCHANGED <<os, ack, rws, faults>>

\* beforeSleep, and the flushes of serverCron, before clients are answered.
FlushStep ==
  /\ srv.up /\ srv.aof # "off"
  /\ Handle(flushAppendOnlyFile(os, srv, FALSE))
  /\ ack' = IF srv.buf # <<>> /\ srv'.up /\ srv'.buf = <<>> THEN srv.mem ELSE ack
  /\ UNCHANGED <<wr, rws>>

\* bio's fsync thread calls fsync(2), which takes its time.
BioFsyncCalled ==
  /\ srv.up /\ os.job # None /\ os.jlen = Queued
  /\ os' = [os EXCEPT !.jlen = SizeOf(os, os.job)]
  /\ UNCHANGED <<srv, wr, ack, rws, faults>>

\* The fsync returns; one of a closed descriptor is ignored.
BioFsync ==
  /\ srv.up /\ os.job # None /\ os.jlen # Queued
  /\ \/ /\ os' = [SyncTo(os, os.job, os.jlen) EXCEPT !.job = None]
        /\ srv' = [srv EXCEPT !.bok = TRUE]
        /\ UNCHANGED faults
     \/ /\ "fsync" \in Errors /\ faults < MaxFaults /\ os.job # Gone
        /\ os' = [os EXCEPT !.job = None]
        /\ srv' = [srv EXCEPT !.bok = FALSE]
        /\ faults' = faults + 1
  /\ UNCHANGED <<wr, ack, rws>>

\* bio's close thread.
BioClose ==
  /\ srv.up
  /\ \E n \in os.cls :
        os' = [os EXCEPT !.cls = @ \ {n}, !.job = IF @ = n /\ n # os.fd /\ os.jlen = Queued THEN Gone ELSE @]
  /\ UNCHANGED <<srv, wr, ack, rws, faults>>

\* A second passes.
Tick ==
  /\ srv.up /\ Policy = "everysec"
  /\ srv' = [srv EXCEPT !.sec = TRUE, !.pp = IF @ \in {1, 2} THEN @ + 1 ELSE @]
  /\ UNCHANGED <<os, wr, ack, rws, faults>>

\* BGREWRITEAOF, or a rewrite because the file has grown; another child or
\* EXEC schedules it.
bgrewriteaofCommand ==
  /\ srv.up /\ srv.child = "none" /\ rws < MaxRewrites
  /\ (IF srv.aof = "off" THEN "offrewrite" ELSE "rewrite") \in Ops
  /\ rws' = rws + 1
  /\ \/ Handle(rewriteAppendOnlyFileBackground(os, srv))
     \/ srv' = [srv EXCEPT !.sched = TRUE] /\ UNCHANGED <<os, faults>>
  /\ UNCHANGED <<wr, ack>>

\* serverCron starts a scheduled rewrite.
CronRewrite ==
  /\ srv.up /\ srv.sched /\ srv.child = "none"
  /\ Handle(rewriteAppendOnlyFileBackground(os, srv))
  /\ UNCHANGED <<wr, ack, rws>>

ChildDone ==
  /\ srv.up /\ srv.child = "run"
  /\ Handle(backgroundRewriteDoneHandler(os, srv))
  /\ UNCHANGED <<wr, ack, rws>>

\* CONFIG SET appendonly no and yes.
ConfigOff ==
  /\ "config" \in Ops /\ srv.up /\ srv.aof # "off"
  /\ Handle(stopAppendOnly(os, srv))
  /\ UNCHANGED <<wr, ack, rws>>

ConfigOn ==
  /\ "config" \in Ops /\ srv.up /\ srv.aof = "off" /\ rws < MaxRewrites
  /\ rws' = rws + 1
  /\ \E later \in BOOLEAN : Handle(startAppendOnly(os, srv, later))
  /\ UNCHANGED <<wr, ack>>

\* finishShutdown kills the child, flushes and syncs; the first rewrite of a
\* waiting AOF stops it.
finishShutdown ==
  /\ "shutdown" \in Ops /\ srv.up /\ faults < MaxFaults
  /\ ~(srv.aof = "wait" /\ srv.child # "none")
  /\ \E q \in IF srv.aof = "off" THEN {Outcome(os, srv, "ok", 0)}
              ELSE flushAppendOnlyFile(os, killAppendOnlyChild(srv), TRUE) :
        /\ faults' = faults + q.n + 1 /\ faults' <= MaxFaults
        /\ os' \in IF srv.aof = "off" THEN {q.os} ELSE May("fsync", Sync(q.os, q.os.fd), q.os)
        /\ srv' = [q.s EXCEPT !.up = FALSE]
  /\ UNCHANGED <<wr, ack, rws>>

\* The machine stops: of each file any part after what was synced is lost.
\* Directory entries are assumed to reach the disk in order.
PowerLoss ==
  /\ "power" \in Ops /\ srv.up /\ faults < MaxFaults
  /\ \E cut \in [DOMAIN os.f -> 0..(2 * MaxWrites)] :
        /\ \A n \in DOMAIN os.f : os.f[n].synced <= cut[n] /\ cut[n] <= Len(os.f[n].c)
        /\ os' = [os EXCEPT !.f = [n \in DOMAIN os.f |-> File(SubSeq(os.f[n].c, 1, cut[n]), cut[n])]]
  /\ srv' = [srv EXCEPT !.up = FALSE]
  /\ faults' = faults + 1
  /\ UNCHANGED <<wr, ack, rws>>

Restart ==
  /\ ~srv.up /\ loadAppendOnlyFiles(os).ok
  /\ Handle(StartServer(os))
  /\ UNCHANGED <<wr, ack, rws>>

Next ==
  \/ ExecWrite \/ FlushStep \/ BioFsyncCalled \/ BioFsync \/ BioClose \/ Tick
  \/ bgrewriteaofCommand \/ CronRewrite \/ ChildDone
  \/ ConfigOff \/ ConfigOn \/ finishShutdown \/ PowerLoss \/ Restart

Spec == Init /\ [][Next]_vars

\* The event loop keeps calling beforeSleep and serverCron, the child ends,
\* and the bio threads run.
FairSpec ==
  /\ Spec
  /\ WF_vars(FlushStep) /\ WF_vars(Tick) /\ WF_vars(BioFsyncCalled)
  /\ WF_vars(BioFsync)
  /\ WF_vars(CronRewrite) /\ WF_vars(ChildDone)

-----------------------------------------------------------------------------
TypeOK ==
  /\ srv.aof \in {"on", "off", "wait"} /\ srv.child \in {"none", "run"}
  /\ srv.pp \in 0..3 /\ srv.isz \in 0..(2 * MaxWrites)
  /\ {srv.up, srv.wok, srv.bok, srv.uns, srv.sec, srv.sched} \subseteq BOOLEAN
  /\ \A b \in {srv.mem, srv.buf, srv.snap} : b \in Seq(1..(2 * MaxWrites))
  /\ \A n \in DOMAIN os.f : os.f[n].synced \in 0..Len(os.f[n].c)
  /\ wr \in 0..MaxWrites /\ rws \in 0..MaxRewrites /\ faults \in 0..MaxFaults

\* While the AOF is on, a restart at any moment (loadAppendOnlyFiles), also in
\* the middle of a handler that was killed, finds the data set up to what is
\* still in aof_buf: no write is lost, replayed twice or out of order.
Recoverable ==
  srv.aof = "on" =>
    LET r == loadAppendOnlyFiles(os)
    IN r.ok /\ IsPrefix(r.c, srv.mem) /\ Len(r.c) + Len(srv.buf) + 1 >= Len(srv.mem)

\* Under "always" a write that was answered for survives kills and power losses:
\* a restart finds it in its place.
Durable == Policy = "always" => IsPrefix(ack, loadAppendOnlyFiles(os).c)

\* Whatever rewrites, failures and kills leave behind, every file the manifest
\* lists exists and is whole ("we consider this to be a fatal error").
Loadable == loadAppendOnlyFiles(os).ok

\* A running AOF writes to the last INCR file of the manifest on disk, so that
\* what it appends is read last.
WritesLastIncr ==
  srv.up /\ srv.aof = "on" => os.man.incr # <<>> /\ os.fd = Incr(Last(os.man.incr))

\* Without failures the directory holds the files of the manifest and, during
\* a rewrite of a waiting AOF, its temporary file: aofDelHistoryFiles and the
\* cleanup of a rewrite leave nothing behind.
NoGarbage ==
  faults = 0 /\ srv.up /\ srv.aof = "on"
    => DOMAIN os.f \ {TempIncr} = ToSet(FilesOf(os.man)) /\ os.man.hist = {}

\* When aof_fsync_offset says that all is synced and no fsync is queued, every
\* byte of every file in use is on disk: a power loss would lose nothing.
OffsetIsSynced ==
  srv.up /\ srv.aof = "on" /\ ~srv.uns /\ os.job = None
    => \A n \in ToSet(FilesOf(os.man)) \cap DOMAIN os.f : os.f[n].synced = Len(os.f[n].c)

\* A waiting AOF is switched on in the end, however its rewrites fail.
NotWaiting == srv.aof # "wait" \/ ~srv.up
\* The buffer is written in the end, also when the flush is put off for a slow
\* fsync or a write failed.
BufferEmpty == srv.buf = <<>> \/ ~srv.up
\* A write error does not last: serverCron flushes the buffer again, and the
\* write that succeeds makes the data set writable.
Writable == srv.wok \/ srv.aof = "off" \/ ~srv.up
\* Under everysec what was written is synced in the end, also when no further
\* write comes.
AllSynced == ~srv.uns \/ ~srv.up \/ srv.aof = "off"
=============================================================================
