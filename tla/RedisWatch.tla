----------------------------- MODULE RedisWatch -----------------------------
(***************************************************************************)
(* MULTI, EXEC and WATCH of Redis over keys that expire.                   *)
(*                                                                         *)
(* WATCH remembers keys; a write of a watched key marks the client dirty   *)
(* (CLIENT_DIRTY_CAS) and its EXEC answers nil.  What makes it hard is     *)
(* time: a key whose TTL is over still is in the dict until somebody       *)
(* deletes it.  Such a deletion changes nothing a client can see, so a     *)
(* watch of an already expired key carries a flag and must survive it.     *)
(* FLUSHDB and SWAPDB touch all the keys of a database at once.            *)
(*                                                                         *)
(* The server is a master, or a replica whose writes come from the link to *)
(* its master: a replica never deletes expired keys itself.                *)
(*                                                                         *)
(* A list of watching clients is a set of pairs: <<b, c>> is one when the  *)
(* node of b does not come after that of c.                                *)
(***************************************************************************)
EXTENDS Integers, Sequences, FiniteSets

CONSTANTS
  Keys, Clients,
  NoClient,
  Dbs,         \* the databases, {0} or {0, 1}
  Replica,     \* whether the server is a replica
  MaxWrites,   \* bound on the versions written
  MaxNow,      \* bound on the clock
  MaxQueue     \* bound on the commands of a transaction

WatchAssumption ==
  /\ NoClient \notin Clients
  /\ Dbs \in {{0}, {0, 1}}
  /\ Replica \in BOOLEAN
  /\ MaxWrites \in Nat /\ MaxNow \in Nat \ {0} /\ MaxQueue \in Nat

VARIABLES
  db,       \* every place's version (0 is absent) and expire time (0 is none)
  wk,       \* the watches: list of clients per place, expired flags, dirty clients
  cl,       \* clients: the flags MULTI, DIRTY_EXEC and closed, and the queue
  running,  \* the client whose EXEC is being executed
  now, writes,
  snap,     \* the value of each place at WATCH, -1 if not watched
  changed,  \* clients one of whose watched places changed since WATCH
  sent      \* number of commands sent since MULTI

vars == <<db, wk, cl, running, now, writes, snap, changed, sent>>

-----------------------------------------------------------------------------
Places == Dbs \X Keys

Absent == [ver |-> 0, exp |-> 0]

\* TRUE if the key is in the dict, with a TTL that is over.
keyIsExpired(e) == e.exp # 0 /\ now > e.exp

\* What a client sees of a key at time t.
Seen(e, t) == IF e.exp # 0 /\ t > e.exp THEN 0 ELSE e.ver

NotInMulti == [flags |-> {}, queue |-> <<>>]

\* The commands a client can queue.
Commands == {"set", "setex", "del"} \X Places

Init ==
  /\ db = [p \in Places |-> Absent]
  /\ wk = [list |-> [p \in Places |-> {}], expired |-> {}, dirty |-> {}]
  /\ cl = [c \in Clients |-> NotInMulti]
  /\ running = NoClient
  /\ now = 1 /\ writes = 0
  /\ snap = [c \in Clients |-> [p \in Places |-> -1]]
  /\ changed = {}
  /\ sent = [c \in Clients |-> 0]

-----------------------------------------------------------------------------
(* The table of watched keys, as functions of the watches w.               *)

Watchers(w, p) == {c \in Clients : <<c, c>> \in w.list[p]}

unwatchAllKeys(w, C) ==
  [w EXCEPT !.list = [p \in Places |-> {e \in w.list[p] : e[1] \notin C /\ e[2] \notin C}],
            !.expired = {f \in @ : f[1] \notin C}]

Dirty(w, C) == unwatchAllKeys([w EXCEPT !.dirty = @ \cup C], C)

Expired(w, p) == {c \in Clients : <<c, p>> \in w.expired}

\* A write of place p; there is whether the key is in the dict afterwards.
\* The loop stops at the first client that watches the key as expired.
touchWatchedKey(w, p, there) ==
  LET first == {c \in Watchers(w, p) : \A b \in Expired(w, p) : <<b, c>> \notin w.list[p]}
  IN IF there
       THEN Dirty(w, first)
       ELSE [Dirty(w, Watchers(w, p) \ Expired(w, p)) EXCEPT !.expired = {f \in @ : f[2] # p}]

\* Mutant: databases where the key is only in the replacing one are skipped.
TouchDbIfEmptied(w, d, old, new) ==
  LET hit == {p \in Places : p[1] = d /\ old[p[2]].ver # 0}
      dirt == {c \in Clients : \E p \in hit : c \in Watchers(w, p) \ Expired(w, p)}
  IN Dirty(w, dirt)

\* All the keys of database d are replaced: old and new are its entries.  A
\* watch flagged as expired survives if the key goes or is expired again; a
\* watch of an absent key survives an expired one, and gets the flag.
touchAllWatchedKeysInDb(w, d, old, new) ==
  LET k(p) == p[2]
      hit == {p \in Places : p[1] = d /\ (old[k(p)].ver # 0 \/ new[k(p)].ver # 0)}
      gone(c, p) == c \in Expired(w, p) /\ new[k(p)].ver = 0
      still(c, p) == c \in Expired(w, p) /\ keyIsExpired(new[k(p)])
      becomes(c, p) == c \notin Expired(w, p) /\ old[k(p)].ver = 0 /\ keyIsExpired(new[k(p)])
      spared(c, p) == gone(c, p) \/ still(c, p) \/ becomes(c, p)
      flags == {f \in Clients \X hit : f[1] \in Watchers(w, f[2]) /\ becomes(f[1], f[2])}
      clears == {f \in w.expired : f[2] \in hit /\ gone(f[1], f[2])}
      dirt == {c \in Clients : \E p \in hit : c \in Watchers(w, p) /\ ~spared(c, p)}
  IN Dirty([w EXCEPT !.expired = (@ \ clears) \cup flags], dirt)

\* A key watched as live is expired by now.
isWatchedKeyExpired(w, c) ==
  \E p \in Places : c \in Watchers(w, p) /\ c \notin Expired(w, p) /\ keyIsExpired(db[p])

-----------------------------------------------------------------------------
(* Writes, by a client or by an EXEC.  On a master a command that looks a  *)
(* key up for writing deletes it first if it is expired; on a replica the  *)
(* command comes from the master and takes the key as it is.               *)

\* expireIfNeeded and deleteExpiredKeyAndPropagate.
expireIfNeeded(w, p) ==
  IF ~Replica /\ keyIsExpired(db[p]) THEN touchWatchedKey(w, p, FALSE) ELSE w

Present(p) == IF ~Replica /\ keyIsExpired(db[p]) THEN Absent ELSE db[p]

\* SET, with a TTL or without: setKey and signalModifiedKey.
setGenericCommand(p, ttl) ==
  /\ writes < MaxWrites
  /\ writes' = writes + 1
  /\ db' = [db EXCEPT ![p] = [ver |-> writes + 1, exp |-> IF ttl THEN now + 1 ELSE 0]]
  /\ wk' = touchWatchedKey(expireIfNeeded(wk, p), p, TRUE)

\* DEL: a key that is not there, or expired on a master, is not touched again.
delGenericCommand(p) ==
  /\ db' = [db EXCEPT ![p] = Absent]
  /\ LET w == expireIfNeeded(wk, p)
     IN wk' = IF Present(p).ver # 0 THEN touchWatchedKey(w, p, FALSE) ELSE w
  /\ UNCHANGED writes

Do(cmd) ==
  CASE cmd[1] = "set" -> setGenericCommand(cmd[2], FALSE)
    [] cmd[1] = "setex" -> setGenericCommand(cmd[2], TRUE)
    [] cmd[1] = "del" -> delGenericCommand(cmd[2])

\* A write outside of a transaction, by whoever sends it: a connection that
\* is not in MULTI, or the link to the master.
Write(cmd) ==
  /\ running = NoClient
  /\ Do(cmd)
  /\ UNCHANGED <<cl, running, now, snap, sent>>

\* A read, or the cycle that looks for expired keys: only a master deletes.
Expire(p) ==
  /\ running = NoClient
  /\ ~Replica
  /\ keyIsExpired(db[p])
  /\ db' = [db EXCEPT ![p] = Absent]
  /\ wk' = expireIfNeeded(wk, p)
  /\ UNCHANGED <<cl, running, now, writes, snap, sent>>

Entries(d) == [k \in Keys |-> db[<<d, k>>]]

flushdbCommand(d) ==
  /\ running = NoClient
  /\ db' = [p \in Places |-> IF p[1] = d THEN Absent ELSE db[p]]
  /\ wk' = touchAllWatchedKeysInDb(wk, d, Entries(d), [k \in Keys |-> Absent])
  /\ UNCHANGED <<cl, running, now, writes, snap, sent>>

\* SWAPDB 0 1: both databases are touched before they are swapped.
dbSwapDatabases ==
  /\ running = NoClient
  /\ Dbs = {0, 1}
  /\ db' = [p \in Places |-> db[<<1 - p[1], p[2]>>]]
  /\ LET w == touchAllWatchedKeysInDb(wk, 0, Entries(0), Entries(1))
     IN wk' = touchAllWatchedKeysInDb(w, 1, Entries(1), Entries(0))
  /\ UNCHANGED <<cl, running, now, writes, snap, sent>>

-----------------------------------------------------------------------------
(* The client's side.                                                      *)

Forget(c) ==
  /\ snap' = [snap EXCEPT ![c] = [p \in Places |-> -1]]
  /\ sent' = [sent EXCEPT ![c] = 0]

Idle(c) == running = NoClient /\ "closed" \notin cl[c].flags

InMulti(c) == "multi" \in cl[c].flags

\* WATCH of one key.  A client that is dirty already watches nothing more.
watchCommand(c, p) ==
  /\ Idle(c) /\ ~InMulti(c)
  /\ c \notin wk.dirty
  /\ c \notin Watchers(wk, p)
  /\ wk' = [wk EXCEPT !.list[p] = @ \cup {<<b, c>> : b \in Watchers(wk, p) \cup {c}},
                      !.expired = IF keyIsExpired(db[p]) THEN @ \cup {<<c, p>>} ELSE @]
  /\ snap' = [snap EXCEPT ![c][p] = Seen(db[p], now)]
  /\ UNCHANGED <<db, cl, running, now, writes, sent>>

Clean(w, c) == [unwatchAllKeys(w, {c}) EXCEPT !.dirty = @ \ {c}]

unwatchCommand(c) ==
  /\ Idle(c) /\ ~InMulti(c)
  /\ wk' = Clean(wk, c)
  /\ Forget(c)
  /\ UNCHANGED <<db, cl, running, now, writes>>

multiCommand(c) ==
  /\ Idle(c) /\ ~InMulti(c)
  /\ cl' = [cl EXCEPT ![c].flags = @ \cup {"multi"}]
  /\ UNCHANGED <<db, wk, running, now, writes, snap, sent>>

\* A write sent inside MULTI: dropped if the transaction is aborted already.
\* A replica refuses it.
queueMultiCommand(c, cmd) ==
  /\ Idle(c) /\ InMulti(c)
  /\ ~Replica
  /\ sent[c] < MaxQueue
  /\ sent' = [sent EXCEPT ![c] = @ + 1]
  /\ cl' = IF c \in wk.dirty \/ "dirty_exec" \in cl[c].flags THEN cl ELSE [cl EXCEPT ![c].queue = Append(@, cmd)]
  /\ UNCHANGED <<db, wk, running, now, writes, snap>>

\* A command inside MULTI that is refused (unknown, wrong arity, out of
\* memory, not allowed ...): flagTransaction.
rejectCommand(c) ==
  /\ Idle(c) /\ InMulti(c)
  /\ sent[c] < MaxQueue
  /\ sent' = [sent EXCEPT ![c] = @ + 1]
  /\ cl' = [cl EXCEPT ![c].flags = @ \cup {"dirty_exec"}]
  /\ UNCHANGED <<db, wk, running, now, writes, snap>>

\* DISCARD, RESET, and EXEC that is itself refused (execCommandAbort).
discardTransaction(c) ==
  /\ Idle(c) /\ InMulti(c)
  /\ cl' = [cl EXCEPT ![c] = NotInMulti]
  /\ wk' = Clean(wk, c)
  /\ Forget(c)
  /\ UNCHANGED <<db, running, now, writes>>

\* EXEC: the transaction is aborted, or it starts and the keys are unwatched.
Aborts(c) == isWatchedKeyExpired(wk, c) \/ c \in wk.dirty \/ "dirty_exec" \in cl[c].flags

execAborts(c) ==
  /\ Idle(c) /\ InMulti(c)
  /\ Aborts(c)
  /\ cl' = [cl EXCEPT ![c] = NotInMulti]
  /\ wk' = Clean(wk, c)
  /\ Forget(c)
  /\ UNCHANGED <<db, running, now, writes>>

execStarts(c) ==
  /\ Idle(c) /\ InMulti(c)
  /\ ~Aborts(c)
  /\ running' = c
  /\ wk' = unwatchAllKeys(wk, {c})
  /\ UNCHANGED <<db, cl, now, writes, snap, sent>>

\* The next queued command; the client no longer watches anything, so that
\* its own writes do not touch it.
execCommand(c) ==
  /\ running = c
  /\ cl[c].queue # <<>>
  /\ \/ Do(Head(cl[c].queue))
     \/ /\ writes = MaxWrites /\ Head(cl[c].queue)[1] # "del"
        /\ UNCHANGED <<db, wk, writes>>
  /\ cl' = [cl EXCEPT ![c].queue = Tail(@)]
  /\ UNCHANGED <<running, now, snap, sent>>

execEnds(c) ==
  /\ running = c
  /\ cl[c].queue = <<>>
  /\ running' = NoClient
  /\ cl' = [cl EXCEPT ![c] = NotInMulti]
  /\ wk' = Clean(wk, c)
  /\ Forget(c)
  /\ UNCHANGED <<db, now, writes>>

\* The connection goes.
freeClient(c) ==
  /\ Idle(c)
  /\ cl' = [cl EXCEPT ![c] = [NotInMulti EXCEPT !.flags = {"closed"}]]
  /\ wk' = Clean(wk, c)
  /\ Forget(c)
  /\ UNCHANGED <<db, running, now, writes>>

\* The cached clock does not move inside a command, nor inside an EXEC
\* (server.fixed_time_expire).
Tick ==
  /\ running = NoClient
  /\ now < MaxNow
  /\ now' = now + 1
  /\ UNCHANGED <<db, wk, cl, running, writes, snap, sent>>

-----------------------------------------------------------------------------
Step ==
  \/ \E cmd \in Commands : Write(cmd)
  \/ \E p \in Places : Expire(p)
  \/ \E d \in Dbs : flushdbCommand(d)
  \/ dbSwapDatabases
  \/ \E c \in Clients, p \in Places : watchCommand(c, p)
  \/ \E c \in Clients, cmd \in Commands : queueMultiCommand(c, cmd)
  \/ \E c \in Clients :
       \/ unwatchCommand(c) \/ multiCommand(c) \/ rejectCommand(c)
       \/ discardTransaction(c)
       \/ execAborts(c) \/ execStarts(c) \/ execCommand(c) \/ execEnds(c)
       \/ freeClient(c)
  \/ Tick

\* The history: who has seen a watched value change.
Observe ==
  changed' = {c \in Clients :
                \E p \in Places : /\ snap'[c][p] # -1
                                  /\ c \in changed \/ Seen(db'[p], now') # snap'[c][p]}

Next == Step /\ Observe

Spec == Init /\ [][Next]_vars

-----------------------------------------------------------------------------
(* Properties.                                                             *)

TypeOK ==
  /\ db \in [Places -> [ver : 0..MaxWrites, exp : 0..(MaxNow + 1)]]
  /\ wk \in [list : [Places -> SUBSET (Clients \X Clients)], expired : SUBSET (Clients \X Places),
             dirty : SUBSET Clients]
  /\ cl \in [Clients -> [flags : SUBSET {"multi", "dirty_exec", "closed"}, queue : Seq(Commands)]]
  /\ running \in Clients \cup {NoClient}
  /\ now \in 1..MaxNow /\ writes \in 0..MaxWrites
  /\ snap \in [Clients -> [Places -> -1..MaxWrites]]
  /\ changed \subseteq Clients
  /\ sent \in [Clients -> 0..MaxQueue]

Starts(c) == running = NoClient /\ running' = c

\* EXEC runs a transaction only if every watched key still has the value it
\* had at WATCH, whatever expired, was deleted, flushed or swapped since
\* (execCommand, multi.c).
OptimisticLock == \A c \in Clients : Starts(c) => c \notin changed

\* A client is marked dirty only by a change it could have seen: deletions of
\* keys that were expired already, FLUSHDB and SWAPDB of such keys included,
\* do not abort a transaction (touchWatchedKey, touchAllWatchedKeysInDb).
NoSpuriousAbort == \A c \in wk.dirty : c \in changed

\* An EXEC that starts has queued every command the client sent: commands
\* that were dropped or refused never leave half a transaction
\* (queueMultiCommand, flagTransaction).
AllOrNothing ==
  \A c \in Clients : Starts(c) => Len(cl[c].queue) = sent[c]

\* The pairs of a list put its clients in one order.
InOrder(list) ==
  /\ \A e \in list : <<e[1], e[1]>> \in list /\ <<e[2], e[2]>> \in list
  /\ \A a, b \in Clients :
       <<a, a>> \in list /\ <<b, b>> \in list =>
          /\ <<a, b>> \in list \/ <<b, a>> \in list
          /\ <<a, b>> \in list /\ <<b, a>> \in list => a = b
          /\ \A c \in Clients : <<a, b>> \in list /\ <<b, c>> \in list => <<a, c>> \in list

\* Lists and clients agree: no client twice in a list, none that is gone,
\* dirty or executing, and a flag only for a key that is watched
\* (watchForKey, unwatchAllKeys).
WatchIndex ==
  /\ \A p \in Places :
       /\ InOrder(wk.list[p])
       /\ \A c \in Watchers(wk, p) :
            "closed" \notin cl[c].flags /\ c \notin wk.dirty /\ c # running /\ snap[c][p] # -1
  /\ \A f \in wk.expired : f[1] \in Watchers(wk, f[2])
  /\ \A c \in Clients, p \in Places :
       snap[c][p] # -1 => \/ c \in Watchers(wk, p)
                          \/ c \in wk.dirty
                          \/ c = running

=============================================================================
