---------------------------- MODULE RedisExpire ----------------------------
(***************************************************************************)
(* Keys that expire in Redis 7.0.0 (db.c, expire.c, evict.c, t_string.c):  *)
(* what a master and its replica hold.  A command is an operator from the  *)
(* dataset of a server to its next one and to what is propagated; the      *)
(* replica runs what was propagated, later and as the client of its        *)
(* master.  Values are numbers, the time is a clock both servers share,    *)
(* and it stands still while a command runs.  A failover in which the      *)
(* master is paused until the replica has everything changes their roles.  *)
(*                                                                         *)
(* A dataset x is a record: x.val and x.exp per database and key, x.slave  *)
(* the keys with a TTL that were written at a replica (slaveKeysWithExpire)*)
(* and, while a command runs, x.who runs it and x.prop what it propagates. *)
(***************************************************************************)
EXTENDS Integers, Sequences, FiniteSets

CONSTANTS Nodes,        \* two servers
          Dbs,          \* databases 0..1 or just 0
          Keys,
          Local,        \* the keys that clients of a writable replica use
          Ops,          \* the commands that clients send
          Ttls,         \* times to live, and timestamps, that they give
          Flags,        \* options they give: NX, XX, KEEPTTL, GT, LT...
          Volatile,     \* maxmemory-policy: only keys with a TTL are evicted
          MaxVal,       \* bound: values
          MaxTime,      \* bound: the clock
          MaxCommands,  \* bound: commands sent
          MaxFailovers  \* bound: failovers

ExpireAssumption == Cardinality(Nodes) = 2 /\ Local \subseteq Keys

VARIABLES data,      \* server -> [val, exp, slave]
          master,    \* the server that is the master
          stream,    \* what the master propagated and the replica did not run yet
          now,
          paused,    \* the master is paused for a failover
          commands, failovers

vars == <<data, master, stream, now, paused, commands, failovers>>

Absent == -1
NoExpire == -1
Places == Dbs \X Keys
replica == CHOOSE n \in Nodes : n # master

Init ==
  /\ data = [n \in Nodes |-> [val |-> [p \in Places |-> Absent], exp |-> [p \in Places |-> NoExpire],
                              slave |-> {}]]
  /\ master \in Nodes
  /\ stream = <<>> /\ now = 0 /\ paused = FALSE /\ commands = 0 /\ failovers = 0

-----------------------------------------------------------------------------
(* The keyspace.  x.who is "client" for a client of the master, "local" for *)
(* a client of a replica and "link" for the commands of the master.        *)

Exists(x, p) == x.val[p] # Absent

Propagate(x, c) == [x EXCEPT !.prop = Append(@, c)]

NoCommand == [op |-> "none", p |-> <<0, 0>>, q |-> <<0, 0>>, v |-> 0, t |-> NoExpire, rel |-> FALSE, f |-> ""]
DelCommand(p) == [NoCommand EXCEPT !.op = "del", !.p = p]

dbGenericDelete(x, p) == [x EXCEPT !.val[p] = Absent, !.exp[p] = NoExpire]

\* The key goes here and with a DEL elsewhere.
deleteExpiredKeyAndPropagate(x, p) == Propagate(dbGenericDelete(x, p), DelCommand(p))

keyIsExpired(x, p) == x.exp[p] # NoExpire /\ now > x.exp[p]

\* Deletes the key when it is this server that decides.
expireIfNeeded(x, p, force) ==
  IF keyIsExpired(x, p) /\ x.who # "link" /\ (x.who = "client" \/ force) /\ ~paused
  THEN deleteExpiredKeyAndPropagate(x, p)
  ELSE x

\* Whether a lookup finds the key, which it may just have deleted.
Found(x, p) == Exists(x, p) /\ (x.who = "link" \/ ~keyIsExpired(x, p))

lookupKeyRead(x, p) == expireIfNeeded(x, p, FALSE)
lookupKeyWrite(x, p) == expireIfNeeded(x, p, TRUE)

setKey(x, p, v, keepttl) ==
  [x EXCEPT !.val[p] = v, !.exp[p] = IF keepttl THEN @ ELSE NoExpire]

setExpire(x, p, when) ==
  [x EXCEPT !.exp[p] = when, !.slave = IF x.who = "local" THEN @ \cup {p} ELSE @]

\* The time an argument stands for: relative to now, or a timestamp.
basetime(c) == IF c.rel THEN now + c.t ELSE c.t

\* Only a master turns a time that has passed into a DEL.
checkAlreadyExpired(x, when) == when <= now /\ x.who = "client"

-----------------------------------------------------------------------------
(* Strings.                                                                *)

\* Mutant: propagated as it came, with the relative time.
SetVerbatim(x0, c) ==
  LET x == lookupKeyWrite(x0, c.p)
      y == setKey(x, c.p, c.v, c.f = "keepttl")
  IN IF (c.f = "nx" /\ Found(x, c.p)) \/ (c.f = "xx" /\ ~Found(x, c.p)) THEN x
     ELSE Propagate(IF c.t = NoExpire THEN y ELSE setExpire(y, c.p, basetime(c)), c)

\* SET, SETNX, SETEX, PSETEX: propagated with the timestamp, then without
\* the other options.
setGenericCommand(x0, c) ==
  LET x == lookupKeyWrite(x0, c.p)
      y == setKey(x, c.p, c.v, c.f = "keepttl")
  IN IF (c.f = "nx" /\ Found(x, c.p)) \/ (c.f = "xx" /\ ~Found(x, c.p)) THEN x
     ELSE IF c.t = NoExpire THEN Propagate(y, c)
     ELSE Propagate(setExpire(y, c.p, basetime(c)), [c EXCEPT !.t = basetime(c), !.rel = FALSE, !.f = ""])

\* Removes the TTL; propagated when there was one.
Persist(x, p) ==
  IF x.exp[p] = NoExpire THEN x
  ELSE Propagate([x EXCEPT !.exp[p] = NoExpire], [NoCommand EXCEPT !.op = "persist", !.p = p])

\* A new time for a key that is there: PEXPIREAT, or DEL when it has passed.
ExpireAt(x, c, check) ==
  IF check /\ checkAlreadyExpired(x, basetime(c))
  THEN Propagate(dbGenericDelete(x, c.p), DelCommand(c.p))
  ELSE Propagate(setExpire(x, c.p, basetime(c)),
                 [NoCommand EXCEPT !.op = "expire", !.p = c.p, !.t = basetime(c)])

\* GETEX: a read that may change the TTL; only timestamps may have passed.
getexCommand(x0, c) ==
  LET x == lookupKeyRead(x0, c.p)
  IN IF ~Found(x, c.p) THEN x
     ELSE IF c.t # NoExpire THEN ExpireAt(x, c, ~c.rel)
     ELSE IF c.f = "persist" THEN Persist(x, c.p) ELSE x

getdelCommand(x0, c) ==
  LET x == lookupKeyRead(x0, c.p)
  IN IF ~Found(x, c.p) THEN x ELSE Propagate(dbGenericDelete(x, c.p), DelCommand(c.p))

\* GETSET is propagated as SET.
getsetCommand(x0, c) ==
  Propagate(setKey(lookupKeyRead(x0, c.p), c.p, c.v, FALSE), [c EXCEPT !.op = "set", !.f = ""])

\* INCR and its like, APPEND and SETRANGE: a value that depends on the old
\* one, unless it is out of range.  The TTL stays.
Modified(x, p) == IF Found(x, p) THEN x.val[p] + 1 ELSE 0

incrDecrCommand(x0, c) ==
  LET x == lookupKeyWrite(x0, c.p)
  IN IF Modified(x, c.p) > MaxVal THEN x ELSE Propagate(setKey(x, c.p, Modified(x, c.p), TRUE), c)

appendCommand(x0, c) == incrDecrCommand(x0, c)
setrangeCommand(x0, c) == incrDecrCommand(x0, c)

\* INCRBYFLOAT: propagated as a SET of the result.
incrbyfloatCommand(x0, c) ==
  LET x == lookupKeyWrite(x0, c.p)
      v == Modified(x, c.p)
  IN IF v > MaxVal THEN x
     ELSE Propagate(setKey(x, c.p, v, TRUE), [c EXCEPT !.op = "set", !.v = v, !.f = "keepttl"])

\* MSET and MSETNX of two keys.  The second is looked up only if the first
\* is not there.
msetGenericCommand(x0, c) ==
  LET x1 == lookupKeyWrite(x0, c.p)
      x2 == IF c.f = "nx" /\ Found(x1, c.p) THEN x1 ELSE lookupKeyWrite(x1, c.q)
  IN IF c.f = "nx" /\ (Found(x1, c.p) \/ Found(x2, c.q)) THEN x2
     ELSE Propagate(setKey(setKey(x2, c.p, c.v, FALSE), c.q, c.v, FALSE), c)

-----------------------------------------------------------------------------
(* Keys.                                                                   *)

\* EXPIRE, PEXPIRE, EXPIREAT and PEXPIREAT with NX, XX, GT or LT.
Refused(x, c) ==
  LET old == x.exp[c.p]
      new == basetime(c)
  IN \/ c.f = "nx" /\ old # NoExpire
     \/ c.f = "xx" /\ old = NoExpire
     \/ c.f = "gt" /\ (new <= old \/ old = NoExpire)
     \/ c.f = "lt" /\ old # NoExpire /\ new >= old

expireGenericCommand(x0, c) ==
  LET x == lookupKeyWrite(x0, c.p)
  IN IF ~Found(x, c.p) \/ Refused(x, c) THEN x ELSE ExpireAt(x, c, TRUE)

persistCommand(x0, c) ==
  LET x == lookupKeyWrite(x0, c.p)
  IN IF Found(x, c.p) THEN Persist(x, c.p) ELSE x

\* DEL and UNLINK.
delGenericCommand(x0, c) ==
  LET x == expireIfNeeded(x0, c.p, FALSE)
  IN IF Exists(x, c.p) THEN Propagate(dbGenericDelete(x, c.p), c) ELSE x

\* The object and its TTL under another name.
PutWithTtl(x, q, v, t) ==
  LET y == setKey(x, q, v, FALSE)
  IN IF t = NoExpire THEN y ELSE setExpire(y, q, t)

\* RENAME and RENAMENX, of two keys of a database.
renameGenericCommand(x0, c) ==
  LET x1 == lookupKeyWrite(x0, c.p)
      x  == lookupKeyWrite(x1, c.q)
  IN IF c.p = c.q \/ ~Found(x1, c.p) THEN x1
     ELSE IF c.f = "nx" /\ Found(x, c.q) THEN x
     ELSE Propagate(dbGenericDelete(PutWithTtl(x, c.q, x.val[c.p], x.exp[c.p]), c.p), c)

\* MOVE: the same key of another database, unless there is one.
moveCommand(x0, c) ==
  LET x1 == lookupKeyWrite(x0, c.p)
      x  == lookupKeyWrite(x1, c.q)
  IN IF ~Found(x1, c.p) THEN x1
     ELSE IF Found(x, c.q) THEN x
     ELSE Propagate(dbGenericDelete(PutWithTtl(x, c.q, x.val[c.p], x.exp[c.p]), c.p), c)

\* COPY, with REPLACE or not.
copyCommand(x0, c) ==
  LET x1 == lookupKeyRead(x0, c.p)
      x  == lookupKeyWrite(x1, c.q)
  IN IF ~Found(x1, c.p) THEN x1
     ELSE IF Found(x, c.q) /\ c.f # "replace" THEN x
     ELSE Propagate(PutWithTtl(x, c.q, x.val[c.p], x.exp[c.p]), c)

\* SWAPDB 0 1.
swapdbCommand(x, c) ==
  LET other(p) == <<1 - p[1], p[2]>>
  IN Propagate([x EXCEPT !.val = [p \in Places |-> x.val[other(p)]],
                         !.exp = [p \in Places |-> x.exp[other(p)]]], c)

Emptied(x, D) ==
  [x EXCEPT !.val = [p \in Places |-> IF p[1] \in D THEN Absent ELSE @[p]],
            !.exp = [p \in Places |-> IF p[1] \in D THEN NoExpire ELSE @[p]]]

\* FLUSHDB is propagated when it removed something, FLUSHALL always.
flushdbCommand(x, c) ==
  LET y == Emptied(x, {c.p[1]}) IN IF y.val = x.val THEN x ELSE Propagate(y, c)

flushallCommand(x, c) == Propagate([Emptied(x, Dbs) EXCEPT !.slave = {}], c)

call(x, c) ==
  CASE c.op = "set" -> setGenericCommand(x, c)
    [] c.op = "getex" -> getexCommand(x, c)
    [] c.op = "getdel" -> getdelCommand(x, c)
    [] c.op = "getset" -> getsetCommand(x, c)
    [] c.op = "incr" -> incrDecrCommand(x, c)
    [] c.op = "append" -> appendCommand(x, c)
    [] c.op = "setrange" -> setrangeCommand(x, c)
    [] c.op = "incrbyfloat" -> incrbyfloatCommand(x, c)
    [] c.op = "mset" -> msetGenericCommand(x, c)
    [] c.op = "expire" -> expireGenericCommand(x, c)
    [] c.op = "persist" -> persistCommand(x, c)
    [] c.op = "del" -> delGenericCommand(x, c)
    [] c.op = "rename" -> renameGenericCommand(x, c)
    [] c.op = "move" -> moveCommand(x, c)
    [] c.op = "copy" -> copyCommand(x, c)
    [] c.op = "swapdb" -> swapdbCommand(x, c)
    [] c.op = "flushdb" -> flushdbCommand(x, c)
    [] c.op = "flushall" -> flushallCommand(x, c)
    [] c.op = "get" -> lookupKeyRead(x, c.p)

-----------------------------------------------------------------------------
(* The servers.                                                            *)

As(n, who) == [val |-> data[n].val, exp |-> data[n].exp, slave |-> data[n].slave, who |-> who, prop |-> <<>>]
Kept(x) == [val |-> x.val, exp |-> x.exp, slave |-> x.slave]

\* What clients send about keys of K.
Requests(K) ==
  LET P == Dbs \X K
      Of(op, F) == {[NoCommand EXCEPT !.op = op, !.p = p, !.f = f] : p \in P, f \in F \cap (Flags \cup {""})}
      Timed(C) == {[c EXCEPT !.t = t, !.rel = r] : c \in C, t \in Ttls, r \in BOOLEAN}
      Two(C, Q(_)) == UNION {{[c EXCEPT !.q = q] : q \in Q(c)} : c \in C}
      SameDb(c) == {q \in P : q[1] = c.p[1]}
      OtherDb(c) == {q \in P : q[1] # c.p[1] /\ q[2] = c.p[2]}
  IN UNION {{c \in
       CASE op = "set" -> Of(op, {"", "nx", "xx", "keepttl"}) \cup Timed(Of(op, {"", "nx", "xx"}))
         [] op = "getex" -> Of(op, {"", "persist"}) \cup Timed(Of(op, {""}))
         [] op = "expire" -> Timed(Of(op, {"", "nx", "xx", "gt", "lt"}))
         [] op = "mset" -> Two(Of(op, {"", "nx"}), SameDb)
         [] op = "rename" -> Two(Of(op, {"", "nx"}), SameDb)
         [] op = "copy" -> {c \in Two(Of(op, {"", "replace"}), LAMBDA c : P) : c.p # c.q}
         [] op = "move" -> Two(Of(op, {""}), OtherDb)
         [] OTHER -> Of(op, {""}) : TRUE} : op \in Ops \ {"evict"}}

\* A client of the master; its writes wait while the master is paused.
clientCommand(c) ==
  /\ commands < MaxCommands /\ (paused => c.op = "get")
  /\ LET x == call(As(master, "client"), c)
     IN /\ data' = [data EXCEPT ![master] = Kept(x)]
        /\ stream' = stream \o x.prop
  /\ commands' = commands + 1
  /\ UNCHANGED <<master, now, paused, failovers>>

\* A client of a writable replica.
localCommand(c) ==
  /\ commands < MaxCommands
  /\ data' = [data EXCEPT ![replica] = Kept(call(As(replica, "local"), c))]
  /\ commands' = commands + 1
  /\ UNCHANGED <<master, stream, now, paused, failovers>>

\* The replica runs the next command of its master.
replicate ==
  /\ stream # <<>>
  /\ data' = [data EXCEPT ![replica] = Kept(call(As(replica, "link"), Head(stream)))]
  /\ stream' = Tail(stream)
  /\ UNCHANGED <<master, now, paused, commands, failovers>>

\* Mutant: it does not look at the clock.
ExpireEarly(n, p) ==
  /\ data[n].exp[p] # NoExpire /\ now >= data[n].exp[p]
  /\ LET x == deleteExpiredKeyAndPropagate(As(n, "client"), p)
     IN /\ data' = [data EXCEPT ![n] = Kept(x)]
        /\ stream' = IF n = master THEN stream \o x.prop ELSE stream

activeExpireCycleTryExpire(n, p) ==
  /\ keyIsExpired(data[n], p)
  /\ LET x == deleteExpiredKeyAndPropagate(As(n, "client"), p)
     IN /\ data' = [data EXCEPT ![n] = Kept(x)]
        /\ stream' = IF n = master THEN stream \o x.prop ELSE stream

\* The keys that expired at the master, one at a time, unless it is paused.
activeExpireCycle ==
  /\ ~paused /\ \E p \in Places : activeExpireCycleTryExpire(master, p)
  /\ UNCHANGED <<master, now, paused, commands, failovers>>

\* The keys of the replica's own clients.  One that has no TTL any more is
\* forgotten.
expireSlaveKeys ==
  /\ \E p \in data[replica].slave :
       IF keyIsExpired(data[replica], p)
       THEN data' = [data EXCEPT ![replica] = [dbGenericDelete(@, p) EXCEPT !.slave = @ \ {p}]]
       ELSE data[replica].exp[p] = NoExpire /\ data' = [data EXCEPT ![replica].slave = @ \ {p}]
  /\ UNCHANGED <<master, stream, now, paused, commands, failovers>>

\* In a pause the dataset stays, and a replica leaves it to its master.
isSafeToPerformEvictions == ~paused

\* Whichever key the policy may pick.
evictionPoolPopulate ==
  {p \in Places : Exists(data[master], p) /\ (Volatile => data[master].exp[p] # NoExpire)}

\* The master is over its memory limit.
performEvictions ==
  /\ "evict" \in Ops /\ isSafeToPerformEvictions /\ commands < MaxCommands
  /\ \E p \in evictionPoolPopulate :
       LET x == deleteExpiredKeyAndPropagate(As(master, "client"), p)
       IN data' = [data EXCEPT ![master] = Kept(x)] /\ stream' = stream \o x.prop
  /\ commands' = commands + 1
  /\ UNCHANGED <<master, now, paused, failovers>>

\* FAILOVER: the master is paused, and ends so when the replica has it all
\* or when it takes too long.
failoverCommand ==
  /\ ~paused /\ failovers < MaxFailovers
  /\ paused' = TRUE /\ failovers' = failovers + 1
  /\ UNCHANGED <<data, master, stream, now, commands>>

failoverEnds ==
  /\ paused /\ paused' = FALSE
  /\ \/ stream = <<>> /\ master' = replica
     \/ UNCHANGED master
  /\ UNCHANGED <<data, stream, now, commands, failovers>>

Tick == /\ now < MaxTime /\ now' = now + 1
        /\ UNCHANGED <<data, master, stream, paused, commands, failovers>>

ClientStep == \/ \E c \in Requests(Keys \ Local) : clientCommand(c)
              \/ \E c \in Requests(Local) : localCommand(c)

Next == \/ ClientStep \/ replicate \/ activeExpireCycle \/ expireSlaveKeys \/ performEvictions
        \/ failoverCommand \/ failoverEnds \/ Tick

Spec == Init /\ [][Next]_vars

\* The link delivers, both crons run and the clock goes on.
FairSpec == /\ Spec /\ WF_vars(Tick) /\ WF_vars(replicate)
            /\ WF_vars(activeExpireCycle) /\ WF_vars(expireSlaveKeys)

-----------------------------------------------------------------------------
\* The types; and only a key that is there has an expire ("it should also be
\* present in the main dict").
TypeOK ==
  /\ master \in Nodes /\ now \in 0..MaxTime /\ paused \in BOOLEAN
  /\ \A n \in Nodes, p \in Places :
       /\ data[n].val[p] \in -1..MaxVal
       /\ data[n].exp[p] # NoExpire => Exists(data[n], p)

\* A replica that has run everything holds what its master holds, TTLs
\* included, whatever expired, was evicted or was rewritten in between
\* ("everything will be consistent even if we allow write operations against
\* expiring keys").
Converges ==
  stream = <<>> =>
    \A p \in Dbs \X (Keys \ Local) : /\ data[replica].val[p] = data[master].val[p]
                                     /\ data[replica].exp[p] = data[master].exp[p]

\* While the master is paused its dataset stands still, whatever expires or
\* is read ("we keep the current dataset constant").
PausedDatasetConstant == paused /\ paused' => UNCHANGED data[master] /\ Len(stream') <= Len(stream)

\* A key goes from the master only after its time, if no client and no
\* memory limit removes it.
NotBeforeItsTime ==
  commands' = commands /\ UNCHANGED master =>
    \A p \in Places : Exists(data[master], p) /\ ~Exists(data'[master], p) =>
        data[master].exp[p] # NoExpire /\ now > data[master].exp[p]

\* A key whose time has come is gone in the end, at both servers, the ones
\* written at a replica included.
NoneExpired == \A p \in Places, n \in Nodes : ~keyIsExpired(data[n], p)
=============================================================================
