--------------------------- MODULE RedisBlocking ---------------------------
(***************************************************************************)
(* Blocking operations of Redis on lists and sorted sets: BRPOP, with      *)
(* which Sidekiq's workers wait for jobs, BLPOP, BLMOVE and BZPOPMIN.      *)
(*                                                                         *)
(* Redis runs one command at a time.  A client that finds its keys missing *)
(* is put into the list of every key (db->blocking_keys) and, if it gave a *)
(* timeout, into a table ordered by deadline.  A write that creates a key  *)
(* somebody waits for queues the key (server.ready_keys).  After the       *)
(* command, or after the whole EXEC, handleClientsBlockedOnKeys serves the *)
(* queued keys, which may create and queue more keys (BLMOVE).             *)
(*                                                                         *)
(* phase is what the single thread does: wait for events in the loop, run  *)
(* the commands of an EXEC, or serve.                                      *)
(***************************************************************************)
EXTENDS Integers, Sequences, FiniteSets, SequencesExt

CONSTANTS
  Keys, Clients,
  NoKey,       \* no destination key
  Types,       \* types that clients block for, "list" or "zset"
  MaxElems,    \* bound on the elements pushed
  MaxCmds,     \* bound on the blocking commands of a client
  MaxNow       \* bound on the clock

BlockingAssumption ==
  /\ NoKey \notin Keys
  /\ Types \subseteq {"list", "zset"}
  /\ MaxElems \in Nat /\ MaxCmds \in Nat /\ MaxNow \in Nat

VARIABLES
  db,         \* the keyspace: the type and the elements of every key
  blocking,   \* db->blocking_keys: the clients of each key, in order
  cl,         \* the clients
  byType,     \* server.blocked_clients_by_type
  readySet,   \* db->ready_keys
  ready,      \* server.ready_keys
  batch,      \* the list that handleClientsBlockedOnKeys works on
  todo,       \* clients still to visit for the first key of the batch
  visiting,   \* whether that key is being served
  timeouts,   \* server.clients_timeout_table: <<deadline, client>>
  unblocked,  \* server.unblocked_clients
  phase, now,
  elems,      \* number of elements pushed so far
  got,        \* <<element, client>>: elements replied to clients
  gone,       \* elements deleted with their key
  forced,     \* keys whose value was stored over a value of another type
  tickets     \* number of times a client blocked so far

storeVars == <<db, elems, gone, forced>>
waitVars == <<blocking, cl, byType, timeouts, unblocked, tickets>>
serveVars == <<readySet, ready, batch, todo, visiting>>
vars == <<storeVars, waitVars, serveVars, phase, now, got>>

-----------------------------------------------------------------------------
Missing == [type |-> "none", items |-> <<>>]

\* A client: idle, blocked (for a type, on keys, popping from one end, with
\* a destination, until a deadline; 0 is for ever), or closed.
Idle == [st |-> "idle", cmds |-> 0, replies |-> 0]

Waits(c) == cl[c].st = "blocked"

Init ==
  /\ db = [k \in Keys |-> Missing]
  /\ blocking = [k \in Keys |-> <<>>]
  /\ cl = [c \in Clients |-> Idle]
  /\ byType = [t \in Types |-> 0]
  /\ readySet = {} /\ ready = <<>> /\ batch = <<>> /\ todo = <<>> /\ visiting = FALSE
  /\ timeouts = {} /\ unblocked = <<>>
  /\ phase = "loop" /\ now = 1
  /\ elems = 0 /\ got = {} /\ gone = {} /\ forced = {}
  /\ tickets = 0

-----------------------------------------------------------------------------
(* signalKeyAsReady, dbAdd, dbOverwrite, dbDelete.                         *)

\* Mutant: the key is queued only if it is not queued in this batch.
SignalUnlessServed(k, t) ==
  t \in Types /\ byType[t] > 0 /\ blocking[k] # <<>> /\ k \notin readySet /\ batch = <<>>

signalKeyAsReady(k, t) ==
  t \in Types /\ byType[t] > 0 /\ blocking[k] # <<>> /\ k \notin readySet

Queue(k, t) ==
  IF signalKeyAsReady(k, t)
    THEN ready' = Append(ready, k) /\ readySet' = readySet \cup {k}
    ELSE UNCHANGED <<ready, readySet>>

dbAdd(d, k, t, items) == [d EXCEPT ![k] = [type |-> t, items |-> items]]

dbDelete(d, k) == [d EXCEPT ![k] = Missing]

\* Elements taken from a list leave no empty list behind.
Shrink(d, k, items) == IF items = <<>> THEN dbDelete(d, k) ELSE [d EXCEPT ![k].items = items]

Put(items, e, end) == IF end = "head" THEN <<e>> \o items ELSE Append(items, e)

\* listTypePop; ZPOPMIN takes the lowest score, here the oldest element.
Take(items, end) == IF end = "head" THEN Head(items) ELSE Last(items)

Rest(items, end) == IF end = "head" THEN Tail(items) ELSE Front(items)

\* A command runs when the thread is in its loop, or as part of an EXEC; a
\* command of the loop is followed by handleClientsBlockedOnKeys.
Runs == phase \in {"loop", "exec"}

After == phase' = IF phase = "loop" THEN "serve" ELSE phase

-----------------------------------------------------------------------------
(* Writes.                                                                 *)

\* LPUSH, RPUSH and ZADD of one element.
pushGenericCommand(k, t, end) ==
  /\ Runs
  /\ elems < MaxElems
  /\ elems' = elems + 1
  /\ \/ /\ db[k] = Missing
        /\ db' = dbAdd(db, k, t, <<elems + 1>>)
        /\ forced' = forced \ {k}
        /\ Queue(k, t)
     \/ /\ db[k].type = t
        /\ db' = [db EXCEPT ![k].items = Put(@, elems + 1, end)]
        /\ UNCHANGED <<forced, ready, readySet>>
  /\ After
  /\ UNCHANGED <<waitVars, batch, todo, visiting, now, got, gone>>

\* setKey, as SORT ... STORE and GEOSEARCHSTORE call it: over an existing
\* key it is dbOverwrite, which queues nothing.
setKey(k, t) ==
  /\ Runs
  /\ elems < MaxElems
  /\ elems' = elems + 1
  /\ gone' = gone \cup ToSet(db[k].items)
  /\ db' = dbAdd(db, k, t, <<elems + 1>>)
  /\ IF db[k] = Missing
       THEN Queue(k, t) /\ forced' = forced \ {k}
       ELSE /\ forced' = IF db[k].type # t THEN forced \cup {k} ELSE forced
            /\ UNCHANGED <<ready, readySet>>
  /\ After
  /\ UNCHANGED <<waitVars, batch, todo, visiting, now, got>>

\* LPOP, RPOP, ZPOPMIN and LMPOP of one element.
popGenericCommand(k, end) ==
  /\ Runs
  /\ db[k] # Missing
  /\ gone' = gone \cup {Take(db[k].items, end)}
  /\ db' = Shrink(db, k, Rest(db[k].items, end))
  /\ forced' = IF db'[k] = Missing THEN forced \ {k} ELSE forced
  /\ After
  /\ UNCHANGED <<waitVars, serveVars, now, elems, got>>

delCommand(k) ==
  /\ Runs
  /\ db[k] # Missing
  /\ gone' = gone \cup ToSet(db[k].items)
  /\ db' = dbDelete(db, k)
  /\ forced' = forced \ {k}
  /\ After
  /\ UNCHANGED <<waitVars, serveVars, now, elems, got>>

execCommand ==
  \/ phase = "loop" /\ phase' = "exec" /\ UNCHANGED <<storeVars, waitVars, serveVars, now, got>>
  \/ phase = "exec" /\ phase' = "serve" /\ UNCHANGED <<storeVars, waitVars, serveVars, now, got>>

-----------------------------------------------------------------------------
(* blockForKeys, unblockClient.                                            *)

blockForKeys(c, b) ==
  /\ cl' = [cl EXCEPT ![c] = [b EXCEPT !.ticket = tickets + 1]]
  /\ tickets' = tickets + 1
  /\ blocking' = [k \in Keys |-> IF k \in b.keys THEN Append(blocking[k], c) ELSE blocking[k]]
  /\ byType' = [byType EXCEPT ![b.btype] = @ + 1]
  /\ timeouts' = IF b.deadline = 0 THEN timeouts ELSE timeouts \cup {<<b.deadline, c>>}

\* The client leaves the list of every key it waits for.
unblockClientWaitingData(c) == [k \in Keys |-> SelectSeq(blocking[k], LAMBDA d : d # c)]

\* unblockClient with its reply: the client leaves every key, the counters
\* and the timeout table, and is queued for its next command.  freeClient
\* also takes it out of server.unblocked_clients.
unblockClient(c, replies, st) ==
  /\ blocking' = unblockClientWaitingData(c)
  /\ byType' = [byType EXCEPT ![cl[c].btype] = @ - 1]
  /\ cl' = [cl EXCEPT ![c] = [st |-> st, cmds |-> @.cmds, replies |-> @.replies + replies]]
  /\ timeouts' = timeouts \ {<<cl[c].deadline, c>>}
  /\ unblocked' = CASE st = "closed" -> SelectSeq(unblocked, LAMBDA d : d # c)
                    [] c \in ToSet(unblocked) -> unblocked
                    [] OTHER -> Append(unblocked, c)
  /\ UNCHANGED tickets

\* processUnblockedClients: the client's next command is read from here on.
processUnblockedClients ==
  /\ phase = "loop"
  /\ unblocked # <<>>
  /\ unblocked' = Tail(unblocked)
  /\ UNCHANGED <<storeVars, serveVars, blocking, cl, byType, timeouts, tickets, phase, now, got>>

-----------------------------------------------------------------------------
(* Blocking commands.                                                      *)

Sends(c) ==
  /\ phase = "loop"
  /\ cl[c].st = "idle" /\ cl[c].cmds < MaxCmds
  /\ c \notin ToSet(unblocked)

Request(c, t, ks, end, dst, deadline) ==
  [st |-> "blocked", cmds |-> cl[c].cmds + 1, replies |-> cl[c].replies, btype |-> t,
   keys |-> ToSet(ks), end |-> end, dst |-> dst, deadline |-> deadline, ticket |-> 0]

\* The first of the keys that exists decides: an element, or WRONGTYPE.
Available(ks) == {i \in DOMAIN ks : db[ks[i]] # Missing}

\* BLPOP, BRPOP and BZPOPMIN.
blockingPopGenericCommand(c, t, ks, end, deadline) ==
  /\ Sends(c)
  /\ IF Available(ks) = {}
       THEN /\ blockForKeys(c, Request(c, t, ks, end, NoKey, deadline))
            /\ UNCHANGED <<storeVars, serveVars, unblocked, phase, now, got>>
       ELSE LET k == ks[CHOOSE i \in Available(ks) : \A j \in Available(ks) : i <= j]
            IN  /\ cl' = [cl EXCEPT ![c].cmds = @ + 1, ![c].replies = @ + 1]
                /\ IF db[k].type = t
                     THEN /\ got' = got \cup {<<Take(db[k].items, end), c>>}
                          /\ db' = Shrink(db, k, Rest(db[k].items, end))
                          /\ forced' = IF db'[k] = Missing THEN forced \ {k} ELSE forced
                     ELSE UNCHANGED <<got, db, forced>>
                /\ UNCHANGED <<serveVars, blocking, byType, timeouts, unblocked, tickets,
                               phase, now, elems, gone>>

\* The store after an element went from a list to another, or the same, one.
Moved(src, dst, from, to) ==
  LET e == Take(db[src].items, from)
      rest == Rest(db[src].items, from)
  IN  IF src = dst THEN [db EXCEPT ![src].items = Put(rest, e, to)]
      ELSE IF db[dst] = Missing THEN dbAdd(Shrink(db, src, rest), dst, "list", <<e>>)
      ELSE [Shrink(db, src, rest) EXCEPT ![dst].items = Put(@, e, to)]

\* lmoveGenericCommand and the serving of BLMOVE: WRONGTYPE leaves the
\* element where it is.
lmove(src, dst, from) ==
  IF db[dst].type \in {"none", "list"}
    THEN /\ db' = Moved(src, dst, from, "head")
         /\ forced' = IF db'[src] = Missing THEN forced \ {src} ELSE forced
         /\ IF db[dst] = Missing THEN Queue(dst, "list") ELSE UNCHANGED <<ready, readySet>>
    ELSE UNCHANGED <<db, forced, ready, readySet>>

blmoveGenericCommand(c, src, dst, from, deadline) ==
  /\ Sends(c)
  /\ IF db[src] = Missing
       THEN /\ blockForKeys(c, Request(c, "list", <<src>>, from, dst, deadline))
            /\ UNCHANGED <<storeVars, serveVars, unblocked, phase, now, got>>
       ELSE /\ cl' = [cl EXCEPT ![c].cmds = @ + 1, ![c].replies = @ + 1]
            /\ IF db[src].type = "list" THEN lmove(src, dst, from)
                                        ELSE UNCHANGED <<db, forced, ready, readySet>>
            /\ After
            /\ UNCHANGED <<batch, todo, visiting, blocking, byType, timeouts, unblocked,
                           tickets, now, got, elems, gone>>

-----------------------------------------------------------------------------
(* handleClientsBlockedOnKeys.                                             *)

\* The next key: a fresh server.ready_keys replaces the list worked on.  The
\* clients to visit are those that wait for the type the key has.
nextReadyKey ==
  /\ phase = "serve" /\ ~visiting
  /\ LET l == IF batch = <<>> THEN ready ELSE batch
     IN  /\ l # <<>>
         /\ batch' = l
         /\ ready' = IF batch = <<>> THEN <<>> ELSE ready
         /\ readySet' = readySet \ {Head(l)}
         /\ todo' = SelectSeq(blocking[Head(l)], LAMBDA c : cl[c].btype = db[Head(l)].type)
  /\ visiting' = TRUE
  /\ UNCHANGED <<storeVars, waitVars, phase, now, got>>

\* serveClientBlockedOnList and the pop of serveClientsBlockedOnSortedSetKey.
servePop(c, k) ==
  LET rest == Rest(db[k].items, cl[c].end)
  IN  /\ got' = got \cup {<<Take(db[k].items, cl[c].end), c>>}
      /\ db' = Shrink(db, k, rest)
      /\ forced' = IF rest = <<>> THEN forced \ {k} ELSE forced
      /\ todo' = IF rest = <<>> THEN <<>> ELSE Tail(todo)
      /\ UNCHANGED <<ready, readySet>>

serveMove(c, k) ==
  /\ lmove(k, cl[c].dst, cl[c].end)
  /\ todo' = IF db'[k] = Missing THEN <<>> ELSE Tail(todo)
  /\ UNCHANGED got

serveClient ==
  /\ phase = "serve" /\ visiting /\ todo # <<>>
  /\ LET c == Head(todo)
         k == Head(batch)
     IN  /\ IF cl[c].dst = NoKey THEN servePop(c, k) ELSE serveMove(c, k)
         /\ unblockClient(c, 1, "idle")
  /\ UNCHANGED <<batch, visiting, phase, now, elems, gone>>

serveDone ==
  /\ phase = "serve" /\ visiting /\ todo = <<>>
  /\ visiting' = FALSE
  /\ batch' = Tail(batch)
  /\ UNCHANGED <<storeVars, waitVars, ready, readySet, todo, phase, now, got>>

allServed ==
  /\ phase = "serve" /\ ~visiting /\ batch = <<>> /\ ready = <<>>
  /\ phase' = "loop"
  /\ UNCHANGED <<storeVars, waitVars, serveVars, now, got>>

-----------------------------------------------------------------------------
(* Timeouts, CLIENT UNBLOCK, disconnections.                               *)

Tick ==
  /\ phase = "loop"
  /\ now < MaxNow
  /\ now' = now + 1
  /\ UNCHANGED <<storeVars, waitVars, serveVars, phase, got>>

\* Mutant: the table is not looked at when it is not full.
TimeoutSkips ==
  /\ phase = "loop"
  /\ Cardinality(timeouts) > 1
  /\ \E t \in timeouts :
       /\ t[1] < now
       /\ \A u \in timeouts : t[1] <= u[1]
       /\ Waits(t[2]) /\ unblockClient(t[2], 1, "idle")
  /\ UNCHANGED <<storeVars, serveVars, phase, now, got>>

\* One entry of the table, the earliest deadline first.  Its client must
\* still exist: the table holds pointers.
handleBlockedClientsTimeout ==
  /\ phase = "loop"
  /\ \E t \in timeouts :
       /\ t[1] < now
       /\ \A u \in timeouts : t[1] <= u[1]
       /\ IF Waits(t[2]) /\ cl[t[2]].deadline # 0 /\ cl[t[2]].deadline < now
            THEN unblockClient(t[2], 1, "idle")
            ELSE timeouts' = timeouts \ {t} /\ UNCHANGED <<blocking, cl, byType, unblocked, tickets>>
  /\ UNCHANGED <<storeVars, serveVars, phase, now, got>>

\* CLIENT UNBLOCK id: the reply of a timeout, or an error.
clientUnblock(c) ==
  /\ phase = "loop" /\ Waits(c)
  /\ unblockClient(c, 1, "idle")
  /\ UNCHANGED <<storeVars, serveVars, phase, now, got>>

freeClient(c) ==
  /\ phase = "loop" /\ Waits(c)
  /\ unblockClient(c, 0, "closed")
  /\ UNCHANGED <<storeVars, serveVars, phase, now, got>>

\* The server becomes a replica: an error, and CLIENT_CLOSE_AFTER_REPLY.
disconnectAllBlockedClients ==
  /\ phase = "loop"
  /\ \E c \in Clients : Waits(c)
  /\ blocking' = [k \in Keys |-> <<>>]
  /\ byType' = [t \in Types |-> 0]
  /\ timeouts' = {}
  /\ cl' = [c \in Clients |-> IF Waits(c)
                                THEN [st |-> "closed", cmds |-> cl[c].cmds, replies |-> cl[c].replies + 1]
                                ELSE cl[c]]
  /\ unblocked' = SelectSeq(unblocked, LAMBDA c : ~Waits(c))
  /\ UNCHANGED <<storeVars, serveVars, tickets, phase, now, got>>

-----------------------------------------------------------------------------
Deadlines == {0, now}

KeySeqs == {<<k>> : k \in Keys} \cup {<<k, l>> : k \in Keys, l \in Keys}

Serve == nextReadyKey \/ serveClient \/ serveDone \/ allServed

Write ==
  \E k \in Keys :
    \/ \E t \in Types : \/ \E end \in {"head", "tail"} : pushGenericCommand(k, t, end)
                        \/ setKey(k, t)
    \/ \E end \in {"head", "tail"} : popGenericCommand(k, end)
    \/ delCommand(k)

Block(c) ==
  \E deadline \in Deadlines :
    \/ \E ks \in {s \in KeySeqs : Cardinality(ToSet(s)) = Len(s)}, t \in Types :
         \E end \in IF t = "list" THEN {"head", "tail"} ELSE {"head"} :
           blockingPopGenericCommand(c, t, ks, end, deadline)
    \/ /\ "list" \in Types
       /\ \E src \in Keys, dst \in Keys : blmoveGenericCommand(c, src, dst, "tail", deadline)

Next ==
  \/ Write \/ execCommand \/ Serve
  \/ \E c \in Clients : Block(c) \/ clientUnblock(c) \/ freeClient(c)
  \/ processUnblockedClients \/ handleBlockedClientsTimeout \/ disconnectAllBlockedClients
  \/ Tick

\* The event loop keeps running: it finishes an EXEC and what it serves, and
\* looks at the timeouts before it sleeps.
Fairness ==
  /\ WF_vars(execCommand /\ phase = "exec") /\ WF_vars(Serve)
  /\ SF_vars(handleBlockedClientsTimeout) /\ SF_vars(Tick)

Spec == Init /\ [][Next]_vars /\ Fairness

-----------------------------------------------------------------------------
(* Properties.                                                             *)

\* Keys hold what their type says, and no empty list exists outside of a
\* command (db.c, t_list.c).
TypeOK ==
  /\ \A k \in Keys : /\ db[k].type \in Types \cup {"none"}
                     /\ db[k].items \in Seq(1..elems)
                     /\ db[k].type = "none" <=> db[k].items = <<>>
  /\ blocking \in [Keys -> Seq(Clients)]
  /\ \A c \in Clients : cl[c].st \in {"idle", "blocked", "closed"}
  /\ byType \in [Types -> 0..Cardinality(Clients)]
  /\ readySet \subseteq Keys /\ ready \in Seq(Keys) /\ batch \in Seq(Keys)
  /\ todo \in Seq(Clients) /\ visiting \in BOOLEAN
  /\ timeouts \subseteq Nat \X Clients
  /\ unblocked \in Seq(Clients)
  /\ phase \in {"loop", "exec", "serve"}

\* The three places that know a blocked client agree (blockForKeys,
\* unblockClient): a client is once in the list of each of its keys and in no
\* other, is counted under its type, and is in the timeout table exactly
\* while it waits with a deadline; a stale entry would be a dangling pointer.
Bookkeeping ==
  /\ \A k \in Keys : /\ IsInjective(blocking[k])
                     /\ ToSet(blocking[k]) = {c \in Clients : Waits(c) /\ k \in cl[c].keys}
  /\ \A t \in Types : byType[t] = Cardinality({c \in Clients : Waits(c) /\ cl[c].btype = t})
  /\ timeouts = {<<cl[c].deadline, c>> : c \in {d \in Clients : Waits(d) /\ cl[d].deadline # 0}}
  /\ readySet = ToSet(ready) \cup ToSet(IF visiting THEN Tail(batch) ELSE batch)
  /\ IsInjective(ready) /\ IsInjective(unblocked)

\* No lost wakeup (signalKeyAsReady, handleClientsBlockedOnKeys): when the
\* loop sleeps, a client still waits only if none of its keys has what it
\* waits for, or the key was stored over another type by setKey.
NoLostWakeup ==
  phase = "loop" =>
    \A c \in Clients : Waits(c) =>
      \A k \in cl[c].keys : db[k].type = cl[c].btype => k \in forced

\* Every element is in exactly one place: in one key, with one client, or
\* popped by a command that does not block, or deleted (serveClientBlockedOnList, lmoveHandlePush).
ElementsConserved ==
  \A e \in 1..elems :
    LET places == {<<k, i>> : k \in Keys, i \in 1..elems}
        held == {p \in places : p[2] \in DOMAIN db[p[1]].items /\ db[p[1]].items[p[2]] = e}
    IN  Cardinality(held) + Cardinality({g \in got : g[1] = e})
          + (IF e \in gone THEN 1 ELSE 0) = 1

\* A command is answered once: never both by an element and by a timeout,
\* CLIENT UNBLOCK or a disconnection, however these race.
OneReply ==
  \A c \in Clients :
    /\ cl[c].replies <= cl[c].cmds
    /\ cl[c].st = "idle" => cl[c].replies = cl[c].cmds
    /\ Waits(c) => cl[c].replies = cl[c].cmds - 1
    /\ Cardinality({g \in got : g[2] = c}) <= cl[c].replies

\* Clients that wait on a key for the same type are served in the order in
\* which they blocked (serveClientsBlockedOnListKey).
ServedInOrder ==
  \A c \in Clients, d \in Clients :
    (/\ phase = "serve" /\ visiting
     /\ Waits(c) /\ Waits(d) /\ cl[c].btype = cl[d].btype
     /\ Head(batch) \in cl[c].keys \cap cl[d].keys
     /\ cl[c].ticket < cl[d].ticket)
    => ~(Waits(c)' /\ ~Waits(d)')

\* Whoever blocks with a timeout is answered or disconnected
\* (handleBlockedClientsTimeout); the bound on the clock is reached last.
NotOverdue(c) == ~Waits(c) \/ cl[c].deadline \notin 1..(MaxNow - 1)
=============================================================================
