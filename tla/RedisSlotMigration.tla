------------------------- MODULE RedisSlotMigration -------------------------
(***************************************************************************)
(* Redis Cluster: redis-cli moves a hash slot from Src to Dst while        *)
(* clients use its keys.  Src answers for the keys it still has and sends  *)
(* clients to Dst for the others; MIGRATE moves keys over a connection of  *)
(* its own and blocks Src meanwhile, so that Dst may run other commands in *)
(* between and an answer may come too late or never.  Src is blocked until *)
(* MIGRATE returns and no longer: what redis-cli does next is a step of    *)
(* its own, with commands of clients before and after it.                  *)
(*                                                                         *)
(* A value is the number of the write that made it, Absent is no key.      *)
(* Src and Dst serve other slots too, so neither becomes a replica.        *)
(***************************************************************************)
EXTENDS Integers, FiniteSets, Sequences, SequencesExt

CONSTANTS
  Src, Dst, Keys,
  Errors,      \* what happens to MIGRATE's connection, out of timeout, broken,
               \* late: what was sent over a closed one may still be run
  Pipeline,    \* how many keys redis-cli asks for at a time
  MaxArgs,     \* how many keys a command has
  MaxWrites,   \* bound on writes of a key
  MaxAsking,   \* bound on clients on their way with ASKING
  MaxRuns      \* bound on runs of redis-cli

MigrationAssumption ==
  /\ Src # Dst /\ IsFiniteSet(Keys) /\ Errors \subseteq {"timeout", "broken", "late"}
  /\ Pipeline \in Nat \ {0} /\ MaxArgs \in Nat /\ MaxWrites \in Nat \ {0} /\ MaxAsking \in Nat
  /\ MaxRuns \in Nat \ {0}

VARIABLES
  owner, migrating, importing,  \* per node: who owns the slot, is it open
  db,        \* per node: the keys
  truth,     \* the keys as the clients' last writes left them
  writes,    \* writes so far, per key
  asking,    \* clients that were told ASK
  blocked,   \* keys clients wait for at Src (BLPOP)
  news,      \* who has not seen the claim of Dst yet
  cli, runs, \* what redis-cli does
  batch,     \* the keys it moves
  digest,    \* their values at Src when it compared them
  mig,       \* the MIGRATE Src is in, or its answer
  wire,      \* RESTOREs on their way to Dst, in order per connection
  doubt      \* the keys that a MIGRATE lost the connection over

slotvars == <<owner, migrating, importing, news>>
clients == <<truth, writes, asking, blocked>>
moving == <<cli, runs, batch, digest>>
link == <<mig, wire, doubt>>

vars == <<slotvars, db, clients, moving, link>>

-----------------------------------------------------------------------------
Nodes == {Src, Dst}
Absent == 0

NoMigrate == [on |-> FALSE, keys |-> <<>>, replies |-> <<>>, replace |-> FALSE,
              retry |-> FALSE, conn |-> 0, first |-> FALSE, err |-> "none"]

Init ==
  /\ owner = [n \in Nodes |-> Src]
  /\ migrating = FALSE /\ importing = FALSE
  /\ \E k0 \in [Keys -> 0..1] :
       /\ truth = k0 /\ writes = k0
       /\ db = [n \in Nodes |-> IF n = Src THEN k0 ELSE [k \in Keys |-> Absent]]
  /\ asking = {} /\ blocked = {} /\ news = {} /\ runs = 1
  /\ cli = "importing" /\ batch = {} /\ digest = [k \in Keys |-> Absent]
  /\ mig = NoMigrate /\ wire = {} /\ doubt = {}

Args == {K \in SUBSET Keys : Cardinality(K) \in 1..MaxArgs}

Missing(n, K) == {k \in K : db[n][k] = Absent}

\* Can node n serve a command about keys K?
getNodeByQuery(n, K, ask) ==
  LET migratingSlot == n = Src /\ owner[n] = n /\ migrating
      importingSlot == n = Dst /\ importing
  IN CASE migratingSlot /\ Missing(n, K) # {} -> "ask"
       [] importingSlot /\ ask ->
            IF Cardinality(K) > 1 /\ Missing(n, K) # {} THEN "tryagain" ELSE "serve"
       [] owner[n] # n /\ ~(importingSlot /\ ask) -> "moved"
       [] OTHER -> "serve"

\* Src waits for Dst inside MIGRATE, which returns after the last answer.
Stuck(n) == n = Src /\ mig.on

-----------------------------------------------------------------------------
(* Clients.                                                                *)

\* A command that reads, writes or deletes all keys of K.
Execute(n, K, op) ==
  CASE op = "write" -> /\ \A k \in K : writes[k] < MaxWrites
                       /\ writes' = [k \in Keys |-> IF k \in K THEN writes[k] + 1 ELSE writes[k]]
                       /\ db' = [db EXCEPT ![n] = [k \in Keys |-> IF k \in K THEN writes[k] + 1 ELSE @[k]]]
                       /\ truth' = [k \in Keys |-> IF k \in K THEN writes[k] + 1 ELSE truth[k]]
                       /\ blocked' = IF n = Src THEN blocked \ K ELSE blocked
    [] op = "del" ->   /\ db' = [db EXCEPT ![n] = [k \in Keys |-> IF k \in K THEN Absent ELSE @[k]]]
                       /\ truth' = [k \in Keys |-> IF k \in K THEN Absent ELSE truth[k]]
                       /\ UNCHANGED <<writes, blocked>>

command(n, K, op) ==
  /\ ~Stuck(n)
  /\ \/ /\ getNodeByQuery(n, K, FALSE) = "serve" /\ Execute(n, K, op)
        /\ UNCHANGED asking
     \/ /\ getNodeByQuery(n, K, FALSE) = "ask" /\ Cardinality(asking) < MaxAsking
        /\ asking' = asking \cup {[keys |-> K, op |-> op]}
        /\ UNCHANGED <<db, truth, writes, blocked>>
  /\ UNCHANGED <<slotvars, moving, link>>

\* ASKING and the command, at Dst.
askingCommand(a) ==
  /\ asking' = asking \ {a}
  /\ IF getNodeByQuery(Dst, a.keys, TRUE) = "serve"
     THEN Execute(Dst, a.keys, a.op)
     ELSE UNCHANGED <<db, truth, writes, blocked>>
  /\ UNCHANGED <<slotvars, moving, link>>

\* BLPOP waits for a key that is not there.
block(k) ==
  /\ ~Stuck(Src) /\ getNodeByQuery(Src, {k}, FALSE) = "serve" /\ db[Src][k] = Absent
  /\ k \notin blocked
  /\ blocked' = blocked \cup {k}
  /\ UNCHANGED <<slotvars, db, truth, writes, asking, moving, link>>

\* clientsCron finds it blocked at a node that does not own the slot.
clusterRedirectBlockedClientIfNeeded(k) ==
  /\ k \in blocked /\ owner[Src] # Src /\ ~Stuck(Src)
  /\ blocked' = blocked \ {k}
  /\ UNCHANGED <<slotvars, db, truth, writes, asking, moving, link>>

-----------------------------------------------------------------------------
(* MIGRATE.                                                                *)

\* RESTORE-ASKING for every key that is here, one after the other on one
\* connection.
SendKeys(ks, replace, conn) ==
  {[pos |-> i, key |-> ks[i], val |-> db[Src][ks[i]], replace |-> replace, conn |-> conn] : i \in 1..Len(ks)}

\* MIGRATE of the batch: the keys that are gone are skipped, and without any
\* the answer is NOKEY.
migrateCommand(replace) ==
  LET ks == SetToSeq(batch \ Missing(Src, Keys))
      c  == mig.conn + 1
  IN /\ ~Stuck(Src)
     /\ IF ks = <<>>
        THEN cli' = "keys" /\ batch' = {} /\ UNCHANGED <<mig, wire>>
        ELSE /\ mig' = [on |-> TRUE, keys |-> ks, replies |-> <<>>, replace |-> replace, retry |-> TRUE,
                        conn |-> c, first |-> TRUE, err |-> "none"]
             /\ wire' = wire \cup SendKeys(ks, replace, c)
             /\ cli' = "wait" /\ UNCHANGED batch
     /\ UNCHANGED <<slotvars, db, clients, runs, digest, doubt>>

\* What RESTORE answers: nothing is replaced unless asked for.
restoreCommand(r) ==
  LET serve == getNodeByQuery(Dst, {r.key}, TRUE) = "serve"
      here  == db[Dst][r.key] # Absent
  IN [ok |-> serve /\ (r.replace \/ ~here), busy |-> serve /\ ~r.replace /\ here]

\* Dst runs the next RESTORE of a connection.
restore(r) ==
  LET a == restoreCommand(r)
  IN /\ \A q \in wire : q.conn = r.conn => q.pos >= r.pos
     /\ wire' = wire \ {r}
     /\ db' = IF a.ok THEN [db EXCEPT ![Dst][r.key] = r.val] ELSE db
     /\ mig' = IF mig.on /\ r.conn = mig.conn THEN [mig EXCEPT !.replies = Append(@, a)] ELSE mig
     /\ UNCHANGED <<slotvars, clients, moving, doubt>>

Acknowledged(a) == a.ok

\* The first error is the answer of MIGRATE.
FirstError(a) ==
  IF mig.err # "none" \/ Acknowledged(a) THEN mig.err ELSE IF a.busy THEN "busy" ELSE "error"

\* Mutant: the keys go as soon as they are sent.
DeleteSent ==
  /\ mig.on
  /\ db' = [db EXCEPT ![Src][Head(mig.keys)] = Absent]
  /\ mig' = [mig EXCEPT !.keys = Tail(@), !.replies = <<>>, !.first = FALSE, !.on = Len(mig.keys) > 1]
  /\ UNCHANGED <<slotvars, clients, moving, wire, doubt>>

\* Src reads an answer and deletes the key; after the last one MIGRATE returns.
readReply ==
  /\ mig.on /\ mig.replies # <<>>
  /\ LET a == Head(mig.replies)
         k == Head(mig.keys)
     IN /\ db' = IF Acknowledged(a) THEN [db EXCEPT ![Src][k] = Absent] ELSE db
        /\ mig' = [mig EXCEPT !.keys = Tail(@), !.replies = Tail(@), !.first = FALSE,
                              !.err = FirstError(a), !.on = Len(mig.keys) > 1]
  /\ UNCHANGED <<slotvars, clients, moving, wire, doubt>>

OnOthers(conn) == {r \in wire : r.conn # conn}

\* What is left on the wire of a connection that is closed: nothing, or what
\* reached Dst before, to be run later.
Closed(conn) ==
  IF "late" \in Errors
  THEN {OnOthers(conn) \cup {r \in wire : r.conn = conn /\ r.pos < p} : p \in 1..(Cardinality(Keys) + 1)}
  ELSE {OnOthers(conn)}

\* IOERR, unless Dst answered with an error before: MIGRATE returns, and the
\* keys it has no answer for stay here.
giveUp ==
  /\ mig' = [mig EXCEPT !.on = FALSE, !.keys = <<>>, !.replies = <<>>,
                        !.err = IF @ = "none" THEN "error" ELSE @]
  /\ wire' \in Closed(mig.conn)

\* Once more on a new connection, when not even the first answer was read.
tryAgain ==
  /\ mig.first /\ mig.retry
  /\ mig' = [mig EXCEPT !.conn = @ + 1, !.retry = FALSE, !.replies = <<>>]
  /\ \E W \in Closed(mig.conn) : wire' = W \cup SendKeys(mig.keys, mig.replace, mig.conn + 1)

\* No answer in time.
timeout ==
  /\ "timeout" \in Errors /\ mig.on
  /\ giveUp
  /\ doubt' = doubt \cup ToSet(mig.keys)
  /\ UNCHANGED <<slotvars, db, clients, moving>>

\* The connection is lost after Dst ran none, some or all of the RESTOREs; a
\* new one is made if it still may be, and can be.
broken ==
  /\ "broken" \in Errors /\ mig.on
  /\ tryAgain \/ giveUp
  /\ doubt' = doubt \cup ToSet(mig.keys)
  /\ UNCHANGED <<slotvars, db, clients, moving>>

-----------------------------------------------------------------------------
(* redis-cli --cluster reshard.                                            *)

setslotImporting ==
  /\ cli = "importing" /\ owner[Dst] # Dst
  /\ importing' = TRUE /\ cli' = "migrating"
  /\ UNCHANGED <<owner, migrating, news, db, clients, runs, batch, digest, link>>

setslotMigrating ==
  /\ cli = "migrating" /\ ~Stuck(Src) /\ owner[Src] = Src
  /\ migrating' = TRUE /\ cli' = "keys"
  /\ UNCHANGED <<owner, importing, news, db, clients, runs, batch, digest, link>>

\* The next keys, as long as there are any (CLUSTER GETKEYSINSLOT).
clusterManagerMigrateKeysInSlot ==
  /\ cli = "keys" /\ ~Stuck(Src)
  /\ LET left == Keys \ Missing(Src, Keys)
     IN IF left = {}
        THEN cli' = "target" /\ UNCHANGED batch
        ELSE /\ cli' = "migrate"
             /\ batch' \in {B \in SUBSET left : B = left \/ Cardinality(B) = Pipeline}
             /\ Cardinality(batch') <= Pipeline
  /\ UNCHANGED <<slotvars, db, clients, runs, digest, link>>

clusterManagerMigrateKeysInReply ==
  \/ cli = "migrate" /\ migrateCommand(FALSE)
  \/ cli = "replace" /\ migrateCommand(TRUE)

\* The answer of MIGRATE.  When Dst has a key already the values are compared;
\* any other error, and any error of the second MIGRATE, ends the run.
migrateReply ==
  /\ cli = "wait" /\ ~mig.on
  /\ IF mig.err = "busy" /\ ~mig.replace
     THEN cli' = "compare" /\ UNCHANGED batch
     ELSE cli' = (IF mig.err = "none" THEN "keys" ELSE "stopped") /\ batch' = {}
  /\ UNCHANGED <<slotvars, db, clients, runs, digest, link>>

\* DEBUG DIGEST-VALUE, at Src and then at Dst.
digestSource ==
  /\ cli = "compare" /\ ~Stuck(Src)
  /\ cli' = "compareTarget"
  /\ digest' = [k \in Keys |-> IF k \in batch THEN db[Src][k] ELSE Absent]
  /\ UNCHANGED <<slotvars, db, clients, runs, batch, link>>

\* Keys with one value are replaced, keys with two end the run.
clusterManagerCompareKeysValues ==
  /\ cli = "compareTarget"
  /\ IF \A k \in batch : Absent \in {digest[k], db[Dst][k]} \/ digest[k] = db[Dst][k]
     THEN cli' = "replace" /\ UNCHANGED batch
     ELSE cli' = "stopped" /\ batch' = {}
  /\ digest' = [k \in Keys |-> Absent]
  /\ UNCHANGED <<slotvars, db, clients, runs, link>>

\* SETSLOT NODE at the target: a new epoch, and a PONG for everybody.
setslotNodeTarget ==
  /\ cli = "target"
  /\ owner' = [owner EXCEPT ![Dst] = Dst]
  /\ news' = IF importing THEN {Src} ELSE news
  /\ importing' = FALSE /\ cli' = "source"
  /\ UNCHANGED <<migrating, db, clients, runs, batch, digest, link>>

\* SETSLOT NODE at the source, which refuses while it owns the slot and has
\* keys in it.
setslotNodeSource ==
  /\ cli = "source" /\ ~Stuck(Src)
  /\ IF owner[Src] = Src /\ Missing(Src, Keys) # Keys
     THEN cli' = "stopped" /\ UNCHANGED <<owner, migrating>>
     ELSE /\ cli' = "done" /\ owner' = [owner EXCEPT ![Src] = Dst]
          /\ migrating' = (migrating /\ Missing(Src, Keys) # Keys)
  /\ UNCHANGED <<importing, news, db, clients, runs, batch, digest, link>>

\* The PONG of Dst arrives: Src loses the slot and what it has in it.
clusterUpdateSlotsConfigWith ==
  /\ Src \in news /\ ~Stuck(Src)
  /\ news' = news \ {Src}
  /\ owner' = [owner EXCEPT ![Src] = Dst]
  /\ db' = IF owner[Src] = Src THEN [db EXCEPT ![Src] = [k \in Keys |-> Absent]] ELSE db
  /\ UNCHANGED <<migrating, importing, clients, moving, link>>

\* The operator has the open slot fixed (redis-cli --cluster fix).  With keys
\* at Src alone there is one owner and the move goes on (its case 1); with
\* keys at Dst it picks an owner by their number, which is left out.
again ==
  /\ cli = "stopped" /\ ~Stuck(Src) /\ Missing(Dst, Keys) = Keys /\ runs < MaxRuns
  /\ runs' = runs + 1 /\ cli' = "keys"
  /\ UNCHANGED <<slotvars, db, clients, batch, digest, link>>

-----------------------------------------------------------------------------
Command ==
  \E n \in Nodes, K \in Args, op \in {"write", "del"} : command(n, K, op)

Client == \/ Command
          \/ \E a \in asking : askingCommand(a)
          \/ \E k \in Keys : block(k)

Move == \/ setslotImporting \/ setslotMigrating \/ clusterManagerMigrateKeysInSlot
        \/ clusterManagerMigrateKeysInReply \/ migrateReply \/ digestSource
        \/ clusterManagerCompareKeysValues \/ setslotNodeTarget \/ setslotNodeSource \/ readReply

Deliver == (\E r \in wire : restore(r)) \/ clusterUpdateSlotsConfigWith

Redirect == \E k \in Keys : clusterRedirectBlockedClientIfNeeded(k)

Next == Client \/ Move \/ Deliver \/ Redirect \/ timeout \/ broken \/ again

Spec == Init /\ [][Next]_vars

\* redis-cli goes on, RESTOREs are run, and clientsCron visits everybody.
FairSpec == Spec /\ WF_vars(Move) /\ WF_vars(Deliver) /\ WF_vars(Redirect)

-----------------------------------------------------------------------------
Answer == [ok : BOOLEAN, busy : BOOLEAN]
Migrate == [on : BOOLEAN, keys : Seq(Keys), replies : Seq(Answer), replace : BOOLEAN,
            retry : BOOLEAN, conn : Nat, first : BOOLEAN, err : {"none", "busy", "error"}]
Restore == [pos : Nat, key : Keys, val : 0..MaxWrites, replace : BOOLEAN, conn : Nat]

\* The types; and a MIGRATE has no more answers than keys it waits for.
TypeOK ==
  /\ owner \in [Nodes -> Nodes] /\ migrating \in BOOLEAN /\ importing \in BOOLEAN
  /\ db \in [Nodes -> [Keys -> 0..MaxWrites]]
  /\ truth \in [Keys -> 0..MaxWrites] /\ writes \in [Keys -> 0..MaxWrites]
  /\ asking \subseteq [keys : Args, op : {"write", "del"}]
  /\ blocked \subseteq Keys /\ news \subseteq {Src} /\ runs \in 1..MaxRuns
  /\ cli \in {"importing", "migrating", "keys", "migrate", "wait", "compare", "compareTarget", "replace",
              "target", "source", "done", "stopped"}
  /\ batch \subseteq Keys /\ digest \in [Keys -> 0..MaxWrites]
  /\ mig \in Migrate /\ wire \subseteq Restore /\ doubt \subseteq Keys
  /\ Len(mig.replies) <= Len(mig.keys)

\* Whoever serves a command has every key as the last write left it, whatever
\* clients do between the steps of redis-cli: a key is never served by both
\* nodes, nor read as absent by one while the other has it ("the only way we
\* can safely serve the request").  Not so the keys that a MIGRATE lost the
\* connection over: those may be at both nodes, and the copy at Dst is served
\* once the key is deleted at Src.
SafeToServe ==
  /\ \A n \in Nodes, K \in Args :
       ~Stuck(n) /\ getNodeByQuery(n, K, FALSE) = "serve" => \A k \in K \ doubt : db[n][k] = truth[k]
  /\ \A a \in asking :
       getNodeByQuery(Dst, a.keys, TRUE) = "serve" => \A k \in a.keys \ doubt : db[Dst][k] = truth[k]

\* With commands of one key, what Src still has is right, whatever became of
\* the connections: no other copy is newer.
SourceIsRight ==
  MaxArgs <= 1 => \A k \in Keys : db[Src][k] \in {Absent, truth[k]}

\* A key that clients wrote is somewhere, whatever MIGRATE went through; the
\* keys in doubt too, if commands have one key and nothing is run late.
NothingLost ==
  \A k \in Keys :
    /\ truth[k] # Absent
    /\ k \notin doubt \/ (MaxArgs <= 1 /\ "late" \notin Errors)
    => \E n \in Nodes : db[n][k] = truth[k]

\* From either node a client that follows redirections finds one that serves.
Findable ==
  \A n \in Nodes, k \in Keys :
     LET q == getNodeByQuery(n, {k}, FALSE)
     IN \/ q = "serve"
        \/ q = "ask" /\ getNodeByQuery(Dst, {k}, TRUE) = "serve"
        \/ q = "moved" /\ owner[n] # n
           /\ \/ getNodeByQuery(owner[n], {k}, FALSE) = "serve"
              \/ getNodeByQuery(owner[n], {k}, FALSE) = "ask" /\ getNodeByQuery(Dst, {k}, TRUE) = "serve"

\* The slot is moved in the end, however the clients go on.
AtDst == owner = [n \in Nodes |-> Dst] /\ \A k \in Keys : db[Src][k] = Absent
\* Nobody waits for ever at the node that lost the slot ("The client may
\* remain blocked forever").
NobodyWaits == blocked = {}
=============================================================================
