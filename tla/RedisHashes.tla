---------------------------- MODULE RedisHashes ----------------------------
(***************************************************************************)
(* Hashes in Redis 7.0.0 (t_hash.c): the commands that change them, their  *)
(* two encodings, and what is propagated to a replica, which runs it       *)
(* later.  A value is a number, or Text, or None for a field that is not   *)
(* there; numbers from Long on take more than hash-max-listpack-value      *)
(* bytes, and MaxVal is the largest there is.                              *)
(***************************************************************************)
EXTENDS Integers, Sequences, FiniteSets, SequencesExt

CONSTANTS Keys, Fields,
          Ops,          \* the commands that clients send
          MaxEntries,   \* hash-max-listpack-entries
          Long,         \* the first number too long for a listpack
          MaxVal,       \* LLONG_MAX
          Infinite,     \* whether clients increment by inf
          MaxCommands   \* bound: commands sent

HashesAssumption == MaxEntries \in Nat /\ Long \in Nat /\ MaxVal \in Nat /\ Infinite \in BOOLEAN

VARIABLES db,       \* the master's keys
          rdb,      \* the replica's
          stream,   \* commands the replica did not run yet
          commands

vars == <<db, rdb, stream, commands>>

None == -1
Text == -2
Inf  == MaxVal + 1
NoFields == [f \in Fields |-> None]
NoKey == [type |-> "none", enc |-> "", h |-> NoFields]
Other == [type |-> "string", enc |-> "", h |-> NoFields]
createHashObject == [type |-> "hash", enc |-> "listpack", h |-> NoFields]

Init == db \in [Keys -> {NoKey, Other}] /\ rdb = db /\ stream = <<>> /\ commands = 0

-----------------------------------------------------------------------------
(* The objects.                                                            *)

hashTypeExists(o, f) == o.h[f] # None
hashTypeLength(o) == Cardinality({f \in Fields : hashTypeExists(o, f)})
TooLong(v) == v >= Long

hashTypeConvert(o) == [o EXCEPT !.enc = "ht"]

\* The arguments, before any of them is set.
hashTypeTryConversion(o, vs) ==
  IF o.enc = "listpack" /\ (\E i \in 1..Len(vs) : TooLong(vs[i])) THEN hashTypeConvert(o) ELSE o

hashTypeSet(o, f, v) ==
  LET o1 == IF o.enc = "listpack" /\ TooLong(v) THEN hashTypeConvert(o) ELSE o
      o2 == [o1 EXCEPT !.h[f] = v]
  IN IF o2.enc = "listpack" /\ hashTypeLength(o2) > MaxEntries THEN hashTypeConvert(o2) ELSE o2

hashTypeDelete(o, f) == [o EXCEPT !.h[f] = None]

-----------------------------------------------------------------------------
(* The commands: the next dataset and what is propagated.  A command that  *)
(* fails may have changed the dataset, and then nothing is propagated.     *)

Done(d, p) == [db |-> d, prop |-> p]
Cmd(op, k, fs, vs) == [op |-> op, k |-> k, fs |-> fs, vs |-> vs]

\* The hash, or a new one that is in the database at once.
hashTypeLookupWriteOrCreate(d, k) == IF d[k] = NoKey THEN [d EXCEPT ![k] = createHashObject] ELSE d

WrongType(d, k) == d[k].type = "string"

hsetnxCommand(d0, c) ==
  LET d == hashTypeLookupWriteOrCreate(d0, c.k)
      f == c.fs[1]
  IN IF WrongType(d0, c.k) THEN Done(d0, <<>>)
     ELSE IF hashTypeExists(d[c.k], f) THEN Done(d, <<>>)
     ELSE Done([d EXCEPT ![c.k] = hashTypeSet(hashTypeTryConversion(@, c.vs), f, c.vs[1])], <<c>>)

\* HSET and HMSET.
hsetCommand(d0, c) ==
  LET d == hashTypeLookupWriteOrCreate(d0, c.k)
      set(o, i) == hashTypeSet(o, c.fs[i], c.vs[i])
  IN IF WrongType(d0, c.k) THEN Done(d0, <<>>)
     ELSE Done([d EXCEPT ![c.k] = FoldLeft(set, hashTypeTryConversion(@, c.vs), [i \in 1..Len(c.fs) |-> i])], <<c>>)

\* HINCRBY by one: not a text, nor beyond the largest number.
hincrbyCommand(d0, c) ==
  LET d == hashTypeLookupWriteOrCreate(d0, c.k)
      f == c.fs[1]
      v == IF hashTypeExists(d[c.k], f) THEN d[c.k].h[f] ELSE 0
  IN IF WrongType(d0, c.k) THEN Done(d0, <<>>)
     ELSE IF v = Text \/ v = MaxVal THEN Done(d, <<>>)
     ELSE Done([d EXCEPT ![c.k] = hashTypeSet(@, f, v + 1)], <<c>>)

\* HINCRBYFLOAT: r is what the floating point of this machine makes of it.
\* The result is propagated, as HSET.
hincrbyfloatCommand(d0, c, r) ==
  LET d == hashTypeLookupWriteOrCreate(d0, c.k)
      f == c.fs[1]
      v == IF hashTypeExists(d[c.k], f) THEN d[c.k].h[f] ELSE 0
      n == v + c.vs[1] + r
  IN IF WrongType(d0, c.k) THEN Done(d0, <<>>)
     ELSE IF v = Text \/ n > MaxVal THEN Done(d, <<>>)
     ELSE Done([d EXCEPT ![c.k] = hashTypeSet(@, f, n)], <<Cmd("hset", c.k, c.fs, <<n>>)>>)

hdelCommand(d, c) ==
  LET n == FoldLeft(hashTypeDelete, d[c.k], c.fs)
  IN IF d[c.k].type # "hash" \/ n = d[c.k] THEN Done(d, <<>>)
     ELSE Done([d EXCEPT ![c.k] = IF hashTypeLength(n) = 0 THEN NoKey ELSE n], <<c>>)

\* COPY: the same encoding.
hashTypeDup(d, c) ==
  IF d[c.k] = NoKey \/ \A k \in Keys : d[k] # NoKey THEN Done(d, <<>>)
  ELSE Done([d EXCEPT ![CHOOSE k \in Keys : d[k] = NoKey] = d[c.k]], <<c>>)

delCommand(d, c) == IF d[c.k] = NoKey THEN Done(d, <<>>) ELSE Done([d EXCEPT ![c.k] = NoKey], <<c>>)

call(d, c, r) ==
  CASE c.op = "hset" -> hsetCommand(d, c)
    [] c.op = "hsetnx" -> hsetnxCommand(d, c)
    [] c.op = "hincrby" -> hincrbyCommand(d, c)
    [] c.op = "hincrbyfloat" -> hincrbyfloatCommand(d, c, r)
    [] c.op = "hdel" -> hdelCommand(d, c)
    [] c.op = "copy" -> hashTypeDup(d, c)
    [] c.op = "del" -> delCommand(d, c)

-----------------------------------------------------------------------------
(* Master and replica.                                                     *)

Pairs == [1..1 -> Fields] \cup {t \in [1..2 -> Fields] : t[1] # t[2]}

Requests ==
  LET V == {0, Long, Text}
  IN UNION {{c \in
       CASE op = "hset" -> UNION {{Cmd(op, k, fs, vs) : vs \in [1..Len(fs) -> V]} : k \in Keys, fs \in Pairs}
         [] op = "hsetnx" -> {Cmd(op, k, <<f>>, <<v>>) : k \in Keys, f \in Fields, v \in V}
         [] op = "hincrby" -> {Cmd(op, k, <<f>>, <<1>>) : k \in Keys, f \in Fields}
         [] op = "hincrbyfloat" -> {Cmd(op, k, <<f>>, <<v>>) : k \in Keys, f \in Fields,
                                                              v \in {1} \cup (IF Infinite THEN {Inf} ELSE {})}
         [] op = "hdel" -> {Cmd(op, k, fs, <<>>) : k \in Keys, fs \in Pairs}
         [] OTHER -> {Cmd(op, k, <<>>, <<>>) : k \in Keys} : TRUE} : op \in Ops}

clientCommand(c) ==
  /\ commands < MaxCommands
  /\ \E r \in {0, 1} : /\ db' = call(db, c, r).db
                       /\ stream' = stream \o call(db, c, r).prop
  /\ commands' = commands + 1
  /\ UNCHANGED rdb

replicate ==
  /\ stream # <<>>
  /\ \E r \in {0, 1} : rdb' = call(rdb, Head(stream), r).db
  /\ stream' = Tail(stream)
  /\ UNCHANGED <<db, commands>>

Next == (\E c \in Requests : clientCommand(c)) \/ replicate

Spec == Init /\ [][Next]_vars

-----------------------------------------------------------------------------
\* A hash has a field as long as it is in the database; RDB files treat an
\* empty one as the trace of a bug of the past ("we used to have bug that
\* could lead to empty keys").
NoEmptyHash == \A d \in {db, rdb}, k \in Keys : d[k].type = "hash" <=> hashTypeLength(d[k]) > 0

\* A listpack has no more entries, and no longer ones, than it may, however
\* they got there ("Check if the field is too long for listpack").
EncodingFits ==
  \A d \in {db, rdb}, k \in Keys :
    d[k].enc = "listpack" =>
      hashTypeLength(d[k]) <= MaxEntries /\ \A f \in Fields : ~TooLong(d[k].h[f])

\* With everything run the replica has the same hashes, encoding included,
\* whatever its own floating point would make of them.
Converges == stream = <<>> => rdb = db

=============================================================================
