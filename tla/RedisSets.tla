----------------------------- MODULE RedisSets -----------------------------
(***************************************************************************)
(* Sets in Redis 7.0.0 (t_set.c): the commands that change them, their two *)
(* encodings, and what is propagated to a replica, which runs it later.    *)
(* An element is a number (Ints) or not; a set of numbers is an intset     *)
(* until it has more than MaxIntset of them.  A command is an operator     *)
(* from a dataset to the next one and to what it propagates.               *)
(***************************************************************************)
EXTENDS Integers, Sequences, FiniteSets, SequencesExt

CONSTANTS Keys,
          Elems,        \* elements
          Ints,         \* the ones that are numbers
          Ops,          \* the commands that clients send
          MaxIntset,    \* set-max-intset-entries
          MoveStrategy, \* SPOP_MOVE_STRATEGY_MUL
          MaxCommands   \* bound: commands sent

SetsAssumption == Ints \subseteq Elems /\ MaxIntset \in Nat /\ MoveStrategy \in Nat

VARIABLES db,       \* the master's keys
          rdb,      \* the replica's
          stream,   \* commands the replica did not run yet
          commands

vars == <<db, rdb, stream, commands>>

NoKey == [type |-> "none", enc |-> "", s |-> {}]
String == [type |-> "string", enc |-> "", s |-> {}]
SetObject(enc, s) == [type |-> "set", enc |-> enc, s |-> s]

Init ==
  /\ db \in [Keys -> {NoKey, String}] /\ rdb = db
  /\ stream = <<>> /\ commands = 0

-----------------------------------------------------------------------------
(* The objects.                                                            *)

setTypeConvert(o) == SetObject("ht", o.s)

setTypeCreate(e) == SetObject(IF e \in Ints THEN "intset" ELSE "ht", {})

\* An intset is converted by the first element that does not fit.
setTypeAdd(o, e) ==
  IF o.enc = "intset" /\ (e \notin Ints \/ Cardinality(o.s \cup {e}) > MaxIntset)
  THEN [setTypeConvert(o) EXCEPT !.s = @ \cup {e}]
  ELSE [o EXCEPT !.s = @ \cup {e}]

setTypeRemove(o, e) == [o EXCEPT !.s = @ \ {e}]

\* An intset has only numbers.
setTypeIsMember(o, e) == (o.enc = "intset" => e \in Ints) /\ e \in o.s

AddAll(o, es) == FoldLeft(setTypeAdd, o, es)

\* The order in which the elements of a set are visited.
setTypeNext(o) == SetToSeq(o.s)

\* The key goes with its last element.
Store(d, k, o) == [d EXCEPT ![k] = IF o.s = {} THEN NoKey ELSE o]

checkType(d, k) == d[k].type \in {"none", "set"}

-----------------------------------------------------------------------------
(* SINTER, SUNION and SDIFF of the keys ks.                                *)

Sizes(d, ks) == SortSeq(ks, LAMBDA a, b : Cardinality(d[a].s) < Cardinality(d[b].s))

\* The elements of the smallest set that are in all the others.
sinterGenericCommand(d, ks) ==
  LET sets == Sizes(d, ks)
  IN IF \E i \in 1..Len(ks) : d[ks[i]].type = "none" THEN SetObject("intset", {})
     ELSE AddAll(SetObject("intset", {}),
            SelectSeq(setTypeNext(d[sets[1]]),
                      LAMBDA e : \A j \in 2..Len(sets) : sets[j] = sets[1] \/ setTypeIsMember(d[sets[j]], e)))

sunion(d, ks) ==
  FoldLeft(LAMBDA o, k : AddAll(o, setTypeNext(d[k])), SetObject("intset", {}), ks)

\* Half the work of looking everything up against the work of removing.
diff_algo(d, ks) ==
  LET there == SelectSeq(ks, LAMBDA k : d[k].type # "none")
      one   == Len(there) * Cardinality(d[ks[1]].s)
      two   == FoldLeft(LAMBDA n, k : n + Cardinality(d[k].s), 0, there)
  IN IF one \div 2 <= two THEN 1 ELSE 2

\* Each element of the first set that no other set has.
sdiffOne(d, ks) ==
  AddAll(SetObject("intset", {}),
    SelectSeq(setTypeNext(d[ks[1]]),
      LAMBDA e : \A j \in 2..Len(ks) : /\ ks[j] # ks[1]
                                       /\ ~(d[ks[j]].type # "none" /\ setTypeIsMember(d[ks[j]], e))))

\* The elements of the first set, then without those of the others.
sdiffTwo(d, ks) ==
  FoldLeft(LAMBDA o, k : FoldLeft(setTypeRemove, o, setTypeNext(d[k])),
           AddAll(SetObject("intset", {}), setTypeNext(d[ks[1]])), Tail(ks))

sdiff(d, ks) ==
  IF d[ks[1]].type = "none" THEN SetObject("intset", {})
  ELSE IF diff_algo(d, ks) = 1 THEN sdiffOne(d, ks) ELSE sdiffTwo(d, ks)

sunionDiffGenericCommand(d, ks, op) == IF op = "sunionstore" THEN sunion(d, ks) ELSE sdiff(d, ks)

-----------------------------------------------------------------------------
(* The commands: the next dataset and what is propagated.                  *)

Done(d, p) == [db |-> d, prop |-> p]
Nothing(d) == Done(d, <<>>)
Cmd(op, ks, es) == [op |-> op, ks |-> ks, es |-> es]

saddCommand(d, c) ==
  LET k == c.ks[1]
      o == IF d[k] = NoKey THEN setTypeCreate(c.es[1]) ELSE d[k]
      n == AddAll(o, c.es)
  IN IF ~checkType(d, k) \/ n.s = o.s THEN Nothing(d) ELSE Done([d EXCEPT ![k] = n], <<c>>)

sremCommand(d, c) ==
  LET k == c.ks[1]
      n == FoldLeft(setTypeRemove, d[k], c.es)
  IN IF d[k].type # "set" \/ n.s = d[k].s THEN Nothing(d) ELSE Done(Store(d, k, n), <<c>>)

smoveCommand(d, c) ==
  LET src == c.ks[1]
      dst == c.ks[2]
      e   == c.es[1]
      o   == IF d[dst] = NoKey THEN setTypeCreate(e) ELSE d[dst]
  IN IF d[src].type # "set" \/ ~checkType(d, dst) \/ src = dst \/ ~setTypeIsMember(d[src], e)
     THEN Nothing(d)
     ELSE Done([Store(d, src, setTypeRemove(d[src], e)) EXCEPT ![dst] = setTypeAdd(o, e)], <<c>>)

\* SPOP: of the random elements es the first, as an SREM.
spopCommand(d, c, es) ==
  LET k == c.ks[1]
  IN IF d[k].type # "set" THEN Nothing(d)
     ELSE Done(Store(d, k, setTypeRemove(d[k], es[1])), <<Cmd("srem", <<k>>, <<es[1]>>)>>)

\* Few elements stay: they make a new set, and the old one is the answer.
spopMove(d, k, es, left) ==
  Done([d EXCEPT ![k] = AddAll(setTypeCreate(left[1]), left)],
       [i \in 1..Len(es) |-> Cmd("srem", <<k>>, <<es[i]>>)])

\* SPOP key count: all of them as a DEL, some as one SREM each.
spopWithCountCommand(d, c, es) ==
  LET k == c.ks[1]
      size == Cardinality(d[k].s)
      count == Len(es)
      left == SetToSeq(d[k].s \ Range(es))
  IN IF d[k].type # "set" \/ count = 0 THEN Nothing(d)
     ELSE IF count >= size THEN Done([d EXCEPT ![k] = NoKey], <<Cmd("del", <<k>>, <<>>)>>)
     ELSE IF (size - count) * MoveStrategy > count
          THEN Done([d EXCEPT ![k] = FoldLeft(setTypeRemove, @, es)],
                    [i \in 1..count |-> Cmd("srem", <<k>>, <<es[i]>>)])
          ELSE spopMove(d, k, es, left)

\* SINTERSTORE, SUNIONSTORE, SDIFFSTORE dst key key...: dst goes when the
\* result is empty, whatever it was.
storeCommand(d, c) ==
  LET dst == c.ks[1]
      ks  == Tail(c.ks)
      o   == IF c.op = "sinterstore" THEN sinterGenericCommand(d, ks)
             ELSE sunionDiffGenericCommand(d, ks, c.op)
  IN IF \E i \in 1..Len(ks) : ~checkType(d, ks[i]) THEN Nothing(d)
     ELSE IF o.s = {} /\ d[dst] = NoKey THEN Nothing(d)
     ELSE Done(Store(d, dst, o), <<c>>)

delCommand(d, c) == IF d[c.ks[1]] = NoKey THEN Nothing(d) ELSE Done([d EXCEPT ![c.ks[1]] = NoKey], <<c>>)

\* COPY: the same encoding.
setTypeDup(d, c) ==
  IF d[c.ks[1]] = NoKey \/ c.ks[1] = c.ks[2] \/ d[c.ks[2]] # NoKey THEN Nothing(d)
  ELSE Done([d EXCEPT ![c.ks[2]] = d[c.ks[1]]], <<c>>)

\* es are the elements that setTypeRandomElement finds, one after the other.
call(d, c, es) ==
  CASE c.op = "sadd" -> saddCommand(d, c)
    [] c.op = "srem" -> sremCommand(d, c)
    [] c.op = "smove" -> smoveCommand(d, c)
    [] c.op = "spop" -> spopCommand(d, c, es)
    [] c.op = "spopcount" -> spopWithCountCommand(d, c, es)
    [] c.op = "del" -> delCommand(d, c)
    [] c.op = "copy" -> setTypeDup(d, c)
    [] OTHER -> storeCommand(d, c)

-----------------------------------------------------------------------------
(* Master and replica.                                                     *)

Distinct(S, n) == {t \in [1..n -> S] : \A i, j \in 1..n : i # j => t[i] # t[j]}

\* What random elements a command may find.
setTypeRandomElement(d, c) ==
  LET s == d[c.ks[1]].s
  IN CASE c.op = "spop" -> IF s = {} THEN {<<>>} ELSE Distinct(s, 1)
       [] c.op = "spopcount" -> UNION {Distinct(s, n) : n \in 0..Cardinality(s)}
       [] OTHER -> {<<>>}

Requests ==
  LET One(op) == {Cmd(op, <<k>>, <<>>) : k \in Keys}
      Two(op, E) == {Cmd(op, <<k, l>>, es) : k, l \in Keys, es \in E}
  IN UNION {{c \in
       CASE op \in {"sadd", "srem"} -> {Cmd(op, <<k>>, es) : k \in Keys, es \in Distinct(Elems, 1) \cup Distinct(Elems, 2)}
         [] op = "smove" -> Two(op, Distinct(Elems, 1))
         [] op = "copy" -> Two(op, {<<>>})
         [] op \in {"sinterstore", "sunionstore", "sdiffstore"} -> {Cmd(op, ks, <<>>) : ks \in [1..3 -> Keys]}
         [] OTHER -> One(op) : TRUE} : op \in Ops}

clientCommand(c) ==
  /\ commands < MaxCommands
  /\ \E es \in setTypeRandomElement(db, c) :
       /\ db' = call(db, c, es).db
       /\ stream' = stream \o call(db, c, es).prop
  /\ commands' = commands + 1
  /\ UNCHANGED rdb

\* The replica, for which chance may turn out otherwise.
replicate ==
  /\ stream # <<>>
  /\ \E es \in setTypeRandomElement(rdb, Head(stream)) : rdb' = call(rdb, Head(stream), es).db
  /\ stream' = Tail(stream)
  /\ UNCHANGED <<db, commands>>

Next == (\E c \in Requests : clientCommand(c)) \/ replicate

Spec == Init /\ [][Next]_vars

-----------------------------------------------------------------------------
\* The types; and a key goes with the last element of its set ("Remove the
\* src set from the database when empty").
TypeOK ==
  \A d \in {db, rdb}, k \in Keys :
    /\ d[k].type \in {"none", "set", "string"} /\ d[k].s \subseteq Elems
    /\ d[k].type = "set" <=> d[k].s # {}

\* An intset holds numbers only, and no more than it may, however it came
\* about.
EncodingFits ==
  \A d \in {db, rdb}, k \in Keys :
    d[k].enc = "intset" => d[k].s \subseteq Ints /\ Cardinality(d[k].s) <= MaxIntset

\* With everything run the replica has the same sets, although it makes its
\* own random choices.
Converges == stream = <<>> => \A k \in Keys : rdb[k].type = db[k].type /\ rdb[k].s = db[k].s

\* The algorithms for SINTER and SDIFF, chosen by size and encoding, compute
\* what the operations mean, the same key given twice included.
SetAlgebra ==
  \A ks \in [1..2 -> Keys] \cup [1..3 -> Keys] :
    (\A i \in DOMAIN ks : checkType(db, ks[i])) =>
      /\ sinterGenericCommand(db, ks).s = {e \in Elems : \A i \in DOMAIN ks : e \in db[ks[i]].s}
      /\ sdiff(db, ks).s = {e \in db[ks[1]].s : \A i \in 2..Len(ks) : e \notin db[ks[i]].s}
      /\ db[ks[1]].type = "set" => sdiffOne(db, ks).s = sdiffTwo(db, ks).s

=============================================================================
