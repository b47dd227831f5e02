---------------------- MODULE RedisSlotMigrationProofs ----------------------
(***************************************************************************)
(* Proofs about RedisSlotMigration, for any keys and any bounds.           *)
(*                                                                         *)
(* Nothing is assumed of the connections of MIGRATE: they may time out,    *)
(* break before, between or after the answers, and what was sent over them *)
(* may be run later.  A key is in doubt once a connection was lost before  *)
(* Dst answered for it.  Of the others, whoever serves has the last value; *)
(* of all of them, what Src has is the last value and no value is lost, if *)
(* commands have one key each (and, for the second, nothing is run late).  *)
(***************************************************************************)
EXTENDS RedisSlotMigration, TLAPS, FiniteSetTheorems

\* A sequence of the elements of a finite set has each of them once.
LEMMA SeqOfSet ==
  ASSUME NEW S, IsFiniteSet(S)
  PROVE  /\ SetToSeq(S) \in Seq(S)
         /\ \A i, j \in 1..Len(SetToSeq(S)) : SetToSeq(S)[i] = SetToSeq(S)[j] => i = j
         /\ \A x \in S : \E i \in 1..Len(SetToSeq(S)) : SetToSeq(S)[i] = x
<1> DEFINE n == Cardinality(S)
<1>1. n \in Nat /\ ExistsBijection(1..n, S)
  BY FS_CardinalityType
<1>2. PICK b : b \in Bijection(1..n, S)
  BY <1>1 DEF ExistsBijection
<1>3. b \in [1..n -> S] /\ IsInjective(b)
  BY <1>2 DEF Bijection, Injection, IsInjective
<1>4. SetToSeq(S) \in [1..n -> S] /\ IsInjective(SetToSeq(S))
  BY <1>3 DEF SetToSeq
<1> DEFINE s == SetToSeq(S)
<1> HIDE DEF n, s
<1>5. s \in [1..n -> S] /\ IsInjective(s)
  BY <1>4 DEF s, n
<1>6. s \in Seq(S) /\ Len(s) = n
  BY <1>1, <1>5
<1>7. s \in Injection(1..n, S)
  BY <1>5 DEF Injection, IsInjective
<1>8. ASSUME NEW x \in S PROVE \E i \in 1..n : s[i] = x
  <2>1. IsFiniteSet(1..n) /\ Cardinality(1..n) = n
    BY <1>1, FS_Interval
  <2>2. s \in Surjection(1..n, S)
    BY <1>7, <2>1, FS_Injection DEF n
  <2> QED BY <2>2 DEF Surjection
<1> QED
  BY <1>5, <1>6, <1>8 DEF s, IsInjective

\* The first element of a sequence, and the others.
LEMMA FirstAndRest ==
  ASSUME NEW S, NEW s \in Seq(S), s # <<>>
  PROVE  /\ Head(s) \in S /\ Head(s) = s[1]
         /\ Tail(s) \in Seq(S) /\ Len(Tail(s)) = Len(s) - 1
         /\ \A i \in 1..(Len(s) - 1) : Tail(s)[i] = s[i + 1]
OBVIOUS

-----------------------------------------------------------------------------
(* What a node answers.                                                    *)

\* A node that serves owns the slot, and has all the keys while it gives
\* them away.
LEMMA ServesOwner ==
  ASSUME MigrationAssumption, NEW n \in Nodes, NEW K, getNodeByQuery(n, K, FALSE) = "serve"
  PROVE  /\ owner[n] = n
         /\ n = Src /\ migrating => \A k \in K : db[Src][k] # Absent
BY DEF MigrationAssumption, getNodeByQuery, Missing, Nodes

\* A client is sent to Dst for a key that Src does not have.
LEMMA AskedMissing ==
  ASSUME MigrationAssumption, NEW n \in Nodes, NEW K, getNodeByQuery(n, K, FALSE) = "ask"
  PROVE  n = Src /\ owner[Src] = Src /\ migrating /\ \E k \in K : db[Src][k] = Absent
BY DEF MigrationAssumption, getNodeByQuery, Missing, Nodes

\* Dst serves a client that was sent to it when it has all the keys or is
\* asked for one.
LEMMA ServesAsking ==
  ASSUME MigrationAssumption, NEW K, getNodeByQuery(Dst, K, TRUE) = "serve"
  PROVE  /\ importing \/ owner[Dst] = Dst
         /\ importing /\ Cardinality(K) > 1 => \A k \in K : db[Dst][k] # Absent
BY DEF MigrationAssumption, getNodeByQuery, Missing

\* Dst serves any one key as long as it takes over the slot or has it.
LEMMA ServesOne ==
  ASSUME MigrationAssumption, NEW k, importing \/ owner[Dst] = Dst
  PROVE  getNodeByQuery(Dst, {k}, TRUE) = "serve"
<1>1. Cardinality({k}) = 1
  BY FS_Singleton
<1>2. Dst # Src
  BY DEF MigrationAssumption
<1> QED
  BY <1>1, <1>2 DEF getNodeByQuery

\* What a command does to the keys of a node.
LEMMA Executed ==
  ASSUME TypeOK, MigrationAssumption, NEW n \in Nodes, NEW K \in Args, NEW op \in {"write", "del"},
         Execute(n, K, op)
  PROVE  /\ db' \in [Nodes -> [Keys -> 0..MaxWrites]]
         /\ truth' \in [Keys -> 0..MaxWrites] /\ writes' \in [Keys -> 0..MaxWrites]
         /\ blocked' \subseteq Keys
         /\ \A m \in Nodes : m # n => db'[m] = db[m]
         /\ \A k \in Keys : k \notin K => db'[n][k] = db[n][k] /\ truth'[k] = truth[k]
         /\ \A k \in K : db'[n][k] = truth'[k]
<1>1. K \subseteq Keys /\ MaxWrites \in Nat
  BY DEF Args, MigrationAssumption
<1>2. CASE op = "write"
  <2>1. \A k \in K : writes[k] < MaxWrites
    BY <1>2 DEF Execute
  <2>2. \A k \in K : writes[k] + 1 \in 0..MaxWrites
    BY <1>1, <2>1 DEF TypeOK
  <2>3. /\ writes' = [k \in Keys |-> IF k \in K THEN writes[k] + 1 ELSE writes[k]]
        /\ db' = [db EXCEPT ![n] = [k \in Keys |-> IF k \in K THEN writes[k] + 1 ELSE @[k]]]
        /\ truth' = [k \in Keys |-> IF k \in K THEN writes[k] + 1 ELSE truth[k]]
        /\ blocked' \subseteq blocked
    BY <1>2 DEF Execute
  <2>4. writes' \in [Keys -> 0..MaxWrites] /\ truth' \in [Keys -> 0..MaxWrites] /\ blocked' \subseteq Keys
    BY <1>1, <2>2, <2>3 DEF TypeOK
  <2>5. [k \in Keys |-> IF k \in K THEN writes[k] + 1 ELSE db[n][k]] \in [Keys -> 0..MaxWrites]
    BY <1>1, <2>2 DEF TypeOK
  <2>6. db' \in [Nodes -> [Keys -> 0..MaxWrites]]
    BY <2>3, <2>5 DEF TypeOK
  <2>7. /\ db'[n] = [k \in Keys |-> IF k \in K THEN writes[k] + 1 ELSE db[n][k]]
        /\ \A m \in Nodes : m # n => db'[m] = db[m]
    BY <2>3 DEF TypeOK
  <2> QED
    BY <1>1, <2>3, <2>4, <2>6, <2>7
<1>3. CASE op = "del"
  <2>1. /\ db' = [db EXCEPT ![n] = [k \in Keys |-> IF k \in K THEN Absent ELSE @[k]]]
        /\ truth' = [k \in Keys |-> IF k \in K THEN Absent ELSE truth[k]]
        /\ UNCHANGED <<writes, blocked>>
    BY <1>3 DEF Execute
  <2>2. Absent \in 0..MaxWrites
    BY <1>1 DEF Absent
  <2>3. truth' \in [Keys -> 0..MaxWrites]
    BY <2>1, <2>2 DEF TypeOK
  <2>4. [k \in Keys |-> IF k \in K THEN Absent ELSE db[n][k]] \in [Keys -> 0..MaxWrites]
    BY <2>2 DEF TypeOK
  <2>5. db' \in [Nodes -> [Keys -> 0..MaxWrites]]
    BY <2>1, <2>4 DEF TypeOK
  <2>6. /\ db'[n] = [k \in Keys |-> IF k \in K THEN Absent ELSE db[n][k]]
        /\ \A m \in Nodes : m # n => db'[m] = db[m]
    BY <2>1 DEF TypeOK
  <2> QED
    BY <1>1, <2>1, <2>3, <2>5, <2>6 DEF TypeOK
<1> QED
  BY <1>2, <1>3

-----------------------------------------------------------------------------
(* Types, and what is on the way of a MIGRATE.                             *)

\* The keys Dst has not answered for yet, by their place in the command.
Unanswered == (Len(mig.replies) + 1)..Len(mig.keys)

Sent(i, d) == [pos |-> i + d, key |-> mig.keys[i], val |-> db[Src][mig.keys[i]],
               replace |-> mig.replace, conn |-> mig.conn]

\* A MIGRATE is about different keys that Src has, and the RESTOREs on its
\* connection are those it has no answer for.
MigInv ==
  /\ \A r \in wire : r.conn <= mig.conn
  /\ mig.on =>
       /\ \A i \in 1..Len(mig.keys) : db[Src][mig.keys[i]] # Absent
       /\ \A i, j \in 1..Len(mig.keys) : mig.keys[i] = mig.keys[j] => i = j
       /\ \E d \in Nat : {r \in wire : r.conn = mig.conn} = {Sent(i, d) : i \in Unanswered}

\* Nothing of it is touched by a step of somebody else.
LEMMA MigFrame ==
  ASSUME MigInv, UNCHANGED <<mig, wire>>, mig.on => db'[Src] = db[Src]
  PROVE  MigInv'
<1>1. CASE mig.on
  <2>1. \A i, d : Sent(i, d)' = Sent(i, d)
    BY <1>1 DEF Sent
  <2>2. Unanswered' = Unanswered
    BY DEF Unanswered
  <2> QED BY <1>1, <2>1, <2>2 DEF MigInv
<1>2. CASE ~mig.on
  BY <1>2 DEF MigInv
<1> QED BY <1>1, <1>2

\* A new batch on a new connection, whatever became of the old one.
LEMMA NewBatch ==
  ASSUME TypeOK, MigInv, MigrationAssumption, UNCHANGED db,
         NEW ks \in Seq(Keys), NEW replace \in BOOLEAN,
         \A i \in 1..Len(ks) : db[Src][ks[i]] # Absent,
         \A i, j \in 1..Len(ks) : ks[i] = ks[j] => i = j,
         mig' \in Migrate, mig'.keys = ks, mig'.replies = <<>>, mig'.replace = replace,
         mig'.conn = mig.conn + 1,
         NEW W \in SUBSET wire, wire' = W \cup SendKeys(ks, replace, mig.conn + 1)
  PROVE  MigInv' /\ wire' \subseteq Restore
<1>1. mig.conn \in Nat /\ wire \subseteq Restore
  BY DEF TypeOK, Migrate
<1>2. \A r \in W : r.conn \in Nat /\ r.conn < mig.conn + 1
  BY <1>1 DEF MigInv, Restore
<1>3. Len(ks) \in Nat /\ Src \in Nodes /\ db[Src] \in [Keys -> 0..MaxWrites]
  BY DEF TypeOK, Nodes
<1>4. \A i \in 1..Len(ks) : ks[i] \in Keys /\ db[Src][ks[i]] \in 0..MaxWrites
  BY <1>3
<1>5. SendKeys(ks, replace, mig.conn + 1) \subseteq Restore
  BY <1>1, <1>3, <1>4 DEF SendKeys, Restore
<1>6. \A r \in SendKeys(ks, replace, mig.conn + 1) : r.conn = mig.conn + 1
  BY DEF SendKeys
<1>7. \A r \in wire' : r.conn <= mig'.conn
  BY <1>1, <1>2, <1>6
<1>8. {r \in wire' : r.conn = mig'.conn} = SendKeys(ks, replace, mig.conn + 1)
  BY <1>1, <1>2, <1>6
<1>9. Unanswered' = 1..Len(ks)
  BY <1>3 DEF Unanswered
<1>10. \A i \in 1..Len(ks) :
         Sent(i, 0)' = [pos |-> i, key |-> ks[i], val |-> db[Src][ks[i]], replace |-> replace, conn |-> mig.conn + 1]
  BY <1>3 DEF Sent
<1>11. SendKeys(ks, replace, mig.conn + 1) = {Sent(i, 0)' : i \in 1..Len(ks)}
  BY <1>10 DEF SendKeys
<1>12. {r \in wire' : r.conn = mig'.conn} = {Sent(i, 0)' : i \in Unanswered'}
  BY <1>8, <1>9, <1>11
<1>13. \E d \in Nat : {r \in wire' : r.conn = mig'.conn} = {Sent(i, d)' : i \in Unanswered'}
  BY <1>12
<1>14. MigInv'
  BY <1>3, <1>4, <1>7, <1>13 DEF MigInv
<1> QED
  BY <1>1, <1>5, <1>14

\* The first RESTORE on the connection is for the first key without answer.
LEMMA FirstOnWire ==
  ASSUME TypeOK, MigInv, mig.on, NEW r \in wire, r.conn = mig.conn,
         \A q \in wire : q.conn = r.conn => q.pos >= r.pos
  PROVE  \E d \in Nat : /\ {q \in wire : q.conn = mig.conn} = {Sent(i, d) : i \in Unanswered}
                        /\ Len(mig.replies) < Len(mig.keys)
                        /\ r = Sent(Len(mig.replies) + 1, d)
<1>1. PICK d \in Nat : {q \in wire : q.conn = mig.conn} = {Sent(i, d) : i \in Unanswered}
  BY DEF MigInv
<1>2. Len(mig.replies) \in Nat /\ Len(mig.keys) \in Nat
  BY DEF TypeOK, Migrate
<1>3. PICK i \in Unanswered : r = Sent(i, d)
  BY <1>1
<1>4. i \in Nat /\ Len(mig.replies) + 1 <= i /\ i <= Len(mig.keys)
  BY <1>2, <1>3 DEF Unanswered
<1>5. Len(mig.replies) + 1 \in Unanswered
  BY <1>2, <1>4 DEF Unanswered
<1>6. Sent(Len(mig.replies) + 1, d) \in {q \in wire : q.conn = mig.conn}
  BY <1>1, <1>5
<1>7. Sent(Len(mig.replies) + 1, d).pos >= r.pos
  BY <1>6
<1>8. Len(mig.replies) + 1 + d >= i + d
  BY <1>3, <1>7 DEF Sent
<1>9. i = Len(mig.replies) + 1
  BY <1>2, <1>4, <1>8
<1> QED
  BY <1>1, <1>2, <1>3, <1>4, <1>9

\* Dst answers it.
LEMMA AnsweredMig ==
  ASSUME TypeOK, MigInv, MigrationAssumption, NEW r \in wire, restore(r)
  PROVE  MigInv' /\ mig' \in Migrate /\ Len(mig'.replies) <= Len(mig'.keys)
<1> DEFINE a == restoreCommand(r)
<1>1. a \in Answer
  <2>1. r.replace \in BOOLEAN
    BY DEF TypeOK, Restore
  <2> QED BY <2>1, Zenon DEF restoreCommand, Answer
<1> HIDE DEF a
<1>2. wire' = wire \ {r} /\ db'[Src] = db[Src]
  BY DEF restore, TypeOK, MigrationAssumption, Nodes
<1>3. mig' = IF mig.on /\ r.conn = mig.conn THEN [mig EXCEPT !.replies = Append(@, a)] ELSE mig
  BY DEF restore, a
<1>4. CASE ~(mig.on /\ r.conn = mig.conn)
  <2>1. mig' = mig
    BY <1>3, <1>4
  <2>2. mig.on => {q \in wire' : q.conn = mig'.conn} = {q \in wire : q.conn = mig.conn}
    BY <1>2, <1>4, <2>1
  <2>3. /\ \A i, d : Sent(i, d)' = Sent(i, d)
        /\ Unanswered' = Unanswered
    BY <1>2, <2>1 DEF Sent, Unanswered
  <2>4. MigInv'
    BY <1>2, <2>1, <2>2, <2>3 DEF MigInv
  <2> QED BY <2>1, <2>4 DEF TypeOK
<1>5. CASE mig.on /\ r.conn = mig.conn
  <2>1. PICK d \in Nat : /\ {q \in wire : q.conn = mig.conn} = {Sent(i, d) : i \in Unanswered}
                         /\ Len(mig.replies) < Len(mig.keys)
                         /\ r = Sent(Len(mig.replies) + 1, d)
    BY <1>5, FirstOnWire DEF restore
  <2>2. mig' = [mig EXCEPT !.replies = Append(@, a)]
    BY <1>3, <1>5
  <2>3. mig \in Migrate /\ Len(mig.keys) \in Nat /\ Len(mig.replies) \in Nat
    BY DEF TypeOK, Migrate
  <2>4. Append(mig.replies, a) \in Seq(Answer) /\ Len(Append(mig.replies, a)) = Len(mig.replies) + 1
    BY <1>1, <2>3 DEF Migrate
  <2>5. /\ mig' \in Migrate /\ mig'.on = mig.on /\ mig'.keys = mig.keys /\ mig'.replace = mig.replace
        /\ mig'.conn = mig.conn /\ mig'.replies = Append(mig.replies, a)
    BY <2>2, <2>3, <2>4 DEF Migrate
  <2>6. \A i : Sent(i, d)' = Sent(i, d)
    BY <1>2, <2>5 DEF Sent
  <2>7. Unanswered' = Unanswered \ {Len(mig.replies) + 1}
    BY <2>3, <2>4, <2>5 DEF Unanswered
  <2>8. \A i \in Unanswered : Sent(i, d) = r => i = Len(mig.replies) + 1
    BY <2>1, <2>3 DEF Sent, Unanswered
  <2>9. {q \in wire' : q.conn = mig'.conn} = {Sent(i, d) : i \in Unanswered \ {Len(mig.replies) + 1}}
    BY <1>2, <2>1, <2>5, <2>8
  <2>10. {q \in wire' : q.conn = mig'.conn} = {Sent(i, d)' : i \in Unanswered'}
    BY <2>6, <2>7, <2>9
  <2>11. MigInv'
    BY <1>2, <2>5, <2>10 DEF MigInv
  <2> QED
    BY <2>1, <2>3, <2>4, <2>5, <2>11
<1> QED
  BY <1>4, <1>5

\* Src reads an answer.
LEMMA ReadMig ==
  ASSUME TypeOK, MigInv, MigrationAssumption, readReply
  PROVE  /\ MigInv' /\ mig' \in Migrate /\ Len(mig'.replies) <= Len(mig'.keys)
         /\ db' \in [Nodes -> [Keys -> 0..MaxWrites]]
<1>1. /\ mig.on /\ mig.replies # <<>> /\ UNCHANGED wire
      /\ db' = IF Acknowledged(Head(mig.replies)) THEN [db EXCEPT ![Src][Head(mig.keys)] = Absent] ELSE db
      /\ mig' = [mig EXCEPT !.keys = Tail(@), !.replies = Tail(@), !.first = FALSE,
                            !.err = FirstError(Head(mig.replies)), !.on = Len(mig.keys) > 1]
  BY DEF readReply
<1>2. /\ mig.keys \in Seq(Keys) /\ mig.replies \in Seq(Answer)
      /\ Len(mig.replies) <= Len(mig.keys) /\ mig.err \in {"none", "busy", "error"}
  BY DEF TypeOK, Migrate
<1>3. /\ Len(mig.replies) \in Nat /\ Len(mig.keys) \in Nat
      /\ Len(mig.replies) >= 1 /\ Len(mig.keys) >= 1 /\ mig.keys # <<>>
  BY <1>1, <1>2
<1>4. /\ Head(mig.replies) \in Answer /\ Head(mig.keys) \in Keys
      /\ Head(mig.keys) = mig.keys[1]
  BY <1>1, <1>2, <1>3, FirstAndRest
<1>5. /\ Tail(mig.keys) \in Seq(Keys) /\ Tail(mig.replies) \in Seq(Answer)
      /\ Len(Tail(mig.keys)) = Len(mig.keys) - 1 /\ Len(Tail(mig.replies)) = Len(mig.replies) - 1
      /\ \A i \in 1..(Len(mig.keys) - 1) : Tail(mig.keys)[i] = mig.keys[i + 1]
  BY <1>1, <1>2, <1>3, FirstAndRest
<1>6. FirstError(Head(mig.replies)) \in {"none", "busy", "error"} /\ (Len(mig.keys) > 1) \in BOOLEAN
  BY <1>2 DEF FirstError
<1>7. /\ mig' \in Migrate /\ mig'.keys = Tail(mig.keys) /\ mig'.replies = Tail(mig.replies)
      /\ mig'.replace = mig.replace /\ mig'.conn = mig.conn
  BY <1>1, <1>5, <1>6 DEF TypeOK, Migrate
<1>8. /\ db' \in [Nodes -> [Keys -> 0..MaxWrites]]
      /\ \A k \in Keys : k # mig.keys[1] => db'[Src][k] = db[Src][k]
  <2>1. Absent \in 0..MaxWrites /\ Src \in Nodes
    BY DEF Absent, MigrationAssumption, Nodes
  <2> QED BY <1>1, <1>4, <2>1 DEF TypeOK
<1>9. \A i \in 1..(Len(mig.keys) - 1) :
        /\ mig'.keys[i] = mig.keys[i + 1] /\ mig.keys[i + 1] \in Keys
        /\ db'[Src][mig'.keys[i]] = db[Src][mig.keys[i + 1]]
  <2> SUFFICES ASSUME NEW i \in 1..(Len(mig.keys) - 1)
               PROVE  /\ mig'.keys[i] = mig.keys[i + 1] /\ mig.keys[i + 1] \in Keys
                      /\ db'[Src][mig'.keys[i]] = db[Src][mig.keys[i + 1]]
    OBVIOUS
  <2>1. i + 1 \in 1..Len(mig.keys) /\ i + 1 # 1 /\ 1 \in 1..Len(mig.keys)
    BY <1>3
  <2>2. mig'.keys[i] = mig.keys[i + 1] /\ mig.keys[i + 1] \in Keys
    BY <1>2, <1>5, <1>7, <2>1
  <2>3. mig.keys[i + 1] # mig.keys[1]
    BY <1>1, <2>1 DEF MigInv
  <2> QED BY <1>8, <2>2, <2>3
<1>10. PICK d \in Nat : {r \in wire : r.conn = mig.conn} = {Sent(i, d) : i \in Unanswered}
  BY <1>1 DEF MigInv
<1>11. Unanswered' = Len(mig.replies)..(Len(mig.keys) - 1)
  BY <1>3, <1>5, <1>7 DEF Unanswered
<1>12. \A i \in Unanswered' : i + 1 \in Unanswered /\ Sent(i, d + 1)' = Sent(i + 1, d)
  <2> SUFFICES ASSUME NEW i \in Unanswered'
               PROVE  i + 1 \in Unanswered /\ Sent(i, d + 1)' = Sent(i + 1, d)
    OBVIOUS
  <2>1. i \in 1..(Len(mig.keys) - 1) /\ i + 1 \in Unanswered /\ i + (d + 1) = (i + 1) + d
    BY <1>3, <1>11 DEF Unanswered
  <2> QED BY <1>7, <1>9, <2>1 DEF Sent
<1>13. \A j \in Unanswered : j - 1 \in Unanswered' /\ Sent(j, d) = Sent(j - 1, d + 1)'
  <2> SUFFICES ASSUME NEW j \in Unanswered
               PROVE  j - 1 \in Unanswered' /\ Sent(j, d) = Sent(j - 1, d + 1)'
    OBVIOUS
  <2>1. j \in Int /\ j - 1 \in Unanswered' /\ (j - 1) + 1 = j
    BY <1>3, <1>11, SMTT(30) DEF Unanswered
  <2> QED BY <1>12, <2>1
<1>14. {Sent(i, d) : i \in Unanswered} = {Sent(i, d + 1)' : i \in Unanswered'}
  BY <1>12, <1>13
<1>15. \E e \in Nat : {r \in wire' : r.conn = mig'.conn} = {Sent(i, e)' : i \in Unanswered'}
  <2>1. d + 1 \in Nat
    OBVIOUS
  <2> QED BY <1>1, <1>7, <1>10, <1>14, <2>1
<1>16. \A i \in 1..Len(mig'.keys) : db'[Src][mig'.keys[i]] # Absent
  <2>1. \A i \in 1..(Len(mig.keys) - 1) : i + 1 \in 1..Len(mig.keys)
    BY <1>3
  <2> QED BY <1>1, <1>5, <1>7, <1>9, <2>1 DEF MigInv
<1>17. \A i, j \in 1..Len(mig'.keys) : mig'.keys[i] = mig'.keys[j] => i = j
  <2> SUFFICES ASSUME NEW i \in 1..Len(mig'.keys), NEW j \in 1..Len(mig'.keys), mig'.keys[i] = mig'.keys[j]
               PROVE  i = j
    OBVIOUS
  <2>1. i \in 1..(Len(mig.keys) - 1) /\ j \in 1..(Len(mig.keys) - 1)
    BY <1>5, <1>7
  <2>2. i + 1 \in 1..Len(mig.keys) /\ j + 1 \in 1..Len(mig.keys) /\ mig.keys[i + 1] = mig.keys[j + 1]
    BY <1>3, <1>9, <2>1, SMTT(30)
  <2>3. i + 1 = j + 1
    BY <1>1, <2>2 DEF MigInv
  <2> QED BY <2>1, <2>3
<1>18. \A r \in wire' : r.conn <= mig'.conn
  BY <1>1, <1>7 DEF MigInv
<1>19. MigInv'
  BY <1>15, <1>16, <1>17, <1>18 DEF MigInv
<1>20. Len(mig'.replies) <= Len(mig'.keys)
  BY <1>2, <1>3, <1>5, <1>7
<1> QED
  BY <1>7, <1>8, <1>19, <1>20

\* The slot is open at Src.
Opened == cli \notin {"importing", "migrating"}

NoneAtSrc == \A k \in Keys : db[Src][k] = Absent

\* The keys a MIGRATE is about.
LEMMA KeysToMove ==
  ASSUME MigrationAssumption, TypeOK, NEW left, left = batch \ Missing(Src, Keys)
  PROVE  /\ SetToSeq(left) \in Seq(Keys)
         /\ \A i \in 1..Len(SetToSeq(left)) : db[Src][SetToSeq(left)[i]] # Absent
         /\ \A i, j \in 1..Len(SetToSeq(left)) : SetToSeq(left)[i] = SetToSeq(left)[j] => i = j
<1>1. left \subseteq Keys /\ \A k \in left : db[Src][k] # Absent
  BY DEF Missing, TypeOK
<1>2. IsFiniteSet(left)
  BY <1>1, FS_Subset DEF MigrationAssumption
<1> DEFINE s == SetToSeq(left)
<1>3. /\ s \in Seq(left)
      /\ \A i, j \in 1..Len(s) : s[i] = s[j] => i = j
  BY <1>2, SeqOfSet
<1> HIDE DEF s
<1>4. s \in Seq(Keys) /\ \A i \in 1..Len(s) : s[i] \in left
  BY <1>1, <1>3
<1> QED
  BY <1>1, <1>3, <1>4 DEF s

\* The steps of a command: who runs it, and where clients go.
LEMMA CommandCases ==
  ASSUME TypeOK, MigrationAssumption, NEW n \in Nodes, NEW K \in Args, NEW op \in {"write", "del"},
         command(n, K, op)
  PROVE  /\ ~Stuck(n) /\ UNCHANGED <<slotvars, moving, link>>
         /\ \/ getNodeByQuery(n, K, FALSE) = "serve" /\ Execute(n, K, op) /\ UNCHANGED asking
            \/ /\ getNodeByQuery(n, K, FALSE) = "ask" /\ asking' = asking \cup {[keys |-> K, op |-> op]}
               /\ UNCHANGED <<db, truth, writes, blocked>>
BY DEF command

\* The steps of redis-cli: what they leave alone, and where they lead.
LEMMA CliSteps ==
  ASSUME TypeOK, MigrationAssumption,
         clusterManagerMigrateKeysInSlot \/ migrateReply \/ digestSource \/ clusterManagerCompareKeysValues \/ again
  PROVE  /\ UNCHANGED <<slotvars, db, clients, link>> /\ Opened /\ batch' \subseteq Keys
         /\ digest' \in [Keys -> 0..MaxWrites] /\ runs' \in 1..MaxRuns
         /\ \/ cli' \in {"keys", "migrate", "stopped", "compare", "compareTarget", "replace"}
            \/ cli' = "target" /\ NoneAtSrc
<1>0. Absent \in 0..MaxWrites /\ MaxRuns \in Nat /\ \A k \in Keys : db[Src][k] \in 0..MaxWrites
  <2>1. MaxWrites \in Nat /\ MaxRuns \in Nat /\ Src \in Nodes
    BY DEF MigrationAssumption, Nodes
  <2>2. db[Src] \in [Keys -> 0..MaxWrites]
    BY <2>1 DEF TypeOK
  <2> QED BY <2>1, <2>2 DEF Absent
<1>1. CASE clusterManagerMigrateKeysInSlot
  <2>1. /\ UNCHANGED <<slotvars, db, clients, link>> /\ cli = "keys"
        /\ UNCHANGED <<digest, runs>>
        /\ \/ cli' = "target" /\ Keys \ Missing(Src, Keys) = {} /\ UNCHANGED batch
           \/ cli' = "migrate" /\ batch' \subseteq Keys \ Missing(Src, Keys)
    BY <1>1 DEF clusterManagerMigrateKeysInSlot
  <2>2. Keys \ Missing(Src, Keys) = {} => NoneAtSrc
    BY DEF Missing, NoneAtSrc
  <2> QED BY <2>1, <2>2 DEF Opened, TypeOK
<1>2. CASE migrateReply
  BY <1>2 DEF migrateReply, Opened, TypeOK
<1>3. CASE digestSource
  <2>1. [k \in Keys |-> IF k \in batch THEN db[Src][k] ELSE Absent] \in [Keys -> 0..MaxWrites]
    BY <1>0
  <2> QED BY <1>3, <2>1 DEF digestSource, Opened, TypeOK
<1>4. CASE clusterManagerCompareKeysValues
  <2>1. [k \in Keys |-> Absent] \in [Keys -> 0..MaxWrites]
    BY <1>0
  <2> QED BY <1>4, <2>1 DEF clusterManagerCompareKeysValues, Opened, TypeOK
<1>5. CASE again
  BY <1>0, <1>5 DEF again, Opened, TypeOK
<1> QED BY <1>1, <1>2, <1>3, <1>4, <1>5

\* MIGRATE begins, or finds no key.
LEMMA MigrateSent ==
  ASSUME TypeOK, MigInv, MigrationAssumption, clusterManagerMigrateKeysInReply
  PROVE  /\ UNCHANGED <<slotvars, db, clients, runs, digest, doubt>> /\ ~mig.on /\ Opened
         /\ cli' \in {"keys", "wait"} /\ batch' \subseteq Keys
         /\ mig' \in Migrate /\ Len(mig'.replies) <= Len(mig'.keys) /\ wire' \subseteq Restore /\ MigInv'
         /\ mig'.on => mig'.replies = <<>>
         /\ \A r \in wire' : r \in wire \/ (mig'.on /\ r.conn = mig'.conn)
<1>1. PICK replace \in BOOLEAN : migrateCommand(replace) /\ cli \in {"migrate", "replace"}
  BY DEF clusterManagerMigrateKeysInReply
<1>2. UNCHANGED <<slotvars, db, clients, runs, digest, doubt>> /\ ~mig.on /\ Opened
  BY <1>1 DEF migrateCommand, Opened, Stuck
<1> DEFINE ks == SetToSeq(batch \ Missing(Src, Keys))
<1>3. CASE cli' = "keys" /\ batch' = {} /\ UNCHANGED <<mig, wire>>
  <2>1. MigInv'
    BY <1>2, <1>3, MigFrame
  <2> QED BY <1>2, <1>3, <2>1 DEF TypeOK
<1>4. CASE /\ mig' = [on |-> TRUE, keys |-> ks, replies |-> <<>>, replace |-> replace, retry |-> TRUE,
                      conn |-> mig.conn + 1, first |-> TRUE, err |-> "none"]
           /\ wire' = wire \cup SendKeys(ks, replace, mig.conn + 1)
           /\ cli' = "wait" /\ UNCHANGED batch
  <2>1. /\ ks \in Seq(Keys) /\ \A i \in 1..Len(ks) : db[Src][ks[i]] # Absent
        /\ \A i, j \in 1..Len(ks) : ks[i] = ks[j] => i = j
    BY KeysToMove
  <2> HIDE DEF ks
  <2>2. mig.conn \in Nat
    BY DEF TypeOK, Migrate
  <2>3. mig' \in Migrate /\ mig'.keys = ks /\ mig'.replies = <<>> /\ mig'.replace = replace /\ mig'.conn = mig.conn + 1
    BY <1>4, <2>1, <2>2 DEF Migrate
  <2>4. MigInv' /\ wire' \subseteq Restore
    BY <1>2, <1>4, <2>1, <2>3, NewBatch
  <2>5. Len(mig'.replies) <= Len(mig'.keys)
    BY <2>1, <2>3
  <2>6. \A r \in wire' : r \in wire \/ r.conn = mig'.conn
    BY <1>4, <2>3 DEF SendKeys
  <2>7. mig'.on
    BY <1>4
  <2> QED BY <1>2, <1>4, <2>3, <2>4, <2>5, <2>6, <2>7 DEF TypeOK
<1> QED
  BY <1>1, <1>3, <1>4 DEF migrateCommand

\* What is left of a connection that was closed.
LEMMA ClosedWire ==
  ASSUME TypeOK, NEW W \in Closed(mig.conn)
  PROVE  W \subseteq wire /\ ("late" \notin Errors => \A r \in W : r.conn # mig.conn)
BY DEF Closed, OnOthers

\* The connection is lost: MIGRATE tries again or returns, and the keys it has
\* no answer for are in doubt.
LEMMA LinkLost ==
  ASSUME TypeOK, MigInv, MigrationAssumption, timeout \/ broken
  PROVE  /\ UNCHANGED <<slotvars, db, clients, moving>> /\ mig.on
         /\ mig' \in Migrate /\ mig'.replies = <<>> /\ Len(mig'.replies) <= Len(mig'.keys)
         /\ wire' \subseteq Restore /\ MigInv' /\ doubt' = doubt \cup ToSet(mig.keys)
         /\ \A r \in wire' : \/ mig'.on /\ r.conn = mig'.conn
                             \/ r \in wire /\ ("late" \notin Errors => r.conn # mig.conn)
<1>1. UNCHANGED <<slotvars, db, clients, moving>> /\ mig.on /\ doubt' = doubt \cup ToSet(mig.keys)
  BY DEF timeout, broken
<1>2. mig \in Migrate /\ mig.conn \in Nat /\ mig.conn + 1 \in Nat /\ <<>> \in Seq(Answer) /\ <<>> \in Seq(Keys)
      /\ mig.err \in {"none", "busy", "error"}
  BY DEF TypeOK, Migrate
<1>3. CASE giveUp
  <2>2. PICK e \in {"none", "busy", "error"} : e = IF mig.err = "none" THEN "error" ELSE mig.err
    BY <1>2
  <2>1. /\ mig' = [mig EXCEPT !.on = FALSE, !.keys = <<>>, !.replies = <<>>, !.err = e]
        /\ wire' \in Closed(mig.conn)
    BY <1>3, <2>2 DEF giveUp
  <2>3. /\ mig' \in Migrate /\ mig'.on = FALSE /\ mig'.keys = <<>> /\ mig'.replies = <<>>
        /\ mig'.conn = mig.conn /\ Len(mig'.replies) <= Len(mig'.keys)
    <3>1. mig' \in Migrate
      BY <1>2, <2>1, <2>2 DEF Migrate
    <3>2. mig'.on = FALSE /\ mig'.keys = <<>> /\ mig'.replies = <<>> /\ mig'.conn = mig.conn
      BY <1>2, <2>1 DEF Migrate
    <3> QED BY <3>1, <3>2
  <2>4. wire' \subseteq wire /\ ("late" \notin Errors => \A r \in wire' : r.conn # mig.conn)
    BY <2>1, ClosedWire
  <2>5. MigInv'
    BY <2>3, <2>4 DEF MigInv
  <2> QED BY <1>1, <2>3, <2>4, <2>5 DEF TypeOK
<1>4. CASE tryAgain
  <2>1. PICK W \in Closed(mig.conn) :
          /\ mig' = [mig EXCEPT !.conn = @ + 1, !.retry = FALSE, !.replies = <<>>]
          /\ wire' = W \cup SendKeys(mig.keys, mig.replace, mig.conn + 1)
    BY <1>4 DEF tryAgain
  <2>2. /\ mig' \in Migrate /\ mig'.keys = mig.keys /\ mig'.replies = <<>> /\ mig'.replace = mig.replace
        /\ mig'.conn = mig.conn + 1 /\ mig.keys \in Seq(Keys) /\ mig.replace \in BOOLEAN /\ mig'.on = mig.on
    BY <1>2, <2>1 DEF Migrate
  <2>3. W \subseteq wire /\ ("late" \notin Errors => \A r \in W : r.conn # mig.conn)
    BY ClosedWire
  <2>4. /\ \A i \in 1..Len(mig.keys) : db[Src][mig.keys[i]] # Absent
        /\ \A i, j \in 1..Len(mig.keys) : mig.keys[i] = mig.keys[j] => i = j
    BY <1>1 DEF MigInv
  <2>5. MigInv' /\ wire' \subseteq Restore
    BY <1>1, <2>1, <2>2, <2>3, <2>4, NewBatch
  <2>6. Len(mig'.replies) <= Len(mig'.keys)
    BY <2>2
  <2>7. \A r \in SendKeys(mig.keys, mig.replace, mig.conn + 1) : r.conn = mig'.conn
    BY <2>2 DEF SendKeys
  <2> QED BY <1>1, <2>1, <2>2, <2>3, <2>5, <2>6, <2>7
<1> QED
  BY <1>3, <1>4 DEF timeout, broken

LEMMA MigrationTypeInit ==
  ASSUME MigrationAssumption, Init
  PROVE  TypeOK /\ MigInv
<1>1. MaxWrites \in Nat /\ MaxWrites >= 1 /\ MaxRuns \in Nat /\ MaxRuns >= 1 /\ Src \in Nodes /\ Dst \in Nodes
  BY DEF MigrationAssumption, Nodes
<1>2. PICK k0 \in [Keys -> 0..1] :
        /\ truth = k0 /\ writes = k0
        /\ db = [n \in Nodes |-> IF n = Src THEN k0 ELSE [k \in Keys |-> Absent]]
  BY DEF Init
<1>3. k0 \in [Keys -> 0..MaxWrites] /\ [k \in Keys |-> Absent] \in [Keys -> 0..MaxWrites]
  BY <1>1 DEF Absent
<1>4. db \in [Nodes -> [Keys -> 0..MaxWrites]] /\ truth \in [Keys -> 0..MaxWrites] /\ writes \in [Keys -> 0..MaxWrites]
  BY <1>2, <1>3
<1>5. mig \in Migrate /\ mig.on = FALSE /\ Len(mig.replies) <= Len(mig.keys)
  BY DEF Init, NoMigrate, Migrate, Answer
<1>6. owner \in [Nodes -> Nodes]
  BY <1>1 DEF Init
<1>7. runs \in 1..MaxRuns
  BY <1>1 DEF Init
<1>8. TypeOK
  BY <1>3, <1>4, <1>5, <1>6, <1>7 DEF Init, TypeOK
<1>9. MigInv
  BY <1>5 DEF Init, MigInv
<1> QED
  BY <1>8, <1>9

LEMMA MigrationTypeStep ==
  ASSUME MigrationAssumption, TypeOK, MigInv, [Next]_vars
  PROVE  TypeOK' /\ MigInv'
<1>0. Src \in Nodes /\ Dst \in Nodes /\ Src # Dst /\ MaxRuns \in Nat /\ Absent \in 0..MaxWrites
  BY DEF MigrationAssumption, Nodes, Absent
<1> USE DEF slotvars, clients, moving, link
<1>1. ASSUME NEW n \in Nodes, NEW K \in Args, NEW op \in {"write", "del"}, command(n, K, op)
      PROVE  TypeOK' /\ MigInv'
  <2>1. /\ ~Stuck(n) /\ UNCHANGED <<slotvars, moving, link>>
        /\ \/ getNodeByQuery(n, K, FALSE) = "serve" /\ Execute(n, K, op) /\ UNCHANGED asking
           \/ /\ getNodeByQuery(n, K, FALSE) = "ask" /\ asking' = asking \cup {[keys |-> K, op |-> op]}
              /\ UNCHANGED <<db, truth, writes, blocked>>
    BY <1>1, CommandCases
  <2>2. CASE Execute(n, K, op) /\ UNCHANGED asking
    <3>1. /\ db' \in [Nodes -> [Keys -> 0..MaxWrites]]
          /\ truth' \in [Keys -> 0..MaxWrites] /\ writes' \in [Keys -> 0..MaxWrites]
          /\ blocked' \subseteq Keys
          /\ \A m \in Nodes : m # n => db'[m] = db[m]
      BY <2>2, Executed
    <3>2. mig.on => db'[Src] = db[Src]
      BY <1>0, <2>1, <3>1 DEF Stuck
    <3> QED BY <2>1, <2>2, <3>1, <3>2, MigFrame DEF TypeOK
  <2>3. CASE asking' = asking \cup {[keys |-> K, op |-> op]} /\ UNCHANGED <<db, truth, writes, blocked>>
    BY <2>1, <2>3, MigFrame DEF TypeOK
  <2> QED BY <2>1, <2>2, <2>3
<1>2. ASSUME NEW a \in asking, askingCommand(a) PROVE TypeOK' /\ MigInv'
  <2>1. a.keys \in Args /\ a.op \in {"write", "del"}
    BY DEF TypeOK
  <2>2. /\ asking' = asking \ {a}
        /\ Execute(Dst, a.keys, a.op) \/ UNCHANGED <<db, truth, writes, blocked>>
        /\ UNCHANGED <<slotvars, moving, link>>
    BY <1>2 DEF askingCommand
  <2>3. CASE Execute(Dst, a.keys, a.op)
    <3>1. /\ db' \in [Nodes -> [Keys -> 0..MaxWrites]]
          /\ truth' \in [Keys -> 0..MaxWrites] /\ writes' \in [Keys -> 0..MaxWrites]
          /\ blocked' \subseteq Keys /\ db'[Src] = db[Src]
      BY <1>0, <2>1, <2>3, Executed
    <3> QED BY <2>2, <3>1, MigFrame DEF TypeOK
  <2>4. CASE UNCHANGED <<db, truth, writes, blocked>>
    BY <2>2, <2>4, MigFrame DEF TypeOK
  <2> QED BY <2>2, <2>3, <2>4
<1>3. ASSUME NEW k \in Keys, block(k) \/ clusterRedirectBlockedClientIfNeeded(k)
      PROVE  TypeOK' /\ MigInv'
  <2>1. blocked' \subseteq Keys /\ UNCHANGED <<slotvars, db, truth, writes, asking, moving, link>>
    BY <1>3 DEF block, clusterRedirectBlockedClientIfNeeded, TypeOK
  <2> QED BY <2>1, MigFrame DEF TypeOK
<1>4. CASE setslotImporting
  <2>1. UNCHANGED <<mig, wire, db>>
    BY <1>4 DEF setslotImporting
  <2> QED BY <1>4, <2>1, MigFrame DEF setslotImporting, TypeOK
<1>5. CASE setslotMigrating
  <2>1. UNCHANGED <<mig, wire, db>>
    BY <1>5 DEF setslotMigrating
  <2> QED BY <1>5, <2>1, MigFrame DEF setslotMigrating, TypeOK
<1>6. CASE clusterManagerMigrateKeysInSlot \/ migrateReply \/ digestSource \/ clusterManagerCompareKeysValues \/ again
  <2>1. /\ UNCHANGED <<slotvars, db, clients, link>> /\ batch' \subseteq Keys
        /\ digest' \in [Keys -> 0..MaxWrites] /\ runs' \in 1..MaxRuns
        /\ cli' \in {"keys", "migrate", "stopped", "compare", "compareTarget", "replace", "target"}
    BY <1>6, CliSteps
  <2> QED BY <2>1, MigFrame DEF TypeOK
<1>7. CASE clusterManagerMigrateKeysInReply
  <2>1. /\ UNCHANGED <<slotvars, db, clients, runs, digest, doubt>>
        /\ cli' \in {"keys", "wait"} /\ batch' \subseteq Keys
        /\ mig' \in Migrate /\ Len(mig'.replies) <= Len(mig'.keys) /\ wire' \subseteq Restore /\ MigInv'
    BY <1>7, MigrateSent
  <2> QED BY <2>1 DEF TypeOK
<1>8. CASE setslotNodeTarget
  <2>1. UNCHANGED <<mig, wire, db>> /\ owner' \in [Nodes -> Nodes] /\ news' \subseteq {Src}
    BY <1>0, <1>8 DEF setslotNodeTarget, TypeOK
  <2> QED BY <1>8, <2>1, MigFrame DEF setslotNodeTarget, TypeOK
<1>9. CASE setslotNodeSource
  <2>1. UNCHANGED <<importing, news, db, clients, runs, batch, digest, link>>
        /\ owner' \in [Nodes -> Nodes] /\ cli' \in {"stopped", "done"}
    BY <1>0, <1>9 DEF setslotNodeSource, TypeOK
  <2>2. migrating' \in BOOLEAN
    <3>1. migrating' = migrating \/ migrating' = (migrating /\ Missing(Src, Keys) # Keys)
      BY <1>9 DEF setslotNodeSource
    <3> QED BY <3>1, Zenon DEF TypeOK
  <2> QED BY <2>1, <2>2, MigFrame DEF TypeOK
<1>10. CASE readReply
  <2>1. UNCHANGED <<slotvars, clients, moving, wire, doubt>>
    BY <1>10 DEF readReply
  <2> QED BY <1>10, <2>1, ReadMig DEF TypeOK
<1>11. ASSUME NEW r \in wire, restore(r) PROVE TypeOK' /\ MigInv'
  <2>1. UNCHANGED <<slotvars, clients, moving, doubt>> /\ wire' \subseteq wire
    BY <1>11 DEF restore
  <2>2. r.key \in Keys /\ r.val \in 0..MaxWrites
    BY DEF TypeOK, Restore
  <2>3. db' \in [Nodes -> [Keys -> 0..MaxWrites]]
    <3>1. db' = db \/ db' = [db EXCEPT ![Dst][r.key] = r.val]
      BY <1>11 DEF restore
    <3>2. [db[Dst] EXCEPT ![r.key] = r.val] \in [Keys -> 0..MaxWrites]
      BY <1>0, <2>2 DEF TypeOK
    <3>3. [db EXCEPT ![Dst][r.key] = r.val] = [db EXCEPT ![Dst] = [db[Dst] EXCEPT ![r.key] = r.val]]
      BY <1>0 DEF TypeOK
    <3>4. db \in [Nodes -> [Keys -> 0..MaxWrites]]
      BY DEF TypeOK
    <3> QED BY <1>0, <3>1, <3>2, <3>3, <3>4
  <2> QED BY <1>11, <2>1, <2>3, AnsweredMig DEF TypeOK
<1>12. CASE clusterUpdateSlotsConfigWith
  <2>1. ~mig.on /\ UNCHANGED <<migrating, importing, clients, moving, link>>
        /\ owner' \in [Nodes -> Nodes] /\ news' \subseteq {Src}
    BY <1>0, <1>12 DEF clusterUpdateSlotsConfigWith, Stuck, TypeOK
  <2>2. db' \in [Nodes -> [Keys -> 0..MaxWrites]]
    <3>1. db' = db \/ db' = [db EXCEPT ![Src] = [k \in Keys |-> Absent]]
      BY <1>12 DEF clusterUpdateSlotsConfigWith
    <3>2. [k \in Keys |-> Absent] \in [Keys -> 0..MaxWrites]
      BY <1>0
    <3>3. db \in [Nodes -> [Keys -> 0..MaxWrites]]
      BY DEF TypeOK
    <3> QED BY <1>0, <3>1, <3>2, <3>3
  <2> QED BY <2>1, <2>2, MigFrame DEF TypeOK
<1>13. CASE timeout \/ broken
  <2>1. /\ UNCHANGED <<slotvars, db, clients, moving>>
        /\ mig' \in Migrate /\ Len(mig'.replies) <= Len(mig'.keys)
        /\ wire' \subseteq Restore /\ MigInv' /\ doubt' = doubt \cup ToSet(mig.keys)
    BY <1>13, LinkLost
  <2>2. doubt' \subseteq Keys
    <3>1. mig.keys \in Seq(Keys)
      BY DEF TypeOK, Migrate
    <3>2. \A i \in 1..Len(mig.keys) : mig.keys[i] \in Keys
      BY <3>1
    <3>3. ToSet(mig.keys) = {mig.keys[i] : i \in 1..Len(mig.keys)}
      BY <3>1 DEF ToSet
    <3> QED BY <2>1, <3>2, <3>3 DEF TypeOK
  <2> QED BY <2>1, <2>2 DEF TypeOK
<1>14. CASE UNCHANGED vars
  <2>1. UNCHANGED <<mig, wire, db>>
    BY <1>14 DEF vars
  <2> QED BY <1>14, <2>1, MigFrame DEF vars, TypeOK
<1> QED
  BY <1>1, <1>2, <1>3, <1>4, <1>5, <1>6, <1>7, <1>8, <1>9, <1>10, <1>11, <1>12, <1>13, <1>14
  DEF Next, Client, Command, Move, Deliver, Redirect

\* The types of a migration hold, and a MIGRATE never has more answers than
\* keys it waits for, whatever becomes of its connections: an answer of a
\* connection that was closed is never taken for one of the next.
THEOREM MigrationTypeCorrect == ASSUME MigrationAssumption PROVE Spec => []TypeOK
<1>1. Spec => [](TypeOK /\ MigInv)
  BY MigrationTypeInit, MigrationTypeStep, PTL DEF Spec
<1> QED
  BY <1>1, PTL

-----------------------------------------------------------------------------
(* Who has the slot.                                                       *)

\* Before the slot is open at Src nothing is anywhere else; after that Src
\* gives it away or has done so, and whoever is sent to Dst finds it there.
SlotInv ==
  /\ ~Opened => /\ asking = {} /\ ~migrating /\ ~mig.on /\ owner[Src] = Src /\ owner[Dst] = Src /\ wire = {}
                /\ \A k \in Keys : db[Dst][k] = Absent
  /\ cli = "migrating" => importing
  /\ Opened => migrating \/ owner[Src] = Dst
  /\ \A a \in asking : \E k \in a.keys : db[Src][k] = Absent
  /\ owner[Src] = Dst => owner[Dst] = Dst
  /\ owner[Dst] = Dst \/ cli \in {"target", "source", "done"} => NoneAtSrc
  /\ cli \in {"source", "done"} => owner[Dst] = Dst
  /\ migrating => importing \/ owner[Dst] = Dst
  /\ news # {} => owner[Dst] = Dst

\* Once the slot is open no key comes back to Src.
LEMMA StaysAway ==
  ASSUME MigrationAssumption, TypeOK, SlotInv, Opened,
         NEW n \in Nodes, NEW K \in Args, NEW op \in {"write", "del"},
         getNodeByQuery(n, K, FALSE) = "serve", Execute(n, K, op)
  PROVE  \A k \in Keys : db[Src][k] = Absent => db'[Src][k] = Absent
<1>1. Src # Dst /\ Src \in Nodes
  BY DEF MigrationAssumption, Nodes
<1>2. /\ \A m \in Nodes : m # n => db'[m] = db[m]
      /\ \A k \in Keys : k \notin K => db'[n][k] = db[n][k]
  BY Executed
<1>3. CASE n = Src
  <2>1. owner[Src] = Src /\ (migrating => \A k \in K : db[Src][k] # Absent)
    BY <1>3, ServesOwner
  <2>2. migrating
    BY <1>1, <2>1 DEF SlotInv
  <2> QED BY <1>2, <1>3, <2>1, <2>2
<1>4. CASE n # Src
  BY <1>1, <1>2, <1>4
<1> QED BY <1>3, <1>4

\* What SlotInv says does not depend on values, only on the keys Src has.
LEMMA SlotFrame ==
  ASSUME SlotInv, UNCHANGED <<owner, migrating, importing, news>>, TypeOK,
         ~Opened => wire' = {} /\ mig'.on = mig.on /\ \A k \in Keys : db'[Dst][k] = db[Dst][k],
         cli' = cli \/ (Opened /\ cli' \in {"keys", "migrate", "wait", "compare", "compareTarget", "replace", "stopped"}),
         asking' \subseteq asking,
         Opened => \A k \in Keys : db[Src][k] = Absent => db'[Src][k] = Absent
  PROVE  SlotInv'
<1>1. CASE ~Opened
  BY <1>1 DEF SlotInv, Opened, NoneAtSrc
<1>2. CASE Opened
  <2>1. Opened' /\ (NoneAtSrc => NoneAtSrc') /\ cli' # "migrating"
    BY <1>2 DEF Opened, NoneAtSrc
  <2>2. \A a \in asking' : \E k \in a.keys : db'[Src][k] = Absent
    <3>1. \A a \in asking : a.keys \subseteq Keys
      BY DEF TypeOK, Args
    <3> QED BY <1>2, <3>1 DEF SlotInv
  <2>3. cli' \in {"target", "source", "done"} => cli' = cli
    OBVIOUS
  <2>4. owner[Dst] = Dst \/ cli' \in {"target", "source", "done"} => NoneAtSrc'
    BY <2>1, <2>3 DEF SlotInv
  <2>5. cli' \in {"source", "done"} => owner[Dst] = Dst
    BY <2>3 DEF SlotInv
  <2> QED BY <1>2, <2>1, <2>2, <2>4, <2>5 DEF SlotInv
<1> QED BY <1>1, <1>2

LEMMA SlotInit ==
  ASSUME MigrationAssumption, Init
  PROVE  SlotInv
<1>1. Src # Dst /\ Src \in Nodes /\ Dst \in Nodes
  BY DEF MigrationAssumption, Nodes
<1>2. \A k \in Keys : db[Dst][k] = Absent
  BY <1>1 DEF Init
<1>3. mig.on = FALSE
  BY DEF Init, NoMigrate
<1>4. owner[Src] = Src /\ owner[Dst] = Src
  BY <1>1 DEF Init
<1> QED
  BY <1>1, <1>2, <1>3, <1>4 DEF Init, SlotInv, Opened

LEMMA SlotStep ==
  ASSUME MigrationAssumption, TypeOK, MigInv, SlotInv, [Next]_vars
  PROVE  SlotInv'
<1>0. Src \in Nodes /\ Dst \in Nodes /\ Src # Dst
  BY DEF MigrationAssumption, Nodes
<1> USE DEF slotvars, clients, moving, link
<1>1. ASSUME NEW n \in Nodes, NEW K \in Args, NEW op \in {"write", "del"}, command(n, K, op)
      PROVE  SlotInv'
  <2>1. /\ ~Stuck(n) /\ UNCHANGED <<slotvars, moving, link>>
        /\ \/ getNodeByQuery(n, K, FALSE) = "serve" /\ Execute(n, K, op) /\ UNCHANGED asking
           \/ /\ getNodeByQuery(n, K, FALSE) = "ask" /\ asking' = asking \cup {[keys |-> K, op |-> op]}
              /\ UNCHANGED <<db, truth, writes, blocked>>
    BY <1>1, CommandCases
  <2>2. CASE getNodeByQuery(n, K, FALSE) = "serve" /\ Execute(n, K, op) /\ UNCHANGED asking
    <3>1. Opened => \A k \in Keys : db[Src][k] = Absent => db'[Src][k] = Absent
      BY <2>2, StaysAway
    <3>2. ~Opened => \A k \in Keys : db'[Dst][k] = db[Dst][k]
      <4>1. ~Opened => n = Src
        BY <1>0, <2>2, ServesOwner DEF SlotInv, Nodes
      <4>2. n = Src => db'[Dst] = db[Dst]
        BY <1>0, <2>2, Executed
      <4> QED BY <4>1, <4>2
    <3>3. ~Opened => wire' = {}
      BY <2>1 DEF SlotInv
    <3> QED BY <2>1, <2>2, <3>1, <3>2, <3>3, SlotFrame
  <2>3. CASE /\ getNodeByQuery(n, K, FALSE) = "ask" /\ asking' = asking \cup {[keys |-> K, op |-> op]}
             /\ UNCHANGED <<db, truth, writes, blocked>>
    <3>1. n = Src /\ migrating /\ \E k \in K : db[Src][k] = Absent
      BY <2>3, AskedMissing
    <3>2. Opened
      BY <3>1 DEF SlotInv
    <3> QED BY <2>1, <2>3, <3>1, <3>2 DEF SlotInv, Opened, NoneAtSrc
  <2> QED BY <2>1, <2>2, <2>3
<1>2. ASSUME NEW a \in asking, askingCommand(a) PROVE SlotInv'
  <2>1. a.keys \in Args /\ a.op \in {"write", "del"}
    BY DEF TypeOK
  <2>2. /\ asking' \subseteq asking
        /\ Execute(Dst, a.keys, a.op) \/ UNCHANGED <<db, truth, writes, blocked>>
        /\ UNCHANGED <<slotvars, moving, link>>
    BY <1>2 DEF askingCommand
  <2>3. Opened
    BY DEF SlotInv
  <2>4. db'[Src] = db[Src]
    BY <1>0, <2>1, <2>2, Executed
  <2> QED BY <2>2, <2>3, <2>4, SlotFrame
<1>3. ASSUME NEW k \in Keys, block(k) \/ clusterRedirectBlockedClientIfNeeded(k)
      PROVE  SlotInv'
  <2>1. UNCHANGED <<owner, migrating, importing, db, asking, news, cli, mig, wire>>
    BY <1>3 DEF block, clusterRedirectBlockedClientIfNeeded
  <2> QED BY <2>1 DEF SlotInv, Opened, NoneAtSrc
<1>4. CASE setslotImporting
  <2>1. /\ cli = "importing" /\ cli' = "migrating" /\ importing' = TRUE
        /\ UNCHANGED <<owner, migrating, db, asking, news, mig, wire>>
    BY <1>4 DEF setslotImporting
  <2>2. ~Opened /\ ~Opened'
    BY <2>1 DEF Opened
  <2> QED BY <1>0, <2>1, <2>2 DEF SlotInv, NoneAtSrc
<1>5. CASE setslotMigrating
  BY <1>0, <1>5 DEF setslotMigrating, SlotInv, Opened, NoneAtSrc
<1>6. CASE clusterManagerMigrateKeysInSlot \/ migrateReply \/ digestSource \/ clusterManagerCompareKeysValues \/ again
  <2>1. /\ UNCHANGED <<slotvars, db, clients, link>> /\ Opened
        /\ \/ cli' \in {"keys", "migrate", "stopped", "compare", "compareTarget", "replace"}
           \/ cli' = "target" /\ NoneAtSrc
    BY <1>6, CliSteps
  <2>2. CASE cli' \in {"keys", "migrate", "stopped", "compare", "compareTarget", "replace"}
    BY <2>1, <2>2, SlotFrame
  <2>3. CASE cli' = "target" /\ NoneAtSrc
    BY <2>1, <2>3 DEF SlotInv, Opened, NoneAtSrc
  <2> QED BY <2>1, <2>2, <2>3
<1>7. CASE clusterManagerMigrateKeysInReply
  <2>1. UNCHANGED <<slotvars, db, clients>> /\ Opened /\ cli' \in {"keys", "wait"}
    BY <1>7, MigrateSent
  <2> QED BY <2>1, SlotFrame
<1>8. CASE setslotNodeTarget
  <2>1. /\ owner'[Dst] = Dst /\ owner'[Src] = owner[Src] /\ cli = "target" /\ cli' = "source"
        /\ UNCHANGED <<migrating, db, asking, mig, wire>>
    BY <1>0, <1>8 DEF setslotNodeTarget, TypeOK
  <2> QED BY <2>1 DEF SlotInv, Opened, NoneAtSrc
<1>9. CASE setslotNodeSource
  <2>1. /\ cli = "source" /\ cli' \in {"stopped", "done"} /\ UNCHANGED <<importing, db, asking, news, mig, wire>>
        /\ owner'[Dst] = owner[Dst] /\ (owner'[Src] = Dst \/ UNCHANGED <<owner, migrating>>)
        /\ migrating' => migrating
    BY <1>0, <1>9 DEF setslotNodeSource, TypeOK
  <2>2. owner[Dst] = Dst /\ NoneAtSrc
    BY <2>1 DEF SlotInv
  <2> QED BY <2>1, <2>2 DEF SlotInv, Opened, NoneAtSrc
<1>10. CASE readReply
  <2>1. mig.on /\ UNCHANGED <<slotvars, clients, moving, wire, doubt>>
    BY <1>10 DEF readReply
  <2>2. Opened
    BY <2>1 DEF SlotInv
  <2>3. db' = db \/ db' = [db EXCEPT ![Src][Head(mig.keys)] = Absent]
    BY <1>10 DEF readReply
  <2>4. db \in [Nodes -> [Keys -> 0..MaxWrites]]
    BY DEF TypeOK
  <2>5. \A k \in Keys : db[Src][k] = Absent => db'[Src][k] = Absent
    BY <1>0, <2>3, <2>4
  <2> QED BY <2>1, <2>2, <2>5, SlotFrame
<1>11. ASSUME NEW r \in wire, restore(r) PROVE SlotInv'
  <2>1. UNCHANGED <<slotvars, clients, moving, doubt>>
    BY <1>11 DEF restore
  <2>2. Opened
    BY DEF SlotInv
  <2>3. db'[Src] = db[Src]
    BY <1>0, <1>11 DEF restore, TypeOK
  <2> QED BY <2>1, <2>2, <2>3, SlotFrame
<1>12. CASE clusterUpdateSlotsConfigWith
  <2>1. news # {} /\ owner[Dst] = Dst /\ Opened
    BY <1>0, <1>12 DEF clusterUpdateSlotsConfigWith, SlotInv
  <2>2. /\ UNCHANGED <<migrating, importing, asking, cli, mig, wire>> /\ owner'[Dst] = Dst /\ owner'[Src] = Dst
        /\ db' = db \/ db' = [db EXCEPT ![Src] = [k \in Keys |-> Absent]]
    BY <1>0, <1>12, <2>1 DEF clusterUpdateSlotsConfigWith, TypeOK
  <2>3. NoneAtSrc /\ NoneAtSrc'
    BY <1>0, <2>1, <2>2 DEF SlotInv, NoneAtSrc, TypeOK
  <2>4. \A a \in asking : a.keys \subseteq Keys
    BY DEF TypeOK, Args
  <2> QED BY <1>0, <2>1, <2>2, <2>3, <2>4 DEF SlotInv, Opened, NoneAtSrc
<1>13. CASE timeout \/ broken
  <2>1. mig.on /\ UNCHANGED <<slotvars, db, clients, moving>>
    BY <1>13, LinkLost
  <2>2. Opened
    BY <2>1 DEF SlotInv
  <2> QED BY <2>1, <2>2, SlotFrame
<1>14. CASE UNCHANGED vars
  BY <1>14 DEF vars, SlotInv, Opened, NoneAtSrc
<1> QED
  BY <1>1, <1>2, <1>3, <1>4, <1>5, <1>6, <1>7, <1>8, <1>9, <1>10, <1>11, <1>12, <1>13, <1>14
  DEF Next, Client, Command, Move, Deliver, Redirect

\* What a client is answered leads it to a node that serves.
LEMMA FindsNode ==
  ASSUME MigrationAssumption, TypeOK, SlotInv
  PROVE  Findable
<1>0. Src \in Nodes /\ Dst \in Nodes /\ Src # Dst /\ \A n \in Nodes : owner[n] \in Nodes /\ (n = Src \/ n = Dst)
  BY DEF MigrationAssumption, Nodes, TypeOK
<1> SUFFICES ASSUME NEW n \in Nodes, NEW k \in Keys
             PROVE  LET q == getNodeByQuery(n, {k}, FALSE)
                    IN \/ q = "serve"
                       \/ q = "ask" /\ getNodeByQuery(Dst, {k}, TRUE) = "serve"
                       \/ q = "moved" /\ owner[n] # n
                          /\ \/ getNodeByQuery(owner[n], {k}, FALSE) = "serve"
                             \/ /\ getNodeByQuery(owner[n], {k}, FALSE) = "ask"
                                /\ getNodeByQuery(Dst, {k}, TRUE) = "serve"
  BY DEF Findable
<1>1. migrating => getNodeByQuery(Dst, {k}, TRUE) = "serve"
  BY ServesOne DEF SlotInv
<1>2. owner[Dst] = Dst => getNodeByQuery(Dst, {k}, FALSE) = "serve"
  BY <1>0 DEF getNodeByQuery
<1>3. owner[Src] = Src => getNodeByQuery(Src, {k}, FALSE) = "serve" \/ (migrating /\ getNodeByQuery(Src, {k}, FALSE) = "ask")
  BY <1>0 DEF getNodeByQuery
<1>4. owner[n] # n => getNodeByQuery(n, {k}, FALSE) = "moved"
  BY <1>0 DEF getNodeByQuery
<1>5. CASE owner[n] = n
  BY <1>0, <1>1, <1>2, <1>3, <1>5
<1>6. CASE n = Src /\ owner[n] # n
  <2>1. owner[Src] = Dst /\ owner[Dst] = Dst
    BY <1>0, <1>6 DEF SlotInv
  <2> QED BY <1>2, <1>4, <1>6, <2>1
<1>7. CASE n = Dst /\ owner[n] # n
  <2>1. owner[Dst] = Src /\ owner[Src] = Src
    BY <1>0, <1>7 DEF SlotInv
  <2> QED BY <1>1, <1>3, <1>4, <1>7, <2>1
<1> QED
  BY <1>0, <1>5, <1>6, <1>7

\* From either node, at every moment of a reshard (between the two SETSLOTs,
\* while MIGRATE fails and is tried again, between the new owner's claim and
\* its arrival), a client that follows MOVED and ASK finds a node that serves
\* its key.
THEOREM SlotFindable == ASSUME MigrationAssumption PROVE Spec => []Findable
<1>1. Spec => [](TypeOK /\ MigInv /\ SlotInv)
  BY MigrationTypeInit, MigrationTypeStep, SlotInit, SlotStep, PTL DEF Spec
<1> QED
  BY <1>1, FindsNode, PTL

-----------------------------------------------------------------------------
(* What the steps of a MIGRATE confirm.                                    *)

\* Dst has confirmed a key that Src has not deleted yet.
Acked(k) == mig.on /\ \E i \in 1..Len(mig.replies) : mig.keys[i] = k /\ mig.replies[i].ok

\* A confirmed key is one of the MIGRATE in progress, and still at Src.
LEMMA AckedAtSrc ==
  ASSUME TypeOK, MigInv, NEW k, Acked(k)
  PROVE  db[Src][k] # Absent /\ k \in ToSet(mig.keys)
<1>1. PICK i \in 1..Len(mig.replies) : mig.keys[i] = k
  BY DEF Acked
<1>2. mig.keys \in Seq(Keys) /\ Len(mig.replies) \in Nat /\ Len(mig.keys) \in Nat /\ Len(mig.replies) <= Len(mig.keys)
  BY DEF TypeOK, Migrate
<1>3. i \in 1..Len(mig.keys)
  BY <1>1, <1>2
<1> QED
  BY <1>1, <1>2, <1>3 DEF MigInv, Acked, ToSet

\* Dst runs a RESTORE of the MIGRATE in progress: it is for a key that Src has,
\* with the value it has, and no other key is confirmed by it.
LEMMA RestoreActs ==
  ASSUME MigrationAssumption, TypeOK, MigInv, NEW r \in wire, restore(r), mig.on, r.conn = mig.conn
  PROVE  /\ r.key \in Keys /\ db[Src][r.key] # Absent /\ r.val = db[Src][r.key] /\ ~Acked(r.key)
         /\ Acked(r.key)' <=> restoreCommand(r).ok
         /\ \A k : k # r.key => (Acked(k)' <=> Acked(k))
         /\ mig'.on /\ mig'.conn = mig.conn
<1>p. PICK p : p = Len(mig.replies) + 1
  OBVIOUS
<1>a. PICK a : a = restoreCommand(r)
  OBVIOUS
<1>k. PICK K : K = mig.keys[p]
  OBVIOUS
<1>2. PICK d \in Nat : /\ {q \in wire : q.conn = mig.conn} = {Sent(i, d) : i \in Unanswered}
                       /\ Len(mig.replies) < Len(mig.keys)
                       /\ r = Sent(p, d)
  BY <1>p, FirstOnWire DEF restore
<1>3. /\ mig \in Migrate /\ Len(mig.keys) \in Nat /\ Len(mig.replies) \in Nat
      /\ p \in 1..Len(mig.keys) /\ mig.keys \in Seq(Keys) /\ K \in Keys
  BY <1>2, <1>p, <1>k DEF TypeOK, Migrate
<1>4. r.key = K /\ r.val = db[Src][K]
  BY <1>2, <1>k DEF Sent
<1>5. db[Src][K] # Absent
  BY <1>3, <1>k DEF MigInv
<1>6. ~Acked(K)
  <2>1. \A i \in 1..Len(mig.replies) : i \in 1..Len(mig.keys) /\ i # p
    BY <1>2, <1>3, <1>p
  <2> QED BY <1>3, <1>k, <2>1 DEF Acked, MigInv
<1>7. mig' = [mig EXCEPT !.replies = Append(@, a)]
  BY <1>a DEF restore
<1>8. mig'.on = mig.on /\ mig'.keys = mig.keys /\ mig'.conn = mig.conn /\ mig'.replies = Append(mig.replies, a)
  BY <1>3, <1>7 DEF Migrate
<1>9. /\ Len(mig'.replies) = p /\ mig'.replies[p] = a
      /\ \A i \in 1..Len(mig.replies) : mig'.replies[i] = mig.replies[i]
  <2>1. mig.replies \in Seq(Answer)
    BY <1>3 DEF Migrate
  <2> QED BY <1>3, <1>8, <1>p, <2>1, SMTT(30)
<1>10. 1..p = (1..Len(mig.replies)) \cup {p}
  BY <1>3, <1>p
<1>11. \A k : k # K => (Acked(k)' <=> Acked(k))
  BY <1>k, <1>8, <1>9, <1>10 DEF Acked
<1>12. a.ok => Acked(K)'
  BY <1>3, <1>8, <1>9, <1>10, <1>k DEF Acked
<1>13. ~a.ok => ~Acked(K)'
  BY <1>6, <1>8, <1>9, <1>10 DEF Acked
<1> QED
  BY <1>3, <1>4, <1>5, <1>6, <1>8, <1>11, <1>12, <1>13, <1>a

\* What Dst does with a RESTORE of anybody.
LEMMA RestoreKeys ==
  ASSUME MigrationAssumption, TypeOK, NEW r \in wire, restore(r)
  PROVE  /\ UNCHANGED <<truth, doubt>> /\ db'[Src] = db[Src] /\ wire' \subseteq wire /\ r.key \in Keys
         /\ \A k \in Keys : k # r.key => db'[Dst][k] = db[Dst][k]
         /\ restoreCommand(r).ok => db'[Dst][r.key] = r.val
         /\ ~restoreCommand(r).ok => db' = db
         /\ ~(mig.on /\ r.conn = mig.conn) => mig' = mig
<1>0. Src # Dst /\ Src \in Nodes /\ Dst \in Nodes
  BY DEF MigrationAssumption, Nodes
<1>a. PICK a : a = restoreCommand(r)
  OBVIOUS
<1>1. r.key \in Keys
  BY DEF TypeOK, Restore
<1>2. /\ UNCHANGED <<truth, doubt>> /\ wire' = wire \ {r}
      /\ db' = IF a.ok THEN [db EXCEPT ![Dst][r.key] = r.val] ELSE db
      /\ ~(mig.on /\ r.conn = mig.conn) => mig' = mig
  BY <1>a DEF restore, clients
<1> QED
  BY <1>0, <1>1, <1>2, <1>a DEF TypeOK

\* Src reads an answer: it deletes the key if Dst confirmed it, and leaves
\* the others as they were; MIGRATE returns with nothing on its connection.
LEMMA ReadActs ==
  ASSUME MigrationAssumption, TypeOK, MigInv, readReply, NEW K, K = Head(mig.keys)
  PROVE  /\ UNCHANGED <<truth, wire, doubt>> /\ db'[Dst] = db[Dst] /\ K \in Keys /\ mig'.conn = mig.conn
         /\ \A k \in Keys : k # K => db'[Src][k] = db[Src][k] /\ (Acked(k)' <=> Acked(k))
         /\ Acked(K) => db'[Src][K] = Absent
         /\ ~Acked(K) => db'[Src][K] = db[Src][K]
         /\ ~Acked(K)'
         /\ \A r \in wire : r.conn = mig.conn => mig'.on
<1>0. Src # Dst /\ Src \in Nodes /\ Dst \in Nodes
  BY DEF MigrationAssumption, Nodes
<1>a. PICK a : a = Head(mig.replies)
  OBVIOUS
<1>1. /\ mig.on /\ mig.replies # <<>> /\ UNCHANGED <<wire, truth, doubt>>
      /\ db' = IF a.ok THEN [db EXCEPT ![Src][K] = Absent] ELSE db
      /\ mig' = [mig EXCEPT !.keys = Tail(@), !.replies = Tail(@), !.first = FALSE,
                            !.err = FirstError(a), !.on = Len(mig.keys) > 1]
  BY <1>a DEF readReply, Acknowledged, clients
<1>2. /\ mig \in Migrate /\ mig.keys \in Seq(Keys) /\ mig.replies \in Seq(Answer)
      /\ Len(mig.replies) <= Len(mig.keys)
  BY DEF TypeOK, Migrate
<1>3. /\ Len(mig.replies) \in Nat /\ Len(mig.keys) \in Nat
      /\ Len(mig.replies) >= 1 /\ Len(mig.keys) >= 1 /\ mig.keys # <<>>
  BY <1>1, <1>2
<1>4. /\ a = mig.replies[1] /\ K \in Keys /\ K = mig.keys[1]
      /\ Len(Tail(mig.keys)) = Len(mig.keys) - 1 /\ Len(Tail(mig.replies)) = Len(mig.replies) - 1
      /\ \A i \in 1..(Len(mig.keys) - 1) : Tail(mig.keys)[i] = mig.keys[i + 1]
      /\ \A i \in 1..(Len(mig.replies) - 1) : Tail(mig.replies)[i] = mig.replies[i + 1]
  BY <1>1, <1>2, <1>3, <1>a, FirstAndRest
<1>5. /\ mig'.on = (Len(mig.keys) > 1) /\ mig'.keys = Tail(mig.keys) /\ mig'.replies = Tail(mig.replies)
      /\ mig'.conn = mig.conn
  BY <1>1, <1>2 DEF Migrate
<1>8. /\ \A i \in 1..Len(mig.replies) : i # 1 => i - 1 \in 1..(Len(mig.replies) - 1) /\ i - 1 \in 1..(Len(mig.keys) - 1)
      /\ \A i \in 1..Len(mig.replies) : i # 1 => (i - 1) + 1 = i /\ Len(mig.keys) > 1
      /\ \A i \in 1..(Len(mig.replies) - 1) : i + 1 \in 1..Len(mig.replies) /\ i \in 1..(Len(mig.keys) - 1)
      /\ \A i \in 1..(Len(mig.replies) - 1) : i + 1 # 1
      /\ \A i \in 1..Len(mig.replies) : i \in 1..Len(mig.keys)
  BY <1>2, <1>3
<1>10. \A k \in Keys : k # K => (Acked(k)' <=> Acked(k))
  <2> SUFFICES ASSUME NEW k \in Keys, k # K PROVE Acked(k)' <=> Acked(k)
    OBVIOUS
  <2>1. ASSUME Acked(k) PROVE Acked(k)'
    <3>1. PICK i \in 1..Len(mig.replies) : mig.keys[i] = k /\ mig.replies[i].ok
      BY <2>1 DEF Acked
    <3>2. i # 1
      BY <1>4, <3>1
    <3>3. i - 1 \in 1..Len(mig'.replies) /\ mig'.keys[i - 1] = k /\ mig'.replies[i - 1] = mig.replies[i]
      BY <1>4, <1>5, <1>8, <3>1, <3>2
    <3>4. mig'.on
      BY <1>5, <1>8, <3>2
    <3> QED BY <3>1, <3>3, <3>4 DEF Acked
  <2>2. ASSUME Acked(k)' PROVE Acked(k)
    <3>1. PICK i \in 1..(Len(mig.replies) - 1) : mig'.keys[i] = k /\ mig'.replies[i].ok
      BY <1>4, <1>5, <2>2 DEF Acked
    <3>2. i + 1 \in 1..Len(mig.replies) /\ mig.keys[i + 1] = k /\ mig.replies[i + 1].ok
      BY <1>4, <1>5, <1>8, <3>1
    <3> QED BY <1>1, <3>2 DEF Acked
  <2> QED BY <2>1, <2>2
<1>11. a.ok => Acked(K)
  BY <1>1, <1>3, <1>4 DEF Acked
<1>12. \A i \in 1..Len(mig.replies) : mig.keys[i] = K => i = 1
  BY <1>1, <1>3, <1>4, <1>8 DEF MigInv
<1>13. ~a.ok => ~Acked(K)
  BY <1>4, <1>12 DEF Acked
<1>14. ~Acked(K)'
  <2>1. \A i \in 1..Len(mig'.replies) : mig'.keys[i] # K
    BY <1>4, <1>5, <1>8, <1>12
  <2> QED BY <2>1 DEF Acked
<1>15. /\ \A k \in Keys : k # K => db'[Src][k] = db[Src][k]
       /\ db'[Dst] = db[Dst] /\ (a.ok => db'[Src][K] = Absent) /\ (~a.ok => db' = db)
  BY <1>0, <1>1, <1>4 DEF TypeOK
<1>16. ASSUME NEW r \in wire, r.conn = mig.conn PROVE mig'.on
  <2>1. PICK d \in Nat : {q \in wire : q.conn = mig.conn} = {Sent(i, d) : i \in Unanswered}
    BY <1>1 DEF MigInv
  <2>2. PICK i \in Unanswered : r = Sent(i, d)
    BY <1>16, <2>1
  <2>3. Len(mig.replies) + 1 <= Len(mig.keys)
    BY <1>3, <2>2 DEF Unanswered
  <2>4. Len(mig.keys) > 1
    BY <1>3, <2>3
  <2> QED BY <1>5, <2>4, Zenon
<1> QED
  BY <1>1, <1>4, <1>5, <1>10, <1>11, <1>13, <1>14, <1>15, <1>16

\* A RESTORE on the connection of a MIGRATE is for one of its keys.
LEMMA SentKey ==
  ASSUME TypeOK, MigInv, mig.on, NEW r \in wire, r.conn = mig.conn
  PROVE  r.key \in ToSet(mig.keys)
<1>1. PICK d \in Nat : {q \in wire : q.conn = mig.conn} = {Sent(i, d) : i \in Unanswered}
  BY DEF MigInv
<1>2. PICK i \in Unanswered : r = Sent(i, d)
  BY <1>1
<1>3. mig.keys \in Seq(Keys) /\ Len(mig.replies) \in Nat /\ Len(mig.keys) \in Nat
  BY DEF TypeOK, Migrate
<1>4. i \in 1..Len(mig.keys) /\ r.key = mig.keys[i]
  BY <1>2, <1>3 DEF Unanswered, Sent
<1> QED
  BY <1>3, <1>4 DEF ToSet

-----------------------------------------------------------------------------
(* Where the last value of a key is.                                       *)

\* What is on its way and not of the MIGRATE in progress is about keys in
\* doubt.
NoStray == \A r \in wire : (mig.on /\ r.conn = mig.conn) \/ r.key \in doubt

\* Dst has the last value of a key that Src has not, or that it confirmed; Src
\* alone has it of the others.
KeyAt(k) ==
  /\ db[Src][k] = Absent \/ Acked(k) => db[Dst][k] = truth[k]
  /\ db[Src][k] # Absent /\ ~Acked(k) => db[Src][k] = truth[k] /\ db[Dst][k] = Absent

KeyInv == \A k \in Keys \ doubt : KeyAt(k)

\* A node that serves has the last values.
LEMMA OwnerServes ==
  ASSUME MigrationAssumption, TypeOK, SlotInv, KeyInv, NEW n \in Nodes, NEW K \in Args,
         ~Stuck(n), getNodeByQuery(n, K, FALSE) = "serve"
  PROVE  \A k \in K \ doubt : db[n][k] = truth[k]
<1>0. Src # Dst /\ K \subseteq Keys
  BY DEF MigrationAssumption, Args
<1>1. owner[n] = n /\ (n = Src /\ migrating => \A k \in K : db[Src][k] # Absent)
  BY ServesOwner
<1>2. CASE n = Dst
  <2>1. NoneAtSrc
    BY <1>1, <1>2 DEF SlotInv
  <2> QED BY <1>0, <1>2, <2>1 DEF NoneAtSrc, KeyInv, KeyAt
<1>3. CASE n = Src
  <2>1. \A k \in K : ~Acked(k)
    BY <1>3 DEF Stuck, Acked
  <2>2. CASE migrating
    BY <1>0, <1>1, <1>3, <2>1, <2>2 DEF KeyInv, KeyAt
  <2>3. CASE ~migrating
    <3>1. ~Opened /\ \A k \in Keys : db[Dst][k] = Absent
      BY <1>0, <1>1, <1>3, <2>3 DEF SlotInv
    <3> QED BY <1>0, <1>3, <2>1, <3>1 DEF KeyInv, KeyAt
  <2> QED BY <2>2, <2>3
<1> QED BY <1>2, <1>3 DEF Nodes

\* The keys of a client that Src sent to Dst and Dst serves: either Dst has all
\* of them, or there is one and it is not at Src.
LEMMA AskedKeys ==
  ASSUME MigrationAssumption, TypeOK, SlotInv, NEW a \in asking, NEW K, K = a.keys,
         getNodeByQuery(Dst, K, TRUE) = "serve"
  PROVE  /\ K \subseteq Keys
         /\ (\A k \in K : db[Src][k] = Absent) \/ (MaxArgs > 1 /\ \A k \in K : db[Dst][k] # Absent)
<1>0. /\ K \subseteq Keys /\ IsFiniteSet(K) /\ Cardinality(K) \in Nat
      /\ Cardinality(K) >= 1 /\ Cardinality(K) <= MaxArgs /\ MaxArgs \in Nat
  <2>1. K \subseteq Keys /\ Cardinality(K) \in 1..MaxArgs /\ MaxArgs \in Nat
    BY DEF TypeOK, Args, MigrationAssumption
  <2>2. IsFiniteSet(K)
    BY <2>1, FS_Subset DEF MigrationAssumption
  <2> QED BY <2>1, <2>2
<1>1. /\ importing \/ owner[Dst] = Dst
      /\ importing /\ Cardinality(K) > 1 => \A k \in K : db[Dst][k] # Absent
  BY ServesAsking
<1>2. CASE owner[Dst] = Dst
  BY <1>0, <1>2 DEF SlotInv, NoneAtSrc
<1>3. CASE importing /\ Cardinality(K) > 1
  BY <1>0, <1>1, <1>3
<1>4. CASE Cardinality(K) = 1
  <2>1. PICK x : K = {x}
    BY <1>0, <1>4, FS_Singleton
  <2>2. \E k \in K : db[Src][k] = Absent
    BY DEF SlotInv
  <2> QED BY <1>0, <2>1, <2>2
<1> QED BY <1>0, <1>1, <1>2, <1>3, <1>4

\* So Dst has the last values when it serves it.
LEMMA AskingServes ==
  ASSUME MigrationAssumption, TypeOK, SlotInv, KeyInv, NEW a \in asking, NEW K,
         K = a.keys, getNodeByQuery(Dst, K, TRUE) = "serve"
  PROVE  \A k \in K \ doubt : db[Dst][k] = truth[k] /\ (db[Src][k] = Absent \/ Acked(k))
<1>1. K \subseteq Keys /\ ((\A k \in K : db[Src][k] = Absent) \/ (\A k \in K : db[Dst][k] # Absent))
  BY AskedKeys
<1> QED
  BY <1>1 DEF KeyInv, KeyAt

\* A command run by a node that has the last values leaves it with them.
LEMMA KeyExecuted ==
  ASSUME MigrationAssumption, TypeOK, SlotInv, KeyInv, UNCHANGED <<mig, doubt>>,
         NEW n \in Nodes, NEW K \in Args, NEW op \in {"write", "del"}, Execute(n, K, op),
         n = Src => ~mig.on,
         n = Dst => \A k \in K \ doubt : db[Src][k] = Absent \/ Acked(k),
         n = Src => ~Opened \/ \A k \in K : db[Src][k] # Absent
  PROVE  KeyInv'
<1>0. Src # Dst /\ Src \in Nodes /\ Dst \in Nodes /\ K \subseteq Keys
  BY DEF MigrationAssumption, Nodes, Args
<1>1. /\ \A m \in Nodes : m # n => db'[m] = db[m]
      /\ \A k \in Keys : k \notin K => db'[n][k] = db[n][k] /\ truth'[k] = truth[k]
      /\ \A k \in K : db'[n][k] = truth'[k]
  BY Executed
<1>2. \A k : Acked(k)' <=> Acked(k)
  BY DEF Acked
<1> SUFFICES ASSUME NEW k \in Keys \ doubt PROVE KeyAt(k)'
  BY DEF KeyInv
<1>3. CASE k \notin K
  <2>1. db'[Src][k] = db[Src][k] /\ db'[Dst][k] = db[Dst][k] /\ truth'[k] = truth[k]
    BY <1>0, <1>1, <1>3
  <2> QED BY <1>2, <2>1 DEF KeyInv, KeyAt
<1>4. CASE k \in K /\ n = Dst
  <2>1. db'[Src] = db[Src] /\ db'[Dst][k] = truth'[k]
    BY <1>0, <1>1, <1>4
  <2> QED BY <1>2, <1>4, <2>1 DEF KeyAt
<1>5. CASE k \in K /\ n = Src
  <2>1. ~Acked(k) /\ db'[Dst][k] = db[Dst][k] /\ db'[Src][k] = truth'[k]
    BY <1>0, <1>1, <1>5 DEF Acked
  <2>2. db[Dst][k] = Absent
    <3>1. CASE Opened
      BY <1>5, <2>1, <3>1 DEF KeyInv, KeyAt
    <3>2. CASE ~Opened
      BY <3>2 DEF SlotInv
    <3> QED BY <3>1, <3>2
  <2> QED BY <1>2, <2>1, <2>2 DEF KeyAt
<1> QED
  BY <1>3, <1>4, <1>5 DEF Nodes

\* Nothing changes by a step that leaves the keys and the MIGRATE alone.
LEMMA KeyFrame ==
  ASSUME NoStray, KeyInv, UNCHANGED <<db, truth, mig, wire, doubt>>
  PROVE  NoStray' /\ KeyInv'
BY DEF NoStray, KeyInv, KeyAt, Acked

LEMMA KeyRestored ==
  ASSUME MigrationAssumption, TypeOK, MigInv, SlotInv, NoStray, KeyInv, NEW r \in wire, restore(r)
  PROVE  NoStray' /\ KeyInv'
<1>1. /\ UNCHANGED <<truth, doubt>> /\ db'[Src] = db[Src] /\ wire' \subseteq wire /\ r.key \in Keys
      /\ \A k \in Keys : k # r.key => db'[Dst][k] = db[Dst][k]
      /\ restoreCommand(r).ok => db'[Dst][r.key] = r.val
      /\ ~restoreCommand(r).ok => db' = db
      /\ ~(mig.on /\ r.conn = mig.conn) => mig' = mig
  BY RestoreKeys
<1>2. CASE ~(mig.on /\ r.conn = mig.conn)
  <2>1. mig' = mig /\ r.key \in doubt
    BY <1>1, <1>2 DEF NoStray
  <2>2. \A k : Acked(k)' <=> Acked(k)
    BY <2>1 DEF Acked
  <2> QED BY <1>1, <2>1, <2>2 DEF NoStray, KeyInv, KeyAt
<1>3. CASE mig.on /\ r.conn = mig.conn
  <2>1. /\ db[Src][r.key] # Absent /\ r.val = db[Src][r.key] /\ ~Acked(r.key)
        /\ Acked(r.key)' <=> restoreCommand(r).ok
        /\ \A k : k # r.key => (Acked(k)' <=> Acked(k))
        /\ mig'.on /\ mig'.conn = mig.conn
    BY <1>3, RestoreActs
  <2>2. NoStray'
    BY <1>1, <2>1 DEF NoStray
  <2> SUFFICES ASSUME NEW k \in Keys \ doubt PROVE KeyAt(k)'
    BY <1>1, <2>2 DEF KeyInv
  <2>3. KeyAt(k)
    BY DEF KeyInv
  <2>4. CASE k # r.key
    BY <1>1, <2>1, <2>3, <2>4 DEF KeyAt
  <2>5. CASE k = r.key
    <3>1. importing \/ owner[Dst] = Dst
      BY <1>3 DEF SlotInv
    <3>2. getNodeByQuery(Dst, {r.key}, TRUE) = "serve"
      BY <3>1, ServesOne
    <3>3. db[Dst][k] = Absent /\ db[Src][k] = truth[k]
      BY <2>1, <2>3, <2>5 DEF KeyAt
    <3>4. restoreCommand(r).ok
      BY <2>5, <3>2, <3>3 DEF restoreCommand
    <3> QED BY <1>1, <2>1, <2>5, <3>3, <3>4 DEF KeyAt
  <2> QED BY <2>4, <2>5
<1> QED
  BY <1>2, <1>3

LEMMA KeyRead ==
  ASSUME MigrationAssumption, TypeOK, MigInv, NoStray, KeyInv, readReply
  PROVE  NoStray' /\ KeyInv'
<1>k. PICK K : K = Head(mig.keys)
  OBVIOUS
<1>1. /\ UNCHANGED <<truth, wire, doubt>> /\ db'[Dst] = db[Dst] /\ mig'.conn = mig.conn
      /\ \A k \in Keys : k # K => db'[Src][k] = db[Src][k] /\ (Acked(k)' <=> Acked(k))
      /\ Acked(K) => db'[Src][K] = Absent
      /\ ~Acked(K) => db'[Src][K] = db[Src][K]
      /\ ~Acked(K)'
      /\ \A r \in wire : r.conn = mig.conn => mig'.on
  BY <1>k, ReadActs
<1>2. NoStray'
  BY <1>1 DEF NoStray
<1> SUFFICES ASSUME NEW k \in Keys \ doubt PROVE KeyAt(k)'
  BY <1>1, <1>2 DEF KeyInv
<1>3. KeyAt(k)
  BY DEF KeyInv
<1>4. CASE k # K
  BY <1>1, <1>3, <1>4 DEF KeyAt
<1>5. CASE k = K
  BY <1>1, <1>3, <1>5 DEF KeyAt
<1> QED
  BY <1>4, <1>5

LEMMA KeyInit ==
  ASSUME MigrationAssumption, Init
  PROVE  NoStray /\ KeyInv
<1>0. Src # Dst /\ Src \in Nodes /\ Dst \in Nodes
  BY DEF MigrationAssumption, Nodes
<1>1. mig.on = FALSE /\ wire = {}
  BY DEF Init, NoMigrate
<1>2. \A k \in Keys : db[Dst][k] = Absent /\ db[Src][k] = truth[k]
  BY <1>0 DEF Init
<1> QED
  BY <1>1, <1>2 DEF NoStray, KeyInv, KeyAt, Acked

LEMMA KeyStep ==
  ASSUME MigrationAssumption, TypeOK, MigInv, SlotInv, NoStray, KeyInv, [Next]_vars
  PROVE  NoStray' /\ KeyInv'
<1>0. Src \in Nodes /\ Dst \in Nodes /\ Src # Dst
  BY DEF MigrationAssumption, Nodes
<1> USE DEF slotvars, clients, moving, link
<1>1. ASSUME NEW n \in Nodes, NEW K \in Args, NEW op \in {"write", "del"}, command(n, K, op)
      PROVE  NoStray' /\ KeyInv'
  <2>1. /\ ~Stuck(n) /\ UNCHANGED <<slotvars, moving, link>>
        /\ \/ getNodeByQuery(n, K, FALSE) = "serve" /\ Execute(n, K, op) /\ UNCHANGED asking
           \/ /\ getNodeByQuery(n, K, FALSE) = "ask" /\ asking' = asking \cup {[keys |-> K, op |-> op]}
              /\ UNCHANGED <<db, truth, writes, blocked>>
    BY <1>1, CommandCases
  <2>2. CASE getNodeByQuery(n, K, FALSE) = "serve" /\ Execute(n, K, op)
    <3>2. owner[n] = n /\ (n = Src /\ migrating => \A k \in K : db[Src][k] # Absent)
      BY <2>2, ServesOwner
    <3>3. n = Src => ~Opened \/ \A k \in K : db[Src][k] # Absent
      BY <1>0, <3>2 DEF SlotInv
    <3>4. n = Src => ~mig.on
      BY <2>1 DEF Stuck
    <3>5. n = Dst => \A k \in K : db[Src][k] = Absent
      <4>1. K \subseteq Keys
        BY DEF Args
      <4> QED BY <3>2, <4>1 DEF SlotInv, NoneAtSrc
    <3>7. KeyInv'
      BY <2>1, <2>2, <3>3, <3>4, <3>5, KeyExecuted
    <3>8. NoStray'
      BY <2>1 DEF NoStray
    <3> QED BY <3>7, <3>8
  <2>3. CASE UNCHANGED <<db, truth, writes, blocked>>
    BY <2>1, <2>3, KeyFrame
  <2> QED BY <2>1, <2>2, <2>3
<1>2. ASSUME NEW a \in asking, askingCommand(a) PROVE NoStray' /\ KeyInv'
  <2>1. a.keys \in Args /\ a.op \in {"write", "del"}
    BY DEF TypeOK
  <2>2. /\ \/ getNodeByQuery(Dst, a.keys, TRUE) = "serve" /\ Execute(Dst, a.keys, a.op)
           \/ UNCHANGED <<db, truth, writes, blocked>>
        /\ UNCHANGED <<mig, wire, doubt>>
    BY <1>2 DEF askingCommand
  <2>3. CASE getNodeByQuery(Dst, a.keys, TRUE) = "serve" /\ Execute(Dst, a.keys, a.op)
    <3>1. \A k \in a.keys \ doubt : db[Src][k] = Absent \/ Acked(k)
      BY <2>3, AskingServes
    <3>3. KeyInv'
      BY <1>0, <2>1, <2>2, <2>3, <3>1, KeyExecuted
    <3>4. NoStray'
      BY <2>2 DEF NoStray
    <3> QED BY <3>3, <3>4
  <2>4. CASE UNCHANGED <<db, truth, writes, blocked>>
    BY <2>2, <2>4, KeyFrame
  <2> QED BY <2>2, <2>3, <2>4
<1>3. ASSUME NEW k \in Keys, block(k) \/ clusterRedirectBlockedClientIfNeeded(k)
      PROVE  NoStray' /\ KeyInv'
  <2>1. UNCHANGED <<db, truth, mig, wire, doubt>>
    BY <1>3 DEF block, clusterRedirectBlockedClientIfNeeded
  <2> QED BY <2>1, KeyFrame
<1>4. CASE setslotImporting \/ setslotMigrating \/ setslotNodeTarget \/ setslotNodeSource
  <2>1. UNCHANGED <<db, truth, mig, wire, doubt>>
    BY <1>4 DEF setslotImporting, setslotMigrating, setslotNodeTarget, setslotNodeSource
  <2> QED BY <2>1, KeyFrame
<1>5. CASE clusterManagerMigrateKeysInSlot \/ migrateReply \/ digestSource \/ clusterManagerCompareKeysValues \/ again
  <2>1. UNCHANGED <<slotvars, db, clients, link>>
    BY <1>5, CliSteps
  <2> QED BY <2>1, KeyFrame
<1>6. CASE clusterManagerMigrateKeysInReply
  <2>1. /\ UNCHANGED <<slotvars, db, clients, runs, digest, doubt>> /\ ~mig.on
        /\ mig'.on => mig'.replies = <<>>
        /\ \A r \in wire' : r \in wire \/ (mig'.on /\ r.conn = mig'.conn)
    BY <1>6, MigrateSent
  <2>2. \A k : ~Acked(k) /\ ~Acked(k)'
    BY <2>1 DEF Acked
  <2> QED BY <2>1, <2>2 DEF NoStray, KeyInv, KeyAt
<1>7. CASE readReply
  BY <1>7, KeyRead
<1>8. ASSUME NEW r \in wire, restore(r) PROVE NoStray' /\ KeyInv'
  BY <1>8, KeyRestored
<1>9. CASE clusterUpdateSlotsConfigWith
  <2>1. NoneAtSrc
    BY <1>9 DEF clusterUpdateSlotsConfigWith, SlotInv
  <2>2. /\ UNCHANGED <<truth, mig, wire, doubt>>
        /\ db' = db \/ db' = [db EXCEPT ![Src] = [k \in Keys |-> Absent]]
    BY <1>9 DEF clusterUpdateSlotsConfigWith
  <2>3. db[Src] = [k \in Keys |-> Absent]
    BY <1>0, <2>1 DEF NoneAtSrc, TypeOK
  <2>4. db' = db
    BY <1>0, <2>2, <2>3 DEF TypeOK
  <2> QED BY <2>2, <2>4, KeyFrame
<1>10. CASE timeout \/ broken
  <2>1. /\ UNCHANGED <<slotvars, db, clients, moving>> /\ mig.on /\ mig'.replies = <<>>
        /\ doubt' = doubt \cup ToSet(mig.keys)
        /\ \A r \in wire' : (mig'.on /\ r.conn = mig'.conn) \/ r \in wire
    BY <1>10, LinkLost
  <2>2. \A r \in wire : r.key \in doubt'
    BY <2>1, SentKey DEF NoStray
  <2>3. \A k \in Keys \ doubt' : ~Acked(k)
    BY <2>1, AckedAtSrc
  <2>4. \A k : ~Acked(k)'
    BY <2>1 DEF Acked
  <2>5. NoStray'
    BY <2>1, <2>2 DEF NoStray
  <2> QED BY <2>1, <2>3, <2>4, <2>5 DEF KeyInv, KeyAt
<1>11. CASE UNCHANGED vars
  <2>1. UNCHANGED <<db, truth, mig, wire, doubt>>
    BY <1>11 DEF vars
  <2> QED BY <2>1, KeyFrame
<1> QED
  BY <1>1, <1>2, <1>3, <1>4, <1>5, <1>6, <1>7, <1>8, <1>9, <1>10, <1>11
  DEF Next, Client, Command, Move, Deliver, Redirect

LEMMA MigrationInvariant ==
  ASSUME MigrationAssumption PROVE Spec => [](TypeOK /\ MigInv /\ SlotInv /\ NoStray /\ KeyInv)
<1>1. ASSUME Init PROVE TypeOK /\ MigInv /\ SlotInv /\ NoStray /\ KeyInv
  BY <1>1, MigrationTypeInit, SlotInit, KeyInit
<1>2. ASSUME TypeOK /\ MigInv /\ SlotInv /\ NoStray /\ KeyInv, [Next]_vars
      PROVE  (TypeOK /\ MigInv /\ SlotInv /\ NoStray /\ KeyInv)'
  BY <1>2, MigrationTypeStep, SlotStep, KeyStep
<1> QED
  BY <1>1, <1>2, PTL DEF Spec

\* While redis-cli moves the slot and clients use it between any two of its
\* steps, whichever node serves a command has every key of it as the last
\* write left it, but for keys that a MIGRATE lost its connection over before
\* Dst answered: no write is hidden by the move and no key is served by both
\* nodes, with any number of keys per command and any failure of connections.
THEOREM MigrationServesLastValue ==
  ASSUME MigrationAssumption
  PROVE  Spec => []SafeToServe
<1>1. ASSUME TypeOK, SlotInv, KeyInv PROVE SafeToServe
  <2>1. ASSUME NEW n \in Nodes, NEW K \in Args, ~Stuck(n), getNodeByQuery(n, K, FALSE) = "serve"
        PROVE  \A k \in K \ doubt : db[n][k] = truth[k]
    BY <1>1, <2>1, OwnerServes
  <2>2. ASSUME NEW a \in asking, getNodeByQuery(Dst, a.keys, TRUE) = "serve"
        PROVE  \A k \in a.keys \ doubt : db[Dst][k] = truth[k]
    BY <1>1, <2>2, AskingServes
  <2> QED BY <2>1, <2>2 DEF SafeToServe
<1> QED
  BY <1>1, MigrationInvariant, PTL

-----------------------------------------------------------------------------
(* The keys in doubt.                                                      *)

\* A command of one key that Dst serves is about a key that Src has not.
LEMMA ServedAtDst ==
  ASSUME MigrationAssumption, TypeOK, SlotInv, MaxArgs <= 1,
         NEW K, \/ K \in Args /\ getNodeByQuery(Dst, K, FALSE) = "serve"
                \/ \E a \in asking : K = a.keys /\ getNodeByQuery(Dst, K, TRUE) = "serve"
  PROVE  K \subseteq Keys /\ \A k \in K : db[Src][k] = Absent
<1>1. CASE K \in Args /\ getNodeByQuery(Dst, K, FALSE) = "serve"
  <2>1. owner[Dst] = Dst /\ K \subseteq Keys
    BY <1>1, ServesOwner DEF Nodes, Args
  <2> QED BY <2>1 DEF SlotInv, NoneAtSrc
<1>2. CASE \E a \in asking : K = a.keys /\ getNodeByQuery(Dst, K, TRUE) = "serve"
  <2>1. ~(MaxArgs > 1)
    BY DEF MigrationAssumption
  <2> QED BY <1>2, <2>1, AskedKeys
<1> QED BY <1>1, <1>2

\* A command, by Src or by Dst.
LEMMA OneKeyExecuted ==
  ASSUME MigrationAssumption, TypeOK, SlotInv, MaxArgs <= 1,
         \/ \E n \in Nodes, K \in Args, op \in {"write", "del"} : command(n, K, op)
         \/ \E a \in asking : askingCommand(a)
  PROVE  /\ UNCHANGED <<slotvars, moving, link>>
         /\ \/ UNCHANGED <<db, truth>>
            \/ \E n \in Nodes, K \in SUBSET Keys :
                 /\ \A m \in Nodes : m # n => db'[m] = db[m]
                 /\ \A k \in Keys : k \notin K => db'[n][k] = db[n][k] /\ truth'[k] = truth[k]
                 /\ \A k \in K : db'[n][k] = truth'[k]
                 /\ n = Src => ~mig.on
                 /\ n = Dst => \A k \in K : db[Src][k] = Absent
<1>0. Src \in Nodes /\ Dst \in Nodes /\ Src # Dst
  BY DEF MigrationAssumption, Nodes
<1>1. ASSUME NEW n \in Nodes, NEW K \in Args, NEW op \in {"write", "del"}, command(n, K, op)
      PROVE  /\ UNCHANGED <<slotvars, moving, link>>
             /\ \/ UNCHANGED <<db, truth>>
                \/ /\ \A m \in Nodes : m # n => db'[m] = db[m]
                   /\ \A k \in Keys : k \notin K => db'[n][k] = db[n][k] /\ truth'[k] = truth[k]
                   /\ \A k \in K : db'[n][k] = truth'[k]
                   /\ n = Src => ~mig.on
                   /\ n = Dst => \A k \in K : db[Src][k] = Absent
  <2>1. /\ ~Stuck(n) /\ UNCHANGED <<slotvars, moving, link>>
        /\ \/ getNodeByQuery(n, K, FALSE) = "serve" /\ Execute(n, K, op) /\ UNCHANGED asking
           \/ UNCHANGED <<db, truth, writes, blocked>>
    BY <1>1, CommandCases
  <2>2. n = Src => ~mig.on
    BY <2>1 DEF Stuck
  <2>3. getNodeByQuery(n, K, FALSE) = "serve" /\ n = Dst => \A k \in K : db[Src][k] = Absent
    BY ServedAtDst
  <2>4. Execute(n, K, op) => /\ \A m \in Nodes : m # n => db'[m] = db[m]
                             /\ \A k \in Keys : k \notin K => db'[n][k] = db[n][k] /\ truth'[k] = truth[k]
                             /\ \A k \in K : db'[n][k] = truth'[k]
    BY Executed
  <2> QED BY <2>1, <2>2, <2>3, <2>4
<1>2. ASSUME NEW a \in asking, askingCommand(a)
      PROVE  /\ UNCHANGED <<slotvars, moving, link>>
             /\ \/ UNCHANGED <<db, truth>>
                \/ /\ \A m \in Nodes : m # Dst => db'[m] = db[m]
                   /\ \A k \in Keys : k \notin a.keys => db'[Dst][k] = db[Dst][k] /\ truth'[k] = truth[k]
                   /\ \A k \in a.keys : db'[Dst][k] = truth'[k] /\ db[Src][k] = Absent
  <2>1. a.keys \in Args /\ a.op \in {"write", "del"}
    BY DEF TypeOK
  <2>2. /\ \/ getNodeByQuery(Dst, a.keys, TRUE) = "serve" /\ Execute(Dst, a.keys, a.op)
           \/ UNCHANGED <<db, truth, writes, blocked>>
        /\ UNCHANGED <<slotvars, moving, link>>
    BY <1>2 DEF askingCommand
  <2>3. getNodeByQuery(Dst, a.keys, TRUE) = "serve" => \A k \in a.keys : db[Src][k] = Absent
    BY ServedAtDst
  <2>4. Execute(Dst, a.keys, a.op) =>
          /\ \A m \in Nodes : m # Dst => db'[m] = db[m]
          /\ \A k \in Keys : k \notin a.keys => db'[Dst][k] = db[Dst][k] /\ truth'[k] = truth[k]
          /\ \A k \in a.keys : db'[Dst][k] = truth'[k]
    BY <1>0, <2>1, Executed
  <2> QED BY <2>2, <2>3, <2>4
<1>3. CASE \E n \in Nodes, K \in Args, op \in {"write", "del"} : command(n, K, op)
  <2>1. PICK n \in Nodes, K \in Args, op \in {"write", "del"} : command(n, K, op)
    BY <1>3
  <2>2. K \in SUBSET Keys
    BY DEF Args
  <2> QED BY <1>1, <2>1, <2>2
<1>4. CASE \E a \in asking : askingCommand(a)
  <2>1. PICK a \in asking : askingCommand(a)
    BY <1>4
  <2>2. a.keys \in SUBSET Keys
    BY DEF TypeOK, Args
  <2> QED BY <1>0, <1>2, <2>1, <2>2
<1> QED BY <1>3, <1>4

LEMMA SourceStep ==
  ASSUME MigrationAssumption, TypeOK, MigInv, SlotInv, SourceIsRight, [Next]_vars
  PROVE  SourceIsRight'
<1>0. Src \in Nodes /\ Dst \in Nodes /\ Src # Dst
  BY DEF MigrationAssumption, Nodes
<1> SUFFICES ASSUME MaxArgs <= 1 PROVE \A k \in Keys : db'[Src][k] \in {Absent, truth'[k]}
  BY DEF SourceIsRight
<1>h. \A k \in Keys : db[Src][k] \in {Absent, truth[k]}
  BY DEF SourceIsRight
<1> USE DEF slotvars, clients, moving, link
<1>1. CASE \/ \E n \in Nodes, K \in Args, op \in {"write", "del"} : command(n, K, op)
           \/ \E a \in asking : askingCommand(a)
  <2>1. CASE UNCHANGED <<db, truth>>
    BY <1>h, <2>1
  <2>2. ASSUME NEW n \in Nodes, NEW K \in SUBSET Keys,
               \A m \in Nodes : m # n => db'[m] = db[m],
               \A k \in Keys : k \notin K => db'[n][k] = db[n][k] /\ truth'[k] = truth[k],
               \A k \in K : db'[n][k] = truth'[k],
               n = Dst => \A k \in K : db[Src][k] = Absent
        PROVE  \A k \in Keys : db'[Src][k] \in {Absent, truth'[k]}
    BY <1>0, <1>h, <2>2 DEF Nodes
  <2> QED BY <1>1, <2>1, <2>2, OneKeyExecuted
<1>2. ASSUME NEW k \in Keys, block(k) \/ clusterRedirectBlockedClientIfNeeded(k)
      PROVE  UNCHANGED <<db, truth>>
  BY <1>2 DEF block, clusterRedirectBlockedClientIfNeeded
<1>3. CASE setslotImporting \/ setslotMigrating \/ setslotNodeTarget \/ setslotNodeSource
  BY <1>h, <1>3 DEF setslotImporting, setslotMigrating, setslotNodeTarget, setslotNodeSource
<1>4. CASE clusterManagerMigrateKeysInSlot \/ migrateReply \/ digestSource \/ clusterManagerCompareKeysValues \/ again
  <2>1. UNCHANGED <<db, truth>>
    BY <1>4, CliSteps
  <2> QED BY <1>h, <2>1
<1>5. CASE clusterManagerMigrateKeysInReply
  <2>1. UNCHANGED <<db, truth>>
    BY <1>5, MigrateSent
  <2> QED BY <1>h, <2>1
<1>6. CASE readReply
  <2>1. PICK K : K = Head(mig.keys)
    OBVIOUS
  <2>2. /\ truth' = truth /\ \A k \in Keys : k # K => db'[Src][k] = db[Src][k]
        /\ db'[Src][K] \in {Absent, db[Src][K]}
    BY <1>6, <2>1, ReadActs
  <2> QED BY <1>h, <2>2
<1>7. ASSUME NEW r \in wire, restore(r) PROVE UNCHANGED truth /\ db'[Src] = db[Src]
  BY <1>7, RestoreKeys
<1>8. CASE clusterUpdateSlotsConfigWith
  <2>1. truth' = truth /\ (db' = db \/ db' = [db EXCEPT ![Src] = [k \in Keys |-> Absent]])
    BY <1>8 DEF clusterUpdateSlotsConfigWith
  <2> QED BY <1>0, <1>h, <2>1 DEF TypeOK
<1>9. CASE timeout \/ broken
  <2>1. UNCHANGED <<db, truth>>
    BY <1>9, LinkLost
  <2> QED BY <1>h, <2>1
<1>10. CASE UNCHANGED vars
  BY <1>h, <1>10 DEF vars
<1> QED
  BY <1>h, <1>1, <1>2, <1>3, <1>4, <1>5, <1>6, <1>7, <1>8, <1>9, <1>10
  DEF Next, Client, Command, Move, Deliver, Redirect

\* With commands of one key, what Src has of a key is its last value, however
\* MIGRATE, its retries and the comparison of redis-cli are interleaved with
\* clients: redis-cli may replace the copy at Dst by the one at Src.
THEOREM MigrationSourceIsRight == ASSUME MigrationAssumption PROVE Spec => []SourceIsRight
<1>1. ASSUME Init PROVE SourceIsRight
  <2>1. Src \in Nodes
    BY DEF Nodes
  <2> QED BY <1>1, <2>1 DEF Init, SourceIsRight
<1>2. Spec => [](TypeOK /\ MigInv /\ SlotInv /\ SourceIsRight)
  BY <1>1, MigrationTypeInit, MigrationTypeStep, SlotInit, SlotStep, SourceStep, PTL DEF Spec
<1> QED
  BY <1>2, PTL

\* When commands have one key and nothing is run late, only the MIGRATE in
\* progress has anything on its way, and a key that is not at Src, or is
\* confirmed, is at Dst.
LostInv ==
  MaxArgs <= 1 /\ "late" \notin Errors =>
    /\ \A r \in wire : mig.on /\ r.conn = mig.conn
    /\ \A k \in Keys : /\ truth[k] # Absent /\ db[Src][k] = Absent => db[Dst][k] = truth[k]
                       /\ Acked(k) => db[Dst][k] = db[Src][k]

LEMMA LostStep ==
  ASSUME MigrationAssumption, TypeOK, MigInv, SlotInv, SourceIsRight, LostInv, [Next]_vars
  PROVE  LostInv'
<1>0. Src \in Nodes /\ Dst \in Nodes /\ Src # Dst
  BY DEF MigrationAssumption, Nodes
<1> DEFINE Held(k) == /\ truth[k] # Absent /\ db[Src][k] = Absent => db[Dst][k] = truth[k]
                      /\ Acked(k) => db[Dst][k] = db[Src][k]
           Alone == \A r \in wire : mig.on /\ r.conn = mig.conn
<1> SUFFICES ASSUME MaxArgs <= 1, "late" \notin Errors PROVE Alone' /\ \A k \in Keys : Held(k)'
  BY DEF LostInv
<1>h. Alone /\ \A k \in Keys : Held(k) /\ db[Src][k] \in {Absent, truth[k]}
  BY DEF LostInv, SourceIsRight
<1>f. ASSUME UNCHANGED <<db, truth, mig, wire>> PROVE Alone' /\ \A k \in Keys : Held(k)'
  BY <1>h, <1>f DEF Acked
<1> USE DEF slotvars, clients, moving, link
<1>1. CASE \/ \E n \in Nodes, K \in Args, op \in {"write", "del"} : command(n, K, op)
           \/ \E a \in asking : askingCommand(a)
  <2>0. UNCHANGED <<mig, wire>>
    BY <1>1, OneKeyExecuted
  <2>1. CASE UNCHANGED <<db, truth>>
    BY <1>f, <2>0, <2>1
  <2>2. ASSUME NEW n \in Nodes, NEW K \in SUBSET Keys,
               \A m \in Nodes : m # n => db'[m] = db[m],
               \A k \in Keys : k \notin K => db'[n][k] = db[n][k] /\ truth'[k] = truth[k],
               \A k \in K : db'[n][k] = truth'[k],
               n = Src => ~mig.on,
               n = Dst => \A k \in K : db[Src][k] = Absent
        PROVE  \A k \in Keys : Held(k)'
    <3>1. \A k \in Keys : Acked(k)' <=> Acked(k)
      BY <2>0 DEF Acked
    <3> SUFFICES ASSUME NEW k \in Keys PROVE Held(k)'
      OBVIOUS
    <3>2. CASE k \notin K
      BY <1>0, <1>h, <2>2, <3>1, <3>2 DEF Nodes
    <3>3. CASE k \in K /\ n = Src
      <4>1. ~Acked(k)
        BY <2>2, <3>3 DEF Acked
      <4> QED BY <2>2, <3>1, <3>3, <4>1
    <3>4. CASE k \in K /\ n = Dst
      <4>1. ~Acked(k)
        BY <2>2, <3>4, AckedAtSrc
      <4> QED BY <2>2, <3>1, <3>4, <4>1
    <3> QED BY <3>2, <3>3, <3>4 DEF Nodes
  <2>3. Alone'
    BY <1>h, <2>0
  <2> QED BY <1>1, <2>1, <2>2, <2>3, OneKeyExecuted
<1>2. ASSUME NEW k \in Keys, block(k) \/ clusterRedirectBlockedClientIfNeeded(k)
      PROVE  UNCHANGED <<db, truth, mig, wire>>
  BY <1>2 DEF block, clusterRedirectBlockedClientIfNeeded
<1>3. CASE setslotImporting \/ setslotMigrating \/ setslotNodeTarget \/ setslotNodeSource
  <2>1. UNCHANGED <<db, truth, mig, wire>>
    BY <1>3 DEF setslotImporting, setslotMigrating, setslotNodeTarget, setslotNodeSource
  <2> QED BY <1>f, <2>1
<1>4. CASE clusterManagerMigrateKeysInSlot \/ migrateReply \/ digestSource \/ clusterManagerCompareKeysValues \/ again
  <2>1. UNCHANGED <<db, truth, mig, wire>>
    BY <1>4, CliSteps
  <2> QED BY <1>f, <2>1
<1>5. CASE clusterManagerMigrateKeysInReply
  <2>1. /\ UNCHANGED <<db, truth>> /\ ~mig.on
        /\ mig'.on => mig'.replies = <<>>
        /\ \A r \in wire' : r \in wire \/ (mig'.on /\ r.conn = mig'.conn)
    BY <1>5, MigrateSent
  <2>2. \A k : ~Acked(k)'
    BY <2>1 DEF Acked
  <2> QED BY <1>h, <2>1, <2>2
<1>6. CASE readReply
  <2>k. PICK K : K = Head(mig.keys)
    OBVIOUS
  <2>1. /\ UNCHANGED <<truth, wire>> /\ db'[Dst] = db[Dst] /\ mig'.conn = mig.conn
        /\ \A k \in Keys : k # K => db'[Src][k] = db[Src][k] /\ (Acked(k)' <=> Acked(k))
        /\ Acked(K) => db'[Src][K] = Absent
        /\ ~Acked(K) => db'[Src][K] = db[Src][K]
        /\ ~Acked(K)'
        /\ \A r \in wire : r.conn = mig.conn => mig'.on
    BY <1>6, <2>k, ReadActs
  <2>2. Alone'
    BY <1>h, <2>1
  <2> SUFFICES ASSUME NEW k \in Keys PROVE Held(k)'
    BY <2>2
  <2>3. CASE k # K
    BY <1>h, <2>1, <2>3
  <2>4. CASE k = K
    <3>1. Acked(k) => db[Src][k] # Absent
      BY AckedAtSrc
    <3> QED BY <1>h, <2>1, <2>4, <3>1
  <2> QED BY <2>3, <2>4
<1>7. ASSUME NEW r \in wire, restore(r) PROVE Alone' /\ \A k \in Keys : Held(k)'
  <2>0. mig.on /\ r.conn = mig.conn
    BY <1>h
  <2>1. /\ UNCHANGED truth /\ db'[Src] = db[Src] /\ wire' \subseteq wire
        /\ \A k \in Keys : k # r.key => db'[Dst][k] = db[Dst][k]
        /\ restoreCommand(r).ok => db'[Dst][r.key] = r.val
        /\ ~restoreCommand(r).ok => db' = db
    BY <1>7, RestoreKeys
  <2>2. /\ db[Src][r.key] # Absent /\ r.val = db[Src][r.key]
        /\ Acked(r.key)' <=> restoreCommand(r).ok
        /\ \A k : k # r.key => (Acked(k)' <=> Acked(k))
        /\ mig'.on /\ mig'.conn = mig.conn
    BY <1>7, <2>0, RestoreActs
  <2>3. Alone'
    BY <1>h, <2>1, <2>2
  <2> SUFFICES ASSUME NEW k \in Keys PROVE Held(k)'
    BY <2>3
  <2>4. CASE k # r.key
    BY <1>h, <2>1, <2>2, <2>4
  <2>5. CASE k = r.key
    BY <1>h, <2>1, <2>2, <2>5
  <2> QED BY <2>4, <2>5
<1>8. CASE clusterUpdateSlotsConfigWith
  <2>1. NoneAtSrc
    BY <1>8 DEF clusterUpdateSlotsConfigWith, SlotInv
  <2>2. /\ UNCHANGED <<truth, mig, wire>>
        /\ db' = db \/ db' = [db EXCEPT ![Src] = [k \in Keys |-> Absent]]
    BY <1>8 DEF clusterUpdateSlotsConfigWith
  <2>3. db[Src] = [k \in Keys |-> Absent]
    BY <1>0, <2>1 DEF NoneAtSrc, TypeOK
  <2>4. db' = db
    BY <1>0, <2>2, <2>3 DEF TypeOK
  <2> QED BY <1>f, <2>2, <2>4
<1>9. CASE timeout \/ broken
  <2>1. /\ UNCHANGED <<db, truth>> /\ mig'.replies = <<>>
        /\ \A r \in wire' : (mig'.on /\ r.conn = mig'.conn) \/ (r \in wire /\ r.conn # mig.conn)
    BY <1>9, LinkLost
  <2>2. \A k : ~Acked(k)'
    BY <2>1 DEF Acked
  <2> QED BY <1>h, <2>1, <2>2
<1>10. CASE UNCHANGED vars
  <2>1. UNCHANGED <<db, truth, mig, wire>>
    BY <1>10 DEF vars
  <2> QED BY <1>f, <2>1
<1> QED
  BY <1>f, <1>1, <1>2, <1>3, <1>4, <1>5, <1>6, <1>7, <1>8, <1>9, <1>10
  DEF Next, Client, Command, Move, Deliver, Redirect

\* No write is lost by the move: Src deletes a key only when Dst has confirmed
\* it, and neither a retry of MIGRATE nor a copy of the key that was run although
\* its answer was lost takes the place of a newer value.  That holds for every
\* key that no connection was lost over and, where commands have one key and
\* nothing is run late, for the others too.
THEOREM MigrationLosesNothing ==
  ASSUME MigrationAssumption
  PROVE  Spec => []NothingLost
<1>1. ASSUME Init PROVE LostInv /\ SourceIsRight
  <2>1. mig.on = FALSE /\ wire = {} /\ Src \in Nodes
    BY <1>1 DEF Init, NoMigrate, Nodes
  <2>2. \A k \in Keys : db[Src][k] = truth[k]
    BY <1>1, <2>1 DEF Init
  <2> QED BY <2>1, <2>2 DEF LostInv, Acked, SourceIsRight
<1>2. Spec => [](TypeOK /\ MigInv /\ SlotInv /\ SourceIsRight /\ LostInv)
  BY <1>1, MigrationTypeInit, MigrationTypeStep, SlotInit, SlotStep, SourceStep, LostStep, PTL DEF Spec
<1>3. ASSUME TypeOK, MigInv, SlotInv, NoStray, KeyInv, SourceIsRight, LostInv PROVE NothingLost
  <2> SUFFICES ASSUME NEW k \in Keys, truth[k] # Absent,
                      k \notin doubt \/ (MaxArgs <= 1 /\ "late" \notin Errors)
               PROVE  \E n \in Nodes : db[n][k] = truth[k]
    BY DEF NothingLost
  <2>0. Src \in Nodes /\ Dst \in Nodes
    BY DEF Nodes
  <2>1. CASE k \notin doubt
    BY <1>3, <2>0, <2>1 DEF KeyInv, KeyAt
  <2>2. CASE MaxArgs <= 1 /\ "late" \notin Errors
    BY <1>3, <2>0, <2>2 DEF SourceIsRight, LostInv
  <2> QED BY <2>1, <2>2
<1> QED
  BY <1>2, <1>3, MigrationInvariant, PTL
=============================================================================
