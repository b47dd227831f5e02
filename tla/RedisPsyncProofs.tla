-------------------------- MODULE RedisPsyncProofs --------------------------
(***************************************************************************)
(* Proofs about RedisPsync, for any number of servers, any size of the     *)
(* backlog and any bounds: the servers that trust each other's IDs and     *)
(* offsets have the data that these promise.                               *)
(*                                                                         *)
(* The argument gives every replication ID a history: which writes it      *)
(* stands for, how far they got, and who may extend it.  No server knows   *)
(* it, and no two need to be compared: every server, file and message is   *)
(* compared with the history of the ID it names.                           *)
(***************************************************************************)
EXTENDS RedisPsync, TLAPS, FiniteSetTheorems, SequenceTheorems

-----------------------------------------------------------------------------
(* Data sets and the writes that lead from one to another.                 *)

LEMMA SeqAppend ==
  ASSUME NEW S, NEW s \in Seq(S), NEW e \in S
  PROVE  /\ Append(s, e) \in Seq(S) /\ Append(s, e) # <<>> /\ Len(s) \in Nat /\ Len(Append(s, e)) = Len(s) + 1
         /\ Append(s, e)[Len(s) + 1] = e
         /\ \A i \in 1..Len(s) : Append(s, e)[i] = s[i]
OBVIOUS

LEMMA SeqTail ==
  ASSUME NEW S, NEW s \in Seq(S), s # <<>>
  PROVE  /\ Head(s) = s[1] /\ s[1] \in S /\ Len(s) \in Nat /\ Len(s) >= 1
         /\ Tail(s) \in Seq(S) /\ Len(Tail(s)) = Len(s) - 1
         /\ \A i \in 1..(Len(s) - 1) : Tail(s)[i] = s[i + 1]
OBVIOUS

\* D with the writes ws is S.
Continues(D, ws, S) ==
  /\ Len(D) + Len(ws) = Len(S)
  /\ \A i \in 1..Len(D) : S[i] = D[i]
  /\ \A i \in 1..Len(ws) : S[Len(D) + i] = ws[i]

LEMMA ContinuesSelf ==
  ASSUME NEW D \in Seq(Nat)
  PROVE  Continues(D, <<>>, D)
BY DEF Continues

\* The master makes one more write.
LEMMA ContinuesAppend ==
  ASSUME NEW D \in Seq(Nat), NEW ws \in Seq(Nat), NEW S \in Seq(Nat), NEW w \in Nat, Continues(D, ws, S)
  PROVE  Continues(D, Append(ws, w), Append(S, w))
<1>1. /\ Len(D) \in Nat /\ Len(ws) \in Nat /\ Len(S) \in Nat
      /\ Len(D) + Len(ws) = Len(S)
      /\ \A i \in 1..Len(D) : S[i] = D[i]
      /\ \A i \in 1..Len(ws) : S[Len(D) + i] = ws[i]
  BY DEF Continues
<1>2. /\ Len(Append(ws, w)) = Len(ws) + 1 /\ Len(Append(S, w)) = Len(S) + 1
      /\ Append(ws, w)[Len(ws) + 1] = w /\ Append(S, w)[Len(S) + 1] = w
      /\ \A i \in 1..Len(ws) : Append(ws, w)[i] = ws[i]
      /\ \A i \in 1..Len(S) : Append(S, w)[i] = S[i]
  BY SeqAppend
<1>3. \A i \in 1..Len(D) : Append(S, w)[i] = D[i]
  <2>1. \A i \in 1..Len(D) : i \in 1..Len(S)
    BY <1>1
  <2> QED BY <1>1, <1>2, <2>1
<1>4. ASSUME NEW i \in 1..(Len(ws) + 1) PROVE Append(S, w)[Len(D) + i] = Append(ws, w)[i]
  <2>1. CASE i = Len(ws) + 1
    <3>1. Len(D) + i = Len(S) + 1
      BY <1>1, <2>1
    <3> QED BY <1>2, <2>1, <3>1
  <2>2. CASE i # Len(ws) + 1
    <3>1. i \in 1..Len(ws) /\ Len(D) + i \in 1..Len(S)
      BY <1>1, <2>2
    <3> QED BY <1>1, <1>2, <3>1
  <2> QED BY <2>1, <2>2
<1> DEFINE T == Append(S, w)
           vs == Append(ws, w)
<1>5. /\ Len(vs) = Len(ws) + 1 /\ Len(T) = Len(S) + 1
      /\ \A i \in 1..Len(D) : T[i] = D[i]
      /\ \A i \in 1..(Len(ws) + 1) : T[Len(D) + i] = vs[i]
  BY <1>2, <1>3, <1>4
<1> HIDE DEF T, vs
<1>6. Len(D) + Len(vs) = Len(T)
  <2>1. Len(D) + (Len(ws) + 1) = Len(S) + 1
    BY <1>1
  <2>2. Len(vs) = Len(ws) + 1 /\ Len(T) = Len(S) + 1
    BY <1>5
  <2> QED BY <2>1, <2>2, Zenon
<1>7. Continues(D, vs, T)
  BY <1>5, <1>6 DEF Continues
<1> QED
  BY <1>7 DEF T, vs

\* The replica applies the first of them.
LEMMA ContinuesApply ==
  ASSUME NEW D \in Seq(Nat), NEW ws \in Seq(Nat), NEW S \in Seq(Nat), ws # <<>>, Continues(D, ws, S)
  PROVE  Continues(Append(D, Head(ws)), Tail(ws), S)
<1>1. /\ Len(D) \in Nat /\ Len(ws) \in Nat /\ Len(S) \in Nat /\ Len(ws) >= 1
      /\ Len(D) + Len(ws) = Len(S)
      /\ \A i \in 1..Len(D) : S[i] = D[i]
      /\ \A i \in 1..Len(ws) : S[Len(D) + i] = ws[i]
  BY DEF Continues
<1>2. Len(Append(D, Head(ws))) = Len(D) + 1 /\ Len(Tail(ws)) = Len(ws) - 1
  BY <1>1
<1>3. ASSUME NEW i \in 1..(Len(D) + 1) PROVE S[i] = Append(D, Head(ws))[i]
  BY <1>1
<1>4. ASSUME NEW i \in 1..(Len(ws) - 1) PROVE S[Len(D) + 1 + i] = Tail(ws)[i]
  <2>1. i + 1 \in 1..Len(ws) /\ Len(D) + 1 + i = Len(D) + (i + 1)
    BY <1>1
  <2>2. Tail(ws)[i] = ws[i + 1]
    BY <1>1
  <2> QED BY <1>1, <2>1, <2>2
<1> DEFINE E == Append(D, Head(ws))
           t == Tail(ws)
<1>5. /\ Len(E) = Len(D) + 1 /\ Len(t) = Len(ws) - 1
      /\ \A i \in 1..(Len(D) + 1) : S[i] = E[i]
      /\ \A i \in 1..(Len(ws) - 1) : S[Len(D) + 1 + i] = t[i]
  BY <1>2, <1>3, <1>4
<1> HIDE DEF E, t
<1>6. Len(E) + Len(t) = Len(S)
  BY <1>1, <1>5
<1>7. Continues(E, t, S)
  BY <1>5, <1>6 DEF Continues
<1> QED
  BY <1>7 DEF E, t

LEMMA ContinuesConcat ==
  ASSUME NEW D \in Seq(Nat), NEW ws \in Seq(Nat), NEW S \in Seq(Nat), Continues(D, ws, S)
  PROVE  D \o ws = S
<1>1. /\ Len(D) \in Nat /\ Len(ws) \in Nat /\ Len(S) \in Nat
      /\ Len(D) + Len(ws) = Len(S)
      /\ \A i \in 1..Len(D) : S[i] = D[i]
      /\ \A i \in 1..Len(ws) : S[Len(D) + i] = ws[i]
  BY DEF Continues
<1>2. D \o ws \in Seq(Nat) /\ Len(D \o ws) = Len(S)
  BY <1>1
<1>3. ASSUME NEW i \in 1..Len(S) PROVE (D \o ws)[i] = S[i]
  <2>1. CASE i <= Len(D)
    BY <1>1, <2>1
  <2>2. CASE i > Len(D)
    <3>1. i - Len(D) \in 1..Len(ws) /\ Len(D) + (i - Len(D)) = i
      BY <1>1, <2>2
    <3>2. S[i] = ws[i - Len(D)]
      BY <1>1, <3>1
    <3>3. (D \o ws)[i] = ws[i - Len(D)]
      BY <1>1, <2>2
    <3> QED BY <3>2, <3>3
  <2> QED BY <1>1, <2>1, <2>2
<1> QED
  BY <1>2, <1>3, SeqEqual

-----------------------------------------------------------------------------
(* Pipes.                                                                  *)

\* Only the first message of a pipe answers PSYNC.
Shape(p) == p \in Seq(Msg) /\ \A i \in 2..Len(p) : p[i].t = "w"

LEMMA MsgKinds ==
  ASSUME NEW q \in Msg
  PROVE  /\ q.t \in {"w", "continue", "full"}
         /\ q.t = "w" => q.w \in Nat
         /\ q.t = "continue" => q.id \in Nat
         /\ q.t = "full" => q.id \in Nat /\ q.off \in Nat /\ q.data \in Seq(Nat)
BY DEF Msg

\* A pipe of writes.
LEMMA WritesOnly ==
  ASSUME NEW p, Shape(p), p # <<>> => p[1].t = "w"
  PROVE  /\ Writes(p) \in Seq(Nat) /\ Len(Writes(p)) = Len(p)
         /\ \A i \in 1..Len(p) : Writes(p)[i] = p[i].w
<1>1. p \in Seq(Msg) /\ Len(p) \in Nat
  BY DEF Shape
<1>2. p # <<>> => Head(p).t = "w"
  BY <1>1
<1>3. Writes(p) = [i \in 1..(Len(p) - 0) |-> p[i + 0].w]
  BY <1>2 DEF Writes
<1>4. \A i \in 1..Len(p) : p[i] \in Msg /\ p[i].t = "w" /\ i + 0 = i
  BY <1>1 DEF Shape
<1>5. \A i \in 1..Len(p) : p[i].w \in Nat
  BY <1>4, MsgKinds
<1>6. Writes(p) = [i \in 1..Len(p) |-> p[i].w]
  BY <1>1, <1>3, <1>4
<1>7. Writes(p) \in [1..Len(p) -> Nat]
  BY <1>5, <1>6
<1> QED
  BY <1>1, <1>6, <1>7

\* An answer to PSYNC and writes.
LEMMA WritesAfter ==
  ASSUME NEW p, Shape(p), p # <<>>, p[1].t # "w"
  PROVE  /\ Writes(p) \in Seq(Nat) /\ Len(Writes(p)) = Len(p) - 1
         /\ \A i \in 1..(Len(p) - 1) : Writes(p)[i] = p[i + 1].w
         /\ Shape(Tail(p)) /\ (Tail(p) # <<>> => Tail(p)[1].t = "w") /\ Writes(Tail(p)) = Writes(p)
<1>1. p \in Seq(Msg) /\ Len(p) \in Nat /\ Len(p) >= 1 /\ Head(p) = p[1]
  BY DEF Shape
<1>2. Writes(p) = [i \in 1..(Len(p) - 1) |-> p[i + 1].w]
  BY <1>1 DEF Writes
<1>3. \A i \in 1..(Len(p) - 1) : i + 1 \in 2..Len(p) /\ i + 1 \in 1..Len(p)
  BY <1>1
<1>4. \A i \in 1..(Len(p) - 1) : p[i + 1] \in Msg /\ p[i + 1].t = "w"
  BY <1>1, <1>3 DEF Shape
<1>5. \A i \in 1..(Len(p) - 1) : p[i + 1].w \in Nat
  BY <1>4, MsgKinds
<1>6. Writes(p) \in [1..(Len(p) - 1) -> Nat] /\ Len(p) - 1 \in Nat
  BY <1>1, <1>2, <1>5
<1>7. Writes(p) \in Seq(Nat) /\ Len(Writes(p)) = Len(p) - 1
  BY <1>6
<1>8. Tail(p) \in Seq(Msg) /\ Len(Tail(p)) = Len(p) - 1 /\ \A i \in 1..(Len(p) - 1) : Tail(p)[i] = p[i + 1]
  BY <1>1
<1>9. Shape(Tail(p)) /\ (Tail(p) # <<>> => Tail(p)[1].t = "w")
  BY <1>1, <1>4, <1>8 DEF Shape
<1>10. /\ Writes(Tail(p)) \in Seq(Nat) /\ Len(Writes(Tail(p))) = Len(Tail(p))
       /\ \A i \in 1..Len(Tail(p)) : Writes(Tail(p))[i] = Tail(p)[i].w
  BY <1>9, WritesOnly
<1>11. \A i \in 1..(Len(p) - 1) : Writes(Tail(p))[i] = Writes(p)[i]
  BY <1>2, <1>8, <1>10
<1>12. Writes(Tail(p)) = Writes(p)
  BY <1>7, <1>8, <1>10, <1>11, SeqEqual
<1> QED
  BY <1>2, <1>7, <1>9, <1>12

\* One more write is sent.
Sends(p, q, w) == q = Append(p, [t |-> "w", w |-> w])

LEMMA WritesSent ==
  ASSUME NEW p, Shape(p), NEW w \in Nat, NEW q, Sends(p, q, w)
  PROVE  /\ Shape(q) /\ q # <<>> /\ Writes(q) = Append(Writes(p), w)
         /\ p # <<>> => q[1] = p[1]
         /\ p = <<>> => q[1].t = "w"
<1>1. [t |-> "w", w |-> w] \in Msg
  BY DEF Msg
<1>2. /\ p \in Seq(Msg) /\ Len(p) \in Nat /\ q \in Seq(Msg) /\ Len(q) = Len(p) + 1 /\ q # <<>>
      /\ q[Len(p) + 1].t = "w" /\ q[Len(p) + 1].w = w
      /\ \A i \in 1..Len(p) : q[i] = p[i]
  <2>1. PICK m \in Msg : m = [t |-> "w", w |-> w]
    BY <1>1
  <2>2. q = Append(p, m) /\ p \in Seq(Msg)
    BY <2>1 DEF Sends, Shape
  <2> QED BY <2>1, <2>2, SeqAppend
<1>3. Shape(q)
  BY <1>2 DEF Shape
<1>4. (p # <<>> => q[1] = p[1]) /\ (p = <<>> => q[1].t = "w")
  BY <1>2
<1>5. CASE p # <<>> /\ p[1].t # "w"
  <2>1. /\ Writes(p) \in Seq(Nat) /\ Len(Writes(p)) = Len(p) - 1 /\ Len(p) >= 1
        /\ \A i \in 1..(Len(p) - 1) : Writes(p)[i] = p[i + 1].w
    BY <1>2, <1>5, WritesAfter
  <2>2. /\ Writes(q) \in Seq(Nat) /\ Len(Writes(q)) = Len(p)
        /\ \A i \in 1..Len(p) : Writes(q)[i] = q[i + 1].w
    <3>1. q[1].t # "w" /\ Len(q) - 1 = Len(p)
      BY <1>2, <1>4, <1>5
    <3>2. /\ Writes(q) \in Seq(Nat) /\ Len(Writes(q)) = Len(q) - 1
          /\ \A i \in 1..(Len(q) - 1) : Writes(q)[i] = q[i + 1].w
      BY <1>2, <1>3, <3>1, WritesAfter
    <3> QED BY <3>1, <3>2
  <2>3. /\ Append(Writes(p), w) \in Seq(Nat) /\ Len(Append(Writes(p), w)) = Len(p)
        /\ Append(Writes(p), w)[Len(p)] = w /\ \A i \in 1..(Len(p) - 1) : Append(Writes(p), w)[i] = p[i + 1].w
    BY <1>2, <2>1
  <2>4. ASSUME NEW i \in 1..Len(p) PROVE Writes(q)[i] = Append(Writes(p), w)[i]
    <3>1. CASE i = Len(p)
      BY <1>2, <2>2, <2>3, <3>1
    <3>2. CASE i # Len(p)
      <4>1. i \in 1..(Len(p) - 1) /\ i + 1 \in 1..Len(p)
        BY <1>2, <3>2
      <4> QED BY <1>2, <2>2, <2>3, <4>1
    <3> QED BY <3>1, <3>2
  <2>5. Writes(q) = Append(Writes(p), w)
    BY <2>2, <2>3, <2>4, SeqEqual
  <2> QED BY <1>2, <1>3, <1>4, <2>5
<1>6. CASE ~(p # <<>> /\ p[1].t # "w")
  <2>1. /\ Writes(p) \in Seq(Nat) /\ Len(Writes(p)) = Len(p)
        /\ \A i \in 1..Len(p) : Writes(p)[i] = p[i].w
    BY <1>6, WritesOnly
  <2>2. /\ Writes(q) \in Seq(Nat) /\ Len(Writes(q)) = Len(p) + 1
        /\ \A i \in 1..(Len(p) + 1) : Writes(q)[i] = q[i].w
    <3>1. q[1].t = "w"
      BY <1>4, <1>6
    <3> QED BY <1>2, <1>3, <3>1, WritesOnly
  <2>3. /\ Append(Writes(p), w) \in Seq(Nat) /\ Len(Append(Writes(p), w)) = Len(p) + 1
        /\ Append(Writes(p), w)[Len(p) + 1] = w /\ \A i \in 1..Len(p) : Append(Writes(p), w)[i] = p[i].w
    BY <1>2, <2>1
  <2>4. ASSUME NEW i \in 1..(Len(p) + 1) PROVE Writes(q)[i] = Append(Writes(p), w)[i]
    <3>1. CASE i = Len(p) + 1
      BY <1>2, <2>2, <2>3, <3>1
    <3>2. CASE i # Len(p) + 1
      <4>1. i \in 1..Len(p)
        BY <1>2, <3>2
      <4> QED BY <1>2, <2>2, <2>3, <4>1
    <3> QED BY <3>1, <3>2
  <2>5. Writes(q) = Append(Writes(p), w)
    BY <2>2, <2>3, <2>4, SeqEqual
  <2> QED BY <1>2, <1>3, <1>4, <2>5
<1> QED
  BY <1>5, <1>6

\* The first write is read.
LEMMA WritesRead ==
  ASSUME NEW p, Shape(p), p # <<>>, p[1].t = "w"
  PROVE  /\ Shape(Tail(p)) /\ (Tail(p) # <<>> => Tail(p)[1].t = "w")
         /\ p[1].w \in Nat /\ Writes(p) # <<>> /\ Head(Writes(p)) = p[1].w
         /\ Writes(Tail(p)) = Tail(Writes(p))
<1>1. p \in Seq(Msg) /\ Len(p) \in Nat /\ Len(p) >= 1
  BY DEF Shape
<1>2. /\ Writes(p) \in Seq(Nat) /\ Len(Writes(p)) = Len(p)
      /\ \A i \in 1..Len(p) : Writes(p)[i] = p[i].w
  BY WritesOnly
<1>3. Writes(p) # <<>> /\ Head(Writes(p)) = p[1].w /\ p[1].w \in Nat
  BY <1>1, <1>2
<1>4. Tail(p) \in Seq(Msg) /\ Len(Tail(p)) = Len(p) - 1 /\ \A i \in 1..(Len(p) - 1) : Tail(p)[i] = p[i + 1]
  BY <1>1
<1>5. \A i \in 1..(Len(p) - 1) : i + 1 \in 2..Len(p) /\ i + 1 \in 1..Len(p)
  BY <1>1
<1>6. Shape(Tail(p)) /\ (Tail(p) # <<>> => Tail(p)[1].t = "w")
  BY <1>1, <1>4, <1>5 DEF Shape
<1>7. /\ Writes(Tail(p)) \in Seq(Nat) /\ Len(Writes(Tail(p))) = Len(Tail(p))
      /\ \A i \in 1..Len(Tail(p)) : Writes(Tail(p))[i] = Tail(p)[i].w
  BY <1>6, WritesOnly
<1>8. Tail(Writes(p)) \in Seq(Nat) /\ Len(Tail(Writes(p))) = Len(p) - 1
      /\ \A i \in 1..(Len(p) - 1) : Tail(Writes(p))[i] = Writes(p)[i + 1]
  BY <1>1, <1>2, <1>3
<1>9. \A i \in 1..(Len(p) - 1) : Writes(Tail(p))[i] = Tail(Writes(p))[i]
  BY <1>2, <1>4, <1>5, <1>7, <1>8
<1>10. Writes(Tail(p)) = Tail(Writes(p))
  BY <1>4, <1>7, <1>8, <1>9, SeqEqual
<1> QED
  BY <1>3, <1>6, <1>10

-----------------------------------------------------------------------------
(* The inductive invariant.                                                *)

\* What the ID and the offset of a server promise about its data counts:
\* a master's, and a replica's that remembers a master.
Valid(x) == x.m = NoServer \/ x.cm # NoCache

\* The history of an ID: the writes it stands for, the offset of the last
\* one, how many came before they were counted, who may add to them as a
\* master, and whether anybody else has heard of the ID.
History == [base : Int, top : Int, by : Servers \cup {NoServer}, priv : BOOLEAN, w : [Nat -> Nat]]

Histories == [Nat -> History]

\* Data d at offset off belong to the history of id.
Fits(h, id, off, d) ==
  /\ Len(d) = off + h[id].base
  /\ off <= h[id].top
  /\ \A i \in 1..Len(d) : d[i] = h[id].w[i]

\* A server by itself: roles and link, the cached master, the backlog.
Local(s, x) ==
  /\ x.m # s
  /\ x.m = NoServer => x.cm = NoCache
  /\ x.m # NoServer /\ x.cm # NoCache => x.cm = [id |-> x.id, off |-> x.off]
  /\ x.bl.on => Valid(x)
  /\ x.ls = "connected" => x.bl.on
  /\ x.bl.on =>
       /\ x.bl.first + Len(x.bl.w) = x.off + 1 /\ Len(x.bl.w) <= Len(x.data)
       /\ \A i \in 1..Len(x.bl.w) : x.bl.w[i] = x.data[Len(x.data) - Len(x.bl.w) + i]

\* The second ID of a server with a backlog is true up to its offset.
Second(h, x) ==
  x.id2 # 0 /\ x.bl.on =>
    /\ h[x.id2].base = h[x.id].base /\ ~h[x.id2].priv
    /\ x.off2 - 1 <= x.off /\ x.off2 - 1 <= h[x.id2].top
    /\ \A i \in 1..(x.off2 - 1 + h[x.id2].base) : x.data[i] = h[x.id2].w[i]

\* A master may extend its history.  One without a backlog does not count its
\* writes, so nobody else may know its ID.
Leads(h, s, x, f) ==
  x.m = NoServer =>
    /\ h[x.id].by = s
    /\ x.bl.on => h[x.id].top = x.off
    /\ ~x.bl.on => h[x.id].priv /\ ~(f.info /\ f.id = x.id)

\* A server and its file against the histories.
HistOf(h, s, x, f) ==
  /\ Valid(x) => Fits(h, x.id, x.off, x.data)
  /\ Second(h, x)
  /\ Leads(h, s, x, f)
  /\ h[x.id].priv => h[x.id].by = s
  /\ x.bl.on => ~h[x.id].priv
  /\ ~x.bl.on /\ x.id2 # 0 /\ x.cm # NoCache => h[x.id].priv

FileOf(h, s, f) ==
  /\ f.off <= writes
  /\ f.info => /\ f.id \in 1..ids
               /\ Fits(h, f.id, f.off, f.data)
               /\ h[f.id].priv => h[f.id].by = s

\* What is on the way from server state y to server state x.
Stream(x, y, p) ==
  /\ x.ls = "connected" =>
       /\ p # <<>> => p[1].t = "w"
       /\ x.id = y.id /\ x.off + Len(Writes(p)) = y.off /\ Continues(x.data, Writes(p), y.data)
  /\ x.ls = "wait" =>
       /\ p # <<>> /\ p[1].t # "w" /\ p[1].id = y.id
       /\ p[1].t = "continue" =>
            x.cm # NoCache /\ x.off + Len(Writes(p)) = y.off /\ Continues(x.data, Writes(p), y.data)
       /\ p[1].t = "full" =>
            p[1].off + Len(Writes(p)) = y.off /\ Continues(p[1].data, Writes(p), y.data)

Feeds(h, r) ==
  /\ feed[r] = NoServer => pipe[r] = <<>> /\ srv[r].ls \in {"none", "connect"}
  /\ feed[r] # NoServer =>
       /\ srv[r].m = feed[r] /\ srv[r].ls \in {"wait", "connected"} /\ srv[feed[r]].bl.on
       /\ Stream(srv[r], srv[feed[r]], pipe[r])
       /\ srv[r].ls = "wait" /\ pipe[r][1].t = "continue" => ~h[srv[r].id].priv

Numbers(x, p) ==
  /\ (x.ls = "none") = (x.m = NoServer)
  /\ x.id \in 1..ids /\ x.id2 \in 0..ids
  /\ x.off <= writes /\ Len(x.bl.w) <= BacklogLen
  /\ Shape(p)

One(h, s) ==
  /\ Numbers(srv[s], pipe[s]) /\ Local(s, srv[s])
  /\ HistOf(h, s, srv[s], disk[s]) /\ FileOf(h, s, disk[s])
  /\ Feeds(h, s)

Types ==
  /\ srv \in [Servers -> Server] /\ disk \in [Servers -> File]
  /\ feed \in [Servers -> Servers \cup {NoServer}] /\ pipe \in [Servers -> Seq(Msg)]
  /\ ids \in Nat /\ writes \in 0..MaxWrites /\ events \in 0..MaxEvents

Inv(h) == Types /\ \A s \in Servers : One(h, s)

LEMMA ServerFields ==
  ASSUME NEW x \in Server
  PROVE  /\ x.m \in Servers \cup {NoServer} /\ x.ls \in {"none", "connect", "wait", "connected"}
         /\ x.id \in Nat /\ x.id2 \in Nat /\ x.off2 \in Int /\ x.off \in Nat
         /\ x.cm \in [id : Nat, off : Int] /\ x.bl.on \in BOOLEAN /\ x.bl.first \in Nat /\ x.bl.w \in Seq(Nat)
         /\ Len(x.bl.w) \in Nat /\ x.data \in Seq(Nat) /\ Len(x.data) \in Nat
BY DEF Server

LEMMA HistoryFields ==
  ASSUME NEW h \in Histories, NEW i \in Nat
  PROVE  /\ h[i].base \in Int /\ h[i].top \in Int /\ h[i].priv \in BOOLEAN /\ h[i].w \in [Nat -> Nat]
         /\ h[i] \in History
BY DEF Histories, History

\* A server whose link is lost is otherwise as before.
LEMMA LostFields ==
  ASSUME NEW x \in Server, NEW y, y = replicationHandleMasterDisconnection(x)
  PROVE  /\ y \in Server /\ y.ls = "connect" /\ y.m = x.m /\ y.id = x.id /\ y.id2 = x.id2 /\ y.off2 = x.off2
         /\ y.off = x.off /\ y.cm = x.cm /\ y.bl = x.bl /\ y.data = x.data
BY DEF Server, replicationHandleMasterDisconnection

\* HistOf is about everything but the link, and about the histories of the
\* IDs that a server names.
LEMMA HistSame ==
  ASSUME NEW h, NEW g, NEW s, NEW x, NEW y, NEW f, HistOf(h, s, x, f),
         y.m = x.m, y.id = x.id, y.id2 = x.id2, y.off2 = x.off2, y.off = x.off, y.cm = x.cm, y.bl = x.bl,
         y.data = x.data, g[x.id] = h[x.id], x.id2 # 0 /\ x.bl.on => g[x.id2] = h[x.id2]
  PROVE  HistOf(g, s, y, f)
BY DEF HistOf, Valid, Fits, Second, Leads

LEMMA LocalSame ==
  ASSUME NEW s, NEW x, NEW y, Local(s, x), y.m = x.m, y.id = x.id, y.off = x.off, y.cm = x.cm, y.bl = x.bl,
         y.data = x.data, y.ls # "connected"
  PROVE  Local(s, y)
BY DEF Local, Valid

\* The histories of the IDs that server t relies on.
Agree(g, h, t) ==
  /\ g[srv[t].id] = h[srv[t].id]
  /\ srv[t].id2 # 0 /\ srv[t].bl.on => g[srv[t].id2] = h[srv[t].id2]
  /\ disk[t].info => g[disk[t].id] = h[disk[t].id]

\* Histories g serve server t as h do.
Suits(g, h, t) ==
  /\ HistOf(g, t, srv[t], disk[t]) /\ FileOf(g, t, disk[t])
  /\ ~h[srv[t].id].priv => ~g[srv[t].id].priv

LEMMA AgreeSuits ==
  ASSUME NEW h, NEW g, NEW t, One(h, t), Agree(g, h, t)
  PROVE  Suits(g, h, t)
<1>1. g[srv[t].id] = h[srv[t].id] /\ (srv[t].id2 # 0 /\ srv[t].bl.on => g[srv[t].id2] = h[srv[t].id2])
  BY DEF Agree
<1>2. HistOf(g, t, srv[t], disk[t])
  BY <1>1, HistSame DEF One
<1>3. FileOf(g, t, disk[t])
  BY DEF Agree, One, FileOf, Fits
<1> QED
  BY <1>1, <1>2, <1>3 DEF Suits

\* What a step does not touch, or only cuts off, stays as it should be.
LEMMA OthersKept ==
  ASSUME PsyncAssumption, NEW h, NEW g, Inv(h), NEW X \in SUBSET Servers, NEW R,
         ids' \in Nat, ids <= ids', writes' \in Nat, writes <= writes',
         NEW t \in Servers \ X,
         srv'[t] = IF t \in R THEN replicationHandleMasterDisconnection(srv[t]) ELSE srv[t],
         feed'[t] = IF t \in R THEN NoServer ELSE feed[t],
         pipe'[t] = IF t \in R THEN <<>> ELSE pipe[t],
         disk'[t] = disk[t],
         t \in R => feed[t] # NoServer,
         Suits(g, h, t),
         t \notin R /\ feed[t] # NoServer =>
           /\ srv'[feed[t]].id = srv[feed[t]].id /\ srv'[feed[t]].off = srv[feed[t]].off
           /\ srv'[feed[t]].data = srv[feed[t]].data /\ srv'[feed[t]].bl.on
  PROVE  One(g, t)'
<1>1. /\ One(h, t) /\ srv[t] \in Server /\ disk[t] \in File /\ feed[t] \in Servers \cup {NoServer}
      /\ pipe[t] \in Seq(Msg) /\ ids \in Nat /\ writes \in Nat /\ NoServer \notin Servers /\ MaxWrites \in Nat
  BY DEF Inv, Types, PsyncAssumption
<1>2. /\ srv'[t].m = srv[t].m /\ srv'[t].id = srv[t].id /\ srv'[t].id2 = srv[t].id2 /\ srv'[t].off2 = srv[t].off2
      /\ srv'[t].off = srv[t].off /\ srv'[t].cm = srv[t].cm /\ srv'[t].bl = srv[t].bl /\ srv'[t].data = srv[t].data
      /\ srv'[t].ls = IF t \in R THEN "connect" ELSE srv[t].ls
  BY <1>1, LostFields
<1>3. HistOf(g, t, srv[t], disk[t])'
  BY <1>1, <1>2, HistSame DEF Suits
<1>4. FileOf(g, t, disk[t])'
  <2>1. disk[t].id \in Nat /\ disk[t].off \in Nat
    BY <1>1 DEF File
  <2> QED BY <1>1, <2>1 DEF Suits, FileOf
<1>5. CASE t \in R
  <2>1. srv[t].m # NoServer
    BY <1>1, <1>5 DEF One, Feeds
  <2>2. Numbers(srv[t], pipe[t])'
    <3>1. srv[t].id \in Nat /\ srv[t].id2 \in Nat /\ srv[t].off \in Nat
      BY <1>1, ServerFields
    <3>2. Shape(<<>>)
      BY DEF Shape
    <3>3. /\ srv[t].id \in 1..ids /\ srv[t].id2 \in 0..ids /\ srv[t].off <= writes /\ Len(srv[t].bl.w) <= BacklogLen
      BY <1>1 DEF One, Numbers
    <3>4. srv[t].id \in 1..ids' /\ srv[t].id2 \in 0..ids' /\ srv[t].off <= writes'
      BY <1>1, <3>1, <3>3
    <3>5. pipe'[t] = <<>> /\ srv'[t].ls # "none" /\ srv'[t].m # NoServer
      BY <1>2, <1>5, <2>1
    <3> QED BY <1>2, <3>2, <3>3, <3>4, <3>5 DEF Numbers
  <2>3. Local(t, srv[t])'
    <3>1. Local(t, srv[t]) /\ srv'[t].ls # "connected"
      BY <1>1, <1>2, <1>5 DEF One
    <3> QED BY <1>2, <3>1, LocalSame
  <2>4. Feeds(g, t)'
    BY <1>2, <1>5 DEF Feeds
  <2> QED BY <1>3, <1>4, <2>2, <2>3, <2>4 DEF One
<1>6. CASE t \notin R
  <2>1. srv'[t] = srv[t] /\ feed'[t] = feed[t] /\ pipe'[t] = pipe[t]
    BY <1>6
  <2>2. Numbers(srv[t], pipe[t])'
    <3>1. srv[t].id \in Nat /\ srv[t].id2 \in Nat /\ srv[t].off \in Nat
      BY <1>1, ServerFields
    <3> QED BY <1>1, <2>1, <3>1 DEF One, Numbers
  <2>3. Local(t, srv[t])'
    BY <1>1, <2>1 DEF One, Local, Valid
  <2>4. Feeds(g, t)'
    <3>1. ~h[srv[t].id].priv => ~g[srv[t].id].priv
      BY DEF Suits
    <3> QED BY <1>1, <1>6, <2>1, <3>1 DEF One, Feeds, Stream
  <2> QED BY <1>3, <1>4, <2>2, <2>3, <2>4 DEF One
<1> QED
  BY <1>5, <1>6

\* The IDs that anybody names have been handed out.
LEMMA NamedIds ==
  ASSUME NEW h, Inv(h), NEW t \in Servers
  PROVE  /\ ids \in Nat /\ writes \in Nat
         /\ srv[t].id \in 1..ids /\ srv[t].id \in Nat /\ srv[t].id2 \in 0..ids /\ srv[t].id2 \in Nat
         /\ srv[t].id2 # 0 => srv[t].id2 \in 1..ids
         /\ disk[t].info => disk[t].id \in 1..ids
         /\ disk[t].id \in Nat /\ disk[t].off \in Nat /\ disk[t].info \in BOOLEAN /\ disk[t].data \in Seq(Nat)
<1>1. One(h, t) /\ Types
  BY DEF Inv
<1>2. ids \in Nat /\ writes \in Nat /\ srv[t] \in Server /\ disk[t] \in File
  BY <1>1 DEF Types
<1>3. srv[t].id \in 1..ids /\ srv[t].id2 \in 0..ids /\ (disk[t].info => disk[t].id \in 1..ids)
  BY <1>1 DEF One, Numbers, FileOf
<1> QED
  BY <1>2, <1>3 DEF File

\* A state that reads on to one that belongs to a history belongs to it too.
LEMMA StreamFits ==
  ASSUME NEW h \in Histories, NEW id \in Nat, NEW y \in Int, NEW S \in Seq(Nat), NEW D \in Seq(Nat),
         NEW ws \in Seq(Nat), NEW o \in Int, Fits(h, id, y, S), Continues(D, ws, S), o + Len(ws) = y
  PROVE  Fits(h, id, o, D)
<1>1. h[id].base \in Int /\ h[id].top \in Int
  BY HistoryFields
<1>2. /\ Len(S) = y + h[id].base /\ y <= h[id].top
      /\ \A i \in 1..Len(S) : S[i] = h[id].w[i]
  BY DEF Fits
<1>3. /\ Len(D) + Len(ws) = Len(S)
      /\ \A i \in 1..Len(D) : S[i] = D[i]
  BY DEF Continues
<1>4. Len(D) \in Nat /\ Len(ws) \in Nat /\ Len(S) \in Nat
  OBVIOUS
<1>5. Len(D) = o + h[id].base /\ o <= h[id].top
  <2>1. Len(S) = y + h[id].base /\ y <= h[id].top /\ Len(D) + Len(ws) = Len(S)
    BY <1>2, <1>3
  <2> DEFINE e == h[id].base
             k == h[id].top
  <2>2. e \in Int /\ k \in Int
    BY <1>1
  <2>3. Len(S) = y + e /\ y <= k
    BY <2>1
  <2> HIDE DEF e, k
  <2>4. Len(D) = o + e /\ o <= k
    BY <1>4, <2>1, <2>2, <2>3
  <2> QED BY <2>4 DEF e, k
<1>6. \A i \in 1..Len(D) : i \in 1..Len(S)
  BY <1>3, <1>4
<1>7. \A i \in 1..Len(D) : D[i] = h[id].w[i]
  BY <1>2, <1>3, <1>6
<1> QED
  BY <1>5, <1>7 DEF Fits

\* A new ID names the data of a server from now on.
NewHistory(g, h, s, off, d) ==
  /\ g[ids + 1].base = Len(d) - off /\ g[ids + 1].top = off /\ g[ids + 1].by = s
  /\ Fits(g, ids + 1, off, d)
  /\ \A i \in 1..ids : g[i] = h[i]

LEMMA FreshHistory ==
  ASSUME NEW h \in Histories, ids \in Nat, NEW s \in Servers, NEW off \in Nat, NEW d \in Seq(Nat)
  PROVE  /\ \E g \in Histories : NewHistory(g, h, s, off, d) /\ g[ids + 1].priv
         /\ \E g \in Histories : NewHistory(g, h, s, off, d) /\ ~g[ids + 1].priv
<1>1. ASSUME NEW p \in BOOLEAN PROVE \E g \in Histories : NewHistory(g, h, s, off, d) /\ g[ids + 1].priv = p
  <2> DEFINE w == [i \in Nat |-> IF i \in 1..Len(d) THEN d[i] ELSE 0]
             v == [base |-> Len(d) - off, top |-> off, by |-> s, priv |-> p, w |-> w]
             g == [h EXCEPT ![ids + 1] = v]
  <2>1. Len(d) \in Nat /\ \A i \in 1..Len(d) : d[i] \in Nat /\ i \in Nat
    OBVIOUS
  <2>2. w \in [Nat -> Nat] /\ \A i \in 1..Len(d) : w[i] = d[i]
    BY <2>1
  <2>3. v \in History /\ v.base = Len(d) - off /\ v.top = off /\ v.by = s /\ v.priv = p /\ v.w = w
    <3> HIDE DEF w
    <3> QED BY <2>1, <2>2 DEF History
  <2> HIDE DEF v, w
  <2>4. ids + 1 \in Nat /\ \A i \in 1..ids : i # ids + 1 /\ i \in Nat
    OBVIOUS
  <2>5. g \in Histories /\ g[ids + 1] = v /\ \A i \in 1..ids : g[i] = h[i]
    BY <2>3, <2>4 DEF Histories
  <2> HIDE DEF g
  <2>6. Len(d) = off + (Len(d) - off) /\ off <= off
    BY <2>1
  <2>7. Fits(g, ids + 1, off, d)
    BY <2>2, <2>3, <2>5, <2>6 DEF Fits
  <2>8. NewHistory(g, h, s, off, d) /\ g[ids + 1].priv = p
    BY <2>3, <2>5, <2>7 DEF NewHistory
  <2> QED BY <2>5, <2>8
<1> QED
  BY <1>1

-----------------------------------------------------------------------------
(* Steps that make no new history.                                         *)

LEMMA DisconnectStep ==
  ASSUME PsyncAssumption, NEW h \in Histories, Inv(h), NEW r \in Servers, disconnect(r)
  PROVE  Inv(h)'
<1>1. /\ feed[r] # NoServer /\ disk' = disk /\ writes' = writes /\ ids' = ids /\ events' = events + 1
      /\ events < MaxEvents
      /\ srv' = [t \in Servers |-> IF t \in {r} THEN replicationHandleMasterDisconnection(srv[t]) ELSE srv[t]]
      /\ feed' = [t \in Servers |-> IF t \in {r} THEN NoServer ELSE feed[t]]
      /\ pipe' = [t \in Servers |-> IF t \in {r} THEN <<>> ELSE pipe[t]]
  BY DEF disconnect, Event, Lost, Cut
<1>2. Types /\ \A t \in Servers : srv[t] \in Server
  BY DEF Inv, Types
<1>3. \A t \in Servers : /\ srv'[t] \in Server /\ srv'[t].id = srv[t].id /\ srv'[t].off = srv[t].off
                         /\ srv'[t].data = srv[t].data /\ srv'[t].bl = srv[t].bl
  BY <1>1, <1>2, LostFields
<1>4. Types'
  BY <1>1, <1>2, <1>3 DEF Types, PsyncAssumption
<1>5. ASSUME NEW t \in Servers PROVE One(h, t)'
  <2>1. /\ srv'[t] = IF t \in {r} THEN replicationHandleMasterDisconnection(srv[t]) ELSE srv[t]
        /\ feed'[t] = IF t \in {r} THEN NoServer ELSE feed[t]
        /\ pipe'[t] = IF t \in {r} THEN <<>> ELSE pipe[t]
    BY <1>1
  <2>2. feed[t] # NoServer => /\ feed[t] \in Servers /\ srv[feed[t]].bl.on
    BY <1>2 DEF Inv, Types, One, Feeds
  <2>3. feed[t] # NoServer =>
          /\ srv'[feed[t]].id = srv[feed[t]].id /\ srv'[feed[t]].off = srv[feed[t]].off
          /\ srv'[feed[t]].data = srv[feed[t]].data /\ srv'[feed[t]].bl.on
    BY <1>3, <2>2
  <2>4. ids' \in Nat /\ ids <= ids' /\ writes' \in Nat /\ writes <= writes' /\ disk'[t] = disk[t]
    BY <1>1, NamedIds
  <2>5. (t \in {r} => feed[t] # NoServer) /\ Suits(h, h, t)
    BY <1>1 DEF Suits, Inv, One
  <2>6. t \in Servers \ {}
    OBVIOUS
  <2> QED BY <2>1, <2>3, <2>4, <2>5, <2>6, OthersKept
<1> QED
  BY <1>4, <1>5 DEF Inv

LEMMA FeedFacts ==
  ASSUME NEW h, Inv(h), NEW t \in Servers
  PROVE  /\ srv[t] \in Server /\ One(h, t) /\ pipe[t] \in Seq(Msg)
         /\ feed[t] # NoServer =>
              /\ feed[t] \in Servers /\ srv[feed[t]] \in Server /\ srv[feed[t]].bl.on
              /\ srv[t].m = feed[t] /\ feed[t] # t
<1>1. One(h, t) /\ Types
  BY DEF Inv
<1>2. srv[t] \in Server /\ pipe[t] \in Seq(Msg) /\ feed[t] \in Servers \cup {NoServer}
  BY <1>1 DEF Types
<1>3. feed[t] # NoServer => srv[feed[t]] \in Server
  BY <1>1, <1>2 DEF Types
<1>4. feed[t] # NoServer => srv[feed[t]].bl.on /\ srv[t].m = feed[t]
  BY <1>1 DEF One, Feeds
<1>5. srv[t].m # t
  BY <1>1 DEF One, Local
<1> QED
  BY <1>1, <1>2, <1>3, <1>4, <1>5

LEMMA SaveStep ==
  ASSUME PsyncAssumption, NEW h \in Histories, Inv(h), NEW s \in Servers, rdbSave(s)
  PROVE  Inv(h)'
<1>1. PICK f : f = [info |-> rdbPopulateSaveInfo(srv[s]), id |-> srv[s].id, off |-> srv[s].off, data |-> srv[s].data]
  OBVIOUS
<1>2. /\ srv' = srv /\ feed' = feed /\ pipe' = pipe /\ writes' = writes /\ ids' = ids /\ events' = events + 1
      /\ events < MaxEvents /\ disk' = [disk EXCEPT ![s] = f]
  BY <1>1 DEF rdbSave, Event
<1>3. Types /\ srv[s] \in Server /\ One(h, s) /\ ids \in Nat /\ writes \in Nat
  BY DEF Inv, Types
<1>4. /\ f.id = srv[s].id /\ f.off = srv[s].off /\ f.data = srv[s].data /\ f.info = rdbPopulateSaveInfo(srv[s])
      /\ f.info \in BOOLEAN /\ f \in File
  <2>1. srv[s].id \in Nat /\ srv[s].off \in Nat /\ srv[s].data \in Seq(Nat)
    BY <1>3, ServerFields
  <2>2. rdbPopulateSaveInfo(srv[s]) \in BOOLEAN
    BY DEF rdbPopulateSaveInfo
  <2> QED BY <1>1, <2>1, <2>2 DEF File
<1>5. Types'
  BY <1>2, <1>3, <1>4 DEF Types, PsyncAssumption
<1>6. disk'[s] = f /\ \A t \in Servers \ {s} : disk'[t] = disk[t]
  BY <1>2, <1>3 DEF Types
<1>7. ASSUME NEW t \in Servers \ {s} PROVE One(h, t)'
  <2>1. ids' \in Nat /\ ids <= ids' /\ writes' \in Nat /\ writes <= writes'
    BY <1>2, <1>3
  <2>2. (feed[t] # NoServer => srv[feed[t]].bl.on) /\ Suits(h, h, t)
    BY FeedFacts DEF Suits, One
  <2> QED BY <1>2, <1>6, <2>1, <2>2, OthersKept
<1>8. One(h, s)'
  <2>1. Numbers(srv[s], pipe[s])' /\ Local(s, srv[s])' /\ Feeds(h, s)'
    BY <1>2, <1>3 DEF One, Numbers, Local, Valid, Feeds, Stream
  <2>2. f.info => Valid(srv[s])
    BY <1>3, <1>4 DEF rdbPopulateSaveInfo, Valid, One, Local
  <2>3. f.info /\ srv[s].m = NoServer => srv[s].bl.on
    BY <1>3, <1>4 DEF rdbPopulateSaveInfo, One, Local, Numbers
  <2>4. HistOf(h, s, srv[s], disk[s])'
    <3>1. Leads(h, s, srv[s], f)
      BY <1>3, <2>3 DEF One, HistOf, Leads
    <3> QED BY <1>2, <1>3, <1>6, <3>1 DEF One, HistOf, Second
  <2>5. FileOf(h, s, disk[s])'
    <3>1. srv[s].off <= writes /\ srv[s].id \in 1..ids
      BY <1>3 DEF One, Numbers
    <3>2. f.info => Fits(h, f.id, f.off, f.data)
      BY <1>3, <1>4, <2>2 DEF One, HistOf
    <3>3. h[f.id].priv => h[f.id].by = s
      BY <1>3, <1>4 DEF One, HistOf
    <3> QED BY <1>2, <1>4, <1>6, <3>1, <3>2, <3>3 DEF FileOf
  <2> QED BY <2>1, <2>4, <2>5 DEF One
<1> QED
  BY <1>5, <1>7, <1>8 DEF Inv

LEMMA SetMasterStep ==
  ASSUME PsyncAssumption, NEW h \in Histories, Inv(h), NEW r \in Servers, NEW s \in Servers, replicationSetMaster(r, s)
  PROVE  Inv(h)'
<1>1. Types /\ srv[r] \in Server /\ One(h, r) /\ ids \in Nat /\ writes \in Nat /\ NoServer \notin Servers
  BY DEF Inv, Types, PsyncAssumption
<1>2. PICK c : c = IF srv[r].m = NoServer THEN [id |-> srv[r].id, off |-> srv[r].off] ELSE srv[r].cm
  OBVIOUS
<1>3. PICK z : z = [srv[r] EXCEPT !.ls = "connect", !.cm = c, !.m = s]
  OBVIOUS
<1>4. /\ z \in Server /\ z.m = s /\ z.ls = "connect" /\ z.id = srv[r].id /\ z.id2 = srv[r].id2 /\ z.off2 = srv[r].off2
      /\ z.off = srv[r].off /\ z.cm = c /\ z.bl = srv[r].bl /\ z.data = srv[r].data
  <2>1. c \in [id : Nat, off : Int]
    BY <1>1, <1>2, ServerFields
  <2> QED BY <1>1, <1>3, <2>1 DEF Server
<1>5. /\ s # r /\ disk' = disk /\ writes' = writes /\ ids' = ids /\ events' = events + 1
      /\ events < MaxEvents
      /\ srv' = [srv EXCEPT ![r] = z]
      /\ feed' = [t \in Servers |-> IF t \in {r} THEN NoServer ELSE feed[t]]
      /\ pipe' = [t \in Servers |-> IF t \in {r} THEN <<>> ELSE pipe[t]]
  <2>1. ASSUME NEW y, y = IF srv[r].m = NoServer
                            THEN replicationCacheMasterUsingMyself(replicationDiscardCachedMaster(
                                   replicationHandleMasterDisconnection(srv[r])))
                            ELSE replicationHandleMasterDisconnection(srv[r])
        PROVE  [y EXCEPT !.m = s] = z
    BY <1>1, <1>2, <1>3, <2>1
       DEF replicationCacheMasterUsingMyself, replicationDiscardCachedMaster, replicationHandleMasterDisconnection, Server
  <2> QED BY <2>1 DEF replicationSetMaster, Event, Cut
<1>6. srv'[r] = z /\ feed'[r] = NoServer /\ pipe'[r] = <<>> /\ \A t \in Servers \ {r} : srv'[t] = srv[t]
  BY <1>1, <1>5 DEF Types
<1>7. \A t \in Servers : srv'[t].id = srv[t].id /\ srv'[t].off = srv[t].off /\ srv'[t].data = srv[t].data /\ srv'[t].bl = srv[t].bl
  BY <1>4, <1>6
<1>8. Types'
  BY <1>1, <1>4, <1>5 DEF Types, PsyncAssumption
<1>9. ASSUME NEW t \in Servers \ {r} PROVE One(h, t)'
  <2>1. ids' \in Nat /\ ids <= ids' /\ writes' \in Nat /\ writes <= writes' /\ disk'[t] = disk[t]
    BY <1>1, <1>5
  <2>2. srv'[t] = srv[t] /\ feed'[t] = feed[t] /\ pipe'[t] = pipe[t]
    BY <1>5, <1>6
  <2>3. feed[t] # NoServer =>
          /\ srv'[feed[t]].id = srv[feed[t]].id /\ srv'[feed[t]].off = srv[feed[t]].off
          /\ srv'[feed[t]].data = srv[feed[t]].data /\ srv'[feed[t]].bl.on
    BY <1>7, FeedFacts
  <2>4. t \notin {} /\ Suits(h, h, t)
    BY FeedFacts DEF Suits, One
  <2> QED BY <2>1, <2>2, <2>3, <2>4, OthersKept
<1>10. One(h, r)'
  <2>1. Numbers(z, <<>>)'
    <3>1. Shape(<<>>)
      BY DEF Shape
    <3>2. (z.ls = "none") = (z.m = NoServer)
      BY <1>1, <1>4
    <3> QED BY <1>1, <1>4, <1>5, <3>1, <3>2 DEF One, Numbers
  <2>2. srv[r].m = NoServer => c # NoCache /\ c = [id |-> srv[r].id, off |-> srv[r].off]
    BY <1>1, <1>2 DEF NoCache, One, Numbers
  <2>3. Local(r, z)
    <3>1. z.bl.on => Valid(z)
      BY <1>1, <1>2, <1>4, <2>2 DEF One, Local, Valid
    <3>2. z.m # NoServer /\ z.cm # NoCache => z.cm = [id |-> z.id, off |-> z.off]
      BY <1>1, <1>2, <1>4, <2>2 DEF One, Local
    <3> QED BY <1>1, <1>4, <1>5, <3>1, <3>2 DEF One, Local
  <2>4. HistOf(h, r, z, disk[r])
    <3>1. Valid(z) => Valid(srv[r])
      BY <1>1, <1>2, <1>4 DEF Valid
    <3>2. ~z.bl.on /\ z.id2 # 0 /\ z.cm # NoCache => h[z.id].priv
      BY <1>1, <1>2, <1>4 DEF One, HistOf, Leads
    <3>3. Leads(h, r, z, disk[r])
      BY <1>1, <1>4 DEF Leads
    <3>4. HistOf(h, r, srv[r], disk[r])
      BY <1>1 DEF One
    <3> QED BY <1>4, <3>1, <3>2, <3>3, <3>4 DEF HistOf, Second
  <2>5. FileOf(h, r, disk[r])'
    BY <1>1, <1>5 DEF One, FileOf
  <2>6. Feeds(h, r)'
    BY <1>4, <1>6 DEF Feeds
  <2> QED BY <1>5, <1>6, <2>1, <2>3, <2>4, <2>5, <2>6 DEF One
<1> QED
  BY <1>8, <1>9, <1>10 DEF Inv

-----------------------------------------------------------------------------
(* Steps of one server that cut off its replicas, or leave them what they  *)
(* follow.                                                                 *)

LEMMA CutOthers ==
  ASSUME PsyncAssumption, NEW h, NEW g, Inv(h), NEW r \in Servers, NEW R,
         ids' \in Nat, ids <= ids', writes' \in Nat, writes <= writes',
         R \subseteq slaves(r) \ {r},
         \A t \in Servers \ {r} :
           /\ srv'[t] = IF t \in R THEN replicationHandleMasterDisconnection(srv[t]) ELSE srv[t]
           /\ feed'[t] = IF t \in R THEN NoServer ELSE feed[t]
           /\ pipe'[t] = IF t \in R THEN <<>> ELSE pipe[t]
           /\ disk'[t] = disk[t],
         \A t \in Servers \ {r} : Agree(g, h, t),
         \/ slaves(r) \ {r} \subseteq R
         \/ srv'[r].id = srv[r].id /\ srv'[r].off = srv[r].off /\ srv'[r].data = srv[r].data /\ srv'[r].bl.on
  PROVE  \A t \in Servers \ {r} : One(g, t)'
<1> SUFFICES ASSUME NEW t \in Servers \ {r} PROVE One(g, t)'
  OBVIOUS
<1>1. /\ srv'[t] = IF t \in R THEN replicationHandleMasterDisconnection(srv[t]) ELSE srv[t]
      /\ feed'[t] = IF t \in R THEN NoServer ELSE feed[t]
      /\ pipe'[t] = IF t \in R THEN <<>> ELSE pipe[t]
      /\ disk'[t] = disk[t]
  OBVIOUS
<1>2. t \in R => feed[t] # NoServer
  BY DEF slaves, PsyncAssumption
<1>3. Suits(g, h, t)
  BY FeedFacts, AgreeSuits
<1>4. ASSUME t \notin R, feed[t] # NoServer
      PROVE  /\ srv'[feed[t]].id = srv[feed[t]].id /\ srv'[feed[t]].off = srv[feed[t]].off
             /\ srv'[feed[t]].data = srv[feed[t]].data /\ srv'[feed[t]].bl.on
  <2>1. feed[t] \in Servers /\ srv[feed[t]] \in Server /\ srv[feed[t]].bl.on
    BY <1>4, FeedFacts
  <2>2. CASE feed[t] = r
    <3>1. t \in slaves(r) \ {r}
      BY <2>2 DEF slaves
    <3> QED BY <1>4, <2>2, <3>1
  <2>3. CASE feed[t] # r
    <3>1. PICK u \in Servers \ {r} : u = feed[t]
      BY <2>1, <2>3
    <3>2. srv'[u] = IF u \in R THEN replicationHandleMasterDisconnection(srv[u]) ELSE srv[u]
      OBVIOUS
    <3> QED BY <2>1, <3>1, <3>2, LostFields
  <2> QED BY <2>2, <2>3
<1>5. PICK X : X = {r}
  OBVIOUS
<1>6. t \in Servers \ X /\ X \in SUBSET Servers
  BY <1>5
<1>7. t \notin R /\ feed[t] # NoServer =>
           /\ srv'[feed[t]].id = srv[feed[t]].id /\ srv'[feed[t]].off = srv[feed[t]].off
           /\ srv'[feed[t]].data = srv[feed[t]].data /\ srv'[feed[t]].bl.on
  BY <1>4
<1>8. ids' \in Nat /\ ids <= ids' /\ writes' \in Nat /\ writes <= writes'
  OBVIOUS
<1> HIDE DEF One
<1> QED
  BY <1>1, <1>2, <1>3, <1>6, <1>7, <1>8, OthersKept

\* The servers in R lose their links, server r becomes z.
Becomes(r, z, R) == srv' = Lost([srv EXCEPT ![r] = z], R \ {r})

LEMMA LostServers ==
  ASSUME NEW h, Inv(h), NEW r \in Servers, NEW R, NEW z \in Server, Becomes(r, z, R)
  PROVE  /\ srv' \in [Servers -> Server] /\ srv'[r] = z
         /\ \A t \in Servers \ {r} : srv'[t] = IF t \in R THEN replicationHandleMasterDisconnection(srv[t]) ELSE srv[t]
<1>1. DOMAIN srv = Servers /\ \A t \in Servers : srv[t] \in Server
  BY DEF Inv, Types
<1>2. \A t \in Servers : replicationHandleMasterDisconnection(srv[t]) \in Server
  BY <1>1, LostFields
<1>3. \A t \in Servers : [srv EXCEPT ![r] = z][t] = IF t = r THEN z ELSE srv[t]
  BY <1>1
<1>4. srv' = [t \in Servers |-> IF t \in R \ {r} THEN replicationHandleMasterDisconnection(srv[t])
                                 ELSE IF t = r THEN z ELSE srv[t]]
  BY <1>3 DEF Lost, Becomes
<1> QED
  BY <1>1, <1>2, <1>4

LEMMA CutLinks ==
  ASSUME NEW h, Inv(h), NEW Q, Cut(Q)
  PROVE  /\ feed' \in [Servers -> Servers \cup {NoServer}] /\ pipe' \in [Servers -> Seq(Msg)]
         /\ \A t \in Servers : /\ feed'[t] = IF t \in Q THEN NoServer ELSE feed[t]
                              /\ pipe'[t] = IF t \in Q THEN <<>> ELSE pipe[t]
<1>1. \A t \in Servers : feed[t] \in Servers \cup {NoServer} /\ pipe[t] \in Seq(Msg)
  BY DEF Inv, Types
<1>2. <<>> \in Seq(Msg)
  OBVIOUS
<1> QED
  BY <1>1, <1>2 DEF Cut

\* A step that cuts off all replicas of r, and r itself.
LEMMA CutStep ==
  ASSUME PsyncAssumption, NEW h, NEW g, Inv(h), NEW r \in Servers, NEW z \in Server, NEW R, R = slaves(r),
         Becomes(r, z, R), Cut(R \cup {r}), disk' = disk, writes' = writes,
         ids' \in Nat, ids <= ids', events' = events + 1, events < MaxEvents,
         \A t \in Servers \ {r} : Agree(g, h, t)
  PROVE  /\ Types' /\ srv'[r] = z /\ feed'[r] = NoServer /\ pipe'[r] = <<>>
         /\ \A t \in Servers \ {r} : One(g, t)'
<1>1. Types /\ writes \in Nat /\ srv[r].m # r /\ (feed[r] # NoServer => srv[r].m = feed[r]) /\ NoServer \notin Servers
  BY NamedIds, FeedFacts DEF Inv, PsyncAssumption, One, Local
<1>2. r \notin R /\ R \ {r} = R
  BY <1>1 DEF slaves
<1>3. /\ writes' \in 0..MaxWrites /\ writes' \in Nat /\ writes <= writes' /\ events' \in 0..MaxEvents
      /\ disk' \in [Servers -> File]
  BY <1>1 DEF Types, PsyncAssumption
<1>4. /\ srv' \in [Servers -> Server] /\ srv'[r] = z
      /\ \A t \in Servers \ {r} : srv'[t] = IF t \in R THEN replicationHandleMasterDisconnection(srv[t]) ELSE srv[t]
  BY LostServers
<1>5. /\ feed' \in [Servers -> Servers \cup {NoServer}] /\ pipe' \in [Servers -> Seq(Msg)]
      /\ feed'[r] = NoServer /\ pipe'[r] = <<>>
      /\ \A t \in Servers \ {r} : /\ feed'[t] = IF t \in R THEN NoServer ELSE feed[t]
                                 /\ pipe'[t] = IF t \in R THEN <<>> ELSE pipe[t]
  <2>1. PICK Q : Q = R \cup {r}
    OBVIOUS
  <2>2. Cut(Q)
    BY <2>1
  <2>3. /\ feed' \in [Servers -> Servers \cup {NoServer}] /\ pipe' \in [Servers -> Seq(Msg)]
        /\ \A t \in Servers : /\ feed'[t] = IF t \in Q THEN NoServer ELSE feed[t]
                             /\ pipe'[t] = IF t \in Q THEN <<>> ELSE pipe[t]
    BY <2>2, CutLinks
  <2> QED BY <2>1, <2>3
<1>6. Types'
  BY <1>3, <1>4, <1>5 DEF Types
<1>7. \A t \in Servers \ {r} : One(g, t)'
  <2>1. R \subseteq slaves(r) \ {r} /\ slaves(r) \ {r} \subseteq R
    BY <1>2
  <2>2. \A t \in Servers \ {r} :
           /\ srv'[t] = IF t \in R THEN replicationHandleMasterDisconnection(srv[t]) ELSE srv[t]
           /\ feed'[t] = IF t \in R THEN NoServer ELSE feed[t]
           /\ pipe'[t] = IF t \in R THEN <<>> ELSE pipe[t]
           /\ disk'[t] = disk[t]
    BY <1>4, <1>5
  <2> QED BY <1>3, <2>1, <2>2, CutOthers
<1> QED
  BY <1>4, <1>5, <1>6, <1>7

\* Histories that only name a new ID.
LEMMA AgreeFresh ==
  ASSUME NEW h, NEW g, Inv(h), NEW t \in Servers, \A i \in 1..ids : g[i] = h[i]
  PROVE  Agree(g, h, t)
BY NamedIds DEF Agree

LEMMA LoadingFailsStep ==
  ASSUME PsyncAssumption, NEW h \in Histories, Inv(h), NEW r \in Servers, loadingFails(r)
  PROVE  Inv(h)'
<1>1. /\ Types /\ srv[r] \in Server /\ One(h, r) /\ ids \in Nat /\ writes \in Nat /\ NoServer \notin Servers
      /\ feed[r] # NoServer /\ srv[r].m = feed[r] /\ feed[r] # r /\ feed[r] \in Servers
  <2>1. Types /\ NoServer \notin Servers /\ feed[r] # NoServer
    BY DEF Inv, PsyncAssumption, loadingFails, Reads
  <2> QED BY <2>1, FeedFacts, NamedIds
<1>2. PICK z : z = [srv[r] EXCEPT !.cm = NoCache, !.ls = "connect", !.bl = NoBacklog, !.data = <<>>]
  OBVIOUS
<1>3. /\ z \in Server /\ z.m = srv[r].m /\ z.ls = "connect" /\ z.id = srv[r].id /\ z.id2 = srv[r].id2
      /\ z.off2 = srv[r].off2 /\ z.off = srv[r].off /\ z.cm = NoCache /\ ~z.bl.on /\ z.bl.w = <<>> /\ z.data = <<>>
  <2>1. NoCache \in [id : Nat, off : Int] /\ NoBacklog \in [on : BOOLEAN, first : Nat, w : Seq(Nat)]
    BY DEF NoCache, NoBacklog
  <2>2. ~NoBacklog.on /\ NoBacklog.w = <<>> /\ <<>> \in Seq(Nat)
    BY DEF NoBacklog
  <2> QED BY <1>1, <1>2, <2>1, <2>2 DEF Server
<1>4. PICK R : R = slaves(r)
  OBVIOUS
<1>5. /\ disk' = disk /\ writes' = writes /\ ids' = ids /\ events' = events + 1 /\ events < MaxEvents
      /\ Becomes(r, z, R) /\ Cut((R \ {r}) \cup {r})
  <2>1. [srv EXCEPT ![r] = [replicationDiscardCachedMaster(@) EXCEPT !.ls = "connect", !.bl = NoBacklog, !.data = <<>>]]
          = [srv EXCEPT ![r] = z]
    BY <1>1, <1>2 DEF replicationDiscardCachedMaster, Server, Types
  <2> QED BY <1>4, <2>1 DEF loadingFails, Event, Becomes
<1>6. /\ Types' /\ srv'[r] = z /\ feed'[r] = NoServer /\ pipe'[r] = <<>>
      /\ \A t \in Servers \ {r} : One(h, t)'
  <2>1. (R \ {r}) \cup {r} = R \cup {r}
    OBVIOUS
  <2>2. Cut(R \cup {r})
    BY <1>5, <2>1, Zenon
  <2>4. ids' \in Nat /\ ids <= ids'
    BY <1>1, <1>5
  <2>3. \A t \in Servers \ {r} : Agree(h, h, t)
    BY DEF Agree
  <2> QED BY <1>3, <1>4, <1>5, <2>2, <2>3, <2>4, CutStep
<1>7. One(h, r)'
  <2>1. Numbers(z, <<>>)'
    <3>1. Shape(<<>>)
      BY DEF Shape
    <3>2. (z.ls = "none") = (z.m = NoServer) /\ Len(z.bl.w) <= BacklogLen
      BY <1>1, <1>3 DEF PsyncAssumption
    <3> QED BY <1>1, <1>3, <1>5, <3>1, <3>2 DEF One, Numbers
  <2>2. Local(r, z)
    BY <1>1, <1>3 DEF One, Local, Valid
  <2>3. HistOf(h, r, z, disk[r])
    <3>1. ~Valid(z) /\ z.m # NoServer
      BY <1>1, <1>3 DEF Valid
    <3> QED BY <1>1, <1>3, <3>1 DEF One, HistOf, Second, Leads
  <2>4. FileOf(h, r, disk[r])'
    BY <1>1, <1>5 DEF One, FileOf
  <2>5. Feeds(h, r)'
    BY <1>3, <1>6 DEF Feeds
  <2> QED BY <1>5, <1>6, <2>1, <2>2, <2>3, <2>4, <2>5 DEF One
<1> QED
  BY <1>6, <1>7 DEF Inv

-----------------------------------------------------------------------------
(* Steps that make a new history.                                          *)

\* A server whose new ID names its data.
LEMMA FreshHist ==
  ASSUME NEW h, NEW k, NEW g \in Histories, Inv(h), NEW s \in Servers, NEW z \in Server,
         NewHistory(g, k, s, z.off, z.data), z.id = ids + 1,
         z.bl.on => ~g[ids + 1].priv, ~z.bl.on => g[ids + 1].priv, Second(g, z)
  PROVE  HistOf(g, s, z, disk[s])
<1>1. Fits(g, z.id, z.off, z.data) /\ g[z.id].by = s /\ g[z.id].top = z.off
  BY DEF NewHistory
<1>2. (z.bl.on => ~g[z.id].priv) /\ (~z.bl.on => g[z.id].priv)
  OBVIOUS
<1>3. disk[s].info => disk[s].id # z.id
  <2>1. ids \in Nat /\ (disk[s].info => disk[s].id \in 1..ids)
    BY NamedIds
  <2> QED BY <2>1
<1> QED
  BY <1>1, <1>2, <1>3 DEF HistOf, Leads

LEMMA FileKept ==
  ASSUME NEW h, NEW g, Inv(h), NEW s \in Servers, disk[s].info => g[disk[s].id] = h[disk[s].id], disk'[s] = disk[s],
         ids' \in Nat, ids <= ids', writes' \in Nat, writes <= writes'
  PROVE  FileOf(g, s, disk[s])'
<1>1. FileOf(h, s, disk[s])
  BY DEF Inv, One
<1>2. ids \in Nat /\ writes \in Nat /\ disk[s].id \in Nat /\ disk[s].off \in Nat /\ (disk[s].info => disk[s].id \in 1..ids)
  BY NamedIds
<1>3. disk[s].off <= writes' /\ (disk[s].info => disk[s].id \in 1..ids')
  BY <1>1, <1>2 DEF FileOf
<1> QED
  BY <1>1, <1>3 DEF FileOf, Fits

\* A server that has just changed its ID: both IDs name its data.
LEMMA SecondOf ==
  ASSUME NEW g \in Histories, NEW z \in Server, z.off2 = z.off + 1,
         Fits(g, z.id, z.off, z.data), Fits(g, z.id2, z.off, z.data), ~g[z.id2].priv
  PROVE  Second(g, z)
<1>1. z.id \in Nat /\ z.id2 \in Nat /\ z.off \in Nat /\ Len(z.data) \in Nat
  BY ServerFields
<1>2. PICK b \in Int : b = g[z.id].base
  BY <1>1, HistoryFields
<1>3. PICK c \in Int : c = g[z.id2].base
  BY <1>1, HistoryFields
<1>4. PICK o \in Nat : o = z.off
  BY <1>1
<1>5. PICK l \in Nat : l = Len(z.data)
  BY <1>1
<1>6. l = o + b /\ l = o + c /\ o <= g[z.id2].top /\ \A i \in 1..l : z.data[i] = g[z.id2].w[i]
  BY <1>2, <1>3, <1>4, <1>5 DEF Fits
<1>7. b = c /\ o + 1 - 1 = o /\ o + 1 - 1 + c = l
  BY <1>6
<1>8. z.off2 - 1 = o
  BY <1>4, <1>7
<1> QED
  BY <1>2, <1>3, <1>4, <1>6, <1>7, <1>8 DEF Second

LEMMA FreeBacklogStep ==
  ASSUME PsyncAssumption, NEW h \in Histories, Inv(h), NEW s \in Servers, freeReplicationBacklog(s)
  PROVE  \E g \in Histories : Inv(g)'
<1>1. /\ Types /\ srv[s] \in Server /\ One(h, s) /\ ids \in Nat /\ writes \in Nat /\ NoServer \notin Servers
      /\ srv[s].off \in Nat /\ srv[s].data \in Seq(Nat)
  <2>1. Types /\ NoServer \notin Servers
    BY DEF Inv, PsyncAssumption
  <2> QED BY <2>1, FeedFacts, NamedIds, ServerFields
<1>2. PICK z : z = [srv[s] EXCEPT !.id = ids + 1, !.id2 = 0, !.off2 = -1, !.bl = NoBacklog]
  OBVIOUS
<1>3. /\ z \in Server /\ z.m = srv[s].m /\ z.ls = srv[s].ls /\ z.id = ids + 1 /\ z.id2 = 0
      /\ z.off = srv[s].off /\ z.cm = srv[s].cm /\ ~z.bl.on /\ z.bl.w = <<>> /\ z.data = srv[s].data
  <2>1. NoBacklog \in [on : BOOLEAN, first : Nat, w : Seq(Nat)] /\ ~NoBacklog.on /\ NoBacklog.w = <<>>
    BY DEF NoBacklog
  <2>2. -1 \in Int /\ ids + 1 \in Nat
    BY <1>1
  <2> QED BY <1>1, <1>2, <2>1, <2>2 DEF Server
<1>4. /\ srv[s].m = NoServer /\ slaves(s) = {} /\ srv' = [srv EXCEPT ![s] = z] /\ ids' = ids + 1
      /\ feed' = feed /\ pipe' = pipe /\ disk' = disk /\ writes' = writes /\ events' = events + 1 /\ events < MaxEvents
  <2>1. [clearReplicationId2(changeReplicationId(srv[s], ids + 1)) EXCEPT !.bl = NoBacklog] = z
    BY <1>1, <1>2 DEF clearReplicationId2, changeReplicationId, Server
  <2> QED BY <1>1, <2>1 DEF freeReplicationBacklog, Event, Types
<1>5. srv'[s] = z /\ \A t \in Servers \ {s} : srv'[t] = srv[t]
  BY <1>1, <1>4 DEF Types
<1>6. Types'
  BY <1>1, <1>3, <1>4 DEF Types, PsyncAssumption
<1>7. PICK g \in Histories : NewHistory(g, h, s, srv[s].off, srv[s].data) /\ g[ids + 1].priv
  BY <1>1, FreshHistory
<1>8. \A t \in Servers : Agree(g, h, t)
  BY <1>7, AgreeFresh DEF NewHistory
<1>9. ids' \in Nat /\ ids <= ids' /\ writes' \in Nat /\ writes <= writes'
  BY <1>1, <1>4
<1>10. \A t \in Servers \ {s} : One(g, t)'
  <2>1. PICK R : R = {}
    OBVIOUS
  <2>2. \A t \in Servers \ {s} :
           /\ srv'[t] = IF t \in R THEN replicationHandleMasterDisconnection(srv[t]) ELSE srv[t]
           /\ feed'[t] = IF t \in R THEN NoServer ELSE feed[t]
           /\ pipe'[t] = IF t \in R THEN <<>> ELSE pipe[t]
           /\ disk'[t] = disk[t]
    BY <1>4, <1>5, <2>1
  <2>3. R \subseteq slaves(s) \ {s} /\ slaves(s) \ {s} \subseteq R
    BY <1>4, <2>1
  <2> QED BY <1>8, <1>9, <2>2, <2>3, CutOthers
<1>11. One(g, s)'
  <2>1. feed[s] = NoServer
    BY <1>1, <1>4, FeedFacts
  <2>2. pipe[s] = <<>> /\ Shape(<<>>) /\ (srv[s].ls = "none")
    BY <1>1, <1>4, <2>1 DEF One, Feeds, Shape, Numbers
  <2>3. Numbers(z, <<>>)'
    <3>1. ids + 1 \in 1..(ids + 1) /\ 0 \in 0..(ids + 1) /\ Len(z.bl.w) <= BacklogLen
      BY <1>1, <1>3 DEF PsyncAssumption
    <3>2. z.off <= writes
      BY <1>1, <1>3 DEF One, Numbers
    <3> QED BY <1>3, <1>4, <2>2, <3>1, <3>2 DEF Numbers
  <2>4. Local(s, z)
    BY <1>1, <1>3, <1>4, <2>2 DEF One, Local
  <2>5. HistOf(g, s, z, disk[s])
    <3>1. Second(g, z)
      BY <1>3 DEF Second
    <3>2. NewHistory(g, h, s, z.off, z.data)
      BY <1>3, <1>7
    <3> QED BY <1>3, <1>7, <3>1, <3>2, FreshHist
  <2>6. FileOf(g, s, disk[s])'
    <3>1. (disk[s].info => g[disk[s].id] = h[disk[s].id]) /\ disk'[s] = disk[s]
      BY <1>4, <1>8 DEF Agree
    <3> QED BY <1>9, <3>1, FileKept
  <2>7. Feeds(g, s)'
    BY <1>3, <1>4, <1>5, <2>1, <2>2 DEF Feeds
  <2> QED BY <1>4, <1>5, <2>2, <2>3, <2>4, <2>5, <2>6, <2>7 DEF One
<1> QED
  BY <1>6, <1>7, <1>10, <1>11 DEF Inv

LEMMA UnsetMasterStep ==
  ASSUME PsyncAssumption, NEW h \in Histories, Inv(h), NEW r \in Servers, replicationUnsetMaster(r)
  PROVE  \E g \in Histories : Inv(g)'
<1>1. /\ Types /\ srv[r] \in Server /\ One(h, r) /\ ids \in Nat /\ writes \in Nat /\ NoServer \notin Servers
      /\ srv[r].off \in Nat /\ srv[r].data \in Seq(Nat) /\ srv[r].id \in Nat /\ srv[r].id \in 1..ids
  <2>1. Types /\ NoServer \notin Servers
    BY DEF Inv, PsyncAssumption
  <2> QED BY <2>1, FeedFacts, NamedIds, ServerFields
<1>2. PICK z : z = [srv[r] EXCEPT !.cm = NoCache, !.id2 = srv[r].id, !.off2 = srv[r].off + 1, !.id = ids + 1,
                                  !.m = NoServer, !.ls = "none"]
  OBVIOUS
<1>3. /\ z \in Server /\ z.m = NoServer /\ z.ls = "none" /\ z.id = ids + 1 /\ z.id2 = srv[r].id
      /\ z.off2 = srv[r].off + 1 /\ z.off = srv[r].off /\ z.cm = NoCache /\ z.bl = srv[r].bl /\ z.data = srv[r].data
  <2>1. NoCache \in [id : Nat, off : Int]
    BY DEF NoCache
  <2>2. srv[r].off + 1 \in Int /\ ids + 1 \in Nat
    BY <1>1
  <2> QED BY <1>1, <1>2, <2>1, <2>2 DEF Server
<1>4. PICK R : R = slaves(r)
  OBVIOUS
<1>5. /\ Becomes(r, z, R) /\ Cut(R \cup {r}) /\ ids' = ids + 1 /\ srv[r].m # NoServer
      /\ disk' = disk /\ writes' = writes /\ events' = events + 1 /\ events < MaxEvents
  <2>1. ASSUME NEW x, x = shiftReplicationId(replicationDiscardCachedMaster(srv[r]), ids + 1)
        PROVE  [x EXCEPT !.m = NoServer, !.ls = "none"] = z
    BY <1>1, <1>2, <2>1 DEF shiftReplicationId, changeReplicationId, replicationDiscardCachedMaster, Server
  <2> QED BY <1>4, <2>1 DEF replicationUnsetMaster, Event, Becomes
<1>6. PICK g \in Histories : /\ NewHistory(g, h, r, srv[r].off, srv[r].data)
                             /\ (srv[r].bl.on => ~g[ids + 1].priv) /\ (~srv[r].bl.on => g[ids + 1].priv)
  <2>1. /\ \E g \in Histories : NewHistory(g, h, r, srv[r].off, srv[r].data) /\ g[ids + 1].priv
        /\ \E g \in Histories : NewHistory(g, h, r, srv[r].off, srv[r].data) /\ ~g[ids + 1].priv
    BY <1>1, FreshHistory
  <2> QED BY <2>1
<1>7. \A t \in Servers : Agree(g, h, t)
  BY <1>6, AgreeFresh DEF NewHistory
<1>8. ids' \in Nat /\ ids <= ids' /\ writes' \in Nat /\ writes <= writes'
  BY <1>1, <1>5
<1>9. /\ Types' /\ srv'[r] = z /\ feed'[r] = NoServer /\ pipe'[r] = <<>>
      /\ \A t \in Servers \ {r} : One(g, t)'
  BY <1>3, <1>4, <1>5, <1>7, <1>8, CutStep
<1>10. One(g, r)'
  <2>1. Numbers(z, <<>>)'
    <3>1. ids + 1 \in 1..(ids + 1) /\ srv[r].id \in 0..(ids + 1) /\ Shape(<<>>)
      BY <1>1 DEF Shape
    <3>2. z.off <= writes /\ Len(z.bl.w) <= BacklogLen
      BY <1>1, <1>3 DEF One, Numbers
    <3> QED BY <1>3, <1>5, <3>1, <3>2 DEF Numbers
  <2>2. Local(r, z)
    <3>1. Valid(z) /\ NoServer # r
      BY <1>1, <1>3 DEF Valid
    <3> QED BY <1>1, <1>3, <3>1 DEF One, Local
  <2>3. Second(g, z)
    <3>1. CASE srv[r].bl.on
      <4>1. Fits(h, srv[r].id, srv[r].off, srv[r].data) /\ ~h[srv[r].id].priv
        BY <1>1, <3>1 DEF One, HistOf, Local
      <4>2. g[srv[r].id] = h[srv[r].id]
        BY <1>1, <1>6 DEF NewHistory
      <4>3. Fits(g, z.id2, z.off, z.data) /\ ~g[z.id2].priv
        BY <1>3, <4>1, <4>2 DEF Fits
      <4>4. Fits(g, z.id, z.off, z.data) /\ z.off2 = z.off + 1
        BY <1>3, <1>6 DEF NewHistory
      <4> QED BY <1>3, <4>3, <4>4, SecondOf
    <3>2. CASE ~srv[r].bl.on
      BY <1>3, <3>2 DEF Second
    <3> QED BY <3>1, <3>2
  <2>4. HistOf(g, r, z, disk[r])
    <3>1. NewHistory(g, h, r, z.off, z.data) /\ (z.bl.on => ~g[ids + 1].priv) /\ (~z.bl.on => g[ids + 1].priv)
      BY <1>3, <1>6
    <3> QED BY <1>3, <2>3, <3>1, FreshHist
  <2>5. FileOf(g, r, disk[r])'
    <3>1. (disk[r].info => g[disk[r].id] = h[disk[r].id]) /\ disk'[r] = disk[r]
      BY <1>5, <1>7 DEF Agree
    <3> QED BY <1>8, <3>1, FileKept
  <2>6. Feeds(g, r)'
    BY <1>3, <1>9 DEF Feeds
  <2> QED BY <1>5, <1>9, <2>1, <2>2, <2>4, <2>5, <2>6 DEF One
<1> QED
  BY <1>6, <1>9, <1>10 DEF Inv

\* An ID from the file of s is handed to others: nobody relied on nobody
\* knowing it.
LEMMA MadeKnown ==
  ASSUME NEW h \in Histories, Inv(h), NEW s \in Servers, disk[s].info, NEW k \in Histories,
         k[disk[s].id].base = h[disk[s].id].base, k[disk[s].id].top = h[disk[s].id].top,
         k[disk[s].id].w = h[disk[s].id].w, k[disk[s].id].by = h[disk[s].id].by,
         ~k[disk[s].id].priv, \A i \in Nat \ {disk[s].id} : k[i] = h[i],
         NEW t \in Servers \ {s}
  PROVE  Agree(k, h, t)
<1>1. /\ disk[s].id \in Nat /\ srv[t].id \in Nat /\ srv[t].id2 \in Nat /\ disk[t].id \in Nat
      /\ h[disk[s].id] \in History /\ k[disk[s].id] \in History /\ h[disk[s].id].priv \in BOOLEAN
  BY NamedIds, HistoryFields
<1>2. CASE ~h[disk[s].id].priv
  <2>1. k[disk[s].id] = h[disk[s].id]
    <3>1. PICK a \in History : a = k[disk[s].id]
      BY <1>1
    <3>2. PICK b \in History : b = h[disk[s].id]
      BY <1>1
    <3>3. a.base = b.base /\ a.top = b.top /\ a.w = b.w /\ a.by = b.by /\ a.priv = FALSE /\ b.priv = FALSE
      <4>1. b.priv \in BOOLEAN /\ a.priv \in BOOLEAN
        BY DEF History
      <4> QED BY <1>2, <3>1, <3>2, <4>1
    <3>4. a = b
      BY <3>3 DEF History
    <3> QED BY <3>1, <3>2, <3>4
  <2> QED BY <1>1, <2>1 DEF Agree
<1>3. CASE h[disk[s].id].priv
  <2>1. h[disk[s].id].by = s
    BY <1>3 DEF Inv, One, FileOf
  <2>2. One(h, t)
    BY DEF Inv
  <2>3. srv[t].id # disk[s].id
    BY <1>3, <2>1, <2>2 DEF One, HistOf
  <2>4. srv[t].id2 # 0 /\ srv[t].bl.on => srv[t].id2 # disk[s].id
    BY <1>3, <2>2 DEF One, HistOf, Second
  <2>5. disk[t].info => disk[t].id # disk[s].id
    BY <1>3, <2>1, <2>2 DEF One, FileOf
  <2> QED BY <1>1, <2>3, <2>4, <2>5 DEF Agree
<1> QED
  BY <1>2, <1>3

\* What loadDataFromDisk makes of file f.
LEMMA Loaded ==
  ASSUME PsyncAssumption, NEW f \in File, NEW m \in Servers \cup {NoServer}, NEW n \in Nat, NEW z,
         z = loadDataFromDisk(f, m, n)
  PROVE  /\ z \in Server /\ z.m = m /\ (z.ls = "none") = (m = NoServer) /\ z.ls \in {"none", "connect"}
         /\ z.data = f.data /\ Len(z.bl.w) <= BacklogLen /\ z.off \in {0, f.off}
         /\ m # NoServer => z.id2 = 0 /\ ~z.bl.on
         /\ m # NoServer /\ f.info => z.id = f.id /\ z.off = f.off /\ z.cm = [id |-> f.id, off |-> f.off]
         /\ ~(m # NoServer /\ f.info) => z.id = n /\ z.cm = NoCache
         /\ m = NoServer /\ f.info /\ f.off # 0 =>
              z.id2 = f.id /\ z.off2 = f.off + 1 /\ z.off = f.off /\ z.bl = [on |-> TRUE, first |-> f.off + 1, w |-> <<>>]
         /\ ~(m = NoServer /\ f.info /\ f.off # 0) => ~z.bl.on /\ (z.id2 = 0 \/ (f.info /\ z.id2 = f.id))
<1>1. /\ f.info \in BOOLEAN /\ f.id \in Nat /\ f.off \in Nat /\ f.data \in Seq(Nat) /\ BacklogLen \in Nat
      /\ NoServer \notin Servers
  BY DEF File, PsyncAssumption
<1>2. NoCache \in [id : Nat, off : Int] /\ NoBacklog \in [on : BOOLEAN, first : Nat, w : Seq(Nat)]
      /\ ~NoBacklog.on /\ NoBacklog.w = <<>> /\ Len(<<>>) = 0 /\ <<>> \in Seq(Nat)
  BY DEF NoCache, NoBacklog
<1>3. CASE m # NoServer /\ f.info
  <2>1. z = [m |-> m, ls |-> "connect", id |-> f.id, id2 |-> 0, off2 |-> -1, off |-> f.off,
             cm |-> [id |-> f.id, off |-> f.off], bl |-> NoBacklog, data |-> f.data]
    BY <1>3 DEF loadDataFromDisk, NewServer, replicationCacheMasterUsingMyself
  <2>2. -1 \in Int /\ [id |-> f.id, off |-> f.off] \in [id : Nat, off : Int]
    BY <1>1
  <2> QED BY <1>1, <1>2, <1>3, <2>1, <2>2 DEF Server
<1>4. CASE m # NoServer /\ ~f.info
  <2>1. z = [m |-> m, ls |-> "connect", id |-> n, id2 |-> 0, off2 |-> -1, off |-> 0,
             cm |-> NoCache, bl |-> NoBacklog, data |-> f.data]
    BY <1>4 DEF loadDataFromDisk, NewServer
  <2> QED BY <1>1, <1>2, <1>4, <2>1 DEF Server
<1>5. CASE m = NoServer /\ f.info /\ f.off # 0
  <2>1. z = [m |-> NoServer, ls |-> "none", id |-> n, id2 |-> f.id, off2 |-> f.off + 1, off |-> f.off,
             cm |-> NoCache, bl |-> [on |-> TRUE, first |-> f.off + 1, w |-> <<>>], data |-> f.data]
    BY <1>5 DEF loadDataFromDisk, NewServer, createReplicationBacklog
  <2>2. PICK b : b = [on |-> TRUE, first |-> f.off + 1, w |-> <<>>]
    OBVIOUS
  <2>3. f.off + 1 \in Int /\ f.off + 1 \in Nat
    BY <1>1
  <2>4. b \in [on : BOOLEAN, first : Nat, w : Seq(Nat)] /\ b.on /\ b.w = <<>>
    BY <1>2, <2>2, <2>3
  <2>5. z = [m |-> NoServer, ls |-> "none", id |-> n, id2 |-> f.id, off2 |-> f.off + 1, off |-> f.off,
             cm |-> NoCache, bl |-> b, data |-> f.data]
    BY <2>1, <2>2
  <2>6. /\ z \in Server /\ z.m = m /\ z.ls = "none" /\ z.data = f.data /\ z.off = f.off /\ z.id = n /\ z.cm = NoCache
        /\ z.id2 = f.id /\ z.off2 = f.off + 1 /\ z.bl = b
    BY <1>1, <1>2, <1>5, <2>3, <2>4, <2>5 DEF Server
  <2>7. Len(z.bl.w) <= BacklogLen
    BY <1>1, <1>2, <2>4, <2>6
  <2> QED BY <1>5, <2>2, <2>6, <2>7
<1>6. CASE m = NoServer /\ ~(f.info /\ f.off # 0)
  <2>1. PICK o : o = IF f.info THEN 1 ELSE -1
    OBVIOUS
  <2>2. PICK i : i = IF f.info THEN f.id ELSE 0
    OBVIOUS
  <2>3. z = [m |-> NoServer, ls |-> "none", id |-> n, id2 |-> i, off2 |-> o, off |-> 0,
             cm |-> NoCache, bl |-> NoBacklog, data |-> f.data]
    BY <1>6, <2>1, <2>2 DEF loadDataFromDisk, NewServer
  <2>4. o \in Int /\ i \in Nat /\ (i = 0 \/ (f.info /\ i = f.id))
    BY <1>1, <2>1, <2>2
  <2> QED BY <1>1, <1>2, <1>6, <2>3, <2>4 DEF Server
<1> QED
  BY <1>3, <1>4, <1>5, <1>6

LEMMA RestartStep ==
  ASSUME PsyncAssumption, NEW h \in Histories, Inv(h), NEW s \in Servers, NEW m \in Servers \cup {NoServer}, restart(s, m)
  PROVE  \E g \in Histories : Inv(g)'
<1>1. PICK f : f = disk[s]
  OBVIOUS
<1>2. /\ Types /\ ids \in Nat /\ writes \in Nat /\ NoServer \notin Servers
      /\ f \in File /\ f.id \in Nat /\ f.off \in Nat /\ f.data \in Seq(Nat) /\ f.info \in BOOLEAN
      /\ FileOf(h, s, f) /\ ids + 1 \in Nat
  <2>1. Types /\ NoServer \notin Servers /\ f \in File /\ FileOf(h, s, f)
    BY <1>1 DEF Inv, PsyncAssumption, One, Types
  <2> QED BY <1>1, <2>1, NamedIds
<1>3. PICK z : z = loadDataFromDisk(f, m, ids + 1)
  OBVIOUS
<1>4. /\ z \in Server /\ z.m = m /\ (z.ls = "none") = (m = NoServer) /\ z.ls \in {"none", "connect"}
      /\ z.data = f.data /\ Len(z.bl.w) <= BacklogLen /\ z.off \in {0, f.off}
      /\ m # NoServer => z.id2 = 0 /\ ~z.bl.on
      /\ m # NoServer /\ f.info => z.id = f.id /\ z.off = f.off /\ z.cm = [id |-> f.id, off |-> f.off]
      /\ ~(m # NoServer /\ f.info) => z.id = ids + 1 /\ z.cm = NoCache
      /\ m = NoServer /\ f.info /\ f.off # 0 =>
           z.id2 = f.id /\ z.off2 = f.off + 1 /\ z.off = f.off /\ z.bl = [on |-> TRUE, first |-> f.off + 1, w |-> <<>>]
      /\ ~(m = NoServer /\ f.info /\ f.off # 0) => ~z.bl.on /\ (z.id2 = 0 \/ (f.info /\ z.id2 = f.id))
  BY <1>2, <1>3, Loaded
<1>5. PICK R : R = slaves(s)
  OBVIOUS
<1>6. /\ Becomes(s, z, R) /\ Cut(R \cup {s}) /\ ids' = ids + 1 /\ m # s
      /\ disk' = disk /\ writes' = writes /\ events' = events + 1 /\ events < MaxEvents
  BY <1>1, <1>3, <1>5 DEF restart, Event, Becomes
<1>7. ids' \in Nat /\ ids <= ids' /\ writes' \in Nat /\ writes <= writes'
  BY <1>2, <1>6
\* What does not depend on the histories.
<1>8. Numbers(z, <<>>)' /\ Local(s, z)
  <2>1. f.off <= writes /\ (f.info => f.id \in 1..ids)
    BY <1>2 DEF FileOf
  <2>2. z.off <= writes
    BY <1>2, <1>4, <2>1
  <2>3. z.id \in 1..(ids + 1) /\ z.id2 \in 0..(ids + 1) /\ Shape(<<>>)
    <3>1. ids + 1 \in 1..(ids + 1) /\ 0 \in 0..(ids + 1) /\ (f.info => f.id \in 1..(ids + 1) /\ f.id \in 0..(ids + 1))
      BY <1>2, <2>1
    <3> QED BY <1>4, <3>1 DEF Shape
  <2>4. Numbers(z, <<>>)'
    BY <1>4, <1>6, <2>2, <2>3 DEF Numbers
  <2>5. z.bl.on => /\ z.m = NoServer /\ z.bl.w = <<>> /\ z.bl.first + Len(z.bl.w) = z.off + 1
                   /\ Len(z.bl.w) = 0 /\ Len(z.bl.w) <= Len(z.data)
    <3>1. CASE z.bl.on
      <4>1. z.off = f.off /\ z.bl = [on |-> TRUE, first |-> f.off + 1, w |-> <<>>] /\ z.m = NoServer
        BY <1>4, <3>1
      <4>2. z.bl.first = f.off + 1 /\ z.bl.w = <<>> /\ Len(<<>>) = 0 /\ Len(f.data) \in Nat
        BY <1>2, <4>1
      <4> QED BY <1>2, <1>4, <4>1, <4>2
    <3> QED BY <3>1
  <2>6. z.m # NoServer /\ z.cm # NoCache => z.cm = [id |-> z.id, off |-> z.off]
    BY <1>4
  <2>7. (z.m = NoServer => z.cm = NoCache) /\ z.m # s /\ z.ls # "connected" /\ (z.bl.on => Valid(z))
    BY <1>4, <1>6, <2>5 DEF Valid
  <2>8. z.bl.on => \A i \in 1..Len(z.bl.w) : z.bl.w[i] = z.data[Len(z.data) - Len(z.bl.w) + i]
    BY <2>5
  <2> QED BY <2>4, <2>5, <2>6, <2>7, <2>8 DEF Local
\* It is enough that the histories fit what s becomes, and others.
<1>9. ASSUME NEW g \in Histories, HistOf(g, s, z, f), f.info => Fits(g, f.id, f.off, f.data) /\ (g[f.id].priv => g[f.id].by = s),
             \A t \in Servers \ {s} : Agree(g, h, t)
      PROVE  \E q \in Histories : Inv(q)'
  <2>1. /\ Types' /\ srv'[s] = z /\ feed'[s] = NoServer /\ pipe'[s] = <<>>
        /\ \A t \in Servers \ {s} : One(g, t)'
    BY <1>4, <1>5, <1>6, <1>7, <1>9, CutStep
  <2>2. FileOf(g, s, disk[s])'
    <3>1. f.off <= writes' /\ (f.info => f.id \in 1..ids')
      BY <1>2, <1>6 DEF FileOf
    <3> QED BY <1>1, <1>6, <1>9, <3>1 DEF FileOf
  <2>3. Feeds(g, s)'
    BY <1>4, <2>1 DEF Feeds
  <2>4. One(g, s)'
    BY <1>1, <1>6, <1>8, <1>9, <2>1, <2>2, <2>3 DEF One
  <2>5. Inv(g)'
    BY <2>1, <2>4 DEF Inv
  <2> QED BY <2>5
<1>10. CASE m # NoServer /\ f.info
  <2>1. Fits(h, f.id, f.off, f.data) /\ (h[f.id].priv => h[f.id].by = s)
    BY <1>2, <1>10 DEF FileOf
  <2>2. HistOf(h, s, z, f)
    <3>1. z.id = f.id /\ z.off = f.off /\ z.data = f.data /\ z.m # NoServer /\ ~z.bl.on /\ z.id2 = 0
      BY <1>4, <1>10
    <3> QED BY <2>1, <3>1 DEF HistOf, Second, Leads
  <2>3. \A t \in Servers \ {s} : Agree(h, h, t)
    BY DEF Agree
  <2> QED BY <1>9, <2>1, <2>2, <2>3
<1>11. CASE ~(m # NoServer /\ f.info) /\ ~(m = NoServer /\ f.info /\ f.off # 0)
  <2>1. z.off \in Nat /\ z.data \in Seq(Nat)
    BY <1>4, ServerFields
  <2>2. PICK g \in Histories : NewHistory(g, h, s, z.off, z.data) /\ g[ids + 1].priv
    BY <1>2, <2>1, FreshHistory
  <2>3. \A t \in Servers : Agree(g, h, t)
    BY <2>2, AgreeFresh DEF NewHistory
  <2>4. HistOf(g, s, z, disk[s])
    <3>1. ~z.bl.on /\ z.id = ids + 1
      BY <1>4, <1>11
    <3>2. Second(g, z)
      BY <3>1 DEF Second
    <3> QED BY <1>4, <2>2, <3>1, <3>2, FreshHist
  <2>5. f.info => Fits(g, f.id, f.off, f.data) /\ (g[f.id].priv => g[f.id].by = s)
    <3>1. f.info => g[f.id] = h[f.id]
      BY <1>1, <2>3 DEF Agree
    <3> QED BY <1>2, <3>1 DEF FileOf, Fits
  <2> QED BY <1>1, <1>9, <2>3, <2>4, <2>5
<1>12. CASE m = NoServer /\ f.info /\ f.off # 0
  <2>1. PICK k \in Histories : /\ k[f.id].base = h[f.id].base /\ k[f.id].top = h[f.id].top /\ k[f.id].w = h[f.id].w
                               /\ k[f.id].by = h[f.id].by /\ ~k[f.id].priv
                               /\ \A i \in Nat \ {f.id} : k[i] = h[i]
    <3>1. PICK v : v = [h[f.id] EXCEPT !.priv = FALSE]
      OBVIOUS
    <3>2. /\ v \in History /\ v.base = h[f.id].base /\ v.top = h[f.id].top /\ v.w = h[f.id].w
          /\ v.by = h[f.id].by /\ v.priv = FALSE
      <4>1. h[f.id] \in History
        BY <1>2, HistoryFields
      <4> QED BY <3>1, <4>1 DEF History
    <3>3. PICK k : k = [h EXCEPT ![f.id] = v]
      OBVIOUS
    <3>4. k \in Histories /\ k[f.id] = v /\ \A i \in Nat \ {f.id} : k[i] = h[i]
      BY <1>2, <3>2, <3>3 DEF Histories
    <3> QED BY <3>2, <3>4
  <2>2. PICK g \in Histories : NewHistory(g, k, s, f.off, f.data) /\ ~g[ids + 1].priv
    BY <1>2, FreshHistory
  <2>3. f.id \in 1..ids /\ Fits(h, f.id, f.off, f.data)
    BY <1>2, <1>12 DEF FileOf
  <2>4. g[f.id] = k[f.id] /\ \A i \in 1..ids : g[i] = k[i]
    BY <2>2, <2>3 DEF NewHistory
  <2>5. Fits(g, f.id, f.off, f.data) /\ ~g[f.id].priv
    BY <2>1, <2>3, <2>4 DEF Fits
  <2>6. ASSUME NEW t \in Servers \ {s} PROVE Agree(g, h, t)
    <3>1. Agree(k, h, t)
      BY <1>1, <1>12, <2>1, MadeKnown
    <3> QED BY <2>4, <3>1, NamedIds DEF Agree
  <2>7. z.id = ids + 1 /\ z.id2 = f.id /\ z.off2 = f.off + 1 /\ z.off = f.off /\ z.bl.on
    BY <1>4, <1>12
  <2>8. NewHistory(g, k, s, z.off, z.data)
    BY <1>4, <2>2, <2>7
  <2>9. Second(g, z)
    <3>1. Fits(g, z.id, z.off, z.data) /\ Fits(g, z.id2, z.off, z.data) /\ z.off2 = z.off + 1 /\ ~g[z.id2].priv
      BY <1>4, <2>5, <2>7, <2>8 DEF NewHistory
    <3> QED BY <1>4, <3>1, SecondOf
  <2>10. HistOf(g, s, z, disk[s])
    BY <1>4, <2>2, <2>7, <2>8, <2>9, FreshHist
  <2> QED BY <1>1, <1>9, <2>5, <2>6, <2>10
<1> QED
  BY <1>10, <1>11, <1>12

-----------------------------------------------------------------------------
(* PSYNC.                                                                  *)

\* D at offset o and S at offset off belong to one history, b is the backlog
\* of S from offset first on, and ms is what D misses of it.
Misses(D, S, b, o, off, first, base, ms) ==
  /\ Len(D) = o + base /\ Len(S) = off + base /\ first + Len(b) = off + 1 /\ Len(b) <= Len(S)
  /\ \A i \in 1..Len(b) : b[i] = S[Len(S) - Len(b) + i]
  /\ \A i \in 1..Len(D) : S[i] = D[i]
  /\ first <= o + 1 /\ o + 1 <= first + Len(b)
  /\ ms = SubSeq(b, o + 2 - first, Len(b))

LEMMA Missed ==
  ASSUME NEW D \in Seq(Nat), NEW S \in Seq(Nat), NEW b \in Seq(Nat), NEW o \in Nat, NEW off \in Nat, NEW first \in Nat,
         NEW base \in Int, NEW ms, Misses(D, S, b, o, off, first, base, ms)
  PROVE  ms \in Seq(Nat) /\ o + Len(ms) = off /\ Continues(D, ms, S)
<1>0. /\ Len(D) = o + base /\ Len(S) = off + base /\ first + Len(b) = off + 1 /\ Len(b) <= Len(S)
      /\ \A i \in 1..Len(b) : b[i] = S[Len(S) - Len(b) + i]
      /\ \A i \in 1..Len(D) : S[i] = D[i]
      /\ first <= o + 1 /\ o + 1 <= first + Len(b)
      /\ ms = SubSeq(b, o + 2 - first, Len(b))
  BY DEF Misses
<1>1. PICK l \in Nat : l = Len(b)
  OBVIOUS
<1>2. PICK a \in Nat : a = o + 1 - first
  BY <1>0
<1>3. PICK d \in Nat : d = Len(D)
  OBVIOUS
<1>4. PICK e \in Nat : e = Len(S)
  OBVIOUS
<1>5. d = o + base /\ e = off + base /\ first + l = off + 1 /\ l <= e /\ o + 1 <= first + l
  BY <1>0, <1>1, <1>3, <1>4
<1>6. /\ o + 2 - first = a + 1 /\ a <= l /\ o + (l - a) = off /\ d + (l - a) = e
      /\ \A i \in 1..(l - a) : a + i \in 1..l /\ e - l + (a + i) = d + i
  BY <1>2, <1>5
<1>7. /\ ms \in Seq(Nat) /\ Len(ms) = l - a
      /\ \A i \in 1..(l - a) : ms[i] = b[a + i]
  <2>1. \A i \in (a + 1)..l : i \in 1..Len(b)
    BY <1>1
  <2>7. \A i \in 1..Len(b) : b[i] \in Nat
    BY ElementOfSeq
  <2>2. \A i \in (a + 1)..l : b[i] \in Nat
    BY <2>1, <2>7
  <2>3. PICK k \in Int : k = a + 1
    OBVIOUS
  <2>4. /\ SubSeq(b, k, l) \in Seq(Nat)
        /\ Len(SubSeq(b, k, l)) = IF k <= l THEN l - k + 1 ELSE 0
        /\ \A i \in 1..(l - k + 1) : SubSeq(b, k, l)[i] = b[k + i - 1]
    <3>1. l \in Int /\ \A i \in k..l : b[i] \in Nat
      BY <2>2, <2>3
    <3> QED BY <3>1, SubSeqProperties
  <2>5. ms = SubSeq(b, k, l)
    BY <1>0, <1>1, <1>6, <2>3
  <2>6. l - k + 1 = l - a /\ (~(k <= l) => l - a = 0) /\ \A i \in 1..(l - a) : k + i - 1 = a + i
    BY <1>6, <2>3
  <2> QED BY <2>4, <2>5, <2>6
<1>9. ASSUME NEW i \in 1..(l - a) PROVE S[d + i] = ms[i]
  <2>1. a + i \in 1..Len(b) /\ b[a + i] = S[e - l + (a + i)]
    BY <1>0, <1>1, <1>4, <1>6
  <2> QED BY <1>6, <1>7, <2>1
<1>10. \A i \in 1..d : S[i] = D[i]
  BY <1>0, <1>3
<1>8. o + Len(ms) = off /\ Len(D) + Len(ms) = Len(S)
  BY <1>3, <1>4, <1>6, <1>7
<1>11. Continues(D, ms, S)
  BY <1>3, <1>7, <1>8, <1>9, <1>10 DEF Continues
<1> QED
  BY <1>7, <1>8, <1>11

\* A pipe with an answer and the writes after it.
Answer(p, q, ms) == p = <<q>> \o [i \in DOMAIN ms |-> [t |-> "w", w |-> ms[i]]]

LEMMA AnswerPipe ==
  ASSUME NEW ms \in Seq(Nat), NEW q \in Msg, q.t # "w", NEW p, Answer(p, q, ms)
  PROVE  Shape(p) /\ p # <<>> /\ p[1] = q /\ Writes(p) = ms
<1>1. PICK u : u = [i \in DOMAIN ms |-> [t |-> "w", w |-> ms[i]]]
  OBVIOUS
<1>2. Len(ms) \in Nat /\ DOMAIN ms = 1..Len(ms) /\ \A i \in 1..Len(ms) : ms[i] \in Nat
  OBVIOUS
<1>3. \A i \in 1..Len(ms) : u[i] \in Msg /\ u[i].t = "w" /\ u[i].w = ms[i]
  BY <1>1, <1>2 DEF Msg
<1>4. u \in Seq(Msg) /\ Len(u) = Len(ms)
  BY <1>1, <1>2, <1>3
<1>5. p = <<q>> \o u /\ <<q>> \in Seq(Msg) /\ Len(<<q>>) = 1 /\ <<q>>[1] = q
  BY <1>1 DEF Answer
<1>6. /\ p \in Seq(Msg) /\ Len(p) = Len(ms) + 1 /\ p[1] = q /\ p # <<>>
      /\ \A i \in 1..Len(ms) : p[i + 1] = u[i]
  <2>1. p \in Seq(Msg) /\ Len(p) = 1 + Len(ms)
    BY <1>2, <1>4, <1>5
  <2>2. p[1] = q
    BY <1>2, <1>4, <1>5
  <2>3. ASSUME NEW i \in 1..Len(ms) PROVE p[i + 1] = u[i]
    BY <1>2, <1>4, <1>5
  <2> QED BY <1>2, <2>1, <2>2, <2>3
<1>7. Shape(p)
  <2>1. ASSUME NEW i \in 2..Len(p) PROVE p[i].t = "w"
    <3>1. i - 1 \in 1..Len(ms) /\ (i - 1) + 1 = i
      BY <1>2, <1>6
    <3>2. p[i] = u[i - 1]
      BY <1>6, <3>1
    <3> QED BY <1>3, <3>1, <3>2
  <2> QED BY <1>6, <2>1 DEF Shape
<1>8. /\ Writes(p) \in Seq(Nat) /\ Len(Writes(p)) = Len(p) - 1
      /\ \A i \in 1..(Len(p) - 1) : Writes(p)[i] = p[i + 1].w
  BY <1>6, <1>7, WritesAfter
<1>9. Len(p) - 1 = Len(ms)
  BY <1>2, <1>6
<1>10. \A i \in 1..Len(ms) : Writes(p)[i] = ms[i]
  BY <1>3, <1>6, <1>8, <1>9
<1>11. Writes(p) = ms
  BY <1>8, <1>9, <1>10, SeqEqual
<1> QED
  BY <1>6, <1>7, <1>11

\* A replica that has asked s and waits.
LEMMA Waits ==
  ASSUME PsyncAssumption, NEW h, NEW g, Inv(h), NEW r \in Servers, NEW s \in Servers,
         srv[r].m = s, srv'[r] = [srv[r] EXCEPT !.ls = "wait"], feed'[r] = s, disk'[r] = disk[r],
         Shape(pipe'[r]), srv'[s].bl.on, pipe'[r] # <<>>, pipe'[r][1].t # "w", pipe'[r][1].id = srv'[s].id,
         pipe'[r][1].t = "continue" =>
           /\ srv[r].cm # NoCache /\ srv[r].off + Len(Writes(pipe'[r])) = srv'[s].off
           /\ Continues(srv[r].data, Writes(pipe'[r]), srv'[s].data) /\ ~g[srv[r].id].priv,
         pipe'[r][1].t = "full" =>
           /\ pipe'[r][1].off + Len(Writes(pipe'[r])) = srv'[s].off
           /\ Continues(pipe'[r][1].data, Writes(pipe'[r]), srv'[s].data),
         Suits(g, h, r), ids' \in Nat, ids <= ids', writes' \in Nat, writes <= writes'
  PROVE  One(g, r)'
<1>1. /\ srv[r] \in Server /\ One(h, r) /\ ids \in Nat /\ writes \in Nat /\ NoServer \notin Servers
      /\ srv[r].id \in Nat /\ srv[r].id2 \in Nat /\ srv[r].off \in Nat /\ disk[r].off \in Nat /\ disk[r].id \in Nat
  <2>1. NoServer \notin Servers
    BY DEF PsyncAssumption
  <2> QED BY <2>1, FeedFacts, NamedIds, ServerFields
<1>2. /\ srv'[r].ls = "wait" /\ srv'[r].m = srv[r].m /\ srv'[r].id = srv[r].id /\ srv'[r].id2 = srv[r].id2
      /\ srv'[r].off2 = srv[r].off2 /\ srv'[r].off = srv[r].off /\ srv'[r].cm = srv[r].cm /\ srv'[r].bl = srv[r].bl
      /\ srv'[r].data = srv[r].data
  BY <1>1 DEF Server
<1>3. HistOf(g, r, srv[r], disk[r])'
  BY <1>2, HistSame DEF Suits
<1>4. FileOf(g, r, disk[r])'
  BY <1>1 DEF Suits, FileOf
<1>5. Numbers(srv[r], pipe[r])'
  BY <1>1, <1>2 DEF One, Numbers
<1>6. Local(r, srv[r])'
  BY <1>1, <1>2 DEF One, Local, Valid
<1>7. Feeds(g, r)'
  <2>1. Stream(srv'[r], srv'[s], pipe'[r])
    BY <1>2 DEF Stream
  <2>2. feed'[r] # NoServer /\ srv'[r].m = feed'[r]
    BY <1>1, <1>2
  <2> QED BY <1>2, <2>1, <2>2 DEF Feeds
<1> QED
  BY <1>3, <1>4, <1>5, <1>6, <1>7 DEF One

\* Only r, and what is sent to it, changes, and its replicas see no change.
Asked(r, s, p) ==
  /\ srv' = [srv EXCEPT ![r].ls = "wait"] /\ feed' = [feed EXCEPT ![r] = s] /\ pipe' = [pipe EXCEPT ![r] = p]
  /\ disk' = disk /\ writes' = writes /\ ids' = ids /\ events' = events

LEMMA AskStep ==
  ASSUME PsyncAssumption, NEW h, Inv(h), NEW r \in Servers, NEW s \in Servers, NEW p \in Seq(Msg), Asked(r, s, p)
  PROVE  /\ Types' /\ srv'[r] = [srv[r] EXCEPT !.ls = "wait"] /\ feed'[r] = s /\ pipe'[r] = p
         /\ \A t \in Servers \ {r} : One(h, t)' /\ srv'[t] = srv[t]
<1>1. Types /\ srv[r] \in Server /\ ids \in Nat /\ writes \in Nat
  BY FeedFacts, NamedIds DEF Inv
<1>2. /\ srv'[r] = [srv[r] EXCEPT !.ls = "wait"] /\ feed'[r] = s /\ pipe'[r] = p
      /\ \A t \in Servers \ {r} : srv'[t] = srv[t] /\ feed'[t] = feed[t] /\ pipe'[t] = pipe[t]
      /\ disk' = disk /\ writes' = writes /\ ids' = ids
  BY <1>1 DEF Types, Asked
<1>3. [srv[r] EXCEPT !.ls = "wait"] \in Server
  BY <1>1 DEF Server
<1>4. Types'
  BY <1>1, <1>3 DEF Types, Asked
<1>5. srv'[r].id = srv[r].id /\ srv'[r].off = srv[r].off /\ srv'[r].data = srv[r].data /\ srv'[r].bl = srv[r].bl
  BY <1>1, <1>2 DEF Server
<1>6. ASSUME NEW t \in Servers \ {r} PROVE One(h, t)'
  <2>1. PICK R : R = {}
    OBVIOUS
  <2>2. PICK X : X = {r}
    OBVIOUS
  <2>3. Suits(h, h, t)
    BY FeedFacts DEF Suits, One
  <2>4. feed[t] # NoServer =>
           /\ srv'[feed[t]].id = srv[feed[t]].id /\ srv'[feed[t]].off = srv[feed[t]].off
           /\ srv'[feed[t]].data = srv[feed[t]].data /\ srv'[feed[t]].bl.on
    BY <1>2, <1>5, FeedFacts
  <2>5. /\ srv'[t] = IF t \in R THEN replicationHandleMasterDisconnection(srv[t]) ELSE srv[t]
        /\ feed'[t] = IF t \in R THEN NoServer ELSE feed[t]
        /\ pipe'[t] = IF t \in R THEN <<>> ELSE pipe[t]
        /\ disk'[t] = disk[t] /\ (t \in R => feed[t] # NoServer)
        /\ t \in Servers \ X /\ X \in SUBSET Servers
    BY <1>2, <2>1, <2>2
  <2>6. ids' \in Nat /\ ids <= ids' /\ writes' \in Nat /\ writes <= writes'
    BY <1>1, <1>2
  <2> QED BY <2>3, <2>4, <2>5, <2>6, OthersKept
<1> QED
  BY <1>2, <1>4, <1>6

LEMMA PartialStep ==
  ASSUME PsyncAssumption, NEW h \in Histories, Inv(h), NEW r \in Servers, NEW s \in Servers,
         masterTryPartialResynchronization(r, s)
  PROVE  Inv(h)'
<1>1. /\ srv[r] \in Server /\ One(h, r) /\ srv[s] \in Server /\ One(h, s) /\ NoServer \notin Servers
      /\ ids \in Nat /\ writes \in Nat
  BY FeedFacts, NamedIds DEF PsyncAssumption
<1>2. PICK x : x = srv[s]
  OBVIOUS
<1>3. PICK ms : ms = SubSeq(x.bl.w, srv[r].cm.off + 2 - x.bl.first, Len(x.bl.w))
  OBVIOUS
<1>4. PICK q : q = [t |-> "continue", id |-> x.id]
  OBVIOUS
<1>5. PICK p : Answer(p, q, ms)
  BY DEF Answer
<1>6. /\ srv[r].m = s /\ srv[r].cm # NoCache /\ Accepts(x, srv[r].cm)
      /\ Asked(r, s, p) /\ disk' = disk /\ writes' = writes /\ ids' = ids
  BY <1>2, <1>3, <1>4, <1>5 DEF masterTryPartialResynchronization, Asks, Asked, Answer
<1>7. s # r /\ srv[r].cm = [id |-> srv[r].id, off |-> srv[r].off] /\ Valid(srv[r])
  BY <1>1, <1>6 DEF One, Local, Valid
<1>8. PICK id \in Nat : id = srv[r].id
  BY <1>1, ServerFields
<1>9. PICK o \in Nat : o = srv[r].off
  BY <1>1, ServerFields
<1>10. /\ id = x.id \/ (id = x.id2 /\ o + 1 <= x.off2)
       /\ x.bl.on /\ o + 1 >= x.bl.first /\ o + 1 <= x.bl.first + Len(x.bl.w)
       /\ ms = SubSeq(x.bl.w, o + 2 - x.bl.first, Len(x.bl.w))
  <2>1. srv[r].cm.id = id /\ srv[r].cm.off = o
    BY <1>7, <1>8, <1>9
  <2> QED BY <1>3, <1>6, <2>1 DEF Accepts
<1>11. /\ x.id \in Nat /\ x.id2 \in Nat /\ x.off \in Nat /\ x.off2 \in Int /\ x.data \in Seq(Nat) /\ x.bl.w \in Seq(Nat)
       /\ x.bl.first \in Nat /\ Len(x.bl.w) \in Nat /\ Len(x.data) \in Nat
       /\ srv[r].data \in Seq(Nat) /\ Len(srv[r].data) \in Nat /\ id # 0
  <2>1. id \in 1..ids
    BY <1>8, NamedIds
  <2>2. id # 0
    BY <1>1, <2>1
  <2> QED BY <1>1, <1>2, <2>2, ServerFields
<1>12. /\ Fits(h, x.id, x.off, x.data) /\ ~h[x.id].priv /\ Second(h, x)
       /\ x.bl.first + Len(x.bl.w) = x.off + 1 /\ Len(x.bl.w) <= Len(x.data)
       /\ \A i \in 1..Len(x.bl.w) : x.bl.w[i] = x.data[Len(x.data) - Len(x.bl.w) + i]
  BY <1>1, <1>2, <1>10 DEF One, HistOf, Local
<1>13. Fits(h, id, o, srv[r].data)
  BY <1>1, <1>7, <1>8, <1>9 DEF One, HistOf
<1>14. PICK base \in Int : base = h[x.id].base
  BY <1>11, HistoryFields
<1>15. /\ h[id].base = base /\ ~h[id].priv
       /\ \A i \in 1..Len(srv[r].data) : x.data[i] = srv[r].data[i]
  <2>1. PICK d \in Nat : d = Len(srv[r].data)
    BY <1>11
  <2>2. PICK e \in Nat : e = Len(x.data)
    BY <1>11
  <2>3. d = o + h[id].base /\ o <= h[id].top /\ \A i \in 1..d : srv[r].data[i] = h[id].w[i]
    BY <1>13, <2>1 DEF Fits
  <2>4. e = x.off + base /\ x.off <= h[x.id].top /\ \A i \in 1..e : x.data[i] = h[x.id].w[i]
    BY <1>12, <1>14, <2>2 DEF Fits
  <2>5. o <= x.off
    BY <1>10, <1>11, <1>12
  <2>6. CASE id = x.id
    <3>1. h[id].base = base /\ ~h[id].priv
      BY <1>12, <1>14, <2>6
    <3>2. d <= e
      BY <1>11, <2>3, <2>4, <2>5, <3>1
    <3>3. \A i \in 1..d : i \in 1..e
      BY <3>2
    <3> QED BY <2>1, <2>3, <2>4, <2>6, <3>1, <3>3
  <2>7. CASE id = x.id2 /\ o + 1 <= x.off2
    <3>1. /\ h[x.id2].base = base /\ ~h[x.id2].priv
          /\ \A i \in 1..(x.off2 - 1 + h[x.id2].base) : x.data[i] = h[x.id2].w[i]
      BY <1>10, <1>11, <1>12, <1>14, <2>7 DEF Second
    <3>2. \A i \in 1..d : i \in 1..(x.off2 - 1 + base)
      BY <1>11, <2>3, <2>7, <3>1
    <3> QED BY <2>1, <2>3, <2>7, <3>1, <3>2
  <2> QED BY <1>10, <2>6, <2>7
<1>16. ms \in Seq(Nat) /\ o + Len(ms) = x.off /\ Continues(srv[r].data, ms, x.data)
  <2>1. Len(srv[r].data) = o + base /\ Len(x.data) = x.off + base
    BY <1>12, <1>13, <1>14, <1>15 DEF Fits
  <2>2. x.bl.first <= o + 1
    BY <1>10, <1>11
  <2>3. PICK D \in Seq(Nat) : D = srv[r].data
    BY <1>11
  <2>4. PICK S \in Seq(Nat) : S = x.data
    BY <1>11
  <2>5. PICK b \in Seq(Nat) : b = x.bl.w
    BY <1>11
  <2>6. PICK off \in Nat : off = x.off
    BY <1>11
  <2>7. PICK first \in Nat : first = x.bl.first
    BY <1>11
  <2>8. /\ Len(D) = o + base /\ Len(S) = off + base /\ first + Len(b) = off + 1 /\ Len(b) <= Len(S)
        /\ first <= o + 1 /\ o + 1 <= first + Len(b) /\ ms = SubSeq(b, o + 2 - first, Len(b))
    BY <1>10, <1>12, <2>1, <2>2, <2>3, <2>4, <2>5, <2>6, <2>7
  <2>9. \A i \in 1..Len(b) : b[i] = S[Len(S) - Len(b) + i]
    BY <1>12, <2>4, <2>5
  <2>10. \A i \in 1..Len(D) : S[i] = D[i]
    BY <1>15, <2>3, <2>4
  <2>11. Misses(D, S, b, o, off, first, base, ms)
    BY <2>8, <2>9, <2>10 DEF Misses
  <2>12. ms \in Seq(Nat) /\ o + Len(ms) = off /\ Continues(D, ms, S)
    BY <2>11, Missed
  <2> QED BY <2>3, <2>4, <2>6, <2>12
<1>17. q \in Msg /\ q.t = "continue" /\ q.t # "w" /\ q.id = x.id
  BY <1>4, <1>11 DEF Msg
<1>18. Shape(p) /\ p # <<>> /\ p[1] = q /\ Writes(p) = ms /\ p \in Seq(Msg)
  <2>1. Shape(p) /\ p # <<>> /\ p[1] = q /\ Writes(p) = ms
    BY <1>5, <1>16, <1>17, AnswerPipe
  <2> QED BY <2>1 DEF Shape
<1>19. /\ Types' /\ srv'[r] = [srv[r] EXCEPT !.ls = "wait"] /\ feed'[r] = s /\ pipe'[r] = p
       /\ \A t \in Servers \ {r} : One(h, t)' /\ srv'[t] = srv[t]
  BY <1>6, <1>18, AskStep
<1>20. One(h, r)'
  <2>1. srv'[s] = x
    BY <1>2, <1>7, <1>19
  <2>2. Suits(h, h, r)
    BY <1>1 DEF Suits, One
  <2>3. ids' \in Nat /\ ids <= ids' /\ writes' \in Nat /\ writes <= writes' /\ disk'[r] = disk[r]
    BY <1>1, <1>6
  <2>4. /\ pipe'[r][1].t = "continue" /\ pipe'[r][1].id = srv'[s].id /\ srv'[s].bl.on
        /\ Shape(pipe'[r]) /\ pipe'[r] # <<>> /\ pipe'[r][1].t # "w"
    BY <1>10, <1>17, <1>18, <1>19, <2>1
  <2>5. /\ srv[r].cm # NoCache /\ srv[r].off + Len(Writes(pipe'[r])) = srv'[s].off
        /\ Continues(srv[r].data, Writes(pipe'[r]), srv'[s].data) /\ ~h[srv[r].id].priv
    BY <1>6, <1>8, <1>9, <1>15, <1>16, <1>18, <1>19, <2>1
  <2>6. srv[r].m = s /\ srv'[r] = [srv[r] EXCEPT !.ls = "wait"] /\ feed'[r] = s /\ pipe'[r][1].t # "full"
    BY <1>6, <1>19, <2>4
  <2> QED BY <2>2, <2>3, <2>4, <2>5, <2>6, Waits
<1> QED
  BY <1>19, <1>20 DEF Inv

LEMMA SinglePipe ==
  ASSUME NEW q \in Msg, q.t # "w"
  PROVE  /\ <<q>> \in Seq(Msg) /\ Shape(<<q>>) /\ <<q>> # <<>> /\ <<q>>[1] = q /\ Writes(<<q>>) = <<>>
<1>1. PICK p : p = <<q>>
  OBVIOUS
<1>2. p \in Seq(Msg) /\ Len(p) = 1 /\ p # <<>> /\ p[1] = q
  BY <1>1
<1>3. Shape(p)
  BY <1>2 DEF Shape
<1>4. Writes(p) \in Seq(Nat) /\ Len(Writes(p)) = Len(p) - 1
  BY <1>2, <1>3, WritesAfter
<1>5. Len(Writes(p)) = 0
  BY <1>2, <1>4
<1>6. Writes(p) = <<>>
  BY <1>4, <1>5, EmptySeq
<1> QED
  BY <1>1, <1>2, <1>3, <1>6

LEMMA FullStep ==
  ASSUME PsyncAssumption, NEW h \in Histories, Inv(h), NEW r \in Servers, NEW s \in Servers, syncCommand(r, s)
  PROVE  \E g \in Histories : Inv(g)'
<1>1. /\ Types /\ srv[r] \in Server /\ One(h, r) /\ srv[s] \in Server /\ One(h, s) /\ NoServer \notin Servers
      /\ ids \in Nat /\ writes \in Nat /\ srv[s].id \in Nat /\ srv[s].off \in Nat /\ srv[s].data \in Seq(Nat)
  <2>1. Types /\ NoServer \notin Servers
    BY DEF Inv, PsyncAssumption
  <2> QED BY <2>1, FeedFacts, NamedIds, ServerFields
<1>2. /\ srv[r].m = s /\ feed[r] = NoServer /\ disk' = disk /\ writes' = writes /\ events' = events
      /\ (srv[s].m = NoServer \/ srv[s].ls = "connected")
  BY DEF syncCommand, Asks
<1>3. s # r
  BY <1>1, <1>2 DEF One, Local
<1>4. CASE ~(slaves(s) = {} /\ ~srv[s].bl.on)
  <2>1. PICK x : x = srv[s]
    OBVIOUS
  <2>2. x.bl.on
    <3>1. CASE slaves(s) # {}
      <4>1. PICK t \in Servers : feed[t] = s
        BY <3>1 DEF slaves
      <4> QED BY <1>1, <2>1, <4>1, FeedFacts
    <3> QED BY <1>4, <2>1, <3>1
  <2>3. PICK q : q = [t |-> "full", id |-> x.id, off |-> x.off, data |-> x.data]
    OBVIOUS
  <2>4. q \in Msg /\ q.t = "full" /\ q.t # "w" /\ q.id = x.id /\ q.off = x.off /\ q.data = x.data
    BY <1>1, <2>1, <2>3 DEF Msg
  <2>5. PICK p : p = <<q>>
    OBVIOUS
  <2>6. p \in Seq(Msg) /\ Shape(p) /\ p # <<>> /\ p[1] = q /\ Writes(p) = <<>>
    BY <2>4, <2>5, SinglePipe
  <2>7. Asked(r, s, p) /\ ids' = ids
    <3>1. [srv EXCEPT ![s] = srv[s], ![r].ls = "wait"] = [srv EXCEPT ![r].ls = "wait"]
      BY <1>1 DEF Types
    <3> QED BY <1>4, <2>1, <2>3, <2>5, <3>1 DEF syncCommand, Asked
  <2>8. /\ Types' /\ srv'[r] = [srv[r] EXCEPT !.ls = "wait"] /\ feed'[r] = s /\ pipe'[r] = p
        /\ \A t \in Servers \ {r} : One(h, t)' /\ srv'[t] = srv[t]
    BY <2>6, <2>7, AskStep
  <2>9. One(h, r)'
    <3>1. srv'[s] = x
      BY <1>3, <2>1, <2>8
    <3>2. Suits(h, h, r)
      BY <1>1 DEF Suits, One
    <3>3. ids' \in Nat /\ ids <= ids' /\ writes' \in Nat /\ writes <= writes' /\ disk'[r] = disk[r]
      BY <1>1, <1>2, <2>7
    <3>4. /\ pipe'[r][1].t = "full" /\ pipe'[r][1].id = srv'[s].id /\ srv'[s].bl.on
          /\ Shape(pipe'[r]) /\ pipe'[r] # <<>> /\ pipe'[r][1].t # "w" /\ pipe'[r][1].t # "continue"
      BY <2>2, <2>4, <2>6, <2>8, <3>1
    <3>5. /\ pipe'[r][1].off + Len(Writes(pipe'[r])) = srv'[s].off
          /\ Continues(pipe'[r][1].data, Writes(pipe'[r]), srv'[s].data)
      <4>1. Len(<<>>) = 0 /\ x.off + 0 = x.off /\ Continues(x.data, <<>>, x.data)
        BY <1>1, <2>1, ContinuesSelf
      <4> QED BY <2>4, <2>6, <2>8, <3>1, <4>1
    <3> QED BY <1>2, <2>8, <3>2, <3>3, <3>4, <3>5, Waits
  <2>10. Inv(h)'
    BY <2>8, <2>9 DEF Inv
  <2> QED BY <2>10
<1>5. CASE slaves(s) = {} /\ ~srv[s].bl.on
  <2>1. srv[s].m = NoServer /\ feed[s] = NoServer /\ pipe[s] = <<>> /\ srv[s].ls = "none" /\ srv[s].cm = NoCache
    <3>1. srv[s].m = NoServer
      BY <1>1, <1>2, <1>5 DEF One, Local
    <3>2. feed[s] = NoServer
      BY <1>1, <3>1, FeedFacts
    <3> QED BY <1>1, <3>1, <3>2 DEF One, Feeds, Local, Numbers
  <2>2. PICK b : b = [on |-> TRUE, first |-> srv[s].off + 1, w |-> <<>>]
    OBVIOUS
  <2>3. b \in [on : BOOLEAN, first : Nat, w : Seq(Nat)] /\ b.on /\ b.w = <<>> /\ b.first = srv[s].off + 1
    <3>1. srv[s].off + 1 \in Nat /\ <<>> \in Seq(Nat)
      BY <1>1
    <3> QED BY <2>2, <3>1
  <2>4. PICK z : z = [srv[s] EXCEPT !.id = ids + 1, !.id2 = 0, !.off2 = -1, !.bl = b]
    OBVIOUS
  <2>5. /\ z \in Server /\ z.m = srv[s].m /\ z.ls = srv[s].ls /\ z.id = ids + 1 /\ z.id2 = 0
        /\ z.off = srv[s].off /\ z.cm = srv[s].cm /\ z.bl = b /\ z.data = srv[s].data
    <3>1. -1 \in Int /\ ids + 1 \in Nat
      BY <1>1
    <3> QED BY <1>1, <2>3, <2>4, <3>1 DEF Server
  <2>6. PICK q : q = [t |-> "full", id |-> z.id, off |-> z.off, data |-> z.data]
    OBVIOUS
  <2>7. q \in Msg /\ q.t = "full" /\ q.t # "w" /\ q.id = z.id /\ q.off = z.off /\ q.data = z.data
    <3>1. z.id \in Nat /\ z.off \in Nat /\ z.data \in Seq(Nat)
      BY <2>5, ServerFields
    <3> QED BY <2>6, <3>1 DEF Msg
  <2>8. PICK p : p = <<q>>
    OBVIOUS
  <2>9. p \in Seq(Msg) /\ Shape(p) /\ p # <<>> /\ p[1] = q /\ Writes(p) = <<>>
    BY <2>7, <2>8, SinglePipe
  <2>10. /\ srv' = [srv EXCEPT ![s] = z, ![r].ls = "wait"] /\ pipe' = [pipe EXCEPT ![r] = p]
         /\ feed' = [feed EXCEPT ![r] = s] /\ ids' = ids + 1
    <3>1. createReplicationBacklog(clearReplicationId2(changeReplicationId(srv[s], ids + 1))) = z
      BY <1>1, <2>2, <2>4 DEF createReplicationBacklog, clearReplicationId2, changeReplicationId, Server
    <3> QED BY <1>5, <2>6, <2>8, <3>1 DEF syncCommand
  <2>11. /\ srv'[s] = z /\ srv'[r] = [srv[r] EXCEPT !.ls = "wait"] /\ feed'[r] = s /\ pipe'[r] = p
         /\ feed'[s] = NoServer /\ pipe'[s] = <<>>
         /\ \A t \in Servers \ {r, s} : srv'[t] = srv[t] /\ feed'[t] = feed[t] /\ pipe'[t] = pipe[t]
    BY <1>1, <1>3, <2>1, <2>10 DEF Types
  <2>12. Types'
    <3>1. [srv[r] EXCEPT !.ls = "wait"] \in Server
      BY <1>1 DEF Server
    <3>2. srv' \in [Servers -> Server]
      BY <1>1, <1>3, <2>5, <2>10, <3>1 DEF Types
    <3>3. feed' \in [Servers -> Servers \cup {NoServer}] /\ pipe' \in [Servers -> Seq(Msg)]
      BY <1>1, <2>9, <2>10 DEF Types
    <3>4. ids' \in Nat /\ disk' \in [Servers -> File] /\ writes' \in 0..MaxWrites /\ events' \in 0..MaxEvents
      <4>1. disk \in [Servers -> File] /\ writes \in 0..MaxWrites /\ events \in 0..MaxEvents
        BY <1>1 DEF Types
      <4> QED BY <1>1, <1>2, <2>10, <4>1
    <3> QED BY <3>2, <3>3, <3>4 DEF Types
  <2>13. PICK g \in Histories : NewHistory(g, h, s, srv[s].off, srv[s].data) /\ ~g[ids + 1].priv
    BY <1>1, FreshHistory
  <2>14. \A t \in Servers : Agree(g, h, t) /\ Suits(g, h, t)
    BY <2>13, AgreeFresh, AgreeSuits, FeedFacts DEF NewHistory
  <2>15. ids' \in Nat /\ ids <= ids' /\ writes' \in Nat /\ writes <= writes' /\ \A t \in Servers : disk'[t] = disk[t]
    BY <1>1, <1>2, <2>10
  <2>16. ASSUME NEW t \in Servers \ {r, s} PROVE One(g, t)'
    <3>1. PICK R : R = {}
      OBVIOUS
    <3>2. PICK X : X = {r, s}
      OBVIOUS
    <3>3. feed[t] # s
      BY <1>5 DEF slaves
    <3>4. /\ srv'[r].id = srv[r].id /\ srv'[r].off = srv[r].off /\ srv'[r].data = srv[r].data /\ srv'[r].bl = srv[r].bl
      BY <1>1, <2>11 DEF Server
    <3>5. feed[t] # NoServer =>
             /\ srv'[feed[t]].id = srv[feed[t]].id /\ srv'[feed[t]].off = srv[feed[t]].off
             /\ srv'[feed[t]].data = srv[feed[t]].data /\ srv'[feed[t]].bl.on
      BY <2>11, <3>3, <3>4, FeedFacts
    <3>6. /\ srv'[t] = IF t \in R THEN replicationHandleMasterDisconnection(srv[t]) ELSE srv[t]
          /\ feed'[t] = IF t \in R THEN NoServer ELSE feed[t]
          /\ pipe'[t] = IF t \in R THEN <<>> ELSE pipe[t]
          /\ (t \in R => feed[t] # NoServer)
          /\ t \in Servers \ X /\ X \in SUBSET Servers
      BY <2>11, <3>1, <3>2
    <3>7. Suits(g, h, t) /\ disk'[t] = disk[t]
      BY <2>14, <2>15
    <3> QED BY <2>15, <3>5, <3>6, <3>7, OthersKept
  <2>17. One(g, r)'
    <3>1. /\ pipe'[r][1].t = "full" /\ pipe'[r][1].id = srv'[s].id /\ srv'[s].bl.on
          /\ Shape(pipe'[r]) /\ pipe'[r] # <<>> /\ pipe'[r][1].t # "w" /\ pipe'[r][1].t # "continue"
      BY <2>3, <2>5, <2>7, <2>9, <2>11
    <3>2. /\ pipe'[r][1].off + Len(Writes(pipe'[r])) = srv'[s].off
          /\ Continues(pipe'[r][1].data, Writes(pipe'[r]), srv'[s].data)
      <4>1. Len(<<>>) = 0 /\ z.off + 0 = z.off /\ Continues(z.data, <<>>, z.data)
        BY <1>1, <2>5, ContinuesSelf
      <4> QED BY <2>7, <2>9, <2>11, <4>1
    <3>3. Suits(g, h, r) /\ disk'[r] = disk[r]
      BY <2>14, <2>15
    <3> QED BY <1>2, <2>11, <2>15, <3>1, <3>2, <3>3, Waits
  <2>18. One(g, s)'
    <3>1. Numbers(z, <<>>)'
      <4>1. ids + 1 \in 1..(ids + 1) /\ 0 \in 0..(ids + 1) /\ Len(b.w) <= BacklogLen /\ Shape(<<>>)
        BY <1>1, <2>3 DEF PsyncAssumption, Shape
      <4>2. z.off <= writes
        BY <1>1, <2>5 DEF One, Numbers
      <4> QED BY <1>2, <2>1, <2>5, <2>10, <4>1, <4>2 DEF Numbers
    <3>2. Local(s, z)
      <4>1. Len(z.bl.w) = 0 /\ z.bl.first + Len(z.bl.w) = z.off + 1 /\ Len(z.bl.w) <= Len(z.data)
        <5>1. Len(b.w) = 0 /\ b.first + 0 = srv[s].off + 1 /\ Len(srv[s].data) \in Nat
          BY <1>1, <2>3
        <5> QED BY <2>5, <5>1
      <4>2. z.m = NoServer /\ Valid(z) /\ z.m # s /\ z.cm = NoCache /\ z.ls = "none"
        BY <1>1, <2>1, <2>5 DEF Valid
      <4>3. \A i \in 1..Len(z.bl.w) : z.bl.w[i] = z.data[Len(z.data) - Len(z.bl.w) + i]
        BY <4>1
      <4> QED BY <4>1, <4>2, <4>3 DEF Local
    <3>3. HistOf(g, s, z, disk[s])
      <4>1. Second(g, z) /\ NewHistory(g, h, s, z.off, z.data) /\ z.bl.on
        BY <2>3, <2>5, <2>13 DEF Second
      <4> QED BY <2>5, <2>13, <4>1, FreshHist
    <3>4. FileOf(g, s, disk[s])'
      <4>1. (disk[s].info => g[disk[s].id] = h[disk[s].id]) /\ disk'[s] = disk[s]
        BY <2>14, <2>15 DEF Agree
      <4> QED BY <2>15, <4>1, FileKept
    <3>5. Feeds(g, s)'
      BY <2>1, <2>5, <2>11 DEF Feeds
    <3> QED BY <2>11, <2>15, <3>1, <3>2, <3>3, <3>4, <3>5 DEF One
  <2>19. \A t \in Servers : One(g, t)'
    BY <2>16, <2>17, <2>18
  <2>20. Inv(g)'
    BY <2>12, <2>19 DEF Inv
  <2> QED BY <2>20
<1> QED
  BY <1>4, <1>5

-----------------------------------------------------------------------------
(* The replica reads the answer to PSYNC.                                  *)

ReadsOn(r, R) ==
  /\ feed' = [q \in Servers |-> IF q \in R THEN NoServer ELSE feed[q]]
  /\ pipe' = [q \in Servers |-> IF q \in R THEN <<>> ELSE IF q = r THEN Tail(pipe[r]) ELSE pipe[q]]
  /\ writes' = writes /\ ids' = ids /\ events' = events

LEMMA ReadStep ==
  ASSUME PsyncAssumption, NEW h, Inv(h), NEW r \in Servers, NEW s \in Servers, s = feed[r], NEW z \in Server, NEW R,
         pipe[r] # <<>>, R \subseteq slaves(r) \ {r}, Becomes(r, z, R), ReadsOn(r, R),
         disk' \in [Servers -> File], \A t \in Servers \ {r} : disk'[t] = disk[t],
         \/ slaves(r) \ {r} \subseteq R
         \/ z.id = srv[r].id /\ z.off = srv[r].off /\ z.data = srv[r].data /\ z.bl.on
  PROVE  /\ Types' /\ srv'[r] = z /\ feed'[r] = s /\ pipe'[r] = Tail(pipe[r])
         /\ srv'[s].id = srv[s].id /\ srv'[s].off = srv[s].off /\ srv'[s].data = srv[s].data /\ srv'[s].bl = srv[s].bl
         /\ writes' = writes /\ ids' = ids
         /\ \A t \in Servers \ {r} : One(h, t)'
<1>1. /\ Types /\ writes \in Nat /\ ids \in Nat /\ r \notin R /\ s # r /\ srv[s] \in Server /\ NoServer \notin Servers
  <2>1. Types /\ NoServer \notin Servers
    BY DEF Inv, PsyncAssumption
  <2> QED BY <2>1, FeedFacts, NamedIds
<1>2. /\ srv' \in [Servers -> Server] /\ srv'[r] = z
      /\ \A t \in Servers \ {r} : srv'[t] = IF t \in R THEN replicationHandleMasterDisconnection(srv[t]) ELSE srv[t]
  BY LostServers
<1>3. /\ feed'[r] = s /\ pipe'[r] = Tail(pipe[r]) /\ writes' = writes /\ ids' = ids
      /\ \A t \in Servers \ {r} : /\ feed'[t] = IF t \in R THEN NoServer ELSE feed[t]
                                 /\ pipe'[t] = IF t \in R THEN <<>> ELSE pipe[t]
  BY <1>1 DEF ReadsOn
<1>4. Types'
  <2>1. \A t \in Servers : feed[t] \in Servers \cup {NoServer} /\ pipe[t] \in Seq(Msg)
    BY <1>1 DEF Types
  <2>2. Tail(pipe[r]) \in Seq(Msg)
    BY <2>1, SeqTail
  <2>3. <<>> \in Seq(Msg)
    OBVIOUS
  <2>4. feed' \in [Servers -> Servers \cup {NoServer}] /\ pipe' \in [Servers -> Seq(Msg)]
    BY <2>1, <2>2, <2>3 DEF ReadsOn
  <2>5. ids' \in Nat /\ writes' \in 0..MaxWrites /\ events' \in 0..MaxEvents
    BY <1>1 DEF Types, ReadsOn
  <2> QED BY <1>2, <2>4, <2>5 DEF Types
<1>5. /\ srv'[s].id = srv[s].id /\ srv'[s].off = srv[s].off /\ srv'[s].data = srv[s].data /\ srv'[s].bl = srv[s].bl
  <2>1. srv'[s] = IF s \in R THEN replicationHandleMasterDisconnection(srv[s]) ELSE srv[s]
    BY <1>1, <1>2
  <2> QED BY <1>1, <2>1, LostFields
<1>6. \A t \in Servers \ {r} : One(h, t)'
  <2>1. \A t \in Servers \ {r} : Agree(h, h, t)
    BY DEF Agree
  <2>2. \A t \in Servers \ {r} :
           /\ srv'[t] = IF t \in R THEN replicationHandleMasterDisconnection(srv[t]) ELSE srv[t]
           /\ feed'[t] = IF t \in R THEN NoServer ELSE feed[t]
           /\ pipe'[t] = IF t \in R THEN <<>> ELSE pipe[t]
           /\ disk'[t] = disk[t]
    BY <1>2, <1>3
  <2>3. ids' \in Nat /\ ids <= ids' /\ writes' \in Nat /\ writes <= writes'
    BY <1>1, <1>3
  <2>4. \/ slaves(r) \ {r} \subseteq R
        \/ srv'[r].id = srv[r].id /\ srv'[r].off = srv[r].off /\ srv'[r].data = srv[r].data /\ srv'[r].bl.on
    BY <1>2
  <2> QED BY <2>1, <2>2, <2>3, <2>4, CutOthers
<1> QED
  BY <1>2, <1>3, <1>4, <1>5, <1>6

\* The replica is connected and reads on.
LEMMA Reading ==
  ASSUME PsyncAssumption, NEW h \in Histories, Inv(h), NEW r \in Servers, NEW s \in Servers, s = feed[r], NEW z \in Server,
         srv'[r] = z, feed'[r] = s, z.m = s, z.ls = "connected", z.bl.on, Local(r, z), Second(h, z),
         z.id2 \in 0..ids, Len(z.bl.w) <= BacklogLen, z.id = srv[s].id,
         NEW ws \in Seq(Nat), ws = Writes(pipe'[r]), z.off + Len(ws) = srv[s].off, Continues(z.data, ws, srv[s].data),
         Shape(pipe'[r]), pipe'[r] # <<>> => pipe'[r][1].t = "w",
         srv'[s].id = srv[s].id, srv'[s].off = srv[s].off, srv'[s].data = srv[s].data, srv'[s].bl = srv[s].bl,
         writes' = writes, ids' = ids, FileOf(h, r, disk[r])'
  PROVE  One(h, r)'
<1>1. /\ writes \in Nat /\ ids \in Nat /\ srv[s] \in Server /\ One(h, s) /\ NoServer \notin Servers
      /\ srv[s].id \in 1..ids /\ srv[s].id \in Nat /\ srv[s].off \in Nat /\ srv[s].data \in Seq(Nat)
      /\ z.off \in Nat /\ z.data \in Seq(Nat) /\ srv[s].bl.on
  <2>1. NoServer \notin Servers /\ feed[r] # NoServer
    BY DEF PsyncAssumption
  <2> QED BY <2>1, FeedFacts, NamedIds, ServerFields
<1>2. Fits(h, srv[s].id, srv[s].off, srv[s].data) /\ ~h[srv[s].id].priv /\ srv[s].off <= writes
  BY <1>1 DEF One, HistOf, Local, Numbers
<1>3. Fits(h, z.id, z.off, z.data)
  <2>1. PICK i \in Nat : i = srv[s].id
    BY <1>1
  <2>2. PICK y \in Int : y = srv[s].off
    BY <1>1
  <2>3. PICK S \in Seq(Nat) : S = srv[s].data
    BY <1>1
  <2>4. PICK o \in Int : o = z.off
    BY <1>1
  <2>5. PICK D \in Seq(Nat) : D = z.data
    BY <1>1
  <2>6. Fits(h, i, y, S) /\ Continues(D, ws, S) /\ o + Len(ws) = y
    BY <1>2, <2>1, <2>2, <2>3, <2>4, <2>5
  <2>7. Fits(h, i, o, D)
    BY <2>6, StreamFits
  <2> QED BY <2>1, <2>4, <2>5, <2>7
<1>4. z.off <= writes
  <2>1. PICK l \in Nat : l = Len(ws)
    OBVIOUS
  <2>2. PICK a \in Nat : a = z.off
    BY <1>1
  <2>3. PICK b \in Nat : b = srv[s].off
    BY <1>1
  <2>4. a + l = b /\ b <= writes
    BY <1>2, <2>1, <2>2, <2>3
  <2>5. a <= writes
    BY <1>1, <2>4
  <2> QED BY <2>2, <2>5
<1>5. HistOf(h, r, z, disk'[r])
  BY <1>1, <1>2, <1>3 DEF HistOf, Leads
<1>6. Numbers(z, pipe[r])'
  BY <1>1, <1>4 DEF Numbers
<1>7. Feeds(h, r)'
  <2>1. Stream(z, srv'[s], pipe'[r])
    BY <1>1 DEF Stream
  <2>2. feed'[r] # NoServer /\ srv'[s].bl.on
    BY <1>1
  <2> QED BY <1>1, <2>1, <2>2 DEF Feeds
<1> QED
  BY <1>5, <1>6, <1>7 DEF One

\* A backlog that starts at the offset of the server.
LEMMA NewBacklog ==
  ASSUME NEW z \in Server, z.bl = [on |-> TRUE, first |-> z.off + 1, w |-> <<>>]
  PROVE  /\ z.bl.on /\ z.bl.first + Len(z.bl.w) = z.off + 1 /\ Len(z.bl.w) <= Len(z.data) /\ Len(z.bl.w) = 0
         /\ \A i \in 1..Len(z.bl.w) : z.bl.w[i] = z.data[Len(z.data) - Len(z.bl.w) + i]
<1>1. z.off \in Nat /\ Len(z.data) \in Nat
  BY ServerFields
<1>2. z.bl.on /\ z.bl.first = z.off + 1 /\ z.bl.w = <<>> /\ Len(<<>>) = 0
  OBVIOUS
<1>3. z.off + 1 + 0 = z.off + 1
  BY <1>1
<1> QED
  BY <1>1, <1>2, <1>3

\* What the pipe of a replica that waits says.
LEMMA Answered ==
  ASSUME PsyncAssumption, NEW h, Inv(h), NEW r \in Servers, NEW type \in {"continue", "full"}, Reads(r, type)
  PROVE  /\ feed[r] # NoServer /\ feed[r] \in Servers /\ srv[r].m = feed[r] /\ feed[r] # r /\ srv[r].ls = "wait"
         /\ pipe[r] # <<>> /\ pipe[r] \in Seq(Msg) /\ Head(pipe[r]) = pipe[r][1] /\ pipe[r][1] \in Msg
         /\ pipe[r][1].t = type /\ pipe[r][1].id = srv[feed[r]].id
         /\ Stream(srv[r], srv[feed[r]], pipe[r])
         /\ Shape(Tail(pipe[r])) /\ (Tail(pipe[r]) # <<>> => Tail(pipe[r])[1].t = "w")
         /\ Writes(Tail(pipe[r])) = Writes(pipe[r]) /\ Writes(pipe[r]) \in Seq(Nat)
<1>1. feed[r] # NoServer /\ pipe[r] # <<>> /\ Head(pipe[r]).t = type
  BY DEF Reads
<1>2. feed[r] \in Servers /\ srv[r].m = feed[r] /\ feed[r] # r /\ pipe[r] \in Seq(Msg) /\ One(h, r)
  BY <1>1, FeedFacts
<1>3. Head(pipe[r]) = pipe[r][1] /\ pipe[r][1] \in Msg
  BY <1>1, <1>2, SeqTail
<1>4. pipe[r][1].t = type /\ type # "w"
  BY <1>1, <1>3
<1>5. srv[r].ls \in {"wait", "connected"} /\ Stream(srv[r], srv[feed[r]], pipe[r])
  BY <1>1, <1>2 DEF One, Feeds
<1>6. srv[r].ls = "wait"
  BY <1>1, <1>4, <1>5 DEF Stream
<1>7. pipe[r][1].id = srv[feed[r]].id
  BY <1>5, <1>6 DEF Stream
<1>8. Shape(pipe[r])
  BY <1>2 DEF One, Numbers
<1>9. /\ Shape(Tail(pipe[r])) /\ (Tail(pipe[r]) # <<>> => Tail(pipe[r])[1].t = "w")
      /\ Writes(Tail(pipe[r])) = Writes(pipe[r]) /\ Writes(pipe[r]) \in Seq(Nat)
  BY <1>1, <1>4, <1>8, WritesAfter
<1> QED
  BY <1>1, <1>2, <1>3, <1>4, <1>5, <1>6, <1>7, <1>9

LEMMA ResurrectStep ==
  ASSUME PsyncAssumption, NEW h \in Histories, Inv(h), NEW r \in Servers, replicationResurrectCachedMaster(r)
  PROVE  Inv(h)'
<1>1. Reads(r, "continue") /\ disk' = disk /\ writes' = writes /\ ids' = ids /\ events' = events
  BY DEF replicationResurrectCachedMaster
<1>2. PICK s \in Servers : s = feed[r]
  BY <1>1, Answered
<1>3. /\ srv[r].m = s /\ s # r /\ srv[r].ls = "wait"
      /\ pipe[r] # <<>> /\ Head(pipe[r]) = pipe[r][1] /\ pipe[r][1].t = "continue" /\ pipe[r][1].id = srv[s].id
      /\ Stream(srv[r], srv[s], pipe[r])
      /\ Shape(Tail(pipe[r])) /\ (Tail(pipe[r]) # <<>> => Tail(pipe[r])[1].t = "w")
      /\ Writes(Tail(pipe[r])) = Writes(pipe[r]) /\ Writes(pipe[r]) \in Seq(Nat)
  BY <1>1, <1>2, Answered
<1>4. PICK x \in Server : x = srv[r]
  BY FeedFacts
<1>5. /\ Types /\ One(h, r) /\ One(h, s) /\ srv[s] \in Server /\ NoServer \notin Servers /\ ids \in Nat /\ writes \in Nat
      /\ srv[s].bl.on /\ srv[s].id \in Nat /\ srv[s].id \in 1..ids /\ x.id \in 1..ids /\ x.id2 \in 0..ids
      /\ disk \in [Servers -> File]
  <2>1. Types /\ NoServer \notin Servers /\ feed[r] # NoServer
    BY <1>2 DEF Inv, PsyncAssumption
  <2>2. disk \in [Servers -> File]
    BY <2>1 DEF Types
  <2> QED BY <1>2, <1>4, <2>1, <2>2, FeedFacts, NamedIds
<1>6. /\ x.cm # NoCache /\ x.cm = [id |-> x.id, off |-> x.off] /\ Valid(x) /\ x.m = s /\ ~h[x.id].priv
      /\ x.off + Len(Writes(pipe[r])) = srv[s].off /\ Continues(x.data, Writes(pipe[r]), srv[s].data)
  <2>1. /\ x.cm # NoCache /\ x.off + Len(Writes(pipe[r])) = srv[s].off
        /\ Continues(x.data, Writes(pipe[r]), srv[s].data)
    BY <1>3, <1>4 DEF Stream
  <2>2. x.m = s /\ Valid(x) /\ x.cm = [id |-> x.id, off |-> x.off]
    BY <1>3, <1>4, <1>5, <2>1 DEF One, Local, Valid
  <2>3. ~h[x.id].priv
    BY <1>2, <1>3, <1>4, <1>5 DEF One, Feeds
  <2> QED BY <2>1, <2>2, <2>3
<1>7. PICK b : b = IF x.bl.on THEN x.bl ELSE [on |-> TRUE, first |-> x.off + 1, w |-> <<>>]
  OBVIOUS
<1>8. b \in [on : BOOLEAN, first : Nat, w : Seq(Nat)] /\ b.on
  <2>1. x.off + 1 \in Nat /\ <<>> \in Seq(Nat) /\ x.bl \in [on : BOOLEAN, first : Nat, w : Seq(Nat)]
    BY DEF Server
  <2> QED BY <1>7, <2>1
<1>9. PICK ws \in Seq(Nat) : ws = Writes(pipe[r])
  BY <1>3
\* It is enough that the new state is right in itself and as to its second ID.
<1>11. ASSUME NEW z \in Server, NEW R, Becomes(r, z, R), ReadsOn(r, R), R \subseteq slaves(r) \ {r},
              \/ slaves(r) \ {r} \subseteq R
              \/ z.id = x.id /\ z.off = x.off /\ z.data = x.data /\ z.bl.on,
              z.m = s, z.ls = "connected", z.bl = b, z.id = srv[s].id, z.off = x.off, z.data = x.data,
              z.cm = [id |-> z.id, off |-> z.off], z.id2 \in 0..ids, Second(h, z)
       PROVE  Inv(h)'
  <2>1. /\ Types' /\ srv'[r] = z /\ feed'[r] = s /\ pipe'[r] = Tail(pipe[r])
        /\ srv'[s].id = srv[s].id /\ srv'[s].off = srv[s].off /\ srv'[s].data = srv[s].data /\ srv'[s].bl = srv[s].bl
        /\ writes' = writes /\ ids' = ids
        /\ \A t \in Servers \ {r} : One(h, t)'
    <3>1. disk' \in [Servers -> File] /\ \A t \in Servers \ {r} : disk'[t] = disk[t]
      BY <1>1, <1>5
    <3>2. \/ slaves(r) \ {r} \subseteq R
          \/ z.id = srv[r].id /\ z.off = srv[r].off /\ z.data = srv[r].data /\ z.bl.on
      BY <1>4, <1>11
    <3> QED BY <1>2, <1>3, <1>11, <3>1, <3>2, ReadStep
  <2>2. /\ z.bl.first + Len(z.bl.w) = z.off + 1 /\ Len(z.bl.w) <= Len(z.data) /\ Len(z.bl.w) <= BacklogLen
        /\ \A i \in 1..Len(z.bl.w) : z.bl.w[i] = z.data[Len(z.data) - Len(z.bl.w) + i]
    <3>1. CASE x.bl.on
      <4>1. /\ x.bl.first + Len(x.bl.w) = x.off + 1 /\ Len(x.bl.w) <= Len(x.data) /\ Len(x.bl.w) <= BacklogLen
            /\ \A i \in 1..Len(x.bl.w) : x.bl.w[i] = x.data[Len(x.data) - Len(x.bl.w) + i]
        BY <1>4, <1>5, <3>1 DEF One, Local, Numbers
      <4>2. z.bl = x.bl /\ z.off = x.off /\ z.data = x.data
        BY <1>7, <1>11, <3>1
      <4> QED BY <4>1, <4>2
    <3>2. CASE ~x.bl.on
      <4>1. z.bl = [on |-> TRUE, first |-> z.off + 1, w |-> <<>>]
        BY <1>7, <1>11, <3>2
      <4>2. 0 <= BacklogLen
        BY DEF PsyncAssumption
      <4> QED BY <4>1, <4>2, NewBacklog
    <3> QED BY <3>1, <3>2
  <2>3. Local(r, z)
    <3>1. z.cm # NoCache
      <4>1. z.cm.id # 0
        BY <1>5, <1>11
      <4> QED BY <4>1 DEF NoCache
    <3>2. z.m # r /\ z.m # NoServer /\ Valid(z) /\ z.bl.on
      BY <1>3, <1>5, <1>8, <1>11, <3>1 DEF Valid
    <3> QED BY <1>11, <2>2, <3>1, <3>2 DEF Local
  <2>4. FileOf(h, r, disk[r])'
    BY <1>1, <1>5 DEF One, FileOf
  <2>5. ws = Writes(pipe'[r]) /\ Shape(pipe'[r]) /\ (pipe'[r] # <<>> => pipe'[r][1].t = "w")
    BY <1>3, <1>9, <2>1
  <2>6. z.off + Len(ws) = srv[s].off /\ Continues(z.data, ws, srv[s].data) /\ z.bl.on
    BY <1>6, <1>8, <1>9, <1>11
  <2>7. One(h, r)'
    BY <1>2, <1>11, <2>1, <2>2, <2>3, <2>4, <2>5, <2>6, Reading
  <2> QED BY <2>1, <2>7 DEF Inv
<1>12. CASE srv[s].id = x.id
  <2>1. PICK z : z = [x EXCEPT !.bl = b, !.ls = "connected"]
    OBVIOUS
  <2>2. /\ z \in Server /\ z.m = x.m /\ z.ls = "connected" /\ z.id = x.id /\ z.id2 = x.id2 /\ z.off2 = x.off2
        /\ z.off = x.off /\ z.cm = x.cm /\ z.bl = b /\ z.data = x.data
    BY <1>8, <2>1 DEF Server
  <2>3. PICK R : R = {}
    OBVIOUS
  <2>4. Becomes(r, z, R) /\ ReadsOn(r, R)
    <3>1. Head(pipe[r]).id = x.cm.id
      BY <1>3, <1>6, <1>12
    <3>2. [IF x.bl.on THEN x ELSE createReplicationBacklog(x) EXCEPT !.ls = "connected"] = z
      BY <1>7, <2>1 DEF createReplicationBacklog, Server
    <3>3. R \ {r} = R
      BY <2>3
    <3> QED BY <1>4, <2>3, <3>1, <3>2, <3>3 DEF replicationResurrectCachedMaster, Becomes, ReadsOn
  <2>5. Second(h, z)
    <3>1. CASE x.bl.on
      BY <1>4, <1>5, <2>2, <3>1 DEF One, HistOf, Second
    <3>2. CASE ~x.bl.on
      <4>1. x.id2 = 0
        BY <1>4, <1>5, <1>6, <3>2 DEF One, HistOf
      <4> QED BY <2>2, <4>1 DEF Second
    <3> QED BY <3>1, <3>2
  <2>6. R \subseteq slaves(r) \ {r}
    BY <2>3
  <2> QED BY <1>5, <1>6, <1>8, <1>11, <1>12, <2>2, <2>4, <2>5, <2>6
<1>13. CASE srv[s].id # x.id
  <2>1. PICK c : c = [id |-> srv[s].id, off |-> x.off]
    OBVIOUS
  <2>2. c \in [id : Nat, off : Int] /\ x.off \in Nat /\ x.id \in Nat /\ x.off + 1 \in Int /\ x.data \in Seq(Nat)
    BY <1>5, <2>1, ServerFields
  <2>3. PICK z : z = [x EXCEPT !.id2 = x.id, !.off2 = x.off + 1, !.id = srv[s].id, !.cm = c, !.bl = b, !.ls = "connected"]
    OBVIOUS
  <2>4. /\ z \in Server /\ z.m = x.m /\ z.ls = "connected" /\ z.id = srv[s].id /\ z.id2 = x.id /\ z.off2 = x.off + 1
        /\ z.off = x.off /\ z.cm = c /\ z.bl = b /\ z.data = x.data
    BY <1>5, <1>8, <2>2, <2>3 DEF Server
  <2>5. PICK R : R = slaves(r) \ {r}
    OBVIOUS
  <2>6. Becomes(r, z, R) /\ ReadsOn(r, R)
    <3>1. Head(pipe[r]).id = srv[s].id /\ srv[s].id # x.cm.id /\ x.cm.id = x.id
      BY <1>3, <1>6, <1>13
    <3>2. PICK y : y = [x EXCEPT !.id2 = x.cm.id, !.off2 = x.off + 1, !.id = srv[s].id, !.cm.id = srv[s].id]
      OBVIOUS
    <3>3. y = [x EXCEPT !.id2 = x.id, !.off2 = x.off + 1, !.id = srv[s].id, !.cm = c]
      <4>1. [x.cm EXCEPT !.id = srv[s].id] = c
        BY <1>6, <2>1
      <4> QED BY <3>1, <3>2, <4>1 DEF Server
    <3>4. [IF y.bl.on THEN y ELSE createReplicationBacklog(y) EXCEPT !.ls = "connected"] = z
      BY <1>7, <2>3, <3>3 DEF createReplicationBacklog, Server
    <3>5. R \ {r} = R
      BY <2>5
    <3>6. ReadsOn(r, R)
      BY <1>1, <1>4, <2>5, <3>1 DEF replicationResurrectCachedMaster, ReadsOn
    <3> DEFINE id == Head(pipe[r]).id
               changed == id # srv[r].cm.id
               u == IF ~changed THEN srv[r]
                    ELSE [srv[r] EXCEPT !.id2 = srv[r].cm.id, !.off2 = srv[r].off + 1, !.id = id, !.cm.id = id]
               v == IF u.bl.on THEN u ELSE createReplicationBacklog(u)
               Q == IF changed THEN slaves(r) \ {r} ELSE {}
    <3>7. srv' = Lost([srv EXCEPT ![r] = [v EXCEPT !.ls = "connected"]], Q)
      BY Zenon DEF replicationResurrectCachedMaster
    <3>8. u = y
      BY <1>4, <3>1, <3>2
    <3>9. Q = R \ {r}
      BY <1>4, <2>5, <3>1, <3>5
    <3>10. [v EXCEPT !.ls = "connected"] = z
      <4> HIDE DEF u
      <4> QED BY <3>4, <3>8
    <3>11. srv' = Lost([srv EXCEPT ![r] = z], R \ {r})
      <4> HIDE DEF v, Q
      <4> QED BY <3>7, <3>9, <3>10
    <3> QED BY <3>6, <3>11 DEF Becomes
  <2>7. Second(h, z)
    <3>1. Fits(h, z.id2, z.off, z.data) /\ ~h[z.id2].priv
      BY <1>4, <1>5, <1>6, <2>4 DEF One, HistOf
    <3>2. Fits(h, z.id, z.off, z.data)
      <4>1. Fits(h, srv[s].id, srv[s].off, srv[s].data)
        BY <1>5 DEF One, HistOf, Local
      <4>2. PICK i \in Nat : i = srv[s].id
        BY <1>5
      <4>9. srv[s].off \in Nat /\ srv[s].data \in Seq(Nat)
        BY <1>5, ServerFields
      <4>3. PICK y \in Int : y = srv[s].off
        BY <4>9
      <4>4. PICK S \in Seq(Nat) : S = srv[s].data
        BY <4>9
      <4>5. PICK o \in Int : o = x.off
        BY <2>2
      <4>6. PICK D \in Seq(Nat) : D = x.data
        BY <2>2
      <4>7. Fits(h, i, y, S) /\ Continues(D, ws, S) /\ o + Len(ws) = y
        BY <1>6, <1>9, <4>1, <4>2, <4>3, <4>4, <4>5, <4>6
      <4>8. Fits(h, i, o, D)
        BY <4>7, StreamFits
      <4> QED BY <2>4, <4>2, <4>5, <4>6, <4>8
    <3> QED BY <2>4, <3>1, <3>2, SecondOf
  <2>8. R \subseteq slaves(r) \ {r} /\ slaves(r) \ {r} \subseteq R /\ z.id2 \in 0..ids
    BY <1>5, <2>4, <2>5
  <2> QED BY <1>6, <1>11, <2>1, <2>4, <2>6, <2>7, <2>8
<1> QED
  BY <1>12, <1>13

LEMMA LoadStep ==
  ASSUME PsyncAssumption, NEW h \in Histories, Inv(h), NEW r \in Servers, readSyncBulkPayload(r)
  PROVE  Inv(h)'
<1>1. Reads(r, "full") /\ writes' = writes /\ ids' = ids /\ events' = events
  BY DEF readSyncBulkPayload
<1>2. PICK s \in Servers : s = feed[r]
  BY <1>1, Answered
<1>3. /\ srv[r].m = s /\ s # r /\ srv[r].ls = "wait"
      /\ pipe[r] # <<>> /\ Head(pipe[r]) = pipe[r][1] /\ pipe[r][1] \in Msg /\ pipe[r][1].t = "full"
      /\ pipe[r][1].id = srv[s].id /\ Stream(srv[r], srv[s], pipe[r])
      /\ Shape(Tail(pipe[r])) /\ (Tail(pipe[r]) # <<>> => Tail(pipe[r])[1].t = "w")
      /\ Writes(Tail(pipe[r])) = Writes(pipe[r]) /\ Writes(pipe[r]) \in Seq(Nat)
  BY <1>1, <1>2, Answered
<1>4. PICK x \in Server : x = srv[r]
  BY FeedFacts
<1>5. PICK q \in Msg : q = pipe[r][1]
  BY <1>3
<1>6. PICK ws \in Seq(Nat) : ws = Writes(pipe[r])
  BY <1>3
<1>7. /\ Types /\ One(h, r) /\ One(h, s) /\ srv[s] \in Server /\ NoServer \notin Servers /\ ids \in Nat /\ writes \in Nat
      /\ srv[s].bl.on /\ srv[s].id \in Nat /\ srv[s].id \in 1..ids /\ srv[s].off \in Nat /\ srv[s].data \in Seq(Nat)
      /\ disk \in [Servers -> File]
  <2>1. Types /\ NoServer \notin Servers /\ feed[r] # NoServer
    BY <1>2 DEF Inv, PsyncAssumption
  <2>2. disk \in [Servers -> File]
    BY <2>1 DEF Types
  <2>3. srv[s] \in Server /\ srv[s].bl.on
    BY <1>2, <2>1, FeedFacts
  <2> QED BY <2>1, <2>2, <2>3, FeedFacts, NamedIds, ServerFields
<1>8. q.id = srv[s].id /\ q.off \in Nat /\ q.data \in Seq(Nat) /\ q.off + Len(ws) = srv[s].off
      /\ Continues(q.data, ws, srv[s].data)
  <2>1. q.off \in Nat /\ q.data \in Seq(Nat)
    BY <1>3, <1>5, MsgKinds
  <2> QED BY <1>3, <1>5, <1>6, <2>1 DEF Stream
<1>9. Fits(h, q.id, q.off, q.data) /\ ~h[q.id].priv /\ q.off <= writes
  <2>1. Fits(h, srv[s].id, srv[s].off, srv[s].data) /\ ~h[srv[s].id].priv /\ srv[s].off <= writes
    BY <1>7 DEF One, HistOf, Local, Numbers
  <2>2. PICK i \in Nat : i = srv[s].id
    BY <1>7
  <2>3. PICK y \in Nat : y = srv[s].off
    BY <1>7
  <2>4. PICK S \in Seq(Nat) : S = srv[s].data
    BY <1>7
  <2>5. PICK o \in Nat : o = q.off
    BY <1>8
  <2>6. PICK D \in Seq(Nat) : D = q.data
    BY <1>8
  <2>7. Fits(h, i, y, S) /\ Continues(D, ws, S) /\ o + Len(ws) = y /\ y \in Int /\ o \in Int /\ y <= writes
    BY <1>8, <2>1, <2>2, <2>3, <2>4, <2>5, <2>6
  <2>8. Fits(h, i, o, D)
    BY <2>7, StreamFits
  <2>9. o <= writes
    <3>1. Len(ws) \in Nat
      OBVIOUS
    <3> QED BY <1>7, <2>7, <3>1
  <2> QED BY <1>8, <2>1, <2>2, <2>5, <2>6, <2>8, <2>9
<1>10. PICK b : b = [on |-> TRUE, first |-> q.off + 1, w |-> <<>>]
  OBVIOUS
<1>11. PICK c : c = [id |-> q.id, off |-> q.off]
  OBVIOUS
<1>12. PICK z : z = [x EXCEPT !.id = q.id, !.off = q.off, !.data = q.data, !.cm = c, !.id2 = 0, !.off2 = -1,
                              !.bl = b, !.ls = "connected"]
  OBVIOUS
<1>13. /\ z \in Server /\ z.m = s /\ z.ls = "connected" /\ z.id = q.id /\ z.id2 = 0 /\ z.off = q.off /\ z.data = q.data
       /\ z.cm = c /\ z.bl = b
  <2>1. q.off + 1 \in Nat /\ <<>> \in Seq(Nat) /\ -1 \in Int /\ q.id \in Nat
    BY <1>7, <1>8
  <2>2. b \in [on : BOOLEAN, first : Nat, w : Seq(Nat)] /\ c \in [id : Nat, off : Int]
    BY <1>8, <1>10, <1>11, <2>1
  <2>3. x.m = s
    BY <1>3, <1>4
  <2> QED BY <1>8, <1>12, <2>1, <2>2, <2>3 DEF Server
<1>14. PICK R : R = slaves(r) \ {r}
  OBVIOUS
<1>15. Becomes(r, z, R)
  <2> DEFINE m == Head(pipe[r])
             u == clearReplicationId2([srv[r] EXCEPT !.id = m.id, !.off = m.off, !.data = m.data,
                                                     !.cm = [id |-> m.id, off |-> m.off]])
             v == [createReplicationBacklog(u) EXCEPT !.ls = "connected"]
  <2>1. srv' = Lost([srv EXCEPT ![r] = v], slaves(r) \ {r})
    BY Zenon DEF readSyncBulkPayload
  <2>2. m = q
    BY <1>3, <1>5
  <2> HIDE DEF m
  <2>3. u = [x EXCEPT !.id = q.id, !.off = q.off, !.data = q.data, !.cm = c, !.id2 = 0, !.off2 = -1]
    BY <1>4, <1>11, <2>2 DEF clearReplicationId2, Server
  <2> HIDE DEF u
  <2>4. v = z
    BY <1>8, <1>10, <1>12, <2>3 DEF createReplicationBacklog, Server
  <2> HIDE DEF v
  <2>5. R \ {r} = R
    BY <1>14
  <2>6. srv' = Lost([srv EXCEPT ![r] = z], R \ {r})
    BY <1>14, <2>1, <2>4, <2>5
  <2> QED BY <2>6 DEF Becomes
<1>16. ReadsOn(r, R)
  BY <1>1, <1>14 DEF readSyncBulkPayload, ReadsOn
<1>17. /\ disk' \in [Servers -> File] /\ \A t \in Servers \ {r} : disk'[t] = disk[t]
       /\ FileOf(h, r, disk[r])'
  <2>1. CASE Persist
    <3>1. PICK f : f = [info |-> TRUE, id |-> q.id, off |-> q.off, data |-> q.data]
      OBVIOUS
    <3>2. f \in File /\ f.info = TRUE /\ f.id = q.id /\ f.off = q.off /\ f.data = q.data
      BY <1>7, <1>8, <3>1 DEF File
    <3>3. disk' = [disk EXCEPT ![r] = f]
      <4>1. Head(pipe[r]) = q
        BY <1>3, <1>5
      <4> QED BY <2>1, <3>1, <4>1 DEF readSyncBulkPayload
    <3>4. disk'[r] = f /\ disk' \in [Servers -> File] /\ \A t \in Servers \ {r} : disk'[t] = disk[t]
      BY <1>7, <3>2, <3>3
    <3>5. q.id \in 1..ids
      BY <1>7, <1>8
    <3>6. FileOf(h, r, disk[r])'
      BY <1>1, <1>9, <3>2, <3>4, <3>5 DEF FileOf
    <3> QED BY <3>4, <3>6
  <2>2. CASE ~Persist
    <3>1. disk' = disk
      BY <2>2 DEF readSyncBulkPayload
    <3>2. FileOf(h, r, disk[r])'
      BY <1>1, <1>7, <3>1 DEF One, FileOf
    <3> QED BY <1>7, <3>1, <3>2
  <2> QED BY <2>1, <2>2
<1>18. /\ Types' /\ srv'[r] = z /\ feed'[r] = s /\ pipe'[r] = Tail(pipe[r])
       /\ srv'[s].id = srv[s].id /\ srv'[s].off = srv[s].off /\ srv'[s].data = srv[s].data /\ srv'[s].bl = srv[s].bl
       /\ writes' = writes /\ ids' = ids
       /\ \A t \in Servers \ {r} : One(h, t)'
  <2>1. R \subseteq slaves(r) \ {r} /\ slaves(r) \ {r} \subseteq R
    BY <1>14
  <2> QED BY <1>2, <1>3, <1>13, <1>15, <1>16, <1>17, <2>1, ReadStep
<1>19. One(h, r)'
  <2>1. /\ z.bl.on /\ z.bl.first + Len(z.bl.w) = z.off + 1 /\ Len(z.bl.w) <= Len(z.data) /\ Len(z.bl.w) = 0
        /\ \A i \in 1..Len(z.bl.w) : z.bl.w[i] = z.data[Len(z.data) - Len(z.bl.w) + i]
    <3>1. z.bl = [on |-> TRUE, first |-> z.off + 1, w |-> <<>>]
      BY <1>10, <1>13
    <3> QED BY <1>13, <3>1, NewBacklog
  <2>2. Local(r, z)
    <3>1. z.cm = [id |-> z.id, off |-> z.off] /\ z.cm.id # 0
      BY <1>7, <1>8, <1>11, <1>13
    <3>2. z.cm # NoCache
      BY <3>1 DEF NoCache
    <3>3. z.m # r /\ z.m # NoServer /\ Valid(z)
      BY <1>3, <1>7, <1>13, <3>2 DEF Valid
    <3> QED BY <2>1, <3>1, <3>2, <3>3 DEF Local
  <2>3. Second(h, z)
    BY <1>13 DEF Second
  <2>4. z.id2 \in 0..ids /\ Len(z.bl.w) <= BacklogLen /\ z.id = srv[s].id
    BY <1>7, <1>8, <1>13, <2>1 DEF PsyncAssumption
  <2>5. ws = Writes(pipe'[r]) /\ Shape(pipe'[r]) /\ (pipe'[r] # <<>> => pipe'[r][1].t = "w")
    BY <1>3, <1>6, <1>18
  <2>6. z.off + Len(ws) = srv[s].off /\ Continues(z.data, ws, srv[s].data)
    BY <1>8, <1>13
  <2> QED BY <1>2, <1>13, <1>17, <1>18, <2>1, <2>2, <2>3, <2>4, <2>5, <2>6, Reading
<1> QED
  BY <1>18, <1>19 DEF Inv

-----------------------------------------------------------------------------
(* The stream.                                                             *)

\* The backlog of x is the end of its data.
Keeps(x) ==
  /\ x.bl.first + Len(x.bl.w) = x.off + 1 /\ Len(x.bl.w) <= Len(x.data) /\ Len(x.bl.w) <= BacklogLen
  /\ \A i \in 1..Len(x.bl.w) : x.bl.w[i] = x.data[Len(x.data) - Len(x.bl.w) + i]

\* A server with a backlog after one more write.
Grown(x, z, w) ==
  /\ z.m = x.m /\ z.ls = x.ls /\ z.id = x.id /\ z.id2 = x.id2 /\ z.off2 = x.off2
  /\ z.off = x.off + 1 /\ z.data = Append(x.data, w) /\ z.bl.on

Fed(x, z, w) == z = [feedReplicationBuffer(x, w) EXCEPT !.data = Append(@, w)]

LEMMA FedBacklog ==
  ASSUME PsyncAssumption, NEW x \in Server, x.bl.on, Keeps(x), NEW w \in Nat, NEW z, Fed(x, z, w)
  PROVE  z \in Server /\ Grown(x, z, w) /\ Keeps(z) /\ z.cm = x.cm
<1>1. /\ x.off \in Nat /\ x.bl.first \in Nat /\ x.bl.w \in Seq(Nat) /\ x.data \in Seq(Nat) /\ BacklogLen \in Nat
  BY ServerFields DEF PsyncAssumption
<1>2. PICK v \in Seq(Nat) : v = x.bl.w
  BY <1>1
<1>3. PICK d \in Seq(Nat) : d = x.data
  BY <1>1
<1>4. PICK l \in Nat : l = Len(v)
  OBVIOUS
<1>5. PICK k \in Nat : k = Len(d)
  OBVIOUS
<1>6. x.bl.first + l = x.off + 1 /\ l <= k /\ l <= BacklogLen /\ \A i \in 1..l : v[i] = d[k - l + i]
  BY <1>2, <1>3, <1>4, <1>5 DEF Keeps
<1>7. PICK all : all = Append(v, w)
  OBVIOUS
<1>8. /\ all \in Seq(Nat) /\ Len(all) = l + 1 /\ all[l + 1] = w /\ \A i \in 1..l : all[i] = v[i]
  BY <1>4, <1>7, SeqAppend
<1>9. PICK drop : drop = IF Len(all) > BacklogLen THEN 1 ELSE 0
  OBVIOUS
<1>10. drop \in Nat /\ drop <= 1 /\ l + 1 - drop <= BacklogLen /\ l + 1 - drop \in Nat
  BY <1>1, <1>6, <1>8, <1>9
<1>11. PICK u : u = SubSeq(all, 1 + drop, Len(all))
  OBVIOUS
<1>12. u \in Seq(Nat) /\ Len(u) = l + 1 - drop /\ \A i \in 1..(l + 1 - drop) : u[i] = all[drop + i]
  <2>1. PICK m \in Nat : m = 1 + drop
    BY <1>10
  <2>2. PICK n \in Nat : n = l + 1
    OBVIOUS
  <2>3. Len(all) = n
    BY <1>8, <2>2
  <2>4. \A i \in m..n : i \in 1..Len(all)
    BY <1>10, <2>1, <2>3
  <2>5. \A i \in 1..Len(all) : all[i] \in Nat
    BY <1>8, ElementOfSeq
  <2>6. m \in Int /\ n \in Int /\ \A i \in m..n : all[i] \in Nat
    BY <2>4, <2>5
  <2>7. /\ SubSeq(all, m, n) \in Seq(Nat)
        /\ Len(SubSeq(all, m, n)) = IF m <= n THEN n - m + 1 ELSE 0
        /\ \A i \in 1..(n - m + 1) : SubSeq(all, m, n)[i] = all[m + i - 1]
    BY <2>6, SubSeqProperties
  <2>8. u = SubSeq(all, m, n)
    BY <1>11, <2>1, <2>3
  <2>9. n - m + 1 = l + 1 - drop /\ (m <= n \/ l + 1 - drop = 0)
    <3>1. drop = 0 \/ drop = 1
      BY <1>10
    <3> QED BY <3>1, <2>1, <2>2
  <2>10. Len(u) = l + 1 - drop
    <3>1. CASE m <= n
      BY <2>7, <2>8, <2>9, <3>1
    <3>2. CASE ~(m <= n)
      BY <2>7, <2>8, <2>9, <3>2
    <3> QED BY <3>1, <3>2
  <2>11. ASSUME NEW i \in 1..(l + 1 - drop) PROVE u[i] = all[drop + i]
    <3>1. i \in 1..(n - m + 1)
      BY <2>9
    <3>2. m + i - 1 = drop + i
      <4>1. i \in Nat
        BY <1>10
      <4> QED BY <1>10, <2>1, <4>1
    <3> QED BY <2>7, <2>8, <3>1, <3>2
  <2> QED BY <2>7, <2>8, <2>10, <2>11
<1>13. PICK b : b = [on |-> TRUE, first |-> x.bl.first + drop, w |-> u]
  OBVIOUS
<1>14. b \in [on : BOOLEAN, first : Nat, w : Seq(Nat)] /\ b.on /\ b.first = x.bl.first + drop /\ b.w = u
  <2>1. x.bl.first + drop \in Nat
    <3>1. PICK f \in Nat : f = x.bl.first
      BY <1>1
    <3> QED BY <1>10, <3>1
  <2> QED BY <1>12, <1>13, <2>1
<1>15. PICK e : e = Append(d, w)
  OBVIOUS
<1>16. e \in Seq(Nat) /\ Len(e) = k + 1 /\ e[k + 1] = w /\ \A i \in 1..k : e[i] = d[i]
  BY <1>5, <1>15, SeqAppend
<1>17. z = [x EXCEPT !.off = x.off + 1, !.bl = b, !.data = e]
  <2>1. feedReplicationBuffer(x, w) = [x EXCEPT !.off = x.off + 1, !.bl = b]
    BY <1>2, <1>7, <1>9, <1>11, <1>13 DEF feedReplicationBuffer, Server
  <2> QED BY <1>3, <1>15, <2>1 DEF Server, Fed
<1>18. /\ z \in Server /\ z.m = x.m /\ z.ls = x.ls /\ z.id = x.id /\ z.id2 = x.id2 /\ z.off2 = x.off2 /\ z.cm = x.cm
       /\ z.off = x.off + 1 /\ z.data = e /\ z.bl = b
  <2>1. x.off + 1 \in Nat
    BY <1>1
  <2> QED BY <1>14, <1>16, <1>17, <2>1 DEF Server
<1>19. ASSUME NEW i \in 1..(l + 1 - drop) PROVE u[i] = e[k + 1 - (l + 1 - drop) + i]
  <2>1. PICK j \in 1..(l + 1) : j = drop + i
    BY <1>10
  <2>2. k + 1 - (l + 1 - drop) + i = k - l + j
    <3>1. drop = 0 \/ drop = 1
      BY <1>10
    <3>2. i \in Nat /\ k \in Nat /\ l \in Nat
      BY <1>10
    <3>3. CASE drop = 0
      BY <2>1, <3>2, <3>3
    <3>4. CASE drop = 1
      BY <2>1, <3>2, <3>4
    <3> QED BY <3>1, <3>3, <3>4
  <2>3. u[i] = all[j]
    BY <1>12, <2>1
  <2>4. CASE j = l + 1
    <3>1. k - l + j = k + 1
      BY <2>4
    <3> QED BY <1>8, <1>16, <2>2, <2>3, <2>4, <3>1
  <2>5. CASE j # l + 1
    <3>1. j \in 1..l /\ k - l + j \in 1..k
      BY <1>6, <2>5
    <3> QED BY <1>6, <1>8, <1>16, <2>2, <2>3, <3>1
  <2> QED BY <2>4, <2>5
<1>20. Keeps(z)
  <2>1. x.bl.first + drop + (l + 1 - drop) = x.off + 1 + 1 /\ l + 1 - drop <= k + 1
    <3>1. PICK f \in Nat : f = x.bl.first
      BY <1>1
    <3>2. PICK o \in Nat : o = x.off
      BY <1>1
    <3>3. f + l = o + 1
      BY <1>6, <3>1, <3>2
    <3>4. f + drop + (l + 1 - drop) = o + 1 + 1 /\ l + 1 - drop <= k + 1
      BY <1>6, <1>10, <3>3
    <3> QED BY <3>1, <3>2, <3>4
  <2>2. Len(z.bl.w) = l + 1 - drop /\ Len(z.data) = k + 1 /\ z.bl.first = x.bl.first + drop /\ z.bl.w = u
    BY <1>12, <1>14, <1>16, <1>18
  <2>3. PICK n \in Nat : n = l + 1 - drop
    BY <1>10
  <2>4. z.bl.first + n = z.off + 1 /\ n <= Len(z.data) /\ n <= BacklogLen /\ Len(z.bl.w) = n
    BY <1>10, <1>18, <2>1, <2>2, <2>3
  <2>5. ASSUME NEW i \in 1..n PROVE z.bl.w[i] = z.data[Len(z.data) - n + i]
    <3>1. i \in 1..(l + 1 - drop)
      BY <2>3
    <3>2. u[i] = e[k + 1 - (l + 1 - drop) + i]
      BY <1>19, <3>1
    <3>3. u[i] = e[k + 1 - n + i]
      BY <2>3, <3>2
    <3>4. z.bl.w = u /\ z.data = e /\ Len(z.data) = k + 1
      BY <1>18, <2>2
    <3> QED BY <3>3, <3>4
  <2> QED BY <2>4, <2>5 DEF Keeps
<1> QED
  BY <1>3, <1>14, <1>15, <1>18, <1>20 DEF Grown

\* A replica of a server that has made or applied a write.
LEMMA FedSlave ==
  ASSUME PsyncAssumption, NEW h, NEW g, Inv(h), NEW t \in Servers, NEW r \in Servers, feed[t] = r, NEW w \in Nat,
         NEW z \in Server, srv'[r] = z, Grown(srv[r], z, w),
         srv'[t] = srv[t], feed'[t] = r, disk'[t] = disk[t], pipe'[t] = Append(pipe[t], [t |-> "w", w |-> w]),
         Suits(g, h, t), ids' = ids, writes' \in Nat, writes <= writes'
  PROVE  One(g, t)'
<1>1. /\ srv[t] \in Server /\ One(h, t) /\ srv[r] \in Server /\ NoServer \notin Servers /\ ids \in Nat /\ writes \in Nat
      /\ srv[t].off \in Nat /\ srv[t].data \in Seq(Nat) /\ srv[r].off \in Nat /\ srv[r].data \in Seq(Nat)
      /\ disk[t].off \in Nat /\ srv[t].m = r
  <2>1. NoServer \notin Servers
    BY DEF PsyncAssumption
  <2>2. feed[t] # NoServer
    BY <2>1
  <2>3. /\ srv[t] \in Server /\ One(h, t) /\ srv[feed[t]] \in Server /\ srv[t].m = feed[t]
    BY <2>2, FeedFacts
  <2>4. srv[r] \in Server /\ srv[t].m = r
    BY <2>3
  <2>5. ids \in Nat /\ writes \in Nat /\ disk[t].off \in Nat
    BY NamedIds
  <2> QED BY <2>1, <2>3, <2>4, <2>5, ServerFields
<1>2. PICK p : p = pipe[t]
  OBVIOUS
<1>3. PICK q : Sends(p, q, w)
  BY DEF Sends
<1>4. Shape(p) /\ Stream(srv[t], srv[r], p) /\ srv[t].ls \in {"wait", "connected"}
  BY <1>1, <1>2 DEF One, Numbers, Feeds
<1>5. /\ Shape(q) /\ q # <<>> /\ Writes(q) = Append(Writes(p), w)
      /\ (p # <<>> => q[1] = p[1]) /\ (p = <<>> => q[1].t = "w")
  <2>1. Shape(p)
    BY <1>4
  <2> QED BY <1>3, <2>1, WritesSent
<1>6. PICK ws \in Seq(Nat) : ws = Writes(p)
  <2>1. CASE p # <<>> /\ p[1].t # "w"
    BY <1>4, <2>1, WritesAfter
  <2>2. CASE ~(p # <<>> /\ p[1].t # "w")
    BY <1>4, <2>2, WritesOnly
  <2> QED BY <2>1, <2>2
<1>7. Len(Writes(q)) = Len(ws) + 1 /\ Len(ws) \in Nat /\ Writes(q) = Append(ws, w)
  BY <1>5, <1>6, SeqAppend
\* One more write on both sides.
<1>8. ASSUME NEW D \in Seq(Nat), NEW o \in Nat, o + Len(ws) = srv[r].off, Continues(D, ws, srv[r].data)
      PROVE  o + Len(Writes(q)) = z.off /\ Continues(D, Writes(q), z.data)
  <2>1. PICK S \in Seq(Nat) : S = srv[r].data
    BY <1>1
  <2>2. Continues(D, Append(ws, w), Append(S, w))
    BY <1>8, <2>1, ContinuesAppend
  <2>3. PICK l \in Nat : l = Len(ws)
    BY <1>7
  <2>4. PICK y \in Nat : y = srv[r].off
    BY <1>1
  <2>5. o + l = y /\ z.off = y + 1 /\ Len(Writes(q)) = l + 1
    BY <1>7, <1>8, <2>3, <2>4 DEF Grown
  <2>6. o + (l + 1) = y + 1
    BY <2>5
  <2> QED BY <1>7, <2>1, <2>2, <2>5, <2>6 DEF Grown
<1>9. Stream(srv[t], z, q)
  <2>1. z.id = srv[r].id
    BY DEF Grown
  <2>2. CASE srv[t].ls = "connected"
    <3>1. /\ p # <<>> => p[1].t = "w"
          /\ srv[t].id = srv[r].id /\ srv[t].off + Len(ws) = srv[r].off /\ Continues(srv[t].data, ws, srv[r].data)
      BY <1>4, <1>6, <2>2 DEF Stream
    <3>2. srv[t].off + Len(Writes(q)) = z.off /\ Continues(srv[t].data, Writes(q), z.data)
      BY <1>1, <1>8, <3>1
    <3>3. q[1].t = "w"
      BY <1>5, <3>1
    <3> QED BY <2>1, <2>2, <3>1, <3>2, <3>3 DEF Stream
  <2>3. CASE srv[t].ls = "wait"
    <3>1. p # <<>> /\ p[1].t # "w" /\ p[1].id = srv[r].id
      BY <1>4, <2>3 DEF Stream
    <3>2. q[1] = p[1]
      BY <1>5, <3>1
    <3>3. CASE p[1].t = "continue"
      <4>1. srv[t].cm # NoCache /\ srv[t].off + Len(ws) = srv[r].off /\ Continues(srv[t].data, ws, srv[r].data)
        BY <1>4, <1>6, <2>3, <3>3 DEF Stream
      <4>2. srv[t].off + Len(Writes(q)) = z.off /\ Continues(srv[t].data, Writes(q), z.data)
        BY <1>1, <1>8, <4>1
      <4> QED BY <1>5, <2>1, <2>3, <3>1, <3>2, <3>3, <4>1, <4>2 DEF Stream
    <3>4. CASE p[1].t = "full"
      <4>1. p[1].off + Len(ws) = srv[r].off /\ Continues(p[1].data, ws, srv[r].data)
        BY <1>4, <1>6, <2>3, <3>4 DEF Stream
      <4>2. p[1].off \in Nat /\ p[1].data \in Seq(Nat)
        <5>1. p[1] \in Msg
          BY <1>4, <3>1, SeqTail DEF Shape
        <5> QED BY <3>4, <5>1, MsgKinds
      <4>3. p[1].off + Len(Writes(q)) = z.off /\ Continues(p[1].data, Writes(q), z.data)
        BY <1>8, <4>1, <4>2
      <4> QED BY <1>5, <2>1, <2>3, <3>1, <3>2, <3>4, <4>3 DEF Stream
    <3>5. p[1].t \in {"continue", "full"}
      <4>1. p[1] \in Msg
        BY <1>4, <3>1, SeqTail DEF Shape
      <4> QED BY <3>1, <4>1, MsgKinds
    <3> QED BY <3>3, <3>4, <3>5
  <2> QED BY <1>4, <2>2, <2>3
<1>10. Feeds(g, t)'
  <2>1. srv[t].ls = "wait" /\ q[1].t = "continue" => ~g[srv[t].id].priv
    <3>1. srv[t].ls = "wait" => p # <<>> /\ q[1] = p[1]
      BY <1>4, <1>5 DEF Stream
    <3>2. srv[t].ls = "wait" /\ p[1].t = "continue" => ~h[srv[t].id].priv
      BY <1>1, <1>2 DEF One, Feeds
    <3> QED BY <3>1, <3>2 DEF Suits
  <2>2. z.bl.on
    BY DEF Grown
  <2>3. pipe'[t] = q /\ feed'[t] # NoServer
    BY <1>1, <1>2, <1>3 DEF Sends
  <2> QED BY <1>1, <1>4, <1>9, <2>1, <2>2, <2>3 DEF Feeds
<1>11. Numbers(srv[t], pipe[t])'
  <2>1. pipe'[t] = q
    BY <1>2, <1>3 DEF Sends
  <2>2. /\ (srv[t].ls = "none") = (srv[t].m = NoServer)
        /\ srv[t].id \in 1..ids /\ srv[t].id2 \in 0..ids
        /\ srv[t].off <= writes /\ Len(srv[t].bl.w) <= BacklogLen
    BY <1>1 DEF One, Numbers
  <2>3. srv[t].off <= writes'
    <3>1. PICK o \in Nat : o = srv[t].off
      BY <1>1
    <3> QED BY <1>1, <2>2, <3>1
  <2> QED BY <1>5, <2>1, <2>2, <2>3 DEF Numbers
<1>12. Local(t, srv[t])'
  BY <1>1 DEF One, Local, Valid
<1>13. HistOf(g, t, srv[t], disk[t])'
  BY DEF Suits
<1>14. FileOf(g, t, disk[t])'
  BY <1>1 DEF Suits, FileOf
<1> QED
  BY <1>10, <1>11, <1>12, <1>13, <1>14 DEF One

\* Only r, and what is sent to its replicas, changes.
Streams(r, z, w) ==
  /\ srv' = [srv EXCEPT ![r] = z] /\ feed' = feed /\ disk' = disk /\ ids' = ids /\ events' = events
  /\ pipe' \in [Servers -> Seq(Msg)]
  /\ \A t \in Servers \ {r} : pipe'[t] = IF feed[t] = r THEN Append(pipe[t], [t |-> "w", w |-> w]) ELSE pipe[t]

SuitsOthers(g, h, r) == \A t \in Servers \ {r} : Suits(g, h, t)

\* Every replica of r gets w, if r has replicas.
FeedsAll(r, z, w) == Grown(srv[r], z, w) \/ \A t \in Servers : feed[t] # r

LEMMA StreamStep ==
  ASSUME PsyncAssumption, NEW h, NEW g, Inv(h), NEW r \in Servers, NEW w \in Nat, NEW z \in Server, Streams(r, z, w),
         FeedsAll(r, z, w), writes' \in 0..MaxWrites, writes <= writes', SuitsOthers(g, h, r)
  PROVE  /\ Types' /\ srv'[r] = z
         /\ \A t \in Servers \ {r} : One(g, t)' /\ srv'[t] = srv[t]
<1>1. /\ srv \in [Servers -> Server] /\ disk \in [Servers -> File] /\ feed \in [Servers -> Servers \cup {NoServer}]
      /\ ids \in Nat /\ writes \in Nat /\ events \in 0..MaxEvents /\ NoServer \notin Servers
      /\ writes' \in Nat
  BY DEF Inv, Types, PsyncAssumption
<1>2. srv' \in [Servers -> Server] /\ srv'[r] = z /\ \A t \in Servers \ {r} : srv'[t] = srv[t]
  BY <1>1 DEF Streams
<1>3. Types'
  BY <1>1, <1>2 DEF Streams, Types
<1>4. ASSUME NEW t \in Servers \ {r} PROVE One(g, t)'
  <2>1. /\ feed'[t] = feed[t] /\ disk'[t] = disk[t] /\ srv'[t] = srv[t] /\ ids' = ids
        /\ pipe'[t] = IF feed[t] = r THEN Append(pipe[t], [t |-> "w", w |-> w]) ELSE pipe[t]
    BY <1>2 DEF Streams
  <2>2. CASE feed[t] = r
    <3>1. Grown(srv[r], z, w)
      BY <2>2 DEF FeedsAll
    <3>2. feed'[t] = r /\ pipe'[t] = Append(pipe[t], [t |-> "w", w |-> w])
      BY <2>1, <2>2
    <3>3. Suits(g, h, t) /\ t \in Servers
      BY DEF SuitsOthers
    <3> HIDE DEF Streams
    <3> QED BY <1>1, <1>2, <2>1, <2>2, <3>1, <3>2, <3>3, FedSlave
  <2>3. CASE feed[t] # r
    <3>1. pipe'[t] = pipe[t]
      BY <2>1, <2>3
    <3>2. feed[t] # NoServer =>
             /\ srv'[feed[t]].id = srv[feed[t]].id /\ srv'[feed[t]].off = srv[feed[t]].off
             /\ srv'[feed[t]].data = srv[feed[t]].data /\ srv'[feed[t]].bl.on
      <4>1. t \in Servers
        OBVIOUS
      <4>2. feed[t] # NoServer => feed[t] \in Servers /\ srv[feed[t]].bl.on
        BY <4>1, FeedFacts
      <4> QED BY <1>2, <2>3, <4>2
    <3>3. PICK X \in SUBSET Servers : X = {r}
      OBVIOUS
    <3>4. t \in Servers \ X /\ Suits(g, h, t)
      BY <3>3 DEF SuitsOthers
    <3>5. ids' \in Nat /\ ids <= ids'
      BY <1>1, <2>1
    <3>6. PICK R : R = {}
      OBVIOUS
    <3>7. t \notin R
      BY <3>6
    <3>8. /\ srv'[t] = IF t \in R THEN replicationHandleMasterDisconnection(srv[t]) ELSE srv[t]
          /\ feed'[t] = IF t \in R THEN NoServer ELSE feed[t]
          /\ pipe'[t] = IF t \in R THEN <<>> ELSE pipe[t]
      BY <2>1, <3>1, <3>7
    <3> QED BY <1>1, <2>1, <3>2, <3>4, <3>5, <3>7, <3>8, OthersKept
  <2> QED BY <2>2, <2>3
<1> QED
  BY <1>2, <1>3, <1>4

-----------------------------------------------------------------------------
(* Histories that grow.                                                    *)

Grows(g, h) ==
  \A i \in Nat :
    /\ g[i].base = h[i].base /\ h[i].top <= g[i].top /\ g[i].by = h[i].by /\ g[i].priv = h[i].priv
    /\ \A j \in 1..(h[i].top + h[i].base) : g[i].w[j] = h[i].w[j]

LEMMA GrowsSelf ==
  ASSUME NEW h \in Histories
  PROVE  Grows(h, h)
BY HistoryFields DEF Grows

LEMMA GrowsFits ==
  ASSUME NEW h \in Histories, NEW g \in Histories, Grows(g, h), NEW id \in Nat, NEW off \in Nat, NEW d \in Seq(Nat),
         Fits(h, id, off, d)
  PROVE  Fits(g, id, off, d)
<1>1. PICK b \in Int : b = h[id].base
  BY HistoryFields
<1>2. PICK a \in Int : a = h[id].top
  BY HistoryFields
<1>3. PICK c \in Int : c = g[id].top
  BY HistoryFields
<1>4. PICK n \in Nat : n = Len(d)
  OBVIOUS
<1>5. /\ n = off + b /\ off <= a /\ a <= c /\ g[id].base = b
      /\ \A i \in 1..n : d[i] = h[id].w[i]
      /\ \A j \in 1..(a + b) : g[id].w[j] = h[id].w[j]
  BY <1>1, <1>2, <1>3, <1>4 DEF Fits, Grows
<1>6. off <= c /\ \A i \in 1..n : i \in 1..(a + b)
  BY <1>5
<1>7. \A i \in 1..n : d[i] = g[id].w[i]
  BY <1>5, <1>6
<1> QED
  BY <1>3, <1>4, <1>5, <1>6, <1>7 DEF Fits

\* The second ID stays true of a server that has more data.
LEMMA SecondGrows ==
  ASSUME NEW h \in Histories, NEW g \in Histories, Grows(g, h), NEW x \in Server, NEW z \in Server,
         x.bl.on => Fits(h, x.id, x.off, x.data), Second(h, x),
         z.id = x.id, z.id2 = x.id2, z.off2 = x.off2, z.bl.on = x.bl.on, x.off <= z.off,
         \A i \in 1..Len(x.data) : z.data[i] = x.data[i]
  PROVE  Second(g, z)
<1> SUFFICES ASSUME x.id2 # 0, x.bl.on PROVE Second(g, z)
  BY DEF Second
<1>1. /\ x.id \in Nat /\ x.id2 \in Nat /\ x.off2 \in Int /\ x.off \in Nat /\ z.off \in Nat /\ Len(x.data) \in Nat
  BY ServerFields
<1>2. PICK b \in Int : b = h[x.id2].base
  BY <1>1, HistoryFields
<1>3. PICK a \in Int : a = h[x.id2].top
  BY <1>1, HistoryFields
<1>4. PICK c \in Int : c = g[x.id2].top
  BY <1>1, HistoryFields
<1>5. PICK n \in Nat : n = Len(x.data)
  BY <1>1
<1>6. PICK o2 \in Int : o2 = x.off2
  BY <1>1
<1>7. PICK o \in Nat : o = x.off
  BY <1>1
<1>8. PICK p \in Nat : p = z.off
  BY <1>1
<1>9. /\ h[x.id].base = b /\ g[x.id].base = b /\ g[x.id2].base = b /\ ~g[x.id2].priv
      /\ o2 - 1 <= o /\ o2 - 1 <= a /\ a <= c /\ o <= p /\ n = o + b
      /\ \A i \in 1..(o2 - 1 + b) : x.data[i] = h[x.id2].w[i]
      /\ \A j \in 1..(a + b) : g[x.id2].w[j] = h[x.id2].w[j]
      /\ \A i \in 1..n : z.data[i] = x.data[i]
  BY <1>1, <1>2, <1>3, <1>4, <1>5, <1>6, <1>7, <1>8 DEF Second, Fits, Grows
<1>10. o2 - 1 <= p /\ o2 - 1 <= c /\ \A i \in 1..(o2 - 1 + b) : i \in 1..(a + b) /\ i \in 1..n
  BY <1>9
<1>11. \A i \in 1..(o2 - 1 + b) : z.data[i] = g[x.id2].w[i]
  BY <1>9, <1>10
<1>12. /\ g[z.id2].base = b /\ g[z.id].base = b /\ ~g[z.id2].priv /\ z.off2 = o2
       /\ z.off2 - 1 <= z.off /\ z.off2 - 1 <= g[z.id2].top
  BY <1>4, <1>6, <1>8, <1>9, <1>10
<1>13. \A i \in 1..(z.off2 - 1 + g[z.id2].base) : z.data[i] = g[z.id2].w[i]
  BY <1>11, <1>12
<1> QED
  BY <1>12, <1>13 DEF Second

LEMMA GrowsSuits ==
  ASSUME NEW h \in Histories, NEW g \in Histories, Inv(h), Grows(g, h), NEW t \in Servers,
         srv[t].m = NoServer /\ srv[t].bl.on => g[srv[t].id].top = h[srv[t].id].top
  PROVE  Suits(g, h, t)
<1>1. /\ srv[t] \in Server /\ One(h, t)
  BY FeedFacts
<1>2. /\ srv[t].id \in Nat /\ srv[t].off \in Nat /\ srv[t].data \in Seq(Nat)
      /\ disk[t].id \in Nat /\ disk[t].off \in Nat /\ disk[t].data \in Seq(Nat)
  BY <1>1, ServerFields, NamedIds
<1>3. HistOf(h, t, srv[t], disk[t]) /\ FileOf(h, t, disk[t]) /\ Local(t, srv[t])
  BY <1>1 DEF One
<1>4. g[srv[t].id].priv = h[srv[t].id].priv /\ g[srv[t].id].by = h[srv[t].id].by
  BY <1>2 DEF Grows
<1>5. Valid(srv[t]) => Fits(g, srv[t].id, srv[t].off, srv[t].data)
  BY <1>2, <1>3, GrowsFits DEF HistOf
<1>6. Second(g, srv[t])
  <2>1. srv[t].bl.on => Fits(h, srv[t].id, srv[t].off, srv[t].data)
    BY <1>3 DEF Local, HistOf
  <2>2. srv[t].off <= srv[t].off
    BY <1>2
  <2>3. Second(h, srv[t])
    BY <1>3 DEF HistOf
  <2> QED BY <1>1, <2>1, <2>2, <2>3, SecondGrows
<1>7. Leads(g, t, srv[t], disk[t])
  BY <1>3, <1>4 DEF HistOf, Leads
<1>8. HistOf(g, t, srv[t], disk[t])
  BY <1>3, <1>4, <1>5, <1>6, <1>7 DEF HistOf
<1>9. FileOf(g, t, disk[t])
  <2>1. disk[t].info => Fits(g, disk[t].id, disk[t].off, disk[t].data)
    BY <1>2, <1>3, GrowsFits DEF FileOf
  <2>2. g[disk[t].id].priv = h[disk[t].id].priv /\ g[disk[t].id].by = h[disk[t].id].by
    BY <1>2 DEF Grows
  <2> QED BY <1>3, <2>1, <2>2 DEF FileOf
<1> QED
  BY <1>4, <1>8, <1>9 DEF Suits

-----------------------------------------------------------------------------
\* What is sent to the replicas of r.
LEMMA Sent ==
  ASSUME NEW h, Inv(h), NEW r \in Servers, NEW w \in Nat, NEW P, P = Send(slaves(r), [t |-> "w", w |-> w])
  PROVE  /\ P \in [Servers -> Seq(Msg)]
         /\ \A t \in Servers : P[t] = IF feed[t] = r THEN Append(pipe[t], [t |-> "w", w |-> w]) ELSE pipe[t]
<1>1. pipe \in [Servers -> Seq(Msg)] /\ [t |-> "w", w |-> w] \in Msg
  BY DEF Inv, Types, Msg
<1>2. PICK q \in Msg : q = [t |-> "w", w |-> w]
  BY <1>1
<1>3. \A t \in Servers : P[t] = IF feed[t] = r THEN Append(pipe[t], q) ELSE pipe[t]
  BY <1>2 DEF Send, slaves
<1>4. \A t \in Servers : Append(pipe[t], q) \in Seq(Msg)
  BY <1>1, SeqAppend
<1>5. P = [t \in Servers |-> P[t]]
  BY DEF Send
<1>6. \A t \in Servers : P[t] \in Seq(Msg)
  BY <1>1, <1>3, <1>4
<1> QED
  BY <1>2, <1>3, <1>5, <1>6

LEMMA ApplyStep ==
  ASSUME PsyncAssumption, NEW h \in Histories, Inv(h), NEW r \in Servers, replicationFeedStreamFromMasterStream(r)
  PROVE  Inv(h)'
<1>1. /\ feed[r] # NoServer /\ pipe[r] # <<>> /\ Head(pipe[r]).t = "w" /\ srv[r].ls = "connected"
      /\ feed' = feed /\ disk' = disk /\ writes' = writes /\ ids' = ids /\ events' = events
  BY DEF replicationFeedStreamFromMasterStream, Reads
<1>2. /\ srv[r] \in Server /\ One(h, r) /\ pipe[r] \in Seq(Msg) /\ feed[r] \in Servers
      /\ srv[feed[r]] \in Server /\ srv[feed[r]].bl.on /\ srv[r].m = feed[r] /\ feed[r] # r
  BY <1>1, FeedFacts
<1>3. PICK s \in Servers : s = feed[r]
  BY <1>2
<1>4. PICK p \in Seq(Msg) : p = pipe[r]
  BY <1>2
<1>5. PICK x \in Server : x = srv[r]
  BY <1>2
<1>6. /\ Shape(p) /\ Stream(x, srv[s], p) /\ Local(r, x) /\ HistOf(h, r, x, disk[r]) /\ x.bl.on
      /\ x.id2 \in 0..ids /\ Len(x.bl.w) <= BacklogLen
  <2>1. Numbers(x, p) /\ Local(r, x) /\ HistOf(h, r, x, disk[r]) /\ Feeds(h, r)
    BY <1>2, <1>4, <1>5 DEF One
  <2>2. Stream(x, srv[s], p)
    BY <1>1, <1>3, <1>4, <1>5, <2>1 DEF Feeds
  <2>3. x.bl.on
    BY <1>1, <1>5, <2>1 DEF Local
  <2> QED BY <2>1, <2>2, <2>3 DEF Numbers
<1>7. p # <<>> /\ Head(p) = p[1] /\ p[1].t = "w" /\ p[1] \in Msg
  <2>1. p # <<>> /\ Head(p).t = "w"
    BY <1>1, <1>4
  <2> QED BY <2>1, SeqTail
<1>8. /\ Shape(Tail(p)) /\ (Tail(p) # <<>> => Tail(p)[1].t = "w") /\ p[1].w \in Nat
      /\ Writes(p) # <<>> /\ Head(Writes(p)) = p[1].w /\ Writes(Tail(p)) = Tail(Writes(p))
      /\ Writes(p) \in Seq(Nat)
  BY <1>6, <1>7, WritesRead, WritesOnly
<1>9. PICK w \in Nat : w = p[1].w
  BY <1>8
<1>10. PICK v \in Seq(Nat) : v = Writes(p)
  BY <1>8
<1>11. PICK ws \in Seq(Nat) : ws = Tail(v)
  BY <1>8, <1>10, SeqTail
\* What r becomes.
<1>12. PICK y : Fed(x, y, w)
  BY DEF Fed
<1>13. Keeps(x)
  BY <1>6 DEF Local, Keeps
<1>14. y \in Server /\ Grown(x, y, w) /\ Keeps(y) /\ y.cm = x.cm
  BY <1>6, <1>12, <1>13, FedBacklog
<1>15. PICK z : z = [y EXCEPT !.cm.off = @ + 1]
  OBVIOUS
<1>16. x.cm = [id |-> x.id, off |-> x.off] /\ x.cm # NoCache
  <2>1. x.m # NoServer
    BY <1>1, <1>2, <1>5
  <2> QED BY <1>6, <2>1 DEF Local, Valid
<1>17. /\ z \in Server /\ z.m = x.m /\ z.ls = x.ls /\ z.id = x.id /\ z.id2 = x.id2 /\ z.off2 = x.off2
       /\ z.off = x.off + 1 /\ z.data = Append(x.data, w) /\ z.bl = y.bl /\ z.bl.on
       /\ z.cm = [id |-> z.id, off |-> z.off]
  <2>1. y.cm = [id |-> x.id, off |-> x.off] /\ x.id \in Nat /\ x.off \in Nat
    BY <1>14, <1>16, ServerFields
  <2>2. PICK c \in [id : Nat, off : Int] : c = [id |-> x.id, off |-> x.off + 1]
    <3>1. PICK o \in Nat : o = x.off
      BY <2>1
    <3>2. [id |-> x.id, off |-> o + 1] \in [id : Nat, off : Int]
      BY <2>1
    <3> QED BY <3>1, <3>2
  <2>3. z = [y EXCEPT !.cm = c]
    <3>1. [y.cm EXCEPT !.off = @ + 1] = c
      BY <2>1, <2>2
    <3>2. z = [y EXCEPT !.cm = [y.cm EXCEPT !.off = @ + 1]]
      BY <1>14, <1>15 DEF Server
    <3> QED BY <3>1, <3>2
  <2>4. /\ z \in Server /\ z.m = y.m /\ z.ls = y.ls /\ z.id = y.id /\ z.id2 = y.id2 /\ z.off2 = y.off2
        /\ z.off = y.off /\ z.data = y.data /\ z.bl = y.bl /\ z.cm = c
    BY <1>14, <2>3 DEF Server
  <2>5. /\ y.m = x.m /\ y.ls = x.ls /\ y.id = x.id /\ y.id2 = x.id2 /\ y.off2 = x.off2
        /\ y.off = x.off + 1 /\ y.data = Append(x.data, w) /\ y.bl.on
    BY <1>14 DEF Grown
  <2> QED BY <2>2, <2>4, <2>5
<1>18. Grown(x, z, w) /\ Keeps(z)
  <2>1. Grown(x, z, w)
    BY <1>17 DEF Grown
  <2>2. z.bl = y.bl /\ z.off = y.off /\ z.data = y.data
    BY <1>14, <1>17 DEF Grown
  <2> QED BY <1>14, <2>1, <2>2 DEF Keeps
\* The step.
<1>19. srv' = [srv EXCEPT ![r] = z] /\ pipe' = [Send(slaves(r), [t |-> "w", w |-> w]) EXCEPT ![r] = Tail(@)]
  <2>1. Head(pipe[r]).w = w
    BY <1>4, <1>7, <1>9
  <2>2. y = [feedReplicationBuffer(srv[r], Head(pipe[r]).w) EXCEPT !.data = Append(@, Head(pipe[r]).w)]
    BY <1>5, <1>12, <2>1 DEF Fed
  <2>3. /\ srv' = [srv EXCEPT ![r] = [[feedReplicationBuffer(srv[r], Head(pipe[r]).w) EXCEPT
                                         !.data = Append(@, Head(pipe[r]).w)] EXCEPT !.cm.off = @ + 1]]
        /\ pipe' = [Send(slaves(r), [t |-> "w", w |-> Head(pipe[r]).w]) EXCEPT ![r] = Tail(@)]
    BY Zenon DEF replicationFeedStreamFromMasterStream
  <2>4. srv' = [srv EXCEPT ![r] = [y EXCEPT !.cm.off = @ + 1]]
    BY <2>2, <2>3, Zenon
  <2> QED BY <1>15, <2>1, <2>3, <2>4, Zenon
<1>20. PICK P : P = Send(slaves(r), [t |-> "w", w |-> w])
  OBVIOUS
<1>21. /\ P \in [Servers -> Seq(Msg)]
       /\ \A t \in Servers : P[t] = IF feed[t] = r THEN Append(pipe[t], [t |-> "w", w |-> w]) ELSE pipe[t]
  BY <1>20, Sent
<1>22. pipe' = [P EXCEPT ![r] = Tail(P[r])] /\ P[r] = p
  BY <1>2, <1>4, <1>19, <1>20, <1>21
<1>23. Tail(p) \in Seq(Msg)
  BY <1>7, SeqTail
<1>24. pipe' \in [Servers -> Seq(Msg)] /\ pipe'[r] = Tail(p) /\ \A t \in Servers \ {r} : pipe'[t] = P[t]
  BY <1>21, <1>22, <1>23
<1>25. Streams(r, z, w)
  BY <1>1, <1>19, <1>21, <1>24 DEF Streams
<1>26. SuitsOthers(h, h, r)
  <2>1. \A t \in Servers \ {r} : One(h, t) /\ Agree(h, h, t)
    BY DEF Inv, Agree
  <2> QED BY <2>1, AgreeSuits DEF SuitsOthers
<1>27. /\ Types' /\ srv'[r] = z
       /\ \A t \in Servers \ {r} : One(h, t)' /\ srv'[t] = srv[t]
  <2>1. writes' \in 0..MaxWrites /\ writes <= writes'
    BY <1>1 DEF Inv, Types, PsyncAssumption
  <2>2. FeedsAll(r, z, w)
    BY <1>5, <1>18 DEF FeedsAll
  <2>3. z \in Server
    BY <1>17
  <2> QED BY <1>25, <1>26, <2>1, <2>2, <2>3, StreamStep
<1>28. z.off + Len(ws) = srv[s].off /\ Continues(z.data, ws, srv[s].data) /\ z.id = srv[s].id
  <2>1. x.id = srv[s].id /\ x.off + Len(v) = srv[s].off /\ Continues(x.data, v, srv[s].data)
    BY <1>1, <1>5, <1>6, <1>10 DEF Stream
  <2>2. x.data \in Seq(Nat) /\ srv[s].data \in Seq(Nat) /\ x.off \in Nat /\ srv[s].off \in Nat
    BY <1>2, <1>3, ServerFields
  <2>3. Continues(Append(x.data, Head(v)), Tail(v), srv[s].data)
    BY <1>8, <1>10, <2>1, <2>2, ContinuesApply
  <2>4. Head(v) = w
    BY <1>8, <1>9, <1>10
  <2>5. Len(ws) = Len(v) - 1 /\ Len(v) \in Nat
    BY <1>8, <1>10, <1>11, SeqTail
  <2>6. PICK l \in Nat : l = Len(v)
    BY <2>5
  <2>7. PICK o \in Nat : o = x.off
    BY <2>2
  <2>8. o + 1 + (l - 1) = o + l
    OBVIOUS
  <2>9. z.off + Len(ws) = srv[s].off
    BY <1>17, <2>1, <2>5, <2>6, <2>7, <2>8
  <2>10. Continues(z.data, ws, srv[s].data)
    BY <1>11, <1>17, <2>3, <2>4
  <2> QED BY <1>17, <2>1, <2>9, <2>10
<1>29. Local(r, z)
  <2>1. z.m # r /\ z.m # NoServer
    BY <1>1, <1>2, <1>5, <1>17
  <2>2. x.cm.id # 0
    <3>1. x.id \in 1..ids /\ ids \in Nat
      BY <1>5, NamedIds
    <3> QED BY <1>16, <3>1
  <2>3. z.cm # NoCache
    BY <1>16, <1>17, <2>2 DEF NoCache
  <2>4. Valid(z)
    BY <2>3 DEF Valid
  <2>5. /\ z.bl.first + Len(z.bl.w) = z.off + 1 /\ Len(z.bl.w) <= Len(z.data)
        /\ \A i \in 1..Len(z.bl.w) : z.bl.w[i] = z.data[Len(z.data) - Len(z.bl.w) + i]
    BY <1>18 DEF Keeps
  <2> QED BY <1>17, <2>1, <2>3, <2>4, <2>5 DEF Local
<1>30. Second(h, z)
  <2>1. x.bl.on => Fits(h, x.id, x.off, x.data)
    BY <1>6 DEF Local, HistOf
  <2>2. Second(h, x)
    BY <1>6 DEF HistOf
  <2>3. x.off <= z.off
    <3>1. PICK o \in Nat : o = x.off
      BY ServerFields
    <3> QED BY <1>17, <3>1
  <2>4. \A i \in 1..Len(x.data) : z.data[i] = x.data[i]
    <3>1. x.data \in Seq(Nat)
      BY ServerFields
    <3> QED BY <1>17, <3>1, SeqAppend
  <2>5. z.bl.on = x.bl.on
    BY <1>6, <1>17, ServerFields
  <2> QED BY <1>17, <2>1, <2>2, <2>3, <2>4, <2>5, GrowsSelf, SecondGrows
<1>31. FileOf(h, r, disk[r])'
  BY <1>1, <1>2 DEF One, FileOf
<1>32. One(h, r)'
  <2>1. srv'[r] = z /\ feed'[r] = s /\ z.m = s /\ z.ls = "connected" /\ z.bl.on
    BY <1>1, <1>2, <1>3, <1>5, <1>17, <1>27
  <2>2. z.id2 \in 0..ids /\ Len(z.bl.w) <= BacklogLen
    BY <1>6, <1>17, <1>18 DEF Keeps
  <2>3. ws = Writes(pipe'[r]) /\ Shape(pipe'[r]) /\ (pipe'[r] # <<>> => pipe'[r][1].t = "w")
    BY <1>8, <1>10, <1>11, <1>24
  <2>4. srv'[s] = srv[s]
    BY <1>2, <1>3, <1>27
  <2>5. srv'[s].id = srv[s].id /\ srv'[s].off = srv[s].off /\ srv'[s].data = srv[s].data /\ srv'[s].bl = srv[s].bl
    BY <2>4
  <2> QED BY <1>1, <1>3, <1>17, <1>28, <1>29, <1>30, <1>31, <2>1, <2>2, <2>3, <2>5, Reading
<1> QED
  BY <1>27, <1>32 DEF Inv

-----------------------------------------------------------------------------
(* A master writes.                                                        *)

\* A counted write adds to the history of the ID.
Longer(g, h, id, n, w) ==
  /\ Grows(g, h) /\ g[id].top = h[id].top + 1 /\ g[id].w[n + 1] = w
  /\ \A i \in Nat \ {id} : g[i] = h[i]

LEMMA LongerHistory ==
  ASSUME NEW h \in Histories, NEW id \in Nat, NEW n \in Nat, h[id].top + h[id].base = n, NEW w \in Nat
  PROVE  \E g \in Histories : Longer(g, h, id, n, w)
<1>1. PICK a \in Int : a = h[id].top
  BY HistoryFields
<1>2. PICK v \in [Nat -> Nat] : v = h[id].w
  BY HistoryFields
<1>3. PICK u : u = [v EXCEPT ![n + 1] = w]
  OBVIOUS
<1>4. u \in [Nat -> Nat] /\ u[n + 1] = w /\ \A j \in 1..n : u[j] = v[j]
  BY <1>3
<1>5. PICK y \in History : y = h[id]
  BY HistoryFields
<1>6. PICK z : \E a1 \in Int : a1 = a + 1 /\ z = [y EXCEPT !.top = a1, !.w = u]
  <2>1. PICK a1 \in Int : a1 = a + 1
    OBVIOUS
  <2>2. \E z : z = [y EXCEPT !.top = a1, !.w = u]
    OBVIOUS
  <2> QED BY <2>1, <2>2
<1>7. z \in History /\ z.top = a + 1 /\ z.w = u /\ z.base = y.base /\ z.by = y.by /\ z.priv = y.priv
  BY <1>4, <1>6 DEF History
<1>8. PICK g : g = [h EXCEPT ![id] = z]
  OBVIOUS
<1>9. g \in Histories /\ g[id] = z /\ \A i \in Nat \ {id} : g[i] = h[i]
  BY <1>7, <1>8 DEF Histories
<1>10. a <= a + 1
  OBVIOUS
<1>11. Grows(g, h)
  <2> SUFFICES ASSUME NEW i \in Nat
               PROVE  /\ g[i].base = h[i].base /\ h[i].top <= g[i].top /\ g[i].by = h[i].by /\ g[i].priv = h[i].priv
                      /\ \A j \in 1..(h[i].top + h[i].base) : g[i].w[j] = h[i].w[j]
    BY DEF Grows
  <2>1. CASE i = id
    BY <1>1, <1>2, <1>4, <1>5, <1>7, <1>9, <1>10, <2>1
  <2>2. CASE i # id
    BY <1>9, <2>2, GrowsSelf DEF Grows
  <2> QED BY <2>1, <2>2
<1> QED
  BY <1>1, <1>4, <1>7, <1>9, <1>11 DEF Longer

\* A write that is not counted moves the history of the ID: it has one more
\* write that came before.
Shifted(g, h, id, n, w) ==
  /\ g[id].base = h[id].base + 1 /\ g[id].top = h[id].top /\ g[id].by = h[id].by /\ g[id].priv = h[id].priv
  /\ g[id].w[n + 1] = w /\ \A j \in 1..n : g[id].w[j] = h[id].w[j]
  /\ \A i \in Nat \ {id} : g[i] = h[i]

LEMMA ShiftedHistory ==
  ASSUME NEW h \in Histories, NEW id \in Nat, NEW n \in Nat, NEW w \in Nat
  PROVE  \E g \in Histories : Shifted(g, h, id, n, w)
<1>1. PICK a \in Int : a = h[id].base
  BY HistoryFields
<1>2. PICK v \in [Nat -> Nat] : v = h[id].w
  BY HistoryFields
<1>3. PICK u : u = [v EXCEPT ![n + 1] = w]
  OBVIOUS
<1>4. u \in [Nat -> Nat] /\ u[n + 1] = w /\ \A j \in 1..n : u[j] = v[j]
  BY <1>3
<1>5. PICK y \in History : y = h[id]
  BY HistoryFields
<1>6. PICK z : \E a1 \in Int : a1 = a + 1 /\ z = [y EXCEPT !.base = a1, !.w = u]
  <2>1. PICK a1 \in Int : a1 = a + 1
    OBVIOUS
  <2>2. \E z : z = [y EXCEPT !.base = a1, !.w = u]
    OBVIOUS
  <2> QED BY <2>1, <2>2
<1>7. z \in History /\ z.base = a + 1 /\ z.w = u /\ z.top = y.top /\ z.by = y.by /\ z.priv = y.priv
  BY <1>4, <1>6 DEF History
<1>8. PICK g : g = [h EXCEPT ![id] = z]
  OBVIOUS
<1>9. g \in Histories /\ g[id] = z /\ \A i \in Nat \ {id} : g[i] = h[i]
  BY <1>7, <1>8 DEF Histories
<1> QED
  BY <1>1, <1>2, <1>4, <1>5, <1>7, <1>9 DEF Shifted

\* Data with one more write.
LEMMA FitsAppend ==
  ASSUME NEW h \in Histories, NEW g \in Histories, NEW id \in Nat, NEW off \in Nat, NEW d \in Seq(Nat), NEW w \in Nat,
         Fits(h, id, off, d), NEW o \in Nat, o <= g[id].top, o + g[id].base = Len(d) + 1,
         g[id].w[Len(d) + 1] = w, \A j \in 1..Len(d) : g[id].w[j] = h[id].w[j]
  PROVE  Fits(g, id, o, Append(d, w))
<1>1. PICK n \in Nat : n = Len(d)
  OBVIOUS
<1>2. PICK e \in Seq(Nat) : e = Append(d, w)
  BY SeqAppend
<1>3. Len(e) = n + 1 /\ e[n + 1] = w /\ \A i \in 1..n : e[i] = d[i]
  BY <1>1, <1>2, SeqAppend
<1>4. \A i \in 1..n : e[i] = g[id].w[i]
  BY <1>1, <1>3 DEF Fits
<1>5. \A i \in 1..(n + 1) : e[i] = g[id].w[i]
  <2>1. \A i \in 1..(n + 1) : i \in 1..n \/ i = n + 1
    OBVIOUS
  <2>2. e[n + 1] = g[id].w[n + 1]
    BY <1>1, <1>3
  <2> QED BY <1>4, <2>1, <2>2
<1>6. Len(e) = o + g[id].base
  BY <1>1, <1>3
<1>7. Fits(g, id, o, e)
  BY <1>3, <1>5, <1>6 DEF Fits
<1> QED
  BY <1>2, <1>7

\* A master with a backlog.
LEMMA CountedWrite ==
  ASSUME PsyncAssumption, NEW h \in Histories, Inv(h), NEW s \in Servers, srv[s].m = NoServer, srv[s].bl.on,
         NEW w \in Nat, NEW z \in Server, Grown(srv[s], z, w)
  PROVE  \E g \in Histories : SuitsOthers(g, h, s) /\ HistOf(g, s, z, disk[s]) /\ FileOf(g, s, disk[s])
<1>1. PICK x \in Server : x = srv[s]
  BY FeedFacts
<1>2. PICK id \in Nat : id = x.id
  BY ServerFields
<1>3. PICK d \in Seq(Nat) : d = x.data
  BY ServerFields
<1>4. PICK o \in Nat : o = x.off
  BY ServerFields
<1>5. PICK n \in Nat : n = Len(d)
  OBVIOUS
<1>6. HistOf(h, s, x, disk[s]) /\ FileOf(h, s, disk[s]) /\ x.m = NoServer /\ x.bl.on
  BY <1>1, FeedFacts DEF One
<1>7. Fits(h, id, o, d) /\ h[id].by = s /\ h[id].top = o /\ ~h[id].priv
  BY <1>2, <1>3, <1>4, <1>6 DEF HistOf, Leads, Valid
<1>8. h[id].top + h[id].base = n
  <2>1. PICK b \in Int : b = h[id].base
    BY HistoryFields
  <2>2. n = o + b
    BY <1>5, <1>7, <2>1 DEF Fits
  <2> QED BY <1>7, <2>1, <2>2
<1>9. PICK g \in Histories : Longer(g, h, id, n, w)
  BY <1>8, LongerHistory
<1>10. Grows(g, h) /\ g[id].top = o + 1 /\ g[id].w[n + 1] = w /\ \A i \in Nat \ {id} : g[i] = h[i]
  BY <1>7, <1>9 DEF Longer
<1>11. SuitsOthers(g, h, s)
  <2> SUFFICES ASSUME NEW t \in Servers \ {s} PROVE Suits(g, h, t)
    BY DEF SuitsOthers
  <2>1. t \in Servers
    OBVIOUS
  <2>2. srv[t].m = NoServer /\ srv[t].bl.on => g[srv[t].id].top = h[srv[t].id].top
    <3> SUFFICES ASSUME srv[t].m = NoServer, srv[t].bl.on PROVE g[srv[t].id].top = h[srv[t].id].top
      OBVIOUS
    <3>1. h[srv[t].id].by = t /\ srv[t].id \in Nat
      BY <2>1, FeedFacts, NamedIds DEF One, HistOf, Leads
    <3>2. srv[t].id # id
      BY <1>7, <3>1
    <3> QED BY <1>10, <3>1, <3>2
  <2> QED BY <1>10, <2>1, <2>2, GrowsSuits
<1>12. /\ z.m = x.m /\ z.id = id /\ z.id2 = x.id2 /\ z.off2 = x.off2 /\ z.off = o + 1 /\ z.data = Append(d, w) /\ z.bl.on
  BY <1>1, <1>2, <1>3, <1>4 DEF Grown
<1>13. g[id].base = h[id].base /\ g[id].by = s /\ ~g[id].priv /\ \A j \in 1..n : g[id].w[j] = h[id].w[j]
  BY <1>7, <1>8, <1>10 DEF Grows
<1>14. Fits(g, id, o + 1, Append(d, w))
  <2>1. o + 1 \in Nat /\ o + 1 <= g[id].top
    BY <1>10
  <2>2. o + 1 + g[id].base = n + 1
    <3>1. PICK b \in Int : b = h[id].base
      BY HistoryFields
    <3>2. o + b = n
      BY <1>7, <1>8, <3>1
    <3>3. o + 1 + b = n + 1
      BY <3>2
    <3> QED BY <1>13, <3>1, <3>3
  <2>3. PICK o1 \in Nat : o1 = o + 1
    BY <2>1
  <2>4. o1 <= g[id].top /\ o1 + g[id].base = Len(d) + 1 /\ g[id].w[Len(d) + 1] = w
        /\ \A j \in 1..Len(d) : g[id].w[j] = h[id].w[j]
    BY <1>5, <1>10, <1>13, <2>1, <2>2, <2>3
  <2> QED BY <1>7, <2>3, <2>4, FitsAppend
<1>15. Second(g, z)
  <2>1. x.bl.on => Fits(h, x.id, x.off, x.data)
    BY <1>2, <1>3, <1>4, <1>7
  <2>2. Second(h, x)
    BY <1>6 DEF HistOf
  <2>3. x.off <= z.off
    BY <1>4, <1>12
  <2>4. \A i \in 1..Len(x.data) : z.data[i] = x.data[i]
    BY <1>3, <1>12, SeqAppend
  <2>5. z.bl.on = x.bl.on
    BY <1>6, <1>12, ServerFields
  <2> QED BY <1>2, <1>10, <1>12, <2>1, <2>2, <2>3, <2>4, <2>5, SecondGrows
<1>16. HistOf(g, s, z, disk[s])
  <2>1. Fits(g, z.id, z.off, z.data)
    BY <1>12, <1>14
  <2>2. Leads(g, s, z, disk[s])
    BY <1>10, <1>12, <1>13 DEF Leads
  <2> QED BY <1>12, <1>13, <1>15, <2>1, <2>2 DEF HistOf
<1>17. FileOf(g, s, disk[s])
  <2>1. disk[s].id \in Nat /\ disk[s].off \in Nat /\ disk[s].data \in Seq(Nat)
    BY NamedIds
  <2>2. disk[s].info => Fits(g, disk[s].id, disk[s].off, disk[s].data)
    BY <1>6, <1>10, <2>1, GrowsFits DEF FileOf
  <2>3. g[disk[s].id].priv = h[disk[s].id].priv /\ g[disk[s].id].by = h[disk[s].id].by
    BY <1>10, <2>1 DEF Grows
  <2> QED BY <1>6, <2>2, <2>3 DEF FileOf
<1> QED
  BY <1>11, <1>16, <1>17

\* A master without a backlog: nobody else knows the ID.
LEMMA UncountedWrite ==
  ASSUME PsyncAssumption, NEW h \in Histories, Inv(h), NEW s \in Servers, srv[s].m = NoServer, ~srv[s].bl.on,
         NEW w \in Nat, NEW z \in Server, z = [srv[s] EXCEPT !.data = Append(srv[s].data, w)]
  PROVE  \E g \in Histories : SuitsOthers(g, h, s) /\ HistOf(g, s, z, disk[s]) /\ FileOf(g, s, disk[s])
<1>1. srv[s] \in Server /\ One(h, s)
  BY FeedFacts
<1>2. PICK x \in Server : x = srv[s]
  BY <1>1
<1>3. PICK id \in Nat : id = x.id
  BY ServerFields
<1>4. PICK d \in Seq(Nat) : d = x.data
  BY ServerFields
<1>5. PICK o \in Nat : o = x.off
  BY ServerFields
<1>6. PICK n \in Nat : n = Len(d)
  OBVIOUS
<1>7. HistOf(h, s, x, disk[s]) /\ FileOf(h, s, disk[s]) /\ x.m = NoServer /\ ~x.bl.on
  BY <1>1, <1>2 DEF One
<1>8. Fits(h, id, o, d) /\ h[id].by = s /\ h[id].priv /\ ~(disk[s].info /\ disk[s].id = id)
  BY <1>3, <1>4, <1>5, <1>7 DEF HistOf, Leads, Valid
<1>9. PICK g \in Histories : Shifted(g, h, id, n, w)
  BY ShiftedHistory
<1>10. /\ g[id].base = h[id].base + 1 /\ g[id].top = h[id].top /\ g[id].by = s /\ g[id].priv
       /\ g[id].w[n + 1] = w /\ \A j \in 1..n : g[id].w[j] = h[id].w[j]
       /\ \A i \in Nat \ {id} : g[i] = h[i]
  BY <1>8, <1>9 DEF Shifted
<1>11. SuitsOthers(g, h, s)
  <2> SUFFICES ASSUME NEW t \in Servers \ {s} PROVE Suits(g, h, t)
    BY DEF SuitsOthers
  <2>1. t \in Servers /\ One(h, t)
    BY FeedFacts
  <2>2. srv[t].id \in Nat /\ srv[t].id2 \in Nat /\ disk[t].id \in Nat
    BY <2>1, NamedIds
  <2>3. srv[t].id # id
    BY <1>8, <2>1 DEF One, HistOf
  <2>4. srv[t].id2 # 0 /\ srv[t].bl.on => srv[t].id2 # id
    BY <1>8, <2>1 DEF One, HistOf, Second
  <2>5. disk[t].info => disk[t].id # id
    BY <1>8, <2>1 DEF One, FileOf
  <2>6. Agree(g, h, t)
    BY <1>10, <2>2, <2>3, <2>4, <2>5 DEF Agree
  <2> QED BY <2>1, <2>6, AgreeSuits
<1>12. /\ z.m = NoServer /\ z.id = id /\ z.id2 = x.id2 /\ z.off = o /\ z.data = Append(d, w) /\ ~z.bl.on
  BY <1>2, <1>3, <1>4, <1>5, <1>7 DEF Server
<1>13. Fits(g, id, o, Append(d, w))
  <2>1. o <= g[id].top
    BY <1>8, <1>10 DEF Fits
  <2>2. o + g[id].base = Len(d) + 1
    <3>1. PICK b \in Int : b = h[id].base
      BY HistoryFields
    <3>2. n = o + b
      BY <1>6, <1>8, <3>1 DEF Fits
    <3> QED BY <1>6, <1>10, <3>1, <3>2
  <2>3. g[id].w[Len(d) + 1] = w /\ \A j \in 1..Len(d) : g[id].w[j] = h[id].w[j]
    BY <1>6, <1>10
  <2> QED BY <1>8, <2>1, <2>2, <2>3, FitsAppend
<1>14. HistOf(g, s, z, disk[s])
  <2>1. Fits(g, z.id, z.off, z.data)
    BY <1>12, <1>13
  <2>2. Leads(g, s, z, disk[s])
    BY <1>8, <1>10, <1>12 DEF Leads
  <2>3. Second(g, z)
    BY <1>12 DEF Second
  <2> QED BY <1>10, <1>12, <2>1, <2>2, <2>3 DEF HistOf
<1>15. FileOf(g, s, disk[s])
  <2>1. disk[s].info => g[disk[s].id] = h[disk[s].id]
    <3>1. disk[s].id \in Nat
      BY NamedIds
    <3> QED BY <1>8, <1>10, <3>1
  <2> QED BY <1>7, <2>1 DEF FileOf, Fits
<1> QED
  BY <1>11, <1>14, <1>15

LEMMA WriteStep ==
  ASSUME PsyncAssumption, NEW h \in Histories, Inv(h), NEW s \in Servers, replicationFeedSlaves(s)
  PROVE  \E g \in Histories : Inv(g)'
<1>1. /\ srv[s].m = NoServer /\ writes < MaxWrites /\ writes' = writes + 1
      /\ feed' = feed /\ disk' = disk /\ ids' = ids /\ events' = events
  BY DEF replicationFeedSlaves
<1>2. /\ srv[s] \in Server /\ One(h, s) /\ ids \in Nat /\ writes \in Nat /\ writes \in 0..MaxWrites /\ MaxWrites \in Nat
      /\ srv \in [Servers -> Server]
  BY FeedFacts, NamedIds DEF Inv, Types, PsyncAssumption
<1>3. PICK w \in Nat : w = writes'
  BY <1>1, <1>2
<1>4. w = writes + 1 /\ w \in 0..MaxWrites /\ writes <= w
  BY <1>1, <1>2, <1>3
<1>5. PICK x \in Server : x = srv[s]
  BY <1>2
<1>6. /\ Numbers(x, pipe[s]) /\ Local(s, x) /\ HistOf(h, s, x, disk[s]) /\ FileOf(h, s, disk[s]) /\ Feeds(h, s)
      /\ x.m = NoServer /\ x.cm = NoCache /\ x.off \in Nat /\ x.off <= writes
  <2>1. Numbers(x, pipe[s]) /\ Local(s, x) /\ HistOf(h, s, x, disk[s]) /\ FileOf(h, s, disk[s]) /\ Feeds(h, s)
    BY <1>2, <1>5 DEF One
  <2> QED BY <1>1, <1>5, <2>1, ServerFields DEF Local, Numbers
<1>7. feed[s] = NoServer /\ pipe[s] = <<>>
  <2>1. feed[s] = NoServer
    BY <1>1, FeedFacts
  <2> QED BY <1>6, <2>1 DEF Feeds
<1>8. PICK z : Fed(x, z, w)
  BY DEF Fed
<1>9. srv' = [srv EXCEPT ![s] = z] /\ pipe' = Send(slaves(s), [t |-> "w", w |-> w])
  <2>1. srv' = [srv EXCEPT ![s] = [feedReplicationBuffer(srv[s], writes') EXCEPT !.data = Append(@, writes')]]
        /\ pipe' = Send(slaves(s), [t |-> "w", w |-> writes'])
    BY Zenon DEF replicationFeedSlaves
  <2> QED BY <1>3, <1>5, <1>8, <2>1, Zenon DEF Fed
<1>10. /\ pipe' \in [Servers -> Seq(Msg)]
       /\ \A t \in Servers : pipe'[t] = IF feed[t] = s THEN Append(pipe[t], [t |-> "w", w |-> w]) ELSE pipe[t]
  <2>1. PICK P : P = Send(slaves(s), [t |-> "w", w |-> w])
    OBVIOUS
  <2>2. /\ P \in [Servers -> Seq(Msg)]
        /\ \A t \in Servers : P[t] = IF feed[t] = s THEN Append(pipe[t], [t |-> "w", w |-> w]) ELSE pipe[t]
    BY <2>1, Sent
  <2> QED BY <1>9, <2>1, <2>2
<1>11. Streams(s, z, w)
  BY <1>1, <1>9, <1>10 DEF Streams
\* What s becomes.
<1>12. /\ z \in Server /\ FeedsAll(s, z, w) /\ Local(s, z) /\ Len(z.bl.w) <= BacklogLen
       /\ z.m = NoServer /\ z.ls = x.ls /\ z.id = x.id /\ z.id2 = x.id2 /\ z.off <= w
       /\ \E g \in Histories : SuitsOthers(g, h, s) /\ HistOf(g, s, z, disk[s]) /\ FileOf(g, s, disk[s])
  <2>1. CASE x.bl.on
    <3>1. Keeps(x)
      BY <1>6, <2>1 DEF Local, Numbers, Keeps
    <3>2. z \in Server /\ Grown(x, z, w) /\ Keeps(z) /\ z.cm = x.cm
      BY <1>8, <2>1, <3>1, FedBacklog
    <3>3. Grown(srv[s], z, w) /\ srv[s].bl.on
      BY <1>5, <2>1, <3>2
    <3>4. z.m = NoServer /\ z.ls = x.ls /\ z.id = x.id /\ z.id2 = x.id2 /\ z.off = x.off + 1 /\ z.bl.on /\ z.cm = NoCache
      BY <1>6, <3>2 DEF Grown
    <3>5. z.off <= w
      <4>1. PICK o \in Nat : o = x.off
        BY <1>6
      <4> QED BY <1>2, <1>4, <1>6, <3>4, <4>1
    <3>6. Local(s, z)
      <4>1. NoServer # s /\ z.ls # "connected"
        BY <1>6, <3>4 DEF Numbers, PsyncAssumption
      <4> QED BY <3>2, <3>4, <4>1 DEF Local, Keeps, Valid
    <3>7. \E g \in Histories : SuitsOthers(g, h, s) /\ HistOf(g, s, z, disk[s]) /\ FileOf(g, s, disk[s])
      BY <1>1, <3>2, <3>3, CountedWrite
    <3> QED BY <3>2, <3>3, <3>4, <3>5, <3>6, <3>7 DEF FeedsAll, Keeps
  <2>2. CASE ~x.bl.on
    <3>1. z = [x EXCEPT !.data = Append(x.data, w)]
      BY <1>8, <2>2 DEF Fed, feedReplicationBuffer
    <3>2. Append(x.data, w) \in Seq(Nat)
      BY ServerFields, SeqAppend
    <3>3. /\ z \in Server /\ z.m = x.m /\ z.ls = x.ls /\ z.id = x.id /\ z.id2 = x.id2 /\ z.off = x.off
          /\ z.bl = x.bl /\ z.cm = x.cm
      BY <3>1, <3>2 DEF Server
    <3>4. z.off <= w
      <4>1. PICK o \in Nat : o = x.off
        BY <1>6
      <4> QED BY <1>2, <1>4, <1>6, <3>3, <4>1
    <3>5. \A t \in Servers : feed[t] # s
      <4>1. ~srv[s].bl.on /\ NoServer # s
        BY <1>5, <2>2 DEF PsyncAssumption
      <4> QED BY <4>1, FeedFacts
    <3>6. Local(s, z) /\ Len(z.bl.w) <= BacklogLen
      BY <1>6, <2>2, <3>3 DEF Local, Numbers, Valid
    <3>7. \E g \in Histories : SuitsOthers(g, h, s) /\ HistOf(g, s, z, disk[s]) /\ FileOf(g, s, disk[s])
      <4>1. ~srv[s].bl.on /\ z = [srv[s] EXCEPT !.data = Append(srv[s].data, w)]
        BY <1>5, <2>2, <3>1
      <4> QED BY <1>1, <3>3, <4>1, UncountedWrite
    <3> QED BY <1>6, <3>3, <3>4, <3>5, <3>6, <3>7 DEF FeedsAll
  <2> QED BY <2>1, <2>2
<1>13. PICK g \in Histories : SuitsOthers(g, h, s) /\ HistOf(g, s, z, disk[s]) /\ FileOf(g, s, disk[s])
  BY <1>12
<1>14. /\ Types' /\ srv'[s] = z
       /\ \A t \in Servers \ {s} : One(g, t)' /\ srv'[t] = srv[t]
  <2>1. writes' \in 0..MaxWrites /\ writes <= writes'
    BY <1>3, <1>4
  <2>2. z \in Server /\ FeedsAll(s, z, w) /\ SuitsOthers(g, h, s)
    BY <1>12, <1>13
  <2> QED BY <1>11, <2>1, <2>2, StreamStep
<1>15. One(g, s)'
  <2>1. disk'[s] = disk[s] /\ feed'[s] = NoServer /\ pipe'[s] = <<>> /\ srv'[s] = z
    <3>1. feed[s] # s
      BY <1>7 DEF PsyncAssumption
    <3> QED BY <1>1, <1>7, <1>10, <1>14, <3>1
  <2>2. Numbers(srv[s], pipe[s])'
    <3>1. (z.ls = "none") = (z.m = NoServer) /\ z.id \in 1..ids /\ z.id2 \in 0..ids /\ Shape(<<>>)
      BY <1>6, <1>7, <1>12 DEF Numbers
    <3>2. z.off <= writes' /\ Len(z.bl.w) <= BacklogLen
      BY <1>3, <1>12
    <3> QED BY <1>1, <2>1, <3>1, <3>2 DEF Numbers
  <2>3. Local(s, srv[s])'
    BY <1>12, <2>1 DEF Local, Valid
  <2>4. HistOf(g, s, srv[s], disk[s])'
    BY <1>13, <2>1
  <2>5. FileOf(g, s, disk[s])'
    <3>1. disk[s].off <= writes'
      <4>1. disk[s].off \in Nat /\ disk[s].off <= writes
        BY <1>6, NamedIds DEF FileOf
      <4>2. PICK o \in Nat : o = disk[s].off
        BY <4>1
      <4> QED BY <1>1, <1>2, <4>1, <4>2
    <3> QED BY <1>1, <1>13, <2>1, <3>1 DEF FileOf
  <2>6. Feeds(g, s)'
    <3>1. z.ls \in {"none", "connect"}
      BY <1>6, <1>12 DEF Numbers
    <3> QED BY <2>1, <3>1 DEF Feeds
  <2> QED BY <2>2, <2>3, <2>4, <2>5, <2>6 DEF One
<1> QED
  BY <1>14, <1>15 DEF Inv

-----------------------------------------------------------------------------
(* The first state.                                                        *)

LEMMA InitHistories ==
  ASSUME PsyncAssumption, NEW f \in [Servers -> Nat], IsInjective(f)
  PROVE  \E h \in Histories : \A s \in Servers : h[f[s]].base = 0 /\ h[f[s]].top = 0 /\ h[f[s]].by = s /\ h[f[s]].priv
<1>1. PICK b : b = [i \in Nat |-> IF \E s \in Servers : f[s] = i THEN CHOOSE s \in Servers : f[s] = i ELSE NoServer]
  OBVIOUS
<1>2. \A s \in Servers : b[f[s]] = s
  <2> SUFFICES ASSUME NEW s \in Servers PROVE b[f[s]] = s
    OBVIOUS
  <2>1. b[f[s]] = CHOOSE t \in Servers : f[t] = f[s]
    BY <1>1
  <2>2. b[f[s]] \in Servers /\ f[b[f[s]]] = f[s]
    BY <2>1
  <2>3. DOMAIN f = Servers
    OBVIOUS
  <2> QED BY <2>2, <2>3 DEF IsInjective
<1>3. \A i \in Nat : b[i] \in Servers \cup {NoServer}
  BY <1>1
<1>4. PICK v \in [Nat -> Nat] : v = [i \in Nat |-> 0]
  OBVIOUS
<1>5. PICK h : h = [i \in Nat |-> [base |-> 0, top |-> 0, by |-> b[i], priv |-> TRUE, w |-> v]]
  OBVIOUS
<1>6. \A i \in Nat : /\ h[i] = [base |-> 0, top |-> 0, by |-> b[i], priv |-> TRUE, w |-> v]
                     /\ h[i] \in History
  BY <1>3, <1>5 DEF History
<1>7. h \in Histories
  BY <1>5, <1>6 DEF Histories
<1>8. \A s \in Servers : f[s] \in Nat
  OBVIOUS
<1>9. ASSUME NEW s \in Servers PROVE h[f[s]].base = 0 /\ h[f[s]].top = 0 /\ h[f[s]].by = s /\ h[f[s]].priv
  <2>1. PICK i \in Nat : i = f[s]
    BY <1>8
  <2>2. b[i] = s /\ h[i] = [base |-> 0, top |-> 0, by |-> b[i], priv |-> TRUE, w |-> v]
    BY <1>2, <1>6, <2>1
  <2>3. h[i].base = 0 /\ h[i].top = 0 /\ h[i].by = b[i] /\ h[i].priv
    BY <2>2
  <2> QED BY <2>1, <2>2, <2>3
<1> QED
  BY <1>7, <1>9

LEMMA InitInv ==
  ASSUME PsyncAssumption, Init
  PROVE  \E h \in Histories : Inv(h)
<1>1. PICK f \in [Servers -> 1..Cardinality(Servers)] :
        IsInjective(f) /\ srv = [s \in Servers |-> NewServer(f[s])]
  BY DEF Init
<1>2. /\ feed = [s \in Servers |-> NoServer] /\ pipe = [s \in Servers |-> <<>>] /\ disk = [s \in Servers |-> NoFile]
      /\ writes = 0 /\ events = 0 /\ ids = Cardinality(Servers)
  BY DEF Init
<1>3. ids \in Nat /\ NoServer \notin Servers /\ BacklogLen \in Nat /\ MaxWrites \in Nat /\ MaxEvents \in Nat
  BY <1>2, FS_CardinalityType DEF PsyncAssumption
<1>4. \A s \in Servers : f[s] \in 1..ids /\ f[s] \in Nat
  BY <1>2, <1>3
<1>5. PICK h \in Histories :
        \A s \in Servers : h[f[s]].base = 0 /\ h[f[s]].top = 0 /\ h[f[s]].by = s /\ h[f[s]].priv
  <2>1. f \in [Servers -> Nat]
    BY <1>4
  <2> QED BY <1>1, <2>1, InitHistories
<1>6. \A s \in Servers : srv[s] = NewServer(f[s]) /\ NewServer(f[s]) \in Server
  BY <1>1, <1>4 DEF NewServer, Server, NoCache, NoBacklog
<1>7. NoFile \in File /\ <<>> \in Seq(Msg)
  BY DEF NoFile, File
<1>8. Types
  <2>1. srv \in [Servers -> Server]
    BY <1>1, <1>6
  <2>2. disk \in [Servers -> File] /\ feed \in [Servers -> Servers \cup {NoServer}] /\ pipe \in [Servers -> Seq(Msg)]
    BY <1>2, <1>7
  <2> QED BY <1>2, <1>3, <2>1, <2>2 DEF Types
<1>9. ASSUME NEW s \in Servers PROVE One(h, s)
  <2>1. PICK x \in Server : x = srv[s]
    BY <1>6
  <2>2. /\ x.m = NoServer /\ x.ls = "none" /\ x.id = f[s] /\ x.id2 = 0 /\ x.off = 0 /\ x.cm = NoCache
        /\ x.bl = NoBacklog /\ x.data = <<>>
    <3>1. x = NewServer(f[s])
      BY <1>6, <2>1
    <3>2. PICK i : i = f[s]
      OBVIOUS
    <3>3. x = [m |-> NoServer, ls |-> "none", id |-> i, id2 |-> 0, off2 |-> -1, off |-> 0,
               cm |-> NoCache, bl |-> NoBacklog, data |-> <<>>]
      BY <3>1, <3>2 DEF NewServer
    <3> QED BY <3>2, <3>3
  <2>3. ~x.bl.on /\ Len(x.bl.w) = 0 /\ Len(x.data) = 0
    BY <2>2 DEF NoBacklog
  <2>4. feed[s] = NoServer /\ pipe[s] = <<>> /\ disk[s] = NoFile /\ ~disk[s].info /\ disk[s].off = 0
    BY <1>2 DEF NoFile
  <2>5. Numbers(x, pipe[s])
    BY <1>2, <1>3, <1>4, <1>7, <2>2, <2>3, <2>4 DEF Numbers, Shape
  <2>6. Local(s, x)
    BY <1>3, <2>2, <2>3 DEF Local
  <2>7. Fits(h, x.id, x.off, x.data)
    BY <1>5, <2>2, <2>3 DEF Fits
  <2>8. HistOf(h, s, x, disk[s])
    BY <1>5, <2>2, <2>3, <2>4, <2>7 DEF HistOf, Leads, Second
  <2>9. FileOf(h, s, disk[s])
    BY <1>2, <2>4 DEF FileOf
  <2>10. Feeds(h, s)
    BY <2>1, <2>2, <2>4 DEF Feeds
  <2> QED BY <2>1, <2>5, <2>6, <2>8, <2>9, <2>10 DEF One
<1> QED
  BY <1>8, <1>9 DEF Inv

-----------------------------------------------------------------------------
(* The theorems.                                                           *)

\* There are histories that every server, file and message belongs to.
IInv == \E h \in Histories : Inv(h)

LEMMA NextInv ==
  ASSUME PsyncAssumption, IInv, [Next]_vars
  PROVE  IInv'
<1>1. PICK h \in Histories : Inv(h)
  BY DEF IInv
<1>2. SUFFICES \E g \in Histories : Inv(g)'
  BY DEF IInv
<1>3. CASE Sync
  <2>1. PICK r \in Servers :
          \/ \E s \in Servers : masterTryPartialResynchronization(r, s) \/ syncCommand(r, s)
          \/ replicationResurrectCachedMaster(r) \/ readSyncBulkPayload(r)
          \/ replicationFeedStreamFromMasterStream(r)
    BY <1>3 DEF Sync
  <2>2. ASSUME NEW s \in Servers, masterTryPartialResynchronization(r, s) PROVE \E g \in Histories : Inv(g)'
    BY <1>1, <2>2, PartialStep
  <2>3. ASSUME NEW s \in Servers, syncCommand(r, s) PROVE \E g \in Histories : Inv(g)'
    BY <1>1, <2>3, FullStep
  <2>4. CASE replicationResurrectCachedMaster(r)
    BY <1>1, <2>4, ResurrectStep
  <2>5. CASE readSyncBulkPayload(r)
    BY <1>1, <2>5, LoadStep
  <2>6. CASE replicationFeedStreamFromMasterStream(r)
    BY <1>1, <2>6, ApplyStep
  <2> QED BY <2>1, <2>2, <2>3, <2>4, <2>5, <2>6
<1>4. CASE Faults
  <2>1. PICK r \in Servers :
          \/ disconnect(r) \/ loadingFails(r)
          \/ \E s \in Servers : replicationSetMaster(r, s)
          \/ replicationUnsetMaster(r) \/ freeReplicationBacklog(r) \/ rdbSave(r)
          \/ \E m \in Servers \cup {NoServer} : restart(r, m)
    BY <1>4 DEF Faults
  <2>2. CASE disconnect(r)
    BY <1>1, <2>2, DisconnectStep
  <2>3. CASE loadingFails(r)
    BY <1>1, <2>3, LoadingFailsStep
  <2>4. ASSUME NEW s \in Servers, replicationSetMaster(r, s) PROVE \E g \in Histories : Inv(g)'
    BY <1>1, <2>4, SetMasterStep
  <2>5. CASE replicationUnsetMaster(r)
    BY <1>1, <2>5, UnsetMasterStep
  <2>6. CASE freeReplicationBacklog(r)
    BY <1>1, <2>6, FreeBacklogStep
  <2>7. CASE rdbSave(r)
    BY <1>1, <2>7, SaveStep
  <2>8. ASSUME NEW m \in Servers \cup {NoServer}, restart(r, m) PROVE \E g \in Histories : Inv(g)'
    BY <1>1, <2>8, RestartStep
  <2> QED BY <2>1, <2>2, <2>3, <2>4, <2>5, <2>6, <2>7, <2>8
<1>5. CASE \E s \in Servers : replicationFeedSlaves(s)
  BY <1>1, <1>5, WriteStep
<1>6. CASE UNCHANGED vars
  <2>1. srv' = srv /\ feed' = feed /\ pipe' = pipe /\ disk' = disk /\ writes' = writes /\ ids' = ids /\ events' = events
    BY <1>6 DEF vars
  <2>2. Types'
    BY <1>1, <2>1 DEF Inv, Types
  <2>3. ASSUME NEW s \in Servers PROVE One(h, s)'
    <3>1. One(h, s)
      BY <1>1 DEF Inv
    <3>2. Numbers(srv[s], pipe[s])' /\ Local(s, srv[s])' /\ HistOf(h, s, srv[s], disk[s])'
      BY <2>1, <3>1 DEF One, Numbers
    <3>3. FileOf(h, s, disk[s])'
      BY <2>1, <3>1 DEF One, FileOf
    <3>4. Feeds(h, s)'
      BY <2>1, <3>1 DEF One, Feeds
    <3> QED BY <3>2, <3>3, <3>4 DEF One
  <2> QED BY <1>1, <2>2, <2>3 DEF Inv
<1> QED
  BY <1>3, <1>4, <1>5, <1>6 DEF Next

LEMMA Invariance ==
  ASSUME PsyncAssumption
  PROVE  Spec => []IInv
<1>1. Init => IInv
  BY InitInv DEF IInv
<1>2. IInv /\ [Next]_vars => IInv'
  BY NextInv
<1> QED
  BY <1>1, <1>2, PTL DEF Spec

\* Types, and the numbers: an ID was handed out, an offset counts writes that
\* were made, a backlog keeps its size, and a pipe has at most one answer to
\* PSYNC, before the writes.
THEOREM PsyncTypeCorrect ==
  ASSUME PsyncAssumption
  PROVE  Spec => []TypeOK
<1>1. ASSUME IInv PROVE TypeOK
  <2>1. PICK h \in Histories : Inv(h)
    BY <1>1 DEF IInv
  <2>2. Types /\ \A s \in Servers : Numbers(srv[s], pipe[s])
    BY <2>1 DEF Inv, One
  <2> QED BY <2>2 DEF TypeOK, Types, Numbers, Shape
<1> QED
  BY <1>1, Invariance, PTL

\* What the pipe of a replica says about its master's data.
LEMMA Following ==
  ASSUME NEW h, Inv(h), NEW r \in Servers, feed[r] # NoServer
  PROVE  /\ Full(r) => Continues(pipe[r][1].data, Writes(pipe[r]), srv[feed[r]].data) /\ pipe[r][1].data \in Seq(Nat)
         /\ ~Full(r) => Continues(srv[r].data, Writes(pipe[r]), srv[feed[r]].data)
         /\ Writes(pipe[r]) \in Seq(Nat) /\ srv[feed[r]].data \in Seq(Nat) /\ srv[r].data \in Seq(Nat)
         /\ Full(r) => Head(pipe[r]) = pipe[r][1]
<1>1. srv[r] \in Server /\ One(h, r) /\ srv[feed[r]] \in Server
  BY FeedFacts
<1>2. PICK p : p = pipe[r]
  OBVIOUS
<1>3. Shape(p) /\ Stream(srv[r], srv[feed[r]], p) /\ srv[r].ls \in {"wait", "connected"}
  BY <1>1, <1>2 DEF One, Numbers, Feeds
<1>4. p # <<>> => Head(p) = p[1] /\ p[1] \in Msg
  BY <1>3, SeqTail DEF Shape
<1>5. p # <<>> => /\ p[1].t \in {"w", "continue", "full"}
                  /\ p[1].t = "full" => p[1].data \in Seq(Nat)
  BY <1>4, MsgKinds
<1>6. Writes(p) \in Seq(Nat)
  BY <1>3, WritesOnly, WritesAfter
<1>7. Full(r) <=> p # <<>> /\ p[1].t = "full"
  BY <1>2, <1>4 DEF Full
<1>8. CASE srv[r].ls = "connected"
  <2>1. ~Full(r) /\ Continues(srv[r].data, Writes(p), srv[feed[r]].data)
    BY <1>3, <1>7, <1>8 DEF Stream
  <2> QED BY <1>1, <1>2, <1>6, <2>1, ServerFields
<1>9. CASE srv[r].ls = "wait"
  <2>1. /\ p # <<>> /\ p[1].t \in {"continue", "full"}
        /\ p[1].t = "continue" => Continues(srv[r].data, Writes(p), srv[feed[r]].data)
        /\ p[1].t = "full" => Continues(p[1].data, Writes(p), srv[feed[r]].data)
    BY <1>3, <1>5, <1>9 DEF Stream
  <2> QED BY <1>1, <1>2, <1>4, <1>5, <1>6, <1>7, <2>1, ServerFields
<1> QED
  BY <1>3, <1>8, <1>9

\* A replica that reads all that was sent to it has the data of its master:
\* PSYNC never lets it continue a history that is not its own, whatever the
\* order of role changes, lost links, saves and restarts.
THEOREM PsyncNoDivergence ==
  ASSUME PsyncAssumption
  PROVE  Spec => []NoDivergence
<1>1. ASSUME IInv PROVE NoDivergence
  <2>1. PICK h \in Histories : Inv(h)
    BY <1>1 DEF IInv
  <2> SUFFICES ASSUME NEW r \in Servers, feed[r] # NoServer
               PROVE  (IF Full(r) THEN Head(pipe[r]).data ELSE srv[r].data) \o Writes(pipe[r]) = srv[feed[r]].data
    BY DEF NoDivergence
  <2>2. CASE Full(r)
    <3>1. /\ Continues(pipe[r][1].data, Writes(pipe[r]), srv[feed[r]].data) /\ pipe[r][1].data \in Seq(Nat)
          /\ Writes(pipe[r]) \in Seq(Nat) /\ srv[feed[r]].data \in Seq(Nat) /\ Head(pipe[r]) = pipe[r][1]
      BY <2>1, <2>2, Following
    <3>2. pipe[r][1].data \o Writes(pipe[r]) = srv[feed[r]].data
      BY <3>1, ContinuesConcat
    <3> QED BY <2>2, <3>1, <3>2
  <2>3. CASE ~Full(r)
    <3>1. srv[r].data \o Writes(pipe[r]) = srv[feed[r]].data
      BY <2>1, <2>3, Following, ContinuesConcat
    <3> QED BY <2>3, <3>1
  <2> QED BY <2>2, <2>3
<1> QED
  BY <1>1, Invariance, PTL

\* A connected replica has the ID of its master, its cached master says the
\* same, and its offset counts the same bytes down a chain of replicas.
THEOREM PsyncOffsetsAgree ==
  ASSUME PsyncAssumption
  PROVE  Spec => []OffsetsAgree
<1>1. ASSUME IInv PROVE OffsetsAgree
  <2>1. PICK h \in Histories : Inv(h)
    BY <1>1 DEF IInv
  <2> SUFFICES ASSUME NEW r \in Servers, feed[r] # NoServer, srv[r].ls = "connected"
               PROVE  /\ srv[r].cm = [id |-> srv[r].id, off |-> srv[r].off] /\ srv[r].id = srv[feed[r]].id
                      /\ srv[r].off + Len(Writes(pipe[r])) = srv[feed[r]].off
    BY DEF OffsetsAgree
  <2>2. One(h, r) /\ srv[r].m = feed[r]
    BY <2>1, FeedFacts
  <2>3. srv[r].cm = [id |-> srv[r].id, off |-> srv[r].off]
    BY <2>2 DEF One, Local, Valid
  <2>4. srv[r].id = srv[feed[r]].id /\ srv[r].off + Len(Writes(pipe[r])) = srv[feed[r]].off
    BY <2>2 DEF One, Feeds, Stream
  <2> QED BY <2>3, <2>4
<1> QED
  BY <1>1, Invariance, PTL

LEMMA PrefixOf ==
  ASSUME NEW a \in Seq(Nat), NEW b \in Seq(Nat), Len(a) <= Len(b), \A i \in 1..Len(a) : a[i] = b[i]
  PROVE  IsPrefix(a, b)
<1>1. PICK n \in Nat : n = Len(a)
  OBVIOUS
<1>2. PICK m \in Nat : m = Len(b)
  OBVIOUS
<1>3. n <= m /\ 1 \in Int /\ n \in Int /\ \A i \in 1..n : a[i] \in Nat /\ b[i] \in Nat
  <2>1. n <= m
    BY <1>1, <1>2
  <2>2. \A i \in 1..n : i \in 1..Len(a) /\ i \in 1..Len(b)
    BY <1>1, <1>2, <2>1
  <2> QED BY <2>1, <2>2, ElementOfSeq
<1>4. /\ SubSeq(a, 1, n) \in Seq(Nat) /\ Len(SubSeq(a, 1, n)) = IF 1 <= n THEN n - 1 + 1 ELSE 0
      /\ \A i \in 1..(n - 1 + 1) : SubSeq(a, 1, n)[i] = a[1 + i - 1]
  BY <1>3, SubSeqProperties
<1>5. /\ SubSeq(b, 1, n) \in Seq(Nat) /\ Len(SubSeq(b, 1, n)) = IF 1 <= n THEN n - 1 + 1 ELSE 0
      /\ \A i \in 1..(n - 1 + 1) : SubSeq(b, 1, n)[i] = b[1 + i - 1]
  BY <1>3, SubSeqProperties
<1>6. \A i \in 1..n : SubSeq(a, 1, n)[i] = SubSeq(b, 1, n)[i]
  <2> SUFFICES ASSUME NEW i \in 1..n PROVE SubSeq(a, 1, n)[i] = SubSeq(b, 1, n)[i]
    OBVIOUS
  <2>1. i \in 1..(n - 1 + 1) /\ 1 + i - 1 = i
    OBVIOUS
  <2>2. a[i] = b[i]
    BY <1>1
  <2> QED BY <1>4, <1>5, <2>1, <2>2
<1>7. Len(SubSeq(a, 1, n)) = n /\ Len(SubSeq(b, 1, n)) = n
  BY <1>4, <1>5
<1>8. SubSeq(a, 1, n) = SubSeq(b, 1, n)
  BY <1>4, <1>5, <1>6, <1>7, SeqEqual
<1> QED
  BY <1>1, <1>2, <1>3, <1>8 DEF IsPrefix

\* An ID is never used for two histories: of two servers that have it and a
\* backlog, one has the data of the other and perhaps more.
THEOREM PsyncOneHistoryPerId ==
  ASSUME PsyncAssumption
  PROVE  Spec => []OneHistoryPerId
<1>1. ASSUME IInv PROVE OneHistoryPerId
  <2>1. PICK h \in Histories : Inv(h)
    BY <1>1 DEF IInv
  <2> SUFFICES ASSUME NEW s \in Servers, NEW t \in Servers, srv[s].id = srv[t].id, srv[s].bl.on, srv[t].bl.on
               PROVE  IsPrefix(srv[s].data, srv[t].data) \/ IsPrefix(srv[t].data, srv[s].data)
    BY DEF OneHistoryPerId
  <2>2. /\ Fits(h, srv[s].id, srv[s].off, srv[s].data) /\ Fits(h, srv[t].id, srv[t].off, srv[t].data)
        /\ srv[s].data \in Seq(Nat) /\ srv[t].data \in Seq(Nat)
    <3>1. srv[s] \in Server /\ One(h, s) /\ srv[t] \in Server /\ One(h, t)
      BY <2>1, FeedFacts
    <3>2. Valid(srv[s]) /\ Valid(srv[t])
      BY <3>1 DEF One, Local
    <3> QED BY <3>1, <3>2, ServerFields DEF One, HistOf
  <2>3. PICK a \in Seq(Nat) : a = srv[s].data
    BY <2>2
  <2>4. PICK b \in Seq(Nat) : b = srv[t].data
    BY <2>2
  <2>5. (\A i \in 1..Len(a) : a[i] = h[srv[s].id].w[i]) /\ \A i \in 1..Len(b) : b[i] = h[srv[s].id].w[i]
    BY <2>2, <2>3, <2>4 DEF Fits
  <2>6. CASE Len(a) <= Len(b)
    <3>1. \A i \in 1..Len(a) : i \in 1..Len(b)
      BY <2>6
    <3>2. \A i \in 1..Len(a) : a[i] = b[i]
      BY <2>5, <3>1
    <3>3. IsPrefix(a, b)
      BY <2>6, <3>2, PrefixOf
    <3> QED BY <2>3, <2>4, <3>3
  <2>7. CASE Len(b) <= Len(a)
    <3>1. \A i \in 1..Len(b) : i \in 1..Len(a)
      BY <2>7
    <3>2. \A i \in 1..Len(b) : b[i] = a[i]
      BY <2>5, <3>1
    <3>3. IsPrefix(b, a)
      BY <2>7, <3>2, PrefixOf
    <3> QED BY <2>3, <2>4, <3>3
  <2>8. Len(a) <= Len(b) \/ Len(b) <= Len(a)
    OBVIOUS
  <2> QED BY <2>6, <2>7, <2>8
<1> QED
  BY <1>1, Invariance, PTL
=============================================================================
