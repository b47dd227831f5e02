--------------------------- MODULE RedisQuicklist ---------------------------
(***************************************************************************)
(* The list of Redis 7.0.0 (quicklist.c): a linked list of nodes, each a   *)
(* listpack of at most Fill elements or one large element on its own, of   *)
(* which all but the Compress outermost nodes of both ends are compressed. *)
(* A node is known by its position.  `list` is the plain sequence that the *)
(* commands of t_list.c are documented to work on.                         *)
(***************************************************************************)
EXTENDS Integers, Sequences, FiniteSets, SequencesExt

CONSTANTS Elems,
          Large,     \* elements that do not fit a listpack
          Rigid,     \* elements that do not compress
          Fill,      \* list-max-listpack-size
          Compress,  \* list-compress-depth
          MaxLen,    \* bound: elements of the list
          Ops,       \* the commands that clients send
          Indexes    \* the indexes they use

QuicklistAssumption ==
  /\ Large \cup Rigid \subseteq Elems
  /\ Fill \in Nat \ {0} /\ Compress \in Nat /\ MaxLen \in Nat /\ Indexes \subseteq Int

VARIABLES ql,    \* the quicklist: its nodes, its count, and whether an assertion failed
          list   \* the elements it should hold

vars == <<ql, list>>

quicklistCreate == [nodes |-> <<>>, count |-> 0, ok |-> TRUE]

Init == ql = quicklistCreate /\ list = <<>>

quicklistCreateNode(es) == [plain |-> FALSE, es |-> es, lzf |-> FALSE, re |-> FALSE]
CreatePlainNode(e) == [quicklistCreateNode(<<e>>) EXCEPT !.plain = TRUE]

assert(q, b) == [q EXCEPT !.ok = @ /\ b]
QLen(q) == Len(q.nodes)

-----------------------------------------------------------------------------
(* Compression.                                                            *)

\* Only interior nodes, and only when it pays.
quicklistCompressNode(q, i) ==
  IF i \notin 1..QLen(q) \/ q.nodes[i].lzf THEN q
  ELSE [assert(q, i # 1 /\ i # QLen(q)) EXCEPT
         !.nodes[i].re = FALSE,
         !.nodes[i].lzf = \E j \in 1..Len(q.nodes[i].es) : q.nodes[i].es[j] \notin Rigid]

quicklistDecompressNode(q, i) ==
  IF q.nodes[i].lzf THEN [q EXCEPT !.nodes[i].lzf = FALSE, !.nodes[i].re = FALSE] ELSE q

quicklistDecompressNodeForUse(q, i) ==
  IF q.nodes[i].lzf THEN [q EXCEPT !.nodes[i].lzf = FALSE, !.nodes[i].re = TRUE] ELSE q

Ends(n) == {d \in 1..n : d <= Compress \/ d > n - Compress}
EndsInUse(q) == assert(q, ~q.nodes[1].re /\ ~q.nodes[QLen(q)].re)
DecompressEnds(q) == FoldLeft(quicklistDecompressNode, q, SetToSeq(Ends(QLen(q))))

\* Node i, unless it is at an end, and the first nodes beyond the depth.
CompressBeyond(q, i) ==
  quicklistCompressNode(
    quicklistCompressNode(IF i \in Ends(QLen(q)) THEN q ELSE quicklistCompressNode(q, i), Compress + 1),
    QLen(q) - Compress)

\* Mutant: only the first node beyond the depth at the head is compressed.
CompressOneEnd(q, i) ==
  IF QLen(q) = 0 \/ Compress = 0 \/ QLen(q) < 2 * Compress THEN q
  ELSE IF QLen(q) = 2 * Compress THEN DecompressEnds(q)
  ELSE quicklistCompressNode(DecompressEnds(q), Compress + 1)

\* Decompress both ends to the depth; compress node i (0: none) when it is deeper, and the first nodes beyond.
CompressToDepth(q, i) ==
  IF QLen(q) = 0 THEN q
  ELSE IF Compress = 0 \/ QLen(q) < 2 * Compress THEN EndsInUse(q)
  ELSE IF QLen(q) = 2 * Compress THEN DecompressEnds(EndsInUse(q))
  ELSE CompressBeyond(DecompressEnds(EndsInUse(q)), i)

quicklistRecompressOnly(q, i) == IF q.nodes[i].re THEN quicklistCompressNode(q, i) ELSE q

quicklistCompress(q, i) == IF q.nodes[i].re THEN quicklistCompressNode(q, i) ELSE CompressToDepth(q, i)

-----------------------------------------------------------------------------
(* Nodes.                                                                  *)

\* Node `new` next to node `old` (0 in an empty list).
quicklistInsertNode(q, old, new, after) ==
  LET p  == IF old = 0 THEN 1 ELSE IF after THEN old + 1 ELSE old
      o  == IF after THEN old ELSE old + 1
      q1 == [q EXCEPT !.nodes = InsertAt(@, p, new)]
      q2 == IF old = 0 THEN q1 ELSE quicklistCompress(q1, o)
  IN quicklistCompress(q2, p)

InsertPlainNode(q, old, e, after) ==
  [quicklistInsertNode(q, old, CreatePlainNode(e), after) EXCEPT !.count = @ + 1]

\* Nodes that come within the depth are decompressed.
quicklistDelNode(q, i) ==
  CompressToDepth([q EXCEPT !.nodes = RemoveAt(@, i), !.count = @ - Len(q.nodes[i].es)], 0)

Node(q, i) == i \in 1..QLen(q)

quicklistNodeAllowInsert(q, i, e) ==
  Node(q, i) /\ ~q.nodes[i].plain /\ e \notin Large /\ Len(q.nodes[i].es) < Fill

quicklistNodeAllowMerge(q, i, j) ==
  /\ Node(q, i) /\ Node(q, j) /\ ~q.nodes[i].plain /\ ~q.nodes[j].plain
  /\ Len(q.nodes[i].es) + Len(q.nodes[j].es) <= Fill

MoveElements(q, i) ==
  [q EXCEPT !.nodes[i].es = @ \o q.nodes[i + 1].es, !.nodes[i + 1].es = <<>>]

\* Nodes i and i + 1 become one, at i.  Deleting the other, emptied, leaves the count alone.
quicklistListpackMerge(q, i) ==
  quicklistCompress(
    quicklistDelNode(MoveElements(quicklistDecompressNode(quicklistDecompressNode(q, i), i + 1), i), i + 1), i)

MergeIf(q, i) == IF quicklistNodeAllowMerge(q, i, i + 1) THEN quicklistListpackMerge(q, i) ELSE q

\* The list around its node `at`, which moves when a node before it goes.
Around(w, q) == [ql |-> q, at |-> w.at - (QLen(w.ql) - QLen(q))]
MergeBefore(w, d) == Around(w, MergeIf(w.ql, w.at - d))
MergeAfter(w) == [w EXCEPT !.ql = MergeIf(@, w.at + 1)]
MergeWithNext(w) == MergeIf(w.ql, w.at)

\* The two nodes before c, the two after it, then c with what is before and with what is after it.
quicklistMergeNodes(q, c) ==
  MergeWithNext(MergeBefore(MergeAfter(MergeBefore([ql |-> q, at |-> c], 2)), 1))

\* num elements from index on; a negative number is the largest there is.
lpDeleteRange(es, index, num) ==
  LET p == IF index < 0 THEN Len(es) + index + 1 ELSE index + 1
      n == IF num < 0 \/ num > Len(es) - p + 1 THEN Len(es) - p + 1 ELSE num
  IN IF p \notin 1..Len(es) THEN es ELSE SubSeq(es, 1, p - 1) \o SubSeq(es, p + n, Len(es))

\* What the node keeps and what the new node gets.
quicklistSplitNode(es, offset, after) ==
  IF after THEN <<lpDeleteRange(es, offset + 1, -1), lpDeleteRange(es, 0, offset + 1)>>
  ELSE <<lpDeleteRange(es, 0, offset), lpDeleteRange(es, offset, -1)>>

-----------------------------------------------------------------------------
(* Push and pop.                                                           *)

PushHead(q, e) ==
  IF e \in Large THEN InsertPlainNode(q, IF QLen(q) = 0 THEN 0 ELSE 1, e, FALSE)
  ELSE IF quicklistNodeAllowInsert(q, 1, e)
  THEN [q EXCEPT !.nodes[1].es = <<e>> \o @, !.count = @ + 1]
  ELSE [quicklistInsertNode(q, IF QLen(q) = 0 THEN 0 ELSE 1, quicklistCreateNode(<<e>>), FALSE) EXCEPT !.count = @ + 1]

PushTail(q, e) ==
  LET t == QLen(q)
  IN IF e \in Large THEN InsertPlainNode(q, t, e, TRUE)
     ELSE IF quicklistNodeAllowInsert(q, t, e)
     THEN [q EXCEPT !.nodes[t].es = Append(@, e), !.count = @ + 1]
     ELSE [quicklistInsertNode(q, t, quicklistCreateNode(<<e>>), TRUE) EXCEPT !.count = @ + 1]

quicklistPush(q, e, head) ==
  LET q1 == IF QLen(q) = 0 THEN q ELSE assert(q, ~q.nodes[1].lzf /\ ~q.nodes[QLen(q)].lzf)
  IN IF head THEN PushHead(q1, e) ELSE PushTail(q1, e)

\* Element p of node i, which is uncompressed; a node goes with its last element.
quicklistDelIndex(q, i, p) ==
  IF q.nodes[i].plain THEN quicklistDelNode(q, i)
  ELSE LET q1 == [assert(q, ~q.nodes[i].lzf) EXCEPT !.nodes[i].es = RemoveAt(@, p), !.count = @ - 1]
       IN IF q1.nodes[i].es = <<>> THEN quicklistDelNode(q1, i) ELSE q1

quicklistPop(q, head) ==
  LET i == IF head THEN 1 ELSE QLen(q)
      q1 == assert(q, ~q.nodes[i].lzf)
  IN IF q.count = 0 THEN q
     ELSE quicklistDelIndex(q1, i, IF head THEN 1 ELSE Len(q.nodes[i].es))

-----------------------------------------------------------------------------
(* Iterators: a node (0: none), an offset in it, which is negative when it *)
(* counts from the end, and the entry there (0: not looked up yet).        *)

NoIterator == [cur |-> 0, offset |-> 0, zi |-> 0, forward |-> TRUE]

lpSeek(es, offset) ==
  LET p == IF offset < 0 THEN Len(es) + offset + 1 ELSE offset + 1
  IN IF p \in 1..Len(es) THEN p ELSE 0

Before(q, i) == FoldLeft(LAMBDA n, nd : n + Len(nd.es), 0, SubSeq(q.nodes, 1, i - 1))

\* Element `at` of the list, in node n.
IteratorIn(q, forward, idx, at, n) ==
  [cur |-> n, zi |-> 0, forward |-> forward,
   offset |-> at - Before(q, n) - (IF idx < 0 THEN Len(q.nodes[n].es) ELSE 0)]

\* The node of the element with this index, from the end that the index is counted from.
quicklistGetIteratorAtIdx(q, forward, idx) ==
  LET index == IF idx < 0 THEN -idx - 1 ELSE idx
      at    == IF idx < 0 THEN q.count - 1 - index ELSE index
  IN IF index >= q.count THEN NoIterator
     ELSE IteratorIn(q, forward, idx, at, CHOOSE i \in 1..QLen(q) : at - Before(q, i) \in 0..(Len(q.nodes[i].es) - 1))

quicklistReleaseIterator(q, it) == IF it.cur = 0 THEN q ELSE quicklistCompress(q, it.cur)

\* The next entry of the node the iterator is at.
NextInNode(w) ==
  LET it == w.it
      es == w.ql.nodes[it.cur].es
      step == IF it.forward THEN 1 ELSE -1
  IN IF it.zi = 0
     THEN [ql |-> quicklistDecompressNodeForUse(w.ql, it.cur),
           it |-> [it EXCEPT !.zi = IF w.ql.nodes[it.cur].plain THEN 1 ELSE lpSeek(es, it.offset)]]
     ELSE IF w.ql.nodes[it.cur].plain THEN [w EXCEPT !.it.zi = 0]
     ELSE [w EXCEPT !.it.zi = IF it.zi + step \in 1..Len(es) THEN it.zi + step ELSE 0,
                    !.it.offset = it.offset + step]

NextInNodeIfAny(w) == IF w.it.cur = 0 THEN w ELSE NextInNode(w)

\* w has no entry left in its node: on to the next one.
NextNode(w) ==
  NextInNodeIfAny(
    [ql |-> quicklistCompress(w.ql, w.it.cur),
     it |-> [w.it EXCEPT !.cur = IF w.it.forward THEN (@ + 1) % (QLen(w.ql) + 1) ELSE @ - 1,
                         !.zi = 0, !.offset = IF w.it.forward THEN 0 ELSE -1]])

ElseNextNode(w) == IF w.it.zi # 0 THEN w ELSE NextNode(w)

\* The node is compressed again as the iterator leaves it.
quicklistNext(w) == IF w.it.cur = 0 THEN w ELSE ElseNextNode(NextInNode(w))

Found(w) == w.it.cur # 0
Value(w) == w.ql.nodes[w.it.cur].es[w.it.zi]

quicklistGetIteratorEntryAtIdx(q, idx) ==
  quicklistNext([ql |-> q, it |-> quicklistGetIteratorAtIdx(q, FALSE, idx)])

\* Mutant: the iterator stays at the node that was deleted.
DelEntryStays(w, q) ==
  [ql |-> q, it |-> [w.it EXCEPT !.zi = 0, !.cur = IF @ > QLen(q) THEN 0 ELSE @]]

\* After the node is gone the iterator is at the next one in its direction.
EntryDeleted(w, q) ==
  [ql |-> q,
   it |-> IF QLen(q) = QLen(w.ql) THEN [w.it EXCEPT !.zi = 0]
          ELSE IF w.it.forward THEN [w.it EXCEPT !.zi = 0, !.cur = IF @ > QLen(q) THEN 0 ELSE @, !.offset = 0]
          ELSE [w.it EXCEPT !.zi = 0, !.cur = @ - 1, !.offset = -1]]

quicklistDelEntry(w) == EntryDeleted(w, quicklistDelIndex(w.ql, w.it.cur, w.it.zi))

resetIterator(w) == [w EXCEPT !.it.cur = 0, !.it.zi = 0]

-----------------------------------------------------------------------------
(* Insert next to the entry of an iterator.                                *)

\* The large element between the two parts of the node.
SplitLarge(w, e, after, s) ==
  LET c == w.it.cur
  IN [ql |-> [quicklistInsertNode(
                quicklistInsertNode([w.ql EXCEPT !.nodes[c].es = s[1]], c, CreatePlainNode(e), after),
                IF after THEN c + 1 ELSE c, quicklistCreateNode(s[2]), after) EXCEPT !.count = @ + 1],
      it |-> [w.it EXCEPT !.cur = IF after THEN @ ELSE @ + 2]]

InsertLarge(w, e, after, atend) ==
  IF w.ql.nodes[w.it.cur].plain \/ atend
  THEN [ql |-> InsertPlainNode(w.ql, w.it.cur, e, after), it |-> [w.it EXCEPT !.cur = IF after THEN @ ELSE @ + 1]]
  ELSE SplitLarge([w EXCEPT !.ql = quicklistDecompressNodeForUse(@, w.it.cur)], e, after,
                  quicklistSplitNode(w.ql.nodes[w.it.cur].es, w.it.offset, after))

CountOne(q) == [q EXCEPT !.count = @ + 1]

\* The element in a new node with one of the two parts of node c.
InsertSplit(q, c, e, after, s) ==
  quicklistMergeNodes(
    quicklistInsertNode([q EXCEPT !.nodes[c].es = s[1]], c,
                        quicklistCreateNode(IF after THEN <<e>> \o s[2] ELSE Append(s[2], e)), after),
    IF after THEN c ELSE c + 1)

\* A place in the node, or in the neighbour, or in a new node, or by splitting the node.
quicklistInsert(w, e, after) ==
  LET c  == w.it.cur
      n  == Len(w.ql.nodes[c].es)
      nb == IF after THEN c + 1 ELSE c - 1
      atend == w.it.offset \in (IF after THEN {n - 1, -1} ELSE {0, -n})
  IN IF e \in Large THEN InsertLarge(w, e, after, atend)
     ELSE resetIterator([w EXCEPT !.ql = CountOne(
            IF quicklistNodeAllowInsert(w.ql, c, e)
            THEN quicklistRecompressOnly(
                   [quicklistDecompressNodeForUse(w.ql, c) EXCEPT
                      !.nodes[c].es = InsertAt(@, IF after THEN w.it.zi + 1 ELSE w.it.zi, e)], c)
            ELSE IF atend /\ quicklistNodeAllowInsert(w.ql, nb, e)
            THEN quicklistRecompressOnly(quicklistRecompressOnly(
                   [quicklistDecompressNodeForUse(w.ql, nb) EXCEPT
                      !.nodes[nb].es = IF after THEN <<e>> \o @ ELSE Append(@, e)], nb), c)
            ELSE IF atend
            THEN quicklistInsertNode(w.ql, c, quicklistCreateNode(<<e>>), after)
            ELSE InsertSplit(quicklistDecompressNodeForUse(w.ql, c), c, e, after,
                             quicklistSplitNode(w.ql.nodes[c].es, w.it.offset, after)))])

DeleteReplaced(q, c, plain) ==
  IF plain \/ Len(q.nodes[c].es) = 1 THEN quicklistDelNode(q, c)
  ELSE quicklistCompress(quicklistDelIndex(q, c, Len(q.nodes[c].es)), c + 1)

\* In place when old and new are of one kind; otherwise a new entry after the old one, which is deleted.
quicklistReplaceEntry(w, e) ==
  LET c == w.it.cur
  IN IF w.ql.nodes[c].plain <=> e \in Large
     THEN quicklistCompress([w.ql EXCEPT !.nodes[c].es[w.it.zi] = e], c)
     ELSE DeleteReplaced(quicklistInsert(w, e, TRUE).ql, c, w.ql.nodes[c].plain)

-----------------------------------------------------------------------------
(* Ranges and copies.                                                      *)

DelNodeIfEmpty(q, i) == IF q.nodes[i].es = <<>> THEN quicklistDelNode(q, i) ELSE quicklistRecompressOnly(q, i)

RangeDeleted(r, del, q) ==
  [ql |-> q, extent |-> r.extent - del, offset |-> 0, node |-> r.node + 1 - (QLen(r.ql) - QLen(q))]

\* One node of a range that is deleted: del elements from offset on.
DelRangeStep(r) ==
  LET cnt == Len(r.ql.nodes[r.node].es)
      del == IF r.offset >= 0 /\ r.extent + r.offset >= cnt THEN cnt - r.offset
             ELSE IF r.offset < 0 /\ -r.offset <= r.extent THEN -r.offset
             ELSE r.extent
  IN IF r.extent = 0 THEN r
     ELSE RangeDeleted(r, del,
            IF r.ql.nodes[r.node].plain \/ (r.offset = 0 /\ r.extent >= cnt)
            THEN quicklistDelNode(r.ql, r.node)
            ELSE DelNodeIfEmpty([quicklistDecompressNodeForUse(r.ql, r.node) EXCEPT
                   !.nodes[r.node].es = lpDeleteRange(@, r.offset, del), !.count = @ - del], r.node))

DelRangeFrom(q, it, extent) ==
  IF extent <= 0 \/ it.cur = 0 THEN q
  ELSE FoldLeft(LAMBDA s, nd : DelRangeStep(s),
                [ql |-> quicklistReleaseIterator(q, it), node |-> it.cur, offset |-> it.offset, extent |-> extent],
                q.nodes).ql

quicklistDelRange(q, start, count) ==
  DelRangeFrom(q, quicklistGetIteratorAtIdx(q, FALSE, start),
    IF start >= 0 THEN (IF count > q.count - start THEN q.count - start ELSE count)
    ELSE IF count > -start THEN -start ELSE count)

\* COPY: node after node, compressed ones as they are.
quicklistDup(q) ==
  FoldLeft(LAMBDA c, nd : [quicklistInsertNode(c, QLen(c), [nd EXCEPT !.re = FALSE], TRUE) EXCEPT !.count = @ + Len(nd.es)],
           [quicklistCreate EXCEPT !.ok = q.ok], q.nodes)

\* A dump restored: the nodes one by one, uncompressed.
quicklistAppend(q) ==
  FoldLeft(LAMBDA c, nd : [quicklistInsertNode(c, QLen(c), [nd EXCEPT !.re = FALSE, !.lzf = FALSE], TRUE) EXCEPT
                             !.count = @ + Len(nd.es)],
           [quicklistCreate EXCEPT !.ok = q.ok], q.nodes)

-----------------------------------------------------------------------------
(* The commands of t_list.c, with the list they should leave.              *)

Do(q, l) == ql' = q /\ list' = l

Pos(i) == IF i < 0 THEN Len(list) + i + 1 ELSE i + 1

push(e, head) ==
  /\ "push" \in Ops /\ Len(list) < MaxLen
  /\ Do(quicklistPush(ql, e, head), IF head THEN <<e>> \o list ELSE Append(list, e))

pop(head) ==
  /\ "pop" \in Ops /\ list # <<>>
  /\ Do(quicklistPop(ql, head), IF head THEN Tail(list) ELSE Front(list))

\* The iterator runs from the head to the first element that is the pivot.
FindPivot(x) ==
  FoldLeft(LAMBDA w, i : IF Found(w) /\ w.it.zi # 0 /\ Value(w) = x THEN w ELSE quicklistNext(w),
           [ql |-> ql, it |-> quicklistGetIteratorAtIdx(ql, TRUE, 0)], [i \in 1..ql.count + 1 |-> i])

Occurrences(l, x) == {i \in 1..Len(l) : l[i] = x}

linsertCommand(x, e, after) ==
  /\ "insert" \in Ops /\ list # <<>> /\ Len(list) < MaxLen
  /\ \E w \in {FindPivot(x)} :
       \/ /\ Contains(list, x)
          /\ \E v \in {quicklistInsert(w, e, after)}, i \in {Min(Occurrences(list, x))} :
               Do(quicklistReleaseIterator(v.ql, v.it), InsertAt(list, IF after THEN i + 1 ELSE i, e))
       \/ /\ ~Contains(list, x)
          /\ Do(quicklistReleaseIterator(w.ql, w.it), list)

lsetCommand(i, e) ==
  /\ (IF e \in Large THEN "setlarge" ELSE "set") \in Ops /\ Pos(i) \in 1..Len(list)
  /\ Do(quicklistReplaceEntry(quicklistGetIteratorEntryAtIdx(ql, i), e), [list EXCEPT ![Pos(i)] = e])

\* start and end as ltrimCommand clips them.
ltrimCommand(start, end) ==
  LET n == Len(list)
      s == IF start < 0 THEN (IF n + start < 0 THEN 0 ELSE n + start) ELSE start
      e0 == IF end < 0 THEN n + end ELSE end
      e == IF e0 >= n THEN n - 1 ELSE e0
      none == s > e0 \/ s >= n
      ltrim == IF none THEN n ELSE s
      rtrim == IF none THEN 0 ELSE n - e - 1
      q == quicklistDelRange(quicklistDelRange(ql, 0, ltrim), -rtrim, rtrim)
  IN "trim" \in Ops /\ list # <<>> /\ Do(q, SubSeq(list, ltrim + 1, n - rtrim))

RemoveIf(x, c, w) ==
  IF ~Found(w) THEN [c EXCEPT !.w = w, !.done = TRUE]
  ELSE IF Value(w) # x THEN [c EXCEPT !.w = w]
  ELSE [w |-> quicklistDelEntry(w), left |-> c.left - 1, done |-> c.left = 1]

\* The elements removed from the head on, or from the tail when the number is negative.
lremStep(x, c) == IF c.done THEN c ELSE RemoveIf(x, c, quicklistNext(c.w))

RemoveRef(l, x, n) ==
  LET gone == {i \in Occurrences(l, x) :
                 n = 0 \/ Cardinality({j \in Occurrences(l, x) : IF n > 0 THEN j < i ELSE j > i}) < (IF n > 0 THEN n ELSE -n)}
  IN [i \in 1..(Len(l) - Cardinality(gone)) |->
        l[CHOOSE j \in 1..Len(l) \ gone : Cardinality({k \in 1..(j - 1) : k \notin gone}) = i - 1]]

lremCommand(x, n) ==
  /\ "rem" \in Ops /\ list # <<>>
  /\ \E it \in {IF n < 0 THEN quicklistGetIteratorAtIdx(ql, FALSE, -1) ELSE quicklistGetIteratorAtIdx(ql, TRUE, 0)} :
     \E c \in {FoldLeft(LAMBDA s, i : lremStep(x, s),
                        [w |-> [ql |-> ql, it |-> it], left |-> IF n < 0 THEN -n ELSE n, done |-> FALSE],
                        [i \in 1..ql.count + 1 |-> i])} :
       Do(quicklistReleaseIterator(c.w.ql, c.w.it), RemoveRef(list, x, n))

\* n elements from an index on, in one direction.
Reads(r, w) == [w |-> w, es |-> IF Found(w) THEN Append(r.es, Value(w)) ELSE r.es]

Read(q, from, forward, n) ==
  FoldLeft(LAMBDA r, i : Reads(r, quicklistNext(r.w)),
           [w |-> [ql |-> q, it |-> quicklistGetIteratorAtIdx(q, forward, from)], es |-> <<>>], [i \in 1..n |-> i])

\* LRANGE, LINDEX and LPOS: the nodes on the way are decompressed and compressed again.
addListRangeReply(from, forward, n) ==
  /\ "read" \in Ops
  /\ \E r \in {Read(ql, from, forward, n)} : Do(quicklistReleaseIterator(r.w.ql, r.w.it), list)

listTypeDup == "copy" \in Ops /\ list # <<>> /\ Do(quicklistDup(ql), list)
rdbLoadObject == "load" \in Ops /\ list # <<>> /\ Do(quicklistAppend(ql), list)

Next ==
  \/ \E e \in Elems, head \in BOOLEAN : push(e, head)
  \/ \E head \in BOOLEAN : pop(head)
  \/ \E x, e \in Elems, after \in BOOLEAN : linsertCommand(x, e, after)
  \/ \E i \in Indexes, e \in Elems : lsetCommand(i, e)
  \/ \E i, j \in Indexes : ltrimCommand(i, j)
  \/ \E x \in Elems, n \in Indexes : lremCommand(x, n)
  \/ \E i \in 0..(Len(list) - 1), n \in 1..Len(list), forward \in BOOLEAN :
       n <= (IF forward THEN Len(list) - i ELSE i + 1) /\ addListRangeReply(i, forward, n)
  \/ listTypeDup
  \/ rdbLoadObject

Spec == Init /\ [][Next]_vars

-----------------------------------------------------------------------------
(* Properties.                                                             *)

Elements(q) == FlattenSeq([i \in 1..QLen(q) |-> q.nodes[i].es])

\* Nodes are never empty and hold at most Fill elements, a large element is always alone in a plain node,
\* and the count that LLEN answers is the number of elements (__quicklistDelNode, quicklistDelIndex and the merges).
TypeOK ==
  /\ \A i \in 1..QLen(ql) :
       LET nd == ql.nodes[i]
       IN /\ nd.es # <<>> /\ Len(nd.es) <= Fill
          /\ nd.plain => Len(nd.es) = 1 /\ nd.es[1] \in Large
          /\ \A j \in 1..Len(nd.es) : ~nd.plain => nd.es[j] \in Elems \ Large
  /\ ql.count = FoldLeft(LAMBDA n, nd : n + Len(nd.es), 0, ql.nodes)

\* However the nodes are split, merged, compressed and deleted, the list holds what the commands say it does.
SameElements == Elements(ql) = list

\* No assertion fails: head and tail are never compressed, nor waiting to be compressed again
\* (quicklistPopCustom, quicklistPush, __quicklistCompress, __quicklistCompressNode), and elements are deleted
\* from uncompressed nodes only (quicklistDelIndex).  After a command no node is left decompressed for use.
AssertionsHold ==
  /\ ql.ok /\ \A i \in 1..QLen(ql) : ~ql.nodes[i].re
  /\ (QLen(ql) > 0 => ~ql.nodes[1].lzf /\ ~ql.nodes[QLen(ql)].lzf)

\* Where every node compresses, between commands those beyond the depth are compressed, and only those
\* (what __quicklistCompress and the recompress flag are for).
CompressedBeyondDepth ==
  \A i \in 1..QLen(ql) :
    LET ends == Compress = 0 \/ i <= Compress \/ i > QLen(ql) - Compress
    IN ql.nodes[i].lzf <=> ~ends

\* From every index and in both directions an iterator answers the elements in their order (quicklistNext,
\* quicklistGetIteratorAtIdx with the index counted from the head and from the tail).
ReadsInOrder ==
  \A i \in 1..Len(list), neg \in BOOLEAN :
    LET idx == IF neg THEN i - 1 - Len(list) ELSE i - 1
    IN /\ Read(ql, idx, TRUE, Len(list) - i + 1).es = SubSeq(list, i, Len(list))
       /\ Read(ql, idx, FALSE, i).es = Reverse(SubSeq(list, 1, i))
=============================================================================
