---------------------------- MODULE RedisListpack ---------------------------
(***************************************************************************)
(* listpack.c: a list in one block of memory.  Every element ends with its *)
(* own length, written so that it can be read backwards; inserting and     *)
(* deleting never changes another element.                                 *)
(*                                                                         *)
(* lp is the block, ref the list it stands for.  A value is a number whose *)
(* encoded size is Size[v].  The block may be larger than the list.        *)
(***************************************************************************)
EXTENDS PackedMemory, SequencesExt

CONSTANTS Size,          \* bytes of the encoded value, for every value
          MaxShort,      \* 127: lengths up to here are written in one byte
          Unknown,       \* LP_HDR_NUMELE_UNKNOWN
          Capacities,    \* bytes asked for when a list is created
          MaxElements    \* bound on the elements of the list

VARIABLES lp, ref

vars == <<lp, ref>>

Values == DOMAIN Size
LP_HDR_SIZE == 6         \* bytes and number of elements, whose values are fields of lp
NULL == -1

-----------------------------------------------------------------------------
(* Fields of an element *)

lpEncodeBacklen(n) == IF n <= MaxShort THEN 1 ELSE 2

\* The length that ends at p, or NULL when none does.
lpDecodeBacklen(l, p) ==
    LET c == At(l, p)
        n == lpEncodeBacklen(c[2])
    IN  IF c[1] = "back" /\ c[3] = n - 1 /\ Holds(l, p - n + 1, "back", c[2], n) THEN c[2] ELSE NULL

AtEnd(l, p) == At(l, p) = End

\* Bytes of the encoded element at p, 0 when there is none.
lpCurrentEncodedSize(l, p) ==
    LET c == At(l, p) IN IF c = End THEN 1 ELSE IF c[1] = "data" /\ c[3] = 0 THEN Size[c[2]] ELSE 0

Whole(n) == n + lpEncodeBacklen(n)

lpSkip(l, p) == p + Whole(lpCurrentEncodedSize(l, p))

lpValidEntry(l, p) ==
    LET n == lpCurrentEncodedSize(l, p)
    IN  /\ p \in LP_HDR_SIZE..(l.bytes - 1)
        /\ ~AtEnd(l, p) => /\ n > 0
                           /\ p + Whole(n) <= l.bytes - 1
                           /\ lpDecodeBacklen(l, p + Whole(n) - 1) = n

lpFirst(l) == IF AtEnd(l, LP_HDR_SIZE) THEN NULL ELSE LP_HDR_SIZE

lpNext(l, p) == IF AtEnd(l, lpSkip(l, p)) \/ ~lpValidEntry(l, lpSkip(l, p)) THEN NULL ELSE lpSkip(l, p)

lpPrev(l, p) ==
    LET n == lpDecodeBacklen(l, p - 1)
    IN  IF p = LP_HDR_SIZE \/ n = NULL \/ ~lpValidEntry(l, p - Whole(n)) THEN NULL ELSE p - Whole(n)

lpLast(l) == lpPrev(l, l.bytes - 1)

lpGet(l, p) ==
    LET v == At(l, p)[2] IN IF At(l, p)[1] = "data" /\ Holds(l, p, "data", v, Size[v]) THEN v ELSE 0

lpNew(capacity) ==
    LET n == IF capacity > LP_HDR_SIZE + 1 THEN capacity ELSE LP_HDR_SIZE + 1
    IN  [m |-> Field("header", 0, LP_HDR_SIZE) \o <<End>> \o [i \in 1..(n - LP_HDR_SIZE - 1) |-> Junk],
         bytes |-> LP_HDR_SIZE + 1, num |-> 0, ok |-> TRUE]

lpShrinkToFit(l) == IF l.bytes < Len(l.m) THEN zrealloc(l, l.bytes) ELSE l

RECURSIVE CountFrom(_, _)
CountFrom(l, p) == IF p = NULL THEN 0 ELSE 1 + CountFrom(l, lpNext(l, p))

\* The number of elements, and the list with the number stored when it can be.
lpLength(l) ==
    LET n == CountFrom(l, lpFirst(l))
    IN  IF l.num # Unknown THEN [n |-> l.num, l |-> l]
        ELSE [n |-> n, l |-> IF n < Unknown THEN [l EXCEPT !.num = n] ELSE l]

-----------------------------------------------------------------------------
(* Changing the list *)

\* v = 0 deletes the element at p.  where is "before" or "replace".
lpInsertAt(l, v, p, where) ==
    LET enclen   == IF v = 0 THEN 0 ELSE Size[v]
        backlen  == IF v = 0 THEN 0 ELSE lpEncodeBacklen(enclen)
        replaced == IF where = "replace" THEN Whole(lpCurrentEncodedSize(l, p)) ELSE 0
        bytes    == l.bytes + enclen + backlen - replaced
        grown    == IF bytes > l.bytes /\ bytes > Len(l.m) THEN zrealloc(l, bytes) ELSE l
        moved    == memmove(grown, p + enclen + backlen, p + replaced, l.bytes - p - replaced)
        sized    == IF bytes < l.bytes THEN zrealloc(moved, bytes) ELSE moved
        written  == memcpy(sized, p, Field("data", v, enclen) \o Field("back", enclen, backlen))
        change   == IF v = 0 THEN -1 ELSE IF where = "before" THEN 1 ELSE 0
    IN  [written EXCEPT !.bytes = bytes, !.num = IF @ = Unknown THEN @ ELSE @ + change]

lpInsert(l, v, p, where) ==
    IF where = "after" THEN lpInsertAt(Assert2(l, lpValidEntry(l, lpSkip(l, p))), v, lpSkip(l, p), "before")
    ELSE lpInsertAt(l, v, p, where)

lpAppend(l, v) == lpInsert(l, v, l.bytes - 1, "before")
lpPrepend(l, v) == IF lpFirst(l) = NULL THEN lpAppend(l, v) ELSE lpInsert(l, v, lpFirst(l), "before")
lpReplace(l, p, v) == lpInsert(l, v, p, "replace")
lpDelete(l, p) == lpInsert(l, 0, p, "replace")

\* The place behind num elements or the end, and how many were passed.
RECURSIVE SkipMany(_, _, _, _)
SkipMany(l, p, num, deleted) ==
    IF num = 0 \/ AtEnd(l, p) THEN [p |-> p, deleted |-> deleted] ELSE SkipMany(l, lpSkip(l, p), num - 1, deleted + 1)

lpDeleteRangeWithEntry(l, p, num) ==
    LET w     == SkipMany(l, p, num, 0)
        moved == memmove(l, p, w.p, l.bytes - w.p)
    IN  IF num = 0 THEN l
        ELSE lpShrinkToFit([moved EXCEPT !.bytes = @ - (w.p - p), !.num = IF @ = Unknown THEN @ ELSE @ - w.deleted])

RECURSIVE Steps(_, _, _, _)
Steps(l, p, n, back) ==
    IF n = 0 \/ p = NULL THEN p ELSE Steps(l, IF back THEN lpPrev(l, p) ELSE lpNext(l, p), n - 1, back)

\* From the nearer end when the number of elements is known.
lpSeek(l, index) ==
    LET i == IF l.num # Unknown /\ index < 0 THEN l.num + index ELSE index
    IN  IF l.num # Unknown /\ i \notin 0..(l.num - 1) THEN NULL
        ELSE IF l.num # Unknown /\ i > l.num \div 2 THEN Steps(l, lpLast(l), (l.num - i) - 1, TRUE)
        ELSE IF i >= 0 THEN Steps(l, lpFirst(l), i, FALSE)
        ELSE Steps(l, lpLast(l), (-i) - 1, TRUE)

lpDeleteRange(l, index, num) ==
    LET p == lpSeek(l, index)
        i == IF index < 0 THEN l.num + index ELSE index
    IN  IF num = 0 \/ p = NULL THEN l
        ELSE IF l.num # Unknown /\ l.num - i <= num
             THEN lpShrinkToFit([memcpy(l, p, <<End>>) EXCEPT !.bytes = p + 1, !.num = i])
             ELSE lpDeleteRangeWithEntry(l, p, num)

\* The larger block takes both lists: its own elements first, or moved back to make
\* room for those of the other.
lpMerge(first, second) ==
    LET bytes    == first.bytes + second.bytes - LP_HDR_SIZE - 1
        len      == lpLength(first).n + lpLength(second).n
        appended == memcpy(zrealloc(first, bytes), first.bytes - 1,
                           SubSeq(second.m, LP_HDR_SIZE + 1, second.bytes))
        opened   == memmove(zrealloc(second, bytes), first.bytes - 1, LP_HDR_SIZE, second.bytes - LP_HDR_SIZE)
        put      == memcpy(opened, 0, SubSeq(first.m, 1, first.bytes - 1))
    IN  [(IF first.bytes >= second.bytes THEN appended ELSE put) EXCEPT
            !.bytes = bytes, !.num = IF len < Unknown THEN len ELSE Unknown]

-----------------------------------------------------------------------------
(* Looking things up *)

RECURSIVE FindFrom(_, _, _, _, _)
FindFrom(l, p, v, skip, skipcnt) ==
    IF AtEnd(l, p) \/ ~lpValidEntry(l, p) THEN NULL
    ELSE IF skipcnt = 0 /\ lpGet(l, p) = v THEN p
    ELSE FindFrom(l, lpSkip(l, p), v, skip, IF skipcnt = 0 THEN skip ELSE skipcnt - 1)

lpFind(l, p, v, skip) == FindFrom(l, p, v, skip, 0)

\* The pairs lpRandomPairs picks: the draws are sorted, the list is walked once, and what
\* is found goes to the place of its draw.
RECURSIVE WalkPicks(_, _, _, _, _)
WalkPicks(l, p, lpindex, picks, keys) ==
    IF p = NULL \/ picks = <<>> THEN keys
    ELSE IF Head(picks).index = lpindex
         THEN WalkPicks(l, p, lpindex, Tail(picks), [keys EXCEPT ![Head(picks).order] = lpGet(l, p)])
         ELSE LET value == lpNext(l, p)
              IN  WalkPicks(l, IF value = NULL THEN NULL ELSE lpNext(l, value), lpindex + 2, picks, keys)

lpRandomPairs(l, draws) ==
    LET sorted == SortSeq([i \in DOMAIN draws |-> [index |-> 2 * draws[i], order |-> i]], LAMBDA a, b : a.index < b.index)
    IN  WalkPicks(l, lpSeek(l, sorted[1].index), sorted[1].index, sorted, [i \in DOMAIN draws |-> 0])

\* What lpRandomPairsUnique may pick: each pair is taken with probability
\* remaining / (pairs not yet visited), which is 1 when all of them are needed.
RECURSIVE PickUnique(_, _, _, _, _)
PickUnique(l, p, left, remaining, picked) ==
    LET next == IF lpNext(l, p) = NULL THEN NULL ELSE lpNext(l, lpNext(l, p))
    IN  IF remaining = 0 \/ p = NULL THEN {picked}
        ELSE PickUnique(l, next, left - 1, remaining - 1, Append(picked, p))
             \cup IF remaining >= left THEN {} ELSE PickUnique(l, next, left - 1, remaining, picked)

lpRandomPairsUnique(l, count) ==
    LET total == lpLength(l).n \div 2
    IN  PickUnique(l, lpFirst(l), total, IF count > total THEN total ELSE count, <<>>)

RECURSIVE ValidFrom(_, _, _)
ValidFrom(l, p, count) ==
    IF AtEnd(l, p) THEN p = l.bytes - 1 /\ l.num \in {Unknown, count}
    ELSE lpValidEntry(l, p) /\ ValidFrom(l, lpSkip(l, p), count + 1)

lpValidateIntegrity(l) == AtEnd(l, l.bytes - 1) /\ ValidFrom(l, LP_HDR_SIZE, 0)

-----------------------------------------------------------------------------
(* The operations, at every element of the list *)

Init == lp \in {lpNew(c) : c \in Capacities} /\ ref = <<>>

\* Where element i stands, 1 for the first.
ElementAt(i) == Steps(lp, lpFirst(lp), i - 1, FALSE)

Room == Len(ref) < MaxElements

Push == \E v \in Values, head \in BOOLEAN :
    /\ Room
    /\ lp' = IF head THEN lpPrepend(lp, v) ELSE lpAppend(lp, v)
    /\ ref' = IF head THEN <<v>> \o ref ELSE Append(ref, v)

Insert == \E i \in DOMAIN ref, v \in Values, where \in {"before", "after"} :
    /\ Room
    /\ lp' = lpInsert(lp, v, ElementAt(i), where)
    /\ ref' = InsertAt(ref, IF where = "before" THEN i ELSE i + 1, v)

Replace == \E i \in DOMAIN ref, v \in Values :
    /\ lp' = lpReplace(lp, ElementAt(i), v)
    /\ ref' = ReplaceAt(ref, i, v)

Delete == \E i \in DOMAIN ref :
    /\ lp' = lpDelete(lp, ElementAt(i))
    /\ ref' = RemoveAt(ref, i)

\* The list without num elements from the i-th on.
Without(i, num) == SubSeq(ref, 1, i - 1) \o SubSeq(ref, i + num, Len(ref))

DeleteRange == \E i \in -MaxElements..MaxElements, num \in 0..MaxElements :
    LET j == IF i < 0 THEN Len(ref) + i + 1 ELSE i + 1
    IN  /\ lp' = lpDeleteRange(lp, i, num)
        /\ ref' = IF j \in DOMAIN ref THEN Without(j, num) ELSE ref

DeleteRangeWithEntry == \E i \in DOMAIN ref, num \in 0..MaxElements :
    /\ lp' = lpDeleteRangeWithEntry(lp, ElementAt(i), num)
    /\ ref' = Without(i, num)

Count == lp' = lpLength(lp).l /\ UNCHANGED ref

Merge == \E s \in UNION {[1..n -> Values] : n \in 0..2}, front \in BOOLEAN :
    LET other == FoldLeft(lpAppend, lpNew(0), s)
    IN  /\ Len(ref) + Len(s) <= MaxElements
        /\ lp' = IF front THEN lpMerge(other, lp) ELSE lpMerge(lp, other)
        /\ ref' = IF front THEN s \o ref ELSE ref \o s

Next == Push \/ Insert \/ Replace \/ Delete \/ DeleteRange \/ DeleteRangeWithEntry \/ Count \/ Merge

Spec == Init /\ [][Next]_vars

-----------------------------------------------------------------------------
(* Properties *)

RECURSIVE From(_, _)
From(l, p) == IF p = NULL THEN <<>> ELSE <<lpGet(l, p)>> \o From(l, lpNext(l, p))

RECURSIVE Until(_, _)
Until(l, p) == IF p = NULL THEN <<>> ELSE Append(Until(l, lpPrev(l, p)), lpGet(l, p))

\* Whatever was inserted, replaced, deleted or merged, in a block that is grown before
\* or cut after the bytes are moved, the bytes hold the values of the list, in order,
\* read from either end, and no byte outside the block was touched.
ContentsAgree == lp.ok /\ From(lp, lpFirst(lp)) = ref /\ Until(lp, lpLast(lp)) = ref

\* Every list the operations leave satisfies lpValidateIntegrity: lengths, end marker,
\* and the number of elements unless it is unknown.
Integrity == lpValidateIntegrity(lp) /\ lp.bytes <= Len(lp.m) /\ Holds(lp, 0, "header", 0, LP_HDR_SIZE)

\* lpSeek, which chooses the nearer end when it knows the number of elements, finds the
\* element of every index from both ends, and NULL out of range.
SeekFinds ==
    \A i \in -(MaxElements + 1)..MaxElements :
        LET j == IF i < 0 THEN Len(ref) + i + 1 ELSE i + 1
            p == lpSeek(lp, i)
        IN  IF j \in DOMAIN ref THEN p = ElementAt(j) ELSE p = NULL

\* The number of elements is right also when the list was too long for the header and
\* is short again.
LengthRight == lpLength(lp).n = Len(ref)

\* lpFind with skip 1 finds the first field that is equal, never a value; lpRandomPairs
\* returns in the order of the draws; lpRandomPairsUnique returns as many different
\* pairs as asked for, and can return every choice of them.
LooksUp ==
    /\ ref # <<>> => \A v \in Values :
          LET hits == {i \in DOMAIN ref : i % 2 = 1 /\ ref[i] = v}
          IN  lpFind(lp, lpFirst(lp), v, 1) =
                  IF hits = {} THEN NULL ELSE ElementAt(CHOOSE i \in hits : \A j \in hits : i <= j)
    /\ ref # <<>> /\ Len(ref) % 2 = 0 =>
          /\ \A draws \in [1..3 -> 0..(Len(ref) \div 2 - 1)] :
                lpRandomPairs(lp, draws) = [i \in 1..3 |-> ref[2 * draws[i] + 1]]
          /\ \A count \in 1..3 :
                {ToSet(s) : s \in lpRandomPairsUnique(lp, count)} =
                    {S \in SUBSET {ElementAt(i) : i \in {j \in DOMAIN ref : j % 2 = 1}} :
                        Cardinality(S) = IF count > Len(ref) \div 2 THEN Len(ref) \div 2 ELSE count}
=============================================================================
