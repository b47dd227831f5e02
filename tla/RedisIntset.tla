----------------------------- MODULE RedisIntset ----------------------------
(***************************************************************************)
(* intset.c: a set of integers as a sorted array of 16, 32 or 64 bit       *)
(* numbers in one block of memory.  All numbers have the width that the    *)
(* widest number ever added needed.                                        *)
(*                                                                         *)
(* is is the block, ref the set it stands for.  Widths are counted in      *)
(* units of the smallest one: 1, 2 and 4.                                  *)
(***************************************************************************)
EXTENDS PackedMemory, FiniteSets

CONSTANTS Numbers,       \* the numbers that are added
          Int16Max,      \* the largest number of width 1 (the smallest is one further from zero)
          Int32Max,      \* and of width 2
          MaxLength      \* bound on the length

VARIABLES is, ref

vars == <<is, ref>>

_intsetValueEncoding(v) ==
    IF v < -Int32Max - 1 \/ v > Int32Max THEN 4
    ELSE IF v < -Int16Max - 1 \/ v > Int16Max THEN 2
    ELSE 1

\* A number that stands nowhere: what is read where no number of that width was written.
Torn == 1000

_intsetGetEncoded(s, pos, enc) ==
    LET c == At(s, pos * enc)
    IN  IF c[1] = "int" /\ Holds(s, pos * enc, "int", c[2], enc) THEN c[2] ELSE Torn

_intsetGet(s, pos) == _intsetGetEncoded(s, pos, s.encoding)

_intsetSet(s, pos, v) == memcpy(s, pos * s.encoding, Field("int", v, s.encoding))

intsetNew == [m |-> <<>>, encoding |-> 1, length |-> 0, ok |-> TRUE]

intsetResize(s, n) == zrealloc(s, n * s.encoding)

RECURSIVE Halve(_, _, _, _)
Halve(s, v, min, max) ==
    LET mid == (min + max) \div 2
        cur == _intsetGet(s, mid)
    IN  IF max < min THEN [found |-> FALSE, pos |-> min]
        ELSE IF v > cur THEN Halve(s, v, mid + 1, max)
        ELSE IF v < cur THEN Halve(s, v, min, mid - 1)
        ELSE [found |-> TRUE, pos |-> mid]

intsetSearch(s, v) ==
    IF s.length = 0 \/ v < _intsetGet(s, 0) THEN [found |-> FALSE, pos |-> 0]
    ELSE IF v > _intsetGet(s, s.length - 1) THEN [found |-> FALSE, pos |-> s.length]
    ELSE Halve(s, v, 0, s.length - 1)

\* The numbers are widened from the last to the first, each read with the old width.
RECURSIVE Widen(_, _, _, _)
Widen(s, n, prepend, curenc) ==
    IF n = 0 THEN s
    ELSE Widen(_intsetSet(s, n - 1 + prepend, _intsetGetEncoded(s, n - 1, curenc)), n - 1, prepend, curenc)

intsetUpgradeAndAdd(s, v) ==
    LET prepend == IF v < 0 THEN 1 ELSE 0
        wide    == intsetResize([s EXCEPT !.encoding = _intsetValueEncoding(v)], s.length + 1)
        moved   == Widen(wide, s.length, prepend, s.encoding)
    IN  [_intsetSet(moved, IF prepend = 1 THEN 0 ELSE s.length, v) EXCEPT !.length = @ + 1]

intsetMoveTail(s, from, to) ==
    memmove(s, to * s.encoding, from * s.encoding, (s.length - from) * s.encoding)

intsetAdd(s, v) ==
    LET r == intsetSearch(s, v)
        w == intsetResize(s, s.length + 1)
    IN  IF _intsetValueEncoding(v) > s.encoding THEN intsetUpgradeAndAdd(s, v)
        ELSE IF r.found THEN s
        ELSE [_intsetSet(IF r.pos < s.length THEN intsetMoveTail(w, r.pos, r.pos + 1) ELSE w, r.pos, v)
                 EXCEPT !.length = @ + 1]

intsetRemove(s, v) ==
    LET r == intsetSearch(s, v)
        w == IF r.pos < s.length - 1 THEN intsetMoveTail(s, r.pos + 1, r.pos) ELSE s
    IN  IF ~(_intsetValueEncoding(v) <= s.encoding /\ r.found) THEN s
        ELSE [intsetResize(w, s.length - 1) EXCEPT !.length = @ - 1]

intsetFind(s, v) == _intsetValueEncoding(v) <= s.encoding /\ intsetSearch(s, v).found

intsetGet(s, pos) == IF pos < s.length THEN _intsetGet(s, pos) ELSE Torn

intsetValidateIntegrity(s) ==
    /\ s.encoding \in {1, 2, 4}
    /\ Len(s.m) = s.length * s.encoding
    /\ \A i \in 1..(s.length - 1) : _intsetGet(s, i) > _intsetGet(s, i - 1)

-----------------------------------------------------------------------------

Init == is = intsetNew /\ ref = {}

Add == \E v \in Numbers :
    /\ is.length < MaxLength
    /\ is' = intsetAdd(is, v)
    /\ ref' = ref \cup {v}

Remove == \E v \in Numbers :
    /\ is' = intsetRemove(is, v)
    /\ ref' = ref \ {v}

Next == Add \/ Remove

Spec == Init /\ [][Next]_vars

\* The numbers in the block are those of the set, each once and in order, in a block of
\* the right size: widening the array in place, and moving its tail, lost none.
SetAgrees ==
    /\ is.ok /\ intsetValidateIntegrity(is)
    /\ {intsetGet(is, i) : i \in 0..(is.length - 1)} = ref

\* The binary search finds what is in the set, nothing else, and for what is not in it
\* the place where it belongs; numbers too wide for the array are not looked for.
FindsMembers ==
    \A v \in Numbers :
        /\ intsetFind(is, v) = (v \in ref)
        /\ LET r == intsetSearch(is, v) IN r.pos = Cardinality({w \in ref : w < v})
=============================================================================
