---------------------------- MODULE PackedMemory ----------------------------
(***************************************************************************)
(* The memory blocks in which Redis packs small lists and sets: a block is *)
(* a sequence of cells, one per byte, and a cell says what was written to  *)
(* the byte: <<kind, value, i>> is byte i of a field of that kind that     *)
(* holds the value.  Moving and overwriting bytes is then as in the code,  *)
(* and a field that is read where none was written, or of which some bytes *)
(* were overwritten, is recognised.  Offsets count from 0, as pointers do. *)
(* ok is FALSE once an assertion of the code failed, or bytes outside the  *)
(* block were touched.                                                     *)
(***************************************************************************)
EXTENDS Integers, Sequences

\* A byte nobody wrote to, and the byte that ends a block (ZIP_END, LP_EOF).
Junk == <<"junk", 0, 0>>
End == <<"end", 0, 0>>

\* n bytes of a field.
Field(kind, v, n) == [i \in 1..n |-> <<kind, v, i - 1>>]

At(z, p) == IF p \in 0..(Len(z.m) - 1) THEN z.m[p + 1] ELSE Junk

\* A whole field of n bytes stands at p.
Holds(z, p, kind, v, n) == \A i \in 0..(n - 1) : At(z, p + i) = <<kind, v, i>>

Fail(z) == [z EXCEPT !.ok = FALSE]
Assert2(z, holds) == IF holds THEN z ELSE Fail(z)

zrealloc(z, n) == [z EXCEPT !.m = [i \in 1..n |-> IF i <= Len(z.m) THEN z.m[i] ELSE Junk]]

memcpy(z, p, cells) ==
    IF p >= 0 /\ p + Len(cells) <= Len(z.m)
    THEN [z EXCEPT !.m = [i \in DOMAIN z.m |-> IF i - p \in DOMAIN cells THEN cells[i - p] ELSE z.m[i]]]
    ELSE Fail(z)

memmove(z, to, from, n) ==
    IF from >= 0 /\ n >= 0 /\ from + n <= Len(z.m)
    THEN memcpy(z, to, SubSeq(z.m, from + 1, from + n))
    ELSE Fail(z)
=============================================================================
