---------------------------- MODULE RedisZiplist ----------------------------
(***************************************************************************)
(* ziplist.c: a list in one block of memory.  Every entry starts with the  *)
(* length of the entry before it, in one byte or in five; an entry that    *)
(* grows may make the length field of the next one grow, and so on.        *)
(*                                                                         *)
(* zl is the block, ref the list it stands for.  A value is a number whose *)
(* encoded size, header and payload, is Size[v].                           *)
(***************************************************************************)
EXTENDS PackedMemory, SequencesExt

CONSTANTS Size,          \* bytes of the encoded value, for every value
          BigPrevlen,    \* ZIP_BIG_PREVLEN: lengths from here on take five bytes
          MaxCount,      \* UINT16_MAX: the count that means "unknown"
          MaxEntries     \* bound on the entries of the list

VARIABLES zl, ref

vars == <<zl, ref>>

Values == DOMAIN Size
Delta == 4               \* a length field grows from one byte to five
HEADER_SIZE == 10        \* bytes, tail offset and count, whose values are fields of zl

-----------------------------------------------------------------------------
(* Fields of an entry *)

PrevlenSize(n) == IF n < BigPrevlen THEN 1 ELSE 5

zipStorePrevEntryLengthLarge(z, p, n) == memcpy(z, p, Field("prev5", n, 5))

zipStorePrevEntryLength(z, p, n) ==
    IF n < BigPrevlen THEN memcpy(z, p, Field("prev1", n, 1)) ELSE zipStorePrevEntryLengthLarge(z, p, n)

zipEntry(z, p) ==
    LET entry(c, ps, d) ==
            [valid |-> /\ Holds(z, p, c[1], c[2], ps)
                       /\ c[1] \in {"prev1", "prev5"}
                       /\ d[1] = "data" /\ d[3] = 0,
             prevrawlensize |-> ps, prevrawlen |-> c[2], value |-> d[2],
             raw |-> ps + (IF d[1] = "data" THEN Size[d[2]] ELSE 0)]
        of(c, ps) == entry(c, ps, At(z, p + ps))
    IN  of(At(z, p), IF At(z, p)[1] = "prev1" THEN 1 ELSE 5)

InList(z, p) == p \in HEADER_SIZE..(z.bytes - 1)

zipEntrySafe(z, p, checkPrev) ==
    LET safe(e) == InList(z, p) /\ e.valid /\ InList(z, p + e.raw) /\ (checkPrev => InList(z, p - e.prevrawlen))
    IN  safe(zipEntry(z, p))

zipPrevLenByteDiff(z, p, n) == PrevlenSize(n) - zipEntry(z, p).prevrawlensize

AtEnd(z, p) == At(z, p) = End

ziplistNew == [m |-> Append(Field("header", 0, HEADER_SIZE), End), bytes |-> HEADER_SIZE + 1,
               tail |-> HEADER_SIZE, len |-> 0, ok |-> TRUE]

ziplistResize(z, n) == memcpy([zrealloc(z, n) EXCEPT !.bytes = n], n - 1, <<End>>)

ZIPLIST_INCR_LENGTH(z, n) == IF z.len < MaxCount THEN [z EXCEPT !.len = @ + n] ELSE z

-----------------------------------------------------------------------------
(* __ziplistCascadeUpdate: entry lengths that changed are written to the   *)
(* entries that follow.                                                    *)

\* The first loop: how far the growth goes.  s has the block, the cursor, the
\* length and place of the last entry that changes, and how many grow.
RECURSIVE Scan(_)
Scan(s) ==
    LET at(z, e) ==
          IF AtEnd(z, s.p) \/ ~z.ok THEN s
          ELSE IF ~zipEntrySafe(z, s.p, FALSE) THEN [s EXCEPT !.z = Fail(z)]
          ELSE IF e.prevrawlen = s.prevlen THEN s
          ELSE IF e.prevrawlensize = PrevlenSize(s.prevlen)
               THEN [s EXCEPT !.z = zipStorePrevEntryLength(z, s.p, s.prevlen)]
          ELSE IF e.prevrawlensize > PrevlenSize(s.prevlen)
               THEN [s EXCEPT !.z = zipStorePrevEntryLengthLarge(z, s.p, s.prevlen)]
          ELSE Scan([z |-> Assert2(z, e.prevrawlen = 0 \/ e.prevrawlen + Delta = s.prevlen),
                     p |-> s.p + e.raw, prevlen |-> e.raw + Delta, prevoffset |-> s.p, cnt |-> s.cnt + 1])
    IN  at(s.z, zipEntry(s.z, s.p))

\* The second loop: the entries that grow are rewritten from the last to the first.
RECURSIVE Rewrite(_, _, _, _, _)
Rewrite(z, p, prevoffset, cnt, firstentrylen) ==
    LET prevlen(e) == IF e.prevrawlen = 0 THEN firstentrylen ELSE e.prevrawlen + Delta
        step(e, rest, q) ==
          Rewrite(zipStorePrevEntryLength(memmove(z, p - rest, prevoffset + e.prevrawlensize, rest), q, prevlen(e)),
                  q, prevoffset - e.prevrawlen, cnt - 1, firstentrylen)
        last(e) == step(e, e.raw - e.prevrawlensize, p - (e.raw + Delta))
    IN  IF cnt = 0 \/ ~z.ok THEN z ELSE last(zipEntry(z, prevoffset))

\* The tail moves by what is added before it.
Grow(z, s, extra, firstentrylen) ==
    LET tail == IF z.tail = s.prevoffset THEN z.tail + extra - Delta ELSE z.tail + extra
    IN  Rewrite(memmove(ziplistResize([s.z EXCEPT !.tail = tail], z.bytes + extra), s.p + extra, s.p, z.bytes - s.p - 1),
                s.p + extra, s.prevoffset, s.cnt, firstentrylen)

ziplistCascadeUpdate(z, p) ==
    LET upto(s, len) == IF s.cnt = 0 THEN s.z ELSE Grow(z, s, s.cnt * Delta, len)
        from(len) == upto(Scan([z |-> z, p |-> p + len, prevlen |-> len, prevoffset |-> p, cnt |-> 0]), len)
    IN  IF AtEnd(z, p) THEN z ELSE from(zipEntry(z, p).raw)

-----------------------------------------------------------------------------
(* Changing the list *)

\* The place behind num entries, or the end, and how many entries were passed.
RECURSIVE Walk(_, _, _, _)
Walk(z, p, num, deleted) ==
    IF AtEnd(z, p) \/ deleted = num THEN [p |-> p, deleted |-> deleted, valid |-> TRUE]
    ELSE IF ~zipEntrySafe(z, p, FALSE) THEN [p |-> p, deleted |-> deleted, valid |-> FALSE]
    ELSE Walk(z, p + zipEntry(z, p).raw, num, deleted + 1)

\* The list without the entries from p to w.p, moved has the bytes of what remains.
Shrunk(z, moved, p, w, tail, diff) ==
    LET bytes == z.bytes - (w.p - p) + diff
        small == ZIPLIST_INCR_LENGTH(ziplistResize(moved, bytes), -w.deleted)
        cascade(y) == IF diff # 0 THEN ziplistCascadeUpdate(y, p) ELSE y
    IN  cascade([Assert2(small, tail <= bytes - 1) EXCEPT !.tail = tail])

\* There is an entry behind them: it gets the length of the one before, in place.
DeleteBefore(z, p, w, q, diff, prevlen) ==
    LET tail(y) == z.tail - (w.p - p) + (IF AtEnd(y, q + zipEntry(y, q).raw) THEN 0 ELSE diff)
        with(y) == Shrunk(z, memmove(Assert2(y, zipEntrySafe(y, q, TRUE)), p, q, z.bytes - q - 1), p, w, tail(y), diff)
    IN  with(zipStorePrevEntryLength(Assert2(z, w.valid /\ q >= p /\ q < z.bytes - 1), q, prevlen))

ziplistDelete(z, p, num) ==
    LET before(w, diff, prevlen) == DeleteBefore(z, p, w, w.p - diff, diff, prevlen)
        upto(w, prevlen) == IF w.p = p THEN z
                            ELSE IF AtEnd(z, w.p) THEN Shrunk(z, z, p, w, p - prevlen, 0)
                            ELSE before(w, zipPrevLenByteDiff(z, w.p, prevlen), prevlen)
    IN  upto(Walk(z, p, num, 0), zipEntry(z, p).prevrawlen)

\* The field of the next entry keeps its five bytes when the new entry has not even
\* the four bytes that would be given back.
KeepLarge(diff, reqlen) == diff = -Delta /\ reqlen < Delta

\* Room for reqlen bytes before the entry at p, whose length field changes by diff bytes.
OpenBefore(z, p, reqlen, diff, large) ==
    LET q == p + reqlen
        link(y) == IF large THEN zipStorePrevEntryLengthLarge(y, q, reqlen) ELSE zipStorePrevEntryLength(y, q, reqlen)
        tail(y) == [Assert2(y, zipEntrySafe(y, q, TRUE)) EXCEPT !.tail = @ + reqlen + (IF AtEnd(y, q + zipEntry(y, q).raw) THEN 0 ELSE diff)]
        cascade(y) == IF diff # 0 THEN ziplistCascadeUpdate(y, q) ELSE y
    IN  cascade(tail(link(memmove(ziplistResize(z, z.bytes + reqlen + diff), q, p - diff, z.bytes - p - 1 + diff))))

OpenAt(z, p, reqlen) ==
    LET before(need) == IF KeepLarge(need, reqlen) THEN OpenBefore(z, p, reqlen, 0, TRUE) ELSE OpenBefore(z, p, reqlen, need, FALSE)
    IN  IF AtEnd(z, p)
        THEN [ziplistResize(Assert2(z, zipEntrySafe(z, z.tail, FALSE) \/ AtEnd(z, z.tail)), z.bytes + reqlen) EXCEPT !.tail = p]
        ELSE before(zipPrevLenByteDiff(z, p, reqlen))

ziplistInsert(z, p, v) ==
    LET write(y, prevlen) == memcpy(zipStorePrevEntryLength(y, p, prevlen), p + PrevlenSize(prevlen), Field("data", v, Size[v]))
        put(prevlen) == ZIPLIST_INCR_LENGTH(write(OpenAt(z, p, Size[v] + PrevlenSize(prevlen)), prevlen), 1)
    IN  put(IF ~AtEnd(z, p) THEN zipEntry(z, p).prevrawlen
            ELSE IF AtEnd(z, z.tail) THEN 0
            ELSE zipEntry(z, z.tail).raw)

ziplistPush(z, v, where) == ziplistInsert(z, IF where = "head" THEN HEADER_SIZE ELSE z.bytes - 1, v)

\* Both lists are copied into the block of the one with more entries: behind its
\* entries, or in front of them once these have been moved.
ziplistMerge(first, second) ==
    LET bytes    == first.bytes + second.bytes - HEADER_SIZE - 1
        len      == first.len + second.len
        appended == memcpy(zrealloc(first, bytes), first.bytes - 1,
                           SubSeq(second.m, HEADER_SIZE + 1, second.bytes))
        opened   == memmove(zrealloc(second, bytes), first.bytes - 1, HEADER_SIZE, second.bytes - HEADER_SIZE)
        put      == memcpy(opened, 0, SubSeq(first.m, 1, first.bytes - 1))
        target   == IF first.len >= second.len THEN appended ELSE put
    IN  ziplistCascadeUpdate([target EXCEPT !.bytes = bytes,
                                            !.len = IF len < MaxCount THEN len ELSE MaxCount,
                                            !.tail = first.bytes - 1 + second.tail - HEADER_SIZE],
                             first.tail)

-----------------------------------------------------------------------------
(* Finding entries.  NULL is -1. *)

NULL == -1

\* Steps back over index entries, as long as there are any.
RECURSIVE Back(_, _, _)
Back(z, p, index) ==
    LET from(e) == IF ~InList(z, p) \/ ~e.valid THEN [p |-> p, index |-> index, valid |-> FALSE]
                   ELSE IF e.prevrawlen > 0 /\ index > 0 THEN Back(z, p - e.prevrawlen, index - 1)
                   ELSE [p |-> p, index |-> index, valid |-> TRUE]
    IN  from(zipEntry(z, p))

RECURSIVE Forth(_, _, _)
Forth(z, p, index) ==
    LET to(q) == IF ~zipEntrySafe(z, p, FALSE) THEN [p |-> p, index |-> index, valid |-> FALSE]
                 ELSE IF AtEnd(z, q) THEN [p |-> q, index |-> index - 1, valid |-> TRUE]
                 ELSE Forth(z, q, index - 1)
    IN  IF index = 0 THEN [p |-> p, index |-> 0, valid |-> TRUE] ELSE to(p + zipEntry(z, p).raw)

ziplistIndex(z, index) ==
    LET at(r) == [p |-> IF AtEnd(z, r.p) \/ r.index > 0 THEN NULL ELSE r.p, valid |-> r.valid]
    IN  at(IF index >= 0 THEN Forth(z, HEADER_SIZE, index)
           ELSE IF AtEnd(z, z.tail) THEN [p |-> z.tail, index |-> (-index) - 1, valid |-> TRUE]
           ELSE Back(z, z.tail, (-index) - 1))

ziplistNext(z, p) ==
    LET to(q) == IF AtEnd(z, q) \/ ~zipEntrySafe(z, q, TRUE) THEN NULL ELSE q
    IN  IF AtEnd(z, p) THEN NULL ELSE to(p + zipEntry(z, p).raw)

ziplistPrev(z, p) ==
    LET to(q) == IF p = HEADER_SIZE \/ q = p \/ ~zipEntrySafe(z, q, TRUE) THEN NULL ELSE q
    IN  IF AtEnd(z, p) THEN (IF AtEnd(z, z.tail) THEN NULL ELSE z.tail) ELSE to(p - zipEntry(z, p).prevrawlen)

\* The value at p, or no value when the bytes are not those of one.
ziplistGet(z, p) ==
    LET get(e) == IF e.valid /\ Holds(z, p + e.prevrawlensize, "data", e.value, Size[e.value]) THEN e.value ELSE 0
    IN  get(zipEntry(z, p))

RECURSIVE FindFrom(_, _, _, _, _)
FindFrom(z, p, v, skip, skipcnt) ==
    IF AtEnd(z, p) \/ ~zipEntrySafe(z, p, TRUE) THEN NULL
    ELSE IF skipcnt = 0 /\ ziplistGet(z, p) = v THEN p
    ELSE FindFrom(z, p + zipEntry(z, p).raw, v, skip, IF skipcnt = 0 THEN skip ELSE skipcnt - 1)

ziplistFind(z, p, v, skip) == FindFrom(z, p, v, skip, 0)

\* The number of entries, and the list with the count stored again.
ziplistLen(z) ==
    LET n == Walk(z, HEADER_SIZE, MaxEntries + 1, 0).deleted
    IN  IF z.len < MaxCount THEN [n |-> z.len, z |-> z]
        ELSE [n |-> n, z |-> IF n < MaxCount THEN [z EXCEPT !.len = n] ELSE z]

ziplistReplace(z, p, v) ==
    LET over(e) == IF Size[v] = e.raw - e.prevrawlensize THEN memcpy(z, p + e.prevrawlensize, Field("data", v, Size[v]))
                   ELSE ziplistInsert(ziplistDelete(z, p, 1), p, v)
    IN  over(zipEntry(z, p))

RECURSIVE ValidFrom(_, _, _, _, _)
ValidFrom(z, p, prev, prevsize, count) ==
    LET e == zipEntry(z, p)
    IN  IF AtEnd(z, p)
        THEN /\ p = z.bytes - 1
             /\ prev # NULL => prev = z.tail
             /\ z.len # MaxCount => z.len = count
        ELSE /\ zipEntrySafe(z, p, TRUE)
             /\ e.prevrawlen = prevsize
             /\ ValidFrom(z, p + e.raw, p, e.raw, count + 1)

ziplistValidateIntegrity(z) ==
    /\ z.bytes = Len(z.m)
    /\ AtEnd(z, z.bytes - 1)
    /\ Holds(z, 0, "header", 0, HEADER_SIZE)
    /\ z.tail <= z.bytes - 1
    /\ ValidFrom(z, HEADER_SIZE, NULL, 0, 0)

-----------------------------------------------------------------------------
(* The operations, at every entry of the list *)

Init == zl = ziplistNew /\ ref = <<>>

\* Where entry i stands, 1 for the first.
EntryAt(i) == ziplistIndex(zl, i - 1).p

\* The list ziplistPush builds from a sequence of values.
Built(s) == FoldLeft(LAMBDA z, v : ziplistPush(z, v, "tail"), ziplistNew, s)

Push == \E v \in Values, where \in {"head", "tail"} :
    /\ Len(ref) < MaxEntries
    /\ zl' = ziplistPush(zl, v, where)
    /\ ref' = IF where = "head" THEN <<v>> \o ref ELSE Append(ref, v)

Insert == \E i \in DOMAIN ref, v \in Values :
    /\ Len(ref) < MaxEntries
    /\ zl' = ziplistInsert(zl, EntryAt(i), v)
    /\ ref' = InsertAt(ref, i, v)

Delete == \E i \in DOMAIN ref :
    /\ zl' = ziplistDelete(zl, EntryAt(i), 1)
    /\ ref' = RemoveAt(ref, i)

\* ziplistDeleteRange, at an entry that there is.
DeleteRange == \E i \in DOMAIN ref, num \in 2..(MaxEntries + 1) :
    /\ zl' = ziplistDelete(zl, EntryAt(i), num)
    /\ ref' = SelectSeq([j \in DOMAIN ref |-> IF j < i \/ j >= i + num THEN ref[j] ELSE 0], LAMBDA x : x # 0)

Replace == \E i \in DOMAIN ref, v \in Values :
    /\ zl' = ziplistReplace(zl, EntryAt(i), v)
    /\ ref' = ReplaceAt(ref, i, v)

Count == zl' = ziplistLen(zl).z /\ UNCHANGED ref

\* The list is merged with another one, as the first or as the second of the two.
Merge == \E s \in UNION {[1..n -> Values] : n \in 1..2}, front \in BOOLEAN :
    /\ ref # <<>>
    /\ Len(ref) + Len(s) <= MaxEntries
    /\ zl' = IF front THEN ziplistMerge(Built(s), zl) ELSE ziplistMerge(zl, Built(s))
    /\ ref' = IF front THEN s \o ref ELSE ref \o s

Next == Push \/ Insert \/ Delete \/ DeleteRange \/ Replace \/ Count \/ Merge

Spec == Init /\ [][Next]_vars

-----------------------------------------------------------------------------
(* Properties *)

RECURSIVE From(_, _)
From(z, p) == IF p = NULL \/ AtEnd(z, p) THEN <<>> ELSE <<ziplistGet(z, p)>> \o From(z, ziplistNext(z, p))

RECURSIVE Until(_, _)
Until(z, p) == IF p = NULL THEN <<>> ELSE Append(Until(z, ziplistPrev(z, p)), ziplistGet(z, p))

\* Whatever was inserted, deleted, replaced or merged (each moving bytes over bytes, with
\* length fields that grow along the list), the bytes still hold the values of the list,
\* in order.
ContentsAgree == From(zl, HEADER_SIZE) = ref

\* Every list the operations leave satisfies ziplistValidateIntegrity (lengths of the
\* previous entries, tail offset, count), and no assertion failed on the way: those of
\* __ziplistCascadeUpdate ("cur.prevrawlen == 0 || cur.prevrawlen + delta == prevlen"),
\* of __ziplistDelete and of the bounds-checked reads.
Integrity == zl.ok /\ ziplistValidateIntegrity(zl)

\* ziplistIndex counts from both ends, ziplistPrev leads through the whole list, and an
\* index out of range of a list that is not empty gives NULL.
IndexFinds ==
    /\ Until(zl, ziplistPrev(zl, zl.bytes - 1)) = ref
    /\ ref # <<>> =>
        \A i \in -(MaxEntries + 1)..MaxEntries :
            \A r \in {ziplistIndex(zl, i)}, j \in {IF i < 0 THEN Len(ref) + i + 1 ELSE i + 1} :
                r.valid /\ IF j \in DOMAIN ref THEN r.p # NULL /\ ziplistGet(zl, r.p) = ref[j] ELSE r.p = NULL

\* ziplistFind with skip 1, as used for fields and values in turn, finds the first field
\* that is equal and never a value.
FindsFields ==
    \A v \in Values :
        LET p    == ziplistFind(zl, HEADER_SIZE, v, 1)
            hits == {i \in DOMAIN ref : i % 2 = 1 /\ ref[i] = v}
        IN  IF hits = {} THEN p = NULL ELSE p = EntryAt(CHOOSE i \in hits : \A j \in hits : i <= j)

\* ziplistLen is right also when the count in the header has become "unknown" and the
\* list is shorter again.
LengthRight == ziplistLen(zl).n = Len(ref)
=============================================================================
