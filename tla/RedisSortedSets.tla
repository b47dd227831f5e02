--------------------------- MODULE RedisSortedSets ---------------------------
(***************************************************************************)
(* Sorted sets in Redis 7.0.0 (t_zset.c): the skiplist with its spans, the *)
(* listpack encoding and the conversions between the two, and the commands *)
(* on them.  Members are the numbers 1..MaxMember, in lexicographic order; *)
(* 0 is the header of a skiplist and -1 is NULL.  The random height of a   *)
(* new node is a choice (heights, one for each member, in a command).      *)
(***************************************************************************)
EXTENDS Integers, Sequences, FiniteSets, SequencesExt

CONSTANTS Keys,
          MaxMember,   \* bound: members 1..MaxMember
          MaxScore,    \* bound: finite scores 0..MaxScore
          Inf,         \* the score +inf
          MaxLevel,    \* ZSKIPLIST_MAXLEVEL
          MaxListpack, \* zset-max-listpack-entries
          Long,        \* the members longer than zset-max-listpack-value
          Ops          \* the commands that clients send

SortedSetsAssumption ==
  /\ MaxMember \in Nat /\ MaxScore \in Nat /\ Inf \in Nat /\ Inf > 2 * MaxScore
  /\ MaxLevel \in Nat \ {0} /\ MaxListpack \in Nat /\ Long \subseteq 1..MaxMember

VARIABLES db,      \* the sorted sets
          ref,     \* the score of each member as the commands define it
          failed   \* an assertion of the code failed

vars == <<db, ref, failed>>

Members == 1..MaxMember
Header == 0
NULL == -1
NaN == -Inf - 1
None == -Inf - 2      \* no score: not a member
Levels == 1..MaxLevel
Heights == [Members -> Levels]

Plus(a, b) ==
  IF a \in {Inf, -Inf} THEN (IF b = -a THEN NaN ELSE a) ELSE IF b \in {Inf, -Inf} THEN b ELSE a + b

-----------------------------------------------------------------------------
(* The skiplist.  n[x] is a node: its height, score, forward pointers with *)
(* their spans, and backward pointer.                                      *)

NoNode == [height |-> 0, score |-> None, fwd |-> [i \in Levels |-> NULL], span |-> [i \in Levels |-> 0], back |-> NULL]

zslCreate == [level |-> 1, length |-> 0, tail |-> NULL,
              n |-> [x \in 0..MaxMember |-> IF x = Header THEN [NoNode EXCEPT !.height = MaxLevel] ELSE NoNode]]

\* From the header down: on each level forward as long as Go says so of the next node and of the distance to it.
\* update holds where each level was left, rank how far that is from the header.
Descend(z, Go(_, _)) ==
  LET forward(w, i) ==
        LET y == z.n[w.x].fwd[i]
            t == w.t + z.n[w.x].span[i]
        IN IF y # NULL /\ Go(y, t) THEN [w EXCEPT !.x = y, !.t = t] ELSE w
      level(w, i) ==
        LET v == FoldLeft(LAMBDA u, k : forward(u, i), w, [k \in 1..z.length |-> k])
        IN [v EXCEPT !.update[i] = v.x, !.rank[i] = v.t]
  IN FoldLeft(level, [x |-> Header, t |-> 0, update |-> [i \in Levels |-> Header], rank |-> [i \in Levels |-> 0]],
              [k \in 1..z.level |-> z.level + 1 - k])

Less(z, y, score, ele) == z.n[y].score < score \/ (z.n[y].score = score /\ y < ele)

\* ele is linked in where the descent d was left.
LinkAt(z, d, score, ele, height) ==
  LET back == d.rank[1]
      span(y, i) == IF i > z.level /\ y = Header THEN z.length ELSE z.n[y].span[i]
      hit(y, i) == i <= height /\ d.update[i] = y
      node(y) == [z.n[y] EXCEPT
        !.fwd = [i \in Levels |-> IF hit(y, i) THEN ele ELSE z.n[y].fwd[i]],
        !.span = [i \in Levels |-> IF hit(y, i) THEN back - d.rank[i] + 1
                                   ELSE IF i > height /\ i <= z.level /\ d.update[i] = y THEN z.n[y].span[i] + 1 ELSE z.n[y].span[i]],
        !.back = IF y = z.n[d.update[1]].fwd[1] THEN ele ELSE @]
      new == [height |-> height, score |-> score,
              fwd |-> [i \in Levels |-> IF i <= height THEN z.n[d.update[i]].fwd[i] ELSE NULL],
              span |-> [i \in Levels |-> IF i <= height THEN span(d.update[i], i) - (back - d.rank[i]) ELSE 0],
              back |-> IF d.update[1] = Header THEN NULL ELSE d.update[1]]
  IN [level |-> IF height > z.level THEN height ELSE z.level, length |-> z.length + 1,
      tail |-> IF new.fwd[1] = NULL THEN ele ELSE z.tail,
      n |-> [y \in 0..MaxMember |-> IF y = ele THEN new ELSE node(y)]]

zslInsert(z, score, ele, height) == LinkAt(z, Descend(z, LAMBDA y, t : Less(z, y, score, ele)), score, ele, height)

zslDeleteNode(z, x, update) ==
  LET hit(y, i) == i <= z.level /\ update[i] = y
      next == z.n[x].fwd[1]
      node(y) == [z.n[y] EXCEPT
        !.fwd = [i \in Levels |-> IF hit(y, i) /\ z.n[y].fwd[i] = x THEN z.n[x].fwd[i] ELSE z.n[y].fwd[i]],
        !.span = [i \in Levels |-> IF ~hit(y, i) THEN z.n[y].span[i]
                                   ELSE IF z.n[y].fwd[i] = x THEN z.n[y].span[i] + z.n[x].span[i] - 1 ELSE z.n[y].span[i] - 1],
        !.back = IF y = next THEN z.n[x].back ELSE @]
      head == node(Header)
      used == {i \in 1..z.level : head.fwd[i] # NULL} \cup {1}
  IN [level |-> CHOOSE i \in used : \A j \in used : j <= i, length |-> z.length - 1,
      tail |-> IF next = NULL THEN z.n[x].back ELSE z.tail,
      n |-> [y \in 0..MaxMember |-> IF y = x THEN NoNode ELSE node(y)]]

zslDelete(z, score, ele) ==
  LET d == Descend(z, LAMBDA y, t : Less(z, y, score, ele))
  IN IF z.n[d.x].fwd[1] = ele THEN zslDeleteNode(z, ele, d.update) ELSE z

zslUpdateScore(z, cur, ele, score, height) ==
  LET x == z.n[ele]
  IN IF (x.back = NULL \/ z.n[x.back].score < score) /\ (x.fwd[1] = NULL \/ z.n[x.fwd[1]].score > score)
     THEN [z EXCEPT !.n[ele].score = score]
     ELSE zslInsert(zslDelete(z, cur, ele), score, ele, height)

zslGetRank(z, score, ele) ==
  LET d == Descend(z, LAMBDA y, t : Less(z, y, score, ele) \/ y = ele) IN IF d.x = ele THEN d.t ELSE 0

zslGetElementByRank(z, rank) == LET d == Descend(z, LAMBDA y, t : t <= rank) IN IF d.t = rank THEN d.x ELSE NULL

\* The nodes from x on, along Pointer, at most k of them.
Follow(z, x, k, reverse) ==
  FoldLeft(LAMBDA w, i : IF w.x = NULL THEN w
                         ELSE [x |-> IF reverse THEN z.n[w.x].back ELSE z.n[w.x].fwd[1], seq |-> Append(w.seq, w.x)],
           [x |-> x, seq |-> <<>>], [i \in 1..k |-> i]).seq

-----------------------------------------------------------------------------
(* Ranges: of scores, or of members when all scores are the same.          *)

RangeSpecs(by) ==
  LET vals == IF by = "score" THEN 0..MaxScore ELSE Members
  IN [by : {by}, min : vals, max : vals, minex : BOOLEAN, maxex : BOOLEAN]

\* p is a pair of a member and its score.
Val(r, p) == IF r.by = "score" THEN p[2] ELSE p[1]
zslValueGteMin(r, p) == IF r.minex THEN Val(r, p) > r.min ELSE Val(r, p) >= r.min
zslValueLteMax(r, p) == IF r.maxex THEN Val(r, p) < r.max ELSE Val(r, p) <= r.max
Pair(z, x) == <<x, z.n[x].score>>
EmptySpec(r) == r.min > r.max \/ (r.min = r.max /\ (r.minex \/ r.maxex))

zslIsInRange(z, r) ==
  /\ ~EmptySpec(r) /\ z.tail # NULL
  /\ zslValueGteMin(r, Pair(z, z.tail)) /\ zslValueLteMax(r, Pair(z, z.n[Header].fwd[1]))

zslFirstInRange(z, r) ==
  LET inside(x) == IF zslValueLteMax(r, Pair(z, x)) THEN x ELSE NULL
  IN IF ~zslIsInRange(z, r) THEN NULL
     ELSE inside(z.n[Descend(z, LAMBDA y, t : ~zslValueGteMin(r, Pair(z, y))).x].fwd[1])

zslLastInRange(z, r) ==
  LET inside(x) == IF zslValueGteMin(r, Pair(z, x)) THEN x ELSE NULL
  IN IF ~zslIsInRange(z, r) THEN NULL ELSE inside(Descend(z, LAMBDA y, t : zslValueLteMax(r, Pair(z, y))).x)

\* The nodes from where Go stops, as long as In holds, are deleted one by one.
DeleteFrom(z, Go(_, _), In(_, _)) ==
  LET step(w, x, d, k) == IF x # NULL /\ In(x, d.t + k) THEN zslDeleteNode(w, x, d.update) ELSE w
      from(d) == FoldLeft(LAMBDA w, k : step(w, w.n[d.x].fwd[1], d, k), z, [k \in 1..z.length |-> k])
  IN from(Descend(z, Go))

zslDeleteRange(z, r) ==
  DeleteFrom(z, LAMBDA y, t : ~zslValueGteMin(r, Pair(z, y)), LAMBDA x, k : zslValueLteMax(r, Pair(z, x)))

zslDeleteRangeByRank(z, start, end) == DeleteFrom(z, LAMBDA y, t : t < start, LAMBDA x, k : k <= end)

-----------------------------------------------------------------------------
(* The listpack: the pairs in order.                                       *)

zzlFind(lp, ele) == SelectInSeq(lp, LAMBDA p : p[1] = ele)

zzlInsert(lp, ele, score) ==
  LET at(i) == IF i = 0 THEN Append(lp, <<ele, score>>) ELSE InsertAt(lp, i, <<ele, score>>)
  IN at(SelectInSeq(lp, LAMBDA p : p[2] > score \/ (p[2] = score /\ p[1] > ele)))

zzlIsInRange(lp, r) ==
  ~EmptySpec(r) /\ lp # <<>> /\ zslValueGteMin(r, lp[Len(lp)]) /\ zslValueLteMax(r, lp[1])

\* Positions; 0 when there is none.
zzlFirstInRange(lp, r) ==
  LET inside(i) == IF i = 0 THEN 0 ELSE IF zslValueLteMax(r, lp[i]) THEN i ELSE 0
  IN IF ~zzlIsInRange(lp, r) THEN 0 ELSE inside(SelectInSeq(lp, LAMBDA p : zslValueGteMin(r, p)))

zzlLastInRange(lp, r) ==
  LET inside(i) == IF i = 0 THEN 0 ELSE IF zslValueGteMin(r, lp[i]) THEN i ELSE 0
  IN IF ~zzlIsInRange(lp, r) THEN 0 ELSE inside(SelectLastInSeq(lp, LAMBDA p : zslValueLteMax(r, p)))

zzlDeleteRange(lp, r) ==
  LET from(stop) == IF stop = 0 THEN <<>> ELSE SubSeq(lp, stop, Len(lp))
      without(i) == IF i = 0 THEN lp
                    ELSE SubSeq(lp, 1, i - 1) \o from(SelectInSubSeq(lp, i, Len(lp), LAMBDA p : ~zslValueLteMax(r, p)))
  IN without(zzlFirstInRange(lp, r))

zzlDeleteRangeByRank(lp, start, end) == SubSeq(lp, 1, start - 1) \o SubSeq(lp, end + 1, Len(lp))

-----------------------------------------------------------------------------
(* Sorted set objects.                                                     *)

NoKey == [enc |-> "none", lp |-> <<>>, z |-> zslCreate, dict |-> {}]
createZsetListpackObject == [NoKey EXCEPT !.enc = "listpack"]
createZsetObject == [NoKey EXCEPT !.enc = "skiplist"]

zsetLength(o) == IF o.enc = "skiplist" THEN o.z.length ELSE Len(o.lp)

PairsOf(z, xs) == [i \in 1..Len(xs) |-> Pair(z, xs[i])]

\* All pairs, in the order of the listpack or along the lowest level.
Pairs(o) ==
  IF o.enc # "skiplist" THEN o.lp ELSE PairsOf(o.z, Follow(o.z, o.z.n[Header].fwd[1], o.z.length, FALSE))

InsertPair(o, p, h) == [o EXCEPT !.z = zslInsert(@, p[2], p[1], h[p[1]]), !.dict = @ \cup {p[1]}]

zsetConvertToSkiplist(o, h) == FoldLeft(LAMBDA w, p : InsertPair(w, p, h), createZsetObject, o.lp)
zsetConvertToListpack(o) == [createZsetListpackObject EXCEPT !.lp = Pairs(o)]
zsetConvertAsserts(o) == o.lp # <<>>

zsetConvertToListpackIfNeeded(o, eles) ==
  IF o.z.length <= MaxListpack /\ eles \cap Long = {} THEN zsetConvertToListpack(o) ELSE o

zsetScore(o, ele) ==
  IF o.enc = "skiplist" THEN (IF ele \in o.dict THEN o.z.n[ele].score ELSE None)
  ELSE LET score(i) == IF i = 0 THEN None ELSE o.lp[i][2] IN score(zzlFind(o.lp, ele))

\* The score after ZADD with these options, or the current one (None: not added).
NewScore(cur, score, f) ==
  LET s == IF f.incr /\ cur # None THEN Plus(cur, score) ELSE score
  IN IF cur = None THEN (IF f.xx THEN None ELSE score)
     ELSE IF f.nx \/ s = NaN \/ (f.lt /\ s >= cur) \/ (f.gt /\ s <= cur) THEN cur ELSE s

\* The member gets the score s, cur is the one it has.
SetScore(o, cur, s, ele, h) ==
  LET full == Len(o.lp) + 1 > MaxListpack \/ ele \in Long
  IN IF s = cur THEN [o |-> o, ok |-> TRUE]
     ELSE IF o.enc = "listpack" /\ cur # None
     THEN [o |-> [o EXCEPT !.lp = zzlInsert(RemoveAt(@, zzlFind(@, ele)), ele, s)], ok |-> TRUE]
     ELSE IF o.enc = "listpack" /\ ~full THEN [o |-> [o EXCEPT !.lp = zzlInsert(@, ele, s)], ok |-> TRUE]
     ELSE IF o.enc = "listpack" THEN [o |-> InsertPair(zsetConvertToSkiplist(o, h), <<ele, s>>, h), ok |-> zsetConvertAsserts(o)]
     ELSE IF cur # None THEN [o |-> [o EXCEPT !.z = zslUpdateScore(@, cur, ele, s, h[ele])], ok |-> TRUE]
     ELSE [o |-> InsertPair(o, <<ele, s>>, h), ok |-> TRUE]

zsetAdd(o, score, ele, f, h) ==
  LET from(cur) == SetScore(o, cur, NewScore(cur, score, f), ele, h) IN from(zsetScore(o, ele))

zsetRemoveFromSkiplist(o, ele) ==
  IF ele \notin o.dict THEN o ELSE [o EXCEPT !.z = zslDelete(@, @.n[ele].score, ele), !.dict = @ \ {ele}]

zsetDel(o, ele) ==
  IF o.enc = "skiplist" THEN zsetRemoveFromSkiplist(o, ele)
  ELSE LET without(i) == IF i = 0 THEN o ELSE [o EXCEPT !.lp = RemoveAt(@, i)] IN without(zzlFind(o.lp, ele))

zsetRank(o, ele, reverse) ==
  LET from(rank) == IF reverse THEN zsetLength(o) - rank ELSE rank - 1
  IN IF zsetScore(o, ele) = None THEN NULL
     ELSE from(IF o.enc = "skiplist" THEN zslGetRank(o.z, o.z.n[ele].score, ele) ELSE zzlFind(o.lp, ele))

\* A skiplist is copied from its tail.
zsetDup(o, h) ==
  IF o.enc = "skiplist"
  THEN FoldLeft(LAMBDA w, x : InsertPair(w, Pair(o.z, x), h), createZsetObject, Follow(o.z, o.z.tail, o.z.length, TRUE))
  ELSE o

-----------------------------------------------------------------------------
(* Reading.                                                                *)

Skip(s, n) == IF n >= Len(s) THEN <<>> ELSE SubSeq(s, n + 1, Len(s))

Until(s, Out(_)) == LET upto(i) == IF i = 0 THEN s ELSE SubSeq(s, 1, i - 1) IN upto(SelectInSeq(s, Out))
AtMost(s, limit) == IF limit >= 0 /\ limit < Len(s) THEN SubSeq(s, 1, limit) ELSE s

\* Positions counted from the end are negative; a last one beyond the end is the end.
RankBounds(n, start, end) ==
  LET s == IF start >= 0 THEN start ELSE IF n + start < 0 THEN 0 ELSE n + start
      e == IF end < 0 THEN n + end ELSE end
  IN [start |-> s, end |-> IF e >= n THEN n - 1 ELSE e, empty |-> s > e \/ s >= n]

\* The pairs at positions start..end.
RankRange(o, n, start, end, reverse) ==
  LET first == IF reverse THEN (IF start > 0 THEN zslGetElementByRank(o.z, n - start) ELSE o.z.tail)
               ELSE IF start > 0 THEN zslGetElementByRank(o.z, start + 1) ELSE o.z.n[Header].fwd[1]
  IN IF o.enc = "skiplist" THEN PairsOf(o.z, Follow(o.z, first, end - start + 1, reverse))
     ELSE [i \in 1..end - start + 1 |-> o.lp[IF reverse THEN n - start - i + 1 ELSE start + i]]

\* Pairs by position, counted from either end.
genericZrangebyrank(o, start, end, reverse) ==
  LET within(n, b) == IF b.empty THEN <<>> ELSE RankRange(o, n, b.start, b.end, reverse)
  IN within(zsetLength(o), RankBounds(zsetLength(o), start, end))

\* The pairs from the first, or back from the last, one in the range.
FromRange(o, r, reverse) ==
  LET from(i) == IF i = 0 THEN <<>> ELSE IF reverse THEN Reverse(SubSeq(o.lp, 1, i)) ELSE SubSeq(o.lp, i, Len(o.lp))
  IN IF o.enc = "skiplist"
     THEN PairsOf(o.z, Follow(o.z, IF reverse THEN zslLastInRange(o.z, r) ELSE zslFirstInRange(o.z, r), o.z.length, reverse))
     ELSE from(IF reverse THEN zzlLastInRange(o.lp, r) ELSE zzlFirstInRange(o.lp, r))

\* Pairs in a range, from its first or its last one, after the first offset of them, at most limit of them (-1: all).
genericZrangebyscore(o, r, offset, limit, reverse) ==
  LET out(p) == IF reverse THEN ~zslValueGteMin(r, p) ELSE ~zslValueLteMax(r, p)
  IN IF offset > 0 /\ offset >= zsetLength(o) THEN <<>>
     ELSE AtMost(Until(Skip(FromRange(o, r, reverse), offset), out), limit)

zcountCommand(o, r) ==
  LET rank(x) == zslGetRank(o.z, o.z.n[x].score, x)
      from(first, last) == IF first = NULL THEN 0
        ELSE (o.z.length - (rank(first) - 1)) - (IF last = NULL THEN 0 ELSE o.z.length - rank(last))
  IN IF o.enc # "skiplist" THEN Len(genericZrangebyscore(o, r, 0, -1, FALSE))
     ELSE from(zslFirstInRange(o.z, r), zslLastInRange(o.z, r))

\* The same code over members instead of scores.
genericZrangebylexCommand(o, r, offset, limit, reverse) == genericZrangebyscore(o, [r EXCEPT !.by = "lex"], offset, limit, reverse)
zlexcountCommand(o, r) == zcountCommand(o, [r EXCEPT !.by = "lex"])

-----------------------------------------------------------------------------
(* Union, intersection and difference.                                     *)

\* Scores by member; None is not a member.
Contents(o) == [m \in Members |-> zsetScore(o, m)]
In(o) == {m \in Members : zsetScore(o, m) # None}

zunionInterAggregate(target, val, aggregate) ==
  CASE aggregate = "sum" -> LET s == Plus(target, val) IN IF s = NaN THEN 0 ELSE s
    [] aggregate = "min" -> IF val < target THEN val ELSE target
    [] aggregate = "max" -> IF val > target THEN val ELSE target

ByCardinality(os) == SortSeq(os, LAMBDA a, b : zsetLength(a) < zsetLength(b))

zinter(os, aggregate) ==
  LET of(s) == [m \in Members |->
        IF \E j \in 1..Len(s) : m \notin In(s[j]) THEN None
        ELSE FoldLeft(LAMBDA t, o : zunionInterAggregate(t, zsetScore(o, m), aggregate), zsetScore(s[1], m), Tail(s))]
  IN of(ByCardinality(os))

zunion(os, aggregate) ==
  FoldLeft(LAMBDA acc, o : [m \in Members |->
             IF m \notin In(o) THEN acc[m]
             ELSE IF acc[m] = None THEN zsetScore(o, m) ELSE zunionInterAggregate(acc[m], zsetScore(o, m), aggregate)],
           [m \in Members |-> None], ByCardinality(os))

\* Each member of the first one is looked up in the others ...
zdiffAlgorithm1(os) ==
  [m \in Members |-> IF \E j \in 2..Len(os) : m \in In(os[j]) THEN None ELSE zsetScore(os[1], m)]

\* ... or the members of the others are removed from the first one, until nothing is left.
zdiffAlgorithm2(os) ==
  FoldLeft(LAMBDA acc, o : [m \in Members |-> IF m \in In(o) THEN None ELSE acc[m]], Contents(os[1]), Tail(os))

zdiff(ks, os) ==
  LET one == (Len(os) * zsetLength(os[1])) \div 2
      two == FoldLeft(LAMBDA t, o : t + zsetLength(o), 0, os)
  IN IF zsetLength(os[1]) = 0 \/ \E j \in 2..Len(ks) : ks[j] = ks[1] THEN [m \in Members |-> None]
     ELSE IF one <= two THEN zdiffAlgorithm1(os) ELSE zdiffAlgorithm2(os)

\* What is stored: a skiplist first, a listpack if it fits; nothing when there are no members.
Store(res, eles, h) ==
  IF eles = {} THEN NoKey
  ELSE zsetConvertToListpackIfNeeded(
         FoldLeft(LAMBDA w, m : InsertPair(w, <<m, res[m]>>, h), createZsetObject, SetToSortSeq(eles, <)), eles)

zunionInterDiffGenericCommand(os, c, h) ==
  LET of(res) == Store(res, {m \in Members : res[m] # None}, h)
  IN of(CASE c.how = "inter" -> zinter(os, c.agg) [] c.how = "union" -> zunion(os, c.agg) [] c.how = "diff" -> zdiff(c.srcs, os))

-----------------------------------------------------------------------------
(* The commands: the next object of the key, and whether assertions hold.  *)

OK(o) == [o |-> o, ok |-> TRUE]

zaddGenericCommand(o, c, h) ==
  LET o0 == IF o.enc # "none" THEN o ELSE IF MaxListpack = 0 \/ c.ele \in Long THEN createZsetObject ELSE createZsetListpackObject
  IN IF o.enc = "none" /\ c.f.xx THEN OK(o) ELSE zsetAdd(o0, c.score, c.ele, c.f, h)

\* The key goes with its last member.
Unlessempty(o) == IF zsetLength(o) = 0 THEN NoKey ELSE o

zremCommand(o, c) == IF o.enc = "none" THEN o ELSE Unlessempty(zsetDel(o, c.ele))

zremrangeGenericCommand(o, c) ==
  LET b == RankBounds(zsetLength(o), c.start, c.end)
      with(z) == [o EXCEPT !.z = z, !.dict = {m \in Members : z.n[m].score # None}]
  IN IF o.enc = "none" \/ (c.by = "rank" /\ b.empty) THEN o
     ELSE IF o.enc = "skiplist"
     THEN Unlessempty(with(IF c.by = "rank" THEN zslDeleteRangeByRank(o.z, b.start + 1, b.end + 1) ELSE zslDeleteRange(o.z, c.r)))
     ELSE Unlessempty([o EXCEPT !.lp = IF c.by = "rank" THEN zzlDeleteRangeByRank(@, b.start + 1, b.end + 1)
                                       ELSE zzlDeleteRange(@, c.r)])

genericZpopCommand(o, c) ==
  LET n == IF c.count > zsetLength(o) THEN zsetLength(o) ELSE c.count
      end(w) == IF w.enc = "skiplist" THEN (IF c.max THEN w.z.tail ELSE w.z.n[Header].fwd[1])
                ELSE w.lp[IF c.max THEN Len(w.lp) ELSE 1][1]
  IN IF o.enc = "none" THEN o ELSE Unlessempty(FoldLeft(LAMBDA w, i : zsetDel(w, end(w)), o, [i \in 1..n |-> i]))

\* ZRANGESTORE: a listpack at first, to which the members of the range are added.
zrangestoreCommand(o, c, h) ==
  LET f == [nx |-> FALSE, xx |-> FALSE, gt |-> FALSE, lt |-> FALSE, incr |-> FALSE]
      and(v, a) == [o |-> a.o, ok |-> v.ok /\ a.ok]
      of(ps) == IF ps = <<>> THEN OK(NoKey)
                ELSE FoldLeft(LAMBDA v, p : and(v, zsetAdd(v.o, p[2], p[1], f, h)), OK(createZsetListpackObject), ps)
  IN of(IF o.enc = "none" THEN <<>>
        ELSE IF c.by = "rank" THEN genericZrangebyrank(o, c.start, c.end, c.rev)
        ELSE genericZrangebyscore(o, c.r, c.offset, c.limit, c.rev))

call(d, c, h) ==
  CASE c.op = "zadd" -> zaddGenericCommand(d[c.k], c, h)
    [] c.op = "zrem" -> OK(zremCommand(d[c.k], c))
    [] c.op = "zremrange" -> OK(zremrangeGenericCommand(d[c.k], c))
    [] c.op = "zpop" -> OK(genericZpopCommand(d[c.k], c))
    [] c.op = "copy" -> OK(zsetDup(d[c.src], h))
    [] c.op = "zrangestore" -> zrangestoreCommand(d[c.src], c, h)
    [] c.op = "zalgebra" -> OK(zunionInterDiffGenericCommand([i \in 1..Len(c.srcs) |-> d[c.srcs[i]]], c, h))

-----------------------------------------------------------------------------
(* The same commands on scores by member: what they are defined to do.     *)

Ordered(f) == SetToSortSeq({<<m, f[m]>> : m \in {x \in Members : f[x] # None}},
                           LAMBDA p, q : p[2] < q[2] \/ (p[2] = q[2] /\ p[1] < q[1]))
Slice(s, start, end) ==
  LET at(i) == IF i < 0 THEN Len(s) + i ELSE i
  IN {s[i] : i \in {j \in 1..Len(s) : at(start) <= j - 1 /\ j - 1 <= at(end)}}
InSpec(s, r) == SelectSeq(s, LAMBDA p : zslValueGteMin(r, p) /\ zslValueLteMax(r, p))
Without(f, ps) == [m \in Members |-> IF \E p \in ps : p[1] = m THEN None ELSE f[m]]
Only(f, ps) == [m \in Members |-> IF \E p \in ps : p[1] = m THEN f[m] ELSE None]
Directed(s, rev) == IF rev THEN Reverse(s) ELSE s
Sum(F(_), ks) == FoldLeft(LAMBDA t, k : t + F(k), 0, ks)

\* ZADD: a new member unless XX, an update unless NX; GT and LT only let the score grow or shrink.
RefScore(cur, c) ==
  LET s == IF c.f.incr /\ cur # None THEN Plus(cur, c.score) ELSE c.score
      may == IF cur = None THEN ~c.f.xx ELSE ~c.f.nx /\ s # NaN /\ (c.f.gt => s > cur) /\ (c.f.lt => s < cur)
  IN IF may THEN s ELSE cur

RefCall(f, c) ==
  LET s == IF "k" \in DOMAIN c THEN Ordered(f[c.k]) ELSE <<>>
      of(k, m) == f[k][m]
      those(m) == SelectSeq(c.srcs, LAMBDA k : of(k, m) # None)
      vals(m) == {of(c.srcs[i], m) : i \in {j \in 1..Len(c.srcs) : of(c.srcs[j], m) # None}}
      agg(m) == IF c.agg = "sum" THEN Sum(LAMBDA k : of(k, m), those(m))
                ELSE IF c.agg = "min" THEN CHOOSE v \in vals(m) : \A u \in vals(m) : v <= u
                ELSE CHOOSE v \in vals(m) : \A u \in vals(m) : u <= v
  IN CASE c.op = "zadd" -> [f[c.k] EXCEPT ![c.ele] = RefScore(@, c)]
       [] c.op = "zrem" -> [f[c.k] EXCEPT ![c.ele] = None]
       [] c.op = "zremrange" -> Without(f[c.k], IF c.by = "rank" THEN Slice(s, c.start, c.end) ELSE ToSet(InSpec(s, c.r)))
       [] c.op = "zpop" -> Without(f[c.k], Slice(Directed(s, c.max), 0, c.count - 1))
       [] c.op = "copy" -> f[c.src]
       [] c.op = "zrangestore" ->
            LET t == Directed(Ordered(f[c.src]), c.rev)
            IN Only(f[c.src], IF c.by = "rank" THEN Slice(t, c.start, c.end)
                              ELSE IF c.limit = -1 THEN Slice(InSpec(t, c.r), c.offset, -1)
                              ELSE Slice(InSpec(t, c.r), c.offset, c.offset + c.limit - 1))
       [] c.op = "zalgebra" ->
            [m \in Members |->
               CASE c.how = "inter" -> IF Len(those(m)) = Len(c.srcs) THEN agg(m) ELSE None
                 [] c.how = "union" -> IF those(m) # <<>> THEN agg(m) ELSE None
                 [] c.how = "diff" -> IF \A i \in 2..Len(c.srcs) : of(c.srcs[i], m) = None THEN of(c.srcs[1], m) ELSE None]

-----------------------------------------------------------------------------
Options == {f \in [nx : BOOLEAN, xx : BOOLEAN, gt : BOOLEAN, lt : BOOLEAN, incr : BOOLEAN] :
              ~(f.nx /\ (f.xx \/ f.gt \/ f.lt)) /\ ~(f.gt /\ f.lt)}
NoSpec == [by |-> "score", min |-> 0, max |-> 0, minex |-> FALSE, maxex |-> FALSE]
Ranges == {[by |-> "rank", start |-> a, end |-> b, r |-> NoSpec] : a, b \in -2..1}
          \cup {[by |-> by, start |-> 0, end |-> 0, r |-> r] : by \in {"score", "lex"}, r \in RangeSpecs("score") \cup RangeSpecs("lex")}
SpecFits(g) == g.by = "rank" \/ g.by = g.r.by

\* Scores that clients give; increments may take a score out of what the bounds allow, those are not sent.
Scores == 0..MaxScore \cup (IF "inf" \in Ops THEN {Inf, -Inf} ELSE {}) \cup (IF "incr" \in Ops THEN {-1} ELSE {})

Requests ==
  [op : {"zadd"}, k : Keys, score : Scores, ele : Members, f : IF "options" \in Ops THEN Options
     ELSE {[nx |-> FALSE, xx |-> FALSE, gt |-> FALSE, lt |-> FALSE, incr |-> "incr" \in Ops]}]
  \cup [op : {"zrem"}, k : Keys, ele : Members]
  \cup {[op |-> "zremrange", k |-> k, by |-> g.by, start |-> g.start, end |-> g.end, r |-> g.r] : k \in Keys, g \in {x \in Ranges : SpecFits(x)}}
  \cup [op : {"zpop"}, k : Keys, max : BOOLEAN, count : 1..2]
  \cup [op : {"copy"}, k : Keys, src : Keys]
  \cup {[op |-> "zrangestore", k |-> k, src |-> q, by |-> g.by, start |-> g.start, end |-> g.end, r |-> g.r, rev |-> rev,
         offset |-> w[1], limit |-> w[2]] :
         k \in Keys, q \in Keys, g \in {x \in Ranges : x.by = "score" /\ SpecFits(x)}, rev \in BOOLEAN, w \in {<<0, -1>>, <<1, 1>>}}
  \cup {[op |-> "zrangestore", k |-> k, src |-> q, by |-> "rank", start |-> a, end |-> b, r |-> NoSpec, rev |-> rev,
         offset |-> 0, limit |-> -1] : k \in Keys, q \in Keys, a, b \in {-2, 0, 1}, rev \in BOOLEAN}
  \cup [op : {"zalgebra"}, k : Keys, how : {"inter", "union"}, agg : {"sum", "min", "max"},
        srcs : {<<a>> : a \in Keys} \cup {<<a, b>> : a, b \in Keys}]
  \cup [op : {"zalgebra"}, k : Keys, how : {"diff"}, agg : {"sum"}, srcs : {<<a>> : a \in Keys} \cup {<<a, b>> : a, b \in Keys}]

\* Ranges by member are for sets whose members have one score.
OneScore(f) == \A m, q \in Members : f[m] # None /\ f[q] # None => f[m] = f[q]

client(c, h) ==
  /\ c.op \in Ops
  /\ c.op = "zremrange" /\ c.by = "lex" => OneScore(ref[c.k])
  /\ c.op = "copy" => db[c.src].enc # "none" /\ c.k # c.src
  /\ \E f \in {RefCall(ref, c)} :
       /\ \A m \in Members : f[m] \in 0..MaxScore \cup {None, Inf, -Inf}
       /\ c.op = "zrangestore" => \A m \in Long : f[m] = None
       /\ ref' = [ref EXCEPT ![c.k] = f]
  /\ \E a \in {call(db, c, h)} : db' = [db EXCEPT ![c.k] = a.o] /\ failed' = (failed \/ ~a.ok)

Init == db = [k \in Keys |-> NoKey] /\ ref = [k \in Keys |-> [m \in Members |-> None]] /\ failed = FALSE

\* Only commands that insert draw heights.
Draws(c) == IF c.op \in {"zrem", "zremrange", "zpop"} THEN {[m \in Members |-> 1]} ELSE Heights

Next == \E c \in Requests : \E h \in Draws(c) : client(c, h)

Spec == Init /\ [][Next]_vars

-----------------------------------------------------------------------------
(* Properties.                                                             *)

\* Every level of the skiplist is a sublist of the lowest, its spans are the distances on the lowest, the backward
\* pointers mirror the forward ones, members are in order, and the dictionary has exactly the members
\* (zslInsert, zslDeleteNode, zslUpdateScore).
SkiplistSound(o, z, ps) ==
  LET pos(x) == IF x = Header THEN 0 ELSE IF x = NULL THEN z.length ELSE SelectInSeq(ps, LAMBDA p : p[1] = x)
      nodes == {Header} \cup o.dict
  IN /\ Len(ps) = z.length /\ o.dict = {ps[i][1] : i \in 1..Len(ps)}
     /\ \A i \in 1..Len(ps) - 1 : ps[i][2] < ps[i + 1][2] \/ (ps[i][2] = ps[i + 1][2] /\ ps[i][1] < ps[i + 1][1])
     /\ \A i \in 1..Len(ps) : z.n[ps[i][1]].back = IF i = 1 THEN NULL ELSE ps[i - 1][1]
     /\ z.tail = IF ps = <<>> THEN NULL ELSE ps[Len(ps)][1]
     /\ \A x \in nodes, i \in 1..z.level : i <= z.n[x].height =>
          LET next == {j \in pos(x) + 1..Len(ps) : z.n[ps[j][1]].height >= i}
          IN IF next = {} THEN z.n[x].fwd[i] = NULL /\ z.n[x].span[i] = z.length - pos(x)
             ELSE LET j == CHOOSE a \in next : \A b \in next : a <= b IN z.n[x].fwd[i] = ps[j][1] /\ z.n[x].span[i] = j - pos(x)
     /\ z.level = 1 \/ z.n[Header].fwd[z.level] # NULL

TypeOK == \A k \in Keys : db[k].enc = "skiplist" => SkiplistSound(db[k], db[k].z, Pairs(db[k]))

\* Whatever the encoding and the heights of the nodes, the keys hold what the commands say, and so the members are
\* the same after conversions, in-place updates of scores, and operations on several sets.
SameContents == \A k \in Keys : Contents(db[k]) = ref[k]

\* Ranks, ranges by position, by score and by member from either end, and counts are those of the ordered set.
ReadsAgree ==
  \A k \in Keys : \A o \in {db[k]}, s \in {Ordered(ref[k])} :
    /\ \A m \in Members : \A i \in {SelectInSeq(s, LAMBDA p : p[1] = m)} :
         /\ zsetRank(o, m, FALSE) = i - 1
         /\ zsetRank(o, m, TRUE) = IF i = 0 THEN NULL ELSE Len(s) - i
    /\ \A a, b \in -2..2, rev \in BOOLEAN :
         \A t \in {genericZrangebyrank(o, a, b, rev)} : ToSet(t) = Slice(Directed(s, rev), a, b) /\ Len(t) = Cardinality(ToSet(t))
    /\ \A r \in RangeSpecs("score") :
         /\ zcountCommand(o, r) = Len(InSpec(s, r))
         /\ \A off \in 0..1, rev \in BOOLEAN :
              genericZrangebyscore(o, r, off, -1, rev) = Skip(Directed(InSpec(s, r), rev), off)
    /\ OneScore(ref[k]) => \A r \in RangeSpecs("lex") :
         /\ zlexcountCommand(o, r) = Len(InSpec(s, r))
         /\ \A rev \in BOOLEAN : genericZrangebylexCommand(o, r, 0, -1, rev) = Directed(InSpec(s, r), rev)

\* There is no key without members.
NoEmptyKey == \A k \in Keys : db[k].enc # "none" => zsetLength(db[k]) > 0

\* A listpack has no more members, and no longer ones, than the configuration allows.
EncodingFits == \A k \in Keys : db[k].enc = "listpack" => Len(db[k].lp) <= MaxListpack /\ In(db[k]) \cap Long = {}

\* No assertion of the code fails.
AssertionsHold == ~failed
=============================================================================
