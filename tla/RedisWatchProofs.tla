-------------------------- MODULE RedisWatchProofs --------------------------
(***************************************************************************)
(* Theorems about RedisWatch, for any keys, clients and bounds.  The index *)
(* of the watches, queues and the absence of spurious aborts hold for a    *)
(* master and for a replica, the optimistic lock for a master.             *)
(***************************************************************************)
EXTENDS RedisWatch, TLAPS

-----------------------------------------------------------------------------
(* The table of watched keys.                                              *)

Tables ==
  [list : [Places -> SUBSET (Clients \X Clients)], expired : SUBSET (Clients \X Places),
   dirty : SUBSET Clients]

\* The list without the clients C.
Without(list, C) == {e \in list : e[1] \notin C /\ e[2] \notin C}

LEMMA Unwatched ==
  ASSUME NEW w \in Tables, NEW C
  PROVE  LET v == unwatchAllKeys(w, C)
         IN /\ v \in Tables /\ v.dirty = w.dirty
            /\ v.expired = {f \in w.expired : f[1] \notin C}
            /\ \A p \in Places : v.list[p] = Without(w.list[p], C)
            /\ \A p \in Places : Watchers(v, p) = Watchers(w, p) \ C
<1> DEFINE v == unwatchAllKeys(w, C)
           l == [p \in Places |-> Without(w.list[p], C)]
           x == {f \in w.expired : f[1] \notin C}
<1>1. /\ w.list \in [Places -> SUBSET (Clients \X Clients)]
      /\ w.expired \subseteq Clients \X Places /\ w.dirty \subseteq Clients
  BY DEF Tables
<1>2. v = [[w EXCEPT !.list = l] EXCEPT !.expired = x]
  BY DEF unwatchAllKeys, Without, Tables
<1>3. l \in [Places -> SUBSET (Clients \X Clients)] /\ x \subseteq Clients \X Places
  BY <1>1 DEF Without
<1>4. \A p \in Places : l[p] = Without(w.list[p], C)
  OBVIOUS
<1> HIDE DEF l, x
<1>5. v \in Tables /\ v.dirty = w.dirty /\ v.expired = x /\ v.list = l
  BY <1>2, <1>3 DEF Tables
<1> HIDE DEF v
<1>6. \A p \in Places : Watchers(v, p) = Watchers(w, p) \ C
  BY <1>4, <1>5 DEF Watchers, Without
<1> QED BY <1>4, <1>5, <1>6 DEF v, x

\* w with the clients D marked dirty, and their watches gone; the flags that
\* are left may differ.
Marked(w, v, D) ==
  /\ v \in Tables /\ v.dirty = w.dirty \cup D
  /\ \A f \in v.expired : f[1] \notin D
  /\ \A p \in Places : v.list[p] = Without(w.list[p], D)
  /\ \A p \in Places : Watchers(v, p) = Watchers(w, p) \ D

LEMMA DirtyMarks ==
  ASSUME NEW w \in Tables, NEW D \in SUBSET Clients
  PROVE  /\ Marked(w, Dirty(w, D), D)
         /\ Dirty(w, D).expired = {f \in w.expired : f[1] \notin D}
<1> DEFINE u == [w EXCEPT !.dirty = @ \cup D]
<1>1. /\ u \in Tables /\ u.dirty = w.dirty \cup D
      /\ u.list = w.list /\ u.expired = w.expired
  BY DEF Tables
<1>2. Dirty(w, D) = unwatchAllKeys(u, D)
  BY DEF Dirty
<1>3. \A p \in Places : Watchers(u, p) = Watchers(w, p)
  BY <1>1 DEF Watchers
<1> HIDE DEF u
<1> QED BY <1>1, <1>2, <1>3, Unwatched DEF Marked

\* Replacing the flags of a table leaves the rest alone.
LEMMA Reflagged ==
  ASSUME NEW w \in Tables, NEW x \in SUBSET (Clients \X Places)
  PROVE  LET v == [w EXCEPT !.expired = x]
         IN /\ v \in Tables /\ v.expired = x /\ v.list = w.list /\ v.dirty = w.dirty
            /\ \A p \in Places : Watchers(v, p) = Watchers(w, p)
<1> DEFINE v == [w EXCEPT !.expired = x]
<1>1. v \in Tables /\ v.expired = x /\ v.list = w.list /\ v.dirty = w.dirty
  BY DEF Tables
<1> HIDE DEF v
<1>2. \A p \in Places : Watchers(v, p) = Watchers(w, p)
  BY <1>1 DEF Watchers
<1> QED BY <1>1, <1>2 DEF v

\* Marking twice.
LEMMA MarkedTwice ==
  ASSUME NEW w \in Tables, NEW u, NEW v, NEW D, NEW E,
         Marked(w, u, D), Marked(u, v, E), \A f \in v.expired : f[1] \notin D
  PROVE  Marked(w, v, D \cup E)
BY DEF Marked, Without

\* A table in which lists, flags and dirty clients agree.
TableOK(w) ==
  /\ w \in Tables
  /\ \A p \in Places : InOrder(w.list[p])
  /\ \A p \in Places : \A c \in Watchers(w, p) : c \notin w.dirty
  /\ \A f \in w.expired : f[1] \in Watchers(w, f[2])

LEMMA OrderWithout ==
  ASSUME NEW list \in SUBSET (Clients \X Clients), InOrder(list), NEW C
  PROVE  InOrder(Without(list, C))
<1> DEFINE l == Without(list, C)
<1>1. \A a, b \in Clients : <<a, b>> \in l <=> <<a, b>> \in list /\ a \notin C /\ b \notin C
  BY DEF Without
<1>2. \A e \in l : e \in list /\ e = <<e[1], e[2]>> /\ e[1] \in Clients /\ e[2] \in Clients
                   /\ e[1] \notin C /\ e[2] \notin C
  BY DEF Without
<1> HIDE DEF l
<1>3. \A e \in l : <<e[1], e[1]>> \in l /\ <<e[2], e[2]>> \in l
  <2> SUFFICES ASSUME NEW e \in l PROVE <<e[1], e[1]>> \in l /\ <<e[2], e[2]>> \in l
    OBVIOUS
  <2>1. e \in list /\ e[1] \in Clients /\ e[2] \in Clients /\ e[1] \notin C /\ e[2] \notin C
    BY <1>2
  <2>2. <<e[1], e[1]>> \in list /\ <<e[2], e[2]>> \in list
    BY <2>1 DEF InOrder
  <2> QED BY <1>1, <2>1, <2>2
<1>4. ASSUME NEW a \in Clients, NEW b \in Clients, <<a, a>> \in l, <<b, b>> \in l
      PROVE  /\ <<a, b>> \in l \/ <<b, a>> \in l
             /\ <<a, b>> \in l /\ <<b, a>> \in l => a = b
             /\ \A c \in Clients : <<a, b>> \in l /\ <<b, c>> \in l => <<a, c>> \in l
  BY <1>1, <1>4 DEF InOrder
<1> QED BY <1>3, <1>4 DEF InOrder, l

LEMMA MarkedOK ==
  ASSUME NEW w, TableOK(w), NEW v, NEW D, Marked(w, v, D),
         \A f \in v.expired : f[1] \in Watchers(w, f[2])
  PROVE  TableOK(v)
<1>1. \A p \in Places : InOrder(v.list[p])
  BY OrderWithout DEF TableOK, Marked, Tables
<1>2. \A p \in Places : \A c \in Watchers(v, p) : c \notin v.dirty
  BY DEF TableOK, Marked
<1>3. \A f \in v.expired : f[1] \in Watchers(v, f[2])
  <2>1. \A f \in v.expired : f[2] \in Places
    BY DEF Marked, Tables
  <2> QED BY <2>1 DEF Marked
<1> QED BY <1>1, <1>2, <1>3 DEF TableOK, Marked

\* The key of p is deleted: all that did not watch it as expired are dirty.
LEMMA TouchedGone ==
  ASSUME NEW w \in Tables, NEW p \in Places
  PROVE  LET v == touchWatchedKey(w, p, FALSE)
             D == Watchers(w, p) \ Expired(w, p)
         IN /\ D \subseteq Clients /\ Marked(w, v, D)
            /\ v.expired = {f \in w.expired : f[1] \notin D /\ f[2] # p}
<1> DEFINE D == Watchers(w, p) \ Expired(w, p)
           u == Dirty(w, D)
           x == {f \in u.expired : f[2] # p}
           v == [u EXCEPT !.expired = x]
<1>1. D \subseteq Clients
  BY DEF Watchers
<1>2. touchWatchedKey(w, p, FALSE) = [u EXCEPT !.expired = {f \in @ : f[2] # p}]
  BY DEF touchWatchedKey
<1> HIDE DEF D
<1>3. Marked(w, u, D) /\ u.expired = {f \in w.expired : f[1] \notin D}
  BY <1>1, DirtyMarks
<1> HIDE DEF u
<1>4. u \in Tables
  BY <1>3 DEF Marked
<1>5. touchWatchedKey(w, p, FALSE) = v
  BY <1>2, <1>4 DEF Tables
<1>6. x \in SUBSET (Clients \X Places)
  BY <1>4 DEF Tables
<1>7. x = {f \in w.expired : f[1] \notin D /\ f[2] # p}
  BY <1>3
<1> HIDE DEF x
<1>8. v \in Tables /\ v.expired = x /\ v.list = u.list /\ v.dirty = u.dirty
      /\ \A q \in Places : Watchers(v, q) = Watchers(u, q)
  BY <1>4, <1>6, Reflagged
<1> HIDE DEF v
<1>9. Marked(w, v, D)
  BY <1>3, <1>7, <1>8 DEF Marked
<1> QED BY <1>1, <1>5, <1>7, <1>8, <1>9 DEF D

\* The key of p is written: the loop may stop early, at a flag.
LEMMA TouchedThere ==
  ASSUME NEW w \in Tables, NEW p \in Places
  PROVE  \E D \in SUBSET Clients :
            /\ Marked(w, touchWatchedKey(w, p, TRUE), D)
            /\ touchWatchedKey(w, p, TRUE).expired = {f \in w.expired : f[1] \notin D}
            /\ D \subseteq Watchers(w, p)
            /\ Expired(w, p) = {} => D = Watchers(w, p)
<1> DEFINE D == {c \in Watchers(w, p) : \A b \in Expired(w, p) : <<b, c>> \notin w.list[p]}
<1>1. D \in SUBSET Clients /\ D \subseteq Watchers(w, p)
  BY DEF Watchers
<1>2. Expired(w, p) = {} => D = Watchers(w, p)
  OBVIOUS
<1>3. touchWatchedKey(w, p, TRUE) = Dirty(w, D)
  BY DEF touchWatchedKey
<1> HIDE DEF D
<1>4. /\ Marked(w, touchWatchedKey(w, p, TRUE), D)
      /\ touchWatchedKey(w, p, TRUE).expired = {f \in w.expired : f[1] \notin D}
  BY <1>1, <1>3, DirtyMarks
<1> QED BY <1>1, <1>2, <1>4

\* FLUSHDB or SWAPDB turns the entry e of place p into g: c may go on, and its
\* watch has the flag afterwards.
Keeps(w, c, p, e, g) ==
  \/ e.ver = 0 /\ g.ver = 0
  \/ <<c, p>> \in w.expired /\ (g.ver = 0 \/ keyIsExpired(g))
  \/ <<c, p>> \notin w.expired /\ e.ver = 0 /\ keyIsExpired(g)

FlagAfter(w, c, p, e, g) ==
  \/ <<c, p>> \in w.expired /\ (g.ver # 0 \/ e.ver = 0)
  \/ <<c, p>> \notin w.expired /\ e.ver = 0 /\ g.ver # 0 /\ keyIsExpired(g)

\* The places S have got the entries new instead of old.
Replaced(w, v, D, S, old, new) ==
  /\ Marked(w, v, D)
  /\ \A c \in D : \E p \in S : c \in Watchers(w, p) /\ ~Keeps(w, c, p, old[p], new[p])
  /\ \A c \in Clients \ D, p \in S : c \in Watchers(w, p) => Keeps(w, c, p, old[p], new[p])
  /\ \A c \in Clients \ D, p \in Places :
       <<c, p>> \in v.expired <=>
          /\ c \in Watchers(w, p)
          /\ \/ p \in S /\ FlagAfter(w, c, p, old[p], new[p])
             \/ p \notin S /\ <<c, p>> \in w.expired

PlacesOf(d) == {p \in Places : p[1] = d}

LEMMA TouchedDb ==
  ASSUME NEW w \in Tables, \A f \in w.expired : f[1] \in Watchers(w, f[2]),
         NEW d, NEW oldk, NEW newk, NEW old, NEW new,
         \A p \in PlacesOf(d) : oldk[p[2]] = old[p] /\ newk[p[2]] = new[p]
  PROVE  \E D \in SUBSET Clients :
            Replaced(w, touchAllWatchedKeysInDb(w, d, oldk, newk), D, PlacesOf(d), old, new)
<1> DEFINE k(p) == p[2]
           hit == {p \in Places : p[1] = d /\ (oldk[k(p)].ver # 0 \/ newk[k(p)].ver # 0)}
           gone(c, p) == c \in Expired(w, p) /\ newk[k(p)].ver = 0
           still(c, p) == c \in Expired(w, p) /\ keyIsExpired(newk[k(p)])
           becomes(c, p) == c \notin Expired(w, p) /\ oldk[k(p)].ver = 0 /\ keyIsExpired(newk[k(p)])
           spared(c, p) == gone(c, p) \/ still(c, p) \/ becomes(c, p)
           flags == {f \in Clients \X hit : f[1] \in Watchers(w, f[2]) /\ becomes(f[1], f[2])}
           clears == {f \in w.expired : f[2] \in hit /\ gone(f[1], f[2])}
           dirt == {c \in Clients : \E p \in hit : c \in Watchers(w, p) /\ ~spared(c, p)}
           x == (w.expired \ clears) \cup flags
           u == [w EXCEPT !.expired = x]
           v == Dirty(u, dirt)
<1>1. touchAllWatchedKeysInDb(w, d, oldk, newk) = v
  BY DEF touchAllWatchedKeysInDb, Tables
<1>2. w.expired \subseteq Clients \X Places
  BY DEF Tables
<1>3. x \in SUBSET (Clients \X Places)
  <2>1. flags \subseteq Clients \X Places
    <3> HIDE DEF becomes
    <3> QED OBVIOUS
  <2> HIDE DEF flags, clears
  <2> QED BY <1>2, <2>1
<1>4. dirt \in SUBSET Clients
  OBVIOUS
<1>5. \A c \in Clients, p \in Places : <<c, p>> \in w.expired <=> c \in Expired(w, p)
  BY DEF Expired
<1>6. \A p \in Places : p \in hit <=> p \in PlacesOf(d) /\ (old[p].ver # 0 \/ new[p].ver # 0)
  BY DEF PlacesOf
<1>7. ASSUME NEW c \in Clients, NEW p \in PlacesOf(d)
      PROVE  Keeps(w, c, p, old[p], new[p]) <=> p \notin hit \/ spared(c, p)
  <2>1. p \in Places /\ oldk[p[2]] = old[p] /\ newk[p[2]] = new[p]
    BY DEF PlacesOf
  <2> HIDE DEF hit
  <2> QED BY <1>5, <1>6, <2>1 DEF Keeps
<1>8. ASSUME NEW c \in Clients, NEW p \in Places
      PROVE  <<c, p>> \in x <=>
                /\ c \in Watchers(w, p)
                /\ \/ p \in PlacesOf(d) /\ FlagAfter(w, c, p, old[p], new[p])
                   \/ p \notin PlacesOf(d) /\ <<c, p>> \in w.expired
  <2>1. <<c, p>> \in flags <=> p \in hit /\ c \in Watchers(w, p) /\ becomes(c, p)
    <3> HIDE DEF hit, becomes
    <3> QED OBVIOUS
  <2>2. <<c, p>> \in clears <=> <<c, p>> \in w.expired /\ p \in hit /\ gone(c, p)
    <3> HIDE DEF hit, gone
    <3> QED OBVIOUS
  <2>3. <<c, p>> \in w.expired => c \in Watchers(w, p)
    OBVIOUS
  <2>4. p \in PlacesOf(d) => oldk[k(p)] = old[p] /\ newk[k(p)] = new[p]
    OBVIOUS
  <2>5. <<c, p>> \in x <=> (<<c, p>> \in w.expired /\ <<c, p>> \notin clears) \/ <<c, p>> \in flags
    OBVIOUS
  <2> HIDE DEF x, clears, flags, hit
  <2>6. becomes(c, p) <=> <<c, p>> \notin w.expired /\ oldk[k(p)].ver = 0 /\ keyIsExpired(newk[k(p)])
    BY <1>5
  <2>7. gone(c, p) <=> <<c, p>> \in w.expired /\ newk[k(p)].ver = 0
    BY <1>5
  <2> HIDE DEF becomes, gone, k
  <2> QED BY <1>6, <2>1, <2>2, <2>3, <2>4, <2>5, <2>6, <2>7 DEF FlagAfter
<1>9. \A c \in dirt : \E p \in PlacesOf(d) : c \in Watchers(w, p) /\ ~Keeps(w, c, p, old[p], new[p])
  <2> SUFFICES ASSUME NEW c \in dirt
               PROVE  \E p \in PlacesOf(d) : c \in Watchers(w, p) /\ ~Keeps(w, c, p, old[p], new[p])
    OBVIOUS
  <2>1. PICK p \in hit : c \in Watchers(w, p) /\ ~spared(c, p)
    <3> HIDE DEF hit, spared
    <3> QED OBVIOUS
  <2>2. p \in PlacesOf(d) /\ c \in Clients
    <3>1. p \in PlacesOf(d)
      BY DEF PlacesOf
    <3> QED BY <1>4, <3>1
  <2> HIDE DEF hit, spared
  <2> QED BY <1>7, <2>1, <2>2
<1>10. \A c \in Clients \ dirt, p \in PlacesOf(d) : c \in Watchers(w, p) => Keeps(w, c, p, old[p], new[p])
  <2> SUFFICES ASSUME NEW c \in Clients \ dirt, NEW p \in PlacesOf(d), c \in Watchers(w, p)
               PROVE  p \notin hit \/ spared(c, p)
    BY <1>7
  <2> HIDE DEF hit, spared
  <2> QED OBVIOUS
<1> HIDE DEF dirt, x, hit, spared
<1>11. /\ u \in Tables /\ u.expired = x /\ u.list = w.list /\ u.dirty = w.dirty
       /\ \A p \in Places : Watchers(u, p) = Watchers(w, p)
  BY <1>3, Reflagged
<1> HIDE DEF u
<1>12. Marked(u, v, dirt) /\ v.expired = {f \in u.expired : f[1] \notin dirt}
  BY <1>4, <1>11, DirtyMarks
<1> HIDE DEF v
<1>13. Marked(w, v, dirt)
  BY <1>11, <1>12 DEF Marked
<1>14. \A c \in Clients \ dirt, p \in Places : <<c, p>> \in v.expired <=> <<c, p>> \in x
  BY <1>11, <1>12
<1>15. \A c \in Clients \ dirt, p \in Places :
         <<c, p>> \in v.expired <=>
            /\ c \in Watchers(w, p)
            /\ \/ p \in PlacesOf(d) /\ FlagAfter(w, c, p, old[p], new[p])
               \/ p \notin PlacesOf(d) /\ <<c, p>> \in w.expired
  BY <1>8, <1>14
<1>16. Replaced(w, v, dirt, PlacesOf(d), old, new)
  BY <1>9, <1>10, <1>13, <1>15 DEF Replaced
<1> QED BY <1>1, <1>4, <1>16

LEMMA ReplacedOK ==
  ASSUME NEW w, TableOK(w), NEW v, NEW D, NEW S, NEW old, NEW new, Replaced(w, v, D, S, old, new)
  PROVE  TableOK(v)
<1>1. Marked(w, v, D)
  BY DEF Replaced
<1>2. ASSUME NEW f \in v.expired PROVE f[1] \in Watchers(w, f[2])
  <2>1. f[1] \in Clients /\ f[2] \in Places /\ f = <<f[1], f[2]>> /\ f[1] \notin D
    BY <1>1 DEF Marked, Tables
  <2> QED BY <2>1 DEF Replaced
<1> QED BY <1>1, <1>2, MarkedOK

\* One database after the other.
LEMMA ReplacedTwice ==
  ASSUME NEW w, TableOK(w), NEW u, NEW v, NEW D \in SUBSET Clients, NEW E \in SUBSET Clients,
         NEW d, NEW e, d # e, NEW old, NEW new,
         Replaced(w, u, D, PlacesOf(d), old, new), Replaced(u, v, E, PlacesOf(e), old, new)
  PROVE  Replaced(w, v, D \cup E, PlacesOf(d) \cup PlacesOf(e), old, new)
<1>1. Marked(w, u, D) /\ Marked(u, v, E)
  BY DEF Replaced
<1>2. TableOK(u) /\ TableOK(v)
  BY ReplacedOK
<1>3. \A p \in Places : Watchers(u, p) = Watchers(w, p) \ D /\ Watchers(v, p) = Watchers(u, p) \ E
  BY <1>1 DEF Marked
<1>4. \A f \in v.expired : f[1] \notin D
  <2>1. \A f \in v.expired : f[2] \in Places
    BY <1>1 DEF Marked, Tables
  <2> QED BY <1>2, <1>3, <2>1 DEF TableOK
<1>5. Marked(w, v, D \cup E)
  BY <1>1, <1>4, MarkedTwice DEF TableOK
<1>6. PlacesOf(d) \subseteq Places /\ PlacesOf(e) \subseteq Places
      /\ \A p \in PlacesOf(e) : p \notin PlacesOf(d)
  BY DEF PlacesOf
<1>7. \A c \in Clients, p \in Places : <<c, p>> \in w.expired => c \in Watchers(w, p)
  BY DEF TableOK
<1>8. \A c \in Clients \ D, p \in Places : p \notin PlacesOf(d) =>
        (<<c, p>> \in u.expired <=> <<c, p>> \in w.expired)
  BY <1>7 DEF Replaced
<1>9. ASSUME NEW c \in Clients \ D, NEW p \in PlacesOf(e)
      PROVE  /\ Keeps(u, c, p, old[p], new[p]) <=> Keeps(w, c, p, old[p], new[p])
             /\ FlagAfter(u, c, p, old[p], new[p]) <=> FlagAfter(w, c, p, old[p], new[p])
  BY <1>6, <1>8 DEF Keeps, FlagAfter
<1>10. ASSUME NEW c \in D \cup E
       PROVE  \E p \in PlacesOf(d) \cup PlacesOf(e) :
                 c \in Watchers(w, p) /\ ~Keeps(w, c, p, old[p], new[p])
  <2>1. CASE c \in D
    BY <2>1 DEF Replaced
  <2>2. CASE c \in E /\ c \notin D
    <3>1. PICK p \in PlacesOf(e) : c \in Watchers(u, p) /\ ~Keeps(u, c, p, old[p], new[p])
      BY <2>2 DEF Replaced
    <3> QED BY <1>3, <1>6, <1>9, <2>2, <3>1
  <2> QED BY <2>1, <2>2
<1>11. ASSUME NEW c \in Clients \ (D \cup E), NEW p \in PlacesOf(d) \cup PlacesOf(e), c \in Watchers(w, p)
       PROVE  Keeps(w, c, p, old[p], new[p])
  <2>1. CASE p \in PlacesOf(d)
    BY <1>11, <2>1 DEF Replaced
  <2>2. CASE p \in PlacesOf(e)
    <3>1. c \in Watchers(u, p)
      BY <1>3, <1>6, <1>11, <2>2
    <3>2. Keeps(u, c, p, old[p], new[p])
      BY <2>2, <3>1 DEF Replaced
    <3> QED BY <1>9, <2>2, <3>2
  <2> QED BY <2>1, <2>2
<1>12. ASSUME NEW c \in Clients \ (D \cup E), NEW p \in Places
       PROVE  <<c, p>> \in v.expired <=>
                /\ c \in Watchers(w, p)
                /\ \/ p \in PlacesOf(d) \cup PlacesOf(e) /\ FlagAfter(w, c, p, old[p], new[p])
                   \/ p \notin PlacesOf(d) \cup PlacesOf(e) /\ <<c, p>> \in w.expired
  <2>1. c \in Watchers(u, p) <=> c \in Watchers(w, p)
    BY <1>3
  <2>2. <<c, p>> \in v.expired <=>
           /\ c \in Watchers(u, p)
           /\ \/ p \in PlacesOf(e) /\ FlagAfter(u, c, p, old[p], new[p])
              \/ p \notin PlacesOf(e) /\ <<c, p>> \in u.expired
    BY DEF Replaced
  <2>3. <<c, p>> \in u.expired <=>
           /\ c \in Watchers(w, p)
           /\ \/ p \in PlacesOf(d) /\ FlagAfter(w, c, p, old[p], new[p])
              \/ p \notin PlacesOf(d) /\ <<c, p>> \in w.expired
    BY DEF Replaced
  <2> QED BY <1>6, <1>9, <2>1, <2>2, <2>3
<1> QED BY <1>5, <1>10, <1>11, <1>12 DEF Replaced

-----------------------------------------------------------------------------
(* What a write does to the table.                                         *)

\* An entry that expires is there, versions are unique and no newer than the
\* last write.
DbOK ==
  /\ \A p \in Places : db[p].exp # 0 => db[p].ver # 0
  /\ \A p \in Places : db[p].ver <= writes
  /\ \A p, q \in Places : p # q /\ db[p].ver # 0 => db[p].ver # db[q].ver
  /\ \A c \in Clients, p \in Places : snap[c][p] <= writes

LEMMA MarkedNone ==
  ASSUME NEW w \in Tables
  PROVE  Marked(w, w, {})
<1>1. \A p \in Places : w.list[p] = Without(w.list[p], {})
  BY DEF Without, Tables
<1> QED BY <1>1 DEF Marked

\* The key of p is deleted from the dict, by DEL or since it is expired.
KeyGone(p) ==
  LET D == IF db[p].ver # 0 THEN Watchers(wk, p) \ Expired(wk, p) ELSE {}
  IN /\ Marked(wk, wk', D)
     /\ wk'.expired = {f \in wk.expired : f[1] \notin D /\ (db[p].ver # 0 => f[2] # p)}
     /\ db' = [db EXCEPT ![p] = Absent]

LEMMA GoneTable ==
  ASSUME wk \in Tables, NEW p \in Places, db' = [db EXCEPT ![p] = Absent],
         wk' = IF db[p].ver # 0 THEN touchWatchedKey(wk, p, FALSE) ELSE wk
  PROVE  KeyGone(p)
<1>1. CASE db[p].ver # 0
  <2> DEFINE D == Watchers(wk, p) \ Expired(wk, p)
  <2>1. Marked(wk, wk', D) /\ wk'.expired = {f \in wk.expired : f[1] \notin D /\ f[2] # p}
    BY <1>1, TouchedGone
  <2> HIDE DEF D
  <2>2. wk'.expired = {f \in wk.expired : f[1] \notin D /\ (db[p].ver # 0 => f[2] # p)}
    BY <1>1, <2>1
  <2>3. D = IF db[p].ver # 0 THEN Watchers(wk, p) \ Expired(wk, p) ELSE {}
    BY <1>1 DEF D
  <2> QED BY <2>1, <2>2, <2>3 DEF KeyGone
<1>2. CASE db[p].ver = 0
  <2>1. Marked(wk, wk', {}) /\ wk' = wk
    BY <1>2, MarkedNone
  <2>2. wk'.expired = {f \in wk.expired : f[1] \notin {} /\ (db[p].ver # 0 => f[2] # p)}
    BY <1>2, <2>1 DEF Tables
  <2> QED BY <1>2, <2>1, <2>2 DEF KeyGone
<1> QED BY <1>1, <1>2

LEMMA DelTable ==
  ASSUME wk \in Tables, DbOK, NEW p \in Places, delGenericCommand(p)
  PROVE  KeyGone(p)
<1>1. keyIsExpired(db[p]) => db[p].ver # 0
  BY DEF keyIsExpired, DbOK
<1>2. db' = [db EXCEPT ![p] = Absent]
  BY DEF delGenericCommand
<1>3. wk' = IF db[p].ver # 0 THEN touchWatchedKey(wk, p, FALSE) ELSE wk
  <2>1. CASE ~Replica /\ keyIsExpired(db[p])
    BY <1>1, <2>1 DEF delGenericCommand, expireIfNeeded, Present, Absent
  <2>2. CASE ~(~Replica /\ keyIsExpired(db[p]))
    BY <2>2 DEF delGenericCommand, expireIfNeeded, Present
  <2> QED BY <2>1, <2>2
<1> QED BY <1>2, <1>3, GoneTable

LEMMA ExpireTable ==
  ASSUME wk \in Tables, DbOK, NEW p \in Places, Expire(p)
  PROVE  KeyGone(p)
<1>1. keyIsExpired(db[p]) => db[p].ver # 0
  BY DEF keyIsExpired, DbOK
<1>2. db' = [db EXCEPT ![p] = Absent] /\ wk' = touchWatchedKey(wk, p, FALSE) /\ db[p].ver # 0
  BY <1>1 DEF Expire, expireIfNeeded
<1> QED BY <1>2, GoneTable

\* The key of p is written.
KeySet(p, ttl, D) ==
  /\ Marked(wk, wk', D) /\ D \subseteq Watchers(wk, p)
  /\ wk'.expired \subseteq wk.expired
  /\ \A c \in Clients \ D, q \in Places \ {p} : <<c, q>> \in wk.expired => <<c, q>> \in wk'.expired
  /\ ~Replica /\ (Expired(wk, p) # {} => keyIsExpired(db[p])) => D = Watchers(wk, p)
  /\ writes < MaxWrites /\ writes' = writes + 1
  /\ db' = [db EXCEPT ![p] = [ver |-> writes + 1, exp |-> IF ttl THEN now + 1 ELSE 0]]

LEMMA SetTable ==
  ASSUME wk \in Tables, NEW p \in Places, NEW ttl, setGenericCommand(p, ttl)
  PROVE  \E D \in SUBSET Clients : KeySet(p, ttl, D)
<1>1. /\ writes < MaxWrites /\ writes' = writes + 1
      /\ db' = [db EXCEPT ![p] = [ver |-> writes + 1, exp |-> IF ttl THEN now + 1 ELSE 0]]
  BY DEF setGenericCommand
<1>2. CASE ~Replica /\ keyIsExpired(db[p])
  <2> DEFINE u == touchWatchedKey(wk, p, FALSE)
             D == Watchers(wk, p) \ Expired(wk, p)
  <2>1. wk' = touchWatchedKey(u, p, TRUE)
    BY <1>2 DEF setGenericCommand, expireIfNeeded
  <2>2. /\ D \subseteq Clients /\ Marked(wk, u, D)
        /\ u.expired = {f \in wk.expired : f[1] \notin D /\ f[2] # p}
    BY TouchedGone
  <2> HIDE DEF u
  <2>3. u \in Tables
    BY <2>2 DEF Marked
  <2>4. PICK E \in SUBSET Clients :
            /\ Marked(u, wk', E)
            /\ wk'.expired = {f \in u.expired : f[1] \notin E}
            /\ E \subseteq Watchers(u, p)
            /\ Expired(u, p) = {} => E = Watchers(u, p)
    BY <2>1, <2>3, TouchedThere
  <2>5. Expired(u, p) = {}
    BY <2>2 DEF Expired
  <2>6. Watchers(u, p) = Watchers(wk, p) \ D
    BY <2>2 DEF Marked
  <2>7. D \cup E = Watchers(wk, p)
    BY <2>4, <2>5, <2>6
  <2>8. Marked(wk, wk', D \cup E)
    BY <2>2, <2>4, MarkedTwice
  <2>9. \A c \in Clients \ (D \cup E), q \in Places \ {p} :
          <<c, q>> \in wk.expired => <<c, q>> \in wk'.expired
    BY <2>2, <2>4
  <2>10. wk'.expired \subseteq wk.expired
    BY <2>2, <2>4
  <2>11. D \cup E \in SUBSET Clients
    BY <2>2
  <2> HIDE DEF D
  <2>12. KeySet(p, ttl, D \cup E)
    BY <1>1, <2>7, <2>8, <2>9, <2>10 DEF KeySet
  <2> QED BY <2>11, <2>12
<1>3. CASE ~(~Replica /\ keyIsExpired(db[p]))
  <2>1. wk' = touchWatchedKey(wk, p, TRUE)
    BY <1>3 DEF setGenericCommand, expireIfNeeded
  <2>2. PICK E \in SUBSET Clients :
            /\ Marked(wk, wk', E)
            /\ wk'.expired = {f \in wk.expired : f[1] \notin E}
            /\ E \subseteq Watchers(wk, p)
            /\ Expired(wk, p) = {} => E = Watchers(wk, p)
    BY <2>1, TouchedThere
  <2>3. KeySet(p, ttl, E)
    BY <1>1, <1>3, <2>2 DEF KeySet
  <2> QED BY <2>3
<1> QED BY <1>2, <1>3

LEMMA CleanTable ==
  ASSUME NEW w, TableOK(w), NEW c
  PROVE  LET v == Clean(w, c)
         IN /\ TableOK(v) /\ v.dirty = w.dirty \ {c}
            /\ v.expired = {f \in w.expired : f[1] # c}
            /\ \A p \in Places : Watchers(v, p) = Watchers(w, p) \ {c}
<1> DEFINE u == unwatchAllKeys(w, {c})
           v == Clean(w, c)
<1>1. /\ u \in Tables /\ u.dirty = w.dirty
      /\ u.expired = {f \in w.expired : f[1] \notin {c}}
      /\ \A p \in Places : u.list[p] = Without(w.list[p], {c})
      /\ \A p \in Places : Watchers(u, p) = Watchers(w, p) \ {c}
  BY Unwatched DEF TableOK
<1>2. v = [u EXCEPT !.dirty = @ \ {c}]
  BY DEF Clean
<1> HIDE DEF u
<1>3. v \in Tables /\ v.dirty = w.dirty \ {c} /\ v.expired = u.expired /\ v.list = u.list
  BY <1>1, <1>2 DEF Tables
<1> HIDE DEF v
<1>4. \A p \in Places : Watchers(v, p) = Watchers(w, p) \ {c}
  BY <1>1, <1>3 DEF Watchers
<1>5. \A p \in Places : InOrder(v.list[p])
  BY <1>1, <1>3, OrderWithout DEF TableOK, Tables
<1>6. \A f \in v.expired : f[1] \in Watchers(v, f[2])
  <2>1. \A f \in v.expired : f[2] \in Places
    BY <1>3 DEF Tables
  <2> QED BY <1>1, <1>3, <1>4, <2>1 DEF TableOK
<1>7. v.expired = {f \in w.expired : f[1] # c}
  BY <1>1, <1>3
<1>8. TableOK(v)
  BY <1>3, <1>4, <1>5, <1>6 DEF TableOK
<1> QED BY <1>3, <1>4, <1>7, <1>8 DEF v

LEMMA OrderAppend ==
  ASSUME NEW list \in SUBSET (Clients \X Clients), InOrder(list), NEW c \in Clients, <<c, c>> \notin list
  PROVE  InOrder(list \cup {<<b, c>> : b \in {a \in Clients : <<a, a>> \in list} \cup {c}})
<1> DEFINE W == {a \in Clients : <<a, a>> \in list}
           l == list \cup {<<b, c>> : b \in W \cup {c}}
<1>1. \A a \in Clients : <<a, c>> \notin list /\ <<c, a>> \notin list
  <2> SUFFICES ASSUME NEW a \in Clients PROVE <<a, c>> \notin list /\ <<c, a>> \notin list
    OBVIOUS
  <2>1. <<a, c>>[2] = c /\ <<c, a>>[1] = c
    OBVIOUS
  <2> QED BY <2>1 DEF InOrder
<1>2. \A a, b \in Clients : <<a, b>> \in l <=> <<a, b>> \in list \/ (b = c /\ (<<a, a>> \in list \/ a = c))
  OBVIOUS
<1>3. \A a, b \in Clients : <<a, b>> \in list => <<a, a>> \in list /\ <<b, b>> \in list
  <2> SUFFICES ASSUME NEW a \in Clients, NEW b \in Clients, <<a, b>> \in list
               PROVE  <<a, a>> \in list /\ <<b, b>> \in list
    OBVIOUS
  <2>1. <<a, b>>[1] = a /\ <<a, b>>[2] = b
    OBVIOUS
  <2> QED BY <2>1 DEF InOrder
<1>4. \A e \in l : e[1] \in Clients /\ e[2] \in Clients /\ e = <<e[1], e[2]>>
  <2>1. W \cup {c} \subseteq Clients
    OBVIOUS
  <2> HIDE DEF W
  <2>2. l \subseteq Clients \X Clients
    BY <2>1
  <2> HIDE DEF l
  <2> QED BY <2>2
<1> HIDE DEF l, W
<1>5. \A e \in l : <<e[1], e[1]>> \in l /\ <<e[2], e[2]>> \in l
  <2> SUFFICES ASSUME NEW e \in l PROVE <<e[1], e[1]>> \in l /\ <<e[2], e[2]>> \in l
    OBVIOUS
  <2>1. PICK a, b \in Clients : a = e[1] /\ b = e[2] /\ <<a, b>> \in l
    BY <1>4
  <2>2. <<a, a>> \in l /\ <<b, b>> \in l
    BY <1>2, <1>3, <2>1
  <2> QED BY <2>1, <2>2
<1>6. ASSUME NEW a \in Clients, NEW b \in Clients, <<a, a>> \in l, <<b, b>> \in l
      PROVE  /\ <<a, b>> \in l \/ <<b, a>> \in l
             /\ <<a, b>> \in l /\ <<b, a>> \in l => a = b
             /\ \A d \in Clients : <<a, b>> \in l /\ <<b, d>> \in l => <<a, d>> \in l
  <2>1. <<a, b>> \in l \/ <<b, a>> \in l
    BY <1>2, <1>6 DEF InOrder
  <2>2. <<a, b>> \in l /\ <<b, a>> \in l => a = b
    BY <1>1, <1>2, <1>3 DEF InOrder
  <2>3. \A d \in Clients : <<a, b>> \in l /\ <<b, d>> \in l => <<a, d>> \in l
    BY <1>1, <1>2, <1>3 DEF InOrder
  <2> QED BY <2>1, <2>2, <2>3
<1>7. InOrder(l)
  BY <1>5, <1>6 DEF InOrder
<1> QED BY <1>7 DEF l, W

\* A new watch.
LEMMA WatchTable ==
  ASSUME TableOK(wk), NEW c \in Clients, NEW p \in Places, watchCommand(c, p)
  PROVE  /\ TableOK(wk') /\ wk'.dirty = wk.dirty
         /\ wk'.expired = wk.expired \cup (IF keyIsExpired(db[p]) THEN {<<c, p>>} ELSE {})
         /\ \A q \in Places : Watchers(wk', q) = Watchers(wk, q) \cup (IF q = p THEN {c} ELSE {})
<1> DEFINE add == {<<b, c>> : b \in Watchers(wk, p) \cup {c}}
           l == [wk.list EXCEPT ![p] = @ \cup add]
           x == wk.expired \cup (IF keyIsExpired(db[p]) THEN {<<c, p>>} ELSE {})
<1>1. wk \in Tables /\ c \notin Watchers(wk, p) /\ c \notin wk.dirty
  BY DEF TableOK, watchCommand
<1>2. wk' = [[wk EXCEPT !.list = l] EXCEPT !.expired = x]
  BY <1>1 DEF watchCommand, Tables
<1>3. /\ wk.list \in [Places -> SUBSET (Clients \X Clients)]
      /\ wk.expired \subseteq Clients \X Places /\ wk.dirty \subseteq Clients
  BY <1>1 DEF Tables
<1>4. add \subseteq Clients \X Clients
  <2>1. Watchers(wk, p) \cup {c} \subseteq Clients
    BY DEF Watchers
  <2> QED BY <2>1
<1>5. x \subseteq Clients \X Places
  BY <1>3
<1>6. \A a \in Clients : <<a, a>> \in add <=> a = c
  OBVIOUS
<1>7. InOrder(wk.list[p] \cup add)
  BY <1>1, <1>3, OrderAppend DEF TableOK, Watchers
<1> HIDE DEF add
<1>8. /\ l \in [Places -> SUBSET (Clients \X Clients)]
      /\ \A q \in Places : l[q] = IF q = p THEN wk.list[p] \cup add ELSE wk.list[q]
  BY <1>3, <1>4
<1> HIDE DEF l, x
<1>9. wk' \in Tables /\ wk'.list = l /\ wk'.expired = x /\ wk'.dirty = wk.dirty
  BY <1>1, <1>2, <1>5, <1>8 DEF Tables
<1>10. \A q \in Places : Watchers(wk', q) = Watchers(wk, q) \cup (IF q = p THEN {c} ELSE {})
  BY <1>6, <1>8, <1>9 DEF Watchers
<1>11. \A q \in Places : InOrder(wk'.list[q])
  BY <1>7, <1>8, <1>9 DEF TableOK
<1>12. ASSUME NEW f \in wk'.expired PROVE f[1] \in Watchers(wk', f[2])
  <2>1. CASE f \in wk.expired
    BY <1>3, <1>10, <2>1 DEF TableOK
  <2>2. CASE f \notin wk.expired
    BY <1>9, <1>10, <2>2 DEF x
  <2> QED BY <2>1, <2>2
<1>13. TableOK(wk')
  BY <1>1, <1>9, <1>10, <1>11, <1>12 DEF TableOK
<1> QED BY <1>9, <1>10, <1>13 DEF x

-----------------------------------------------------------------------------
(* Clients and queues.                                                     *)

ClientRecords == [flags : SUBSET {"multi", "dirty_exec", "closed"}, queue : Seq(Commands)]

LEMMA QueueTypes ==
  /\ <<>> \in Seq(Commands) /\ Len(<<>>) = 0
  /\ \A q \in Seq(Commands) : Len(q) \in Nat
  /\ \A q \in Seq(Commands), cmd \in Commands :
       Append(q, cmd) \in Seq(Commands) /\ Len(Append(q, cmd)) = Len(q) + 1
  /\ \A q \in Seq(Commands) : q # <<>> => Tail(q) \in Seq(Commands) /\ Head(q) \in Commands
OBVIOUS

LEMMA ClientSteps ==
  ASSUME WatchAssumption, TypeOK, Next
  PROVE  /\ cl' \in [Clients -> ClientRecords] /\ sent' \in [Clients -> 0..MaxQueue]
         /\ running' \in Clients \cup {NoClient} /\ changed' \subseteq Clients
         /\ now' \in 1..MaxNow /\ snap' \in [Clients -> [Places -> -1..MaxWrites]]
<1> DEFINE Goal == /\ cl' \in [Clients -> ClientRecords] /\ sent' \in [Clients -> 0..MaxQueue]
                   /\ running' \in Clients \cup {NoClient}
                   /\ now' \in 1..MaxNow /\ snap' \in [Clients -> [Places -> -1..MaxWrites]]
<1>1. /\ cl \in [Clients -> ClientRecords] /\ sent \in [Clients -> 0..MaxQueue]
      /\ running \in Clients \cup {NoClient} /\ now \in 1..MaxNow
      /\ snap \in [Clients -> [Places -> -1..MaxWrites]]
      /\ MaxQueue \in Nat /\ MaxNow \in Nat /\ MaxWrites \in Nat
  BY DEF TypeOK, ClientRecords, WatchAssumption
<1>2. NotInMulti \in ClientRecords /\ [NotInMulti EXCEPT !.flags = {"closed"}] \in ClientRecords
  BY QueueTypes DEF NotInMulti, ClientRecords
<1>3. ASSUME NEW c \in Clients, Forget(c)
      PROVE  /\ sent' \in [Clients -> 0..MaxQueue]
             /\ snap' \in [Clients -> [Places -> -1..MaxWrites]]
  <2>1. [p \in Places |-> -1] \in [Places -> -1..MaxWrites] /\ 0 \in 0..MaxQueue
    BY <1>1
  <2> QED BY <1>1, <1>3, <2>1 DEF Forget
<1>4. ASSUME NEW cmd \in Commands, Write(cmd) PROVE Goal
  BY <1>1, <1>4 DEF Write
<1>5. ASSUME NEW p \in Places, Expire(p) PROVE Goal
  BY <1>1, <1>5 DEF Expire
<1>6. ASSUME NEW d \in Dbs, flushdbCommand(d) PROVE Goal
  BY <1>1, <1>6 DEF flushdbCommand
<1>7. ASSUME dbSwapDatabases PROVE Goal
  BY <1>1, <1>7 DEF dbSwapDatabases
<1>8. ASSUME NEW c \in Clients, NEW p \in Places, watchCommand(c, p) PROVE Goal
  <2>1. db[p].ver \in 0..MaxWrites
    BY DEF TypeOK
  <2>2. Seen(db[p], now) \in -1..MaxWrites
    BY <1>1, <2>1 DEF Seen
  <2>3. snap' = [snap EXCEPT ![c][p] = Seen(db[p], now)] /\ UNCHANGED <<cl, running, now, sent>>
    BY <1>8 DEF watchCommand
  <2>4. snap' \in [Clients -> [Places -> -1..MaxWrites]]
    BY <1>1, <2>2, <2>3
  <2> QED BY <1>1, <2>3, <2>4
<1>9. ASSUME NEW c \in Clients, NEW cmd \in Commands, queueMultiCommand(c, cmd) PROVE Goal
  <2> DEFINE r == [cl[c] EXCEPT !.queue = Append(@, cmd)]
  <2>1. r \in ClientRecords
    <3>1. cl[c] \in ClientRecords
      BY <1>1
    <3>2. Append(cl[c].queue, cmd) \in Seq(Commands)
      BY <3>1, QueueTypes DEF ClientRecords
    <3> QED BY <3>1, <3>2 DEF ClientRecords
  <2>2. sent' \in [Clients -> 0..MaxQueue] /\ UNCHANGED <<running, now, snap>>
    BY <1>1, <1>9 DEF queueMultiCommand
  <2>3. cl' = cl \/ cl' = [cl EXCEPT ![c] = r]
    BY <1>9 DEF queueMultiCommand
  <2> HIDE DEF r
  <2> QED BY <1>1, <2>1, <2>2, <2>3
<1>10. ASSUME NEW c \in Clients, unwatchCommand(c) PROVE Goal
  BY <1>1, <1>3, <1>10 DEF unwatchCommand
<1>11. ASSUME NEW c \in Clients, multiCommand(c) PROVE Goal
  <2> DEFINE r == [cl[c] EXCEPT !.flags = @ \cup {"multi"}]
  <2>1. r \in ClientRecords
    BY <1>1 DEF ClientRecords
  <2>2. cl' = [cl EXCEPT ![c] = r] /\ UNCHANGED <<running, now, snap, sent>>
    BY <1>11 DEF multiCommand
  <2> HIDE DEF r
  <2> QED BY <1>1, <2>1, <2>2
<1>12. ASSUME NEW c \in Clients, rejectCommand(c) PROVE Goal
  <2> DEFINE r == [cl[c] EXCEPT !.flags = @ \cup {"dirty_exec"}]
  <2>1. r \in ClientRecords
    BY <1>1 DEF ClientRecords
  <2>2. sent' \in [Clients -> 0..MaxQueue] /\ UNCHANGED <<running, now, snap>>
    BY <1>1, <1>12 DEF rejectCommand
  <2>3. cl' = [cl EXCEPT ![c] = r]
    BY <1>12 DEF rejectCommand
  <2> HIDE DEF r
  <2> QED BY <1>1, <2>1, <2>2, <2>3
<1>13. ASSUME NEW c \in Clients, discardTransaction(c) PROVE Goal
  BY <1>1, <1>2, <1>3, <1>13 DEF discardTransaction
<1>14. ASSUME NEW c \in Clients, execAborts(c) PROVE Goal
  BY <1>1, <1>2, <1>3, <1>14 DEF execAborts
<1>15. ASSUME NEW c \in Clients, execStarts(c) PROVE Goal
  BY <1>1, <1>15 DEF execStarts
<1>16. ASSUME NEW c \in Clients, execCommand(c) PROVE Goal
  <2> DEFINE r == [cl[c] EXCEPT !.queue = Tail(@)]
  <2>1. cl' = [cl EXCEPT ![c] = r] /\ UNCHANGED <<running, now, snap, sent>> /\ cl[c].queue # <<>>
    BY <1>16 DEF execCommand
  <2>2. r \in ClientRecords
    <3>1. cl[c] \in ClientRecords
      BY <1>1
    <3>2. Tail(cl[c].queue) \in Seq(Commands)
      BY <2>1, <3>1, QueueTypes DEF ClientRecords
    <3> QED BY <3>1, <3>2 DEF ClientRecords
  <2> HIDE DEF r
  <2> QED BY <1>1, <2>1, <2>2
<1>17. ASSUME NEW c \in Clients, execEnds(c) PROVE Goal
  BY <1>1, <1>2, <1>3, <1>17 DEF execEnds
<1>18. ASSUME NEW c \in Clients, freeClient(c) PROVE Goal
  BY <1>1, <1>2, <1>3, <1>18 DEF freeClient
<1>19. ASSUME Tick PROVE Goal
  BY <1>1, <1>19 DEF Tick
<1>20. changed' \subseteq Clients
  BY DEF Next, Observe
<1>21. Goal
  <2> HIDE DEF Goal
  <2> QED BY <1>4, <1>5, <1>6, <1>7, <1>8, <1>9, <1>10, <1>11, <1>12, <1>13, <1>14, <1>15, <1>16,
          <1>17, <1>18, <1>19 DEF Next, Step
<1> QED BY <1>20, <1>21

-----------------------------------------------------------------------------
(* The kinds of steps.                                                     *)

Stores == [Places -> [ver : 0..MaxWrites, exp : 0..(MaxNow + 1)]]

\* No watch begins or ends but by the writes.
Quiet ==
  /\ UNCHANGED <<running, now, snap>>
  /\ \A c \in Clients : "closed" \in cl'[c].flags <=> "closed" \in cl[c].flags

SetStep ==
  Quiet /\ \E p \in Places, ttl \in BOOLEAN, D \in SUBSET Clients : KeySet(p, ttl, D)

GoneStep == Quiet /\ writes' = writes /\ \E p \in Places : KeyGone(p)

\* The places S are emptied, or all contents move to other places.
Moved(S) ==
  /\ db' \in Stores /\ \A p \in Places \ S : db'[p] = db[p]
  /\ \/ \A p \in S : db'[p] = Absent
     \/ \E o \in [Places -> Places] :
          /\ \A p \in Places : o[p] # p /\ db'[p] = db[o[p]]
          /\ \A p, q \in Places : o[p] = o[q] => p = q

BulkStep ==
  /\ Quiet /\ writes' = writes
  /\ \E S \in SUBSET Places, D \in SUBSET Clients : Replaced(wk, wk', D, S, db, db') /\ Moved(S)

IdleStep == Quiet /\ UNCHANGED <<db, wk, writes>>

LeaveStep(c) ==
  /\ wk' = Clean(wk, c) /\ Forget(c) /\ UNCHANGED <<db, now, writes>>
  /\ \A b \in Clients \ {c} : cl'[b] = cl[b]
  /\ running' = running \/ (running = c /\ running' = NoClient)

LEMMA DoKinds ==
  ASSUME wk \in Tables, DbOK, Quiet, NEW cmd \in Commands, Do(cmd)
  PROVE  SetStep \/ GoneStep
<1>1. cmd[1] \in {"set", "setex", "del"} /\ cmd[2] \in Places
  BY DEF Commands
<1>2. CASE cmd[1] = "set"
  <2>1. setGenericCommand(cmd[2], FALSE)
    BY <1>2 DEF Do
  <2> QED BY <1>1, <2>1, SetTable DEF SetStep
<1>3. CASE cmd[1] = "setex"
  <2>1. setGenericCommand(cmd[2], TRUE)
    BY <1>3 DEF Do
  <2> QED BY <1>1, <2>1, SetTable DEF SetStep
<1>4. CASE cmd[1] = "del"
  <2>1. delGenericCommand(cmd[2])
    BY <1>4 DEF Do
  <2>2. writes' = writes
    BY <2>1 DEF delGenericCommand
  <2> QED BY <1>1, <2>1, <2>2, DelTable DEF GoneStep
<1> QED BY <1>1, <1>2, <1>3, <1>4

LEMMA FlushKind ==
  ASSUME WatchAssumption, TypeOK, TableOK(wk), NEW d \in Dbs, flushdbCommand(d)
  PROVE  BulkStep
<1> DEFINE none == [k \in Keys |-> Absent]
<1>1. /\ db' = [p \in Places |-> IF p[1] = d THEN Absent ELSE db[p]]
      /\ wk' = touchAllWatchedKeysInDb(wk, d, Entries(d), none)
      /\ UNCHANGED <<cl, running, now, writes, snap>>
  BY DEF flushdbCommand
<1>2. \A p \in PlacesOf(d) : p \in Places /\ p = <<d, p[2]>> /\ p[2] \in Keys
  BY DEF PlacesOf, Places
<1>3. \A p \in PlacesOf(d) : Entries(d)[p[2]] = db[p] /\ none[p[2]] = db'[p]
  <2> SUFFICES ASSUME NEW p \in PlacesOf(d)
               PROVE  Entries(d)[p[2]] = db[p] /\ none[p[2]] = db'[p]
    OBVIOUS
  <2>1. Entries(d)[p[2]] = db[<<d, p[2]>>]
    BY <1>2 DEF Entries
  <2>2. db'[p] = Absent
    BY <1>1, <1>2 DEF PlacesOf
  <2>3. none[p[2]] = Absent
    BY <1>2
  <2> QED BY <1>2, <2>1, <2>2, <2>3
<1> HIDE DEF none
<1>4. PICK D \in SUBSET Clients : Replaced(wk, wk', D, PlacesOf(d), db, db')
  BY <1>1, <1>3, TouchedDb DEF TableOK
<1>5. Absent \in [ver : 0..MaxWrites, exp : 0..(MaxNow + 1)]
  BY DEF Absent, WatchAssumption
<1>6. db' \in Stores
  BY <1>1, <1>5 DEF Stores, TypeOK
<1>7. Moved(PlacesOf(d))
  BY <1>1, <1>6 DEF Moved, PlacesOf
<1>8. PlacesOf(d) \in SUBSET Places
  BY DEF PlacesOf
<1> QED BY <1>1, <1>4, <1>7, <1>8 DEF BulkStep, Quiet

LEMMA SwapKind ==
  ASSUME WatchAssumption, TypeOK, TableOK(wk), dbSwapDatabases
  PROVE  BulkStep
<1> DEFINE u == touchAllWatchedKeysInDb(wk, 0, Entries(0), Entries(1))
           o == [p \in Places |-> <<1 - p[1], p[2]>>]
<1>1. /\ Dbs = {0, 1} /\ db' = [p \in Places |-> db[<<1 - p[1], p[2]>>]]
      /\ wk' = touchAllWatchedKeysInDb(u, 1, Entries(1), Entries(0))
      /\ UNCHANGED <<cl, running, now, writes, snap>>
  BY DEF dbSwapDatabases
<1>2. \A p \in Places : p[1] \in {0, 1} /\ p[2] \in Keys /\ p = <<p[1], p[2]>>
  BY <1>1 DEF Places
<1>3. /\ o \in [Places -> Places] /\ \A p \in Places : o[p] # p /\ o[p] = <<1 - p[1], p[2]>>
      /\ \A p, q \in Places : o[p] = o[q] => p = q
  <2>1. \A p \in Places : 1 - p[1] \in {0, 1} /\ 1 - p[1] # p[1]
    BY <1>2
  <2>2. \A p \in Places : <<1 - p[1], p[2]>> \in Places
    BY <1>1, <1>2, <2>1 DEF Places
  <2>3. \A p \in Places : <<1 - p[1], p[2]>> # p
    BY <1>2, <2>1
  <2>4. ASSUME NEW p \in Places, NEW q \in Places, <<1 - p[1], p[2]>> = <<1 - q[1], q[2]>>
        PROVE  p = q
    <3>1. 1 - p[1] = 1 - q[1] /\ p[2] = q[2]
      BY <2>4
    <3>2. p[1] = q[1]
      BY <1>2, <3>1
    <3> QED BY <1>2, <3>1, <3>2
  <2> QED BY <2>2, <2>3, <2>4
<1>4. \A p \in Places : db'[p] = db[o[p]]
  BY <1>1, <1>3
<1>5. \A p \in PlacesOf(0) : Entries(0)[p[2]] = db[p] /\ Entries(1)[p[2]] = db'[p]
  <2> SUFFICES ASSUME NEW p \in PlacesOf(0)
               PROVE  Entries(0)[p[2]] = db[p] /\ Entries(1)[p[2]] = db'[p]
    OBVIOUS
  <2>1. p \in Places /\ p[1] = 0 /\ p = <<0, p[2]>> /\ p[2] \in Keys
    BY <1>2 DEF PlacesOf
  <2>2. o[p] = <<1, p[2]>>
    BY <1>3, <2>1
  <2> QED BY <1>4, <2>1, <2>2 DEF Entries
<1>6. \A p \in PlacesOf(1) : Entries(1)[p[2]] = db[p] /\ Entries(0)[p[2]] = db'[p]
  <2> SUFFICES ASSUME NEW p \in PlacesOf(1)
               PROVE  Entries(1)[p[2]] = db[p] /\ Entries(0)[p[2]] = db'[p]
    OBVIOUS
  <2>1. p \in Places /\ p[1] = 1 /\ p = <<1, p[2]>> /\ p[2] \in Keys
    BY <1>2 DEF PlacesOf
  <2>2. o[p] = <<0, p[2]>>
    BY <1>3, <2>1
  <2> QED BY <1>4, <2>1, <2>2 DEF Entries
<1> HIDE DEF o, u
<1>7. PICK D \in SUBSET Clients : Replaced(wk, u, D, PlacesOf(0), db, db')
  BY <1>5, TouchedDb DEF TableOK, u
<1>8. TableOK(u)
  BY <1>7, ReplacedOK
<1>9. PICK E \in SUBSET Clients : Replaced(u, wk', E, PlacesOf(1), db, db')
  BY <1>1, <1>6, <1>8, TouchedDb DEF TableOK
<1>10. Replaced(wk, wk', D \cup E, PlacesOf(0) \cup PlacesOf(1), db, db')
  BY <1>7, <1>9, ReplacedTwice
<1>11. PlacesOf(0) \cup PlacesOf(1) = Places
  BY <1>2 DEF PlacesOf
<1>12. db' \in Stores
  <2> DEFINE Entry == [ver : 0..MaxWrites, exp : 0..(MaxNow + 1)]
  <2>1. db \in [Places -> Entry]
    BY DEF TypeOK
  <2>2. DOMAIN db' = Places /\ db' = [p \in DOMAIN db' |-> db'[p]]
    BY <1>1
  <2> HIDE DEF Entry
  <2>3. \A p \in Places : db'[p] \in Entry
    BY <1>3, <1>4, <2>1
  <2>4. db' \in [Places -> Entry]
    BY <2>2, <2>3
  <2> QED BY <2>4 DEF Stores, Entry
<1>13. Moved(Places)
  BY <1>3, <1>4, <1>12 DEF Moved
<1> QED BY <1>1, <1>10, <1>11, <1>13 DEF BulkStep, Quiet

LEMMA StepKinds ==
  ASSUME WatchAssumption, TypeOK, TableOK(wk), DbOK, Next
  PROVE  \/ SetStep \/ GoneStep \/ BulkStep \/ IdleStep \/ Tick
         \/ \E c \in Clients : LeaveStep(c) \/ execStarts(c) \/ \E p \in Places : watchCommand(c, p)
<1>0. wk \in Tables /\ cl \in [Clients -> ClientRecords]
  BY DEF TableOK, TypeOK, ClientRecords
<1>1. ASSUME NEW cmd \in Commands, Write(cmd) PROVE SetStep \/ GoneStep
  <2>1. Quiet /\ Do(cmd)
    BY <1>1 DEF Write, Quiet
  <2> QED BY <1>0, <2>1, DoKinds
<1>2. ASSUME NEW p \in Places, Expire(p) PROVE GoneStep
  <2>1. Quiet /\ writes' = writes
    BY <1>2 DEF Expire, Quiet
  <2> QED BY <1>0, <1>2, <2>1, ExpireTable DEF GoneStep
<1>3. ASSUME NEW c \in Clients, NEW cmd \in Commands, queueMultiCommand(c, cmd) PROVE IdleStep
  BY <1>0, <1>3 DEF queueMultiCommand, IdleStep, Quiet, ClientRecords
<1>4. ASSUME NEW c \in Clients, unwatchCommand(c) PROVE LeaveStep(c)
  BY <1>4 DEF unwatchCommand, LeaveStep
<1>5. ASSUME NEW c \in Clients, multiCommand(c) PROVE IdleStep
  BY <1>0, <1>5 DEF multiCommand, IdleStep, Quiet, ClientRecords
<1>6. ASSUME NEW c \in Clients, rejectCommand(c) PROVE IdleStep
  BY <1>0, <1>6 DEF rejectCommand, IdleStep, Quiet, ClientRecords
<1>7. ASSUME NEW c \in Clients, discardTransaction(c) PROVE LeaveStep(c)
  BY <1>0, <1>7 DEF discardTransaction, LeaveStep
<1>8. ASSUME NEW c \in Clients, execAborts(c) PROVE LeaveStep(c)
  BY <1>0, <1>8 DEF execAborts, LeaveStep
<1>9. ASSUME NEW c \in Clients, execCommand(c) PROVE SetStep \/ GoneStep \/ IdleStep
  <2>1. /\ cl' = [cl EXCEPT ![c].queue = Tail(@)] /\ UNCHANGED <<running, now, snap>>
        /\ cl[c].queue # <<>>
        /\ Do(Head(cl[c].queue)) \/ UNCHANGED <<db, wk, writes>>
    BY <1>9 DEF execCommand
  <2>2. Head(cl[c].queue) \in Commands
    BY <1>0, <2>1, QueueTypes DEF ClientRecords
  <2>3. Quiet
    BY <1>0, <2>1 DEF Quiet, ClientRecords
  <2> QED BY <1>0, <2>1, <2>2, <2>3, DoKinds DEF IdleStep
<1>10. ASSUME NEW c \in Clients, execEnds(c) PROVE LeaveStep(c)
  BY <1>0, <1>10 DEF execEnds, LeaveStep
<1>11. ASSUME NEW c \in Clients, freeClient(c) PROVE LeaveStep(c)
  BY <1>0, <1>11 DEF freeClient, LeaveStep
<1> QED BY <1>1, <1>2, <1>3, <1>4, <1>5, <1>6, <1>7, <1>8, <1>9, <1>10, <1>11, FlushKind, SwapKind
        DEF Next, Step

-----------------------------------------------------------------------------
(* The index of the watches.                                               *)

\* Who watches is connected, is not executing and remembers what it saw; who
\* remembers watches, is dirty or is executing.
Linked ==
  \A c \in Clients, p \in Places :
     /\ c \in Watchers(wk, p) => "closed" \notin cl[c].flags /\ c # running /\ snap[c][p] # -1
     /\ snap[c][p] # -1 => c \in Watchers(wk, p) \/ c \in wk.dirty \/ c = running

IndexInv == TypeOK /\ TableOK(wk) /\ Linked /\ DbOK

LEMMA IndexInit ==
  ASSUME WatchAssumption, Init
  PROVE  IndexInv
<1>1. Absent \in [ver : 0..MaxWrites, exp : 0..(MaxNow + 1)] /\ NotInMulti \in ClientRecords
  BY QueueTypes DEF Absent, NotInMulti, ClientRecords, WatchAssumption
<1>2. /\ wk \in Tables /\ wk.expired = {} /\ wk.dirty = {} /\ \A p \in Places : wk.list[p] = {}
      /\ \A p \in Places : Watchers(wk, p) = {}
  BY DEF Init, Tables, Watchers
<1>3. TypeOK
  BY <1>1, <1>2 DEF Init, TypeOK, Tables, ClientRecords, WatchAssumption
<1>4. TableOK(wk)
  BY <1>2 DEF TableOK, InOrder
<1>5. Linked
  BY <1>2 DEF Linked, Init
<1>6. DbOK
  BY DEF DbOK, Init, Absent
<1> QED BY <1>3, <1>4, <1>5, <1>6 DEF IndexInv

\* Writes keep the table in order.
LEMMA WrittenTable ==
  ASSUME IndexInv, SetStep \/ GoneStep \/ BulkStep
  PROVE  TableOK(wk') /\ \E D \in SUBSET Clients : Marked(wk, wk', D)
<1>0. TableOK(wk) /\ wk.expired \subseteq Clients \X Places
  BY DEF IndexInv, TableOK, Tables
<1>1. CASE SetStep
  <2>1. PICK p \in Places, ttl \in BOOLEAN, D \in SUBSET Clients : KeySet(p, ttl, D)
    BY <1>1 DEF SetStep
  <2>2. Marked(wk, wk', D) /\ wk'.expired \subseteq wk.expired
    BY <2>1 DEF KeySet
  <2>3. \A f \in wk'.expired : f[1] \in Watchers(wk, f[2])
    BY <1>0, <2>2 DEF TableOK
  <2> QED BY <1>0, <2>2, <2>3, MarkedOK
<1>2. CASE GoneStep
  <2>1. PICK p \in Places : KeyGone(p)
    BY <1>2 DEF GoneStep
  <2>2. PICK D : /\ D = IF db[p].ver # 0 THEN Watchers(wk, p) \ Expired(wk, p) ELSE {}
                 /\ Marked(wk, wk', D) /\ wk'.expired \subseteq wk.expired
    BY <2>1 DEF KeyGone
  <2>3. \A f \in wk'.expired : f[1] \in Watchers(wk, f[2])
    BY <1>0, <2>2 DEF TableOK
  <2>4. D \in SUBSET Clients
    BY <2>2 DEF Watchers
  <2> QED BY <1>0, <2>2, <2>3, <2>4, MarkedOK
<1>3. CASE BulkStep
  <2>1. PICK S \in SUBSET Places, D \in SUBSET Clients : Replaced(wk, wk', D, S, db, db')
    BY <1>3 DEF BulkStep
  <2>2. TableOK(wk')
    BY <1>0, <2>1, ReplacedOK
  <2>3. Marked(wk, wk', D)
    BY <2>1 DEF Replaced
  <2> QED BY <2>2, <2>3
<1> QED BY <1>1, <1>2, <1>3

\* Versions stay unique.
LEMMA WrittenDb ==
  ASSUME WatchAssumption, IndexInv, SetStep \/ GoneStep \/ BulkStep
  PROVE  /\ DbOK' /\ db' \in Stores /\ writes' \in 0..MaxWrites
<1>0. /\ db \in Stores /\ writes \in 0..MaxWrites /\ now \in 1..MaxNow /\ DbOK
      /\ MaxWrites \in Nat /\ MaxNow \in Nat
      /\ snap \in [Clients -> [Places -> -1..MaxWrites]]
  BY DEF IndexInv, TypeOK, Stores, WatchAssumption
<1>1. CASE SetStep
  <2>1. PICK p \in Places, ttl \in BOOLEAN, D \in SUBSET Clients : KeySet(p, ttl, D)
    BY <1>1 DEF SetStep
  <2> DEFINE x == IF ttl THEN now + 1 ELSE 0
             e == [ver |-> writes + 1, exp |-> x]
  <2>2. /\ db' = [db EXCEPT ![p] = e] /\ writes < MaxWrites /\ writes' = writes + 1
        /\ snap' = snap
    BY <1>1, <2>1 DEF KeySet, SetStep, Quiet
  <2>3. x \in 0..(MaxNow + 1)
    BY <1>0
  <2> HIDE DEF x
  <2>4. e \in [ver : 0..MaxWrites, exp : 0..(MaxNow + 1)] /\ e.ver = writes + 1
    BY <1>0, <2>2, <2>3
  <2> HIDE DEF e
  <2>5. db' \in Stores /\ \A q \in Places : db'[q] = IF q = p THEN e ELSE db[q]
    BY <1>0, <2>2, <2>4 DEF Stores
  <2>6. \A q \in Places : db[q].ver \in Nat /\ db[q].ver <= writes
    BY <1>0 DEF Stores, DbOK
  <2>7. DbOK'
    <3>1. \A q \in Places : db'[q].exp # 0 => db'[q].ver # 0
      BY <1>0, <2>4, <2>5 DEF DbOK
    <3>2. \A q \in Places : db'[q].ver <= writes'
      BY <1>0, <2>2, <2>4, <2>5, <2>6
    <3>3. \A q, r \in Places : q # r /\ db'[q].ver # 0 => db'[q].ver # db'[r].ver
      BY <1>0, <2>4, <2>5, <2>6 DEF DbOK
    <3>4. \A c \in Clients, q \in Places : snap'[c][q] <= writes'
      <4>1. \A c \in Clients, q \in Places : snap[c][q] \in Int /\ snap[c][q] <= writes
        BY <1>0 DEF DbOK
      <4> QED BY <1>0, <2>2, <4>1
    <3> QED BY <3>1, <3>2, <3>3, <3>4 DEF DbOK
  <2> QED BY <1>0, <2>2, <2>5, <2>7
<1>2. CASE GoneStep
  <2>1. PICK p \in Places : db' = [db EXCEPT ![p] = Absent]
    BY <1>2 DEF GoneStep, KeyGone
  <2>2. writes' = writes /\ snap' = snap
    BY <1>2 DEF GoneStep, Quiet
  <2>3. Absent \in [ver : 0..MaxWrites, exp : 0..(MaxNow + 1)] /\ Absent.ver = 0 /\ Absent.exp = 0
    BY <1>0 DEF Absent
  <2>4. db' \in Stores /\ \A q \in Places : db'[q] = IF q = p THEN Absent ELSE db[q]
    BY <1>0, <2>1, <2>3 DEF Stores
  <2>5. DbOK'
    BY <1>0, <2>2, <2>3, <2>4 DEF DbOK
  <2> QED BY <1>0, <2>2, <2>4, <2>5
<1>3. CASE BulkStep
  <2>1. PICK S \in SUBSET Places : Moved(S)
    BY <1>3 DEF BulkStep
  <2>2. writes' = writes /\ snap' = snap /\ db' \in Stores
    BY <1>3, <2>1 DEF BulkStep, Quiet, Moved
  <2>3. CASE \A p \in S : db'[p] = Absent
    <3>1. \A p \in Places : db'[p] = Absent \/ db'[p] = db[p]
      BY <2>1, <2>3 DEF Moved
    <3>2. Absent.ver = 0 /\ Absent.exp = 0
      BY DEF Absent
    <3>3. DbOK'
      BY <1>0, <2>2, <3>1, <3>2 DEF DbOK
    <3> QED BY <1>0, <2>2, <3>3
  <2>4. CASE \E o \in [Places -> Places] :
               /\ \A p \in Places : o[p] # p /\ db'[p] = db[o[p]]
               /\ \A p, q \in Places : o[p] = o[q] => p = q
    <3>1. PICK o \in [Places -> Places] :
               /\ \A p \in Places : o[p] # p /\ db'[p] = db[o[p]]
               /\ \A p, q \in Places : o[p] = o[q] => p = q
      BY <2>4
    <3>2. \A p \in Places : o[p] \in Places /\ db'[p] = db[o[p]]
      BY <3>1
    <3>3. \A p, q \in Places : p # q => o[p] # o[q]
      BY <3>1
    <3>4. /\ \A p \in Places : db'[p].exp # 0 => db'[p].ver # 0
          /\ \A p \in Places : db'[p].ver <= writes'
      BY <1>0, <2>2, <3>2 DEF DbOK
    <3>5. \A p, q \in Places : p # q /\ db'[p].ver # 0 => db'[p].ver # db'[q].ver
      BY <1>0, <3>2, <3>3 DEF DbOK
    <3>6. DbOK'
      BY <1>0, <2>2, <3>4, <3>5 DEF DbOK
    <3> QED BY <1>0, <2>2, <3>6
  <2> QED BY <2>1, <2>3, <2>4 DEF Moved
<1> QED BY <1>1, <1>2, <1>3

LEMMA IndexStep ==
  ASSUME WatchAssumption, IndexInv, [Next]_vars
  PROVE  IndexInv'
<1>0. /\ TypeOK /\ TableOK(wk) /\ Linked /\ DbOK
      /\ running \in Clients \cup {NoClient} /\ NoClient \notin Clients
  BY DEF IndexInv, TypeOK, WatchAssumption
<1>1. CASE UNCHANGED vars
  BY <1>1 DEF IndexInv, TypeOK, TableOK, Linked, DbOK, vars, Watchers
<1>2. CASE Next
  <2>1. ASSUME TableOK(wk'), db' \in Stores, writes' \in 0..MaxWrites PROVE TypeOK'
    <3>1. wk' \in Tables
      BY <2>1 DEF TableOK
    <3>2. cl' \in [Clients -> [flags : SUBSET {"multi", "dirty_exec", "closed"}, queue : Seq(Commands)]]
      BY <1>0, <1>2, ClientSteps DEF ClientRecords
    <3> QED BY <1>0, <1>2, <2>1, <3>1, <3>2, ClientSteps DEF TypeOK, Tables, Stores
  <2>2. CASE SetStep \/ GoneStep \/ BulkStep
    <3>1. PICK D \in SUBSET Clients : Marked(wk, wk', D)
      BY <2>2, WrittenTable
    <3>2. TableOK(wk') /\ DbOK' /\ db' \in Stores /\ writes' \in 0..MaxWrites
      BY <2>2, WrittenTable, WrittenDb
    <3>3. Quiet
      BY <2>2 DEF SetStep, GoneStep, BulkStep
    <3>4. Linked'
      BY <1>0, <3>1, <3>3 DEF Linked, Marked, Quiet
    <3> QED BY <2>1, <3>2, <3>4 DEF IndexInv
  <2>3. CASE IdleStep
    <3>1. wk' = wk /\ db' = db /\ writes' = writes
      BY <2>3 DEF IdleStep
    <3>2. Linked'
      BY <1>0, <2>3 DEF Linked, IdleStep, Quiet, Watchers
    <3>3. DbOK'
      BY <1>0, <2>3 DEF DbOK, IdleStep, Quiet
    <3> QED BY <1>0, <2>1, <3>1, <3>2, <3>3 DEF IndexInv, TypeOK, Stores
  <2>4. CASE Tick
    <3>1. UNCHANGED <<db, wk, cl, running, writes, snap>>
      BY <2>4 DEF Tick
    <3>2. Linked' /\ DbOK'
      BY <1>0, <3>1 DEF Linked, DbOK, Watchers
    <3> QED BY <1>0, <2>1, <3>1, <3>2 DEF IndexInv, TypeOK, Stores
  <2>5. ASSUME NEW c \in Clients, LeaveStep(c) PROVE IndexInv'
    <3>1. /\ TableOK(wk') /\ wk'.dirty = wk.dirty \ {c}
          /\ \A p \in Places : Watchers(wk', p) = Watchers(wk, p) \ {c}
      BY <1>0, <2>5, CleanTable DEF LeaveStep
    <3>2. /\ db' = db /\ writes' = writes
          /\ \A b \in Clients \ {c} : cl'[b] = cl[b] /\ snap'[b] = snap[b]
          /\ \A p \in Places : snap'[c][p] = -1
          /\ running' = running \/ (running = c /\ running' = NoClient)
      BY <1>0, <2>5 DEF LeaveStep, Forget, TypeOK
    <3>3. Linked'
      BY <1>0, <3>1, <3>2 DEF Linked
    <3>4. DbOK'
      <4>1. \A b \in Clients, p \in Places : snap'[b][p] <= writes'
        <5>1. writes \in Nat /\ \A b \in Clients, p \in Places : snap[b][p] <= writes
          BY <1>0 DEF DbOK, TypeOK
        <5>2. -1 <= writes
          BY <5>1
        <5> QED BY <3>2, <5>1, <5>2
      <4> QED BY <1>0, <3>2, <4>1 DEF DbOK
    <3> QED BY <1>0, <2>1, <3>1, <3>2, <3>3, <3>4 DEF IndexInv, TypeOK, Stores
  <2>6. ASSUME NEW c \in Clients, execStarts(c) PROVE IndexInv'
    <3>1. /\ running' = c /\ wk' = unwatchAllKeys(wk, {c})
          /\ UNCHANGED <<db, cl, writes, snap>> /\ running = NoClient
      BY <2>6 DEF execStarts, Idle
    <3>2. /\ wk' \in Tables /\ wk'.dirty = wk.dirty
          /\ wk'.expired = {f \in wk.expired : f[1] \notin {c}}
          /\ \A p \in Places : wk'.list[p] = Without(wk.list[p], {c})
          /\ \A p \in Places : Watchers(wk', p) = Watchers(wk, p) \ {c}
      BY <1>0, <3>1, Unwatched DEF TableOK
    <3>3. TableOK(wk')
      <4>1. \A p \in Places : InOrder(wk'.list[p])
        BY <1>0, <3>2, OrderWithout DEF TableOK, Tables
      <4>2. \A f \in wk'.expired : f[2] \in Places
        BY <3>2 DEF Tables
      <4> QED BY <1>0, <3>2, <4>1, <4>2 DEF TableOK
    <3>4. Linked'
      BY <1>0, <3>1, <3>2 DEF Linked
    <3>5. DbOK'
      BY <1>0, <3>1 DEF DbOK
    <3> QED BY <1>0, <2>1, <3>1, <3>3, <3>4, <3>5 DEF IndexInv, TypeOK, Stores
  <2>7. ASSUME NEW c \in Clients, NEW p \in Places, watchCommand(c, p) PROVE IndexInv'
    <3>1. /\ TableOK(wk') /\ wk'.dirty = wk.dirty
          /\ \A q \in Places : Watchers(wk', q) = Watchers(wk, q) \cup (IF q = p THEN {c} ELSE {})
      BY <1>0, <2>7, WatchTable
    <3>2. /\ snap' = [snap EXCEPT ![c][p] = Seen(db[p], now)] /\ UNCHANGED <<db, cl, running, writes>>
          /\ running = NoClient /\ "closed" \notin cl[c].flags
      BY <2>7 DEF watchCommand, Idle
    <3>3. db[p].ver \in 0..MaxWrites /\ db[p].ver <= writes /\ writes \in Nat
      BY <1>0 DEF TypeOK, DbOK
    <3>4. Seen(db[p], now) \in Nat /\ Seen(db[p], now) <= writes
      BY <3>3 DEF Seen
    <3>5. \A b \in Clients, q \in Places :
             snap'[b][q] = IF b = c /\ q = p THEN Seen(db[p], now) ELSE snap[b][q]
      BY <1>0, <3>2 DEF TypeOK
    <3>6. Linked'
      BY <1>0, <3>1, <3>2, <3>4, <3>5 DEF Linked
    <3>7. DbOK'
      BY <1>0, <3>2, <3>4, <3>5 DEF DbOK
    <3> QED BY <1>0, <2>1, <3>1, <3>2, <3>6, <3>7 DEF IndexInv, TypeOK, Stores
  <2> QED BY <1>0, <1>2, <2>2, <2>3, <2>4, <2>5, <2>6, <2>7, StepKinds
<1> QED BY <1>1, <1>2

\* The places, lists, flags and clients keep their types.
THEOREM WatchTypeCorrect == ASSUME WatchAssumption PROVE Spec => []TypeOK
<1>1. IndexInv => TypeOK
  BY DEF IndexInv
<1> QED BY <1>1, IndexInit, IndexStep, PTL DEF Spec

\* No client is twice in the list of a key, none in it is gone, dirty or
\* executing, flags belong to watches, and nobody loses a watch but by being
\* marked (watchForKey, unwatchAllKeys, touchWatchedKey).
THEOREM WatchesAgree == ASSUME WatchAssumption PROVE Spec => []WatchIndex
<1>1. IndexInv => WatchIndex
  <2> SUFFICES ASSUME IndexInv PROVE WatchIndex
    OBVIOUS
  <2>1. \A p \in Places : \A c \in Watchers(wk, p) : c \in Clients
    BY DEF Watchers
  <2> QED BY <2>1 DEF IndexInv, TableOK, Linked, WatchIndex
<1> QED BY <1>1, IndexInit, IndexStep, PTL DEF Spec

-----------------------------------------------------------------------------
(* Only changes that a client could see make it dirty.                     *)

\* Who has not seen a change sees what it saw at WATCH; a watch that has no
\* flag is of a key that is not expired, one with a flag of a key that was.
SeenOK ==
  /\ \A c \in Clients \ changed, p \in Places : snap[c][p] # -1 => Seen(db[p], now) = snap[c][p]
  /\ \A c \in changed : \E p \in Places : snap[c][p] # -1
  /\ \A c \in Clients \ changed, p \in Places : <<c, p>> \in wk.expired => snap[c][p] = 0
  /\ \A c \in Clients \ changed, p \in Places :
       c \in Watchers(wk, p) /\ <<c, p>> \notin wk.expired => ~keyIsExpired(db[p])
  /\ NoSpuriousAbort

LEMMA SeenInit ==
  ASSUME Init
  PROVE  SeenOK
<1>1. wk.expired = {} /\ wk.dirty = {} /\ \A p \in Places : Watchers(wk, p) = {}
  BY DEF Init, Watchers
<1>2. changed = {} /\ \A c \in Clients, p \in Places : snap[c][p] = -1
  BY DEF Init
<1> QED BY <1>1, <1>2 DEF SeenOK, NoSpuriousAbort

\* What the history says after a step.
LEMMA Observed ==
  ASSUME Next
  PROVE  /\ \A c \in Clients \ changed', p \in Places :
              snap'[c][p] # -1 => Seen(db'[p], now') = snap'[c][p]
         /\ \A c \in changed' : c \in Clients /\ \E p \in Places : snap'[c][p] # -1
         /\ \A c \in Clients, p \in Places :
              snap'[c][p] # -1 /\ (c \in changed \/ Seen(db'[p], now') # snap'[c][p]) => c \in changed'
         /\ \A c \in changed' \ changed :
              \E p \in Places : snap'[c][p] # -1 /\ Seen(db'[p], now') # snap'[c][p]
BY DEF Next, Observe

\* The history does not forget while the watches stay.
LEMMA StaysChanged ==
  ASSUME Next, SeenOK, changed \subseteq Clients, NEW C \in SUBSET Clients,
         \A c \in C, p \in Places : snap[c][p] # -1 => snap'[c][p] = snap[c][p]
  PROVE  \A c \in C : c \in changed => c \in changed'
BY Observed DEF SeenOK

\* The parts of SeenOK that are not the history's own.
LEMMA SeenFrom ==
  ASSUME Next,
         \A c \in Clients \ changed', p \in Places : <<c, p>> \in wk'.expired => snap'[c][p] = 0,
         \A c \in Clients \ changed', p \in Places :
            c \in Watchers(wk', p) /\ <<c, p>> \notin wk'.expired => ~keyIsExpired(db[p])',
         \A c \in wk'.dirty : c \in changed'
  PROVE  SeenOK'
BY Observed DEF SeenOK, NoSpuriousAbort

LEMMA SeenSet ==
  ASSUME WatchAssumption, IndexInv, SeenOK, Next, SetStep
  PROVE  SeenOK'
<1>1. PICK p \in Places, ttl \in BOOLEAN, D \in SUBSET Clients : KeySet(p, ttl, D)
  BY DEF SetStep
<1>2. snap' = snap /\ now' = now /\ now \in Nat /\ writes \in Nat /\ changed \subseteq Clients
      /\ db \in Stores
  BY DEF SetStep, Quiet, IndexInv, TypeOK, Stores
<1>3. \A c \in Clients : c \in changed => c \in changed'
  BY <1>2, StaysChanged
<1> DEFINE x == IF ttl THEN now + 1 ELSE 0
<1>4. db' = [db EXCEPT ![p] = [ver |-> writes + 1, exp |-> x]]
  BY <1>1 DEF KeySet
<1>5. x = 0 \/ x = now + 1
  OBVIOUS
<1> HIDE DEF x
<1>6. /\ db'[p].ver = writes + 1 /\ db'[p].exp = x
      /\ \A q \in Places \ {p} : db'[q] = db[q]
  BY <1>2, <1>4 DEF Stores
<1>7. ~keyIsExpired(db[p])' /\ Seen(db'[p], now') = writes + 1
  BY <1>2, <1>5, <1>6 DEF keyIsExpired, Seen
<1>8. /\ wk'.expired \subseteq wk.expired /\ wk'.dirty = wk.dirty \cup D /\ D \subseteq Watchers(wk, p)
      /\ \A q \in Places : Watchers(wk', q) = Watchers(wk, q) \ D
      /\ \A c \in Clients \ D, q \in Places \ {p} : <<c, q>> \in wk.expired => <<c, q>> \in wk'.expired
  BY <1>1 DEF KeySet, Marked
<1>9. \A c \in Clients \ changed', q \in Places : <<c, q>> \in wk'.expired => snap'[c][q] = 0
  BY <1>2, <1>3, <1>8 DEF SeenOK
<1>10. ASSUME NEW c \in Clients \ changed', NEW q \in Places, c \in Watchers(wk', q), <<c, q>> \notin wk'.expired
       PROVE  ~keyIsExpired(db[q])'
  <2>1. CASE q = p
    BY <1>7, <2>1
  <2>2. CASE q # p
    <3>1. ~keyIsExpired(db[q])
      BY <1>3, <1>8, <1>10, <2>2 DEF SeenOK
    <3> QED BY <1>2, <1>6, <2>2, <3>1 DEF keyIsExpired
  <2> QED BY <2>1, <2>2
<1>11. ASSUME NEW c \in wk'.dirty PROVE c \in changed'
  <2>1. CASE c \in wk.dirty
    BY <1>2, <1>3, <2>1 DEF SeenOK, NoSpuriousAbort
  <2>2. CASE c \in D
    <3>1. c \in Clients /\ snap[c][p] # -1 /\ snap[c][p] <= writes /\ snap[c][p] \in Int
      BY <1>8, <2>2 DEF IndexInv, Linked, DbOK, TypeOK
    <3>2. Seen(db'[p], now') # snap'[c][p]
      BY <1>2, <1>7, <3>1
    <3> QED BY <1>2, <3>1, <3>2, Observed
  <2> QED BY <1>8, <2>1, <2>2
<1> QED BY <1>9, <1>10, <1>11, SeenFrom

LEMMA SeenGone ==
  ASSUME WatchAssumption, IndexInv, SeenOK, Next, GoneStep
  PROVE  SeenOK'
<1>1. PICK p \in Places : KeyGone(p)
  BY DEF GoneStep
<1>2. snap' = snap /\ now' = now /\ changed \subseteq Clients /\ db \in Stores
  BY DEF GoneStep, Quiet, IndexInv, TypeOK, Stores
<1>3. \A c \in Clients : c \in changed => c \in changed'
  BY <1>2, StaysChanged
<1>4. db'[p] = Absent /\ \A q \in Places \ {p} : db'[q] = db[q]
  BY <1>1, <1>2 DEF KeyGone, Stores
<1>5. ~keyIsExpired(db[p])' /\ Seen(db'[p], now') = 0
  BY <1>4 DEF keyIsExpired, Seen, Absent
<1>6. PICK D : /\ D = IF db[p].ver # 0 THEN Watchers(wk, p) \ Expired(wk, p) ELSE {}
               /\ Marked(wk, wk', D)
               /\ wk'.expired = {f \in wk.expired : f[1] \notin D /\ (db[p].ver # 0 => f[2] # p)}
  BY <1>1 DEF KeyGone
<1>7. /\ wk'.dirty = wk.dirty \cup D /\ wk'.expired \subseteq wk.expired
      /\ \A q \in Places : Watchers(wk', q) = Watchers(wk, q) \ D
      /\ \A c \in Clients \ D, q \in Places \ {p} : <<c, q>> \in wk.expired => <<c, q>> \in wk'.expired
  BY <1>6 DEF Marked
<1>8. \A c \in Clients \ changed', q \in Places : <<c, q>> \in wk'.expired => snap'[c][q] = 0
  BY <1>2, <1>3, <1>7 DEF SeenOK
<1>9. ASSUME NEW c \in Clients \ changed', NEW q \in Places, c \in Watchers(wk', q), <<c, q>> \notin wk'.expired
      PROVE  ~keyIsExpired(db[q])'
  <2>1. CASE q = p
    BY <1>5, <2>1
  <2>2. CASE q # p
    <3>1. ~keyIsExpired(db[q])
      BY <1>3, <1>7, <1>9, <2>2 DEF SeenOK
    <3> QED BY <1>2, <1>4, <2>2, <3>1 DEF keyIsExpired
  <2> QED BY <2>1, <2>2
<1>10. ASSUME NEW c \in wk'.dirty PROVE c \in changed'
  <2>1. CASE c \in wk.dirty
    BY <1>2, <1>3, <2>1 DEF SeenOK, NoSpuriousAbort
  <2>2. CASE c \in D /\ c \notin changed
    <3>1. db[p].ver # 0 /\ c \in Clients /\ c \in Watchers(wk, p) /\ <<c, p>> \notin wk.expired
      BY <1>6, <2>2 DEF Watchers, Expired
    <3>2. snap[c][p] # -1 /\ ~keyIsExpired(db[p])
      BY <2>2, <3>1 DEF IndexInv, Linked, SeenOK
    <3>3. snap[c][p] = Seen(db[p], now)
      BY <2>2, <3>1, <3>2 DEF SeenOK
    <3>4. Seen(db[p], now) = db[p].ver
      BY <3>2 DEF Seen, keyIsExpired
    <3> QED BY <1>2, <1>5, <3>1, <3>2, <3>3, <3>4, Observed
  <2>3. CASE c \in D /\ c \in changed
    BY <1>2, <1>3, <2>3
  <2> QED BY <1>7, <2>1, <2>2, <2>3
<1> QED BY <1>8, <1>9, <1>10, SeenFrom

LEMMA SeenBulk ==
  ASSUME WatchAssumption, IndexInv, SeenOK, Next, BulkStep
  PROVE  SeenOK'
<1>1. PICK S \in SUBSET Places, D \in SUBSET Clients : Replaced(wk, wk', D, S, db, db') /\ Moved(S)
  BY DEF BulkStep
<1>2. snap' = snap /\ now' = now /\ changed \subseteq Clients /\ DbOK /\ DbOK'
  BY WrittenDb DEF BulkStep, Quiet, IndexInv, TypeOK
<1>3. \A c \in Clients : c \in changed => c \in changed'
  BY <1>2, StaysChanged
<1>4. \A p \in Places : keyIsExpired(db'[p]) <=> keyIsExpired(db[p])'
  BY <1>2 DEF keyIsExpired
<1>5. \A p \in Places : keyIsExpired(db'[p]) => db'[p].ver # 0
  BY <1>2 DEF keyIsExpired, DbOK
<1>6. \A e : e.ver = 0 => Seen(e, now) = 0
  BY DEF Seen
<1>7. \A e : ~keyIsExpired(e) => Seen(e, now) = e.ver
  BY DEF Seen, keyIsExpired
<1>8. \A e : keyIsExpired(e) => Seen(e, now) = 0
  BY DEF Seen, keyIsExpired
<1>9. /\ wk'.dirty = wk.dirty \cup D /\ \A f \in wk'.expired : f[1] \notin D
      /\ \A q \in Places : Watchers(wk', q) = Watchers(wk, q) \ D
  BY <1>1 DEF Replaced, Marked
<1>10. ASSUME NEW c \in Clients \ changed', NEW p \in Places, <<c, p>> \in wk'.expired
       PROVE  snap'[c][p] = 0
  <2>1. c \notin changed /\ c \notin D
    BY <1>3, <1>9, <1>10
  <2>2. c \in Watchers(wk, p) /\ (<<c, p>> \in wk.expired \/ db[p].ver = 0)
    BY <1>1, <1>10, <2>1 DEF Replaced, FlagAfter
  <2>3. snap[c][p] # -1
    BY <2>2 DEF IndexInv, Linked
  <2>4. CASE <<c, p>> \in wk.expired
    BY <1>2, <2>1, <2>4 DEF SeenOK
  <2>5. CASE db[p].ver = 0
    BY <1>2, <1>6, <2>1, <2>3, <2>5 DEF SeenOK
  <2> QED BY <2>2, <2>4, <2>5
<1>11. ASSUME NEW c \in Clients \ changed', NEW p \in Places, c \in Watchers(wk', p), <<c, p>> \notin wk'.expired
       PROVE  ~keyIsExpired(db[p])'
  <2>1. c \notin changed /\ c \notin D /\ c \in Watchers(wk, p)
    BY <1>3, <1>9, <1>11
  <2>2. CASE p \in S
    <3>1. Keeps(wk, c, p, db[p], db'[p]) /\ ~FlagAfter(wk, c, p, db[p], db'[p])
      BY <1>1, <1>11, <2>1, <2>2 DEF Replaced
    <3> QED BY <1>4, <1>5, <3>1 DEF Keeps, FlagAfter
  <2>3. CASE p \notin S
    <3>1. <<c, p>> \notin wk.expired /\ db'[p] = db[p]
      BY <1>1, <1>11, <2>1, <2>3 DEF Replaced, Moved
    <3>2. ~keyIsExpired(db[p])
      BY <2>1, <3>1 DEF SeenOK
    <3> QED BY <1>4, <3>1, <3>2
  <2> QED BY <2>2, <2>3
<1>12. ASSUME NEW c \in wk'.dirty PROVE c \in changed'
  <2>1. CASE c \in wk.dirty
    BY <1>2, <1>3, <2>1 DEF SeenOK, NoSpuriousAbort
  <2>2. CASE c \in D /\ c \in changed
    BY <1>3, <2>2
  <2>3. CASE c \in D /\ c \notin changed
    <3>1. PICK p \in S : c \in Watchers(wk, p) /\ ~Keeps(wk, c, p, db[p], db'[p])
      BY <1>1, <2>3 DEF Replaced
    <3>2. p \in Places /\ c \in Clients /\ snap[c][p] # -1
      BY <2>3, <3>1 DEF IndexInv, Linked
    <3>3. snap[c][p] = Seen(db[p], now)
      BY <2>3, <3>2 DEF SeenOK
    <3>4. CASE <<c, p>> \in wk.expired
      <4>1. snap[c][p] = 0
        BY <2>3, <3>2, <3>4 DEF SeenOK
      <4>2. db'[p].ver # 0 /\ ~keyIsExpired(db'[p])
        BY <3>1, <3>4 DEF Keeps
      <4>3. Seen(db'[p], now') # snap'[c][p]
        BY <1>2, <1>7, <4>1, <4>2
      <4> QED BY <1>2, <3>2, <4>3, Observed
    <3>5. CASE <<c, p>> \notin wk.expired
      <4>1. ~keyIsExpired(db[p])
        BY <2>3, <3>1, <3>2, <3>5 DEF SeenOK
      <4>2. snap[c][p] = db[p].ver
        BY <1>7, <3>3, <4>1
      <4>3. CASE db[p].ver = 0
        <5>1. db'[p].ver # 0 /\ ~keyIsExpired(db'[p])
          BY <3>1, <3>5, <4>3 DEF Keeps
        <5>2. Seen(db'[p], now') # snap'[c][p]
          BY <1>2, <1>7, <4>2, <4>3, <5>1
        <5> QED BY <1>2, <3>2, <5>2, Observed
      <4>4. CASE db[p].ver # 0
        <5>1. db'[p].ver # db[p].ver
          <6>1. CASE \A q \in S : db'[q] = Absent
            BY <4>4, <6>1 DEF Absent
          <6>2. CASE \E o \in [Places -> Places] :
                       /\ \A q \in Places : o[q] # q /\ db'[q] = db[o[q]]
                       /\ \A q, r \in Places : o[q] = o[r] => q = r
            <7>1. PICK o \in [Places -> Places] : \A q \in Places : o[q] # q /\ db'[q] = db[o[q]]
              BY <6>2
            <7> QED BY <1>2, <3>2, <4>4, <7>1 DEF DbOK
          <6> QED BY <1>1, <6>1, <6>2 DEF Moved
        <5>2. Seen(db'[p], now') # snap'[c][p]
          BY <1>2, <1>7, <1>8, <4>2, <4>4, <5>1
        <5> QED BY <1>2, <3>2, <5>2, Observed
      <4> QED BY <4>3, <4>4
    <3> QED BY <3>4, <3>5
  <2> QED BY <1>9, <2>1, <2>2, <2>3
<1> QED BY <1>10, <1>11, <1>12, SeenFrom

LEMMA SeenStep ==
  ASSUME WatchAssumption, IndexInv, IndexInv', SeenOK, [Next]_vars
  PROVE  SeenOK'
<1>0. /\ TypeOK /\ TableOK(wk) /\ Linked /\ DbOK /\ changed \subseteq Clients
      /\ snap \in [Clients -> [Places -> -1..MaxWrites]]
      /\ \A p \in Places : Watchers(wk, p) \subseteq Clients
      /\ \A c \in wk.dirty : c \in Clients /\ c \in changed
  BY DEF IndexInv, TypeOK, Watchers, SeenOK, NoSpuriousAbort
<1>1. CASE UNCHANGED vars
  BY <1>1 DEF SeenOK, NoSpuriousAbort, vars, Seen, keyIsExpired, Watchers
<1>2. CASE Next
  <2>1. ASSUME IdleStep PROVE SeenOK'
    <3>1. UNCHANGED <<db, wk, now, snap>>
      BY <2>1 DEF IdleStep, Quiet
    <3>2. \A c \in Clients : c \in changed => c \in changed'
      BY <1>0, <1>2, <3>1, StaysChanged
    <3>3. \A p \in Places : (keyIsExpired(db[p])' <=> keyIsExpired(db[p])) /\ Watchers(wk', p) = Watchers(wk, p)
      BY <3>1 DEF keyIsExpired
    <3> QED BY <1>0, <1>2, <3>1, <3>2, <3>3, SeenFrom DEF SeenOK
  <2>2. ASSUME Tick PROVE SeenOK'
    <3>1. UNCHANGED <<db, wk, snap>> /\ now' = now + 1 /\ now \in Nat
      BY <1>0, <2>2 DEF Tick, TypeOK
    <3>2. \A c \in Clients : c \in changed => c \in changed'
      BY <1>0, <1>2, <3>1, StaysChanged
    <3>3. ASSUME NEW c \in Clients \ changed', NEW p \in Places, c \in Watchers(wk', p), <<c, p>> \notin wk'.expired
          PROVE  ~keyIsExpired(db[p])'
      <4>1. c \notin changed /\ c \in Watchers(wk, p) /\ <<c, p>> \notin wk.expired
        BY <3>1, <3>2, <3>3
      <4>2. snap[c][p] # -1 /\ ~keyIsExpired(db[p])
        BY <1>0, <4>1 DEF Linked, SeenOK
      <4>3. snap[c][p] = Seen(db[p], now) /\ snap[c][p] = Seen(db[p], now')
        BY <1>2, <3>1, <4>1, <4>2, Observed DEF SeenOK
      <4>4. Seen(db[p], now) = db[p].ver
        BY <4>2 DEF Seen, keyIsExpired
      <4>5. keyIsExpired(db[p])' => Seen(db[p], now') = 0 /\ db[p].ver # 0
        BY <1>0, <3>1 DEF keyIsExpired, Seen, DbOK
      <4> QED BY <4>3, <4>4, <4>5
    <3> QED BY <1>0, <1>2, <3>1, <3>2, <3>3, SeenFrom DEF SeenOK
  <2>3. ASSUME NEW c \in Clients, LeaveStep(c) PROVE SeenOK'
    <3>1. /\ wk'.dirty = wk.dirty \ {c} /\ wk'.expired = {f \in wk.expired : f[1] # c}
          /\ \A p \in Places : Watchers(wk', p) = Watchers(wk, p) \ {c}
      BY <1>0, <2>3, CleanTable DEF LeaveStep
    <3>2. /\ db' = db /\ now' = now /\ \A b \in Clients \ {c} : snap'[b] = snap[b]
      BY <1>0, <2>3 DEF LeaveStep, Forget
    <3>3. \A b \in Clients \ {c} : b \in changed => b \in changed'
      BY <1>0, <1>2, <3>2, StaysChanged
    <3>4. \A p \in Places : keyIsExpired(db[p])' <=> keyIsExpired(db[p])
      BY <3>2 DEF keyIsExpired
    <3>5. \A b \in Clients, p \in Places : <<b, p>> \in wk'.expired <=> <<b, p>> \in wk.expired /\ b # c
      BY <3>1
    <3>6. \A b \in Clients \ changed', p \in Places : <<b, p>> \in wk'.expired => snap'[b][p] = 0
      BY <3>2, <3>3, <3>5 DEF SeenOK
    <3>7. \A b \in Clients \ changed', p \in Places :
             b \in Watchers(wk', p) /\ <<b, p>> \notin wk'.expired => ~keyIsExpired(db[p])'
      BY <3>1, <3>3, <3>4, <3>5 DEF SeenOK
    <3> QED BY <1>0, <1>2, <3>1, <3>3, <3>6, <3>7, SeenFrom
  <2>4. ASSUME NEW c \in Clients, execStarts(c) PROVE SeenOK'
    <3>1. wk' = unwatchAllKeys(wk, {c}) /\ UNCHANGED <<db, now, snap>>
      BY <2>4 DEF execStarts
    <3>2. /\ wk'.dirty = wk.dirty /\ wk'.expired = {f \in wk.expired : f[1] \notin {c}}
          /\ \A p \in Places : Watchers(wk', p) = Watchers(wk, p) \ {c}
      BY <1>0, <3>1, Unwatched DEF TableOK
    <3>3. \A b \in Clients : b \in changed => b \in changed'
      BY <1>0, <1>2, <3>1, StaysChanged
    <3>4. \A p \in Places : keyIsExpired(db[p])' <=> keyIsExpired(db[p])
      BY <3>1 DEF keyIsExpired
    <3>5. \A b \in Clients, p \in Places : <<b, p>> \in wk'.expired <=> <<b, p>> \in wk.expired /\ b # c
      BY <3>2
    <3>6. \A b \in Clients \ changed', p \in Places : <<b, p>> \in wk'.expired => snap'[b][p] = 0
      BY <3>1, <3>3, <3>5 DEF SeenOK
    <3>7. \A b \in Clients \ changed', p \in Places :
             b \in Watchers(wk', p) /\ <<b, p>> \notin wk'.expired => ~keyIsExpired(db[p])'
      BY <3>2, <3>3, <3>4, <3>5 DEF SeenOK
    <3> QED BY <1>0, <1>2, <3>2, <3>3, <3>6, <3>7, SeenFrom
  <2>5. ASSUME NEW c \in Clients, NEW p \in Places, watchCommand(c, p) PROVE SeenOK'
    <3>1. /\ wk'.dirty = wk.dirty
          /\ wk'.expired = wk.expired \cup (IF keyIsExpired(db[p]) THEN {<<c, p>>} ELSE {})
          /\ \A q \in Places : Watchers(wk', q) = Watchers(wk, q) \cup (IF q = p THEN {c} ELSE {})
      BY <1>0, <2>5, WatchTable
    <3>2. /\ snap' = [snap EXCEPT ![c][p] = Seen(db[p], now)] /\ UNCHANGED <<db, now>>
          /\ c \notin Watchers(wk, p) /\ c \notin wk.dirty /\ running = NoClient
      BY <2>5 DEF watchCommand, Idle
    <3>3. \A b \in Clients, q \in Places :
             snap'[b][q] = IF b = c /\ q = p THEN Seen(db[p], now) ELSE snap[b][q]
      BY <1>0, <3>2
    <3>4. snap[c][p] = -1
      BY <1>0, <3>2 DEF Linked, WatchAssumption
    <3>5. \A b \in Clients : b \in changed => b \in changed'
      BY <1>0, <1>2, <3>3, <3>4, StaysChanged
    <3>6. \A q \in Places : keyIsExpired(db[q])' <=> keyIsExpired(db[q])
      BY <3>2 DEF keyIsExpired
    <3>7. \A b \in Clients, q \in Places :
             <<b, q>> \in wk'.expired <=> <<b, q>> \in wk.expired \/ (b = c /\ q = p /\ keyIsExpired(db[p]))
      BY <3>1
    <3>8. keyIsExpired(db[p]) => Seen(db[p], now) = 0
      BY DEF keyIsExpired, Seen
    <3>9. <<c, p>> \notin wk.expired
      BY <1>0, <3>2 DEF TableOK
    <3>10. \A b \in Clients \ changed', q \in Places : <<b, q>> \in wk'.expired => snap'[b][q] = 0
      BY <3>3, <3>5, <3>7, <3>8, <3>9 DEF SeenOK
    <3>11. \A b \in Clients \ changed', q \in Places :
              b \in Watchers(wk', q) /\ <<b, q>> \notin wk'.expired => ~keyIsExpired(db[q])'
      BY <3>1, <3>5, <3>6, <3>7 DEF SeenOK
    <3> QED BY <1>0, <1>2, <3>1, <3>5, <3>10, <3>11, SeenFrom
  <2> QED BY <1>0, <1>2, <2>1, <2>2, <2>3, <2>4, <2>5, StepKinds, SeenSet, SeenGone, SeenBulk
<1> QED BY <1>1, <1>2

\* A client is marked dirty only by a change it could see: the deletion of a
\* key that was expired at WATCH, and FLUSHDB or SWAPDB over such keys, abort
\* nothing, on a master and on a replica (touchWatchedKey,
\* touchAllWatchedKeysInDb).
THEOREM AbortsHaveAReason == ASSUME WatchAssumption PROVE Spec => []NoSpuriousAbort
<1>1. SeenOK => NoSpuriousAbort
  BY DEF SeenOK
<1> QED BY <1>1, IndexInit, IndexStep, SeenInit, SeenStep, PTL DEF Spec

-----------------------------------------------------------------------------
(* The optimistic lock of a master.                                        *)

\* A watched key of c that was live is expired now.
Overdue(w, c, p) == c \in Watchers(w, p) /\ <<c, p>> \notin w.expired /\ keyIsExpired(db[p])

LEMMA OverdueMeans ==
  ASSUME NEW c \in Clients
  PROVE  isWatchedKeyExpired(wk, c) <=> \E p \in Places : Overdue(wk, c, p)
BY DEF isWatchedKeyExpired, Overdue, Expired

\* A flag means that the key is expired in the dict; who has seen a change is
\* dirty, or watches a key that expired and that EXEC will find.
MasterOK ==
  /\ \A c \in Clients, p \in Places : <<c, p>> \in wk.expired => keyIsExpired(db[p])
  /\ \A c \in changed : c \in wk.dirty \/ c = running \/ \E p \in Places : Overdue(wk, c, p)

LEMMA MasterInit ==
  ASSUME Init
  PROVE  MasterOK
BY DEF Init, MasterOK

LEMMA MasterSet ==
  ASSUME WatchAssumption, ~Replica, IndexInv, IndexInv', SeenOK, MasterOK, Next, SetStep
  PROVE  MasterOK'
<1>1. PICK p \in Places, ttl \in BOOLEAN, D \in SUBSET Clients : KeySet(p, ttl, D)
  BY DEF SetStep
<1>2. snap' = snap /\ now' = now /\ running' = running /\ db \in Stores
  BY DEF SetStep, Quiet, IndexInv, TypeOK, Stores
<1>3. \A q \in Places \ {p} : db'[q] = db[q]
  BY <1>1, <1>2 DEF KeySet, Stores
<1>4. \A q \in Places \ {p} : keyIsExpired(db[q])' <=> keyIsExpired(db[q])
  BY <1>2, <1>3 DEF keyIsExpired
<1>5. D = Watchers(wk, p)
  <2>1. Expired(wk, p) # {} => keyIsExpired(db[p])
    BY DEF Expired, MasterOK
  <2> QED BY <1>1, <2>1 DEF KeySet
<1>6. /\ wk'.dirty = wk.dirty \cup D /\ wk'.expired \subseteq wk.expired
      /\ \A q \in Places : Watchers(wk', q) = Watchers(wk, q) \ D
  BY <1>1 DEF KeySet, Marked
<1>7. ASSUME NEW c \in Clients, NEW q \in Places, <<c, q>> \in wk'.expired PROVE keyIsExpired(db[q])'
  <2>1. c \in Watchers(wk', q)
    BY <1>7 DEF IndexInv, TableOK
  <2>2. q # p
    BY <1>5, <1>6, <2>1
  <2> QED BY <1>4, <1>6, <1>7, <2>2 DEF MasterOK
<1>8. ASSUME NEW c \in changed', c \notin wk'.dirty, c # running'
      PROVE  \E q \in Places : Overdue(wk, c, q)'
  <2>1. c \in Clients /\ c \notin D /\ c \notin wk.dirty /\ c # running
    BY <1>2, <1>6, <1>8, Observed
  <2>2. CASE c \in changed
    <3>1. PICK q \in Places : Overdue(wk, c, q)
      BY <2>1, <2>2 DEF MasterOK
    <3>2. q # p
      BY <1>5, <2>1, <3>1 DEF Overdue
    <3>3. Overdue(wk, c, q)'
      BY <1>4, <1>6, <2>1, <3>1, <3>2 DEF Overdue
    <3> QED BY <3>3
  <2>3. CASE c \notin changed
    <3>1. PICK q \in Places : snap[c][q] # -1 /\ Seen(db'[q], now') # snap[c][q]
      BY <1>2, <1>8, <2>3, Observed
    <3>2. c \in Watchers(wk, q) /\ snap[c][q] = Seen(db[q], now)
      BY <2>1, <2>3, <3>1 DEF IndexInv, Linked, SeenOK
    <3> QED BY <1>2, <1>3, <1>5, <2>1, <3>1, <3>2
  <2> QED BY <2>2, <2>3
<1> QED BY <1>7, <1>8 DEF MasterOK

LEMMA MasterGone ==
  ASSUME WatchAssumption, ~Replica, IndexInv, IndexInv', SeenOK, MasterOK, Next, GoneStep
  PROVE  MasterOK'
<1>1. PICK p \in Places : KeyGone(p)
  BY DEF GoneStep
<1>2. snap' = snap /\ now' = now /\ running' = running /\ db \in Stores
  BY DEF GoneStep, Quiet, IndexInv, TypeOK, Stores
<1>3. db'[p] = Absent /\ \A q \in Places \ {p} : db'[q] = db[q]
  BY <1>1, <1>2 DEF KeyGone, Stores
<1>4. \A q \in Places \ {p} : keyIsExpired(db[q])' <=> keyIsExpired(db[q])
  BY <1>2, <1>3 DEF keyIsExpired
<1>5. PICK D : /\ D = IF db[p].ver # 0 THEN Watchers(wk, p) \ Expired(wk, p) ELSE {}
               /\ Marked(wk, wk', D)
               /\ wk'.expired = {f \in wk.expired : f[1] \notin D /\ (db[p].ver # 0 => f[2] # p)}
  BY <1>1 DEF KeyGone
<1>6. /\ wk'.dirty = wk.dirty \cup D /\ wk'.expired \subseteq wk.expired
      /\ \A q \in Places : Watchers(wk', q) = Watchers(wk, q) \ D
      /\ \A c \in Clients : db[p].ver # 0 => <<c, p>> \notin wk'.expired
  BY <1>5 DEF Marked
<1>7. keyIsExpired(db[p]) => db[p].ver # 0
  BY DEF keyIsExpired, IndexInv, DbOK
<1>8. \A c \in Clients : db[p].ver # 0 /\ c \in Watchers(wk, p) /\ <<c, p>> \notin wk.expired => c \in D
  BY <1>5 DEF Expired
<1>9. ASSUME NEW c \in Clients, NEW q \in Places, <<c, q>> \in wk'.expired PROVE keyIsExpired(db[q])'
  <2>1. keyIsExpired(db[q])
    BY <1>6, <1>9 DEF MasterOK
  <2>2. q # p
    BY <1>6, <1>7, <1>9, <2>1
  <2> QED BY <1>4, <2>1, <2>2
<1>10. ASSUME NEW c \in changed', c \notin wk'.dirty, c # running'
      PROVE  \E q \in Places : Overdue(wk, c, q)'
  <2>1. c \in Clients /\ c \notin D /\ c \notin wk.dirty /\ c # running
    BY <1>2, <1>6, <1>10, Observed
  <2>2. CASE c \in changed
    <3>1. PICK q \in Places : Overdue(wk, c, q)
      BY <2>1, <2>2 DEF MasterOK
    <3>2. q # p
      BY <1>7, <1>8, <2>1, <3>1 DEF Overdue
    <3>3. Overdue(wk, c, q)'
      BY <1>4, <1>6, <2>1, <3>1, <3>2 DEF Overdue
    <3> QED BY <3>3
  <2>3. CASE c \notin changed
    <3>1. PICK q \in Places : snap[c][q] # -1 /\ Seen(db'[q], now') # snap[c][q]
      BY <1>2, <1>10, <2>3, Observed
    <3>2. c \in Watchers(wk, q) /\ snap[c][q] = Seen(db[q], now)
      BY <2>1, <2>3, <3>1 DEF IndexInv, Linked, SeenOK
    <3>3. q = p
      BY <1>2, <1>3, <3>1, <3>2
    <3>4. Seen(db'[p], now') = 0
      BY <1>3 DEF Seen, Absent
    <3>5. db[p].ver # 0 /\ ~keyIsExpired(db[p])
      BY <3>1, <3>2, <3>3, <3>4 DEF Seen, keyIsExpired
    <3>6. <<c, p>> \notin wk.expired
      BY <2>1, <3>5 DEF MasterOK
    <3> QED BY <1>8, <2>1, <3>2, <3>3, <3>5, <3>6
  <2> QED BY <2>2, <2>3
<1> QED BY <1>9, <1>10 DEF MasterOK

LEMMA MasterBulk ==
  ASSUME WatchAssumption, ~Replica, IndexInv, IndexInv', SeenOK, MasterOK, Next, BulkStep
  PROVE  MasterOK'
<1>1. PICK S \in SUBSET Places, D \in SUBSET Clients : Replaced(wk, wk', D, S, db, db') /\ Moved(S)
  BY DEF BulkStep
<1>2. snap' = snap /\ now' = now /\ running' = running
  BY DEF BulkStep, Quiet
<1>3. \A q \in Places \ S : db'[q] = db[q]
  BY <1>1 DEF Moved
<1>4. \A q \in Places : keyIsExpired(db[q])' <=> keyIsExpired(db'[q])
  BY <1>2 DEF keyIsExpired
<1>5. /\ wk'.dirty = wk.dirty \cup D /\ \A f \in wk'.expired : f[1] \notin D
      /\ \A q \in Places : Watchers(wk', q) = Watchers(wk, q) \ D
  BY <1>1 DEF Replaced, Marked
<1>6. \A q \in Places : keyIsExpired(db[q]) => db[q].ver # 0
  BY DEF keyIsExpired, IndexInv, DbOK
<1>7. ASSUME NEW c \in Clients, NEW q \in Places, <<c, q>> \in wk'.expired PROVE keyIsExpired(db[q])'
  <2>1. c \notin D /\ c \in Watchers(wk, q)
    <3>1. c \notin D
      BY <1>5, <1>7
    <3> QED BY <1>1, <1>7, <3>1 DEF Replaced
  <2>2. CASE q \in S
    <3>1. Keeps(wk, c, q, db[q], db'[q]) /\ FlagAfter(wk, c, q, db[q], db'[q])
      BY <1>1, <1>7, <2>1, <2>2 DEF Replaced
    <3>2. <<c, q>> \in wk.expired => db[q].ver # 0
      BY <1>6 DEF MasterOK
    <3> QED BY <1>4, <3>1, <3>2 DEF Keeps, FlagAfter
  <2>3. CASE q \notin S
    <3>1. <<c, q>> \in wk.expired
      BY <1>1, <1>7, <2>1, <2>3 DEF Replaced
    <3> QED BY <1>3, <1>4, <2>3, <3>1 DEF MasterOK
  <2> QED BY <2>2, <2>3
<1>8. ASSUME NEW c \in changed', c \notin wk'.dirty, c # running'
      PROVE  \E q \in Places : Overdue(wk, c, q)'
  <2>1. c \in Clients /\ c \notin D /\ c \notin wk.dirty /\ c # running
    BY <1>2, <1>5, <1>8, Observed
  <2>2. CASE c \in changed
    <3>1. PICK q \in Places : c \in Watchers(wk, q) /\ <<c, q>> \notin wk.expired /\ keyIsExpired(db[q])
      BY <2>1, <2>2 DEF MasterOK, Overdue
    <3>2. q \notin S
      <4>1. db[q].ver # 0
        BY <1>6, <3>1
      <4>2. ~Keeps(wk, c, q, db[q], db'[q])
        BY <3>1, <4>1 DEF Keeps
      <4> QED BY <1>1, <2>1, <3>1, <4>2 DEF Replaced
    <3>3. <<c, q>> \notin wk'.expired
      BY <1>1, <2>1, <3>1, <3>2 DEF Replaced
    <3>4. Overdue(wk, c, q)'
      BY <1>3, <1>4, <1>5, <2>1, <3>1, <3>2, <3>3 DEF Overdue
    <3> QED BY <3>4
  <2>3. CASE c \notin changed
    <3>1. PICK q \in Places : snap[c][q] # -1 /\ Seen(db'[q], now) # snap[c][q]
      BY <1>2, <1>8, <2>3, Observed
    <3>2. c \in Watchers(wk, q) /\ snap[c][q] = Seen(db[q], now)
      BY <2>1, <2>3, <3>1 DEF IndexInv, Linked, SeenOK
    <3>3. q \in S
      BY <1>3, <3>1, <3>2
    <3>4. Keeps(wk, c, q, db[q], db'[q])
      BY <1>1, <2>1, <3>2, <3>3 DEF Replaced
    <3>5. <<c, q>> \in wk.expired => snap[c][q] = 0
      BY <2>1, <2>3 DEF SeenOK
    <3>6. db[q].ver = 0 => snap[c][q] = 0
      BY <3>2 DEF Seen
    <3>7. db'[q].ver = 0 \/ keyIsExpired(db'[q]) => Seen(db'[q], now) = 0
      BY DEF Seen, keyIsExpired
    <3> QED BY <3>1, <3>4, <3>5, <3>6, <3>7 DEF Keeps
  <2> QED BY <2>2, <2>3
<1> QED BY <1>7, <1>8 DEF MasterOK

LEMMA MasterStep ==
  ASSUME WatchAssumption, ~Replica, IndexInv, IndexInv', SeenOK, MasterOK, [Next]_vars
  PROVE  MasterOK'
<1>0. /\ TypeOK /\ TableOK(wk) /\ Linked /\ DbOK
      /\ snap \in [Clients -> [Places -> -1..MaxWrites]]
      /\ \A p \in Places : Watchers(wk, p) \subseteq Clients
  BY DEF IndexInv, TypeOK, Watchers
<1>1. CASE UNCHANGED vars
  BY <1>1 DEF MasterOK, Overdue, vars, keyIsExpired, Watchers
<1>2. CASE Next
  <2>1. ASSUME IdleStep PROVE MasterOK'
    <3>1. UNCHANGED <<db, wk, now, snap, running>>
      BY <2>1 DEF IdleStep, Quiet
    <3>2. \A p \in Places : keyIsExpired(db[p])' <=> keyIsExpired(db[p])
      BY <3>1 DEF keyIsExpired
    <3>3. \A c \in Clients, p \in Places : Overdue(wk, c, p)' <=> Overdue(wk, c, p)
      BY <3>1, <3>2 DEF Overdue
    <3>4. \A c \in changed' : c \in Clients /\ (c \notin wk.dirty /\ c # running => c \in changed)
      BY <1>0, <1>2, <3>1, Observed DEF SeenOK, Linked
    <3> QED BY <3>1, <3>2, <3>3, <3>4 DEF MasterOK
  <2>2. ASSUME Tick PROVE MasterOK'
    <3>1. UNCHANGED <<db, wk, snap, running>> /\ now' = now + 1 /\ now \in Nat
      BY <1>0, <2>2 DEF Tick, TypeOK
    <3>2. \A p \in Places : db[p].exp \in Nat
      BY <1>0 DEF TypeOK
    <3>3. \A p \in Places : keyIsExpired(db[p]) => keyIsExpired(db[p])'
      BY <3>1, <3>2 DEF keyIsExpired
    <3>4. ASSUME NEW c \in changed', c \notin wk'.dirty, c # running'
          PROVE  \E q \in Places : Overdue(wk, c, q)'
      <4>1. c \in Clients /\ c \notin wk.dirty /\ c # running
        BY <1>2, <3>1, <3>4, Observed
      <4>2. CASE c \in changed
        <5>1. PICK q \in Places : Overdue(wk, c, q)
          BY <4>1, <4>2 DEF MasterOK
        <5>2. Overdue(wk, c, q)'
          BY <3>1, <3>3, <5>1 DEF Overdue
        <5> QED BY <5>2
      <4>3. CASE c \notin changed
        <5>1. PICK q \in Places : snap[c][q] # -1 /\ Seen(db[q], now') # snap[c][q]
          BY <1>2, <3>1, <3>4, <4>3, Observed
        <5>2. c \in Watchers(wk, q) /\ snap[c][q] = Seen(db[q], now)
          BY <1>0, <4>1, <4>3, <5>1 DEF Linked, SeenOK
        <5>3. keyIsExpired(db[q])' /\ ~keyIsExpired(db[q])
          BY <3>1, <3>3, <5>1, <5>2 DEF keyIsExpired, Seen
        <5>4. <<c, q>> \notin wk.expired
          BY <4>1, <5>3 DEF MasterOK
        <5>5. Overdue(wk, c, q)'
          BY <3>1, <5>2, <5>3, <5>4 DEF Overdue
        <5> QED BY <5>5
      <4> QED BY <4>2, <4>3
    <3> QED BY <3>1, <3>3, <3>4 DEF MasterOK
  <2>3. ASSUME NEW c \in Clients, LeaveStep(c) PROVE MasterOK'
    <3>1. /\ wk'.dirty = wk.dirty \ {c} /\ wk'.expired = {f \in wk.expired : f[1] # c}
          /\ \A p \in Places : Watchers(wk', p) = Watchers(wk, p) \ {c}
      BY <1>0, <2>3, CleanTable DEF LeaveStep
    <3>2. /\ db' = db /\ now' = now /\ \A b \in Clients \ {c} : snap'[b] = snap[b]
          /\ \A p \in Places : snap'[c][p] = -1
          /\ running' = running \/ running = c
      BY <1>0, <2>3 DEF LeaveStep, Forget
    <3>3. \A p \in Places : keyIsExpired(db[p])' <=> keyIsExpired(db[p])
      BY <3>2 DEF keyIsExpired
    <3>4. \A b \in Clients, p \in Places : <<b, p>> \in wk'.expired <=> <<b, p>> \in wk.expired /\ b # c
      BY <3>1
    <3>5. \A b \in changed' : b \in Clients /\ b # c
      BY <1>2, <3>2, Observed
    <3>6. \A b \in Clients \ {c}, p \in Places : Overdue(wk, b, p) => Overdue(wk, b, p)'
      BY <3>1, <3>3, <3>4 DEF Overdue
    <3>7. ASSUME NEW b \in changed', b \notin wk.dirty, b # running PROVE b \in changed
      BY <1>0, <1>2, <3>2, <3>5, <3>7, Observed DEF SeenOK, Linked
    <3>8. ASSUME NEW b \in changed', b \notin wk'.dirty, b # running'
          PROVE  \E q \in Places : Overdue(wk, b, q)'
      <4>1. b \notin wk.dirty /\ b # running /\ b \in Clients \ {c}
        BY <3>1, <3>2, <3>5, <3>8
      <4>2. PICK q \in Places : Overdue(wk, b, q)
        BY <3>7, <4>1 DEF MasterOK
      <4> QED BY <3>6, <4>1, <4>2
    <3>9. \A b \in Clients, p \in Places : <<b, p>> \in wk'.expired => keyIsExpired(db[p])'
      BY <3>3, <3>4 DEF MasterOK
    <3> QED BY <3>8, <3>9 DEF MasterOK
  <2>4. ASSUME NEW c \in Clients, execStarts(c) PROVE MasterOK'
    <3>1. wk' = unwatchAllKeys(wk, {c}) /\ UNCHANGED <<db, now, snap>> /\ running' = c /\ running = NoClient
      BY <2>4 DEF execStarts, Idle
    <3>2. /\ wk'.dirty = wk.dirty /\ wk'.expired = {f \in wk.expired : f[1] \notin {c}}
          /\ \A p \in Places : Watchers(wk', p) = Watchers(wk, p) \ {c}
      BY <1>0, <3>1, Unwatched DEF TableOK
    <3>3. \A p \in Places : keyIsExpired(db[p])' <=> keyIsExpired(db[p])
      BY <3>1 DEF keyIsExpired
    <3>4. \A b \in Clients, p \in Places : <<b, p>> \in wk'.expired <=> <<b, p>> \in wk.expired /\ b # c
      BY <3>2
    <3>5. \A b \in Clients \ {c}, p \in Places : Overdue(wk, b, p) => Overdue(wk, b, p)'
      BY <3>2, <3>3, <3>4 DEF Overdue
    <3>6. ASSUME NEW b \in changed', b \notin wk'.dirty, b # running'
          PROVE  \E q \in Places : Overdue(wk, b, q)'
      <4>1. b \notin wk.dirty /\ b # running /\ b \in Clients \ {c}
        BY <1>2, <3>1, <3>2, <3>6, Observed DEF WatchAssumption
      <4>2. b \in changed
        BY <1>0, <1>2, <3>1, <3>6, <4>1, Observed DEF SeenOK, Linked
      <4>3. PICK q \in Places : Overdue(wk, b, q)
        BY <4>1, <4>2 DEF MasterOK
      <4> QED BY <3>5, <4>1, <4>3
    <3>7. \A b \in Clients, p \in Places : <<b, p>> \in wk'.expired => keyIsExpired(db[p])'
      BY <3>3, <3>4 DEF MasterOK
    <3> QED BY <3>6, <3>7 DEF MasterOK
  <2>5. ASSUME NEW c \in Clients, NEW p \in Places, watchCommand(c, p) PROVE MasterOK'
    <3>1. /\ wk'.dirty = wk.dirty
          /\ wk'.expired = wk.expired \cup (IF keyIsExpired(db[p]) THEN {<<c, p>>} ELSE {})
          /\ \A q \in Places : Watchers(wk', q) = Watchers(wk, q) \cup (IF q = p THEN {c} ELSE {})
      BY <1>0, <2>5, WatchTable
    <3>2. /\ snap' = [snap EXCEPT ![c][p] = Seen(db[p], now)] /\ UNCHANGED <<db, now, running>>
          /\ c \notin Watchers(wk, p)
      BY <2>5 DEF watchCommand, Idle
    <3>3. \A b \in Clients, q \in Places :
             snap'[b][q] = IF b = c /\ q = p THEN Seen(db[p], now) ELSE snap[b][q]
      BY <1>0, <3>2
    <3>4. \A q \in Places : keyIsExpired(db[q])' <=> keyIsExpired(db[q])
      BY <3>2 DEF keyIsExpired
    <3>5. \A b \in Clients, q \in Places :
             <<b, q>> \in wk'.expired <=> <<b, q>> \in wk.expired \/ (b = c /\ q = p /\ keyIsExpired(db[p]))
      BY <3>1
    <3>6. \A b \in Clients, q \in Places : Overdue(wk, b, q) => Overdue(wk, b, q)'
      BY <3>1, <3>2, <3>4, <3>5 DEF Overdue
    <3>7. ASSUME NEW b \in changed', b \notin changed PROVE FALSE
      <4>1. PICK q \in Places : snap'[b][q] # -1 /\ Seen(db[q], now) # snap'[b][q] /\ b \in Clients
        BY <1>2, <3>2, <3>7, Observed
      <4>2. snap'[b][q] = snap[b][q]
        BY <3>3, <4>1
      <4> QED BY <3>7, <4>1, <4>2 DEF SeenOK
    <3>8. \A b \in Clients, q \in Places : <<b, q>> \in wk'.expired => keyIsExpired(db[q])'
      BY <3>4, <3>5 DEF MasterOK
    <3>9. ASSUME NEW b \in changed', b \notin wk'.dirty, b # running'
          PROVE  \E q \in Places : Overdue(wk, b, q)'
      <4>1. b \in changed /\ b \notin wk.dirty /\ b # running /\ b \in Clients
        BY <1>2, <3>1, <3>2, <3>7, <3>9, Observed
      <4> QED BY <3>6, <4>1 DEF MasterOK
    <3> QED BY <3>8, <3>9 DEF MasterOK
  <2> QED BY <1>0, <1>2, <2>1, <2>2, <2>3, <2>4, <2>5, StepKinds, MasterSet, MasterGone, MasterBulk
<1> QED BY <1>1, <1>2

LEMMA OnlyExecStarts ==
  ASSUME WatchAssumption, IndexInv, Next, NEW c \in Clients, Starts(c)
  PROVE  execStarts(c)
<1>1. running = NoClient /\ running' = c /\ NoClient \notin Clients
  BY DEF Starts, WatchAssumption
<1>2. ~SetStep /\ ~GoneStep /\ ~BulkStep /\ ~IdleStep /\ ~Tick
  BY <1>1 DEF SetStep, GoneStep, BulkStep, IdleStep, Tick, Quiet
<1>3. \A b \in Clients : ~LeaveStep(b) /\ \A p \in Places : ~watchCommand(b, p)
  BY <1>1 DEF LeaveStep, watchCommand
<1>4. \A b \in Clients : execStarts(b) => b = c
  BY <1>1 DEF execStarts
<1> QED BY <1>2, <1>3, <1>4, StepKinds DEF IndexInv

\* EXEC of a master runs a transaction only if every watched key still has the
\* value of the WATCH, whatever was written, expired, deleted, flushed or
\* swapped in between (execCommand, isWatchedKeyExpired, multi.c).
THEOREM TransactionsAreLocked ==
  ASSUME WatchAssumption, ~Replica PROVE Spec => [][OptimisticLock]_vars
<1>1. ASSUME IndexInv, MasterOK, Next PROVE OptimisticLock
  <2> SUFFICES ASSUME NEW c \in Clients, Starts(c) PROVE c \notin changed
    BY DEF OptimisticLock
  <2>1. execStarts(c)
    BY <1>1, OnlyExecStarts
  <2>2. c \notin wk.dirty /\ ~isWatchedKeyExpired(wk, c) /\ running = NoClient
    BY <2>1 DEF execStarts, Aborts, Idle
  <2>3. c # running
    BY <2>2 DEF WatchAssumption
  <2> QED BY <1>1, <2>2, <2>3, OverdueMeans DEF MasterOK
<1> QED BY <1>1, IndexInit, IndexStep, SeenInit, SeenStep, MasterInit, MasterStep, PTL DEF Spec

-----------------------------------------------------------------------------
(* The queues.                                                             *)

\* Outside of MULTI a client has no queue; a client that nothing has marked
\* has queued all that it sent.
QueueOf(c) ==
  /\ ~InMulti(c) => /\ cl[c].queue = <<>> /\ sent[c] = 0
                    /\ "dirty_exec" \notin cl[c].flags /\ c # running
  /\ "dirty_exec" \notin cl[c].flags /\ c \notin wk.dirty /\ c # running =>
        Len(cl[c].queue) = sent[c]

QueueOK == \A c \in Clients : QueueOf(c)

LEMMA QueueInit == ASSUME WatchAssumption, Init PROVE QueueOK
BY QueueTypes DEF WatchAssumption, Init, NotInMulti, QueueOK, QueueOf, InMulti

\* A client whose own record stays, and whose mark is not taken away.
LEMMA QueueStays ==
  ASSUME NEW c \in Clients, QueueOf(c), cl'[c] = cl[c], sent'[c] = sent[c],
         c \in wk.dirty => c \in wk'.dirty, running' = c <=> running = c
  PROVE  QueueOf(c)'
BY DEF QueueOf, InMulti

LEMMA QueueEmptied ==
  ASSUME NEW c \in Clients, cl'[c].queue = <<>>, sent'[c] = 0,
         "dirty_exec" \notin cl'[c].flags, running' # c
  PROVE  QueueOf(c)'
BY QueueTypes DEF QueueOf, InMulti

\* Commands never take a mark away.
LEMMA MarksStay ==
  ASSUME IndexInv, SetStep \/ GoneStep \/ BulkStep \/ IdleStep
  PROVE  wk.dirty \subseteq wk'.dirty
<1>1. CASE SetStep \/ GoneStep \/ BulkStep
  BY <1>1, WrittenTable DEF Marked
<1>2. CASE IdleStep
  BY <1>2 DEF IdleStep
<1> QED BY <1>1, <1>2

LEMMA QueueStep ==
  ASSUME WatchAssumption, IndexInv, QueueOK, [Next]_vars
  PROVE  QueueOK'
<1>0. /\ TypeOK /\ TableOK(wk) /\ DbOK /\ wk \in Tables
      /\ cl \in [Clients -> ClientRecords] /\ sent \in [Clients -> 0..MaxQueue]
      /\ NoClient \notin Clients
  BY DEF IndexInv, TypeOK, TableOK, ClientRecords, WatchAssumption
<1>1. CASE UNCHANGED vars
  BY <1>1, QueueStays DEF vars, QueueOK
<1>2. CASE Next
  <2> DEFINE Same == UNCHANGED <<cl, running, sent>>
  <2>1. ASSUME Same, wk.dirty \subseteq wk'.dirty PROVE QueueOK'
    BY <2>1, QueueStays DEF QueueOK
  <2>2. ASSUME NEW c \in Clients, LeaveStep(c),
               cl'[c].queue = <<>>, "dirty_exec" \notin cl'[c].flags, running' = NoClient
        PROVE  QueueOK'
    <3>1. wk'.dirty = wk.dirty \ {c}
      BY <1>0, <2>2, CleanTable DEF LeaveStep
    <3>2. sent'[c] = 0 /\ \A b \in Clients \ {c} : cl'[b] = cl[b] /\ sent'[b] = sent[b]
      BY <1>0, <2>2 DEF LeaveStep, Forget
    <3>3. \A b \in Clients \ {c} : running' = b <=> running = b
      BY <1>0, <2>2 DEF LeaveStep
    <3>4. QueueOf(c)'
      BY <1>0, <2>2, <3>2, QueueEmptied
    <3>5. ASSUME NEW b \in Clients \ {c} PROVE QueueOf(b)'
      BY <3>1, <3>2, <3>3, QueueStays DEF QueueOK
    <3> QED BY <3>4, <3>5 DEF QueueOK
  <2>3. ASSUME NEW c \in Clients, wk.dirty \subseteq wk'.dirty, running' = running, QueueOf(c)',
               \A b \in Clients \ {c} : cl'[b] = cl[b] /\ sent'[b] = sent[b]
        PROVE  QueueOK'
    <3>1. ASSUME NEW b \in Clients \ {c} PROVE QueueOf(b)'
      BY <2>3, QueueStays DEF QueueOK
    <3> QED BY <2>3, <3>1 DEF QueueOK
  <2>4. ASSUME NEW c \in Clients, Idle(c) PROVE running = NoClient /\ c # running
    BY <1>0, <2>4 DEF Idle
  <2>5. ASSUME NEW cmd \in Commands, Write(cmd) PROVE QueueOK'
    <3>1. Same /\ Quiet /\ Do(cmd)
      BY <2>5 DEF Write, Quiet
    <3> QED BY <1>0, <2>1, <3>1, DoKinds, MarksStay
  <2>6. ASSUME NEW p \in Places, Expire(p) PROVE QueueOK'
    <3>1. Same /\ Quiet /\ writes' = writes
      BY <2>6 DEF Expire, Quiet
    <3>2. GoneStep
      BY <1>0, <2>6, <3>1, ExpireTable DEF GoneStep
    <3> QED BY <2>1, <3>1, <3>2, MarksStay
  <2>7. ASSUME NEW d \in Dbs, flushdbCommand(d) PROVE QueueOK'
    <3>1. Same
      BY <2>7 DEF flushdbCommand
    <3> QED BY <1>0, <2>1, <2>7, <3>1, FlushKind, MarksStay
  <2>8. ASSUME dbSwapDatabases PROVE QueueOK'
    <3>1. Same
      BY <2>8 DEF dbSwapDatabases
    <3> QED BY <1>0, <2>1, <2>8, <3>1, SwapKind, MarksStay
  <2>9. ASSUME NEW c \in Clients, NEW p \in Places, watchCommand(c, p) PROVE QueueOK'
    <3>1. Same
      BY <2>9 DEF watchCommand
    <3>2. wk'.dirty = wk.dirty
      BY <1>0, <2>9, WatchTable
    <3> QED BY <2>1, <3>1, <3>2
  <2>10. ASSUME NEW c \in Clients, NEW cmd \in Commands, queueMultiCommand(c, cmd) PROVE QueueOK'
    <3>1. /\ Idle(c) /\ InMulti(c) /\ wk' = wk /\ running' = running
          /\ sent' = [sent EXCEPT ![c] = @ + 1]
          /\ cl' = IF c \in wk.dirty \/ "dirty_exec" \in cl[c].flags
                     THEN cl ELSE [cl EXCEPT ![c].queue = Append(@, cmd)]
      BY <2>10 DEF queueMultiCommand
    <3>2. /\ sent'[c] = sent[c] + 1
          /\ \A b \in Clients \ {c} : cl'[b] = cl[b] /\ sent'[b] = sent[b]
      BY <1>0, <3>1
    <3>3. /\ cl'[c].flags = cl[c].flags
          /\ c \notin wk.dirty /\ "dirty_exec" \notin cl[c].flags =>
                cl'[c].queue = Append(cl[c].queue, cmd)
      BY <1>0, <3>1 DEF ClientRecords
    <3>4. c # running
      BY <2>4, <3>1
    <3>5. cl[c].queue \in Seq(Commands)
      BY <1>0 DEF ClientRecords
    <3>6. InMulti(c)'
      BY <3>1, <3>3 DEF InMulti
    <3>7. ASSUME "dirty_exec" \notin cl'[c].flags, c \notin wk'.dirty
          PROVE  Len(cl'[c].queue) = sent'[c]
      <4>1. Len(cl[c].queue) = sent[c]
        BY <3>1, <3>3, <3>4, <3>7 DEF QueueOK, QueueOf
      <4>2. cl'[c].queue = Append(cl[c].queue, cmd)
        BY <3>1, <3>3, <3>7
      <4> QED BY <3>2, <3>5, <4>1, <4>2, QueueTypes
    <3>8. QueueOf(c)'
      BY <3>6, <3>7 DEF QueueOf
    <3> QED BY <2>3, <3>1, <3>2, <3>8
  <2>11. ASSUME NEW c \in Clients, unwatchCommand(c) PROVE QueueOK'
    <3>1. LeaveStep(c) /\ cl' = cl /\ Idle(c) /\ ~InMulti(c) /\ running' = running
      BY <2>11 DEF unwatchCommand, LeaveStep
    <3>2. cl[c].queue = <<>> /\ "dirty_exec" \notin cl[c].flags
      BY <3>1 DEF QueueOK, QueueOf
    <3> QED BY <2>2, <2>4, <3>1, <3>2
  <2>12. ASSUME NEW c \in Clients, multiCommand(c) PROVE QueueOK'
    <3>1. /\ Idle(c) /\ ~InMulti(c) /\ UNCHANGED <<wk, running, sent>>
          /\ cl' = [cl EXCEPT ![c].flags = @ \cup {"multi"}]
      BY <2>12 DEF multiCommand
    <3>2. /\ \A b \in Clients \ {c} : cl'[b] = cl[b] /\ sent'[b] = sent[b]
          /\ cl'[c].queue = cl[c].queue /\ cl'[c].flags = cl[c].flags \cup {"multi"}
      BY <1>0, <3>1 DEF ClientRecords
    <3>3. c # running
      BY <2>4, <3>1
    <3>4. cl'[c].queue = <<>> /\ sent'[c] = 0 /\ "dirty_exec" \notin cl'[c].flags
      BY <3>1, <3>2 DEF QueueOK, QueueOf
    <3>5. QueueOf(c)'
      BY <3>1, <3>3, <3>4, QueueEmptied
    <3> QED BY <2>3, <3>1, <3>2, <3>5
  <2>13. ASSUME NEW c \in Clients, rejectCommand(c) PROVE QueueOK'
    <3>1. /\ InMulti(c) /\ UNCHANGED <<wk, running>>
          /\ sent' = [sent EXCEPT ![c] = @ + 1]
          /\ cl' = [cl EXCEPT ![c].flags = @ \cup {"dirty_exec"}]
      BY <2>13 DEF rejectCommand
    <3>2. /\ \A b \in Clients \ {c} : cl'[b] = cl[b] /\ sent'[b] = sent[b]
          /\ cl'[c].flags = cl[c].flags \cup {"dirty_exec"}
      BY <1>0, <3>1 DEF ClientRecords
    <3>3. QueueOf(c)'
      BY <3>1, <3>2 DEF QueueOf, InMulti
    <3> QED BY <2>3, <3>1, <3>2, <3>3
  <2>14. ASSUME NEW c \in Clients, discardTransaction(c) PROVE QueueOK'
    <3>1. /\ Idle(c) /\ cl' = [cl EXCEPT ![c] = NotInMulti] /\ running' = running /\ wk' = Clean(wk, c)
          /\ Forget(c) /\ UNCHANGED <<db, now, writes>>
      BY <2>14 DEF discardTransaction
    <3>2. LeaveStep(c) /\ cl'[c] = NotInMulti
      BY <1>0, <3>1 DEF LeaveStep
    <3> QED BY <2>2, <2>4, <3>1, <3>2 DEF NotInMulti
  <2>15. ASSUME NEW c \in Clients, execAborts(c) PROVE QueueOK'
    <3>1. /\ Idle(c) /\ cl' = [cl EXCEPT ![c] = NotInMulti] /\ running' = running /\ wk' = Clean(wk, c)
          /\ Forget(c) /\ UNCHANGED <<db, now, writes>>
      BY <2>15 DEF execAborts
    <3>2. LeaveStep(c) /\ cl'[c] = NotInMulti
      BY <1>0, <3>1 DEF LeaveStep
    <3> QED BY <2>2, <2>4, <3>1, <3>2 DEF NotInMulti
  <2>16. ASSUME NEW c \in Clients, execStarts(c) PROVE QueueOK'
    <3>1. /\ InMulti(c) /\ running' = c /\ running = NoClient
          /\ wk' = unwatchAllKeys(wk, {c}) /\ UNCHANGED <<cl, sent>>
      BY <2>16 DEF execStarts, Idle
    <3>2. wk'.dirty = wk.dirty
      BY <1>0, <3>1, Unwatched
    <3>3. QueueOf(c)'
      BY <3>1 DEF QueueOf, InMulti
    <3>4. ASSUME NEW b \in Clients \ {c} PROVE QueueOf(b)'
      BY <1>0, <3>1, <3>2, QueueStays DEF QueueOK
    <3> QED BY <3>3, <3>4 DEF QueueOK
  <2>17. ASSUME NEW c \in Clients, execCommand(c) PROVE QueueOK'
    <3>1. /\ cl' = [cl EXCEPT ![c].queue = Tail(@)] /\ UNCHANGED <<running, now, snap, sent>>
          /\ cl[c].queue # <<>> /\ running = c
          /\ Do(Head(cl[c].queue)) \/ UNCHANGED <<db, wk, writes>>
      BY <2>17 DEF execCommand
    <3>2. Head(cl[c].queue) \in Commands
      BY <1>0, <3>1, QueueTypes DEF ClientRecords
    <3>3. Quiet
      BY <1>0, <3>1 DEF Quiet, ClientRecords
    <3>4. SetStep \/ GoneStep \/ IdleStep
      BY <1>0, <3>1, <3>2, <3>3, DoKinds DEF IdleStep
    <3>5. cl'[c].flags = cl[c].flags /\ \A b \in Clients \ {c} : cl'[b] = cl[b] /\ sent'[b] = sent[b]
      BY <1>0, <3>1 DEF ClientRecords
    <3>6. InMulti(c)'
      BY <3>1, <3>5 DEF QueueOK, QueueOf, InMulti
    <3>7. QueueOf(c)'
      BY <3>1, <3>6 DEF QueueOf
    <3> QED BY <2>3, <3>1, <3>4, <3>5, <3>7, MarksStay
  <2>18. ASSUME NEW c \in Clients, execEnds(c) PROVE QueueOK'
    <3>1. /\ running = c /\ cl' = [cl EXCEPT ![c] = NotInMulti] /\ running' = NoClient
          /\ wk' = Clean(wk, c) /\ Forget(c) /\ UNCHANGED <<db, now, writes>>
      BY <2>18 DEF execEnds
    <3>2. LeaveStep(c) /\ cl'[c] = NotInMulti
      BY <1>0, <3>1 DEF LeaveStep
    <3> QED BY <2>2, <3>1, <3>2 DEF NotInMulti
  <2>19. ASSUME NEW c \in Clients, freeClient(c) PROVE QueueOK'
    <3>1. /\ Idle(c) /\ cl' = [cl EXCEPT ![c] = [NotInMulti EXCEPT !.flags = {"closed"}]]
          /\ running' = running /\ wk' = Clean(wk, c)
          /\ Forget(c) /\ UNCHANGED <<db, now, writes>>
      BY <2>19 DEF freeClient
    <3>2. LeaveStep(c) /\ cl'[c].flags = {"closed"} /\ cl'[c].queue = <<>>
      BY <1>0, <3>1 DEF LeaveStep, NotInMulti
    <3> QED BY <2>2, <2>4, <3>1, <3>2
  <2>20. ASSUME Tick PROVE QueueOK'
    BY <2>1, <2>20 DEF Tick
  <2> QED BY <1>2, <2>5, <2>6, <2>7, <2>8, <2>9, <2>10, <2>11, <2>12, <2>13, <2>14, <2>15, <2>16,
          <2>17, <2>18, <2>19, <2>20 DEF Next, Step
<1> QED BY <1>1, <1>2

\* An EXEC that starts has queued every command the client sent: commands
\* dropped after a watched key changed, or refused (flagTransaction), never
\* leave half a transaction to run (queueMultiCommand, multi.c).
THEOREM NoHalfTransactions == ASSUME WatchAssumption PROVE Spec => [][AllOrNothing]_vars
<1>1. ASSUME IndexInv, QueueOK, Next PROVE AllOrNothing
  <2> SUFFICES ASSUME NEW c \in Clients, Starts(c) PROVE Len(cl[c].queue) = sent[c]
    BY DEF AllOrNothing
  <2>1. execStarts(c)
    BY <1>1, OnlyExecStarts
  <2>2. c \notin wk.dirty /\ "dirty_exec" \notin cl[c].flags /\ running = NoClient
    BY <2>1 DEF execStarts, Aborts, Idle
  <2>3. c # running
    BY <2>2 DEF WatchAssumption
  <2> QED BY <1>1, <2>2, <2>3 DEF QueueOK, QueueOf
<1> QED BY <1>1, IndexInit, IndexStep, QueueInit, QueueStep, PTL DEF Spec

=============================================================================
