------------------------ MODULE OrderRequestsProofs ------------------------
(***************************************************************************)
(* Proofs about the store and the requests on orders, for every number of  *)
(* seeded rows, any number of concurrent requests, any baskets and any     *)
(* bounds: first FoodStore by itself, then OrderRequests as its            *)
(* refinement, then what the requests remember against what the database   *)
(* holds (OrdersComeFromRequests, CreatedIsComplete,                       *)
(* CancelledStaysCancelled).                                               *)
(***************************************************************************)
EXTENDS OrderRequests, TLAPS

-----------------------------------------------------------------------------
(* The store.                                                              *)

\* Inserting at the next id keeps a table a table, one id larger.
LEMMA InsertTable ==
  ASSUME NEW t, NEW Row, NEW last \in Nat, NEW row \in Row, IsTable(t, Row, last)
  PROVE  IsTable(Insert(t, last + 1, row), Row, last + 1)
BY DEF IsTable, Insert

\* Deleting rows keeps a table a table.
LEMMA WithoutTable ==
  ASSUME NEW t, NEW Row, NEW last \in Nat, NEW ids, IsTable(t, Row, last)
  PROVE  IsTable(Without(t, ids), Row, last)
BY DEF IsTable, Without

\* The seeded menus are those of the seeded hotels, SeedMenus for each.
LEMMA SeedMenusOfHotels ==
  \A m \in 1..(SeedHotels * SeedMenus) : 1 + ((m - 1) \div SeedMenus) \in 1..SeedHotels
<1> SUFFICES ASSUME NEW m \in 1..(SeedHotels * SeedMenus)
             PROVE  1 + ((m - 1) \div SeedMenus) \in 1..SeedHotels
  OBVIOUS
<1> DEFINE q == (m - 1) \div SeedMenus
<1>1. SeedHotels \in Nat /\ SeedMenus \in Nat /\ m \in Nat /\ 1 <= m /\ m <= SeedHotels * SeedMenus
  BY SeedAssumption
<1>2. SeedMenus > 0
  BY <1>1
<1>3. q \in Int /\ SeedMenus * q <= m - 1 /\ q >= 0
  BY <1>1, <1>2
<1> HIDE DEF q
<1>4. SeedMenus * q < SeedHotels * SeedMenus
  BY <1>1, <1>3
<1>5. q < SeedHotels
  BY <1>1, <1>2, <1>3, <1>4
<1> QED
  BY <1>1, <1>3, <1>5 DEF q

LEMMA StoreTypeInit == StoreInit => StoreTypeOK
<1> SUFFICES ASSUME StoreInit PROVE StoreTypeOK
  OBVIOUS
<1> USE DEF StoreInit
<1>1. SeedHotels * SeedMenus \in Nat
  BY SeedAssumption
<1>2. IsTable(users, UserRow, seq.users)
  BY SeedAssumption DEF seed_users, IsTable, UserRow, Roles, SeedRole
<1>3. IsTable(hotels, HotelRow, seq.hotels)
  BY SeedAssumption DEF seed_hotels, IsTable, HotelRow
<1>4. IsTable(menus, MenuRow, seq.menus)
  BY <1>1, SeedMenusOfHotels DEF seed_menus, IsTable, MenuRow
<1> QED
  BY <1>1, <1>2, <1>3, <1>4, SeedAssumption DEF StoreTypeOK, IsTable, seed_orders

LEMMA StoreTypeStep == StoreTypeOK /\ [StoreNext]_storeVars => StoreTypeOK'
<1> SUFFICES ASSUME StoreTypeOK, [StoreNext]_storeVars PROVE StoreTypeOK'
  OBVIOUS
<1> USE DEF StoreTypeOK
<1>1. ASSUME NEW r \in Roles, UserCreate(r) PROVE StoreTypeOK'
  <2>1. [role |-> r] \in UserRow
    BY DEF UserRow
  <2>2. IsTable(users', UserRow, seq'.users)
    BY <1>1, <2>1, InsertTable DEF UserCreate, NextId
  <2> QED
    BY <1>1, <2>2 DEF UserCreate
<1>2. ASSUME NEW u \in 1..seq.users, NEW r \in Roles, UserUpdate(u, r) PROVE StoreTypeOK'
  <2>1. IsTable(users', UserRow, seq'.users)
    BY <1>2 DEF UserUpdate, IsTable, UserRow
  <2> QED
    BY <1>2, <2>1 DEF UserUpdate
<1>3. ASSUME NEW u \in 1..seq.users, NEW n \in Names, HotelCreate(u, n) PROVE StoreTypeOK'
  <2>1. [user_id |-> u, Hotel_name |-> n] \in HotelRow
    BY DEF HotelRow
  <2>2. IsTable(hotels', HotelRow, seq'.hotels)
    BY <1>3, <2>1, InsertTable DEF HotelCreate, NextId
  <2> QED
    BY <1>3, <2>2 DEF HotelCreate
<1>4. ASSUME NEW h \in 1..seq.hotels, NEW n \in Names, HotelUpdate(h, n) PROVE StoreTypeOK'
  <2>1. IsTable(hotels', HotelRow, seq'.hotels)
    BY <1>4 DEF HotelUpdate, IsTable, HotelRow
  <2> QED
    BY <1>4, <2>1 DEF HotelUpdate
<1>5. ASSUME NEW h \in 1..seq.hotels, NEW n \in Names, MenuCreate(h, n) PROVE StoreTypeOK'
  <2>1. [hotel_id |-> h, menu_name |-> n] \in MenuRow
    BY DEF MenuRow
  <2>2. IsTable(menus', MenuRow, seq'.menus)
    BY <1>5, <2>1, InsertTable DEF MenuCreate, NextId
  <2> QED
    BY <1>5, <2>2 DEF MenuCreate
<1>6. ASSUME NEW m \in 1..seq.menus, NEW n \in Names, MenuUpdate(m, n) PROVE StoreTypeOK'
  <2>1. IsTable(menus', MenuRow, seq'.menus)
    BY <1>6 DEF MenuUpdate, IsTable, MenuRow
  <2> QED
    BY <1>6, <2>1 DEF MenuUpdate
<1>7. ASSUME NEW u \in 1..seq.users, NEW h \in 1..seq.hotels, OrderCreate(u, h)
      PROVE StoreTypeOK'
  <2>1. [user_id |-> u, hotel_id |-> h] \in OrderRow
    BY DEF OrderRow
  <2>2. IsTable(orders', OrderRow, seq'.orders)
    BY <1>7, <2>1, InsertTable DEF OrderCreate, NextId
  <2> QED
    BY <1>7, <2>2 DEF OrderCreate
<1>8. ASSUME NEW o \in 1..seq.orders, NEW m \in 1..seq.menus, OrderItemCreate(o, m)
      PROVE StoreTypeOK'
  <2>1. [order_id |-> o, menu_id |-> m] \in ItemRow
    BY DEF ItemRow
  <2>2. IsTable(items', ItemRow, seq'.items)
    BY <1>8, <2>1, InsertTable DEF OrderItemCreate, NextId
  <2> QED
    BY <1>8, <2>2 DEF OrderItemCreate
<1>9. ASSUME NEW c, Destroy(c) PROVE StoreTypeOK'
  BY <1>9, WithoutTable DEF Destroy
<1>10. CASE UNCHANGED storeVars
  BY <1>10 DEF storeVars
<1> QED
  BY <1>1, <1>2, <1>3, <1>4, <1>5, <1>6, <1>7, <1>8, <1>9, <1>10
  DEF StoreNext, CatalogNext, OrdersNext, UserDestroy, HotelDestroy, MenuDestroy, OrderDestroy

\* The tables are well formed in every reachable state, for all constants.
THEOREM StoreTypeCorrect == StoreSpec => []StoreTypeOK
BY StoreTypeInit, StoreTypeStep, PTL DEF StoreSpec

-----------------------------------------------------------------------------
(* Referential integrity.  Next to the foreign keys, an order names a hotel *)
(* id that was handed out: the hotel may be gone, but no new hotel gets it. *)

OrdersNameIssuedHotels ==
  \A o \in DOMAIN orders : orders[o].hotel_id \in 1..seq.hotels

StoreInv == StoreTypeOK /\ ForeignKeys /\ OrdersNameIssuedHotels

\* The next id of a table names no row of it.
LEMMA NextIdIsFresh ==
  ASSUME StoreTypeOK
  PROVE  /\ NextId("users") \notin DOMAIN users
         /\ NextId("hotels") \notin DOMAIN hotels
         /\ NextId("menus") \notin DOMAIN menus
         /\ NextId("orders") \notin DOMAIN orders
         /\ NextId("items") \notin DOMAIN items
BY DEF StoreTypeOK, IsTable, NextId

\* Every dependent destroy reaches all the rows that point at what it
\* deletes, so the foreign keys let it commit, in every state.
LEMMA CascadesCommit ==
  /\ \A u : Commits(UserCascade(u))
  /\ \A h : Commits(HotelCascade(h))
  /\ \A m : Commits(MenuCascade(m))
  /\ \A o : Commits(OrderCascade(o))
<1>1. ASSUME NEW u PROVE Commits(UserCascade(u))
  BY DEF Commits, UserCascade, HotelsOf, OrdersOf, MenusOf, ItemsOfMenus, ItemsOfOrders
<1>2. ASSUME NEW h PROVE Commits(HotelCascade(h))
  BY DEF Commits, HotelCascade, MenusOf, ItemsOfMenus
<1>3. ASSUME NEW m PROVE Commits(MenuCascade(m))
  BY DEF Commits, MenuCascade, ItemsOfMenus
<1>4. ASSUME NEW o PROVE Commits(OrderCascade(o))
  BY DEF Commits, OrderCascade, ItemsOfOrders
<1> QED
  BY <1>1, <1>2, <1>3, <1>4

LEMMA StoreInvInit == StoreInit => StoreInv
<1> SUFFICES ASSUME StoreInit PROVE ForeignKeys /\ OrdersNameIssuedHotels
  BY StoreTypeInit DEF StoreInv
<1>1. DOMAIN orders = {} /\ DOMAIN items = {}
  BY DEF StoreInit, seed_orders
<1>2. DOMAIN users = 1..(2 + SeedClients) /\ 2 \in DOMAIN users
  BY SeedAssumption DEF StoreInit, seed_users
<1>3. DOMAIN hotels = 1..SeedHotels /\ \A h \in DOMAIN hotels : hotels[h].user_id = 2
  BY DEF StoreInit, seed_hotels
<1>4. \A m \in DOMAIN menus : m \in 1..(SeedHotels * SeedMenus) /\ menus[m].hotel_id = 1 + ((m - 1) \div SeedMenus)
  BY DEF StoreInit, seed_menus
<1>5. \A m \in 1..(SeedHotels * SeedMenus) : 1 + ((m - 1) \div SeedMenus) \in 1..SeedHotels
  BY SeedMenusOfHotels
<1> QED
  BY <1>1, <1>2, <1>3, <1>4, <1>5 DEF ForeignKeys, OrdersNameIssuedHotels

\* A deletion the foreign keys allow keeps them.
LEMMA DestroyKeepsInv ==
  ASSUME StoreInv, NEW c, Destroy(c)
  PROVE  ForeignKeys' /\ OrdersNameIssuedHotels'
<1>1. /\ DOMAIN users' = DOMAIN users \ c.users
      /\ DOMAIN hotels' = DOMAIN hotels \ c.hotels
      /\ DOMAIN menus' = DOMAIN menus \ c.menus
      /\ DOMAIN orders' = DOMAIN orders \ c.orders
      /\ DOMAIN items' = DOMAIN items \ c.items
  BY DEF Destroy, Without
<1>2. /\ \A h \in DOMAIN hotels' : hotels'[h] = hotels[h]
      /\ \A m \in DOMAIN menus' : menus'[m] = menus[m]
      /\ \A o \in DOMAIN orders' : orders'[o] = orders[o]
      /\ \A i \in DOMAIN items' : items'[i] = items[i]
  BY <1>1 DEF Destroy, Without
<1>3. Commits(c) /\ seq' = seq
  BY DEF Destroy
<1> QED
  BY <1>1, <1>2, <1>3 DEF StoreInv, ForeignKeys, OrdersNameIssuedHotels, Commits

LEMMA StoreInvStep == StoreInv /\ [StoreNext]_storeVars => StoreInv'
<1> SUFFICES ASSUME StoreInv, [StoreNext]_storeVars
             PROVE  ForeignKeys' /\ OrdersNameIssuedHotels'
  BY StoreTypeStep DEF StoreInv
<1>0. /\ seq.hotels \in Nat /\ seq.orders \in Nat
      /\ seq \in [{"users", "hotels", "menus", "orders", "items"} -> Nat]
  BY DEF StoreInv, StoreTypeOK
<1>1. ASSUME NEW r \in Roles, UserCreate(r) PROVE ForeignKeys' /\ OrdersNameIssuedHotels'
  <2>1. DOMAIN users \subseteq DOMAIN users'
    BY <1>1 DEF UserCreate, Insert
  <2>2. seq'.hotels = seq.hotels
    BY <1>0, <1>1 DEF UserCreate
  <2> QED
    BY <1>1, <2>1, <2>2 DEF UserCreate, StoreInv, ForeignKeys, OrdersNameIssuedHotels
<1>2. ASSUME NEW u \in 1..seq.users, NEW r \in Roles, UserUpdate(u, r)
      PROVE  ForeignKeys' /\ OrdersNameIssuedHotels'
  BY <1>2 DEF UserUpdate, StoreInv, StoreTypeOK, IsTable, ForeignKeys, OrdersNameIssuedHotels
<1>3. ASSUME NEW u \in 1..seq.users, NEW n \in Names, HotelCreate(u, n)
      PROVE  ForeignKeys' /\ OrdersNameIssuedHotels'
  <2> DEFINE id == NextId("hotels")
  <2>1. DOMAIN hotels' = DOMAIN hotels \cup {id} /\ id \notin DOMAIN hotels
    BY <1>3, NextIdIsFresh DEF StoreInv, HotelCreate, Insert
  <2>2. hotels'[id].user_id = u
    BY <1>3 DEF HotelCreate, Insert
  <2>3. \A i \in DOMAIN hotels : hotels'[i] = hotels[i]
    BY <1>3, <2>1 DEF HotelCreate, Insert
  <2>4. seq'.hotels \in Nat /\ seq'.hotels >= seq.hotels
    BY <1>0, <1>3 DEF HotelCreate
  <2> HIDE DEF id
  <2> QED
    BY <1>0, <1>3, <2>1, <2>2, <2>3, <2>4 DEF HotelCreate, StoreInv, ForeignKeys, OrdersNameIssuedHotels
<1>4. ASSUME NEW h \in 1..seq.hotels, NEW n \in Names, HotelUpdate(h, n)
      PROVE  ForeignKeys' /\ OrdersNameIssuedHotels'
  <2>1. /\ DOMAIN hotels' = DOMAIN hotels
        /\ \A k \in DOMAIN hotels : hotels'[k].user_id = hotels[k].user_id
    BY <1>4 DEF HotelUpdate, StoreInv, StoreTypeOK, IsTable, HotelRow
  <2> QED
    BY <1>4, <2>1 DEF HotelUpdate, StoreInv, ForeignKeys, OrdersNameIssuedHotels
<1>5. ASSUME NEW h \in 1..seq.hotels, NEW n \in Names, MenuCreate(h, n)
      PROVE  ForeignKeys' /\ OrdersNameIssuedHotels'
  <2> DEFINE id == NextId("menus")
  <2>1. DOMAIN menus' = DOMAIN menus \cup {id} /\ id \notin DOMAIN menus
    BY <1>5, NextIdIsFresh DEF StoreInv, MenuCreate, Insert
  <2>2. menus'[id].hotel_id = h
    BY <1>5 DEF MenuCreate, Insert
  <2>3. \A i \in DOMAIN menus : menus'[i] = menus[i]
    BY <1>5, <2>1 DEF MenuCreate, Insert
  <2>4. seq'.hotels \in Nat /\ seq'.hotels >= seq.hotels
    BY <1>0, <1>5 DEF MenuCreate
  <2> HIDE DEF id
  <2> QED
    BY <1>0, <1>5, <2>1, <2>2, <2>3, <2>4 DEF MenuCreate, StoreInv, ForeignKeys, OrdersNameIssuedHotels
<1>6. ASSUME NEW m \in 1..seq.menus, NEW n \in Names, MenuUpdate(m, n)
      PROVE  ForeignKeys' /\ OrdersNameIssuedHotels'
  <2>1. /\ DOMAIN menus' = DOMAIN menus
        /\ \A k \in DOMAIN menus : menus'[k].hotel_id = menus[k].hotel_id
    BY <1>6 DEF MenuUpdate, StoreInv, StoreTypeOK, IsTable, MenuRow
  <2> QED
    BY <1>6, <2>1 DEF MenuUpdate, StoreInv, ForeignKeys, OrdersNameIssuedHotels
<1>7. ASSUME NEW u \in 1..seq.users, NEW h \in 1..seq.hotels, OrderCreate(u, h)
      PROVE  ForeignKeys' /\ OrdersNameIssuedHotels'
  <2> DEFINE id == NextId("orders")
  <2>1. DOMAIN orders' = DOMAIN orders \cup {id} /\ id \notin DOMAIN orders
    BY <1>7, NextIdIsFresh DEF StoreInv, OrderCreate, Insert
  <2>2. orders'[id].user_id = u /\ orders'[id].hotel_id = h
    BY <1>7 DEF OrderCreate, Insert
  <2>3. \A i \in DOMAIN orders : orders'[i] = orders[i]
    BY <1>7, <2>1 DEF OrderCreate, Insert
  <2>4. seq'.hotels \in Nat /\ seq'.hotels >= seq.hotels
    BY <1>0, <1>7 DEF OrderCreate
  <2> HIDE DEF id
  <2> QED
    BY <1>0, <1>7, <2>1, <2>2, <2>3, <2>4 DEF OrderCreate, StoreInv, ForeignKeys, OrdersNameIssuedHotels
<1>8. ASSUME NEW o \in 1..seq.orders, NEW m \in 1..seq.menus, OrderItemCreate(o, m)
      PROVE  ForeignKeys' /\ OrdersNameIssuedHotels'
  <2> DEFINE id == NextId("items")
  <2>1. DOMAIN items' = DOMAIN items \cup {id} /\ id \notin DOMAIN items
    BY <1>8, NextIdIsFresh DEF StoreInv, OrderItemCreate, Insert
  <2>2. items'[id].order_id = o /\ items'[id].menu_id = m
    BY <1>8 DEF OrderItemCreate, Insert
  <2>3. \A i \in DOMAIN items : items'[i] = items[i]
    BY <1>8, <2>1 DEF OrderItemCreate, Insert
  <2>4. seq'.hotels \in Nat /\ seq'.hotels >= seq.hotels
    BY <1>0, <1>8 DEF OrderItemCreate
  <2> HIDE DEF id
  <2> QED
    BY <1>0, <1>8, <2>1, <2>2, <2>3, <2>4 DEF OrderItemCreate, StoreInv, ForeignKeys, OrdersNameIssuedHotels
<1>9. ASSUME NEW c, Destroy(c) PROVE ForeignKeys' /\ OrdersNameIssuedHotels'
  BY <1>9, DestroyKeepsInv
<1>10. CASE UNCHANGED storeVars
  BY <1>10 DEF storeVars, StoreInv, ForeignKeys, OrdersNameIssuedHotels
<1> QED
  BY <1>1, <1>2, <1>3, <1>4, <1>5, <1>6, <1>7, <1>8, <1>9, <1>10
  DEF StoreNext, CatalogNext, OrdersNext, UserDestroy, HotelDestroy, MenuDestroy, OrderDestroy

\* The inductive invariant holds in every reachable state.
THEOREM StoreInvariant == StoreSpec => []StoreInv
BY StoreInvInit, StoreInvStep, PTL DEF StoreSpec

\* The five foreign keys hold after any sequence of transactions.
THEOREM ReferentialIntegrity == StoreSpec => []ForeignKeys
<1>1. StoreInv => ForeignKeys
  BY DEF StoreInv
<1> QED
  BY <1>1, StoreInvariant, PTL

\* No destroy of an existing row is ever refused by a foreign key.
THEOREM DestroysNeverRefused == StoreSpec => []DestroyCommits
<1>1. DestroyCommits
  BY CascadesCommit DEF DestroyCommits
<1> QED
  BY <1>1, PTL

-----------------------------------------------------------------------------
(* What a transaction may never do.                                        *)

\* Only a destroy removes orders or items; creates and updates keep the
\* columns of the orders they find, and only HotelCreate adds a hotel.
LEMMA OnlyDestroysRemove ==
  ASSUME StoreInv, StoreNext
  PROVE  \/ /\ DOMAIN orders \subseteq DOMAIN orders'
            /\ DOMAIN items \subseteq DOMAIN items'
            /\ \A o \in DOMAIN orders : orders'[o] = orders[o]
            /\ DOMAIN hotels' \subseteq DOMAIN hotels \cup {NextId("hotels")}
         \/ \E u \in DOMAIN users : Destroy(UserCascade(u))
         \/ \E h \in DOMAIN hotels : Destroy(HotelCascade(h))
         \/ \E m \in DOMAIN menus : Destroy(MenuCascade(m))
         \/ \E o \in DOMAIN orders : Destroy(OrderCascade(o))
<1> DEFINE Keeps == /\ DOMAIN orders \subseteq DOMAIN orders'
                    /\ DOMAIN items \subseteq DOMAIN items'
                    /\ \A o \in DOMAIN orders : orders'[o] = orders[o]
                    /\ DOMAIN hotels' \subseteq DOMAIN hotels \cup {NextId("hotels")}
<1>1. ASSUME NEW r \in Roles, UserCreate(r) PROVE Keeps
  BY <1>1 DEF UserCreate
<1>2. ASSUME NEW u, NEW r \in Roles, UserUpdate(u, r) PROVE Keeps
  BY <1>2 DEF UserUpdate
<1>3. ASSUME NEW u, NEW n \in Names, HotelCreate(u, n) PROVE Keeps
  BY <1>3 DEF HotelCreate, Insert
<1>4. ASSUME NEW h, NEW n \in Names, HotelUpdate(h, n) PROVE Keeps
  BY <1>4 DEF HotelUpdate
<1>5. ASSUME NEW h, NEW n \in Names, MenuCreate(h, n) PROVE Keeps
  BY <1>5 DEF MenuCreate
<1>6. ASSUME NEW m, NEW n \in Names, MenuUpdate(m, n) PROVE Keeps
  BY <1>6 DEF MenuUpdate
<1>7. ASSUME NEW u, NEW h, OrderCreate(u, h) PROVE Keeps
  <2>1. NextId("orders") \notin DOMAIN orders
    BY NextIdIsFresh DEF StoreInv
  <2> QED
    BY <1>7, <2>1 DEF OrderCreate, Insert
<1>8. ASSUME NEW o, NEW m, OrderItemCreate(o, m) PROVE Keeps
  BY <1>8 DEF OrderItemCreate, Insert
<1> QED
  BY <1>1, <1>2, <1>3, <1>4, <1>5, <1>6, <1>7, <1>8
  DEF StoreNext, CatalogNext, OrdersNext, UserDestroy, HotelDestroy, MenuDestroy, OrderDestroy

\* The domains after a destroy.
LEMMA DestroyDomains ==
  ASSUME NEW c, Destroy(c)
  PROVE  /\ DOMAIN users' = DOMAIN users \ c.users
         /\ DOMAIN hotels' = DOMAIN hotels \ c.hotels
         /\ DOMAIN menus' = DOMAIN menus \ c.menus
         /\ DOMAIN orders' = DOMAIN orders \ c.orders
         /\ DOMAIN items' = DOMAIN items \ c.items
         /\ \A o \in DOMAIN orders' : orders'[o] = orders[o]
BY DEF Destroy, Without

\* An order leaves with its user or alone.
THEOREM OrdersOutlive == StoreSpec => OrdersOutliveTheCatalog
<1>1. ASSUME StoreInv, StoreNext, NEW o \in DOMAIN orders \ DOMAIN orders'
      PROVE  orders[o].user_id \notin DOMAIN users' \/ UNCHANGED <<users, hotels, menus>>
  <2>1. ASSUME NEW u \in DOMAIN users, Destroy(UserCascade(u))
        PROVE  orders[o].user_id \notin DOMAIN users'
    BY <1>1, <2>1 DEF Destroy, Without, UserCascade, OrdersOf
  <2>2. ASSUME NEW h \in DOMAIN hotels, Destroy(HotelCascade(h)) PROVE FALSE
    BY <1>1, <2>2 DEF Destroy, Without, HotelCascade
  <2>3. ASSUME NEW m \in DOMAIN menus, Destroy(MenuCascade(m)) PROVE FALSE
    BY <1>1, <2>3 DEF Destroy, Without, MenuCascade
  <2>4. ASSUME NEW k \in DOMAIN orders, Destroy(OrderCascade(k))
        PROVE  UNCHANGED <<users, hotels, menus>>
    BY <1>1, <2>4 DEF Destroy, Without, OrderCascade, StoreInv, StoreTypeOK, IsTable
  <2> QED
    BY <1>1, <2>1, <2>2, <2>3, <2>4, OnlyDestroysRemove
<1>2. StoreInv /\ [StoreNext]_storeVars =>
        [\A o \in DOMAIN orders \ DOMAIN orders' :
           \/ orders[o].user_id \notin DOMAIN users'
           \/ UNCHANGED <<users, hotels, menus>>]_storeVars
  BY <1>1
<1> QED
  BY <1>2, StoreInvariant, PTL DEF StoreSpec, OrdersOutliveTheCatalog

\* No order is thinned out except by the destruction of a menu.
THEOREM ItemsLeave == StoreSpec => ItemsLeaveWithAParent
<1>1. ASSUME StoreInv, StoreNext, NEW i \in DOMAIN items \ DOMAIN items'
      PROVE  items[i].order_id \notin DOMAIN orders' \/ items[i].menu_id \notin DOMAIN menus'
  <2>1. ASSUME NEW u \in DOMAIN users, Destroy(UserCascade(u))
        PROVE  items[i].order_id \notin DOMAIN orders' \/ items[i].menu_id \notin DOMAIN menus'
    BY <1>1, <2>1 DEF Destroy, Without, UserCascade, ItemsOfMenus, ItemsOfOrders
  <2>2. ASSUME NEW h \in DOMAIN hotels, Destroy(HotelCascade(h))
        PROVE  items[i].menu_id \notin DOMAIN menus'
    BY <1>1, <2>2 DEF Destroy, Without, HotelCascade, ItemsOfMenus
  <2>3. ASSUME NEW m \in DOMAIN menus, Destroy(MenuCascade(m))
        PROVE  items[i].menu_id \notin DOMAIN menus'
    BY <1>1, <2>3 DEF Destroy, Without, MenuCascade, ItemsOfMenus
  <2>4. ASSUME NEW k \in DOMAIN orders, Destroy(OrderCascade(k))
        PROVE  items[i].order_id \notin DOMAIN orders'
    BY <1>1, <2>4 DEF Destroy, Without, OrderCascade, ItemsOfOrders
  <2> QED
    BY <1>1, <2>1, <2>2, <2>3, <2>4, OnlyDestroysRemove
<1>2. StoreInv /\ [StoreNext]_storeVars =>
        [\A i \in DOMAIN items \ DOMAIN items' :
           \/ items[i].order_id \notin DOMAIN orders'
           \/ items[i].menu_id \notin DOMAIN menus']_storeVars
  BY <1>1
<1> QED
  BY <1>2, StoreInvariant, PTL DEF StoreSpec, ItemsLeaveWithAParent

\* The orders of a destroyed hotel never pass to another hotel.
THEOREM NoHandover == StoreSpec => NoOrderChangesHands
<1>1. ASSUME StoreInv, StoreNext, NEW o \in DOMAIN orders \cap DOMAIN orders',
             orders[o].hotel_id \notin DOMAIN hotels
      PROVE  orders'[o].hotel_id \notin DOMAIN hotels'
  <2>1. orders[o].hotel_id # NextId("hotels")
    BY <1>1 DEF StoreInv, StoreTypeOK, OrdersNameIssuedHotels, NextId
  <2>2. ASSUME NEW c, Destroy(c) PROVE orders'[o].hotel_id \notin DOMAIN hotels'
    BY <1>1, <2>2, DestroyDomains
  <2> QED
    BY <1>1, <2>1, <2>2, OnlyDestroysRemove
<1>2. StoreInv /\ [StoreNext]_storeVars =>
        [\A o \in DOMAIN orders \cap DOMAIN orders' :
           orders[o].hotel_id \notin DOMAIN hotels
             => orders'[o].hotel_id \notin DOMAIN hotels']_storeVars
  BY <1>1
<1> QED
  BY <1>2, StoreInvariant, PTL DEF StoreSpec, NoOrderChangesHands

-----------------------------------------------------------------------------
(* Requests.                                                               *)

\* Every step of a request or of the catalogue is a transaction of the store
\* or leaves the store alone.
LEMMA StepRefines ==
  ASSUME StoreTypeOK, [Next]_vars
  PROVE  [StoreNext]_storeVars
<1>0. /\ DOMAIN users \subseteq 1..seq.users
      /\ DOMAIN hotels \subseteq 1..seq.hotels
      /\ DOMAIN menus \subseteq 1..seq.menus
      /\ DOMAIN orders \subseteq 1..seq.orders
  BY DEF StoreTypeOK, IsTable
<1>1. ASSUME NEW u, NEW h, OrderCreate(u, h) PROVE StoreNext
  BY <1>0, <1>1 DEF OrderCreate, StoreNext, OrdersNext
<1>2. ASSUME NEW o, NEW m, OrderItemCreate(o, m) PROVE StoreNext
  BY <1>0, <1>2 DEF OrderItemCreate, StoreNext, OrdersNext
<1>3. ASSUME NEW o, OrderDestroy(o) PROVE StoreNext
  BY <1>0, <1>3 DEF OrderDestroy, StoreNext, OrdersNext
<1>4. CASE CatalogNext
  BY <1>4 DEF StoreNext
<1>5. ASSUME NEW r \in Places, PostOrder(r) \/ PlaceStep(r) \/ PlaceFails(r)
      PROVE  StoreNext \/ UNCHANGED storeVars
  BY <1>1, <1>2, <1>5
  DEF PostOrder, PlaceStep, PlaceFails, SetHotel, Authorize, SaveOrder, CreateItem, LoadItems, FindMenu
<1>6. ASSUME NEW r \in Cancels, DeleteOrder(r) \/ CancelStep(r) \/ CancelFails(r)
      PROVE  StoreNext \/ UNCHANGED storeVars
  BY <1>3, <1>6
  DEF DeleteOrder, CancelStep, CancelFails, SetOrder, SetUser, CancelAuthorize, CheckOwner, DestroyOrder
<1>7. CASE UNCHANGED vars
  BY <1>7 DEF vars, storeVars
<1> QED
  BY <1>4, <1>5, <1>6, <1>7 DEF Next

LEMMA StoreInvOfSpec == Spec => []StoreInv
<1>1. Init => StoreInv
  BY StoreInvInit DEF Init
<1>2. StoreInv /\ [Next]_vars => StoreInv'
  BY StepRefines, StoreInvStep DEF StoreInv
<1> QED
  BY <1>1, <1>2, PTL DEF Spec

\* The requests implement the store: its theorems hold of them.
THEOREM RequestsImplementStore == Spec => StoreSpec
<1>1. Init => StoreInit
  BY DEF Init
<1>2. StoreInv /\ [Next]_vars => [StoreNext]_storeVars
  BY StepRefines DEF StoreInv
<1> QED
  BY <1>1, <1>2, StoreInvOfSpec, PTL DEF Spec, StoreSpec

-----------------------------------------------------------------------------
(* Types, and the control state of a request.                              *)

\* What a request has done before it saves, and when it has created all items.
Control ==
  \A r \in Places :
    /\ place[r].pc \in {"new", "set_hotel", "authorize", "save"} =>
         place[r].order = 0 /\ place[r].made = << >>
    /\ place[r].pc \in {"load", "find"} \/ place[r].answer = "created" =>
         Len(place[r].made) = Len(place[r].basket)
    /\ place[r].answer # "none" => place[r].pc = "done"

ControlInv == TypeOK /\ Control

LEMMA ControlInit == Init => ControlInv
<1> SUFFICES ASSUME Init PROVE ControlInv
  OBVIOUS
<1>1. StoreTypeOK
  BY StoreTypeInit DEF Init
<1>2. place \in [Places -> PlaceState]
  BY DEF Init, PlaceState, Answers
<1>3. cancel \in [Cancels -> CancelState]
  BY DEF Init, CancelState, Answers
<1>4. \A r \in Places : /\ place[r].pc = "new" /\ place[r].order = 0
                        /\ place[r].made = << >> /\ place[r].answer = "none"
  BY DEF Init
<1> QED
  BY <1>1, <1>2, <1>3, <1>4 DEF ControlInv, TypeOK, Control

\* The conditions TypeOK and Control put on one request.
RequestOK(q) ==
  /\ q \in PlaceState
  /\ q.pc \in {"save", "items"} => Len(q.made) < Len(q.basket)
  /\ q.pc \in {"items", "load", "find"} => q.order # 0
  /\ q.pc \in {"new", "set_hotel", "authorize", "save"} => q.order = 0 /\ q.made = << >>
  /\ q.pc \in {"load", "find"} \/ q.answer = "created" => Len(q.made) = Len(q.basket)
  /\ q.answer # "none" => q.pc = "done"

\* A step of request r changes only r; what it makes of r decides.
LEMMA OneRequestChanges ==
  ASSUME ControlInv, StoreTypeOK', cancel' = cancel,
         NEW r \in Places, NEW q, RequestOK(q), place' = [place EXCEPT ![r] = q]
  PROVE  ControlInv'
<1>1. \A s \in Places : RequestOK(place[s])
  BY DEF ControlInv, TypeOK, Control, RequestOK
<1>2. \A s \in Places : RequestOK(place'[s])
  BY <1>1 DEF ControlInv, TypeOK
<1>3. place' \in [Places -> PlaceState]
  BY <1>2 DEF ControlInv, TypeOK, RequestOK
<1> QED
  BY <1>2, <1>3 DEF ControlInv, TypeOK, Control, RequestOK

\* The answer of a request that is at work.
LEMMA AnswerOK ==
  ASSUME ControlInv, StoreTypeOK', cancel' = cancel, NEW r \in Places,
         NEW status \in Answers, Answer(r, status),
         status = "created" => Len(place[r].made) = Len(place[r].basket)
  PROVE  ControlInv'
<1> DEFINE q == [place[r] EXCEPT !.pc = "done", !.answer = status]
<1>1. place[r] \in PlaceState
  BY DEF ControlInv, TypeOK
<1>2. RequestOK(q)
  BY <1>1 DEF RequestOK, PlaceState
<1>3. place' = [place EXCEPT ![r] = q]
  BY DEF Answer
<1> QED
  BY <1>2, <1>3, OneRequestChanges

LEMMA ControlStep == ControlInv /\ [Next]_vars => ControlInv'
<1> SUFFICES ASSUME ControlInv, [Next]_vars PROVE ControlInv'
  OBVIOUS
<1>0. /\ StoreTypeOK' /\ StoreTypeOK
      /\ seq \in [{"users", "hotels", "menus", "orders", "items"} -> Nat]
      /\ cancel \in [Cancels -> CancelState]
  BY StepRefines, StoreTypeStep DEF ControlInv, TypeOK, StoreTypeOK
<1>a. \A r \in Places : /\ place[r] \in PlaceState /\ RequestOK(place[r])
                        /\ place[r].basket \in Seq(Nat) /\ place[r].made \in Seq(Nat)
  <2>1. \A r \in Places : RequestOK(place[r])
    BY DEF ControlInv, TypeOK, Control, RequestOK
  <2>2. << >> \in Seq(Nat)
    OBVIOUS
  <2>3. \A q \in PlaceState : q.basket \in Seq(Nat) /\ q.made \in Seq(Nat)
    BY <2>2, RequestAssumption DEF PlaceState
  <2> QED
    BY <2>1, <2>3 DEF RequestOK
<1>1. ASSUME NEW r \in Places, PostOrder(r) PROVE ControlInv'
  <2>1. PICK u \in 1..seq.users, h \in 1..seq.hotels, b \in Baskets, v \in {"valid", "invalid", "missing"} :
          place' = [place EXCEPT ![r] =
                      [@ EXCEPT !.pc = "set_hotel", !.user = u, !.hotel = h,
                                !.basket = b, !.params = v]]
    BY <1>1 DEF PostOrder
  <2> DEFINE q == [place[r] EXCEPT !.pc = "set_hotel", !.user = u, !.hotel = h,
                                   !.basket = b, !.params = v]
  <2>a. u \in Nat /\ h \in Nat
    BY <1>0
  <2>b. b \in Baskets \cup {<< >>}
    OBVIOUS
  <2>2. q \in PlaceState
    <3> HIDE <1>0, <2>1
    <3> QED
      BY <1>a, <2>a, <2>b, ZenonT(30) DEF PlaceState
  <2>c. /\ q.pc = "set_hotel" /\ q.order = place[r].order /\ q.made = place[r].made
        /\ q.answer = place[r].answer
    BY <1>a DEF PlaceState
  <2>3. RequestOK(q)
    <3> HIDE DEF q
    <3> QED
      BY <1>1, <1>a, <2>2, <2>c DEF PostOrder, RequestOK
  <2>4. place' = [place EXCEPT ![r] = q] /\ cancel' = cancel
    BY <1>1, <2>1 DEF PostOrder
  <2> QED
    BY <1>0, <2>3, <2>4, OneRequestChanges
<1>2. ASSUME NEW r \in Places, SetHotel(r) PROVE ControlInv'
  <2>1. CASE Goto(r, "authorize")
    <3> DEFINE q == [place[r] EXCEPT !.pc = "authorize"]
    <3>1. RequestOK(q) /\ place' = [place EXCEPT ![r] = q] /\ cancel' = cancel
      BY <1>2, <1>a, <2>1, SMTT(30) DEF SetHotel, Goto, RequestOK, PlaceState
    <3> QED
      BY <1>0, <3>1, OneRequestChanges
  <2>2. CASE Answer(r, "unauthorized") \/ Answer(r, "not_found")
    BY <1>0, <1>2, <2>2, AnswerOK DEF SetHotel, Answers
  <2> QED
    BY <1>2, <2>1, <2>2 DEF SetHotel
<1>3. ASSUME NEW r \in Places, Authorize(r) PROVE ControlInv'
  <2>1. CASE place[r].basket # << >> /\ Goto(r, "save")
    <3> DEFINE q == [place[r] EXCEPT !.pc = "save"]
    <3>1. Len(place[r].made) = 0 /\ Len(place[r].basket) > 0 /\ place[r].order = 0
      BY <1>3, <1>a, <2>1 DEF Authorize, RequestOK
    <3>2. RequestOK(q) /\ place' = [place EXCEPT ![r] = q] /\ cancel' = cancel
      BY <1>3, <1>a, <2>1, <3>1 DEF Authorize, Goto, RequestOK, PlaceState
    <3> QED
      BY <1>0, <3>2, OneRequestChanges
  <2>2. CASE Answer(r, "denied") \/ Answer(r, "bad_request")
    BY <1>0, <1>3, <2>2, AnswerOK DEF Authorize, Answers
  <2> QED
    BY <1>3, <2>1, <2>2 DEF Authorize
<1>4. ASSUME NEW r \in Places, SaveOrder(r) PROVE ControlInv'
  <2>1. CASE place' = [place EXCEPT ![r].pc = "items", ![r].order = NextId("orders")]
    <3> DEFINE q == [place[r] EXCEPT !.pc = "items", !.order = NextId("orders")]
    <3>1. NextId("orders") \in Nat /\ NextId("orders") # 0
      BY <1>0 DEF NextId
    <3>2. RequestOK(q) /\ place' = [place EXCEPT ![r] = q] /\ cancel' = cancel
      BY <1>4, <1>a, <2>1, <3>1, ZenonT(30) DEF SaveOrder, RequestOK, PlaceState
    <3> QED
      BY <1>0, <3>2, OneRequestChanges
  <2>2. CASE Answer(r, "unprocessable") \/ Answer(r, "error")
    BY <1>0, <1>4, <2>2, AnswerOK DEF SaveOrder, Answers
  <2> QED
    BY <1>4, <2>1, <2>2 DEF SaveOrder
<1>5. ASSUME NEW r \in Places, CreateItem(r) PROVE ControlInv'
  <2> DEFINE n == Len(place[r].made)
             label == IF n + 1 = Len(place[r].basket) THEN "load" ELSE "items"
             q == [place[r] EXCEPT !.made = Append(@, NextId("items")), !.pc = label]
  <2>1. CASE place' = [place EXCEPT ![r].made = Append(@, NextId("items")), ![r].pc = label]
    <3>1. /\ Append(place[r].made, NextId("items")) \in Seq(Nat)
          /\ Len(Append(place[r].made, NextId("items"))) = n + 1
      BY <1>0, <1>a DEF NextId
    <3>2. n + 1 <= Len(place[r].basket) /\ place[r].pc = "items" /\ place[r].answer = "none"
          /\ place[r].order # 0
      BY <1>5, <1>a DEF CreateItem, RequestOK
    <3>3. q \in PlaceState
      BY <1>a, <3>1, ZenonT(30) DEF PlaceState
    <3>a. /\ q.pc = label /\ Len(q.made) = n + 1 /\ q.basket = place[r].basket
          /\ q.order = place[r].order /\ q.answer = place[r].answer
      BY <1>a, <3>1 DEF PlaceState
    <3>b. RequestOK(q)
      <4> HIDE DEF q
      <4> QED
        BY <1>a, <3>2, <3>3, <3>a DEF RequestOK
    <3>4. place' = [place EXCEPT ![r] = q] /\ cancel' = cancel
      BY <1>5, <2>1 DEF CreateItem
    <3> QED
      BY <1>0, <3>4, <3>b, OneRequestChanges
  <2>2. CASE Answer(r, "unprocessable") \/ Answer(r, "error")
    BY <1>0, <1>5, <2>2, AnswerOK DEF CreateItem, Answers
  <2> QED
    BY <1>5, <2>1, <2>2 DEF CreateItem
<1>6. ASSUME NEW r \in Places, LoadItems(r) PROVE ControlInv'
  <2> DEFINE left == {<<i, items[i].menu_id>> : i \in ItemsOfOrders({place[r].order})}
             q == [place[r] EXCEPT !.pc = "find", !.left = left]
  <2>1. left \in SUBSET (Nat \X Nat)
    BY <1>0 DEF StoreTypeOK, IsTable, ItemRow, ItemsOfOrders
  <2>2. RequestOK(q) /\ place' = [place EXCEPT ![r] = q] /\ cancel' = cancel
    BY <1>6, <1>a, <2>1, ZenonT(30) DEF LoadItems, RequestOK, PlaceState
  <2> QED
    BY <1>0, <2>2, OneRequestChanges
<1>7. ASSUME NEW r \in Places, FindMenu(r) PROVE ControlInv'
  <2>1. ASSUME NEW p \in place[r].left, place' = [place EXCEPT ![r].left = @ \ {p}]
        PROVE  ControlInv'
    <3> DEFINE q == [place[r] EXCEPT !.left = @ \ {p}]
    <3>1. RequestOK(q) /\ place' = [place EXCEPT ![r] = q] /\ cancel' = cancel
      BY <1>7, <1>a, <2>1, ZenonT(30) DEF FindMenu, RequestOK, PlaceState
    <3> QED
      BY <1>0, <3>1, OneRequestChanges
  <2>2. Len(place[r].made) = Len(place[r].basket)
    BY <1>7, <1>a DEF FindMenu, RequestOK
  <2>3. CASE Answer(r, "created") \/ Answer(r, "not_found")
    BY <1>0, <1>7, <2>2, <2>3, AnswerOK DEF FindMenu, Answers
  <2> QED
    BY <1>7, <2>1, <2>3 DEF FindMenu
<1>8. ASSUME NEW r \in Places, PlaceFails(r) PROVE ControlInv'
  BY <1>0, <1>8, AnswerOK DEF PlaceFails, Answers
<1>9. ASSUME place' = place, cancel' \in [Cancels -> CancelState] PROVE ControlInv'
  BY <1>0, <1>9 DEF ControlInv, TypeOK, Control
<1>10. ASSUME NEW r \in Cancels, DeleteOrder(r) \/ CancelStep(r) \/ CancelFails(r) PROVE ControlInv'
  <2>1. CASE DeleteOrder(r)
    <3>1. PICK u \in 1..seq.users, v \in 1..seq.users, o \in 1..seq.orders :
            cancel' = [cancel EXCEPT ![r] =
                         [@ EXCEPT !.pc = "set_order", !.user = u, !.as = v, !.order = o]]
      BY <2>1 DEF DeleteOrder
    <3>2. u \in Nat /\ v \in Nat /\ o \in Nat
      BY <1>0
    <3>a. [cancel[r] EXCEPT !.pc = "set_order", !.user = u, !.as = v, !.order = o] \in CancelState
      BY <1>0, <3>2 DEF CancelState
    <3>3. cancel' \in [Cancels -> CancelState]
      BY <1>0, <3>1, <3>a
    <3> QED
      BY <1>9, <2>1, <3>3 DEF DeleteOrder
  <2>2. CASE SetOrder(r)
    <3>1. cancel[r].order \in DOMAIN orders => orders[cancel[r].order].user_id \in Nat
      BY <1>0 DEF StoreTypeOK, IsTable, OrderRow
    <3> QED
      BY <1>0, <1>9, <2>2, <3>1 DEF SetOrder, CancelAnswer, CancelState, Answers
  <2>3. CASE SetUser(r) \/ CancelAuthorize(r) \/ CheckOwner(r) \/ DestroyOrder(r) \/ CancelFails(r)
    BY <1>0, <1>9, <2>3
    DEF SetUser, CancelAuthorize, CheckOwner, DestroyOrder, CancelFails,
        CancelGoto, CancelAnswer, CancelState, Answers
  <2> QED
    BY <1>10, <2>1, <2>2, <2>3 DEF CancelStep
<1>11. CASE CatalogNext /\ UNCHANGED <<place, cancel>>
  BY <1>0, <1>9, <1>11
<1>12. CASE UNCHANGED vars
  BY <1>0, <1>9, <1>12 DEF vars
<1> QED
  BY <1>1, <1>2, <1>3, <1>4, <1>5, <1>6, <1>7, <1>8, <1>10, <1>11, <1>12 DEF Next, PlaceStep

\* Requests and tables are well formed, and every step of a request finds
\* what it relies on, in every reachable state.
THEOREM RequestTypeCorrect == Spec => []TypeOK
<1>1. ControlInv => TypeOK
  BY DEF ControlInv
<1> QED
  BY <1>1, ControlInit, ControlStep, PTL DEF Spec

-----------------------------------------------------------------------------
(* What the requests remember.                                             *)

\* The ids a request remembers were handed out, and no item twice.
Remembered ==
  \A r \in Places :
    /\ place[r].order \in 0..seq.orders
    /\ \A k \in 1..Len(place[r].made) :
         /\ place[r].order # 0
         /\ place[r].made[k] \in 1..seq.items
         /\ place[r].basket[k] \in 1..seq.menus
    /\ \A k, l \in 1..Len(place[r].made) : place[r].made[k] = place[r].made[l] => k = l

\* An item a request created is there while its order and its menu are.
Kept ==
  \A r \in Places : \A k \in 1..Len(place[r].made) :
    place[r].order \in DOMAIN orders /\ place[r].basket[k] \in DOMAIN menus =>
      /\ place[r].made[k] \in DOMAIN items
      /\ items[place[r].made[k]] = [order_id |-> place[r].order, menu_id |-> place[r].basket[k]]

Ledger == Remembered /\ Kept /\ OrdersComeFromRequests

LedgerInv == StoreInv /\ ControlInv /\ Ledger

-----------------------------------------------------------------------------
(* Steps that add neither an order nor an item.                            *)

\* Orders and items only disappear, an item only with its order or its menu,
\* and no menu comes back.
Shrinks ==
  /\ seq'.orders = seq.orders /\ seq'.items = seq.items
  /\ seq'.menus \in Nat /\ seq.menus <= seq'.menus
  /\ DOMAIN orders' \subseteq DOMAIN orders
  /\ \A o \in DOMAIN orders' : orders'[o] = orders[o]
  /\ DOMAIN items' \subseteq DOMAIN items
  /\ \A i \in DOMAIN items' : items'[i] = items[i]
  /\ \A m \in DOMAIN menus' : m \in 1..seq.menus => m \in DOMAIN menus
  /\ \A i \in DOMAIN items : i \notin DOMAIN items' =>
       items[i].order_id \notin DOMAIN orders' \/ items[i].menu_id \notin DOMAIN menus'

LEMMA DestroyShrinks ==
  ASSUME StoreTypeOK, NEW c, Destroy(c),
         \A i \in c.items : items[i].order_id \in c.orders \/ items[i].menu_id \in c.menus
  PROVE  Shrinks
BY DEF Destroy, Without, Shrinks, StoreTypeOK

LEMMA CatalogShrinks ==
  ASSUME StoreTypeOK,
         CatalogNext \/ (\E o \in DOMAIN orders : OrderDestroy(o)) \/ UNCHANGED storeVars
  PROVE  Shrinks
<1>0. seq \in [{"users", "hotels", "menus", "orders", "items"} -> Nat]
  BY DEF StoreTypeOK
<1>1. ASSUME NEW r \in Roles, UserCreate(r) PROVE Shrinks
  BY <1>0, <1>1 DEF UserCreate, Shrinks
<1>2. ASSUME NEW u, NEW r, UserUpdate(u, r) PROVE Shrinks
  BY <1>0, <1>2 DEF UserUpdate, Shrinks
<1>3. ASSUME NEW u, NEW n, HotelCreate(u, n) PROVE Shrinks
  BY <1>0, <1>3 DEF HotelCreate, Shrinks
<1>4. ASSUME NEW u, UserDestroy(u) PROVE Shrinks
  BY <1>4, DestroyShrinks DEF UserDestroy, UserCascade, ItemsOfMenus, ItemsOfOrders
<1>5. ASSUME NEW h, NEW n, HotelUpdate(h, n) PROVE Shrinks
  BY <1>0, <1>5 DEF HotelUpdate, Shrinks
<1>6. ASSUME NEW h, NEW n, MenuCreate(h, n) PROVE Shrinks
  <2>1. DOMAIN menus' = DOMAIN menus \cup {seq.menus + 1}
    BY <1>6 DEF MenuCreate, Insert, NextId
  <2> QED
    BY <1>0, <1>6, <2>1 DEF MenuCreate, Shrinks
<1>7. ASSUME NEW h, HotelDestroy(h) PROVE Shrinks
  BY <1>7, DestroyShrinks DEF HotelDestroy, HotelCascade, ItemsOfMenus
<1>8. ASSUME NEW m, NEW n, MenuUpdate(m, n) PROVE Shrinks
  BY <1>0, <1>8 DEF MenuUpdate, Shrinks
<1>9. ASSUME NEW m, MenuDestroy(m) PROVE Shrinks
  BY <1>9, DestroyShrinks DEF MenuDestroy, MenuCascade, ItemsOfMenus
<1>10. ASSUME NEW o, OrderDestroy(o) PROVE Shrinks
  BY <1>10, DestroyShrinks DEF OrderDestroy, OrderCascade, ItemsOfOrders
<1>11. CASE UNCHANGED storeVars
  BY <1>0, <1>11 DEF storeVars, Shrinks
<1> QED
  BY <1>1, <1>2, <1>3, <1>4, <1>5, <1>6, <1>7, <1>8, <1>9, <1>10, <1>11 DEF CatalogNext

\* The requests remember what they did before.
SameMemory ==
  \A r \in Places :
    /\ place'[r].order = place[r].order /\ place'[r].made = place[r].made
    /\ place[r].order # 0 => /\ place'[r].user = place[r].user
                             /\ place'[r].hotel = place[r].hotel
                             /\ place'[r].basket = place[r].basket

LEMMA LedgerShrinks ==
  ASSUME LedgerInv, Shrinks, SameMemory
  PROVE  Ledger'
<1>0. /\ seq \in [{"users", "hotels", "menus", "orders", "items"} -> Nat]
      /\ DOMAIN orders \subseteq 1..seq.orders
  BY DEF LedgerInv, StoreInv, StoreTypeOK, IsTable
<1>a. \A r \in Places : \A k \in 1..Len(place[r].made) :
        place'[r].basket = place[r].basket
  BY DEF LedgerInv, Ledger, Remembered, SameMemory
<1>1. Remembered'
  <2>1. ASSUME NEW r \in Places
        PROVE  /\ place'[r].order \in 0..seq'.orders
               /\ \A k, l \in 1..Len(place'[r].made) : place'[r].made[k] = place'[r].made[l] => k = l
    BY DEF LedgerInv, Ledger, Remembered, Shrinks, SameMemory
  <2>2. ASSUME NEW r \in Places, NEW k \in 1..Len(place'[r].made)
        PROVE  /\ place'[r].order # 0
               /\ place'[r].made[k] \in 1..seq'.items
               /\ place'[r].basket[k] \in 1..seq'.menus
    <3>1. /\ place[r].order # 0
          /\ place[r].made[k] \in 1..seq.items
          /\ place[r].basket[k] \in 1..seq.menus
      BY DEF LedgerInv, Ledger, Remembered, SameMemory
    <3>2. /\ place'[r].order = place[r].order /\ place'[r].made = place[r].made
          /\ place'[r].basket = place[r].basket
      BY <3>1 DEF SameMemory
    <3>3. seq'.items = seq.items /\ seq'.menus \in Nat /\ seq.menus <= seq'.menus /\ seq.menus \in Nat
      BY <1>0 DEF Shrinks
    <3>4. place[r].basket[k] \in 1..seq'.menus
      BY <3>1, <3>3
    <3> QED
      BY <3>1, <3>2, <3>3, <3>4
  <2> QED
    BY <2>1, <2>2 DEF Remembered
<1>2. Kept'
  <2> SUFFICES ASSUME NEW r \in Places, NEW k \in 1..Len(place[r].made),
                      place[r].order \in DOMAIN orders', place[r].basket[k] \in DOMAIN menus'
               PROVE  /\ place[r].made[k] \in DOMAIN items'
                      /\ items'[place[r].made[k]] = [order_id |-> place[r].order, menu_id |-> place[r].basket[k]]
    BY <1>a DEF Kept, SameMemory
  <2>1. place[r].order \in DOMAIN orders /\ place[r].basket[k] \in DOMAIN menus
    BY DEF LedgerInv, Ledger, Remembered, Shrinks
  <2> QED
    BY <2>1 DEF LedgerInv, Ledger, Kept, Shrinks
<1>3. OrdersComeFromRequests'
  <2>1. \A o \in DOMAIN orders : o # 0
    BY <1>0
  <2>2. ASSUME NEW o \in DOMAIN orders' PROVE \E r \in Places :
          place'[r].order = o /\ orders'[o] = [user_id |-> place'[r].user, hotel_id |-> place'[r].hotel]
    <3>1. PICK r \in Places : /\ place[r].order = o
                              /\ orders[o] = [user_id |-> place[r].user, hotel_id |-> place[r].hotel]
      BY DEF LedgerInv, Ledger, OrdersComeFromRequests, Shrinks
    <3> QED
      BY <2>1, <3>1 DEF Shrinks, SameMemory
  <2>3. ASSUME NEW i \in DOMAIN items' PROVE \E r \in Places : \E k \in 1..Len(place'[r].made) :
          /\ place'[r].made[k] = i
          /\ items'[i] = [order_id |-> place'[r].order, menu_id |-> place'[r].basket[k]]
    <3>1. PICK r \in Places : \E k \in 1..Len(place[r].made) :
            /\ place[r].made[k] = i
            /\ items[i] = [order_id |-> place[r].order, menu_id |-> place[r].basket[k]]
      BY DEF LedgerInv, Ledger, OrdersComeFromRequests, Shrinks
    <3>2. PICK k \in 1..Len(place[r].made) :
            /\ place[r].made[k] = i
            /\ items[i] = [order_id |-> place[r].order, menu_id |-> place[r].basket[k]]
      BY <3>1
    <3>3. place'[r].basket = place[r].basket /\ items'[i] = items[i]
      BY <1>a DEF Shrinks
    <3> QED
      BY <3>2, <3>3 DEF SameMemory
  <2>4. \A r, s \in Places : place'[r].order = place'[s].order /\ place'[r].order # 0 => r = s
    BY DEF LedgerInv, Ledger, OrdersComeFromRequests, SameMemory
  <2> QED
    BY <2>2, <2>3, <2>4 DEF OrdersComeFromRequests
<1> QED
  BY <1>1, <1>2, <1>3 DEF Ledger

-----------------------------------------------------------------------------
(* The two steps that add a row.                                           *)

\* order.save: the new order is one that no request remembers.
LEMMA LedgerSave ==
  ASSUME LedgerInv, NEW r \in Places, place[r].pc = "save",
         OrderCreate(place[r].user, place[r].hotel),
         place' = [place EXCEPT ![r].pc = "items", ![r].order = NextId("orders")]
  PROVE  Ledger'
<1> DEFINE o == seq.orders + 1
<1>0. /\ seq \in [{"users", "hotels", "menus", "orders", "items"} -> Nat]
      /\ DOMAIN orders \subseteq 1..seq.orders
      /\ place \in [Places -> PlaceState]
  BY DEF LedgerInv, StoreInv, StoreTypeOK, IsTable, ControlInv, TypeOK
<1>1. /\ DOMAIN orders' = DOMAIN orders \cup {o}
      /\ orders'[o] = [user_id |-> place[r].user, hotel_id |-> place[r].hotel]
      /\ \A p \in DOMAIN orders : orders'[p] = orders[p]
      /\ seq'.orders = o /\ seq'.items = seq.items /\ seq'.menus = seq.menus
      /\ menus' = menus /\ items' = items
  BY <1>0 DEF OrderCreate, Insert, NextId
<1>2. place[r].order = 0 /\ Len(place[r].made) = 0
  BY DEF LedgerInv, ControlInv, Control
<1>3. /\ place'[r].order = o /\ place'[r].made = place[r].made
      /\ place'[r].user = place[r].user /\ place'[r].hotel = place[r].hotel
  BY <1>0 DEF NextId, PlaceState
<1>4. \A s \in Places : s # r => place'[s] = place[s]
  BY <1>0
<1>5. \A s \in Places : place[s].order \in 0..seq.orders
  BY DEF LedgerInv, Ledger, Remembered
<1>6. Remembered'
  <2>1. ASSUME NEW s \in Places, s # r
        PROVE  /\ place[s].order \in 0..o
               /\ \A k \in 1..Len(place[s].made) :
                    /\ place[s].order # 0
                    /\ place[s].made[k] \in 1..seq.items
                    /\ place[s].basket[k] \in 1..seq.menus
               /\ \A k, l \in 1..Len(place[s].made) : place[s].made[k] = place[s].made[l] => k = l
    BY <1>0, <1>5, <2>1 DEF LedgerInv, Ledger, Remembered
  <2> QED
    BY <1>0, <1>1, <1>2, <1>3, <1>4, <2>1, SMTT(30) DEF Remembered
<1>7. Kept'
  <2>1. \A s \in Places : s # r => place[s].order # o
    BY <1>0, <1>5
  <2>2. ASSUME NEW s \in Places, NEW k \in 1..Len(place'[s].made),
               place'[s].order \in DOMAIN orders', place'[s].basket[k] \in DOMAIN menus'
        PROVE  /\ place'[s].made[k] \in DOMAIN items'
               /\ items'[place'[s].made[k]]
                    = [order_id |-> place'[s].order, menu_id |-> place'[s].basket[k]]
    <3>1. s # r
      <4>1. Len(place'[r].made) = 0
        BY <1>2, <1>3
      <4>2. 1..0 = {}
        OBVIOUS
      <4> QED
        BY <2>2, <4>1, <4>2
    <3>2. place'[s] = place[s]
      BY <1>4, <3>1
    <3>3. place[s].order \in DOMAIN orders /\ place[s].basket[k] \in DOMAIN menus
      BY <1>1, <2>1, <2>2, <3>1, <3>2
    <3>4. k \in 1..Len(place[s].made)
      BY <2>2, <3>2
    <3>5. /\ place[s].made[k] \in DOMAIN items
          /\ items[place[s].made[k]] = [order_id |-> place[s].order, menu_id |-> place[s].basket[k]]
      BY <3>3, <3>4 DEF LedgerInv, Ledger, Kept
    <3> QED
      BY <1>1, <3>2, <3>5
  <2> QED
    BY <2>2 DEF Kept
<1>8. OrdersComeFromRequests'
  <2>1. \A s, t \in Places : place'[s].order = place'[t].order /\ place'[s].order # 0 => s = t
    BY <1>0, <1>3, <1>4, <1>5 DEF LedgerInv, Ledger, OrdersComeFromRequests
  <2>2. ASSUME NEW p \in DOMAIN orders' PROVE \E s \in Places :
          place'[s].order = p /\ orders'[p] = [user_id |-> place'[s].user, hotel_id |-> place'[s].hotel]
    <3>1. CASE p = o
      BY <1>1, <1>3, <3>1
    <3>2. CASE p \in DOMAIN orders
      <4>1. PICK s \in Places : /\ place[s].order = p
                                /\ orders[p] = [user_id |-> place[s].user, hotel_id |-> place[s].hotel]
        BY <3>2 DEF LedgerInv, Ledger, OrdersComeFromRequests
      <4>2. s # r
        BY <1>0, <1>2, <3>2, <4>1
      <4> QED
        BY <1>1, <1>4, <3>2, <4>1, <4>2
    <3> QED
      BY <1>1, <3>1, <3>2
  <2>3. ASSUME NEW i \in DOMAIN items' PROVE \E s \in Places : \E k \in 1..Len(place'[s].made) :
          /\ place'[s].made[k] = i
          /\ items'[i] = [order_id |-> place'[s].order, menu_id |-> place'[s].basket[k]]
    <3>1. PICK s \in Places : \E k \in 1..Len(place[s].made) :
            /\ place[s].made[k] = i
            /\ items[i] = [order_id |-> place[s].order, menu_id |-> place[s].basket[k]]
      BY <1>1 DEF LedgerInv, Ledger, OrdersComeFromRequests
    <3>2. s # r
      BY <1>2, <3>1
    <3>3. place'[s] = place[s] /\ items' = items
      BY <1>1, <1>4, <3>2
    <3> QED
      BY <3>1, <3>3
  <2> QED
    BY <2>1, <2>2, <2>3 DEF OrdersComeFromRequests
<1> QED
  BY <1>6, <1>7, <1>8 DEF Ledger

LEMMA AppendFacts ==
  ASSUME NEW t \in Seq(Nat), NEW x \in Nat
  PROVE  /\ Len(Append(t, x)) = Len(t) + 1
         /\ Append(t, x)[Len(t) + 1] = x
         /\ \A k \in 1..Len(t) : Append(t, x)[k] = t[k]
OBVIOUS

\* order_items.create!: the new item is one that no request remembers.
LEMMA LedgerItem ==
  ASSUME LedgerInv, NEW r \in Places, place[r].pc = "items", NEW label,
         OrderItemCreate(place[r].order, place[r].basket[Len(place[r].made) + 1]),
         place' = [place EXCEPT ![r].made = Append(@, NextId("items")), ![r].pc = label]
  PROVE  Ledger'
<1> DEFINE j == seq.items + 1
           n == Len(place[r].made)
           m == place[r].basket[n + 1]
           row == [order_id |-> place[r].order, menu_id |-> m]
<1>0. /\ seq \in [{"users", "hotels", "menus", "orders", "items"} -> Nat]
      /\ DOMAIN items \subseteq 1..seq.items
      /\ DOMAIN menus \subseteq 1..seq.menus
      /\ place \in [Places -> PlaceState]
  BY DEF LedgerInv, StoreInv, StoreTypeOK, IsTable, ControlInv, TypeOK
<1>1. /\ DOMAIN items' = DOMAIN items \cup {j}
      /\ items'[j] = row
      /\ \A i \in DOMAIN items : items'[i] = items[i]
      /\ seq'.orders = seq.orders /\ seq'.items = j /\ seq'.menus = seq.menus
      /\ menus' = menus /\ orders' = orders
      /\ m \in DOMAIN menus
  BY <1>0 DEF OrderItemCreate, Insert, NextId
<1>a. place[r].made \in Seq(Nat) /\ n \in Nat /\ j \in Nat /\ place[r].order # 0
  BY <1>0 DEF PlaceState, LedgerInv, ControlInv, TypeOK
<1>2. /\ place'[r].made = Append(place[r].made, j)
      /\ place'[r].order = place[r].order /\ place'[r].basket = place[r].basket
      /\ place'[r].user = place[r].user /\ place'[r].hotel = place[r].hotel
  BY <1>0 DEF NextId, PlaceState
<1>3. /\ Len(place'[r].made) = n + 1
      /\ place'[r].made[n + 1] = j
      /\ \A k \in 1..n : place'[r].made[k] = place[r].made[k]
  <2>1. /\ Len(Append(place[r].made, j)) = n + 1
        /\ Append(place[r].made, j)[n + 1] = j
        /\ \A k \in 1..n : Append(place[r].made, j)[k] = place[r].made[k]
    BY <1>a, AppendFacts
  <2>2. place'[r].made = Append(place[r].made, j)
    BY <1>2
  <2> QED
    BY <2>1, <2>2, Zenon
<1>4. \A s \in Places : s # r => place'[s] = place[s]
  BY <1>0
<1>5. ASSUME NEW s \in Places
      PROVE  /\ place[s].order \in 0..seq.orders
             /\ \A k \in 1..Len(place[s].made) :
                  /\ place[s].order # 0
                  /\ place[s].made[k] \in 1..seq.items
                  /\ place[s].made[k] \in 1..j
                  /\ place[s].basket[k] \in 1..seq.menus
             /\ \A k, l \in 1..Len(place[s].made) : place[s].made[k] = place[s].made[l] => k = l
  BY <1>0 DEF LedgerInv, Ledger, Remembered
<1>6. Remembered'
  <2>1. ASSUME NEW s \in Places, s # r
        PROVE  /\ place'[s].order \in 0..seq'.orders
               /\ \A k \in 1..Len(place'[s].made) :
                    /\ place'[s].order # 0
                    /\ place'[s].made[k] \in 1..seq'.items
                    /\ place'[s].basket[k] \in 1..seq'.menus
               /\ \A k, l \in 1..Len(place'[s].made) : place'[s].made[k] = place'[s].made[l] => k = l
    <3>1. place'[s] = place[s]
      BY <1>4, <2>1
    <3>2. seq'.orders = seq.orders /\ seq'.items = j /\ seq'.menus = seq.menus
      BY <1>1
    <3>3. place[s].order \in 0..seq'.orders
      BY <1>5, <3>2
    <3>4. \A k \in 1..Len(place[s].made) : /\ place[s].order # 0
                                           /\ place[s].made[k] \in 1..seq'.items
                                           /\ place[s].basket[k] \in 1..seq'.menus
      BY <1>5, <3>2
    <3>5. \A k, l \in 1..Len(place[s].made) : place[s].made[k] = place[s].made[l] => k = l
      BY <1>5
    <3> QED
      BY <3>1, <3>3, <3>4, <3>5
  <2>2. ASSUME NEW k \in 1..(n + 1)
        PROVE  /\ place'[r].order # 0
               /\ place'[r].made[k] \in 1..seq'.items
               /\ place'[r].basket[k] \in 1..seq'.menus
    <3>1. CASE k = n + 1
      BY <1>0, <1>1, <1>2, <1>3, <1>a, <3>1
    <3>2. CASE k \in 1..n
      BY <1>1, <1>2, <1>3, <1>5, <1>a, <3>2
    <3> QED
      BY <1>a, <3>1, <3>2
  <2>3. ASSUME NEW k \in 1..(n + 1), NEW l \in 1..(n + 1), place'[r].made[k] = place'[r].made[l]
        PROVE  k = l
    <3>1. \A i \in 1..n : place[r].made[i] # j
      BY <1>0, <1>5
    <3>2. \A i \in 1..(n + 1) : i = n + 1 \/ i \in 1..n
      BY <1>a
    <3> HIDE DEF j, n
    <3> QED
      BY <1>3, <1>5, <2>3, <3>1, <3>2, ZenonT(30) DEF n
  <2>4. place'[r].order \in 0..seq'.orders
    BY <1>1, <1>2, <1>5
  <2>5. /\ \A k \in 1..Len(place'[r].made) :
             /\ place'[r].order # 0
             /\ place'[r].made[k] \in 1..seq'.items
             /\ place'[r].basket[k] \in 1..seq'.menus
        /\ \A k, l \in 1..Len(place'[r].made) : place'[r].made[k] = place'[r].made[l] => k = l
    <3>1. Len(place'[r].made) = n + 1
      BY <1>3
    <3> HIDE DEF j, n
    <3> QED
      BY <2>2, <2>3, <3>1, Zenon
  <2> DEFINE Remembers(s) ==
        /\ place'[s].order \in 0..seq'.orders
        /\ \A k \in 1..Len(place'[s].made) :
             /\ place'[s].order # 0
             /\ place'[s].made[k] \in 1..seq'.items
             /\ place'[s].basket[k] \in 1..seq'.menus
        /\ \A k, l \in 1..Len(place'[s].made) : place'[s].made[k] = place'[s].made[l] => k = l
  <2>6. Remembers(r)
    BY <2>4, <2>5
  <2>7. \A s \in Places : s # r => Remembers(s)
    BY <2>1
  <2>8. \A s \in Places : Remembers(s)
    <3> HIDE DEF Remembers
    <3> QED
      BY <2>6, <2>7
  <2> QED
    BY <2>8 DEF Remembered
<1>7. Kept'
  <2>1. ASSUME NEW s \in Places, NEW k \in 1..Len(place'[s].made),
               place'[s].order \in DOMAIN orders', place'[s].basket[k] \in DOMAIN menus'
        PROVE  /\ place'[s].made[k] \in DOMAIN items'
               /\ items'[place'[s].made[k]]
                    = [order_id |-> place'[s].order, menu_id |-> place'[s].basket[k]]
    <3>1. CASE s = r /\ k = n + 1
      BY <1>1, <1>2, <1>3, <3>1
    <3>2. CASE k \in 1..Len(place[s].made) /\ (s = r => k # n + 1)
      <4>1. /\ place'[s].order = place[s].order /\ place'[s].basket = place[s].basket
            /\ place'[s].made[k] = place[s].made[k]
        BY <1>2, <1>3, <1>4, <3>2
      <4>2. /\ place[s].made[k] \in DOMAIN items
            /\ items[place[s].made[k]] = [order_id |-> place[s].order, menu_id |-> place[s].basket[k]]
        BY <1>1, <2>1, <3>2, <4>1 DEF LedgerInv, Ledger, Kept
      <4> QED
        BY <1>1, <4>1, <4>2
    <3>3. s = r => k \in 1..n \/ k = n + 1
      BY <1>3, <1>a, <2>1
    <3>4. s # r => k \in 1..Len(place[s].made)
      BY <1>4, <2>1
    <3> QED
      BY <3>1, <3>2, <3>3, <3>4
  <2> QED
    BY <2>1 DEF Kept
<1>8. OrdersComeFromRequests'
  <2>a. \A s \in Places : /\ place'[s].order = place[s].order
                          /\ place'[s].user = place[s].user /\ place'[s].hotel = place[s].hotel
    BY <1>2, <1>4
  <2>1. \A s, t \in Places : place'[s].order = place'[t].order /\ place'[s].order # 0 => s = t
    BY <2>a DEF LedgerInv, Ledger, OrdersComeFromRequests
  <2>2. \A p \in DOMAIN orders' : \E s \in Places :
          place'[s].order = p /\ orders'[p] = [user_id |-> place'[s].user, hotel_id |-> place'[s].hotel]
    <3>1. \A p \in DOMAIN orders : \E s \in Places :
            place[s].order = p /\ orders[p] = [user_id |-> place[s].user, hotel_id |-> place[s].hotel]
      BY DEF LedgerInv, Ledger, OrdersComeFromRequests
    <3>2. orders' = orders
      BY <1>1
    <3>3. ASSUME NEW p \in DOMAIN orders
          PROVE  \E s \in Places : /\ place'[s].order = p
                                   /\ orders[p] = [user_id |-> place'[s].user, hotel_id |-> place'[s].hotel]
      <4>1. PICK s \in Places : /\ place[s].order = p
                                /\ orders[p] = [user_id |-> place[s].user, hotel_id |-> place[s].hotel]
        BY <3>1
      <4> QED
        BY <2>a, <4>1
    <3> QED
      BY <3>2, <3>3
  <2>3. ASSUME NEW i \in DOMAIN items' PROVE \E s \in Places : \E k \in 1..Len(place'[s].made) :
          /\ place'[s].made[k] = i
          /\ items'[i] = [order_id |-> place'[s].order, menu_id |-> place'[s].basket[k]]
    <3>1. CASE i = j
      <4>1. n + 1 \in 1..Len(place'[r].made)
        BY <1>3, <1>a
      <4>2. /\ place'[r].made[n + 1] = i
            /\ items'[i] = [order_id |-> place'[r].order, menu_id |-> place'[r].basket[n + 1]]
        BY <1>1, <1>2, <1>3, <3>1
      <4> QED
        BY <4>1, <4>2
    <3>2. CASE i \in DOMAIN items
      <4>1. PICK s \in Places : \E k \in 1..Len(place[s].made) :
              /\ place[s].made[k] = i
              /\ items[i] = [order_id |-> place[s].order, menu_id |-> place[s].basket[k]]
        BY <3>2 DEF LedgerInv, Ledger, OrdersComeFromRequests
      <4>2. PICK k \in 1..Len(place[s].made) :
              /\ place[s].made[k] = i
              /\ items[i] = [order_id |-> place[s].order, menu_id |-> place[s].basket[k]]
        BY <4>1
      <4>3. /\ place'[s].order = place[s].order /\ place'[s].basket = place[s].basket
            /\ place'[s].made[k] = place[s].made[k] /\ k \in 1..Len(place'[s].made)
        <5>1. CASE s = r
          <6>1. k \in 1..n /\ k \in 1..(n + 1)
            BY <1>a, <5>1
          <6> QED
            BY <1>2, <1>3, <5>1, <6>1
        <5>2. CASE s # r
          BY <1>4, <5>2
        <5> QED
          BY <5>1, <5>2
      <4>4. /\ place'[s].made[k] = i
            /\ items'[i] = [order_id |-> place'[s].order, menu_id |-> place'[s].basket[k]]
        BY <1>1, <3>2, <4>2, <4>3
      <4> QED
        BY <4>3, <4>4
    <3> QED
      BY <1>1, <3>1, <3>2
  <2> QED
    BY <2>1, <2>2, <2>3 DEF OrdersComeFromRequests
<1> QED
  BY <1>6, <1>7, <1>8 DEF Ledger

-----------------------------------------------------------------------------
(* The ledger is inductive.                                                *)

LEMMA LedgerInit == Init => LedgerInv
<1> SUFFICES ASSUME Init PROVE LedgerInv
  OBVIOUS
<1>1. StoreInv /\ ControlInv
  BY StoreInvInit, ControlInit DEF Init
<1>2. \A r \in Places : place[r].order = 0 /\ Len(place[r].made) = 0
  BY DEF Init
<1>3. DOMAIN orders = {} /\ DOMAIN items = {} /\ seq.orders = 0
  BY DEF Init, StoreInit, seed_orders
<1> QED
  BY <1>1, <1>2, <1>3 DEF LedgerInv, Ledger, Remembered, Kept, OrdersComeFromRequests

LEMMA LedgerStep == LedgerInv /\ [Next]_vars => LedgerInv'
<1> SUFFICES ASSUME LedgerInv, [Next]_vars PROVE Ledger'
  BY StepRefines, StoreInvStep, ControlStep DEF LedgerInv, StoreInv
<1>0. StoreTypeOK /\ place \in [Places -> PlaceState]
  BY DEF LedgerInv, StoreInv, ControlInv, TypeOK
<1>1. ASSUME NEW r \in Places, NEW status, Answer(r, status) PROVE SameMemory
  BY <1>0, <1>1 DEF Answer, SameMemory, PlaceState
<1>2. ASSUME NEW r \in Places, NEW label, Goto(r, label) PROVE SameMemory
  BY <1>0, <1>2 DEF Goto, SameMemory, PlaceState
<1>3. ASSUME SameMemory, UNCHANGED storeVars PROVE Ledger'
  BY <1>0, <1>3, CatalogShrinks, LedgerShrinks
<1>4. ASSUME place' = place PROVE SameMemory
  BY <1>4 DEF SameMemory
<1>5. ASSUME NEW r \in Places, PostOrder(r) PROVE Ledger'
  <2>1. PICK u \in 1..seq.users, h \in 1..seq.hotels, b \in Baskets, v \in {"valid", "invalid", "missing"} :
          place' = [place EXCEPT ![r] =
                      [@ EXCEPT !.pc = "set_hotel", !.user = u, !.hotel = h,
                                !.basket = b, !.params = v]]
    BY <1>5 DEF PostOrder
  <2>2. place[r].order = 0
    BY <1>5 DEF PostOrder, LedgerInv, ControlInv, Control
  <2>3. SameMemory
    BY <1>0, <2>1, <2>2 DEF SameMemory, PlaceState
  <2> QED
    BY <1>3, <1>5, <2>3 DEF PostOrder
<1>6. ASSUME NEW r \in Places, SetHotel(r) \/ Authorize(r) \/ PlaceFails(r) PROVE Ledger'
  BY <1>1, <1>2, <1>3, <1>6 DEF SetHotel, Authorize, PlaceFails
<1>7. ASSUME NEW r \in Places, SaveOrder(r) PROVE Ledger'
  BY <1>1, <1>3, <1>7, LedgerSave DEF SaveOrder
<1>8. ASSUME NEW r \in Places, CreateItem(r) PROVE Ledger'
  BY <1>1, <1>3, <1>8, LedgerItem DEF CreateItem
<1>9. ASSUME NEW r \in Places, LoadItems(r) \/ FindMenu(r) PROVE Ledger'
  <2>1. SameMemory
    <3>1. CASE LoadItems(r)
      BY <1>0, <3>1 DEF LoadItems, SameMemory, PlaceState
    <3>2. ASSUME NEW p, place' = [place EXCEPT ![r].left = @ \ {p}] PROVE SameMemory
      BY <1>0, <3>2 DEF SameMemory, PlaceState
    <3>3. CASE FindMenu(r)
      BY <1>1, <3>2, <3>3 DEF FindMenu
    <3> QED
      BY <1>9, <3>1, <3>3
  <2> QED
    BY <1>3, <1>9, <2>1 DEF LoadItems, FindMenu
<1>10. ASSUME NEW r \in Cancels, DeleteOrder(r) \/ CancelStep(r) \/ CancelFails(r) PROVE Ledger'
  <2>1. place' = place /\ ((\E o \in DOMAIN orders : OrderDestroy(o)) \/ UNCHANGED storeVars)
    BY <1>10
    DEF DeleteOrder, CancelStep, CancelFails, SetOrder, SetUser, CancelAuthorize, CheckOwner,
        DestroyOrder, OrderDestroy
  <2> QED
    BY <1>0, <1>4, <2>1, CatalogShrinks, LedgerShrinks
<1>11. CASE CatalogNext /\ UNCHANGED <<place, cancel>>
  BY <1>0, <1>4, <1>11, CatalogShrinks, LedgerShrinks
<1>12. CASE UNCHANGED vars
  BY <1>3, <1>4, <1>12 DEF vars, storeVars
<1> QED
  BY <1>5, <1>6, <1>7, <1>8, <1>9, <1>10, <1>11, <1>12 DEF Next, PlaceStep

\* The orders and items of concurrent requests never mix.
THEOREM OrdersStayApart == Spec => []OrdersComeFromRequests
<1>1. LedgerInv => OrdersComeFromRequests
  BY DEF LedgerInv, Ledger
<1> QED
  BY <1>1, LedgerInit, LedgerStep, PTL DEF Spec

\* 201 Created tells the truth about the items of the order.
THEOREM CreatedTellsTheTruth == Spec => []CreatedIsComplete
<1>1. LedgerInv => CreatedIsComplete
  <2> SUFFICES ASSUME LedgerInv, NEW r \in Places, place[r].answer = "created",
                      place[r].order \in DOMAIN orders
               PROVE  /\ Len(place[r].made) = Len(place[r].basket)
                      /\ \A k, l \in 1..Len(place[r].made) : place[r].made[k] = place[r].made[l] => k = l
                      /\ \A k \in 1..Len(place[r].basket) : place[r].basket[k] \in DOMAIN menus =>
                           /\ place[r].made[k] \in DOMAIN items
                           /\ items[place[r].made[k]]
                                = [order_id |-> place[r].order, menu_id |-> place[r].basket[k]]
    BY DEF CreatedIsComplete
  <2>1. Len(place[r].made) = Len(place[r].basket)
    BY DEF LedgerInv, ControlInv, Control
  <2> QED
    BY <2>1 DEF LedgerInv, Ledger, Remembered, Kept
<1> QED
  BY <1>1, LedgerInit, LedgerStep, PTL DEF Spec

-----------------------------------------------------------------------------
(* Cancelled orders.                                                       *)

\* A DELETE request names an order that was there at some time, and when it
\* is answered with 200 the order is not there.
CancelInv ==
  \A r \in Cancels :
    /\ cancel[r].pc # "new" => cancel[r].order \in 1..seq.orders
    /\ cancel[r].answer # "none" => cancel[r].pc = "done"
    /\ cancel[r].answer = "ok" => cancel[r].order \notin DOMAIN orders

\* No order comes back.
LEMMA NoOrderReturns ==
  ASSUME StoreInv, [StoreNext]_storeVars
  PROVE  /\ seq'.orders \in Nat /\ seq.orders \in Nat /\ seq.orders <= seq'.orders
         /\ \A o \in 1..seq.orders : o \in DOMAIN orders' => o \in DOMAIN orders
<1>0. StoreTypeOK /\ seq \in [{"users", "hotels", "menus", "orders", "items"} -> Nat]
  BY DEF StoreInv, StoreTypeOK
<1>1. CASE Shrinks
  BY <1>0, <1>1 DEF Shrinks
<1>2. ASSUME NEW u, NEW h, OrderCreate(u, h)
      PROVE  /\ seq'.orders = seq.orders + 1
             /\ DOMAIN orders' = DOMAIN orders \cup {seq.orders + 1}
  BY <1>0, <1>2 DEF OrderCreate, Insert, NextId
<1>3. ASSUME NEW o, NEW m, OrderItemCreate(o, m)
      PROVE  seq'.orders = seq.orders /\ orders' = orders
  BY <1>0, <1>3 DEF OrderItemCreate
<1>4. ASSUME NEW o, OrderDestroy(o) PROVE Shrinks
  BY <1>0, <1>4, CatalogShrinks DEF OrderDestroy
<1>5. CASE CatalogNext \/ UNCHANGED storeVars
  BY <1>0, <1>1, <1>5, CatalogShrinks
<1>6. CASE OrdersNext
  <2>1. CASE \E u \in 1..seq.users, h \in 1..seq.hotels : OrderCreate(u, h)
    BY <1>0, <1>2, <2>1
  <2>2. CASE \E o \in 1..seq.orders, m \in 1..seq.menus : OrderItemCreate(o, m)
    BY <1>0, <1>3, <2>2
  <2>3. CASE \E o \in 1..seq.orders : OrderDestroy(o)
    BY <1>1, <1>4, <2>3
  <2> QED
    BY <1>6, <2>1, <2>2, <2>3 DEF OrdersNext
<1> QED
  BY <1>5, <1>6 DEF StoreNext

LEMMA CancelInit == Init => CancelInv
BY DEF Init, CancelInv

LEMMA CancelInvStep == LedgerInv /\ CancelInv /\ [Next]_vars => CancelInv'
<1> SUFFICES ASSUME LedgerInv, CancelInv, [Next]_vars PROVE CancelInv'
  OBVIOUS
<1>0. cancel \in [Cancels -> CancelState]
  BY DEF LedgerInv, ControlInv, TypeOK
<1>1. /\ seq'.orders \in Nat /\ seq.orders \in Nat /\ seq.orders <= seq'.orders
      /\ \A o \in 1..seq.orders : o \in DOMAIN orders' => o \in DOMAIN orders
  BY StepRefines, NoOrderReturns DEF LedgerInv, StoreInv
<1> DEFINE OK(q) == /\ q.pc # "new" => q.order \in 1..seq'.orders
                    /\ q.answer # "none" => q.pc = "done"
                    /\ q.answer = "ok" => q.order \notin DOMAIN orders'
<1>2. \A s \in Cancels : OK(cancel[s])
  BY <1>1 DEF CancelInv
<1>3. CASE cancel' = cancel
  BY <1>2, <1>3 DEF CancelInv
<1>4. ASSUME NEW r \in Cancels, NEW q, OK(q), cancel' = [cancel EXCEPT ![r] = q] PROVE CancelInv'
  <2>1. \A s \in Cancels : cancel'[s] = q \/ cancel'[s] = cancel[s]
    BY <1>0, <1>4
  <2>2. \A s \in Cancels : OK(cancel'[s])
    <3> HIDE DEF OK
    <3> QED
      BY <1>2, <1>4, <2>1
  <2> QED
    BY <2>2 DEF CancelInv
<1>5. ASSUME NEW r \in Cancels, NEW status, CancelAnswer(r, status), cancel[r].pc # "new",
             status = "ok" => cancel[r].order \notin DOMAIN orders'
      PROVE  CancelInv'
  <2> DEFINE q == [cancel[r] EXCEPT !.pc = "done", !.answer = status]
  <2>1. q.pc = "done" /\ q.answer = status /\ q.order = cancel[r].order
    BY <1>0 DEF CancelState
  <2>2. OK(q)
    <3> HIDE DEF q
    <3> QED
      BY <1>1, <1>2, <1>5, <2>1
  <2>3. cancel' = [cancel EXCEPT ![r] = q]
    BY <1>5 DEF CancelAnswer
  <2> QED
    BY <1>4, <2>2, <2>3
<1>6. ASSUME NEW r \in Cancels, NEW label, CancelGoto(r, label), label # "new",
             cancel[r].pc \notin {"new", "done"}
      PROVE  CancelInv'
  <2> DEFINE q == [cancel[r] EXCEPT !.pc = label]
  <2>1. q.pc = label /\ q.answer = cancel[r].answer /\ q.order = cancel[r].order
    BY <1>0 DEF CancelState
  <2>2. OK(q)
    <3> HIDE DEF q
    <3> QED
      BY <1>2, <1>6, <2>1
  <2>3. cancel' = [cancel EXCEPT ![r] = q]
    BY <1>6 DEF CancelGoto
  <2> QED
    BY <1>4, <2>2, <2>3
<1>7. ASSUME NEW r \in Cancels, DeleteOrder(r) PROVE CancelInv'
  <2>1. PICK u \in 1..seq.users, v \in 1..seq.users, o \in 1..seq.orders :
          cancel' = [cancel EXCEPT ![r] =
                       [@ EXCEPT !.pc = "set_order", !.user = u, !.as = v, !.order = o]]
    BY <1>7 DEF DeleteOrder
  <2> DEFINE q == [cancel[r] EXCEPT !.pc = "set_order", !.user = u, !.as = v, !.order = o]
  <2>2. q.pc = "set_order" /\ q.answer = cancel[r].answer /\ q.order = o
    BY <1>0 DEF CancelState
  <2>3. OK(q)
    <3> HIDE DEF q
    <3>1. cancel[r].answer = "none"
      BY <1>2, <1>7 DEF DeleteOrder
    <3> QED
      BY <1>1, <2>2, <3>1
  <2> QED
    BY <1>4, <2>1, <2>3
<1>8. ASSUME NEW r \in Cancels, SetOrder(r) PROVE CancelInv'
  <2>1. CASE CancelAnswer(r, "unauthorized") \/ CancelAnswer(r, "not_found")
    BY <1>5, <1>8, <2>1 DEF SetOrder
  <2>2. CASE cancel' = [cancel EXCEPT ![r].pc = "set_user",
                                      ![r].owner = orders[cancel[r].order].user_id]
    <3> DEFINE q == [cancel[r] EXCEPT !.pc = "set_user", !.owner = orders[cancel[r].order].user_id]
    <3>1. q.pc = "set_user" /\ q.answer = cancel[r].answer /\ q.order = cancel[r].order
      BY <1>0 DEF CancelState
    <3>2. OK(q)
      <4> HIDE DEF q
      <4> QED
        BY <1>2, <1>8, <3>1 DEF SetOrder
    <3>3. cancel' = [cancel EXCEPT ![r] = q]
      BY <2>2
    <3> QED
      BY <1>4, <3>2, <3>3
  <2> QED
    BY <1>8, <2>1, <2>2 DEF SetOrder
<1>9. ASSUME NEW r \in Cancels, SetUser(r) \/ CancelAuthorize(r) \/ CheckOwner(r) \/ CancelFails(r)
      PROVE  CancelInv'
  BY <1>5, <1>6, <1>9 DEF SetUser, CancelAuthorize, CheckOwner, CancelFails
<1>10. ASSUME NEW r \in Cancels, DestroyOrder(r) PROVE CancelInv'
  <2>1. cancel[r].order \notin DOMAIN orders'
    BY <1>10 DEF DestroyOrder, OrderDestroy, Destroy, OrderCascade, Without, storeVars
  <2> QED
    BY <1>5, <1>10, <2>1 DEF DestroyOrder
<1>11. ASSUME NEW r \in Places, PostOrder(r) \/ PlaceStep(r) \/ PlaceFails(r) PROVE cancel' = cancel
  BY <1>11 DEF PostOrder, PlaceStep, PlaceFails, SetHotel, Authorize, SaveOrder, CreateItem,
               LoadItems, FindMenu
<1>12. CASE UNCHANGED vars
  BY <1>3, <1>12 DEF vars
<1> QED
  BY <1>3, <1>7, <1>8, <1>9, <1>10, <1>11, <1>12 DEF Next, CancelStep

\* "Order successfully deleted" is final, whatever other requests still do.
THEOREM CancellationIsFinal == Spec => []CancelledStaysCancelled
<1>1. LedgerInv /\ CancelInv => CancelledStaysCancelled
  BY DEF LedgerInv, StoreInv, ForeignKeys, CancelInv, CancelledStaysCancelled
<1> QED
  BY <1>1, LedgerInit, LedgerStep, CancelInit, CancelInvStep, PTL DEF Spec
=============================================================================
