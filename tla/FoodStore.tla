----------------------------- MODULE FoodStore -----------------------------
(***************************************************************************)
(* The relational store behind the API: the five ActiveRecord models       *)
(* (app/models), their validations and dependent destroys, and the foreign *)
(* keys of db/schema.rb.  Every action is one database transaction, the    *)
(* one ActiveRecord opens around save, update or destroy.  SQLite          *)
(* serialises transactions, so an action is atomic.                        *)
(*                                                                         *)
(* A table is a function from the ids of its rows to the rows.  Columns no *)
(* property tells apart (prices, quantities, descriptions, e-mail, ...)    *)
(* are left out.  A transaction that a validation, a foreign key or a busy *)
(* database refuses changes nothing, and is not a step.                    *)
(***************************************************************************)
EXTENDS Integers

CONSTANTS
  SeedClients, SeedHotels, SeedMenus,  \* rows that db/seeds.rb creates
  Names,                               \* values of Hotel_name and menu_name
  MaxUsers, MaxHotels, MaxMenus,       \* bounds on the ids handed out
  MaxOrders, MaxItems

ASSUME SeedAssumption ==
  /\ SeedClients \in Nat
  /\ SeedHotels \in Nat \ {0}
  /\ SeedMenus \in Nat
  /\ Names # {}

ASSUME BoundAssumption ==
  /\ MaxUsers \in Nat /\ MaxHotels \in Nat /\ MaxMenus \in Nat
  /\ MaxOrders \in Nat /\ MaxItems \in Nat

VARIABLES
  users, hotels, menus, orders, items, \* the tables (items: order_items)
  seq                                  \* last id handed out, per table

storeVars == <<users, hotels, menus, orders, items, seq>>

-----------------------------------------------------------------------------
(* Rows and tables.                                                        *)

Roles == {"admin", "client", "hotel_owner"}

UserRow  == [role : Roles]
HotelRow == [user_id : Nat, Hotel_name : Names]
MenuRow  == [hotel_id : Nat, menu_name : Names]
OrderRow == [user_id : Nat, hotel_id : Nat]
ItemRow  == [order_id : Nat, menu_id : Nat]

\* A function from ids up to the last one handed out to rows.
IsTable(t, Row, last) ==
  /\ DOMAIN t \subseteq 1..last
  /\ t \in [DOMAIN t -> Row]

Insert(t, id, row) ==
  [i \in DOMAIN t \cup {id} |-> IF i = id THEN row ELSE t[i]]

Without(t, ids) == [i \in DOMAIN t \ ids |-> t[i]]

\* Mutant: no AUTOINCREMENT, the next id is one more than the largest in use.
NextIdReused(table) ==
  LET ids == IF table = "hotels" THEN DOMAIN hotels ELSE 1..seq[table]
  IN  CHOOSE n \in 1..(seq[table] + 1) :
        /\ n - 1 \in ids \cup {0}
        /\ \A i \in ids : i < n

\* The next id of a table: AUTOINCREMENT, so one more than was ever used.
NextId(table) == seq[table] + 1

-----------------------------------------------------------------------------
(* The database after db:prepare.  The seeds stop at the first order, which *)
(* has no status and fails its validation: orders and items stay empty.    *)

SeedRole(u) ==
  IF u = 1 THEN "admin" ELSE IF u = 2 THEN "hotel_owner" ELSE "client"

seed_users == users = [u \in 1..(2 + SeedClients) |-> [role |-> SeedRole(u)]]

seed_hotels ==
  \E name \in [1..SeedHotels -> Names] :
    hotels = [h \in 1..SeedHotels |-> [user_id |-> 2, Hotel_name |-> name[h]]]

seed_menus ==
  \E dish \in [1..(SeedHotels * SeedMenus) -> Names] :
    menus = [m \in 1..(SeedHotels * SeedMenus) |->
               [hotel_id |-> 1 + ((m - 1) \div SeedMenus), menu_name |-> dish[m]]]

seed_orders ==
  /\ orders = [o \in {} |-> o]
  /\ items = [i \in {} |-> i]

StoreInit ==
  /\ seed_users /\ seed_hotels /\ seed_menus /\ seed_orders
  /\ seq = [users |-> 2 + SeedClients, hotels |-> SeedHotels,
            menus |-> SeedHotels * SeedMenus, orders |-> 0, items |-> 0]

-----------------------------------------------------------------------------
(* Creating and updating rows.                                             *)

\* Sign-up.  validate_role refuses an unknown role and the role admin.
UserCreate(role) ==
  /\ role # "admin"
  /\ NextId("users") <= MaxUsers
  /\ users' = Insert(users, NextId("users"), [role |-> role])
  /\ seq' = [seq EXCEPT !.users = @ + 1]
  /\ UNCHANGED <<hotels, menus, orders, items>>

\* PATCH /users/:id, whose user_params permit the role.
UserUpdate(u, role) ==
  /\ u \in DOMAIN users
  /\ users' = [users EXCEPT ![u].role = role]
  /\ UNCHANGED <<hotels, menus, orders, items, seq>>

\* Mutant: the id counter is not advanced.
HotelCreateNoCount(u, n) ==
  /\ u \in DOMAIN users
  /\ NextId("hotels") <= MaxHotels
  /\ hotels' = Insert(hotels, NextId("hotels"), [user_id |-> u, Hotel_name |-> n])
  /\ UNCHANGED <<users, menus, orders, items, seq>>

\* @user.hotels.build: the owner was read before, the foreign key checks it.
HotelCreate(u, n) ==
  /\ u \in DOMAIN users
  /\ NextId("hotels") <= MaxHotels
  /\ hotels' = Insert(hotels, NextId("hotels"), [user_id |-> u, Hotel_name |-> n])
  /\ seq' = [seq EXCEPT !.hotels = @ + 1]
  /\ UNCHANGED <<users, menus, orders, items>>

HotelUpdate(h, n) ==
  /\ h \in DOMAIN hotels
  /\ hotels' = [hotels EXCEPT ![h].Hotel_name = n]
  /\ UNCHANGED <<users, menus, orders, items, seq>>

\* Mutant: menus.hotel_id is no foreign key.
MenuCreateUnchecked(h, n) ==
  /\ NextId("menus") <= MaxMenus
  /\ menus' = Insert(menus, NextId("menus"), [hotel_id |-> h, menu_name |-> n])
  /\ seq' = [seq EXCEPT !.menus = @ + 1]
  /\ UNCHANGED <<users, hotels, orders, items>>

\* @hotel.menus.build: the foreign key checks the hotel.
MenuCreate(h, n) ==
  /\ h \in DOMAIN hotels
  /\ NextId("menus") <= MaxMenus
  /\ menus' = Insert(menus, NextId("menus"), [hotel_id |-> h, menu_name |-> n])
  /\ seq' = [seq EXCEPT !.menus = @ + 1]
  /\ UNCHANGED <<users, hotels, orders, items>>

MenuUpdate(m, n) ==
  /\ m \in DOMAIN menus
  /\ menus' = [menus EXCEPT ![m].menu_name = n]
  /\ UNCHANGED <<users, hotels, orders, items, seq>>

\* order.save.  The user was read before and only its foreign key checks it;
\* belongs_to :hotel reads the hotel inside the transaction.
OrderCreate(u, h) ==
  /\ u \in DOMAIN users
  /\ h \in DOMAIN hotels
  /\ NextId("orders") <= MaxOrders
  /\ orders' = Insert(orders, NextId("orders"), [user_id |-> u, hotel_id |-> h])
  /\ seq' = [seq EXCEPT !.orders = @ + 1]
  /\ UNCHANGED <<users, hotels, menus, items>>

\* order.order_items.create!.  The order is in memory and only its foreign
\* key checks it; belongs_to :menu reads the menu inside the transaction.
\* Nothing relates the menu to the hotel of the order.
OrderItemCreate(o, m) ==
  /\ o \in DOMAIN orders
  /\ m \in DOMAIN menus
  /\ NextId("items") <= MaxItems
  /\ items' = Insert(items, NextId("items"), [order_id |-> o, menu_id |-> m])
  /\ seq' = [seq EXCEPT !.items = @ + 1]
  /\ UNCHANGED <<users, hotels, menus, orders>>

-----------------------------------------------------------------------------
(* Destroying rows.  A destroy runs the dependent destroys of the has_many *)
(* declarations first, children before parents, in one transaction.  Its   *)
(* cascade is the set of rows it deletes, table by table.                  *)

MenusOf(hs)      == {m \in DOMAIN menus : menus[m].hotel_id \in hs}
HotelsOf(u)      == {h \in DOMAIN hotels : hotels[h].user_id = u}
OrdersOf(u)      == {o \in DOMAIN orders : orders[o].user_id = u}
ItemsOfMenus(ms) == {i \in DOMAIN items : items[i].menu_id \in ms}
ItemsOfOrders(os) == {i \in DOMAIN items : items[i].order_id \in os}

OrderCascade(o) ==
  [users |-> {}, hotels |-> {}, menus |-> {}, orders |-> {o},
   items |-> ItemsOfOrders({o})]

\* Mutant: has_many :order_items of Menu without dependent: :destroy.
MenuCascadeShallow(m) ==
  [users |-> {}, hotels |-> {}, menus |-> {m}, orders |-> {}, items |-> {}]

MenuCascade(m) ==
  [users |-> {}, hotels |-> {}, menus |-> {m}, orders |-> {},
   items |-> ItemsOfMenus({m})]

\* Mutant: has_many :orders of Hotel with dependent: :destroy.
HotelCascadeOrders(h) ==
  LET os == {o \in DOMAIN orders : orders[o].hotel_id = h}
  IN  [users |-> {}, hotels |-> {h}, menus |-> MenusOf({h}), orders |-> os,
       items |-> ItemsOfMenus(MenusOf({h})) \cup ItemsOfOrders(os)]

\* Mutant: the items ordered at the hotel go with it.
HotelCascadeItems(h) ==
  LET os == {o \in DOMAIN orders : orders[o].hotel_id = h}
  IN  [users |-> {}, hotels |-> {h}, menus |-> MenusOf({h}), orders |-> {},
       items |-> ItemsOfMenus(MenusOf({h})) \cup ItemsOfOrders(os)]

\* has_many :orders of Hotel has no dependent option: the orders stay.
HotelCascade(h) ==
  [users |-> {}, hotels |-> {h}, menus |-> MenusOf({h}), orders |-> {},
   items |-> ItemsOfMenus(MenusOf({h}))]

UserCascade(u) ==
  [users |-> {u}, hotels |-> HotelsOf(u), menus |-> MenusOf(HotelsOf(u)),
   orders |-> OrdersOf(u),
   items |-> ItemsOfMenus(MenusOf(HotelsOf(u))) \cup ItemsOfOrders(OrdersOf(u))]

\* The foreign keys of db/schema.rb allow a deletion that leaves no row
\* pointing at a deleted one.  There is none from orders to hotels.
Commits(c) ==
  /\ \A h \in DOMAIN hotels \ c.hotels : hotels[h].user_id \notin c.users
  /\ \A m \in DOMAIN menus \ c.menus : menus[m].hotel_id \notin c.hotels
  /\ \A o \in DOMAIN orders \ c.orders : orders[o].user_id \notin c.users
  /\ \A i \in DOMAIN items \ c.items : items[i].order_id \notin c.orders
  /\ \A i \in DOMAIN items \ c.items : items[i].menu_id \notin c.menus

Destroy(c) ==
  /\ Commits(c)
  /\ users' = Without(users, c.users)
  /\ hotels' = Without(hotels, c.hotels)
  /\ menus' = Without(menus, c.menus)
  /\ orders' = Without(orders, c.orders)
  /\ items' = Without(items, c.items)
  /\ UNCHANGED seq

UserDestroy(u) == u \in DOMAIN users /\ Destroy(UserCascade(u))
HotelDestroy(h) == h \in DOMAIN hotels /\ Destroy(HotelCascade(h))
MenuDestroy(m) == m \in DOMAIN menus /\ Destroy(MenuCascade(m))
OrderDestroy(o) == o \in DOMAIN orders /\ Destroy(OrderCascade(o))

-----------------------------------------------------------------------------
(* The specification.  A request names rows by id, and the id may be stale. *)
(* CatalogNext is what happens to users, hotels and menus; a module that   *)
(* details the requests on orders keeps it as it is.                       *)

CatalogNext ==
  \/ \E r \in Roles : UserCreate(r)
  \/ \E u \in 1..seq.users :
       \/ \E r \in Roles : UserUpdate(u, r)
       \/ \E n \in Names : HotelCreate(u, n)
       \/ UserDestroy(u)
  \/ \E h \in 1..seq.hotels :
       \/ \E n \in Names : HotelUpdate(h, n) \/ MenuCreate(h, n)
       \/ HotelDestroy(h)
  \/ \E m \in 1..seq.menus :
       \/ \E n \in Names : MenuUpdate(m, n)
       \/ MenuDestroy(m)

OrdersNext ==
  \/ \E u \in 1..seq.users, h \in 1..seq.hotels : OrderCreate(u, h)
  \/ \E o \in 1..seq.orders :
       \/ \E m \in 1..seq.menus : OrderItemCreate(o, m)
       \/ OrderDestroy(o)

StoreNext == CatalogNext \/ OrdersNext

StoreSpec == StoreInit /\ [][StoreNext]_storeVars

-----------------------------------------------------------------------------
(* Properties.                                                             *)

\* The rows have their columns, and every id was handed out by its table's
\* counter: app/models and db/schema.rb.
StoreTypeOK ==
  /\ seq \in [{"users", "hotels", "menus", "orders", "items"} -> Nat]
  /\ IsTable(users, UserRow, seq.users)
  /\ IsTable(hotels, HotelRow, seq.hotels)
  /\ IsTable(menus, MenuRow, seq.menus)
  /\ IsTable(orders, OrderRow, seq.orders)
  /\ IsTable(items, ItemRow, seq.items)

\* The five foreign keys of db/schema.rb, and no sixth: whatever the order of
\* the transactions, no hotel, menu or order is left without its owner, and
\* no item without its order and its menu.
ForeignKeys ==
  /\ \A h \in DOMAIN hotels : hotels[h].user_id \in DOMAIN users
  /\ \A m \in DOMAIN menus : menus[m].hotel_id \in DOMAIN hotels
  /\ \A o \in DOMAIN orders : orders[o].user_id \in DOMAIN users
  /\ \A i \in DOMAIN items : /\ items[i].order_id \in DOMAIN orders
                             /\ items[i].menu_id \in DOMAIN menus

\* The dependent destroys of app/models reach far enough: no destroy of an
\* existing row ever fails on a foreign key (which no controller rescues).
DestroyCommits ==
  /\ \A u \in DOMAIN users : Commits(UserCascade(u))
  /\ \A h \in DOMAIN hotels : Commits(HotelCascade(h))
  /\ \A m \in DOMAIN menus : Commits(MenuCascade(m))
  /\ \A o \in DOMAIN orders : Commits(OrderCascade(o))

\* What customers ordered outlives the catalogue: an order disappears with
\* its user or alone, never because a hotel or a menu is destroyed
\* (app/models/hotel.rb gives has_many :orders no dependent option).
OrdersOutliveTheCatalog ==
  [][\A o \in DOMAIN orders \ DOMAIN orders' :
       \/ orders[o].user_id \notin DOMAIN users'
       \/ UNCHANGED <<users, hotels, menus>>]_storeVars

\* An item leaves an order that stays only together with its menu: no other
\* destroy thins out an order.
ItemsLeaveWithAParent ==
  [][\A i \in DOMAIN items \ DOMAIN items' :
       \/ items[i].order_id \notin DOMAIN orders'
       \/ items[i].menu_id \notin DOMAIN menus']_storeVars

\* The order of a destroyed hotel keeps a hotel_id that names nothing, for
\* ever: no later hotel takes over the orders (and so the order list that
\* OrdersController#index shows its owner) of a destroyed one.
NoOrderChangesHands ==
  [][\A o \in DOMAIN orders \cap DOMAIN orders' :
       orders[o].hotel_id \notin DOMAIN hotels
         => orders'[o].hotel_id \notin DOMAIN hotels']_storeVars

\* spec/models/order_spec.rb: an order "should belong_to(:hotel)" and "is not
\* valid without a hotel".  What the store does not keep true.
OrderKeepsItsHotel ==
  \A o \in DOMAIN orders : orders[o].hotel_id \in DOMAIN hotels
=============================================================================
