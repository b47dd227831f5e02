--------------------------- MODULE OrderRequests ---------------------------
(***************************************************************************)
(* The requests on orders, step by step: OrdersController#create with      *)
(* CreateOrderService, and OrdersController#destroy.  Each request runs in *)
(* a Puma thread of its own.  Every read and every transaction is a step,  *)
(* so that other requests on orders, and everything the API does to users, *)
(* hotels and menus (CatalogNext), happen in between.                      *)
(*                                                                         *)
(* order.save and each order_items.create! are transactions of their own:  *)
(* nothing in the service wraps them.  An exception that leaves the action *)
(* is the status Rails answers with: RecordInvalid 422 (unprocessable),    *)
(* RecordNotFound 404 (not_found), ParameterMissing 400 (bad_request), all *)
(* others 500 (error).                                                     *)
(***************************************************************************)
EXTENDS FoodStore, Sequences

CONSTANTS
  Places, Cancels,  \* POST requests and DELETE requests on orders
  Baskets           \* what may be ordered: sequences of menu ids

ASSUME RequestAssumption == Baskets \subseteq Seq(Nat)

VARIABLES
  place,            \* the state of every POST request
  cancel            \* the state of every DELETE request

vars == <<users, hotels, menus, orders, items, seq, place, cancel>>

-----------------------------------------------------------------------------
(* A POST request: the signed-in user, the parameters of the order (valid  *)
(* with a status and no negative price; or missing), the id of the order it *)
(* saved (0 before), the ids of the items it created, the <<item, menu>>   *)
(* ids of the items its answer has yet to name, and the answer.  A DELETE  *)
(* request: the signed-in user, the user its path names, the order and its *)
(* user_id.                                                                *)

Answers == {"none", "created", "ok", "unauthorized", "not_found", "denied",
            "forbidden", "bad_request", "unprocessable", "error"}

PlaceState ==
  [pc : {"new", "set_hotel", "authorize", "save", "items", "load", "find", "done"},
   user : Nat, hotel : Nat, basket : Baskets \cup {<< >>}, params : {"valid", "invalid", "missing"},
   order : Nat, made : Seq(Nat), left : SUBSET (Nat \X Nat), answer : Answers]

CancelState ==
  [pc : {"new", "set_order", "set_user", "authorize", "owner", "destroy", "done"},
   user : Nat, as : Nat, order : Nat, owner : Nat, answer : Answers]

Init ==
  /\ StoreInit
  /\ place = [r \in Places |->
       [pc |-> "new", user |-> 0, hotel |-> 0, basket |-> << >>, params |-> "invalid",
        order |-> 0, made |-> << >>, left |-> {}, answer |-> "none"]]
  /\ cancel = [r \in Cancels |->
       [pc |-> "new", user |-> 0, as |-> 0, order |-> 0, owner |-> 0, answer |-> "none"]]

-----------------------------------------------------------------------------
(* POST /users/:user_id/hotels/:hotel_id/orders                            *)

Goto(r, label) == place' = [place EXCEPT ![r].pc = label]

Answer(r, status) ==
  place' = [place EXCEPT ![r].pc = "done", ![r].answer = status]

PostOrder(r) ==
  /\ place[r].pc = "new"
  /\ \E u \in 1..seq.users, h \in 1..seq.hotels, b \in Baskets, v \in {"valid", "invalid", "missing"} :
       place' = [place EXCEPT ![r] =
                   [@ EXCEPT !.pc = "set_hotel", !.user = u, !.hotel = h,
                             !.basket = b, !.params = v]]
  /\ UNCHANGED <<storeVars, cancel>>

\* authenticate_user!, then set_hotel.
SetHotel(r) ==
  /\ place[r].pc = "set_hotel"
  /\ \/ Answer(r, "unauthorized")
     \/ place[r].hotel \in DOMAIN hotels /\ Goto(r, "authorize")
     \/ place[r].hotel \notin DOMAIN hotels /\ Answer(r, "not_found")
  /\ UNCHANGED <<storeVars, cancel>>

\* Roles that Ability lets create and destroy orders.
ManagesOrders(u) == u \in DOMAIN users /\ users[u].role \in {"admin", "client"}

\* Mutant: params[:order_items] is not required.
AuthorizeAnyBasket(r) ==
  /\ place[r].pc = "authorize"
  /\ IF ManagesOrders(place[r].user) THEN Goto(r, "save") ELSE Answer(r, "denied")
  /\ UNCHANGED <<storeVars, cancel>>

\* load_and_authorize_resource builds an order from order_params and then asks
\* Ability; order_items_params refuses an empty list.
Authorize(r) ==
  /\ place[r].pc = "authorize"
  /\ \/ place[r].params = "missing" /\ Answer(r, "bad_request")
     \/ /\ place[r].params # "missing" /\ ~ManagesOrders(place[r].user)
        /\ Answer(r, "denied")
     \/ /\ place[r].params # "missing" /\ ManagesOrders(place[r].user)
        /\ IF place[r].basket = << >> THEN Answer(r, "bad_request") ELSE Goto(r, "save")
  /\ UNCHANGED <<storeVars, cancel>>

\* Mutant: the save is retried although it succeeded.
SaveOrderAgain(r) ==
  LET q == place[r]
  IN  /\ q.pc = "save"
      /\ OrderCreate(q.user, q.hotel)
      /\ \E l \in {"save", "items"} :
           place' = [place EXCEPT ![r].pc = l, ![r].order = NextId("orders")]
      /\ UNCHANGED cancel

\* order.save.  It returns false on a validation error, a missing hotel
\* included; a missing user raises InvalidForeignKey.
SaveOrder(r) ==
  LET q == place[r]
  IN  /\ q.pc = "save"
      /\ \/ /\ q.params = "valid"
            /\ OrderCreate(q.user, q.hotel)
            /\ place' = [place EXCEPT ![r].pc = "items", ![r].order = NextId("orders")]
         \/ /\ q.params = "invalid" \/ q.hotel \notin DOMAIN hotels
            /\ Answer(r, "unprocessable")
            /\ UNCHANGED storeVars
         \/ /\ q.params = "valid" /\ q.hotel \in DOMAIN hotels /\ q.user \notin DOMAIN users
            /\ Answer(r, "error")
            /\ UNCHANGED storeVars
      /\ UNCHANGED cancel

\* Mutant: errors are rescued item by item, and an item that fails is passed over.
CreateItemQuietly(r) ==
  LET q == place[r]
  IN  /\ q.pc = "items"
      /\ place' = [place EXCEPT
                     ![r].made = Append(@, NextId("items")),
                     ![r].pc = IF Len(q.made) + 1 = Len(q.basket) THEN "load" ELSE "items"]
      /\ OrderItemCreate(q.order, q.basket[Len(q.made) + 1]) \/ UNCHANGED storeVars
      /\ UNCHANGED cancel

\* Mutant: the item of a missing menu is never answered for.
CreateItemStuck(r) ==
  LET q == place[r]
      m == q.basket[Len(q.made) + 1]
  IN  /\ q.pc = "items"
      /\ OrderItemCreate(q.order, m)
      /\ place' = [place EXCEPT
                     ![r].made = Append(@, NextId("items")),
                     ![r].pc = IF Len(q.made) + 1 = Len(q.basket) THEN "load" ELSE "items"]
      /\ UNCHANGED cancel

\* Mutant: belongs_to :menu is optional and menu_id no foreign key.
CreateItemUnchecked(r) ==
  LET q == place[r]
      m == q.basket[Len(q.made) + 1]
  IN  /\ q.pc = "items"
      /\ q.order \in DOMAIN orders
      /\ items' = Insert(items, NextId("items"), [order_id |-> q.order, menu_id |-> m])
      /\ seq' = [seq EXCEPT !.items = @ + 1]
      /\ place' = [place EXCEPT
                     ![r].made = Append(@, NextId("items")),
                     ![r].pc = IF Len(q.made) + 1 = Len(q.basket) THEN "load" ELSE "items"]
      /\ UNCHANGED <<users, hotels, menus, orders, cancel>>

\* order.order_items.create! for the next item.  A missing menu fails the
\* validation of belongs_to; a missing order raises InvalidForeignKey.  What
\* was saved before stays.
CreateItem(r) ==
  LET q == place[r]
      m == q.basket[Len(q.made) + 1]
  IN  /\ q.pc = "items"
      /\ \/ /\ OrderItemCreate(q.order, m)
            /\ place' = [place EXCEPT
                           ![r].made = Append(@, NextId("items")),
                           ![r].pc = IF Len(q.made) + 1 = Len(q.basket) THEN "load" ELSE "items"]
         \/ /\ m \notin DOMAIN menus
            /\ Answer(r, "unprocessable")
            /\ UNCHANGED storeVars
         \/ /\ m \in DOMAIN menus /\ q.order \notin DOMAIN orders
            /\ Answer(r, "error")
            /\ UNCHANGED storeVars
      /\ UNCHANGED cancel

\* order.order_items is read back: the items that are still there.
LoadItems(r) ==
  /\ place[r].pc = "load"
  /\ place' = [place EXCEPT
                 ![r].pc = "find",
                 ![r].left = {<<i, items[i].menu_id>> : i \in ItemsOfOrders({place[r].order})}]
  /\ UNCHANGED <<storeVars, cancel>>

\* Menu.find for one of them; created when all were found.
FindMenu(r) ==
  LET q == place[r]
  IN  /\ q.pc = "find"
      /\ \/ q.left = {} /\ Answer(r, "created")
         \/ \E p \in q.left :
              \/ /\ p[2] \in DOMAIN menus
                 /\ place' = [place EXCEPT ![r].left = @ \ {p}]
              \/ p[2] \notin DOMAIN menus /\ Answer(r, "not_found")
      /\ UNCHANGED <<storeVars, cancel>>

\* A read or a transaction fails: the database stayed busy for its timeout,
\* or the worker dies.
PlaceFails(r) ==
  /\ place[r].pc \notin {"new", "done"}
  /\ Answer(r, "error")
  /\ UNCHANGED <<storeVars, cancel>>

PlaceStep(r) ==
  \/ SetHotel(r) \/ Authorize(r) \/ SaveOrder(r) \/ CreateItem(r)
  \/ LoadItems(r) \/ FindMenu(r)

-----------------------------------------------------------------------------
(* DELETE /users/:user_id/hotels/:hotel_id/orders/:id                      *)

CancelGoto(r, label) == cancel' = [cancel EXCEPT ![r].pc = label]

CancelAnswer(r, status) ==
  cancel' = [cancel EXCEPT ![r].pc = "done", ![r].answer = status]

DeleteOrder(r) ==
  /\ cancel[r].pc = "new"
  /\ \E u \in 1..seq.users, v \in 1..seq.users, o \in 1..seq.orders :
       cancel' = [cancel EXCEPT ![r] =
                    [@ EXCEPT !.pc = "set_order", !.user = u, !.as = v, !.order = o]]
  /\ UNCHANGED <<storeVars, place>>

\* authenticate_user!, then set_order.
SetOrder(r) ==
  /\ cancel[r].pc = "set_order"
  /\ \/ CancelAnswer(r, "unauthorized")
     \/ cancel[r].order \notin DOMAIN orders /\ CancelAnswer(r, "not_found")
     \/ /\ cancel[r].order \in DOMAIN orders
        /\ cancel' = [cancel EXCEPT ![r].pc = "set_user",
                                    ![r].owner = orders[cancel[r].order].user_id]
  /\ UNCHANGED <<storeVars, place>>

\* set_user, then load_and_authorize_resource.
SetUser(r) ==
  /\ cancel[r].pc = "set_user"
  /\ IF cancel[r].as \in DOMAIN users
       THEN CancelGoto(r, "authorize")
       ELSE CancelAnswer(r, "not_found")
  /\ UNCHANGED <<storeVars, place>>

CancelAuthorize(r) ==
  /\ cancel[r].pc = "authorize"
  /\ IF ManagesOrders(cancel[r].user)
       THEN CancelGoto(r, "owner")
       ELSE CancelAnswer(r, "denied")
  /\ UNCHANGED <<storeVars, place>>

\* @order.user is read now, and is nil when the user is gone.
CheckOwner(r) ==
  LET q == cancel[r]
  IN  /\ q.pc = "owner"
      /\ \/ q.owner \notin DOMAIN users /\ CancelAnswer(r, "error")
         \/ q.owner \in DOMAIN users /\ q.owner # q.as /\ CancelAnswer(r, "forbidden")
         \/ q.owner \in DOMAIN users /\ q.owner = q.as /\ CancelGoto(r, "destroy")
      /\ UNCHANGED <<storeVars, place>>

\* Mutant: a destroy that fails is answered like one that succeeds.
DestroyOrderUnseen(r) ==
  LET o == cancel[r].order
  IN  /\ cancel[r].pc = "destroy"
      /\ OrderDestroy(o) \/ UNCHANGED storeVars
      /\ CancelAnswer(r, "ok")
      /\ UNCHANGED place

\* @order.destroy, whose result is not looked at: an order that is already
\* gone is deleted once more, from no row.
DestroyOrder(r) ==
  LET o == cancel[r].order
  IN  /\ cancel[r].pc = "destroy"
      /\ \/ OrderDestroy(o)
         \/ o \notin DOMAIN orders /\ UNCHANGED storeVars
      /\ CancelAnswer(r, "ok")
      /\ UNCHANGED place

CancelFails(r) ==
  /\ cancel[r].pc \notin {"new", "done"}
  /\ CancelAnswer(r, "error")
  /\ UNCHANGED <<storeVars, place>>

CancelStep(r) ==
  \/ SetOrder(r) \/ SetUser(r) \/ CancelAuthorize(r) \/ CheckOwner(r)
  \/ DestroyOrder(r)

-----------------------------------------------------------------------------
Next ==
  \/ \E r \in Places : PostOrder(r) \/ PlaceStep(r) \/ PlaceFails(r)
  \/ \E r \in Cancels : DeleteOrder(r) \/ CancelStep(r) \/ CancelFails(r)
  \/ CatalogNext /\ UNCHANGED <<place, cancel>>

Spec == Init /\ [][Next]_vars

\* A Puma thread that serves a request keeps running it; nothing obliges a
\* client to send one.
Fairness ==
  /\ \A r \in Places : WF_vars(PlaceStep(r))
  /\ \A r \in Cancels : WF_vars(CancelStep(r))

FairSpec == Spec /\ Fairness

-----------------------------------------------------------------------------
(* Properties.                                                             *)

\* The states of the requests, and what each step may rely on: a request
\* saves no empty order, and creates items only for an order it saved and
\* only while some of its basket is left (CreateOrderService#call).
TypeOK ==
  /\ StoreTypeOK
  /\ place \in [Places -> PlaceState]
  /\ cancel \in [Cancels -> CancelState]
  /\ \A r \in Places :
       /\ place[r].pc \in {"save", "items"} => Len(place[r].made) < Len(place[r].basket)
       /\ place[r].pc \in {"items", "load", "find"} => place[r].order # 0

\* Two requests never share an order, no request saves two, and an item is in
\* an order only because the request that saved the order asked for its menu:
\* the ids CreateOrderService keeps in memory stay its own although other
\* requests insert, and delete, at the same time.
OrdersComeFromRequests ==
  /\ \A r, s \in Places : place[r].order = place[s].order /\ place[r].order # 0 => r = s
  /\ \A o \in DOMAIN orders : \E r \in Places :
       place[r].order = o /\ orders[o] = [user_id |-> place[r].user, hotel_id |-> place[r].hotel]
  /\ \A i \in DOMAIN items : \E r \in Places : \E k \in 1..Len(place[r].made) :
       /\ place[r].made[k] = i
       /\ items[i] = [order_id |-> place[r].order, menu_id |-> place[r].basket[k]]

\* An order answered with 201 Created has an item of its own for everything in
\* the basket, as long as neither the order nor the menu is destroyed: no item
\* is skipped, however the catalogue changes while the request runs.
CreatedIsComplete ==
  \A r \in Places : place[r].answer = "created" /\ place[r].order \in DOMAIN orders =>
    /\ Len(place[r].made) = Len(place[r].basket)
    /\ \A k, l \in 1..Len(place[r].made) : place[r].made[k] = place[r].made[l] => k = l
    /\ \A k \in 1..Len(place[r].basket) : place[r].basket[k] \in DOMAIN menus =>
         /\ place[r].made[k] \in DOMAIN items
         /\ items[place[r].made[k]] = [order_id |-> place[r].order, menu_id |-> place[r].basket[k]]

\* "Order successfully deleted" (OrdersController#destroy) is final: the order
\* does not exist, and a request that is still adding items to it leaves none.
CancelledStaysCancelled ==
  \A r \in Cancels : cancel[r].answer = "ok" =>
    /\ cancel[r].order \notin DOMAIN orders
    /\ \A i \in DOMAIN items : items[i].order_id # cancel[r].order

\* Every request on orders that was received is answered: no step waits for
\* another request, whatever happens to the rows it works on.
EveryRequestAnswered ==
  /\ \A r \in Places : place[r].pc = "set_hotel" ~> place[r].pc = "done"
  /\ \A r \in Cancels : cancel[r].pc = "set_order" ~> cancel[r].pc = "done"

\* app/services/create_order_service.rb: the errors are returned "if the order
\* creation fails".  A request answered with them has created no order.
UnprocessableCreatesNothing ==
  \A r \in Places : place[r].answer = "unprocessable" => place[r].order \notin DOMAIN orders
=============================================================================
