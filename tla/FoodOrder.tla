----------------------------- MODULE FoodOrder -----------------------------
(***************************************************************************)
(* A group food order and its items: the tables food_order and order_item, *)
(* the HTTP handlers that write them, the account deletion, the cleanup    *)
(* verb and the draw of the jobs nobody took.                              *)
(*                                                                         *)
(* The grain is one SQL statement per step.  A handler is a request slot:  *)
(* its first step reads the order (lookupOrder) and makes every check it   *)
(* makes on that snapshot, later steps are the statements that write.      *)
(* PostgreSQL runs at READ COMMITTED, so a statement sees what is          *)
(* committed when it starts, and waits for the row locks of the open       *)
(* transactions: a step that would wait is not enabled.                    *)
(***************************************************************************)
EXTENDS Integers, FiniteSets, Functions

CONSTANTS
    Users,         \* accounts that exist at the start
    Root,          \* the administrator, one of Users
    Deleted,       \* the placeholder that owns what deleted accounts leave
    Nobody,        \* a job nobody has (SQL NULL)
    Restaurants,   \* restaurants that exist at the start
    MenuItems,     \* dishes on the menus
    RestaurantOf,  \* the restaurant that sells each dish
    Orders, Items, \* the identifiers the program can mint
    Contents,      \* quantity, note and modifications of an item, as a whole
    Requests,      \* request slots: how many handlers run at once
    Routes,        \* the operations this instance exercises
    Drafts,        \* bodies of POST /orders
    Patches,       \* bodies of PATCH /orders/:id
    Same,          \* a field a patch leaves out
    MaxTime,       \* the last tick of the clock
    Retention      \* how long cleanup keeps an expired order

Jobs == {"money_collector", "pickup_person"}
AllRoutes == {"create", "patch", "remove", "claim", "release", "addItem",
              "patchItem", "deleteItem", "setItemPaid", "deleteUser",
              "removeRestaurant", "cleanup"}

Owners  == Users \cup {Deleted}
Holders == Users \cup {Nobody}

Draft == [restaurant : Restaurants, deadline : Nat, fulfilment : Nat,
          holder : [Jobs -> Holders]]
Patch == [restaurant : Restaurants \cup {Same}, deadline : Nat \cup {Same},
          fulfilment : Nat \cup {Same}, holder : [Jobs -> Holders \cup {Same}]]

ASSUME PeopleAssumption == /\ Root \in Users
                           /\ Deleted \notin Users
                           /\ Nobody \notin Owners
ASSUME SameAssumption == Same \notin Nat \cup Restaurants \cup Holders
ASSUME MenuAssumption == RestaurantOf \in [MenuItems -> Restaurants]
ASSUME BodyAssumption == Drafts \subseteq Draft /\ Patches \subseteq Patch
ASSUME TimeAssumption == MaxTime \in Nat /\ Retention \in Nat
ASSUME RouteAssumption == Routes \subseteq AllRoutes

VARIABLES
    now,       \* the clock of the server, in ticks
    accounts,  \* app_user: the accounts not deleted yet
    selling,   \* restaurant: those with deleted_at null
    orders,    \* food_order: identifier -> row
    items,     \* order_item: identifier -> row
    minted,    \* identifiers handed out, never again
    reqs       \* slot -> the request being handled and its next statement

vars == <<now, accounts, selling, orders, items, minted, reqs>>
tables == <<accounts, selling, orders, items>>

OrderRow == [creator : Owners, restaurant : Restaurants, deadline : Nat,
             fulfilment : Nat, holder : [Jobs -> Holders],
             drawn : [Jobs -> BOOLEAN], jobsDrawn : BOOLEAN]
ItemRow  == [order : Orders, user : Owners, menuItem : MenuItems,
             content : Contents, paid : BOOLEAN]

-----------------------------------------------------------------------------
(* Tables and requests. *)

Idle == [pc |-> "idle"]

\* A table with a row more, and with the rows of some keys gone.
With(table, key, row) ==
    [k \in DOMAIN table \cup {key} |-> IF k = key THEN row ELSE table[k]]
Without(table, keys) == Restrict(table, DOMAIN table \ keys)

Receive(q, request) == /\ reqs[q] = Idle
                       /\ reqs' = [reqs EXCEPT ![q] = request]
Continue(q, pc) == reqs' = [reqs EXCEPT ![q].pc = pc]
Answer(q) == reqs' = [reqs EXCEPT ![q] = Idle]

\* Slip: open for one tick too long.
ActiveAtDeadline(order) == now <= order.deadline
Active(order) == now < order.deadline
ItemsOf(o) == {i \in DOMAIN items : items[i].order = o}

\* FOR KEY SHARE: the foreign keys of an item inserted and not yet committed
\* hold its order's and its owner's row.
OrderShared(o) == \E q \in Requests : /\ reqs[q].pc = "commitItem"
                                      /\ reqs[q].row.order = o
\* Slip: the account is deleted on another connection than its items.
UserSharedBySelf(u) == \E q \in Requests : /\ reqs[q].pc = "deleteUser"
                                          /\ reqs[q].user = u
UserShared(u) == \E q \in Requests : /\ reqs[q].pc = "commitItem"
                                     /\ reqs[q].row.user = u
\* The rows an open account deletion has reassigned or removed.
ItemLocked(i) == \E q \in Requests :
    \/ reqs[q].pc = "removeItems" /\ i \in reqs[q].reassigned
    \/ reqs[q].pc = "deleteUser"
         /\ i \in reqs[q].reassigned \cup reqs[q].removed

-----------------------------------------------------------------------------
(* Opening, changing and deleting an order. *)

NewRow(u, draft) ==
    [creator |-> u, restaurant |-> draft.restaurant,
     deadline |-> draft.deadline, fulfilment |-> draft.fulfilment,
     holder |-> draft.holder,
     drawn |-> [j \in Jobs |-> FALSE], jobsDrawn |-> FALSE]

DeadlineFirst(row) == row.deadline < row.fulfilment
NamesPeople(holder) == \A j \in Jobs : holder[j] \in accounts \cup {Nobody, Same}

Create(q) ==
    /\ "create" \in Routes
    /\ \E u \in accounts, draft \in Drafts, o \in Orders \ minted :
         /\ DeadlineFirst(draft) /\ Active(draft)
         /\ NamesPeople(draft.holder)
         /\ minted' = minted \cup {o}
         /\ Receive(q, [pc |-> "insertOrder", order |-> o,
                        row |-> NewRow(u, draft)])
    /\ UNCHANGED <<now, tables>>

\* INSERT ... SELECT from the living restaurant, and the foreign keys.
Insertable(row) == /\ row.restaurant \in selling
                   /\ row.creator \in accounts /\ NamesPeople(row.holder)

InsertOrder(q) ==
    /\ reqs[q].pc = "insertOrder"
    /\ LET row == reqs[q].row IN
         \/ Insertable(row) /\ orders' = With(orders, reqs[q].order, row)
         \/ ~Insertable(row) /\ UNCHANGED orders
    /\ Answer(q)
    /\ UNCHANGED <<now, accounts, selling, items, minted>>

\* The row a change leaves: the fields it names, the others as they are.
New(value, old) == IF value = Same THEN old ELSE value
Changed(row, set) ==
    [row EXCEPT !.restaurant = New(set.restaurant, @),
                !.deadline   = New(set.deadline, @),
                !.fulfilment = New(set.fulfilment, @),
                !.holder     = [j \in Jobs |-> New(set.holder[j], @[j])]]

\* validateOrderPatch, on the row read by lookupOrder.
ValidPatch(o, set) ==
    /\ set.restaurant # Same => /\ ItemsOf(o) = {}
                                /\ set.restaurant \in selling
    /\ DeadlineFirst(Changed(orders[o], set))
    /\ NamesPeople(set.holder)

Patching(q) ==
    /\ "patch" \in Routes
    /\ \E u \in accounts, o \in DOMAIN orders, set \in Patches :
         /\ u \in {orders[o].creator, Root} /\ Active(orders[o])
         /\ ValidPatch(o, set)
         /\ Receive(q, [pc |-> "updateOrder", route |-> "patch", order |-> o,
                        actor |-> u, set |-> set])
    /\ UNCHANGED <<now, tables, minted>>

\* The change that puts one person, or nobody, in one job.
JobSet(job, person) ==
    [restaurant |-> Same, deadline |-> Same, fulfilment |-> Same,
     holder |-> [j \in Jobs |-> IF j = job THEN person ELSE Same]]

Claim(q) ==
    /\ "claim" \in Routes
    /\ \E u \in accounts, o \in DOMAIN orders, job \in Jobs :
         /\ Active(orders[o]) /\ orders[o].holder[job] = Nobody
         /\ Receive(q, [pc |-> "updateOrder", route |-> "claim", order |-> o,
                        actor |-> u, set |-> JobSet(job, u)])
    /\ UNCHANGED <<now, tables, minted>>

Release(q) ==
    /\ "release" \in Routes
    /\ \E u \in accounts, o \in DOMAIN orders, job \in Jobs :
         /\ u \in {Root, orders[o].creator, orders[o].holder[job]}
         /\ Active(orders[o]) /\ orders[o].holder[job] # Nobody
         /\ Receive(q, [pc |-> "updateOrder", route |-> "release", order |-> o,
                        actor |-> u, set |-> JobSet(job, Nobody)])
    /\ UNCHANGED <<now, tables, minted>>

\* Slips: no CHECK on the two times; no NOT EXISTS in the WHERE.
AcceptsAnyTimes(o, actor, set) ==
    /\ o \in DOMAIN orders
    /\ set.restaurant # Same => ItemsOf(o) = {}
    /\ actor \in accounts /\ NamesPeople(set.holder)
AcceptsAnyItems(o, actor, set) ==
    /\ o \in DOMAIN orders
    /\ DeadlineFirst(Changed(orders[o], set))
    /\ actor \in accounts /\ NamesPeople(set.holder)

\* What the UPDATE of food_order accepts: its WHERE, the CHECK on the two
\* times and the foreign keys (updated_by names the actor).
Accepts(o, actor, set) ==
    /\ o \in DOMAIN orders
    /\ set.restaurant # Same => ItemsOf(o) = {}
    /\ DeadlineFirst(Changed(orders[o], set))
    /\ actor \in accounts /\ NamesPeople(set.holder)

UpdateOrder(q) ==
    /\ reqs[q].pc = "updateOrder"
    /\ LET r == reqs[q] IN
         \/ /\ Accepts(r.order, r.actor, r.set)
            /\ orders' = [orders EXCEPT ![r.order] = Changed(@, r.set)]
         \/ /\ ~Accepts(r.order, r.actor, r.set)
            /\ UNCHANGED orders
    /\ Answer(q)
    /\ UNCHANGED <<now, accounts, selling, items, minted>>

Remove(q) ==
    /\ "remove" \in Routes
    /\ \E u \in accounts, o \in DOMAIN orders :
         /\ u \in {orders[o].creator, Root}
         /\ Receive(q, [pc |-> "deleteOrder", order |-> o])
    /\ UNCHANGED <<now, tables, minted>>

\* Slip: the lock of the uncommitted item's foreign key is overlooked.
DeletableUnderInsert(o) == \A i \in ItemsOf(o) : ~ItemLocked(i)

\* Deleting order rows waits for the transactions that hold them or an item.
Deletable(o) == ~OrderShared(o) /\ \A i \in ItemsOf(o) : ~ItemLocked(i)
DropOrders(gone) ==
    /\ orders' = Without(orders, gone)
    /\ items' = Without(items, {i \in DOMAIN items : items[i].order \in gone})

DeleteOrder(q) ==
    /\ reqs[q].pc = "deleteOrder"
    /\ Deletable(reqs[q].order)
    /\ DropOrders({reqs[q].order})
    /\ Answer(q)
    /\ UNCHANGED <<now, accounts, selling, minted>>

-----------------------------------------------------------------------------
(* Adding, changing and deleting an item, and ticking it as paid. *)

AddItem(q) ==
    /\ "addItem" \in Routes
    /\ \E u \in accounts, o \in DOMAIN orders, m \in MenuItems, c \in Contents,
          i \in Items \ minted :
         /\ Active(orders[o])
         /\ minted' = minted \cup {i}
         /\ Receive(q, [pc |-> "checkItem", item |-> i,
                        row |-> [order |-> o, user |-> u, menuItem |-> m,
                                 content |-> c, paid |-> FALSE]])
    /\ UNCHANGED <<now, tables>>

\* Slip: the join of order and dish leaves out the restaurant.
SellsAnything(o, m) == o \in DOMAIN orders

\* The first statement of the transaction: the dish is one of the order's
\* restaurant.  (Not served, sold out and an unknown modification roll back
\* too: Abort.)
Sells(o, m) == o \in DOMAIN orders /\ RestaurantOf[m] = orders[o].restaurant

CheckItem(q) ==
    /\ reqs[q].pc = "checkItem"
    /\ LET row == reqs[q].row IN
         \/ Sells(row.order, row.menuItem) /\ Continue(q, "insertItem")
         \/ ~Sells(row.order, row.menuItem) /\ Answer(q)
    /\ UNCHANGED <<now, tables, minted>>

InsertItem(q) ==
    /\ reqs[q].pc = "insertItem"
    /\ LET refers == /\ reqs[q].row.order \in DOMAIN orders
                     /\ reqs[q].row.user \in accounts
       IN  \/ refers /\ Continue(q, "commitItem")
           \/ ~refers /\ Answer(q)
    /\ UNCHANGED <<now, tables, minted>>

CommitItem(q) ==
    /\ reqs[q].pc = "commitItem"
    /\ items' = With(items, reqs[q].item, reqs[q].row)
    /\ Answer(q)
    /\ UNCHANGED <<now, accounts, selling, orders, minted>>

MayEdit(u, i) == /\ Active(orders[items[i].order])
                 /\ u \in {items[i].user, Root}

PatchItem(q) ==
    /\ "patchItem" \in Routes
    /\ \E u \in accounts, i \in DOMAIN items, c \in Contents :
         /\ MayEdit(u, i)
         /\ Receive(q, [pc |-> "updateItem", item |-> i, actor |-> u,
                        content |-> c])
    /\ UNCHANGED <<now, tables, minted>>

\* An UPDATE of one item: nothing when the item is gone, an error when the
\* actor is.
Updatable(i, actor) == i \in DOMAIN items /\ actor \in accounts

UpdateItem(q) ==
    /\ reqs[q].pc = "updateItem"
    /\ ~ItemLocked(reqs[q].item)
    /\ LET r == reqs[q] IN
         \/ /\ Updatable(r.item, r.actor)
            /\ items' = [items EXCEPT ![r.item].content = r.content]
         \/ /\ ~Updatable(r.item, r.actor)
            /\ UNCHANGED items
    /\ Answer(q)
    /\ UNCHANGED <<now, accounts, selling, orders, minted>>

RemoveItem(q) ==
    /\ "deleteItem" \in Routes
    /\ \E u \in accounts, i \in DOMAIN items :
         /\ MayEdit(u, i)
         /\ Receive(q, [pc |-> "deleteItem", item |-> i])
    /\ UNCHANGED <<now, tables, minted>>

DeleteItem(q) ==
    /\ reqs[q].pc = "deleteItem"
    /\ ~ItemLocked(reqs[q].item)
    /\ items' = Without(items, {reqs[q].item})
    /\ Answer(q)
    /\ UNCHANGED <<now, accounts, selling, orders, minted>>

\* Whose word counts: the deadline does not apply to the tick.
MayTick(u, i) == LET order == orders[items[i].order]
                 IN  u \in {Root, items[i].user, order.creator,
                            order.holder["money_collector"]}

SetItemPaid(q) ==
    /\ "setItemPaid" \in Routes
    /\ \E u \in accounts, i \in DOMAIN items, paid \in BOOLEAN :
         /\ MayTick(u, i)
         /\ Receive(q, [pc |-> "setPaid", item |-> i, actor |-> u,
                        paid |-> paid])
    /\ UNCHANGED <<now, tables, minted>>

SetOrderItemPaid(q) ==
    /\ reqs[q].pc = "setPaid"
    /\ ~ItemLocked(reqs[q].item)
    /\ LET r == reqs[q] IN
         \/ /\ Updatable(r.item, r.actor)
            /\ items' = [items EXCEPT ![r.item].paid = r.paid]
         \/ /\ ~Updatable(r.item, r.actor)
            /\ UNCHANGED items
    /\ Answer(q)
    /\ UNCHANGED <<now, accounts, selling, orders, minted>>

-----------------------------------------------------------------------------
(* Deleting an account: one transaction, whose statements see one time but *)
(* each its own state of the tables.                                       *)

Expired(i, stamp) == orders[items[i].order].deadline <= stamp
\* Slip: the statements forget whose items they are about.
OwnedByAnybody(u) == DOMAIN items
OwnedBy(u) == {i \in DOMAIN items : items[i].user = u}

\* The handler, and the UPDATE that reassigns the items in expired orders.
ForgetUser(q) ==
    /\ "deleteUser" \in Routes
    /\ \E u \in accounts \ {Root} :
         /\ \A i \in OwnedBy(u) : Expired(i, now) => ~ItemLocked(i)
         /\ Receive(q, [pc |-> "removeItems", user |-> u, stamp |-> now,
                        reassigned |-> {i \in OwnedBy(u) : Expired(i, now)}])
    /\ UNCHANGED <<now, tables, minted>>

\* The DELETE of the items in active orders.
RemoveItems(q) ==
    /\ reqs[q].pc = "removeItems"
    /\ LET r == reqs[q]
           active == {i \in OwnedBy(r.user) \ r.reassigned : ~Expired(i, r.stamp)}
       IN  /\ \A i \in active : ~ItemLocked(i)
           /\ reqs' = [reqs EXCEPT ![q] =
                         [pc |-> "deleteUser", user |-> r.user,
                          reassigned |-> r.reassigned, removed |-> active]]
    /\ UNCHANGED <<now, tables, minted>>

\* Slip: the jobs pass to the placeholder like the order.
OrdersHandedOver(u) ==
    [o \in DOMAIN orders |->
       [orders[o] EXCEPT
          !.creator = IF @ = u THEN Deleted ELSE @,
          !.holder  = [j \in Jobs |-> IF @[j] = u THEN Deleted ELSE @[j]]]]

\* What the orders and the items become when an account goes: creator and
\* owner pass to the placeholder (by the UPDATEs or ON DELETE SET DEFAULT), a
\* job becomes vacant (ON DELETE SET NULL).
OrdersWithout(u) ==
    [o \in DOMAIN orders |->
       [orders[o] EXCEPT
          !.creator = IF @ = u THEN Deleted ELSE @,
          !.holder  = [j \in Jobs |-> IF @[j] = u THEN Nobody ELSE @[j]]]]
\* Slip: user_id without ON DELETE SET DEFAULT, and no reassignment.
ItemsKeepingOwner(u, removed) == Without(items, removed)
ItemsWithout(u, removed) ==
    [i \in DOMAIN items \ removed |->
       [items[i] EXCEPT !.user = IF @ = u THEN Deleted ELSE @]]

\* The UPDATE of the created orders, the DELETE of the account and the COMMIT.
\* A second deletion of the same account finds no row and rolls back.
DeleteUser(q) ==
    /\ reqs[q].pc = "deleteUser"
    /\ LET u == reqs[q].user IN
         \/ /\ u \in accounts /\ ~UserShared(u)
            /\ accounts' = accounts \ {u}
            /\ orders' = OrdersWithout(u)
            /\ items' = ItemsWithout(u, reqs[q].removed)
         \/ /\ u \notin accounts
            /\ UNCHANGED <<accounts, orders, items>>
    /\ Answer(q)
    /\ UNCHANGED <<now, selling, minted>>

-----------------------------------------------------------------------------
(* The steps no request slot makes. *)

\* Slip: due only after the deadline.
DueAfter == {o \in DOMAIN orders : /\ ~orders[o].jobsDrawn
                                   /\ orders[o].deadline < now
                                   /\ ~OrderShared(o)}

\* The draw loop's one statement: SKIP LOCKED passes over an order an
\* uncommitted item refers to.
Due == {o \in DOMAIN orders : /\ ~orders[o].jobsDrawn
                              /\ orders[o].deadline <= now
                              /\ ~OrderShared(o)}
People(o) == IF \E j \in Jobs : orders[o].holder[j] = Nobody
             THEN {items[i].user : i \in ItemsOf(o)} \ {Deleted}
             ELSE {}
Picks(o) == IF People(o) = {} THEN {Nobody} ELSE People(o)

\* Slips: no coalesce, so a job somebody took is drawn for as well; the draw is
\* not recorded.
DrawnOverTaken(row, picked) ==
    [row EXCEPT !.jobsDrawn = TRUE,
                !.drawn  = [j \in Jobs |-> picked # Nobody],
                !.holder = [j \in Jobs |-> picked]]
DrawnUnrecorded(row, picked) ==
    [row EXCEPT !.drawn  = [j \in Jobs |-> row.holder[j] = Nobody /\ picked # Nobody],
                !.holder = [j \in Jobs |-> IF @[j] = Nobody THEN picked ELSE @[j]]]

Drawn(row, picked) ==
    [row EXCEPT !.jobsDrawn = TRUE,
                !.drawn  = [j \in Jobs |-> row.holder[j] = Nobody /\ picked # Nobody],
                !.holder = [j \in Jobs |-> IF @[j] = Nobody THEN picked ELSE @[j]]]

Draw ==
    /\ Due # {}
    /\ \E picked \in [Due -> Holders] :
         /\ \A o \in Due : picked[o] \in Picks(o)
         /\ orders' = [o \in DOMAIN orders |->
                         IF o \in Due THEN Drawn(orders[o], picked[o])
                                      ELSE orders[o]]
    /\ UNCHANGED <<now, accounts, selling, items, minted, reqs>>

\* The first step of the cleanup verb; the others are not about orders.
Cleanup ==
    /\ "cleanup" \in Routes
    /\ LET old == {o \in DOMAIN orders : orders[o].deadline < now - Retention}
       IN  /\ old # {} /\ \A o \in old : Deletable(o)
           /\ DropOrders(old)
    /\ UNCHANGED <<now, accounts, selling, minted, reqs>>

\* SoftDeleteRestaurant: one UPDATE, unless an order refers to it.
RemoveRestaurant ==
    /\ "removeRestaurant" \in Routes
    /\ \E r \in selling :
         /\ \A o \in DOMAIN orders : orders[o].restaurant # r
         /\ selling' = selling \ {r}
    /\ UNCHANGED <<now, accounts, orders, items, minted, reqs>>

Tick == /\ now < MaxTime
        /\ now' = now + 1
        /\ UNCHANGED <<tables, minted, reqs>>

\* The request's context ends, a statement fails or the server stops: the
\* open transaction rolls back.  A crash is this for every slot.
Abort(q) == /\ reqs[q] # Idle
            /\ Answer(q)
            /\ UNCHANGED <<now, tables, minted>>

-----------------------------------------------------------------------------
Init == /\ now = 0
        /\ accounts = Users
        /\ selling = Restaurants
        /\ orders = [o \in {} |-> o]
        /\ items = [i \in {} |-> i]
        /\ minted = {}
        /\ reqs = [q \in Requests |-> Idle]

\* The statements of a request already received.
Proceed(q) ==
    \/ InsertOrder(q) \/ UpdateOrder(q) \/ DeleteOrder(q)
    \/ CheckItem(q) \/ InsertItem(q) \/ CommitItem(q)
    \/ UpdateItem(q) \/ DeleteItem(q) \/ SetOrderItemPaid(q)
    \/ RemoveItems(q) \/ DeleteUser(q)

Start(q) ==
    \/ Create(q) \/ Patching(q) \/ Claim(q) \/ Release(q) \/ Remove(q)
    \/ AddItem(q) \/ PatchItem(q) \/ RemoveItem(q) \/ SetItemPaid(q)
    \/ ForgetUser(q)

Next ==
    \/ \E q \in Requests : Start(q) \/ Proceed(q) \/ Abort(q)
    \/ Draw \/ Cleanup \/ RemoveRestaurant \/ Tick

Spec == Init /\ [][Next]_vars

\* The server runs the draw every fifteen seconds and skips what is locked, so
\* weak fairness is all the draw has; the statements of a request wait in
\* PostgreSQL's queue for a row lock, which is strong fairness.  Nobody has to
\* send a request, and the clock may stand still.
Fairness == WF_vars(Draw) /\ \A q \in Requests : SF_vars(Proceed(q))
FairSpec == Spec /\ Fairness

-----------------------------------------------------------------------------
(* Properties. *)

Request ==
    {Idle}
    \cup [pc : {"insertOrder"}, order : Orders, row : OrderRow]
    \cup [pc : {"updateOrder"}, route : {"patch", "claim", "release"},
          order : Orders, actor : Users, set : Patch]
    \cup [pc : {"deleteOrder"}, order : Orders]
    \cup [pc : {"checkItem", "insertItem", "commitItem"}, item : Items, row : ItemRow]
    \cup [pc : {"updateItem"}, item : Items, actor : Users, content : Contents]
    \cup [pc : {"deleteItem"}, item : Items]
    \cup [pc : {"setPaid"}, item : Items, actor : Users, paid : BOOLEAN]
    \cup [pc : {"removeItems"}, user : Users \ {Root}, stamp : Nat,
          reassigned : SUBSET Items]
    \cup [pc : {"deleteUser"}, user : Users \ {Root},
          reassigned : SUBSET Items, removed : SUBSET Items]

\* Every column and every request slot holds a value of its type.
TypeOK ==
    /\ now \in Nat
    /\ accounts \subseteq Users /\ Root \in accounts
    /\ selling \subseteq Restaurants
    /\ minted \subseteq Orders \cup Items
    /\ DOMAIN orders \subseteq Orders /\ orders \in [DOMAIN orders -> OrderRow]
    /\ DOMAIN items \subseteq Items /\ items \in [DOMAIN items -> ItemRow]
    /\ reqs \in [Requests -> Request]

\* The rows an uncommitted item refers to stay: deleting them waits for it.
\* With TypeOK and NoDangling this is inductive.
SharedRowsStay ==
    \A q \in Requests : reqs[q].pc = "commitItem" =>
        /\ reqs[q].row.order \in DOMAIN orders
        /\ reqs[q].row.user \in accounts

\* No row names an account that is gone or an order that is gone, whatever was
\* in flight when it went: the foreign keys of migrations 7 and 9 and the
\* reassignments of DeleteAccount cover every reference.
NoDangling ==
    /\ \A o \in DOMAIN orders :
         /\ orders[o].creator \in accounts \cup {Deleted}
         /\ \A j \in Jobs : orders[o].holder[j] \in accounts \cup {Nobody}
    /\ \A i \in DOMAIN items : /\ items[i].order \in DOMAIN orders
                              /\ items[i].user \in accounts \cup {Deleted}

\* F5.3 under concurrent patches, each valid against the row it read: one moves
\* the deadline and the other the fulfilment time, and only the CHECK sees both.
DeadlineBeforeFulfilment == \A o \in DOMAIN orders : DeadlineFirst(orders[o])

\* The draw's flags tell of a draw: none is set before it, and a flag set with
\* the job vacant means the person drawn has gone (listEntry masks it).
NoFlagBeforeDraw ==
    \A o \in DOMAIN orders : ~orders[o].jobsDrawn =>
        \A j \in Jobs : ~orders[o].drawn[j]

Survives(o) == o \in DOMAIN orders /\ o \in DOMAIN orders'

\* F5.10a for every step that marks an order drawn: its deadline has passed, a
\* job somebody took stays theirs, and the empty jobs go to one living account
\* with a committed item in the order, or to nobody when there is none.
DrawStep ==
    \A o \in DOMAIN orders :
      Survives(o) /\ ~orders[o].jobsDrawn /\ orders'[o].jobsDrawn =>
        LET before == orders[o].holder
            after  == orders'[o].holder
            empty  == {j \in Jobs : before[j] = Nobody}
            living == {u \in accounts : \E i \in ItemsOf(o) : items[i].user = u}
        IN  /\ orders[o].deadline <= now
            /\ \A j \in Jobs \ empty : after[j] = before[j]
            /\ \E p \in living \cup {Nobody} : /\ \A j \in empty : after[j] = p
                                             /\ p = Nobody => living = {}
            /\ \A j \in Jobs : orders'[o].drawn[j] = (j \in empty /\ after[j] # Nobody)
DrawOutcome == [][DrawStep]_vars

\* A life of an order: drawn at most once and never undrawn, its restaurant
\* fixed while it holds an item (F5.8), its creator only ever replaced by the
\* placeholder, together with the account, and its identifier never used again.
OrderStep ==
    /\ \A o \in DOMAIN orders : Survives(o) =>
         /\ orders[o].jobsDrawn => /\ orders'[o].jobsDrawn
                                   /\ orders'[o].drawn = orders[o].drawn
         /\ ItemsOf(o) # {} => orders'[o].restaurant = orders[o].restaurant
         /\ orders'[o].creator # orders[o].creator =>
              /\ orders'[o].creator = Deleted
              /\ orders[o].creator \in accounts \ accounts'
    /\ \A o \in DOMAIN orders' \ DOMAIN orders : o \in minted
OrderHistory == [][OrderStep]_vars

\* A life of an item: it keeps its order and its dish, a step changes one of
\* its owner, its content and its tick, the owner only to the placeholder and
\* together with the account, and it disappears only with its order, with its
\* owner's account or by its own deletion.
ItemStep ==
    /\ \A i \in DOMAIN items \cap DOMAIN items' :
         LET was == items[i]
             is  == items'[i]
         IN  /\ \/ is.user = was.user
                \/ is.user = Deleted /\ was.user \in accounts \ accounts'
             /\ \/ is = [was EXCEPT !.user = is.user]
                \/ is = [was EXCEPT !.content = is.content]
                \/ is = [was EXCEPT !.paid = is.paid]
    /\ \A i \in DOMAIN items \ DOMAIN items' :
         \/ items[i].order \notin DOMAIN orders'
         \/ items[i].user \in accounts \ accounts'
         \/ \E q \in Requests : reqs[q] = [pc |-> "deleteItem", item |-> i]
ItemHistory == [][ItemStep]_vars

\* F6.6, "after the deadline, all order items become read-only for everyone":
\* an order past its deadline that no request begun before it is still about
\* stays past it.  From then on the order changes by the draw, by the tick of
\* an item and by what an account deletion takes along, and by nothing else.
\* (The requests that are still under way do change it: requireActive asks the
\* row and the clock some statements before the write.)
About(q, o) ==
    \/ reqs[q].pc = "updateOrder" /\ reqs[q].order = o
    \/ /\ reqs[q].pc \in {"checkItem", "insertItem", "commitItem"}
       /\ reqs[q].row.order = o
    \/ /\ reqs[q].pc \in {"updateItem", "deleteItem"}
       /\ reqs[q].item \in ItemsOf(o)
Settled(o) == /\ o \in DOMAIN orders /\ orders[o].deadline <= now
              /\ \A q \in Requests : ~About(q, o)
SettledStep ==
    \A o \in DOMAIN orders : Settled(o) /\ Survives(o) =>
      LET was  == orders[o]
          is   == orders'[o]
          kept == ItemsOf(o) \cap ItemsOf(o)'
      IN  /\ Settled(o)'
          /\ is = [was EXCEPT !.creator = is.creator, !.holder = is.holder,
                              !.drawn = is.drawn, !.jobsDrawn = is.jobsDrawn]
          /\ is.holder # was.holder =>
               is.jobsDrawn # was.jobsDrawn \/ accounts' # accounts
          /\ ItemsOf(o)' # ItemsOf(o) => accounts' # accounts
          /\ ItemsOf(o)' \subseteq ItemsOf(o)
          /\ \A i \in kept : items'[i].content = items[i].content
SettledStays == [][SettledStep]_vars

\* F5.10a: an order whose deadline has passed is drawn, unless it goes or a
\* patch that was on its way reopens it.  SKIP LOCKED cannot postpone it for
\* ever: after the deadline nothing new takes a lock on the order.
Overdue(o) == o \in DOMAIN orders /\ ~orders[o].jobsDrawn /\ orders[o].deadline <= now
DueIsDrawn == \A o \in Orders : Overdue(o) ~> ~Overdue(o)

\* F5.8 and 20.14: the food in an order is sold by the order's restaurant.
\* Holds as long as no patch moves an order; an item whose transaction has
\* checked the restaurant and not committed is invisible to the UPDATE that
\* moves it.
FoodOfRestaurant ==
    \A i \in DOMAIN items :
        RestaurantOf[items[i].menuItem] = orders[items[i].order].restaurant

\* F2.6: what a deleted account ordered in an order still open is deleted, so
\* the placeholder owns items in closed orders only.  An item committed after
\* the DELETE of the items passes to the placeholder by the foreign key.
PlaceholderOnlyInClosed ==
    \A i \in DOMAIN items :
        items[i].user = Deleted => ~Active(orders[items[i].order])

\* "It only fills a vacancy": a job passes from one person to another only by
\* the creator's patch, never by a claim.  A claim decides on the row it read.
KeepJobStep ==
    \A o \in DOMAIN orders, j \in Jobs :
      Survives(o) /\ orders[o].holder[j] # Nobody =>
        \/ orders'[o].holder[j] \in {orders[o].holder[j], Nobody}
        \/ \E q \in Requests : /\ reqs[q].pc = "updateOrder"
                              /\ reqs[q].route = "patch" /\ reqs'[q] = Idle
TakenJobIsKept == [][KeepJobStep]_vars

\* Every request ends: no statement waits for a row lock for ever.
RequestsEnd == \A q \in Requests : reqs[q] # Idle ~> reqs[q] = Idle
=============================================================================
