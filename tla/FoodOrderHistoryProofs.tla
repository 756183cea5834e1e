----------------------- MODULE FoodOrderHistoryProofs -----------------------
(***************************************************************************)
(* What a step of FoodOrder may do to an order that was there before it,   *)
(* for every value of the constants.                                       *)
(***************************************************************************)
EXTENDS FoodOrderProofs

\* An order on its way has an identifier of its own: not in the table, and not
\* that of another on its way.  Without it an INSERT could undo a draw.
Fresh == /\ DOMAIN orders \subseteq minted
         /\ \A q \in Requests : reqs[q].pc = "insertOrder" =>
              /\ reqs[q].order \in minted \ DOMAIN orders
              /\ \A p \in Requests \ {q} : reqs[p].pc = "insertOrder" =>
                   reqs[p].order # reqs[q].order

\* A step that puts no order on its way and inserts none.
LEMMA OthersFresh ==
    ASSUME Fresh, minted \subseteq minted', DOMAIN orders' \subseteq DOMAIN orders,
           \A p \in Requests : reqs'[p].pc = "insertOrder" => reqs'[p] = reqs[p]
    PROVE  Fresh'
  BY DEF Fresh

LEMMA StartFresh ==
    ASSUME TypeOK, Fresh, NEW q \in Requests, Start(q)
    PROVE  Fresh'
<1>1. UNCHANGED orders
  BY DEF Start, Create, Patching, Claim, Release, Remove, AddItem, PatchItem,
         RemoveItem, SetItemPaid, ForgetUser, tables
<1>2. CASE Create(q)
  <2>1. PICK u \in accounts, draft \in Drafts, o \in Orders \ minted :
           /\ minted' = minted \cup {o}
           /\ Receive(q, [pc |-> "insertOrder", order |-> o, row |-> NewRow(u, draft)])
    BY <1>2 DEF Create
  <2>2. /\ reqs'[q].order = o
        /\ \A p \in Requests \ {q} : reqs'[p] = reqs[p]
    BY <2>1 DEF Receive, TypeOK
  <2>. QED  BY <1>1, <2>1, <2>2 DEF Fresh
<1>3. CASE ~Create(q)
  <2>1. \A p \in Requests : reqs'[p].pc = "insertOrder" => reqs'[p] = reqs[p]
    BY <1>3 DEF TypeOK, Start, Patching, Claim, Release, Remove, AddItem,
                PatchItem, RemoveItem, SetItemPaid, ForgetUser, Receive
  <2>2. minted \subseteq minted'
    BY <1>3 DEF Start, Patching, Claim, Release, Remove, AddItem,
                PatchItem, RemoveItem, SetItemPaid, ForgetUser
  <2>. QED  BY <1>1, <2>1, <2>2, OthersFresh
<1>. QED  BY <1>2, <1>3

LEMMA ProceedFresh ==
    ASSUME TypeOK, Fresh, NEW q \in Requests, Proceed(q)
    PROVE  Fresh'
<1>1. minted' = minted
  BY DEF Proceed, InsertOrder, UpdateOrder, DeleteOrder, CheckItem, InsertItem,
         CommitItem, UpdateItem, DeleteItem, SetOrderItemPaid, RemoveItems, DeleteUser
<1>2. CASE InsertOrder(q)
  <2>1. DOMAIN orders' \subseteq DOMAIN orders \cup {reqs[q].order}
    BY <1>2 DEF InsertOrder, With
  <2>2. /\ reqs'[q].pc # "insertOrder"
        /\ \A p \in Requests \ {q} : reqs'[p] = reqs[p]
    BY <1>2 DEF InsertOrder, Answer, Idle, TypeOK
  <2>. QED  BY <1>1, <1>2, <2>1, <2>2 DEF InsertOrder, Fresh
<1>3. CASE ~InsertOrder(q)
  <2>1. DOMAIN orders' \subseteq DOMAIN orders
    BY <1>3 DEF Proceed, UpdateOrder, DeleteOrder, DropOrders, Without, Restrict,
                CheckItem, InsertItem, CommitItem, UpdateItem, DeleteItem,
                SetOrderItemPaid, RemoveItems, DeleteUser, OrdersWithout, tables
  <2>. QED  BY <1>1, <2>1, ProceedKeepsInserts, OthersFresh
<1>. QED  BY <1>2, <1>3

LEMMA StepFresh == TypeOK /\ Fresh /\ [Next]_vars => Fresh'
<1> SUFFICES ASSUME TypeOK, Fresh, [Next]_vars PROVE Fresh'
  OBVIOUS
<1>1. ASSUME NEW q \in Requests, Abort(q) PROVE Fresh'
  BY <1>1, OthersFresh DEF Abort, Answer, Idle, tables, TypeOK
<1>2. CASE Draw \/ Cleanup \/ RemoveRestaurant \/ Tick \/ UNCHANGED vars
  BY <1>2, OthersFresh DEF Draw, Cleanup, DropOrders, Without, Restrict,
                           RemoveRestaurant, Tick, tables, vars
<1>. QED  BY <1>1, <1>2, StartFresh, ProceedFresh DEF Next

-----------------------------------------------------------------------------
\* An UPDATE of an order keeps its flags and its creator, and its restaurant
\* while the order holds an item.
LEMMA UpdateKeeps ==
    ASSUME TypeOK, NEW q \in Requests, UpdateOrder(q)
    PROVE  OrderStep
<1>1. CASE UNCHANGED orders
  BY <1>1 DEF OrderStep, Survives
<1>2. CASE orders' # orders
  <2> DEFINE r == reqs[q]
             new == Changed(orders[r.order], r.set)
  <2>1. Accepts(r.order, r.actor, r.set) /\ orders' = [orders EXCEPT ![r.order] = new]
    BY <1>2 DEF UpdateOrder
  <2>2. r.set \in Patch /\ r.order \in DOMAIN orders /\ orders[r.order] \in OrderRow
    <3>1. r \in Request
      BY DEF TypeOK
    <3>. QED  BY <2>1, <3>1, RequestShape DEF UpdateOrder, Accepts, TypeOK
  <2>3. /\ new.creator = orders[r.order].creator
        /\ new.drawn = orders[r.order].drawn
        /\ new.jobsDrawn = orders[r.order].jobsDrawn
    BY <2>2, ChangedTyped
  <2>4. ItemsOf(r.order) # {} => new.restaurant = orders[r.order].restaurant
    BY <2>1, <2>2 DEF Accepts, Changed, New, OrderRow
  <2> HIDE DEF new
  <2>5. \A o \in DOMAIN orders : orders'[o] = IF o = r.order THEN new ELSE orders[o]
    BY <2>1 DEF TypeOK
  <2>6. DOMAIN orders' = DOMAIN orders
    BY <2>1
  <2> HIDE DEF r
  <2>. QED  BY <2>3, <2>4, <2>5, <2>6 DEF OrderStep, Survives
<1>. QED  BY <1>1, <1>2

\* The end of an account changes creators and jobs, the creators to the
\* placeholder.
LEMMA DeletionKeeps ==
    ASSUME TypeOK, NEW q \in Requests, DeleteUser(q)
    PROVE  OrderStep
<1>1. CASE UNCHANGED orders
  BY <1>1 DEF OrderStep, Survives
<1>2. CASE orders' # orders
  <2>1. /\ orders' = OrdersWithout(reqs[q].user)
        /\ accounts' = accounts \ {reqs[q].user} /\ reqs[q].user \in accounts
    BY <1>2 DEF DeleteUser
  <2>2. \A o \in DOMAIN orders : orders[o] \in OrderRow
    BY DEF TypeOK
  <2>3. /\ DOMAIN orders' = DOMAIN orders
        /\ \A o \in DOMAIN orders :
             /\ orders'[o].restaurant = orders[o].restaurant
             /\ orders'[o].drawn = orders[o].drawn
             /\ orders'[o].jobsDrawn = orders[o].jobsDrawn
             /\ orders'[o].creator = IF orders[o].creator = reqs[q].user
                                     THEN Deleted ELSE orders[o].creator
    BY <2>1, <2>2 DEF OrdersWithout, OrderRow
  <2>. QED  BY <2>1, <2>3 DEF OrderStep, Survives
<1>. QED  BY <1>1, <1>2

\* The draw leaves alone what is drawn, and changes jobs and flags only.
LEMMA DrawKeeps ==
    ASSUME TypeOK, Draw
    PROVE  OrderStep
<1>1. PICK picked \in [Due -> Holders] :
         orders' = [o \in DOMAIN orders |-> IF o \in Due
                                           THEN Drawn(orders[o], picked[o])
                                           ELSE orders[o]]
  BY DEF Draw
<1>2. \A o \in DOMAIN orders :
         /\ orders[o].jobsDrawn => orders'[o] = orders[o]
         /\ orders'[o].restaurant = orders[o].restaurant
         /\ orders'[o].creator = orders[o].creator
  <2> TAKE o \in DOMAIN orders
  <2>1. orders[o] \in OrderRow
    BY DEF TypeOK
  <2>2. CASE o \in Due
    BY <1>1, <2>1, <2>2 DEF Due, Drawn, OrderRow
  <2>3. CASE o \notin Due
    BY <1>1, <2>3
  <2>. QED  BY <2>2, <2>3
<1>3. DOMAIN orders' = DOMAIN orders
  BY <1>1
<1>. QED  BY <1>2, <1>3 DEF OrderStep, Survives

\* Steps that change no row of an order that stays, and add none unminted.
LEMMA OthersKeep ==
    ASSUME \A o \in DOMAIN orders : o \in DOMAIN orders' => orders'[o] = orders[o],
           DOMAIN orders' \ DOMAIN orders \subseteq minted
    PROVE  OrderStep
  BY DEF OrderStep, Survives

LEMMA StepKeeps == TypeOK /\ Fresh /\ [Next]_vars => [OrderStep]_vars
<1> SUFFICES ASSUME TypeOK, Fresh, Next PROVE OrderStep
  OBVIOUS
<1>1. ASSUME NEW q \in Requests, InsertOrder(q) PROVE OrderStep
  <2>1. reqs[q].order \in minted \ DOMAIN orders
    BY <1>1 DEF InsertOrder, Fresh
  <2>. QED  BY <1>1, <2>1, OthersKeep DEF InsertOrder, With
<1>2. ASSUME NEW q \in Requests, DeleteOrder(q) PROVE OrderStep
  BY <1>2, OthersKeep DEF DeleteOrder, DropOrders, Without, Restrict
<1>3. ASSUME NEW q \in Requests,
             \/ CheckItem(q) \/ InsertItem(q) \/ CommitItem(q) \/ UpdateItem(q)
             \/ DeleteItem(q) \/ SetOrderItemPaid(q) \/ RemoveItems(q)
             \/ Start(q) \/ Abort(q)
      PROVE  OrderStep
  <2>1. UNCHANGED orders
    BY <1>3 DEF CheckItem, InsertItem, CommitItem, UpdateItem, DeleteItem,
                SetOrderItemPaid, RemoveItems, Abort, Start, Create, Patching,
                Claim, Release, Remove, AddItem, PatchItem, RemoveItem,
                SetItemPaid, ForgetUser, tables
  <2>. QED  BY <2>1, OthersKeep
<1>4. CASE Cleanup
  BY <1>4, OthersKeep DEF Cleanup, DropOrders, Without, Restrict
<1>5. CASE RemoveRestaurant \/ Tick
  BY <1>5, OthersKeep DEF RemoveRestaurant, Tick, tables
<1>. QED  BY <1>1, <1>2, <1>3, <1>4, <1>5, UpdateKeeps, DeletionKeeps, DrawKeeps
          DEF Next, Proceed

\* An order is drawn once and stays drawn with the same flags, keeps its
\* restaurant while it holds an item, loses its creator only to the placeholder
\* with the account, and its identifier names no other order.
THEOREM OrdersKeepHistory == Spec => OrderHistory
<1>1. Init => Fresh
  BY DEF Init, Fresh, Idle
<1>. QED  BY <1>1, InitTyped, StepTyped, StepFresh, StepKeeps, PTL
          DEF Spec, OrderHistory
=============================================================================
