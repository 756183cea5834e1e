------------------------ MODULE FoodOrderItemProofs ------------------------
(***************************************************************************)
(* What a step of FoodOrder may do to an item and to an order past its     *)
(* deadline, what the draw leaves, and which restaurant sells the food,    *)
(* for every value of the constants.                                       *)
(***************************************************************************)
EXTENDS FoodOrderHistoryProofs

OnItsWay(r) == r.pc \in {"checkItem", "insertItem", "commitItem"}

\* An item on its way has an identifier of its own, which no account deletion has
\* counted among the items it removes; and what a deletion removes is its account's,
\* as long as no other deletion has been faster.
FreshItems ==
    /\ DOMAIN items \subseteq minted
    /\ \A q \in Requests : OnItsWay(reqs[q]) =>
         /\ reqs[q].item \in minted \ DOMAIN items
         /\ \A p \in Requests \ {q} : OnItsWay(reqs[p]) => reqs[p].item # reqs[q].item
         /\ \A p \in Requests : reqs[p].pc = "deleteUser" => reqs[q].item \notin reqs[p].removed
    /\ \A p \in Requests : reqs[p].pc = "deleteUser" =>
         /\ reqs[p].removed \subseteq minted
         /\ reqs[p].user \in accounts =>
              \A i \in reqs[p].removed \cap DOMAIN items : items[i].user = reqs[p].user

\* The food in an order is its restaurant's, and so is the food on its way into one from
\* the check on: where no request moves an order, and no order comes under an
\* identifier that an item on its way refers to.
FoodSold ==
    /\ FoodOfRestaurant
    /\ \A q \in Requests : OnItsWay(reqs[q]) =>
         /\ reqs[q].row.order \in minted
         /\ \A p \in Requests : reqs[p].pc = "insertOrder" => reqs[p].order # reqs[q].row.order
    /\ \A q \in Requests :
         reqs[q].pc \in {"insertItem", "commitItem"} /\ reqs[q].row.order \in DOMAIN orders =>
           RestaurantOf[reqs[q].row.menuItem] = orders[reqs[q].row.order].restaurant
    /\ \A q \in Requests : reqs[q].pc = "updateOrder" => reqs[q].set.restaurant = Same

-----------------------------------------------------------------------------
(* What a step does to the request slots and to the table of items. *)

\* A statement of a request leaves the others alone; its own request ends, or goes on
\* with the same item, or from the first to the second part of a deletion.
LEMMA ProceedSlots ==
    ASSUME TypeOK, NEW q \in Requests, Proceed(q)
    PROVE  /\ \A p \in Requests \ {q} : reqs'[p] = reqs[p]
           /\ \/ reqs'[q] = Idle
              \/ /\ CheckItem(q) \/ InsertItem(q)
                 /\ OnItsWay(reqs[q]) /\ OnItsWay(reqs'[q])
                 /\ reqs'[q].item = reqs[q].item /\ reqs'[q].row = reqs[q].row
              \/ RemoveItems(q) /\ reqs'[q].pc = "deleteUser"
<1>1. reqs[q] \in Request /\ reqs \in [Requests -> Request]
  BY DEF TypeOK
<1>2. CASE Answer(q)
  BY <1>1, <1>2 DEF Answer
<1>3. CASE CheckItem(q) /\ Continue(q, "insertItem")
  BY <1>1, <1>3 DEF CheckItem, Continue, OnItsWay, Request, Idle
<1>4. CASE InsertItem(q) /\ Continue(q, "commitItem")
  BY <1>1, <1>4 DEF InsertItem, Continue, OnItsWay, Request, Idle
<1>5. CASE RemoveItems(q)
  BY <1>1, <1>5 DEF RemoveItems
<1>. QED
  BY <1>2, <1>3, <1>4, <1>5
  DEF Proceed, InsertOrder, UpdateOrder, DeleteOrder, CheckItem, InsertItem, CommitItem,
      UpdateItem, DeleteItem, SetOrderItemPaid, DeleteUser

\* A request received leaves the others and the tables alone.
LEMMA StartSlots ==
    ASSUME TypeOK, NEW q \in Requests, Start(q)
    PROVE  /\ UNCHANGED <<now, accounts, selling, orders, items>>
           /\ \A p \in Requests \ {q} : reqs'[p] = reqs[p]
           /\ OnItsWay(reqs'[q]) => AddItem(q)
           /\ reqs'[q].pc # "deleteUser"
           /\ minted \subseteq minted'
<1>1. UNCHANGED <<now, accounts, selling, orders, items>>
  BY DEF Start, Create, Patching, Claim, Release, Remove, AddItem, PatchItem,
         RemoveItem, SetItemPaid, ForgetUser, tables
<1>2. minted \subseteq minted'
  BY DEF Start, Create, Patching, Claim, Release, Remove, AddItem, PatchItem,
         RemoveItem, SetItemPaid, ForgetUser
<1>3. reqs' # reqs => \A p \in Requests \ {q} : reqs'[p] = reqs[p]
  BY DEF TypeOK, Start, Create, Patching, Claim, Release, Remove, AddItem, PatchItem,
         RemoveItem, SetItemPaid, ForgetUser, Receive
<1>4. (OnItsWay(reqs'[q]) => AddItem(q)) /\ reqs'[q].pc # "deleteUser"
  BY DEF TypeOK, Start, Create, Patching, Claim, Release, Remove, AddItem, PatchItem,
         RemoveItem, SetItemPaid, ForgetUser, Receive, OnItsWay
<1>. QED  BY <1>1, <1>2, <1>3, <1>4

\* The rows that one of the changes of items leaves.
LEMMA ItemChanged ==
    ASSUME TypeOK, NEW q \in Requests, UpdateItem(q) \/ SetOrderItemPaid(q)
    PROVE  /\ UNCHANGED <<now, accounts, selling, orders, minted>> /\ Answer(q)
           /\ DOMAIN items' = DOMAIN items
           /\ \A i \in DOMAIN items :
                /\ items'[i] # items[i] => i = reqs[q].item
                /\ items'[i].order = items[i].order /\ items'[i].user = items[i].user
                /\ items'[i].menuItem = items[i].menuItem
                /\ items'[i].content = items[i].content \/ items'[i].paid = items[i].paid
                /\ SetOrderItemPaid(q) => items'[i].content = items[i].content
<1>1. items \in [DOMAIN items -> ItemRow]
  BY DEF TypeOK
<1>2. CASE UpdateItem(q)
  BY <1>1, <1>2 DEF UpdateItem, SetOrderItemPaid, Updatable, ItemRow
<1>3. CASE SetOrderItemPaid(q)
  BY <1>1, <1>3 DEF SetOrderItemPaid, Updatable, ItemRow
<1>. QED  BY <1>2, <1>3

LEMMA ItemsDropped ==
    ASSUME NEW keys
    PROVE  /\ DOMAIN Without(items, keys) = DOMAIN items \ keys
           /\ \A i \in DOMAIN items \ keys : Without(items, keys)[i] = items[i]
  BY DEF Without, Restrict

\* A deletion that finds the account takes what it has removed, and leaves the rest.
LEMMA ItemsAbandoned ==
    ASSUME TypeOK, NEW q \in Requests, DeleteUser(q), items' # items
    PROVE  /\ reqs[q].user \in accounts /\ accounts' = accounts \ {reqs[q].user}
           /\ DOMAIN items' = DOMAIN items \ reqs[q].removed
           /\ \A i \in DOMAIN items \ reqs[q].removed :
                /\ items'[i].order = items[i].order
                /\ items'[i].menuItem = items[i].menuItem
                /\ items'[i].content = items[i].content
                /\ items'[i].paid = items[i].paid
                /\ items'[i].user = IF items[i].user = reqs[q].user THEN Deleted
                                    ELSE items[i].user
<1>1. items \in [DOMAIN items -> ItemRow]
  BY DEF TypeOK
<1>. QED  BY <1>1 DEF DeleteUser, ItemsWithout, ItemRow

-----------------------------------------------------------------------------
(* A life of an item. *)

\* A step that mints no item, commits none and counts none among what goes.
LEMMA OthersFreshItems ==
    ASSUME FreshItems, minted \subseteq minted', accounts' \subseteq accounts,
           DOMAIN items' \subseteq DOMAIN items,
           \A i \in DOMAIN items' : \/ items'[i].user = items[i].user
                                    \/ items[i].user \notin accounts',
           \A p \in Requests : OnItsWay(reqs'[p]) =>
             OnItsWay(reqs[p]) /\ reqs'[p].item = reqs[p].item,
           \A p \in Requests : reqs'[p].pc = "deleteUser" => reqs'[p] = reqs[p]
    PROVE  FreshItems'
<1>1. DOMAIN items' \subseteq minted'
  BY DEF FreshItems
<1>2. ASSUME NEW q \in Requests, OnItsWay(reqs'[q])
      PROVE  /\ reqs'[q].item \in minted' \ DOMAIN items'
             /\ \A p \in Requests \ {q} : OnItsWay(reqs'[p]) => reqs'[p].item # reqs'[q].item
             /\ \A p \in Requests : reqs'[p].pc = "deleteUser" =>
                  reqs'[q].item \notin reqs'[p].removed
  BY <1>2 DEF FreshItems
<1>3. ASSUME NEW p \in Requests, reqs'[p].pc = "deleteUser"
      PROVE  /\ reqs'[p].removed \subseteq minted'
             /\ reqs'[p].user \in accounts' =>
                  \A i \in reqs'[p].removed \cap DOMAIN items' : items'[i].user = reqs'[p].user
  BY <1>3 DEF FreshItems
<1>. QED  BY <1>1, <1>2, <1>3 DEF FreshItems, OnItsWay

LEMMA StartFreshItems ==
    ASSUME TypeOK, FreshItems, NEW q \in Requests, Start(q)
    PROVE  FreshItems'
<1>1. CASE AddItem(q)
  <2>1. PICK i \in Items \ minted : \E row :
           /\ minted' = minted \cup {i}
           /\ Receive(q, [pc |-> "checkItem", item |-> i, row |-> row])
    BY <1>1 DEF AddItem
  <2>2. /\ reqs'[q].item = i /\ OnItsWay(reqs'[q]) /\ reqs'[q].pc # "deleteUser"
        /\ \A p \in Requests \ {q} : reqs'[p] = reqs[p]
    BY <2>1 DEF Receive, TypeOK, OnItsWay
  <2>3. UNCHANGED <<accounts, items>>
    BY StartSlots
  <2>4. ASSUME NEW r \in Requests, OnItsWay(reqs'[r])
        PROVE  /\ reqs'[r].item \in minted' \ DOMAIN items'
               /\ \A p \in Requests \ {r} : OnItsWay(reqs'[p]) => reqs'[p].item # reqs'[r].item
               /\ \A p \in Requests : reqs'[p].pc = "deleteUser" =>
                    reqs'[r].item \notin reqs'[p].removed
    <3>1. CASE r = q
      BY <2>1, <2>2, <2>3, <3>1 DEF FreshItems
    <3>2. CASE r # q
      BY <2>1, <2>2, <2>3, <2>4, <3>2 DEF FreshItems
    <3>. QED  BY <3>1, <3>2
  <2>5. ASSUME NEW p \in Requests, reqs'[p].pc = "deleteUser"
        PROVE  /\ reqs'[p].removed \subseteq minted'
               /\ reqs'[p].user \in accounts' =>
                    \A j \in reqs'[p].removed \cap DOMAIN items' : items'[j].user = reqs'[p].user
    BY <2>1, <2>2, <2>3, <2>5 DEF FreshItems
  <2>. QED  BY <2>1, <2>3, <2>4, <2>5 DEF FreshItems, OnItsWay
<1>2. CASE ~AddItem(q)
  BY <1>2, StartSlots, OthersFreshItems
<1>. QED  BY <1>1, <1>2

LEMMA ProceedFreshItems ==
    ASSUME TypeOK, FreshItems, NEW q \in Requests, Proceed(q)
    PROVE  FreshItems'
<1>1. reqs[q] \in Request /\ reqs \in [Requests -> Request]
  BY DEF TypeOK
<1>2. minted' = minted
  BY DEF Proceed, InsertOrder, UpdateOrder, DeleteOrder, CheckItem, InsertItem,
         CommitItem, UpdateItem, DeleteItem, SetOrderItemPaid, RemoveItems, DeleteUser
<1>3. CASE CommitItem(q)
  <2>1. /\ UNCHANGED accounts /\ items' = With(items, reqs[q].item, reqs[q].row)
        /\ OnItsWay(reqs[q]) /\ reqs'[q] = Idle
        /\ \A p \in Requests \ {q} : reqs'[p] = reqs[p]
    BY <1>1, <1>3 DEF CommitItem, Answer, OnItsWay
  <2>2. /\ DOMAIN items' = DOMAIN items \cup {reqs[q].item}
        /\ \A i \in DOMAIN items : items'[i] = IF i = reqs[q].item THEN reqs[q].row ELSE items[i]
    BY <2>1 DEF With
  <2>3. reqs[q].item \in minted \ DOMAIN items
    BY <2>1 DEF FreshItems
  <2>4. ~OnItsWay(reqs'[q]) /\ reqs'[q].pc # "deleteUser"
    BY <2>1 DEF OnItsWay, Idle
  <2>5. ASSUME NEW r \in Requests, OnItsWay(reqs'[r])
        PROVE  /\ reqs'[r].item \in minted' \ DOMAIN items'
               /\ \A p \in Requests \ {r} : OnItsWay(reqs'[p]) => reqs'[p].item # reqs'[r].item
               /\ \A p \in Requests : reqs'[p].pc = "deleteUser" =>
                    reqs'[r].item \notin reqs'[p].removed
    BY <1>2, <2>1, <2>2, <2>4, <2>5 DEF FreshItems
  <2>6. ASSUME NEW p \in Requests, reqs'[p].pc = "deleteUser"
        PROVE  /\ reqs'[p].removed \subseteq minted'
               /\ reqs'[p].user \in accounts' =>
                    \A i \in reqs'[p].removed \cap DOMAIN items' : items'[i].user = reqs'[p].user
    BY <1>2, <2>1, <2>2, <2>3, <2>4, <2>6 DEF FreshItems
  <2>7. DOMAIN items' \subseteq minted'
    BY <1>2, <2>2, <2>3 DEF FreshItems
  <2>. QED  BY <2>5, <2>6, <2>7 DEF FreshItems, OnItsWay
<1>4. CASE RemoveItems(q)
  <2>1. UNCHANGED <<accounts, items>>
    BY <1>4 DEF RemoveItems, tables
  <2>2. PICK active \in SUBSET OwnedBy(reqs[q].user) :
           reqs' = [reqs EXCEPT ![q] =
                      [pc |-> "deleteUser", user |-> reqs[q].user,
                       reassigned |-> reqs[q].reassigned, removed |-> active]]
    BY <1>4 DEF RemoveItems
  <2>3. /\ reqs'[q].pc = "deleteUser" /\ reqs'[q].user = reqs[q].user
        /\ reqs'[q].removed = active /\ ~OnItsWay(reqs'[q])
        /\ \A p \in Requests \ {q} : reqs'[p] = reqs[p]
    BY <1>1, <2>2 DEF OnItsWay
  <2>4. \A i \in active : i \in DOMAIN items /\ items[i].user = reqs[q].user
    BY DEF OwnedBy
  <2>5. ASSUME NEW r \in Requests, OnItsWay(reqs'[r])
        PROVE  /\ reqs'[r].item \in minted' \ DOMAIN items'
               /\ \A p \in Requests \ {r} : OnItsWay(reqs'[p]) => reqs'[p].item # reqs'[r].item
               /\ \A p \in Requests : reqs'[p].pc = "deleteUser" =>
                    reqs'[r].item \notin reqs'[p].removed
    BY <1>2, <2>1, <2>3, <2>4, <2>5 DEF FreshItems
  <2>6. ASSUME NEW p \in Requests, reqs'[p].pc = "deleteUser"
        PROVE  /\ reqs'[p].removed \subseteq minted'
               /\ reqs'[p].user \in accounts' =>
                    \A i \in reqs'[p].removed \cap DOMAIN items' : items'[i].user = reqs'[p].user
    BY <1>2, <2>1, <2>3, <2>4, <2>6 DEF FreshItems
  <2>7. DOMAIN items' \subseteq minted'
    BY <1>2, <2>1 DEF FreshItems
  <2>. QED  BY <2>5, <2>6, <2>7 DEF FreshItems, OnItsWay
<1>5. CASE ~CommitItem(q) /\ ~RemoveItems(q)
  <2>1. /\ accounts' \subseteq accounts /\ DOMAIN items' \subseteq DOMAIN items
        /\ \A i \in DOMAIN items' : \/ items'[i].user = items[i].user
                                    \/ items[i].user \notin accounts'
    <3>1. CASE UNCHANGED <<accounts, items>>
      BY <3>1
    <3>2. CASE UpdateItem(q) \/ SetOrderItemPaid(q)
      BY <3>2, ItemChanged
    <3>3. CASE DeleteOrder(q) \/ DeleteItem(q)
      <4>1. PICK keys : items' = Without(items, keys) /\ UNCHANGED accounts
        BY <3>3 DEF DeleteOrder, DropOrders, DeleteItem
      <4>2. /\ DOMAIN items' = DOMAIN items \ keys
            /\ \A i \in DOMAIN items \ keys : items'[i] = items[i]
        BY <4>1, ItemsDropped
      <4>. QED  BY <4>1, <4>2
    <3>4. CASE DeleteUser(q) /\ items' # items
      BY <3>4, ItemsAbandoned
    <3>5. CASE DeleteUser(q) /\ items' = items
      BY <3>5 DEF DeleteUser
    <3>. QED
      BY <1>5, <3>1, <3>2, <3>3, <3>4, <3>5
      DEF Proceed, InsertOrder, UpdateOrder, CheckItem, InsertItem, tables
  <2>2. /\ \A p \in Requests : OnItsWay(reqs'[p]) =>
             OnItsWay(reqs[p]) /\ reqs'[p].item = reqs[p].item
        /\ \A p \in Requests : reqs'[p].pc = "deleteUser" => reqs'[p] = reqs[p]
    BY <1>5, ProceedSlots DEF OnItsWay, Idle
  <2>. QED  BY <1>2, <2>1, <2>2, OthersFreshItems
<1>. QED  BY <1>3, <1>4, <1>5

\* The steps of no request, and the end of one.
LEMMA AbortSlots ==
    ASSUME TypeOK, NEW q \in Requests, Abort(q)
    PROVE  /\ UNCHANGED <<now, accounts, selling, orders, items, minted>>
           /\ reqs'[q] = Idle /\ \A p \in Requests \ {q} : reqs'[p] = reqs[p]
  BY DEF Abort, Answer, tables, TypeOK

LEMMA StepFreshItems == TypeOK /\ FreshItems /\ [Next]_vars => FreshItems'
<1> SUFFICES ASSUME TypeOK, FreshItems, [Next]_vars PROVE FreshItems'
  OBVIOUS
<1>1. ASSUME NEW q \in Requests, Abort(q) PROVE FreshItems'
  BY <1>1, AbortSlots, OthersFreshItems DEF OnItsWay, Idle
<1>2. CASE Cleanup
  BY <1>2, ItemsDropped, OthersFreshItems DEF Cleanup, DropOrders
<1>3. CASE Draw \/ RemoveRestaurant \/ Tick \/ UNCHANGED vars
  <2>1. UNCHANGED <<accounts, items, minted, reqs>>
    BY <1>3 DEF Draw, RemoveRestaurant, Tick, tables, vars
  <2>. QED  BY <2>1, OthersFreshItems
<1>. QED  BY <1>1, <1>2, <1>3, StartFreshItems, ProceedFreshItems DEF Next

\* One of the owner, the content and the tick has changed, or nothing.
OneColumn(was, is) == \/ is = [was EXCEPT !.user = is.user]
                      \/ is = [was EXCEPT !.content = is.content]
                      \/ is = [was EXCEPT !.paid = is.paid]
OwnerKept(i) == \/ items'[i].user = items[i].user
                \/ items'[i].user = Deleted /\ items[i].user \in accounts \ accounts'
ItemGone(i) == \/ items[i].order \notin DOMAIN orders'
               \/ items[i].user \in accounts \ accounts'
               \/ \E q \in Requests : reqs[q] = [pc |-> "deleteItem", item |-> i]

LEMMA OneColumnOf ==
    ASSUME NEW was \in ItemRow, NEW is \in ItemRow,
           is.order = was.order, is.menuItem = was.menuItem,
           \/ is.content = was.content /\ is.paid = was.paid
           \/ is.user = was.user /\ is.paid = was.paid
           \/ is.user = was.user /\ is.content = was.content
    PROVE  OneColumn(was, is)
  BY DEF OneColumn, ItemRow

LEMMA ItemStepIs ==
    ASSUME \A i \in DOMAIN items \cap DOMAIN items' :
             OwnerKept(i) /\ OneColumn(items[i], items'[i]),
           \A i \in DOMAIN items \ DOMAIN items' : ItemGone(i)
    PROVE  ItemStep
  BY Zenon DEF ItemStep, OwnerKept, OneColumn, ItemGone

\* Steps that leave every item that stays as it was.
LEMMA ItemsSame ==
    ASSUME TypeOK,
           \A i \in DOMAIN items \cap DOMAIN items' : items'[i] = items[i],
           \A i \in DOMAIN items \ DOMAIN items' : ItemGone(i)
    PROVE  ItemStep
<1>1. ASSUME NEW i \in DOMAIN items \cap DOMAIN items'
      PROVE  OwnerKept(i) /\ OneColumn(items[i], items'[i])
  <2>1. items[i] \in ItemRow /\ items'[i] = items[i]
    BY DEF TypeOK
  <2>. QED  BY <2>1, OneColumnOf DEF OwnerKept
<1>. QED  BY <1>1, ItemStepIs

LEMMA DropKeepsItems ==
    ASSUME TypeOK, NEW gone, DropOrders(gone)
    PROVE  ItemStep
<1>1. /\ \A i \in DOMAIN items' : items'[i] = items[i]
      /\ \A i \in DOMAIN items \ DOMAIN items' : items[i].order \notin DOMAIN orders'
  BY DEF DropOrders, Without, Restrict
<1>. QED  BY <1>1, ItemsSame DEF ItemGone

\* The statements about an item change one column, and delete what they name.
LEMMA ItemWritesKeep ==
    ASSUME TypeOK, TypeOK', FreshItems, NEW q \in Requests,
           \/ CommitItem(q) \/ UpdateItem(q) \/ SetOrderItemPaid(q) \/ DeleteItem(q)
    PROVE  ItemStep
<1>1. CASE CommitItem(q)
  <2>1. reqs[q].item \notin DOMAIN items
    BY <1>1 DEF CommitItem, FreshItems, OnItsWay
  <2>2. DOMAIN items \subseteq DOMAIN items' /\ \A i \in DOMAIN items : items'[i] = items[i]
    BY <1>1, <2>1 DEF CommitItem, With
  <2>. QED  BY <2>2, ItemsSame
<1>2. CASE UpdateItem(q) \/ SetOrderItemPaid(q)
  <2>1. DOMAIN items' = DOMAIN items
    BY <1>2 DEF UpdateItem, SetOrderItemPaid
  <2>2. ASSUME NEW i \in DOMAIN items
        PROVE  OwnerKept(i) /\ OneColumn(items[i], items'[i])
    <3>1. items[i] \in ItemRow /\ items'[i] \in ItemRow
      BY <2>1 DEF TypeOK
    <3>2. /\ items'[i].order = items[i].order /\ items'[i].user = items[i].user
          /\ items'[i].menuItem = items[i].menuItem
          /\ items'[i].content = items[i].content \/ items'[i].paid = items[i].paid
      BY <1>2, <3>1 DEF UpdateItem, SetOrderItemPaid, TypeOK, ItemRow
    <3>. QED  BY <3>1, <3>2, OneColumnOf DEF OwnerKept
  <2>. QED  BY <2>1, <2>2, ItemStepIs
<1>3. CASE DeleteItem(q)
  <2>1. /\ DOMAIN items' = DOMAIN items \ {reqs[q].item}
        /\ \A i \in DOMAIN items' : items'[i] = items[i]
    BY <1>3 DEF DeleteItem, Without, Restrict
  <2>2. reqs[q] = [pc |-> "deleteItem", item |-> reqs[q].item]
    <3>1. reqs[q] \in Request
      BY DEF TypeOK
    <3>. QED  BY <1>3, <3>1 DEF DeleteItem, Request, Idle
  <2>. QED  BY <2>1, <2>2, ItemsSame DEF ItemGone
<1>. QED  BY <1>1, <1>2, <1>3

\* A deletion takes items of its account only, and leaves the others' owners.
LEMMA DeletionKeepsItems ==
    ASSUME TypeOK, TypeOK', FreshItems, NEW q \in Requests, DeleteUser(q)
    PROVE  ItemStep
<1>1. CASE items' = items
  BY <1>1, ItemsSame
<1>2. CASE items' # items
  <2>1. /\ reqs[q].user \in accounts /\ accounts' = accounts \ {reqs[q].user}
        /\ DOMAIN items' = DOMAIN items \ reqs[q].removed
        /\ \A i \in DOMAIN items \ reqs[q].removed :
             /\ items'[i].order = items[i].order /\ items'[i].menuItem = items[i].menuItem
             /\ items'[i].content = items[i].content /\ items'[i].paid = items[i].paid
             /\ items'[i].user = IF items[i].user = reqs[q].user THEN Deleted
                                 ELSE items[i].user
    BY <1>2, ItemsAbandoned
  <2>2. ASSUME NEW i \in DOMAIN items \cap DOMAIN items'
        PROVE  OwnerKept(i) /\ OneColumn(items[i], items'[i])
    <3>1. items[i] \in ItemRow /\ items'[i] \in ItemRow
      BY DEF TypeOK
    <3>2. OwnerKept(i)
      BY <2>1 DEF OwnerKept
    <3>. QED  BY <2>1, <3>1, <3>2, OneColumnOf
  <2>3. \A i \in DOMAIN items \ DOMAIN items' : items[i].user = reqs[q].user
    BY <2>1 DEF DeleteUser, FreshItems
  <2>. QED  BY <2>1, <2>2, <2>3, ItemStepIs DEF ItemGone
<1>. QED  BY <1>1, <1>2

LEMMA StepKeepsItems == TypeOK /\ FreshItems /\ [Next]_vars => [ItemStep]_vars
<1> SUFFICES ASSUME TypeOK, FreshItems, Next PROVE ItemStep
  OBVIOUS
<1>1. TypeOK'
  BY StepTyped
<1>2. CASE UNCHANGED items
  BY <1>2, ItemsSame
<1>3. ASSUME NEW q \in Requests, DeleteOrder(q) PROVE ItemStep
  BY <1>3, DropKeepsItems DEF DeleteOrder
<1>4. CASE Cleanup
  BY <1>4, DropKeepsItems DEF Cleanup
<1>5. ASSUME NEW q \in Requests,
             \/ Start(q) \/ Abort(q) \/ InsertOrder(q) \/ UpdateOrder(q)
             \/ CheckItem(q) \/ InsertItem(q) \/ RemoveItems(q)
      PROVE  ItemStep
  <2>1. UNCHANGED items
    BY <1>5, StartSlots, AbortSlots
    DEF InsertOrder, UpdateOrder, CheckItem, InsertItem, RemoveItems, tables
  <2>. QED  BY <1>2, <2>1
<1>6. CASE Draw \/ RemoveRestaurant \/ Tick
  BY <1>2, <1>6 DEF Draw, RemoveRestaurant, Tick, tables
<1>. QED
  BY <1>1, <1>3, <1>4, <1>5, <1>6, ItemWritesKeep, DeletionKeepsItems DEF Next, Proceed

LEMMA FreshItemsInit == Init => FreshItems
  BY DEF Init, FreshItems, OnItsWay, Idle

\* An item keeps its order and its dish, a step changes one of its owner, its content
\* and its tick, the owner to the placeholder with the account, and it goes with its
\* order, with its owner's account or by its own deletion: also where an account
\* deletion and the handlers of its items interleave.
THEOREM ItemsKeepHistory == Spec => ItemHistory
<1>. QED
  BY InitTyped, FreshItemsInit, StepTyped, StepFreshItems, StepKeepsItems, PTL
  DEF Spec, ItemHistory

-----------------------------------------------------------------------------
(* The draw. *)

\* What a step may do to the row of an order that stays.
Kept(o) == orders'[o] = orders[o]
Written(o) == \E q \in Requests : /\ UpdateOrder(q) /\ reqs[q].order = o
                                  /\ orders'[o].jobsDrawn = orders[o].jobsDrawn
Bereft(o) == /\ accounts' # accounts
             /\ orders'[o].restaurant = orders[o].restaurant
             /\ orders'[o].deadline = orders[o].deadline
             /\ orders'[o].fulfilment = orders[o].fulfilment
             /\ orders'[o].jobsDrawn = orders[o].jobsDrawn
Given(o) == /\ Draw /\ o \in Due
            /\ \E p \in Picks(o) : p \in Holders /\ orders'[o] = Drawn(orders[o], p)

LEMMA RowStep ==
    ASSUME TypeOK, Fresh, Next, NEW o \in DOMAIN orders, o \in DOMAIN orders'
    PROVE  Kept(o) \/ Written(o) \/ Bereft(o) \/ Given(o)
<1>1. orders[o] \in OrderRow
  BY DEF TypeOK
<1>2. CASE Draw
  <2>1. PICK picked \in [Due -> Holders] :
           /\ \A d \in Due : picked[d] \in Picks(d)
           /\ orders' = [d \in DOMAIN orders |-> IF d \in Due THEN Drawn(orders[d], picked[d])
                                                ELSE orders[d]]
    BY <1>2 DEF Draw
  <2>2. CASE o \in Due
    BY <1>2, <2>1, <2>2 DEF Given
  <2>3. CASE o \notin Due
    BY <2>1, <2>3 DEF Kept
  <2>. QED  BY <2>2, <2>3
<1>3. ASSUME NEW q \in Requests, UpdateOrder(q)
      PROVE  Kept(o) \/ Written(o)
  <2>1. CASE Accepts(reqs[q].order, reqs[q].actor, reqs[q].set) /\ reqs[q].order = o
    <3>1. reqs[q].set \in Patch
      BY <1>3, RequestShape DEF UpdateOrder, TypeOK
    <3>2. CASE orders' = [orders EXCEPT ![o] = Changed(@, reqs[q].set)]
      <4>1. orders'[o] = Changed(orders[o], reqs[q].set)
        BY <3>2
      <4>. QED  BY <1>1, <1>3, <2>1, <3>1, <4>1, ChangedTyped DEF Written
    <3>. QED  BY <1>3, <2>1, <3>2 DEF UpdateOrder
  <2>. QED  BY <1>3, <2>1 DEF UpdateOrder, Kept
<1>4. ASSUME NEW q \in Requests, DeleteUser(q)
      PROVE  Kept(o) \/ Bereft(o)
  <2>1. CASE /\ reqs[q].user \in accounts /\ accounts' = accounts \ {reqs[q].user}
             /\ orders' = OrdersWithout(reqs[q].user)
    BY <1>1, <2>1 DEF OrdersWithout, OrderRow, Bereft
  <2>. QED  BY <1>4, <2>1 DEF DeleteUser, Kept
<1>5. ASSUME NEW q \in Requests, InsertOrder(q)
      PROVE  Kept(o)
  <2>1. reqs[q].order \notin DOMAIN orders
    BY <1>5 DEF InsertOrder, Fresh
  <2>. QED  BY <1>5, <2>1 DEF InsertOrder, With, Kept
<1>6. ASSUME NEW gone, DropOrders(gone)
      PROVE  Kept(o)
  BY <1>6 DEF DropOrders, Without, Restrict, Kept
<1>7. CASE UNCHANGED orders
  BY <1>7 DEF Kept
<1>8. ASSUME NEW q \in Requests,
             \/ Start(q) \/ Abort(q) \/ CheckItem(q) \/ InsertItem(q) \/ CommitItem(q)
             \/ UpdateItem(q) \/ DeleteItem(q) \/ SetOrderItemPaid(q) \/ RemoveItems(q)
      PROVE  UNCHANGED orders
  BY <1>8, StartSlots, AbortSlots
  DEF CheckItem, InsertItem, CommitItem, UpdateItem, DeleteItem, SetOrderItemPaid,
      RemoveItems, tables
<1>. QED
  BY <1>2, <1>3, <1>4, <1>5, <1>6, <1>7, <1>8
  DEF Next, Proceed, DeleteOrder, Cleanup, RemoveRestaurant, Tick, tables

\* Who the draw can pick: the living accounts with an item in the order, where a job
\* is vacant.
LEMMA PeopleLive ==
    ASSUME TypeOK, Integrity, NEW o \in DOMAIN orders,
           \E j \in Jobs : orders[o].holder[j] = Nobody
    PROVE  People(o) = {u \in accounts : \E i \in ItemsOf(o) : items[i].user = u}
<1>1. Deleted \notin accounts
  BY PeopleAssumption DEF TypeOK
<1>2. People(o) = {items[i].user : i \in ItemsOf(o)} \ {Deleted}
  BY DEF People
<1>3. \A i \in ItemsOf(o) : items[i].user \in accounts \cup {Deleted}
  BY DEF ItemsOf, Integrity, NoDangling
<1>. QED  BY <1>1, <1>2, <1>3

LEMMA DrawnColumns ==
    ASSUME NEW row \in OrderRow, NEW p \in Holders
    PROVE  \A j \in Jobs :
             /\ Drawn(row, p).drawn[j] = (row.holder[j] = Nobody /\ p # Nobody)
             /\ Drawn(row, p).holder[j] = IF row.holder[j] = Nobody THEN p ELSE row.holder[j]
  BY DEF Drawn, OrderRow

LEMMA StepDraws == TypeOK /\ Integrity /\ Fresh /\ [Next]_vars => [DrawStep]_vars
<1> SUFFICES ASSUME TypeOK, Integrity, Fresh, Next,
                    NEW o \in DOMAIN orders, o \in DOMAIN orders',
                    ~orders[o].jobsDrawn, orders'[o].jobsDrawn
             PROVE  LET before == orders[o].holder
                        after  == orders'[o].holder
                        empty  == {j \in Jobs : before[j] = Nobody}
                        living == {u \in accounts : \E i \in ItemsOf(o) : items[i].user = u}
                    IN  /\ orders[o].deadline <= now
                        /\ \A j \in Jobs \ empty : after[j] = before[j]
                        /\ \E p \in living \cup {Nobody} :
                             /\ \A j \in empty : after[j] = p
                             /\ p = Nobody => living = {}
                        /\ \A j \in Jobs :
                             orders'[o].drawn[j] = (j \in empty /\ after[j] # Nobody)
  BY DEF DrawStep, Survives
<1> DEFINE before == orders[o].holder
           after  == orders'[o].holder
           empty  == {j \in Jobs : before[j] = Nobody}
           living == {u \in accounts : \E i \in ItemsOf(o) : items[i].user = u}
<1>1. orders[o] \in OrderRow
  BY DEF TypeOK
<1>2. Given(o)
  BY RowStep DEF Kept, Written, Bereft
<1>3. PICK p \in Picks(o) : p \in Holders /\ orders'[o] = Drawn(orders[o], p)
  BY <1>2 DEF Given
<1>4. orders[o].deadline <= now
  BY <1>2 DEF Given, Due
<1>5. \A j \in Jobs :
        /\ orders'[o].drawn[j] = (before[j] = Nobody /\ p # Nobody)
        /\ after[j] = IF before[j] = Nobody THEN p ELSE before[j]
  BY <1>1, <1>3, DrawnColumns
<1>6. \E p1 \in living \cup {Nobody} : (\A j \in empty : after[j] = p1)
                                      /\ (p1 = Nobody => living = {})
  <2>1. CASE empty = {}
    <3>1. CASE living = {}
      BY <2>1, <3>1
    <3>2. CASE living # {}
      <4>1. PICK u : u \in living
        BY <3>2
      <4>2. u # Nobody
        BY <4>1, PeopleAssumption DEF TypeOK, Owners
      <4>. QED  BY <2>1, <4>1, <4>2
    <3>. QED  BY <3>1, <3>2
  <2>2. CASE empty # {}
    <3>1. People(o) = living
      BY <2>2, PeopleLive
    <3>2. p \in living \/ (p = Nobody /\ living = {})
      BY <1>3, <3>1 DEF Picks
    <3>3. Nobody \notin living
      BY PeopleAssumption DEF TypeOK, Owners
    <3>. QED  BY <1>5, <3>2, <3>3
  <2>. QED  BY <2>1, <2>2
<1>7. \A j \in Jobs \ empty : after[j] = before[j]
  BY <1>5
<1>8. \A j \in Jobs : orders'[o].drawn[j] = (j \in empty /\ after[j] # Nobody)
  BY <1>5
<1>. QED  BY <1>4, <1>6, <1>7, <1>8

LEMMA FreshInit == Init => Fresh
  BY DEF Init, Fresh, Idle
LEMMA IntegrityInit == Init => Integrity
  BY DEF Init, Integrity, NoDangling, SharedRowsStay, Idle

\* F5.10a: whatever marks an order drawn comes after its deadline, leaves a job that
\* somebody took alone, and gives the empty ones to one living account with an item
\* in the order, to nobody when there is none; and the flags say which were given.
THEOREM DrawsAreFair == Spec => DrawOutcome
<1>. QED
  BY InitTyped, IntegrityInit, FreshInit, StepTyped, StepIntegrity, StepFresh, StepDraws, PTL
  DEF Spec, DrawOutcome

-----------------------------------------------------------------------------
(* Past the deadline. *)

LEMMA SettledItems ==
    ASSUME TypeOK, FreshItems, Next, NEW o, Settled(o), Survives(o)
    PROVE  /\ ItemsOf(o)' \subseteq ItemsOf(o)
           /\ ItemsOf(o)' # ItemsOf(o) => accounts' # accounts
           /\ \A i \in ItemsOf(o)' : items'[i].content = items[i].content
<1> DEFINE Good == /\ ItemsOf(o)' \subseteq ItemsOf(o)
                   /\ ItemsOf(o)' # ItemsOf(o) => accounts' # accounts
                   /\ \A i \in ItemsOf(o)' : items'[i].content = items[i].content
<1>1. CASE UNCHANGED items
  BY <1>1 DEF ItemsOf
<1>2. ASSUME NEW gone, DropOrders(gone)
      PROVE  Good
  <2>1. o \notin gone
    BY <1>2 DEF Survives, DropOrders, Without, Restrict
  <2>2. /\ \A i \in DOMAIN items : items[i].order = o => i \in DOMAIN items'
        /\ \A i \in DOMAIN items' : i \in DOMAIN items /\ items'[i] = items[i]
    BY <1>2, <2>1 DEF DropOrders, Without, Restrict
  <2>. QED  BY <2>2 DEF ItemsOf
<1>3. ASSUME NEW q \in Requests, CommitItem(q)
      PROVE  Good
  <2>1. reqs[q].item \notin DOMAIN items
    BY <1>3 DEF CommitItem, FreshItems, OnItsWay
  <2>2. reqs[q].row.order # o
    BY <1>3 DEF CommitItem, Settled, About
  <2>. QED  BY <1>3, <2>1, <2>2 DEF CommitItem, With, ItemsOf
<1>4. ASSUME NEW q \in Requests, UpdateItem(q) \/ SetOrderItemPaid(q)
      PROVE  Good
  <2>1. UpdateItem(q) => reqs[q].item \notin ItemsOf(o)
    BY DEF UpdateItem, Settled, About
  <2>2. /\ DOMAIN items' = DOMAIN items
        /\ \A i \in DOMAIN items :
             /\ items'[i] # items[i] => i = reqs[q].item
             /\ items'[i].order = items[i].order
             /\ SetOrderItemPaid(q) => items'[i].content = items[i].content
    BY <1>4, ItemChanged
  <2>. QED  BY <1>4, <2>1, <2>2 DEF ItemsOf
<1>5. ASSUME NEW q \in Requests, DeleteItem(q)
      PROVE  Good
  <2>1. reqs[q].item \notin ItemsOf(o)
    BY <1>5 DEF DeleteItem, Settled, About
  <2>. QED  BY <1>5, <2>1 DEF DeleteItem, Without, Restrict, ItemsOf
<1>6. ASSUME NEW q \in Requests, DeleteUser(q), items' # items
      PROVE  Good
  <2>1. /\ reqs[q].user \in accounts /\ accounts' = accounts \ {reqs[q].user}
        /\ DOMAIN items' = DOMAIN items \ reqs[q].removed
        /\ \A i \in DOMAIN items \ reqs[q].removed :
             items'[i].order = items[i].order /\ items'[i].content = items[i].content
    BY <1>6, ItemsAbandoned
  <2>2. accounts' # accounts
    BY <2>1
  <2>. QED  BY <2>1, <2>2 DEF ItemsOf
<1>7. ASSUME NEW q \in Requests,
             \/ Start(q) \/ Abort(q) \/ InsertOrder(q) \/ UpdateOrder(q)
             \/ CheckItem(q) \/ InsertItem(q) \/ RemoveItems(q)
      PROVE  UNCHANGED items
  BY <1>7, StartSlots, AbortSlots
  DEF InsertOrder, UpdateOrder, CheckItem, InsertItem, RemoveItems, tables
<1>. QED
  BY <1>1, <1>2, <1>3, <1>4, <1>5, <1>6, <1>7
  DEF Next, Proceed, DeleteOrder, Cleanup, Draw, RemoveRestaurant, Tick, tables

\* No request begins about an order past its deadline, and what had begun is over.
LEMMA SettledRequests ==
    ASSUME TypeOK, FreshItems, Next, NEW o, Settled(o), Survives(o), NEW p \in Requests
    PROVE  ~About(p, o)'
<1>1. ItemsOf(o)' \subseteq ItemsOf(o)
  BY SettledItems
<1>2. orders[o].deadline \in Nat /\ now \in Nat /\ o \in DOMAIN orders
  BY DEF TypeOK, OrderRow, Settled
<1>3. ~Active(orders[o]) /\ \A i \in ItemsOf(o) : ~Active(orders[items[i].order])
  BY <1>2 DEF Settled, Active, ItemsOf
<1>4. CASE reqs'[p] = reqs[p]
  BY <1>1, <1>4 DEF Settled, About
<1>5. CASE Start(p)
  <2>1. CASE AddItem(p)
    <3>1. PICK d \in DOMAIN orders : \E i, u, m, c :
             /\ Active(orders[d])
             /\ Receive(p, [pc |-> "checkItem", item |-> i,
                            row |-> [order |-> d, user |-> u, menuItem |-> m,
                                     content |-> c, paid |-> FALSE]])
      BY <2>1 DEF AddItem
    <3>2. reqs'[p].pc = "checkItem" /\ reqs'[p].row.order = d
      BY <3>1 DEF Receive, TypeOK
    <3>. QED  BY <1>3, <3>1, <3>2 DEF About
  <2>2. CASE Patching(p) \/ Claim(p) \/ Release(p)
    <3>1. reqs'[p].pc = "updateOrder" /\ Active(orders[reqs'[p].order])
      BY <2>2 DEF Patching, Claim, Release, Receive, TypeOK
    <3>. QED  BY <1>3, <3>1 DEF About
  <2>3. CASE PatchItem(p) \/ RemoveItem(p)
    <3>1. /\ reqs'[p].pc \in {"updateItem", "deleteItem"}
          /\ Active(orders[items[reqs'[p].item].order])
      BY <2>3 DEF PatchItem, RemoveItem, MayEdit, Receive, TypeOK
    <3>. QED  BY <1>1, <1>3, <3>1 DEF About
  <2>4. CASE Create(p) \/ Remove(p) \/ SetItemPaid(p) \/ ForgetUser(p)
    <3>1. reqs'[p].pc \in {"insertOrder", "deleteOrder", "setPaid", "removeItems"}
      BY <2>4 DEF Create, Remove, SetItemPaid, ForgetUser, Receive, TypeOK
    <3>. QED  BY <3>1 DEF About
  <2>. QED  BY <1>5, <2>1, <2>2, <2>3, <2>4 DEF Start
<1>6. CASE reqs'[p] = Idle \/ reqs'[p].pc = "deleteUser"
  BY <1>6 DEF About, Idle
<1>7. CASE OnItsWay(reqs[p]) /\ OnItsWay(reqs'[p]) /\ reqs'[p].row = reqs[p].row
  BY <1>7 DEF OnItsWay, Settled, About
<1>8. ASSUME NEW q \in Requests, Start(q) \/ Proceed(q) \/ Abort(q)
      PROVE  \/ reqs'[p] = reqs[p] \/ Start(p)
             \/ reqs'[p] = Idle \/ reqs'[p].pc = "deleteUser"
             \/ OnItsWay(reqs[p]) /\ OnItsWay(reqs'[p]) /\ reqs'[p].row = reqs[p].row
  BY <1>8, StartSlots, ProceedSlots, AbortSlots
<1>9. CASE Draw \/ Cleanup \/ RemoveRestaurant \/ Tick
  BY <1>4, <1>9 DEF Draw, Cleanup, RemoveRestaurant, Tick
<1>. QED  BY <1>4, <1>5, <1>6, <1>7, <1>8, <1>9 DEF Next

\* The columns of the draw and of an account's end are all that changes.
DrawOnly(was, is) == is = [was EXCEPT !.creator = is.creator, !.holder = is.holder,
                                      !.drawn = is.drawn, !.jobsDrawn = is.jobsDrawn]

LEMMA DrawOnlyOf ==
    ASSUME NEW was \in OrderRow, NEW is \in OrderRow, is.restaurant = was.restaurant,
           is.deadline = was.deadline, is.fulfilment = was.fulfilment
    PROVE  DrawOnly(was, is)
  BY DEF DrawOnly, OrderRow

LEMMA SettledRow ==
    ASSUME TypeOK, Fresh, Next, NEW o, Settled(o), Survives(o)
    PROVE  /\ DrawOnly(orders[o], orders'[o]) /\ orders'[o].deadline = orders[o].deadline
           /\ orders'[o].holder # orders[o].holder =>
                orders'[o].jobsDrawn # orders[o].jobsDrawn \/ accounts' # accounts
<1>1. TypeOK'
  BY StepTyped
<1>2. orders[o] \in OrderRow /\ orders'[o] \in OrderRow /\ o \in DOMAIN orders
  BY <1>1 DEF TypeOK, Survives
<1>3. Kept(o) \/ Bereft(o) \/ Given(o)
  BY <1>2, RowStep DEF Survives, Settled, About, Written, UpdateOrder
<1>4. /\ orders'[o].restaurant = orders[o].restaurant
      /\ orders'[o].deadline = orders[o].deadline
      /\ orders'[o].fulfilment = orders[o].fulfilment
      /\ orders'[o].holder # orders[o].holder =>
           orders'[o].jobsDrawn # orders[o].jobsDrawn \/ accounts' # accounts
  <2>1. CASE Kept(o) \/ Bereft(o)
    BY <2>1 DEF Kept, Bereft
  <2>2. CASE Given(o)
    <3>1. PICK p \in Holders : orders'[o] = Drawn(orders[o], p)
      BY <2>2 DEF Given
    <3>2. ~orders[o].jobsDrawn
      BY <2>2 DEF Given, Due
    <3>3. Drawn(orders[o], p).restaurant = orders[o].restaurant
      BY <1>2 DEF Drawn, OrderRow
    <3>. QED  BY <1>2, <3>1, <3>2, <3>3, DrawnTyped
  <2>. QED  BY <1>3, <2>1, <2>2
<1>. QED  BY <1>2, <1>4, DrawOnlyOf

LEMMA StepSettled == TypeOK /\ Fresh /\ FreshItems /\ [Next]_vars => [SettledStep]_vars
<1> SUFFICES ASSUME TypeOK, Fresh, FreshItems, Next PROVE SettledStep
  OBVIOUS
<1>1. now' = now \/ now' = now + 1
  BY StartSlots, AbortSlots
  DEF Next, Proceed, InsertOrder, UpdateOrder, DeleteOrder, CheckItem, InsertItem,
      CommitItem, UpdateItem, DeleteItem, SetOrderItemPaid, RemoveItems, DeleteUser,
      Draw, Cleanup, RemoveRestaurant, Tick
<1>2. ASSUME NEW o \in DOMAIN orders, Settled(o), Survives(o)
      PROVE  Settled(o)'
  <2>1. orders'[o].deadline = orders[o].deadline
    BY <1>2, SettledRow
  <2>2. \A q \in Requests : ~About(q, o)'
    BY <1>2, SettledRequests
  <2>3. orders[o].deadline <= now'
    BY <1>1, <1>2 DEF Settled, TypeOK, OrderRow
  <2>. QED  BY <1>2, <2>1, <2>2, <2>3 DEF Settled, Survives
<1>3. ASSUME NEW o \in DOMAIN orders, Settled(o), Survives(o)
      PROVE  /\ DrawOnly(orders[o], orders'[o])
             /\ orders'[o].holder # orders[o].holder =>
                  orders'[o].jobsDrawn # orders[o].jobsDrawn \/ accounts' # accounts
             /\ ItemsOf(o)' # ItemsOf(o) => accounts' # accounts
             /\ ItemsOf(o)' \subseteq ItemsOf(o)
             /\ \A i \in ItemsOf(o) \cap ItemsOf(o)' : items'[i].content = items[i].content
  BY <1>3, SettledRow, SettledItems
<1>. QED  BY <1>2, <1>3, Zenon DEF SettledStep, DrawOnly

\* F6.6: an order past its deadline that no request begun before it is about stays past
\* it, and changes by the draw, by the tick of an item and by what an account's end
\* takes along, and by nothing else.
THEOREM SettledOrdersStay == Spec => SettledStays
<1>. QED
  BY InitTyped, FreshInit, FreshItemsInit, StepTyped, StepFresh, StepFreshItems, StepSettled,
     PTL
  DEF Spec, SettledStays

-----------------------------------------------------------------------------
(* The food and the restaurant. *)

NoneMoves == \A set \in Patches : set.restaurant = Same

LEMMA RestaurantStays ==
    ASSUME TypeOK, Fresh, FoodSold, Next, NEW o \in DOMAIN orders, o \in DOMAIN orders'
    PROVE  orders'[o].restaurant = orders[o].restaurant
<1>1. orders[o] \in OrderRow
  BY DEF TypeOK
<1>2. ASSUME NEW q \in Requests, UpdateOrder(q), reqs[q].order = o
      PROVE  orders'[o].restaurant = orders[o].restaurant
  <2>1. reqs[q].set.restaurant = Same
    BY <1>2 DEF UpdateOrder, FoodSold
  <2>2. Changed(orders[o], reqs[q].set).restaurant = orders[o].restaurant
    BY <1>1, <2>1 DEF Changed, New, OrderRow
  <2>3. orders' = orders \/ orders'[o] = Changed(orders[o], reqs[q].set)
    BY <1>2 DEF UpdateOrder
  <2>. QED  BY <2>2, <2>3
<1>3. ASSUME NEW p \in Holders
      PROVE  Drawn(orders[o], p).restaurant = orders[o].restaurant
  BY <1>1 DEF Drawn, OrderRow
<1>. QED  BY <1>2, <1>3, RowStep DEF Kept, Written, Bereft, Given

\* An item is of the order and of the dish it was of, or has just been committed.
LEMMA ItemStays ==
    ASSUME TypeOK, Next, NEW i \in DOMAIN items'
    PROVE  \/ /\ i \in DOMAIN items /\ items'[i].order = items[i].order
              /\ items'[i].menuItem = items[i].menuItem
           \/ \E q \in Requests : CommitItem(q) /\ items'[i] = reqs[q].row
<1> DEFINE AsBefore == /\ i \in DOMAIN items /\ items'[i].order = items[i].order
                    /\ items'[i].menuItem = items[i].menuItem
<1>1. CASE UNCHANGED items
  BY <1>1
<1>2. ASSUME NEW keys, items' = Without(items, keys)
      PROVE  AsBefore
  BY <1>2, ItemsDropped
<1>3. ASSUME NEW q \in Requests, CommitItem(q)
      PROVE  AsBefore \/ items'[i] = reqs[q].row
  BY <1>3 DEF CommitItem, With
<1>4. ASSUME NEW q \in Requests, UpdateItem(q) \/ SetOrderItemPaid(q)
      PROVE  AsBefore
  BY <1>4, ItemChanged
<1>5. ASSUME NEW q \in Requests, DeleteUser(q)
      PROVE  AsBefore
  <2>1. CASE items' # items
    BY <1>5, <2>1, ItemsAbandoned
  <2>. QED  BY <1>1, <2>1
<1>6. ASSUME NEW q \in Requests,
             \/ Start(q) \/ Abort(q) \/ InsertOrder(q) \/ UpdateOrder(q)
             \/ CheckItem(q) \/ InsertItem(q) \/ RemoveItems(q)
      PROVE  UNCHANGED items
  BY <1>6, StartSlots, AbortSlots
  DEF InsertOrder, UpdateOrder, CheckItem, InsertItem, RemoveItems, tables
<1>. QED
  BY <1>1, <1>2, <1>3, <1>4, <1>5, <1>6
  DEF Next, Proceed, DeleteOrder, DeleteItem, Cleanup, DropOrders, Draw, RemoveRestaurant,
      Tick, tables

\* What the requests on their way hold of orders and restaurants.
LEMMA SlotsSold ==
    ASSUME NoneMoves, TypeOK, Fresh, FoodSold, Next, NEW q \in Requests
    PROVE  /\ OnItsWay(reqs'[q]) => reqs'[q].row.order \in minted'
           /\ reqs'[q].pc = "updateOrder" => reqs'[q].set.restaurant = Same
           /\ \/ OnItsWay(reqs[q]) /\ reqs'[q].row = reqs[q].row
              \/ OnItsWay(reqs'[q]) => /\ reqs'[q].pc = "checkItem"
                                       /\ reqs'[q].row.order \in DOMAIN orders
           /\ reqs'[q].pc = "insertOrder" =>
                reqs'[q] = reqs[q] \/ reqs'[q].order \notin minted
<1>1. minted \subseteq minted'
  BY StartSlots, AbortSlots
  DEF Next, Proceed, InsertOrder, UpdateOrder, DeleteOrder, CheckItem, InsertItem,
      CommitItem, UpdateItem, DeleteItem, SetOrderItemPaid, RemoveItems, DeleteUser,
      Draw, Cleanup, RemoveRestaurant, Tick
<1>2. CASE reqs'[q] = reqs[q]
  BY <1>1, <1>2 DEF FoodSold, OnItsWay
<1>3. CASE Start(q)
  <2>1. CASE AddItem(q)
    <3>1. PICK d \in DOMAIN orders : \E i, u, m, c :
             Receive(q, [pc |-> "checkItem", item |-> i,
                         row |-> [order |-> d, user |-> u, menuItem |-> m,
                                  content |-> c, paid |-> FALSE]])
      BY <2>1 DEF AddItem
    <3>2. reqs'[q].pc = "checkItem" /\ reqs'[q].row.order = d
      BY <3>1 DEF Receive, TypeOK
    <3>. QED  BY <1>1, <3>2 DEF Fresh
  <2>2. CASE Patching(q)
    <3>1. PICK set \in Patches : reqs'[q].pc = "updateOrder" /\ reqs'[q].set = set
      BY <2>2 DEF Patching, Receive, TypeOK
    <3>. QED  BY <3>1 DEF NoneMoves, OnItsWay
  <2>3. CASE Claim(q) \/ Release(q)
    <3>1. reqs'[q].pc = "updateOrder" /\ reqs'[q].set.restaurant = Same
      BY <2>3 DEF Claim, Release, JobSet, Receive, TypeOK
    <3>. QED  BY <3>1 DEF OnItsWay
  <2>4. CASE Create(q)
    <3>1. reqs'[q].pc = "insertOrder" /\ reqs'[q].order \notin minted
      BY <2>4 DEF Create, Receive, TypeOK
    <3>. QED  BY <3>1 DEF OnItsWay
  <2>5. CASE Remove(q) \/ PatchItem(q) \/ RemoveItem(q) \/ SetItemPaid(q) \/ ForgetUser(q)
    <3>1. reqs'[q].pc \in {"deleteOrder", "updateItem", "deleteItem", "setPaid", "removeItems"}
      BY <2>5 DEF Remove, PatchItem, RemoveItem, SetItemPaid, ForgetUser, Receive, TypeOK
    <3>. QED  BY <3>1 DEF OnItsWay
  <2>. QED  BY <1>3, <2>1, <2>2, <2>3, <2>4, <2>5 DEF Start
<1>4. CASE reqs'[q] = Idle \/ reqs'[q].pc = "deleteUser"
  BY <1>4 DEF OnItsWay, Idle
<1>5. CASE OnItsWay(reqs[q]) /\ OnItsWay(reqs'[q]) /\ reqs'[q].row = reqs[q].row
  BY <1>1, <1>5 DEF FoodSold, OnItsWay
<1>6. ASSUME NEW p \in Requests, Start(p) \/ Proceed(p) \/ Abort(p)
      PROVE  \/ reqs'[q] = reqs[q] \/ Start(q)
             \/ reqs'[q] = Idle \/ reqs'[q].pc = "deleteUser"
             \/ OnItsWay(reqs[q]) /\ OnItsWay(reqs'[q]) /\ reqs'[q].row = reqs[q].row
  BY <1>6, StartSlots, ProceedSlots, AbortSlots
<1>7. CASE Draw \/ Cleanup \/ RemoveRestaurant \/ Tick
  BY <1>2, <1>7 DEF Draw, Cleanup, RemoveRestaurant, Tick
<1>. QED  BY <1>2, <1>3, <1>4, <1>5, <1>6, <1>7 DEF Next

\* An order that was not there has been inserted by the request that holds its row.
LEMMA OrderComes ==
    ASSUME TypeOK, Next, NEW o \in DOMAIN orders' \ DOMAIN orders
    PROVE  \E p \in Requests : reqs[p].pc = "insertOrder" /\ reqs[p].order = o
<1>1. ASSUME NEW p \in Requests, InsertOrder(p)
      PROVE  reqs[p].pc = "insertOrder" /\ reqs[p].order = o
  BY <1>1 DEF InsertOrder, With
<1>2. ASSUME \/ UNCHANGED orders
             \/ \E p \in Requests : UpdateOrder(p) \/ DeleteOrder(p) \/ DeleteUser(p)
             \/ Draw \/ Cleanup
      PROVE  DOMAIN orders' \subseteq DOMAIN orders
  BY <1>2 DEF UpdateOrder, DeleteOrder, DropOrders, Without, Restrict, DeleteUser,
              OrdersWithout, Draw, Cleanup
<1>3. ASSUME NEW q \in Requests,
             \/ Start(q) \/ Abort(q) \/ CheckItem(q) \/ InsertItem(q) \/ CommitItem(q)
             \/ UpdateItem(q) \/ DeleteItem(q) \/ SetOrderItemPaid(q) \/ RemoveItems(q)
      PROVE  UNCHANGED orders
  BY <1>3, StartSlots, AbortSlots
  DEF CheckItem, InsertItem, CommitItem, UpdateItem, DeleteItem, SetOrderItemPaid,
      RemoveItems, tables
<1>. QED
  BY <1>1, <1>2, <1>3 DEF Next, Proceed, RemoveRestaurant, Tick, tables

\* An item goes on from its check on the word of the check.
LEMMA ChecksSell ==
    ASSUME TypeOK, Next, NEW q \in Requests, reqs[q].pc = "checkItem",
           reqs'[q].pc \in {"insertItem", "commitItem"}
    PROVE  Sells(reqs[q].row.order, reqs[q].row.menuItem) /\ UNCHANGED orders
<1>1. reqs'[q] # reqs[q] /\ reqs'[q] # Idle
  BY DEF Idle
<1>2. ~OnItsWay(reqs'[q]) \/ CheckItem(q)
  <2>1. ASSUME NEW p \in Requests, Start(p) \/ Proceed(p) \/ Abort(p)
        PROVE  p = q
    BY <1>1, <2>1, StartSlots, ProceedSlots, AbortSlots
  <2>2. ~Start(q)
    BY DEF Start, Create, Patching, Claim, Release, Remove, AddItem, PatchItem, RemoveItem,
           SetItemPaid, ForgetUser, Receive, Idle
  <2>3. Proceed(q)
    BY <1>1, <2>1, <2>2, AbortSlots
    DEF Next, Draw, Cleanup, RemoveRestaurant, Tick
  <2>. QED
    BY <2>3
    DEF Proceed, InsertOrder, UpdateOrder, DeleteOrder, CheckItem, InsertItem, CommitItem,
        UpdateItem, DeleteItem, SetOrderItemPaid, RemoveItems, DeleteUser
<1>3. CheckItem(q)
  BY <1>2 DEF OnItsWay
<1>4. ~Answer(q)
  BY <1>1 DEF Answer, TypeOK
<1>. QED  BY <1>3, <1>4 DEF CheckItem, tables

LEMMA StepSold ==
    ASSUME NoneMoves
    PROVE  TypeOK /\ Integrity /\ Fresh /\ FoodSold /\ [Next]_vars => FoodSold'
<1> SUFFICES ASSUME TypeOK, Integrity, Fresh, FoodSold, [Next]_vars PROVE FoodSold'
  OBVIOUS
<1>1. CASE UNCHANGED vars
  BY <1>1 DEF vars, FoodSold, FoodOfRestaurant, OnItsWay
<1>2. CASE Next
  <2>1. NoDangling'
    BY <1>2, StepIntegrity DEF Integrity
  <2>2. ASSUME NEW i \in DOMAIN items'
        PROVE  RestaurantOf[items'[i].menuItem] = orders'[items'[i].order].restaurant
    <3>1. items'[i].order \in DOMAIN orders'
      BY <2>1 DEF NoDangling
    <3>2. CASE /\ i \in DOMAIN items /\ items'[i].order = items[i].order
               /\ items'[i].menuItem = items[i].menuItem
      <4>1. items[i].order \in DOMAIN orders
        BY <3>2 DEF Integrity, NoDangling
      <4>2. orders'[items[i].order].restaurant = orders[items[i].order].restaurant
        BY <1>2, <3>1, <3>2, <4>1, RestaurantStays
      <4>. QED  BY <3>2, <4>2 DEF FoodSold, FoodOfRestaurant
    <3>3. ASSUME NEW q \in Requests, CommitItem(q), items'[i] = reqs[q].row
          PROVE  RestaurantOf[items'[i].menuItem] = orders'[items'[i].order].restaurant
      <4>1. reqs[q].pc = "commitItem" /\ orders' = orders
        BY <3>3 DEF CommitItem
      <4>. QED  BY <3>3, <4>1 DEF FoodSold, Integrity, SharedRowsStay
    <3>. QED  BY <1>2, <3>2, <3>3, ItemStays
  <2>3. ASSUME NEW q \in Requests, OnItsWay(reqs'[q]), NEW p \in Requests,
               reqs'[p].pc = "insertOrder"
        PROVE  reqs'[p].order # reqs'[q].row.order
    <3>1. /\ reqs'[q].row.order \in DOMAIN orders
             \/ (OnItsWay(reqs[q]) /\ reqs'[q].row = reqs[q].row)
          /\ reqs'[p] = reqs[p] \/ reqs'[p].order \notin minted
      BY <1>2, <2>3, SlotsSold
    <3>2. CASE reqs'[p] = reqs[p]
      BY <2>3, <3>1, <3>2 DEF Fresh, FoodSold
    <3>3. CASE reqs'[p].order \notin minted
      BY <2>3, <3>1, <3>3 DEF Fresh, FoodSold
    <3>. QED  BY <3>1, <3>2, <3>3
  <2>4. ASSUME NEW q \in Requests, reqs'[q].pc \in {"insertItem", "commitItem"},
               reqs'[q].row.order \in DOMAIN orders'
        PROVE  RestaurantOf[reqs'[q].row.menuItem] = orders'[reqs'[q].row.order].restaurant
    <3>1. OnItsWay(reqs[q]) /\ reqs'[q].row = reqs[q].row
      BY <1>2, <2>4, SlotsSold DEF OnItsWay
    <3>2. reqs[q].row.order \in DOMAIN orders
      BY <1>2, <2>4, <3>1, OrderComes DEF FoodSold
    <3>3. orders'[reqs[q].row.order].restaurant = orders[reqs[q].row.order].restaurant
      BY <1>2, <2>4, <3>1, <3>2, RestaurantStays
    <3>4. RestaurantOf[reqs[q].row.menuItem] = orders[reqs[q].row.order].restaurant
      <4>1. CASE reqs[q].pc \in {"insertItem", "commitItem"}
        BY <3>2, <4>1 DEF FoodSold
      <4>2. CASE reqs[q].pc = "checkItem"
        BY <1>2, <2>4, <4>2, ChecksSell DEF Sells
      <4>. QED  BY <3>1, <4>1, <4>2 DEF OnItsWay
    <3>. QED  BY <3>1, <3>3, <3>4
  <2>5. \A q \in Requests :
           /\ OnItsWay(reqs'[q]) => reqs'[q].row.order \in minted'
           /\ reqs'[q].pc = "updateOrder" => reqs'[q].set.restaurant = Same
    BY <1>2, SlotsSold
  <2>. QED  BY <2>2, <2>3, <2>4, <2>5 DEF FoodSold, FoodOfRestaurant, OnItsWay
<1>. QED  BY <1>1, <1>2

\* F5.8 and 20.14: where no patch moves an order to another restaurant, the food in an
\* order is sold by the order's restaurant, though a dish is checked one statement and
\* committed two after.
THEOREM FoodIsSold ==
    ASSUME NoneMoves
    PROVE  Spec => []FoodOfRestaurant
<1>1. Init => FoodSold
  BY DEF Init, FoodSold, FoodOfRestaurant, OnItsWay, Idle
<1>2. TypeOK /\ Integrity /\ Fresh /\ FoodSold /\ [Next]_vars => FoodSold'
  BY StepSold
<1>3. FoodSold => FoodOfRestaurant
  BY DEF FoodSold
<1>. QED
  BY InitTyped, IntegrityInit, FreshInit, StepTyped, StepIntegrity, StepFresh,
     <1>1, <1>2, <1>3, PTL
  DEF Spec

\* The check of an item being committed no longer holds: its order has been moved since.
StaleCheck == \E q \in Requests : CommitItem(q) /\ ~Sells(reqs[q].row.order, reqs[q].row.menuItem)
BreaksStep == FoodOfRestaurant /\ ~FoodOfRestaurant' => StaleCheck

LEMMA StepBreaks == TypeOK /\ Integrity /\ Fresh /\ [Next]_vars => [BreaksStep]_vars
<1> SUFFICES ASSUME TypeOK, Integrity, Fresh, Next, FoodOfRestaurant, ~StaleCheck
             PROVE  FoodOfRestaurant'
  BY DEF BreaksStep
<1>1. NoDangling' /\ OrderStep
  <2>1. CASE UNCHANGED vars
    BY <2>1 DEF vars, Integrity, NoDangling, OrderStep, Survives
  <2>. QED  BY <2>1, StepIntegrity, StepKeeps DEF Integrity
<1>2. ASSUME NEW i \in DOMAIN items'
      PROVE  RestaurantOf[items'[i].menuItem] = orders'[items'[i].order].restaurant
  <2>1. items'[i].order \in DOMAIN orders'
    BY <1>1 DEF NoDangling
  <2>2. CASE /\ i \in DOMAIN items /\ items'[i].order = items[i].order
             /\ items'[i].menuItem = items[i].menuItem
    <3>1. items[i].order \in DOMAIN orders /\ ItemsOf(items[i].order) # {}
      BY <2>2 DEF Integrity, NoDangling, ItemsOf
    <3>2. orders'[items[i].order].restaurant = orders[items[i].order].restaurant
      BY <1>1, <2>1, <2>2, <3>1 DEF OrderStep, Survives
    <3>. QED  BY <2>2, <3>2 DEF FoodOfRestaurant
  <2>3. ASSUME NEW q \in Requests, CommitItem(q), items'[i] = reqs[q].row
        PROVE  RestaurantOf[items'[i].menuItem] = orders'[items'[i].order].restaurant
    <3>1. Sells(reqs[q].row.order, reqs[q].row.menuItem) /\ orders' = orders
      BY <2>3 DEF StaleCheck, CommitItem
    <3>. QED  BY <2>3, <3>1 DEF Sells
  <2>. QED  BY <2>2, <2>3, ItemStays
<1>. QED  BY <1>2 DEF FoodOfRestaurant

\* Where patches do move orders, one step alone brings food of another restaurant into
\* an order: the commit of an item whose order was moved after its dish was checked.
\* The UPDATE that moves an order never does, for it finds the order without items.
THEOREM FoodBreaksByCommit == Spec => [][BreaksStep]_vars
<1>. QED
  BY InitTyped, IntegrityInit, FreshInit, StepTyped, StepIntegrity, StepFresh, StepBreaks, PTL
  DEF Spec
=============================================================================
