-------------------------- MODULE FoodOrderProofs --------------------------
(***************************************************************************)
(* Type correctness and referential integrity of FoodOrder, for any number *)
(* of accounts, orders, items, requests in flight and any request bodies.  *)
(***************************************************************************)
EXTENDS FoodOrder, TLAPS

\* What a request slot holds at each statement.
LEMMA RequestShape ==
    ASSUME NEW r \in Request
    PROVE  /\ r.pc = "insertOrder" => r.order \in Orders /\ r.row \in OrderRow
           /\ r.pc = "updateOrder" => /\ r.order \in Orders /\ r.actor \in Users
                                      /\ r.set \in Patch
           /\ r.pc = "deleteOrder" => r.order \in Orders
           /\ r.pc \in {"checkItem", "insertItem", "commitItem"} =>
                r.item \in Items /\ r.row \in ItemRow
           /\ r.pc = "updateItem" => r.item \in Items /\ r.content \in Contents
           /\ r.pc = "deleteItem" => r.item \in Items
           /\ r.pc = "setPaid" => r.item \in Items /\ r.paid \in BOOLEAN
           /\ r.pc = "removeItems" => /\ r.user \in Users \ {Root} /\ r.stamp \in Nat
                                      /\ r.reassigned \subseteq Items
           /\ r.pc = "deleteUser" => /\ r.user \in Users \ {Root}
                                     /\ r.reassigned \subseteq Items
                                     /\ r.removed \subseteq Items
  BY DEF Request, Idle

\* Writing the fields a request names gives a row.
LEMMA ChangedTyped ==
    ASSUME NEW row \in OrderRow, NEW set \in Patch
    PROVE  /\ Changed(row, set) \in OrderRow
           /\ Changed(row, set).creator = row.creator
           /\ Changed(row, set).drawn = row.drawn
           /\ Changed(row, set).jobsDrawn = row.jobsDrawn
           /\ \A j \in Jobs : Changed(row, set).holder[j] \in {row.holder[j], set.holder[j]}
           /\ \A j \in Jobs : Changed(row, set).holder[j] # Same
  BY SameAssumption DEF Changed, New, OrderRow, Patch, Holders, Owners

\* The draw leaves a row.
LEMMA DrawnTyped ==
    ASSUME NEW row \in OrderRow, NEW picked \in Holders
    PROVE  /\ Drawn(row, picked) \in OrderRow
           /\ Drawn(row, picked).creator = row.creator
           /\ \A j \in Jobs : Drawn(row, picked).holder[j] \in {row.holder[j], picked}
           /\ Drawn(row, picked).jobsDrawn
           /\ Drawn(row, picked).deadline = row.deadline
           /\ Drawn(row, picked).fulfilment = row.fulfilment
  BY DEF Drawn, OrderRow, Holders

\* The change of a claim or a release is one a patch could make.
LEMMA JobSetTyped ==
    ASSUME NEW job \in Jobs, NEW person \in Holders
    PROVE  JobSet(job, person) \in Patch
  BY DEF JobSet, Patch

\* What the starting steps need of the tables and the request bodies.
LEMMA NewRowTyped ==
    ASSUME NEW u \in Users, NEW draft \in Drafts
    PROVE  NewRow(u, draft) \in OrderRow
  BY BodyAssumption DEF NewRow, OrderRow, Draft, Owners

-----------------------------------------------------------------------------
\* A request received or answered leaves every slot typed.
LEMMA ReceiveTyped ==
    ASSUME reqs \in [Requests -> Request], NEW q \in Requests,
           NEW r \in Request, Receive(q, r)
    PROVE  reqs' \in [Requests -> Request]
  BY DEF Receive
LEMMA AnswerTyped ==
    ASSUME reqs \in [Requests -> Request], NEW q \in Requests, Answer(q)
    PROVE  reqs' \in [Requests -> Request]
  BY DEF Answer, Request

\* The step that receives a request changes no table.
LEMMA StartTyped ==
    ASSUME TypeOK, NEW q \in Requests, Start(q)
    PROVE  TypeOK'
<1> USE DEF TypeOK
<1>1. UNCHANGED <<now, tables>>
  BY DEF Start, Create, Patching, Claim, Release, Remove, AddItem, PatchItem,
         RemoveItem, SetItemPaid, ForgetUser
<1>2. \/ minted' = minted
      \/ Create(q) \/ AddItem(q)
  BY DEF Start, Patching, Claim, Release, Remove, PatchItem, RemoveItem,
         SetItemPaid, ForgetUser
<1>3. minted' \subseteq Orders \cup Items
  BY <1>2 DEF Create, AddItem
<1>4. reqs' \in [Requests -> Request]
  <2>1. CASE Create(q)
    <3>1. PICK u \in accounts, draft \in Drafts, o \in Orders \ minted :
             Receive(q, [pc |-> "insertOrder", order |-> o, row |-> NewRow(u, draft)])
      BY <2>1 DEF Create
    <3>2. [pc |-> "insertOrder", order |-> o, row |-> NewRow(u, draft)] \in Request
      BY NewRowTyped DEF Request
    <3>. QED  BY <3>1, <3>2, ReceiveTyped
  <2>2. CASE Patching(q)
    <3>1. PICK u \in accounts, o \in DOMAIN orders, set \in Patches :
             Receive(q, [pc |-> "updateOrder", route |-> "patch", order |-> o,
                         actor |-> u, set |-> set])
      BY <2>2 DEF Patching
    <3>2. [pc |-> "updateOrder", route |-> "patch", order |-> o,
           actor |-> u, set |-> set] \in Request
      BY BodyAssumption DEF Request
    <3>. QED  BY <3>1, <3>2, ReceiveTyped
  <2>3. CASE Claim(q)
    <3>1. PICK u \in accounts, o \in DOMAIN orders, job \in Jobs :
             Receive(q, [pc |-> "updateOrder", route |-> "claim", order |-> o,
                         actor |-> u, set |-> JobSet(job, u)])
      BY <2>3 DEF Claim
    <3>2. JobSet(job, u) \in Patch
      BY JobSetTyped DEF Holders
    <3>3. [pc |-> "updateOrder", route |-> "claim", order |-> o,
           actor |-> u, set |-> JobSet(job, u)] \in Request
      BY <3>2 DEF Request
    <3>. QED  BY <3>1, <3>3, ReceiveTyped
  <2>4. CASE Release(q)
    <3>1. PICK u \in accounts, o \in DOMAIN orders, job \in Jobs :
             Receive(q, [pc |-> "updateOrder", route |-> "release", order |-> o,
                         actor |-> u, set |-> JobSet(job, Nobody)])
      BY <2>4 DEF Release
    <3>2. JobSet(job, Nobody) \in Patch
      BY JobSetTyped DEF Holders
    <3>3. [pc |-> "updateOrder", route |-> "release", order |-> o,
           actor |-> u, set |-> JobSet(job, Nobody)] \in Request
      BY <3>2 DEF Request
    <3>. QED  BY <3>1, <3>3, ReceiveTyped
  <2>5. CASE Remove(q)
    <3>1. PICK o \in DOMAIN orders : Receive(q, [pc |-> "deleteOrder", order |-> o])
      BY <2>5 DEF Remove
    <3>2. [pc |-> "deleteOrder", order |-> o] \in Request
      BY DEF Request
    <3>. QED  BY <3>1, <3>2, ReceiveTyped
  <2>6. CASE AddItem(q)
    <3>1. PICK u \in accounts, o \in DOMAIN orders, m \in MenuItems,
               c \in Contents, i \in Items \ minted :
             Receive(q, [pc |-> "checkItem", item |-> i,
                         row |-> [order |-> o, user |-> u, menuItem |-> m,
                                  content |-> c, paid |-> FALSE]])
      BY <2>6 DEF AddItem
    <3>2. [pc |-> "checkItem", item |-> i,
           row |-> [order |-> o, user |-> u, menuItem |-> m,
                    content |-> c, paid |-> FALSE]] \in Request
      BY DEF Request, ItemRow, Owners
    <3>. QED  BY <3>1, <3>2, ReceiveTyped
  <2>7. CASE PatchItem(q)
    <3>1. PICK u \in accounts, i \in DOMAIN items, c \in Contents :
             Receive(q, [pc |-> "updateItem", item |-> i, actor |-> u,
                         content |-> c])
      BY <2>7 DEF PatchItem
    <3>2. [pc |-> "updateItem", item |-> i, actor |-> u, content |-> c] \in Request
      BY DEF Request
    <3>. QED  BY <3>1, <3>2, ReceiveTyped
  <2>8. CASE RemoveItem(q)
    <3>1. PICK i \in DOMAIN items : Receive(q, [pc |-> "deleteItem", item |-> i])
      BY <2>8 DEF RemoveItem
    <3>2. [pc |-> "deleteItem", item |-> i] \in Request
      BY DEF Request
    <3>. QED  BY <3>1, <3>2, ReceiveTyped
  <2>9. CASE SetItemPaid(q)
    <3>1. PICK u \in accounts, i \in DOMAIN items, paid \in BOOLEAN :
             Receive(q, [pc |-> "setPaid", item |-> i, actor |-> u, paid |-> paid])
      BY <2>9 DEF SetItemPaid
    <3>2. [pc |-> "setPaid", item |-> i, actor |-> u, paid |-> paid] \in Request
      BY DEF Request
    <3>. QED  BY <3>1, <3>2, ReceiveTyped
  <2>10. CASE ForgetUser(q)
    <3>1. PICK u \in accounts \ {Root} :
             Receive(q, [pc |-> "removeItems", user |-> u, stamp |-> now,
                         reassigned |-> {i \in OwnedBy(u) : Expired(i, now)}])
      BY <2>10 DEF ForgetUser
    <3>2. [pc |-> "removeItems", user |-> u, stamp |-> now,
           reassigned |-> {i \in OwnedBy(u) : Expired(i, now)}] \in Request
      BY DEF Request, OwnedBy
    <3>. QED  BY <3>1, <3>2, ReceiveTyped
  <2>. QED  BY <2>1, <2>2, <2>3, <2>4, <2>5, <2>6, <2>7, <2>8, <2>9, <2>10 DEF Start
<1>. QED  BY <1>1, <1>3, <1>4 DEF tables

\* What a request in flight holds, and its next value when a step moves it on.
LEMMA ProceedTyped ==
    ASSUME TypeOK, NEW q \in Requests, Proceed(q)
    PROVE  TypeOK'
<1> USE DEF TypeOK
<1>1. reqs[q] \in Request
  OBVIOUS
<1>2. CASE InsertOrder(q)
  <2>1. reqs' \in [Requests -> Request]
    BY <1>2, AnswerTyped DEF InsertOrder
  <2>2. DOMAIN orders' \subseteq Orders /\ orders' \in [DOMAIN orders' -> OrderRow]
    <3>1. reqs[q].order \in Orders /\ reqs[q].row \in OrderRow
      BY <1>1, <1>2, RequestShape DEF InsertOrder
    <3>2. CASE orders' = With(orders, reqs[q].order, reqs[q].row)
      BY <3>1, <3>2 DEF With
    <3>. QED  BY <1>2, <3>2 DEF InsertOrder
  <2>. QED  BY <1>2, <2>1, <2>2 DEF InsertOrder
<1>3. CASE UpdateOrder(q)
  <2>1. reqs' \in [Requests -> Request]
    BY <1>3, AnswerTyped DEF UpdateOrder
  <2>2. DOMAIN orders' \subseteq Orders /\ orders' \in [DOMAIN orders' -> OrderRow]
    <3>1. reqs[q].set \in Patch
      BY <1>1, <1>3, RequestShape DEF UpdateOrder
    <3>2. CASE /\ reqs[q].order \in DOMAIN orders
               /\ orders' = [orders EXCEPT ![reqs[q].order] = Changed(@, reqs[q].set)]
      <4>1. Changed(orders[reqs[q].order], reqs[q].set) \in OrderRow
        BY <3>1, <3>2, ChangedTyped
      <4>. QED  BY <3>2, <4>1
    <3>. QED  BY <1>3, <3>2 DEF UpdateOrder, Accepts
  <2>. QED  BY <1>3, <2>1, <2>2 DEF UpdateOrder
<1>4. CASE DeleteOrder(q)
  <2>1. reqs' \in [Requests -> Request]
    BY <1>4, AnswerTyped DEF DeleteOrder
  <2>2. /\ DOMAIN orders' \subseteq Orders /\ orders' \in [DOMAIN orders' -> OrderRow]
        /\ DOMAIN items' \subseteq Items /\ items' \in [DOMAIN items' -> ItemRow]
    BY <1>4 DEF DeleteOrder, DropOrders, Without, Restrict
  <2>. QED  BY <1>4, <2>1, <2>2 DEF DeleteOrder
<1>5. CASE CheckItem(q)
  <2>1. reqs' \in [Requests -> Request]
    <3>1. CASE Continue(q, "insertItem")
      <4>1. [reqs[q] EXCEPT !.pc = "insertItem"] \in Request
        BY <1>1, <1>5 DEF CheckItem, Request, Idle
      <4>. QED  BY <3>1, <4>1 DEF Continue
    <3>. QED  BY <1>5, <3>1, AnswerTyped DEF CheckItem
  <2>. QED  BY <1>5, <2>1 DEF CheckItem, tables
<1>6. CASE InsertItem(q)
  <2>1. reqs' \in [Requests -> Request]
    <3>1. CASE Continue(q, "commitItem")
      <4>1. [reqs[q] EXCEPT !.pc = "commitItem"] \in Request
        BY <1>1, <1>6 DEF InsertItem, Request, Idle
      <4>. QED  BY <3>1, <4>1 DEF Continue
    <3>. QED  BY <1>6, <3>1, AnswerTyped DEF InsertItem
  <2>. QED  BY <1>6, <2>1 DEF InsertItem, tables
<1>7. CASE CommitItem(q)
  <2>1. reqs' \in [Requests -> Request]
    BY <1>7, AnswerTyped DEF CommitItem
  <2>2. reqs[q].item \in Items /\ reqs[q].row \in ItemRow
    BY <1>1, <1>7, RequestShape DEF CommitItem
  <2>3. DOMAIN items' \subseteq Items /\ items' \in [DOMAIN items' -> ItemRow]
    BY <1>7, <2>2 DEF CommitItem, With
  <2>. QED  BY <1>7, <2>1, <2>3 DEF CommitItem
<1>8. CASE UpdateItem(q)
  <2>1. reqs' \in [Requests -> Request]
    BY <1>8, AnswerTyped DEF UpdateItem
  <2>2. reqs[q].content \in Contents
    BY <1>1, <1>8, RequestShape DEF UpdateItem
  <2>3. DOMAIN items' \subseteq Items /\ items' \in [DOMAIN items' -> ItemRow]
    BY <1>8, <2>2 DEF UpdateItem, Updatable, ItemRow
  <2>. QED  BY <1>8, <2>1, <2>3 DEF UpdateItem
<1>9. CASE DeleteItem(q)
  <2>1. reqs' \in [Requests -> Request]
    BY <1>9, AnswerTyped DEF DeleteItem
  <2>2. DOMAIN items' \subseteq Items /\ items' \in [DOMAIN items' -> ItemRow]
    BY <1>9 DEF DeleteItem, Without, Restrict
  <2>. QED  BY <1>9, <2>1, <2>2 DEF DeleteItem
<1>10. CASE SetOrderItemPaid(q)
  <2>1. reqs' \in [Requests -> Request]
    BY <1>10, AnswerTyped DEF SetOrderItemPaid
  <2>2. reqs[q].paid \in BOOLEAN
    BY <1>1, <1>10, RequestShape DEF SetOrderItemPaid
  <2>3. DOMAIN items' \subseteq Items /\ items' \in [DOMAIN items' -> ItemRow]
    BY <1>10, <2>2 DEF SetOrderItemPaid, Updatable, ItemRow
  <2>. QED  BY <1>10, <2>1, <2>3 DEF SetOrderItemPaid
<1>11. CASE RemoveItems(q)
  <2>1. /\ reqs[q].user \in Users \ {Root}
        /\ reqs[q].reassigned \subseteq Items
    BY <1>1, <1>11, RequestShape DEF RemoveItems
  <2>2. PICK removed \in SUBSET Items :
           reqs' = [reqs EXCEPT ![q] =
                      [pc |-> "deleteUser", user |-> reqs[q].user,
                       reassigned |-> reqs[q].reassigned, removed |-> removed]]
    BY <1>11 DEF RemoveItems, OwnedBy
  <2>3. [pc |-> "deleteUser", user |-> reqs[q].user,
         reassigned |-> reqs[q].reassigned, removed |-> removed] \in Request
    BY <2>1 DEF Request
  <2>4. reqs' \in [Requests -> Request]
    BY <2>2, <2>3
  <2>. QED  BY <1>11, <2>4 DEF RemoveItems, tables
<1>12. CASE DeleteUser(q)
  <2>1. reqs' \in [Requests -> Request]
    BY <1>12, AnswerTyped DEF DeleteUser
  <2>2. CASE /\ accounts' = accounts \ {reqs[q].user}
             /\ orders' = OrdersWithout(reqs[q].user)
             /\ items' = ItemsWithout(reqs[q].user, reqs[q].removed)
    <3>1. DOMAIN orders' \subseteq Orders /\ orders' \in [DOMAIN orders' -> OrderRow]
      BY <2>2 DEF OrdersWithout, OrderRow, Owners, Holders
    <3>2. DOMAIN items' \subseteq Items /\ items' \in [DOMAIN items' -> ItemRow]
      BY <2>2 DEF ItemsWithout, ItemRow, Owners
    <3>3. reqs[q].user # Root
      BY <1>1, <1>12, RequestShape DEF DeleteUser
    <3>. QED  BY <1>12, <2>1, <2>2, <3>1, <3>2, <3>3 DEF DeleteUser
  <2>. QED  BY <1>12, <2>1, <2>2 DEF DeleteUser
<1>. QED  BY <1>2, <1>3, <1>4, <1>5, <1>6, <1>7, <1>8, <1>9, <1>10, <1>11, <1>12
          DEF Proceed

\* The steps of no request, and the end of one.
LEMMA BackgroundTyped ==
    ASSUME TypeOK, Draw \/ Cleanup \/ RemoveRestaurant \/ Tick
    PROVE  TypeOK'
<1> USE DEF TypeOK
<1>1. CASE Draw
  <2>1. PICK picked \in [Due -> Holders] :
           orders' = [o \in DOMAIN orders |-> IF o \in Due
                                             THEN Drawn(orders[o], picked[o])
                                             ELSE orders[o]]
    BY <1>1 DEF Draw
  <2>2. \A o \in Due : Drawn(orders[o], picked[o]) \in OrderRow
    BY DrawnTyped DEF Due
  <2>3. orders' \in [DOMAIN orders -> OrderRow] /\ DOMAIN orders' = DOMAIN orders
    BY <2>1, <2>2
  <2>. QED  BY <1>1, <2>3 DEF Draw
<1>2. CASE Cleanup
  BY <1>2 DEF Cleanup, DropOrders, Without, Restrict
<1>3. CASE RemoveRestaurant
  BY <1>3 DEF RemoveRestaurant
<1>4. CASE Tick
  BY <1>4 DEF Tick, tables
<1>. QED  BY <1>1, <1>2, <1>3, <1>4

LEMMA AbortTyped ==
    ASSUME TypeOK, NEW q \in Requests, Abort(q)
    PROVE  TypeOK'
  BY AnswerTyped DEF Abort, TypeOK, tables

LEMMA InitTyped == Init => TypeOK
  BY PeopleAssumption DEF Init, TypeOK, Request

LEMMA StepTyped == TypeOK /\ [Next]_vars => TypeOK'
<1> SUFFICES ASSUME TypeOK, [Next]_vars PROVE TypeOK'
  OBVIOUS
<1>1. CASE UNCHANGED vars
  BY <1>1 DEF TypeOK, vars
<1>. QED  BY <1>1, StartTyped, ProceedTyped, AbortTyped, BackgroundTyped DEF Next

\* Every row and every request in flight keeps its type, whatever handlers,
\* draws and cleanups run and in whatever order.
THEOREM TypeCorrect == Spec => []TypeOK
<1>. QED  BY InitTyped, StepTyped, PTL DEF Spec

-----------------------------------------------------------------------------
\* Referential integrity.  NoDangling alone is not inductive: an item is
\* committed on the word of a check made when it was inserted, so the rows its
\* foreign keys hold must still be there.  SharedRowsStay says they are.
Integrity == NoDangling /\ SharedRowsStay

\* Receiving a request changes no table and commits nothing.
LEMMA StartIntegrity ==
    ASSUME TypeOK, Integrity, NEW q \in Requests, Start(q)
    PROVE  Integrity'
<1>1. UNCHANGED tables
  BY DEF Start, Create, Patching, Claim, Release, Remove, AddItem, PatchItem,
         RemoveItem, SetItemPaid, ForgetUser, tables
<1>2. \A p \in Requests : reqs'[p] = reqs[p] \/ reqs'[p].pc # "commitItem"
  BY DEF TypeOK, Start, Create, Patching, Claim, Release, Remove, AddItem,
         PatchItem, RemoveItem, SetItemPaid, ForgetUser, Receive
<1>. QED  BY <1>1, <1>2 DEF Integrity, NoDangling, SharedRowsStay, tables

\* A request that ends leaves the others as they were.
LEMMA AnswerOthers ==
    ASSUME TypeOK, NEW q \in Requests, Answer(q)
    PROVE  \A p \in Requests : reqs'[p].pc = "commitItem" =>
               p # q /\ reqs'[p] = reqs[p]
  BY DEF TypeOK, Answer, Idle

\* Orders and items go together, and never under an uncommitted item.
LEMMA DropIntegrity ==
    ASSUME TypeOK, Integrity, NEW gone, DropOrders(gone), accounts' = accounts,
           \A o \in gone : ~OrderShared(o),
           \A p \in Requests : reqs'[p].pc = "commitItem" => reqs'[p] = reqs[p]
    PROVE  Integrity'
<1>1. \A o \in DOMAIN orders' : o \in DOMAIN orders \ gone /\ orders'[o] = orders[o]
  BY DEF DropOrders, Without, Restrict
<1>2. DOMAIN orders' = DOMAIN orders \ gone
  BY DEF DropOrders, Without, Restrict
<1>3. \A i \in DOMAIN items' : /\ i \in DOMAIN items /\ items'[i] = items[i]
                              /\ items[i].order \notin gone
  BY DEF DropOrders, Without, Restrict
<1>4. NoDangling'
  BY <1>1, <1>2, <1>3 DEF Integrity, NoDangling
<1>5. SharedRowsStay'
  BY <1>2 DEF Integrity, SharedRowsStay, OrderShared
<1>. QED  BY <1>4, <1>5 DEF Integrity

\* What the statements of a request do to the references.
LEMMA ProceedIntegrity ==
    ASSUME TypeOK, Integrity, NEW q \in Requests, Proceed(q)
    PROVE  Integrity'
<1>1. reqs[q] \in Request
  BY DEF TypeOK
<1>2. CASE InsertOrder(q)
  <2>1. SharedRowsStay'
    BY <1>2, AnswerOthers DEF InsertOrder, Integrity, SharedRowsStay, With
  <2>2. NoDangling'
    <3>1. reqs[q].row \in OrderRow
      BY <1>1, <1>2, RequestShape DEF InsertOrder
    <3>2. \A j \in Jobs : reqs[q].row.holder[j] # Same
      BY <3>1, SameAssumption DEF OrderRow
    <3>3. CASE Insertable(reqs[q].row) /\ orders' = With(orders, reqs[q].order, reqs[q].row)
      BY <1>2, <3>2, <3>3
         DEF InsertOrder, Insertable, NamesPeople, With, Integrity, NoDangling
    <3>4. CASE UNCHANGED orders
      BY <1>2, <3>4 DEF InsertOrder, Integrity, NoDangling
    <3>. QED  BY <1>2, <3>3, <3>4 DEF InsertOrder
  <2>. QED  BY <2>1, <2>2 DEF Integrity
<1>3. CASE UpdateOrder(q)
  <2>1. DOMAIN orders' = DOMAIN orders
    BY <1>3 DEF UpdateOrder
  <2>2. SharedRowsStay'
    BY <1>3, <2>1, AnswerOthers DEF UpdateOrder, Integrity, SharedRowsStay
  <2>3. NoDangling'
    <3>1. CASE /\ Accepts(reqs[q].order, reqs[q].actor, reqs[q].set)
               /\ orders' = [orders EXCEPT ![reqs[q].order] = Changed(@, reqs[q].set)]
      <4>1. reqs[q].set \in Patch
        BY <1>1, <1>3, RequestShape DEF UpdateOrder
      <4>2. orders[reqs[q].order] \in OrderRow
        BY <3>1 DEF Accepts, TypeOK
      <4> DEFINE new == Changed(orders[reqs[q].order], reqs[q].set)
      <4>3. /\ new.creator = orders[reqs[q].order].creator
            /\ \A j \in Jobs : new.holder[j] \in accounts \cup {Nobody}
        BY <3>1, <4>1, <4>2, ChangedTyped
           DEF Accepts, NamesPeople, Integrity, NoDangling
      <4>4. \A o \in DOMAIN orders : orders'[o] = IF o = reqs[q].order THEN new ELSE orders[o]
        BY <3>1 DEF TypeOK
      <4> HIDE DEF new
      <4>. QED  BY <1>3, <2>1, <4>3, <4>4 DEF UpdateOrder, Integrity, NoDangling
    <3>2. CASE UNCHANGED orders
      BY <1>3, <3>2 DEF UpdateOrder, Integrity, NoDangling
    <3>. QED  BY <1>3, <3>1, <3>2 DEF UpdateOrder
  <2>. QED  BY <2>2, <2>3 DEF Integrity
<1>4. CASE DeleteOrder(q)
  BY <1>4, AnswerOthers, DropIntegrity DEF DeleteOrder, Deletable
<1>5. CASE CheckItem(q)
  <2>1. \A p \in Requests : reqs'[p].pc = "commitItem" => reqs'[p] = reqs[p]
    <3>1. CASE Continue(q, "insertItem")
      BY <1>1, <3>1 DEF Continue, TypeOK, Request, Idle
    <3>. QED  BY <1>5, <3>1, AnswerOthers DEF CheckItem
  <2>2. UNCHANGED <<accounts, orders, items>>
    BY <1>5 DEF CheckItem, tables
  <2>. QED  BY <2>1, <2>2 DEF Integrity, NoDangling, SharedRowsStay
<1>6. CASE InsertItem(q)
  <2>1. NoDangling'
    BY <1>6 DEF InsertItem, tables, Integrity, NoDangling
  <2>2. CASE /\ reqs[q].row.order \in DOMAIN orders /\ reqs[q].row.user \in accounts
             /\ Continue(q, "commitItem")
    <3>1. reqs'[q].row = reqs[q].row
      BY <1>1, <1>6, <2>2 DEF Continue, TypeOK, InsertItem, Request, Idle
    <3>2. \A p \in Requests \ {q} : reqs'[p] = reqs[p]
      BY <2>2 DEF Continue, TypeOK
    <3>. QED  BY <1>6, <2>1, <2>2, <3>1, <3>2
              DEF InsertItem, tables, Integrity, SharedRowsStay
  <2>3. CASE Answer(q)
    BY <1>6, <2>1, <2>3, AnswerOthers DEF InsertItem, tables, Integrity, SharedRowsStay
  <2>. QED  BY <1>6, <2>2, <2>3 DEF InsertItem
<1>7. CASE CommitItem(q)
  <2>1. reqs[q].row.order \in DOMAIN orders /\ reqs[q].row.user \in accounts
    BY <1>7 DEF CommitItem, Integrity, SharedRowsStay
  <2>2. SharedRowsStay'
    BY <1>7, AnswerOthers DEF CommitItem, Integrity, SharedRowsStay
  <2>3. NoDangling'
    BY <1>7, <2>1 DEF CommitItem, With, Integrity, NoDangling
  <2>. QED  BY <2>2, <2>3 DEF Integrity
<1>8. CASE UpdateItem(q) \/ DeleteItem(q) \/ SetOrderItemPaid(q)
  <2>1. UNCHANGED <<accounts, orders>> /\ Answer(q)
    BY <1>8 DEF UpdateItem, DeleteItem, SetOrderItemPaid
  <2>2. \A i \in DOMAIN items' : /\ i \in DOMAIN items
                                /\ items'[i].order = items[i].order
                                /\ items'[i].user = items[i].user
    BY <1>8 DEF UpdateItem, DeleteItem, SetOrderItemPaid, Without, Restrict,
                TypeOK, ItemRow, Updatable
  <2>. QED  BY <2>1, <2>2, AnswerOthers DEF Integrity, NoDangling, SharedRowsStay
<1>9. CASE RemoveItems(q)
  <2>1. \A p \in Requests : reqs'[p].pc = "commitItem" => reqs'[p] = reqs[p]
    BY <1>9 DEF RemoveItems, TypeOK
  <2>. QED  BY <1>9, <2>1 DEF RemoveItems, tables, Integrity, NoDangling, SharedRowsStay
<1>10. CASE DeleteUser(q)
  <2>1. CASE UNCHANGED <<accounts, orders, items>>
    BY <1>10, <2>1, AnswerOthers DEF DeleteUser, Integrity, NoDangling, SharedRowsStay
  <2>2. CASE /\ ~UserShared(reqs[q].user)
             /\ accounts' = accounts \ {reqs[q].user}
             /\ orders' = OrdersWithout(reqs[q].user)
             /\ items' = ItemsWithout(reqs[q].user, reqs[q].removed)
    <3>1. /\ DOMAIN orders' = DOMAIN orders
          /\ \A o \in DOMAIN orders :
               /\ orders'[o].creator \in {orders[o].creator, Deleted} \ {reqs[q].user}
               /\ \A j \in Jobs : orders'[o].holder[j] \in
                                    {orders[o].holder[j], Nobody} \ {reqs[q].user}
      <4>1. reqs[q].user \notin {Deleted, Nobody}
        BY <1>1, <1>10, RequestShape, PeopleAssumption DEF DeleteUser, Owners
      <4>. QED  BY <2>2, <4>1 DEF OrdersWithout, TypeOK, OrderRow
    <3>2. \A i \in DOMAIN items' : /\ i \in DOMAIN items
                                  /\ items'[i].order = items[i].order
                                  /\ items'[i].user \in {items[i].user, Deleted} \ {reqs[q].user}
      <4>1. reqs[q].user # Deleted
        BY <1>1, <1>10, RequestShape, PeopleAssumption DEF DeleteUser
      <4>. QED  BY <2>2, <4>1 DEF ItemsWithout, TypeOK, ItemRow
    <3>3. NoDangling'
      BY <2>2, <3>1, <3>2 DEF Integrity, NoDangling
    <3>4. SharedRowsStay'
      BY <1>10, <2>2, <3>1, AnswerOthers
         DEF DeleteUser, UserShared, Integrity, SharedRowsStay
    <3>. QED  BY <3>3, <3>4 DEF Integrity
  <2>. QED  BY <1>10, <2>1, <2>2 DEF DeleteUser
<1>. QED  BY <1>2, <1>3, <1>4, <1>5, <1>6, <1>7, <1>8, <1>9, <1>10 DEF Proceed

\* The draw names nobody but owners of committed items.
LEMMA DrawIntegrity ==
    ASSUME TypeOK, Integrity, Draw
    PROVE  Integrity'
<1>1. PICK picked \in [Due -> Holders] :
         /\ \A o \in Due : picked[o] \in Picks(o)
         /\ orders' = [o \in DOMAIN orders |-> IF o \in Due
                                             THEN Drawn(orders[o], picked[o])
                                             ELSE orders[o]]
  BY DEF Draw
<1>2. \A o \in Due : picked[o] \in accounts \cup {Nobody}
  BY <1>1 DEF Picks, People, ItemsOf, Integrity, NoDangling
<1>3. \A o \in DOMAIN orders :
         /\ orders'[o].creator = orders[o].creator
         /\ \A j \in Jobs : orders'[o].holder[j] \in accounts \cup {Nobody}
  <2> TAKE o \in DOMAIN orders
  <2>1. orders[o] \in OrderRow /\ \A j \in Jobs : orders[o].holder[j] \in accounts \cup {Nobody}
    BY DEF TypeOK, Integrity, NoDangling
  <2>2. CASE o \in Due
    <3>1. orders'[o] = Drawn(orders[o], picked[o])
      BY <1>1, <2>2
    <3>. QED  BY <1>2, <2>1, <2>2, <3>1, DrawnTyped
  <2>3. CASE o \notin Due
    BY <1>1, <2>1, <2>3
  <2>. QED  BY <2>2, <2>3
<1>4. DOMAIN orders' = DOMAIN orders
  BY <1>1
<1>. QED  BY <1>3, <1>4 DEF Draw, Integrity, NoDangling, SharedRowsStay

LEMMA StepIntegrity == TypeOK /\ Integrity /\ [Next]_vars => Integrity'
<1> SUFFICES ASSUME TypeOK, Integrity, [Next]_vars PROVE Integrity'
  OBVIOUS
<1>1. ASSUME NEW q \in Requests, Abort(q) PROVE Integrity'
  BY <1>1, AnswerOthers DEF Abort, tables, Integrity, NoDangling, SharedRowsStay
<1>2. CASE Cleanup
  BY <1>2, DropIntegrity DEF Cleanup, Deletable
<1>3. CASE RemoveRestaurant \/ Tick \/ UNCHANGED vars
  BY <1>3 DEF RemoveRestaurant, Tick, tables, vars, Integrity, NoDangling, SharedRowsStay
<1>. QED  BY <1>1, <1>2, <1>3, StartIntegrity, ProceedIntegrity, DrawIntegrity DEF Next

\* No row ever names an account or an order that is gone.
THEOREM ReferencesHold == Spec => []NoDangling
<1>1. Init => Integrity
  BY DEF Init, Integrity, NoDangling, SharedRowsStay, Idle
<1>2. Integrity => NoDangling
  BY DEF Integrity
<1>. QED  BY <1>1, <1>2, InitTyped, StepTyped, StepIntegrity, PTL DEF Spec

\* While an item is inserted and not committed, its order and its owner stay.
THEOREM SharedRowsHold == Spec => []SharedRowsStay
<1>1. Init => Integrity
  BY DEF Init, Integrity, NoDangling, SharedRowsStay, Idle
<1>2. Integrity => SharedRowsStay
  BY DEF Integrity
<1>. QED  BY <1>1, <1>2, InitTyped, StepTyped, StepIntegrity, PTL DEF Spec

-----------------------------------------------------------------------------
\* What holds of every row of food_order by itself.  An order is inserted some
\* steps after its body was checked, so the row on its way is part of the
\* invariant; a patch needs no such part, because the CHECK sees the row it
\* leaves.
Fit(row) == /\ DeadlineFirst(row)
            /\ ~row.jobsDrawn => \A j \in Jobs : ~row.drawn[j]
RowsFit == /\ \A o \in DOMAIN orders : Fit(orders[o])
           /\ \A q \in Requests : reqs[q].pc = "insertOrder" => Fit(reqs[q].row)

LEMMA StartFit ==
    ASSUME TypeOK, RowsFit, NEW q \in Requests, Start(q)
    PROVE  RowsFit'
<1>1. UNCHANGED orders
  BY DEF Start, Create, Patching, Claim, Release, Remove, AddItem, PatchItem,
         RemoveItem, SetItemPaid, ForgetUser, tables
<1>2. \A p \in Requests : reqs'[p].pc = "insertOrder" => Fit(reqs'[p].row)
  <2>1. CASE Create(q)
    <3>1. PICK u \in accounts, draft \in Drafts, o \in Orders \ minted :
             /\ DeadlineFirst(draft)
             /\ Receive(q, [pc |-> "insertOrder", order |-> o, row |-> NewRow(u, draft)])
      BY <2>1 DEF Create
    <3>2. Fit(NewRow(u, draft))
      BY <3>1 DEF Fit, NewRow, DeadlineFirst
    <3>. QED  BY <3>1, <3>2 DEF Receive, RowsFit, TypeOK
  <2>2. CASE ~Create(q)
    <3>1. \A p \in Requests : reqs'[p] = reqs[p] \/ reqs'[p].pc # "insertOrder"
      BY <2>2 DEF TypeOK, Start, Patching, Claim, Release, Remove, AddItem,
                  PatchItem, RemoveItem, SetItemPaid, ForgetUser, Receive
    <3>. QED  BY <3>1 DEF RowsFit
  <2>. QED  BY <2>1, <2>2
<1>. QED  BY <1>1, <1>2 DEF RowsFit, Fit, DeadlineFirst

\* A step that puts no order on its way and leaves fit rows fit.
LEMMA OthersFit ==
    ASSUME RowsFit,
           \A p \in Requests : reqs'[p].pc = "insertOrder" => reqs'[p] = reqs[p],
           \A o \in DOMAIN orders' : Fit(orders'[o])
    PROVE  RowsFit'
  BY DEF RowsFit, Fit, DeadlineFirst

\* The statements of a request put no order on its way.
LEMMA ProceedKeepsInserts ==
    ASSUME TypeOK, NEW q \in Requests, Proceed(q)
    PROVE  \A p \in Requests : reqs'[p].pc = "insertOrder" => reqs'[p] = reqs[p]
<1>1. reqs[q] \in Request
  BY DEF TypeOK
<1>2. CASE CheckItem(q) \/ InsertItem(q)
  BY <1>1, <1>2 DEF CheckItem, InsertItem, Continue, Answer, TypeOK, Request, Idle
<1>3. CASE RemoveItems(q)
  BY <1>3 DEF RemoveItems, TypeOK
<1>4. CASE Answer(q)
  BY <1>4 DEF Answer, Idle, TypeOK
<1>. QED  BY <1>2, <1>3, <1>4
          DEF Proceed, InsertOrder, UpdateOrder, DeleteOrder, CommitItem,
              UpdateItem, DeleteItem, SetOrderItemPaid, DeleteUser

LEMMA ProceedFit ==
    ASSUME TypeOK, RowsFit, NEW q \in Requests, Proceed(q)
    PROVE  RowsFit'
<1>1. reqs[q] \in Request
  BY DEF TypeOK
<1>2. \A o \in DOMAIN orders' : Fit(orders'[o])
  <2>1. CASE UNCHANGED orders
    BY <2>1 DEF RowsFit
  <2>2. CASE InsertOrder(q) /\ orders' # orders
    BY <2>2 DEF InsertOrder, With, RowsFit
  <2>3. CASE UpdateOrder(q) /\ orders' # orders
    <3> DEFINE new == Changed(orders[reqs[q].order], reqs[q].set)
    <3>1. /\ Accepts(reqs[q].order, reqs[q].actor, reqs[q].set)
          /\ orders' = [orders EXCEPT ![reqs[q].order] = new]
      BY <2>3 DEF UpdateOrder
    <3>2. reqs[q].set \in Patch /\ orders[reqs[q].order] \in OrderRow
      BY <1>1, <2>3, <3>1, RequestShape DEF UpdateOrder, Accepts, TypeOK
    <3>3. Fit(new)
      <4>1. new.drawn = orders[reqs[q].order].drawn
            /\ new.jobsDrawn = orders[reqs[q].order].jobsDrawn
        BY <3>2, ChangedTyped
      <4>2. DeadlineFirst(new) /\ reqs[q].order \in DOMAIN orders
        BY <3>1 DEF Accepts
      <4> HIDE DEF new
      <4>. QED  BY <4>1, <4>2 DEF Fit, RowsFit
    <3> HIDE DEF new
    <3>4. \A o \in DOMAIN orders : orders'[o] = IF o = reqs[q].order THEN new ELSE orders[o]
      BY <3>1 DEF TypeOK
    <3>. QED  BY <3>1, <3>3, <3>4 DEF RowsFit
  <2>4. CASE DeleteOrder(q)
    BY <2>4 DEF DeleteOrder, DropOrders, Without, Restrict, RowsFit
  <2>5. CASE DeleteUser(q) /\ orders' # orders
    <3>1. /\ DOMAIN orders' = DOMAIN orders
          /\ \A o \in DOMAIN orders :
               /\ orders'[o].deadline = orders[o].deadline
               /\ orders'[o].fulfilment = orders[o].fulfilment
               /\ orders'[o].drawn = orders[o].drawn
               /\ orders'[o].jobsDrawn = orders[o].jobsDrawn
      <4>1. orders' = OrdersWithout(reqs[q].user)
        BY <2>5 DEF DeleteUser
      <4>2. \A o \in DOMAIN orders : orders[o] \in OrderRow
        BY DEF TypeOK
      <4>. QED  BY <4>1, <4>2 DEF OrdersWithout, OrderRow
    <3>. QED  BY <3>1 DEF RowsFit, Fit, DeadlineFirst
  <2>. QED  BY <2>1, <2>2, <2>3, <2>4, <2>5
            DEF Proceed, CheckItem, InsertItem, CommitItem, UpdateItem,
                DeleteItem, SetOrderItemPaid, RemoveItems, tables
<1>. QED  BY <1>2, ProceedKeepsInserts, OthersFit

LEMMA DrawFit ==
    ASSUME TypeOK, RowsFit, Draw
    PROVE  RowsFit'
<1>1. PICK picked \in [Due -> Holders] :
         orders' = [o \in DOMAIN orders |-> IF o \in Due
                                           THEN Drawn(orders[o], picked[o])
                                           ELSE orders[o]]
  BY DEF Draw
<1>2. \A o \in DOMAIN orders' : Fit(orders'[o])
  <2> TAKE o \in DOMAIN orders'
  <2>1. o \in DOMAIN orders /\ orders[o] \in OrderRow /\ Fit(orders[o])
    BY <1>1 DEF TypeOK, RowsFit
  <2>2. CASE o \in Due
    <3>1. orders'[o] = Drawn(orders[o], picked[o]) /\ picked[o] \in Holders
      BY <1>1, <2>1, <2>2
    <3>. QED  BY <2>1, <3>1, DrawnTyped DEF Fit, DeadlineFirst
  <2>3. CASE o \notin Due
    BY <1>1, <2>1, <2>3
  <2>. QED  BY <2>2, <2>3
<1>. QED  BY <1>2, OthersFit DEF Draw

LEMMA StepFit == TypeOK /\ RowsFit /\ [Next]_vars => RowsFit'
<1> SUFFICES ASSUME TypeOK, RowsFit, [Next]_vars PROVE RowsFit'
  OBVIOUS
<1>1. ASSUME NEW q \in Requests, Abort(q) PROVE RowsFit'
  BY <1>1, OthersFit DEF Abort, Answer, Idle, tables, TypeOK, RowsFit
<1>2. CASE Cleanup
  BY <1>2, OthersFit DEF Cleanup, DropOrders, Without, Restrict, RowsFit
<1>3. CASE RemoveRestaurant \/ Tick \/ UNCHANGED vars
  BY <1>3, OthersFit DEF RemoveRestaurant, Tick, tables, vars, RowsFit
<1>. QED  BY <1>1, <1>2, <1>3, StartFit, ProceedFit, DrawFit DEF Next

LEMMA RowsStayFit == Spec => []RowsFit
<1>1. Init => RowsFit
  BY DEF Init, RowsFit, Idle
<1>. QED  BY <1>1, InitTyped, StepTyped, StepFit, PTL DEF Spec

\* F5.3: patches that were valid one at a time never put the deadline of an
\* order at or after its fulfilment.
THEOREM TimesOrdered == Spec => []DeadlineBeforeFulfilment
<1>1. RowsFit => DeadlineBeforeFulfilment
  BY DEF RowsFit, Fit, DeadlineBeforeFulfilment
<1>. QED  BY <1>1, RowsStayFit, PTL

\* F5.10a: an order not yet drawn has no flag that says a job was drawn.
THEOREM FlagsFollowDraw == Spec => []NoFlagBeforeDraw
<1>1. RowsFit => NoFlagBeforeDraw
  BY DEF RowsFit, Fit, NoFlagBeforeDraw
<1>. QED  BY <1>1, RowsStayFit, PTL
=============================================================================
