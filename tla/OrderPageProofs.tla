-------------------------- MODULE OrderPageProofs --------------------------
(***************************************************************************)
(* The pages that show an order are type correct, hold one subscription,   *)
(* offer what the server accepts and read what they are told of: for any   *)
(* people, jobs, deadlines, streams, reads, changes and faults.            *)
(***************************************************************************)
EXTENDS OrderPage, SequenceTheorems, TLAPS

\* What can be read has not been deleted.
Living(r) == Header(r) => r.order.alive

\* Before the page is drawn nothing is under way, and nothing it has been told of is owed;
\* a control is pressed on a page that is there.
PageInv ==
    /\ page \in {"reading", "live"} => shown # Nothing
    /\ page \in {"loading", "reading"} => owed = 0
    /\ page # "live" => pressed = Nothing
    /\ Living(shown) /\ Living(second)
    /\ page = "live" /\ place = "order" => chat.open = Participates(shown, shown.as)

\* Only the order page of a visitor who is still on it subscribes.
Active == {s \in Streams : streams[s].state \notin {"unused", "closed"}}
StreamInv == OneSubscription /\ (place # "order" => Active = {})

\* Nobody has been told of a change that was not made.
Announced == {e \in Events : IF e.kind = "message" THEN e.count <= lines
                                                   ELSE e.version <= order.version}
PressedOf == IF pressed # Nothing /\ pressed.then \in {"delete", "chat", "read"}
             THEN {pressed.version} ELSE {}
ToldInv ==
    /\ \A s \in Streams : streams[s].queue \in Seq(Announced)
    /\ owed <= order.version /\ chat.owed <= lines
    /\ \A v \in PressedOf : v <= order.version

\* The read r will settle what the page owes of the order, or say that it failed.
Settles(r) ==
    /\ r.of = "order"
    /\ r.answer.answered /\ r.answer.ok => owed <= r.answer.brings.order.version
SettlesChat(r) ==
    /\ r.of = "chat"
    /\ r.answer.answered /\ r.answer.ok => chat.owed <= r.answer.brings
AnswersAlive ==
    \A r \in BagToSet(reads) :
        r.of # "chat" /\ r.answer.answered /\ r.answer.ok => r.answer.brings.order.alive
OrderRead == owed = 0 \/ said \/ \E r \in BagToSet(reads) : Settles(r)
ChatRead == chat.open => \/ chat.said
                         \/ chat.messages # NotRead /\ chat.owed = 0
                         \/ \E r \in BagToSet(reads) : SettlesChat(r)
ReadInv == page = "live" /\ place = "order" => OrderRead /\ ChatRead

Inv == TypeOK /\ PageInv /\ StreamInv /\ ToldInv /\ AnswersAlive /\ ReadInv

-----------------------------------------------------------------------------
(* Bags, by what they hold. *)

LEMMA BagFacts ==
    ASSUME NEW B, NEW x
    PROVE  /\ BagToSet(BagAdd(B, x)) = BagToSet(B) \cup {x}
           /\ BagToSet(BagRemove(B, x)) \subseteq BagToSet(B)
           /\ BagToSet(B) \ {x} \subseteq BagToSet(BagRemove(B, x))
<1>1. BagToSet(BagAdd(B, x)) = BagToSet(B) \cup {x}
  <2>1. CASE x \in DOMAIN B
    BY <2>1 DEF BagAdd, BagToSet
  <2>2. CASE x \notin DOMAIN B
    BY <2>2 DEF BagAdd, BagToSet
  <2>. QED  BY <2>1, <2>2
<1>2. /\ BagToSet(BagRemove(B, x)) \subseteq BagToSet(B)
      /\ BagToSet(B) \ {x} \subseteq BagToSet(BagRemove(B, x))
  <2>1. CASE x \notin DOMAIN B
    BY <2>1 DEF BagRemove, BagToSet
  <2>2. CASE x \in DOMAIN B /\ B[x] = 1
    BY <2>2 DEF BagRemove, BagToSet
  <2>3. CASE x \in DOMAIN B /\ B[x] # 1
    BY <2>3 DEF BagRemove, BagToSet
  <2>. QED  BY <2>1, <2>2, <2>3
<1>. QED  BY <1>1, <1>2

LEMMA NoReads == BagToSet(EmptyBag) = {}
BY DEF EmptyBag, BagToSet, SetToBag

-----------------------------------------------------------------------------
(* The server. *)

ServerTyped ==
    /\ order \in Orders /\ lines \in Count /\ clock \in 0..LastTime
    /\ cookie \in People \cup {Nobody}

\* The order and its chat grow.
Grows ==
    /\ ServerTyped' /\ order.version <= order'.version /\ lines <= lines'

LEMMA ControlFacts ==
    ASSUME NEW c \in Control
    PROVE  /\ c.act \in {"take", "release"} => c.on \in Jobs
           /\ c.act \in {"take", "release", "change", "tick", "dish", "edit", "delete",
                         "summary", "chat"}
BY DEF Control

LEMMA AfterTyped ==
    ASSUME ServerTyped, NEW c \in Control, NEW u \in People, After(c, u),
           order.version + 1 <= MaxChanges
    PROVE  order' \in Orders /\ (order' = order \/ order'.version = order.version + 1)
<1> DEFINE next == [order EXCEPT !.version = order.version + 1]
           Typed == order' \in Orders /\ order'.version = order.version + 1
<1>1. \/ c.act = "take" /\ order' = [next EXCEPT !.holder[c.on] = u]
      \/ c.act = "release" /\ order' = IF order.holder[c.on] = Nobody THEN order
                                       ELSE [next EXCEPT !.holder[c.on] = Nobody]
      \/ c.act = "change" /\ order' \in {next, [next EXCEPT !.owners = @ \ {c.on}]}
      \/ c.act = "tick" /\ order' = next
      \/ c.act = "dish" /\ order' = [next EXCEPT !.owners = @ \cup {u}]
      \/ c.act = "edit" /\ \E t \in Times : t > clock /\ order' = [next EXCEPT !.at = t]
      \/ c.act = "delete" /\ order' = [next EXCEPT !.alive = FALSE]
  BY Zenon DEF After
<1>2. order.version \in Nat /\ order.version + 1 \in 0..MaxChanges
  BY BoundAssumption DEF ServerTyped, Orders
<1>3. next \in Orders /\ next.version = order.version + 1
  BY <1>2 DEF ServerTyped, Orders
<1> HIDE DEF next
<1>4. CASE c.act = "take" /\ order' = [next EXCEPT !.holder[c.on] = u]
  BY <1>3, <1>4, ControlFacts DEF Orders
<1>5. CASE c.act = "release" /\ order' = [next EXCEPT !.holder[c.on] = Nobody]
  BY <1>3, <1>5, ControlFacts DEF Orders
<1>6. CASE order' = [next EXCEPT !.owners = @ \ {c.on}]
  BY <1>3, <1>6 DEF Orders
<1>7. CASE order' = [next EXCEPT !.owners = @ \cup {u}]
  BY <1>3, <1>7 DEF Orders
<1>8. ASSUME NEW t \in Times, order' = [next EXCEPT !.at = t]
      PROVE  Typed
  BY <1>3, <1>8 DEF Orders
<1>9. CASE order' = [next EXCEPT !.alive = FALSE]
  BY <1>3, <1>9 DEF Orders
<1>10. CASE order' \in {order, next}
  BY <1>3, <1>10 DEF ServerTyped
<1>. QED  BY <1>1, <1>4, <1>5, <1>6, <1>7, <1>8, <1>9, <1>10, Zenon

LEMMA ChangeGrows ==
    ASSUME ServerTyped, NEW c \in Control, NEW u \in People, Change(c, u),
           UNCHANGED <<clock, cookie>>
    PROVE  Grows
<1>1. lines \in Nat /\ order.version \in Nat /\ lines + order.version < MaxChanges
  BY BoundAssumption DEF ServerTyped, Orders, Count, Change
<1>2. CASE c.act = "chat"
  BY <1>1, <1>2, BoundAssumption DEF Change, Grows, ServerTyped, Count
<1>3. CASE c.act # "chat"
  <2>1. order.version + 1 <= MaxChanges
    BY <1>1, BoundAssumption
  <2>2. order' \in Orders /\ (order' = order \/ order'.version = order.version + 1)
    BY <1>3, <2>1, AfterTyped DEF Change
  <2>. QED  BY <1>1, <1>3, <2>2 DEF Change, Grows, ServerTyped
<1>. QED  BY <1>2, <1>3

-----------------------------------------------------------------------------
(* The streams. *)

StreamsTyped == streams \in [Streams -> Subscriptions]
QueuesTold == \A s \in Streams : streams[s].queue \in Seq(Announced)

\* Whatever is handed to a stream has happened.
KeptStreams == StreamsTyped' /\ QueuesTold' /\ Active' = Active

LEMMA SeqGrows ==
    ASSUME NEW S, NEW T, S \subseteq T, NEW q \in Seq(S)
    PROVE  q \in Seq(T)
<1>1. Len(q) \in Nat /\ q = [i \in 1..Len(q) |-> q[i]] /\ \A i \in 1..Len(q) : q[i] \in T
  OBVIOUS
<1>. QED  BY <1>1, IsASeq

LEMMA AnnouncedGrows ==
    ASSUME ServerTyped, Grows
    PROVE  Announced \subseteq Announced'
<1>1. /\ lines \in Nat /\ lines' \in Nat /\ lines <= lines'
      /\ order.version \in Nat /\ order'.version \in Nat /\ order.version <= order'.version
  BY BoundAssumption DEF Grows, ServerTyped, Orders, Count
<1>2. ASSUME NEW e \in Announced
      PROVE  e \in Announced'
  <2>1. CASE e.kind = "message"
    <3>1. e \in Events /\ e.count \in Nat
      BY <2>1, BoundAssumption DEF Announced, Events, Count
    <3>. QED  BY <1>1, <2>1, <3>1 DEF Announced
  <2>2. CASE e.kind # "message"
    <3>1. e \in Events /\ e.version \in Nat
      BY <2>2, BoundAssumption DEF Announced, Events, Count
    <3>. QED  BY <1>1, <2>2, <3>1 DEF Announced
  <2>. QED  BY <2>1, <2>2
<1>. QED  BY <1>2

Handed(is, was, e) == is = [was EXCEPT !.queue = Append(@, e)]

LEMMA HandedFacts ==
    ASSUME NEW was \in Subscriptions, NEW e \in Events, NEW S, was.queue \in Seq(S), e \in S,
           NEW is, Handed(is, was, e)
    PROVE  is \in Subscriptions /\ is.state = was.state /\ is.queue \in Seq(S)
<1>1. was.queue \in Seq(Events)
  BY DEF Subscriptions
<1>2. Append(was.queue, e) \in Seq(Events) /\ Append(was.queue, e) \in Seq(S)
  BY <1>1, AppendProperties
<1> DEFINE q == Append(was.queue, e)
<1>3. is = [was EXCEPT !.queue = q]
  BY DEF Handed
<1> HIDE DEF q
<1>. QED  BY <1>2, <1>3 DEF Subscriptions, q

LEMMA StreamsHanded ==
    ASSUME ServerTyped, Grows, StreamsTyped, QueuesTold, NEW e \in Events, e \in Announced',
           streams' = [s \in Streams |-> streams'[s]],
           \A s \in Streams : streams'[s] = streams[s] \/ Handed(streams'[s], streams[s], e)
    PROVE  KeptStreams
<1>1. ASSUME NEW s \in Streams
      PROVE  /\ streams'[s] \in Subscriptions /\ streams'[s].state = streams[s].state
             /\ streams'[s].queue \in Seq(Announced')
  <2>1. streams[s] \in Subscriptions /\ streams[s].queue \in Seq(Announced')
    BY AnnouncedGrows, SeqGrows DEF StreamsTyped, QueuesTold
  <2>. QED  BY <2>1, HandedFacts
<1>2. StreamsTyped' /\ QueuesTold'
  BY <1>1 DEF StreamsTyped, QueuesTold
<1>3. Active' = Active
  BY <1>1 DEF Active
<1>. QED  BY <1>2, <1>3 DEF KeptStreams

LEMMA StreamsSame ==
    ASSUME ServerTyped, Grows, StreamsTyped, QueuesTold, streams' = streams
    PROVE  KeptStreams
BY AnnouncedGrows, SeqGrows DEF KeptStreams, StreamsTyped, QueuesTold, Active

LEMMA ChangeStreams ==
    ASSUME ServerTyped, StreamsTyped, QueuesTold, NEW c \in Control, NEW u \in People,
           Change(c, u), Grows
    PROVE  KeptStreams
<1>1. CASE c.act = "chat"
  <2> DEFINE e == [kind |-> "message", count |-> lines + 1]
  <2>1. e \in Events /\ e \in Announced'
    <3>1. lines' = lines + 1 /\ lines' \in Count
      BY <1>1 DEF Change, Grows, ServerTyped
    <3>2. lines' \in Nat
      BY <3>1, BoundAssumption DEF Count
    <3>. QED  BY <3>1, <3>2 DEF Events, Announced
  <2>2. streams' = Published(e)
    BY <1>1 DEF Change
  <2>3. /\ streams' = [s \in Streams |-> streams'[s]]
        /\ \A s \in Streams : streams'[s] = streams[s] \/ Handed(streams'[s], streams[s], e)
    BY <2>2 DEF Published, Handed
  <2> HIDE DEF e
  <2>. QED  BY <2>1, <2>3, StreamsHanded
<1>2. CASE c.act # "chat" /\ order' # order
  <2> DEFINE e == [kind |-> IF order'.alive THEN "changed" ELSE "deleted",
                   version |-> order'.version]
  <2>1. e \in Events /\ e \in Announced'
    <3>1. order'.version \in Count /\ order'.version \in Nat
      BY BoundAssumption DEF Grows, ServerTyped, Orders, Count
    <3>. QED  BY <3>1 DEF Events, Announced
  <2>2. streams' = Published(e)
    BY <1>2 DEF Change
  <2>3. /\ streams' = [s \in Streams |-> streams'[s]]
        /\ \A s \in Streams : streams'[s] = streams[s] \/ Handed(streams'[s], streams[s], e)
    BY <2>2 DEF Published, Handed
  <2> HIDE DEF e
  <2>. QED  BY <2>1, <2>3, StreamsHanded
<1>3. CASE c.act # "chat" /\ order' = order
  BY <1>3, StreamsSame DEF Change
<1>. QED  BY <1>1, <1>2, <1>3

-----------------------------------------------------------------------------
(* What happens beside the page: in other browsers, on the server and on the *)
(* way; and the press of a control, as long as it is not answered.           *)

Beside ==
    /\ Grows /\ KeptStreams /\ faults' \in 0..MaxFaults
    /\ UNCHANGED <<me, place, page, drawn, said, chat, current, reads, owed>>
    /\ \/ pressed' = pressed
       \/ /\ page = "live" /\ pressed' \in PressRecords
          /\ \A v \in PressedOf' : v <= order'.version

LEMMA Typed ==
    ASSUME Inv
    PROVE  /\ ServerTyped /\ StreamsTyped /\ QueuesTold
           /\ MaxFaults \in Nat /\ faults \in 0..MaxFaults /\ order.version \in Nat
           /\ cookie \in People \cup {Nobody} /\ me \in People \cup {Nobody}
           /\ gone \in BOOLEAN /\ said \in BOOLEAN
BY BoundAssumption DEF Inv, TypeOK, ToldInv, ServerTyped, StreamsTyped, QueuesTold, Orders

LEMMA StillGrows ==
    ASSUME ServerTyped, UNCHANGED <<order, lines, clock>>, cookie' \in People \cup {Nobody}
    PROVE  Grows
<1>1. order.version \in Int /\ lines \in Int
  BY BoundAssumption DEF ServerTyped, Orders, Count
<1>. QED  BY <1>1 DEF Grows, ServerTyped

LEMMA ElsewhereBeside == Inv /\ Elsewhere => Beside
<1> SUFFICES ASSUME Inv, Elsewhere PROVE Beside
  OBVIOUS
<1>1. PICK c \in Control, u \in Others : Change(c, u)
  BY DEF Elsewhere
<1>2. u \in People
  BY PeopleAssumption
<1>3. UNCHANGED <<clock, cookie, me, place, page, drawn, said, chat, current, reads, pressed,
                  owed, faults>>
  BY DEF Elsewhere, who
<1>4. Grows /\ KeptStreams
  BY <1>1, <1>2, <1>3, Typed, ChangeGrows, ChangeStreams
<1>. QED  BY <1>3, <1>4, Typed DEF Beside

LEMMA PressBeside == Inv /\ (\E c \in Control : Press(c)) => Beside
<1> SUFFICES ASSUME Inv, NEW c \in Control, Press(c) PROVE Beside
  OBVIOUS
<1>1. UNCHANGED <<clock, cookie, me, place, page, drawn, said, chat, current, reads, owed,
                  faults>>
  BY DEF Press, who
<1>2. page = "live"
  BY DEF Press, Offered
<1>3. CASE Allowed(c, cookie)
  <2>1. Change(c, cookie) /\ pressed' = [then |-> AfterSuccess(c), version |-> order'.version]
    BY <1>3 DEF Press
  <2>2. cookie \in People
    BY <1>3, Typed DEF Allowed
  <2>3. Grows /\ KeptStreams
    BY <1>1, <2>1, <2>2, Typed, ChangeGrows, ChangeStreams
  <2>4. order'.version \in Count /\ order'.version \in Nat
    BY <2>3, BoundAssumption DEF Grows, ServerTyped, Orders, Count
  <2>5. AfterSuccess(c) \in {"delete", "chat", "read"}
    BY DEF AfterSuccess
  <2>6. pressed' \in PressRecords /\ pressed'.version = order'.version
    BY <2>1, <2>4, <2>5 DEF PressRecords
  <2>7. \A v \in PressedOf' : v <= order'.version
    BY <2>4, <2>6 DEF PressedOf
  <2>. QED  BY <1>1, <1>2, <2>3, <2>6, <2>7, Typed DEF Beside
<1>4. CASE ~Allowed(c, cookie)
  <2>1. pressed' = [then |-> AfterFailure(c)] /\ UNCHANGED <<order, lines, streams>>
    BY <1>4 DEF Press
  <2>2. Grows /\ KeptStreams
    BY <1>1, <2>1, Typed, StillGrows, StreamsSame
  <2>3. pressed' \in PressRecords /\ pressed'.then \in {"say", "put back"}
    BY <2>1 DEF AfterFailure, PressRecords
  <2>4. PressedOf' = {}
    BY <2>3 DEF PressedOf
  <2>. QED  BY <1>1, <1>2, <2>2, <2>3, <2>4, Typed DEF Beside
<1>. QED  BY <1>3, <1>4

LEMMA StrikeBeside == Inv /\ Strike => Beside
<1> SUFFICES ASSUME Inv, Strike PROVE Beside
  OBVIOUS
<1>1. UNCHANGED <<order, lines, cookie, me, place, page, drawn, said, chat, current, reads,
                  pressed, owed, faults>>
  BY DEF Strike, who
<1>2. Grows
  <2>1. clock' \in 0..LastTime
    BY BoundAssumption DEF Strike, Times
  <2>2. order.version \in Int /\ lines \in Int
    BY Typed, BoundAssumption DEF ServerTyped, Count
  <2>. QED  BY <1>1, <2>1, <2>2, Typed DEF Grows, ServerTyped
<1>3. KeptStreams
  <2> DEFINE e == [kind |-> "expired", version |-> order.version]
  <2>1. e \in Events /\ e \in Announced'
    <3>1. order.version \in Count /\ order'.version = order.version /\ order.version \in Nat
      BY <1>1, Typed DEF ServerTyped, Orders, Count
    <3>. QED  BY <3>1 DEF Events, Announced
  <2>2. /\ streams' = [s \in Streams |-> streams'[s]]
        /\ \A s \in Streams : streams'[s] = streams[s] \/ Handed(streams'[s], streams[s], e)
    BY DEF Strike, Handed
  <2> HIDE DEF e
  <2>. QED  BY <1>2, <2>1, <2>2, Typed, StreamsHanded
<1>. QED  BY <1>1, <1>2, <1>3, Typed DEF Beside

LEMMA DrawBeside == Inv /\ Draw => Beside
<1> SUFFICES ASSUME Inv, Draw PROVE Beside
  OBVIOUS
<1>1. UNCHANGED <<lines, clock, cookie, me, place, page, drawn, said, chat, current, reads,
                  pressed, owed, faults>>
  BY DEF Draw, who
<1>2. PICK u \in order.owners :
        order' = [order EXCEPT !.version = @ + 1,
                    !.holder = [job \in Jobs |-> IF order.holder[job] = Nobody
                                                 THEN u ELSE order.holder[job]]]
  BY DEF Draw
<1>3. order.version + 1 \in 0..MaxChanges
  <2>1. lines \in Nat /\ order.version \in Nat /\ order.version + lines < MaxChanges
    BY Typed DEF Draw, ServerTyped, Count
  <2>. QED  BY <2>1, BoundAssumption
<1>4. order' \in Orders /\ order'.version = order.version + 1
  <2> DEFINE h == [job \in Jobs |-> IF order.holder[job] = Nobody
                                    THEN u ELSE order.holder[job]]
  <2>1. h \in [Jobs -> People \cup {Nobody}]
    BY Typed DEF ServerTyped, Orders
  <2>2. order' = [order EXCEPT !.version = @ + 1, !.holder = h]
    BY <1>2
  <2> HIDE DEF h
  <2>. QED  BY <1>3, <2>1, <2>2, Typed DEF ServerTyped, Orders
<1>5. Grows
  <2>1. lines \in Int
    BY Typed DEF ServerTyped, Count
  <2>. QED  BY <1>1, <1>4, <2>1, Typed DEF Grows, ServerTyped
<1>6. KeptStreams
  <2> DEFINE e == [kind |-> "changed", version |-> order'.version]
  <2>1. e \in Events /\ e \in Announced'
    <3>1. order'.version \in Count /\ order'.version \in Nat
      BY <1>4, BoundAssumption DEF Orders, Count
    <3>. QED  BY <3>1 DEF Events, Announced
  <2>2. streams' = Published(e)
    BY DEF Draw
  <2>3. /\ streams' = [s \in Streams |-> streams'[s]]
        /\ \A s \in Streams : streams'[s] = streams[s] \/ Handed(streams'[s], streams[s], e)
    BY <2>2 DEF Published, Handed
  <2> HIDE DEF e
  <2>. QED  BY <1>5, <2>1, <2>3, Typed, StreamsHanded
<1>. QED  BY <1>1, <1>5, <1>6, Typed DEF Beside

\* A stream moves on, and stays what it is to the page.
LEMMA StreamMoved ==
    ASSUME Inv, Grows, NEW s \in Streams, NEW r \in Subscriptions,
           streams' = [streams EXCEPT ![s] = r], r.queue \in {<<>>, streams[s].queue},
           r.state \notin {"unused", "closed"}, s \in Active
    PROVE  KeptStreams
<1>1. r.queue \in Seq(Announced)
  <2>1. streams[s].queue \in Seq(Announced) /\ <<>> \in Seq(Announced)
    BY Typed, EmptySeq DEF QueuesTold
  <2>. QED  BY <2>1
<1>2. StreamsTyped' /\ \A q \in Streams : streams'[q].queue \in Seq(Announced)
  BY <1>1, Typed DEF StreamsTyped, QueuesTold
<1>3. QueuesTold'
  BY <1>2, Typed, AnnouncedGrows, SeqGrows DEF QueuesTold
<1>4. Active' = Active
  BY Typed DEF StreamsTyped, Active
<1>. QED  BY <1>2, <1>3, <1>4 DEF KeptStreams

LEMMA StreamBeside ==
    ASSUME Inv, NEW s \in Streams, Drop(s) \/ Refuse(s) \/ Retry(s)
    PROVE  Beside
<1>1. UNCHANGED <<order, lines, clock, cookie, me, place, page, drawn, said, chat, current,
                  reads, pressed, owed>>
  BY DEF Drop, Refuse, Retry, Stay, server, who
<1>2. Grows
  BY <1>1, Typed, StillGrows
<1>3. faults' \in 0..MaxFaults
  BY Typed DEF Drop, Refuse, Retry, Stay
<1>4. streams[s] \in Subscriptions /\ s \in Active
  BY Typed DEF StreamsTyped, Active, Drop, Refuse, Retry
<1>5. KeptStreams
  <2>1. CASE Drop(s)
    <3> DEFINE r == [streams[s] EXCEPT !.state = "connecting", !.queue = <<>>, !.armed = 0,
                                       !.signed = FALSE]
    <3>1. streams' = [streams EXCEPT ![s] = r]
      BY <2>1, Typed DEF Drop, StreamsTyped
    <3>2. r \in Subscriptions /\ r.queue = <<>> /\ r.state = "connecting"
      <4>1. <<>> \in Seq(Events) /\ 0 \in 0..LastTime /\ "connecting" \in StreamStates
        BY EmptySeq, BoundAssumption DEF StreamStates
      <4>. QED  BY <1>4, <4>1 DEF Subscriptions
    <3> HIDE DEF r
    <3>. QED  BY <1>2, <1>4, <3>1, <3>2, StreamMoved
  <2>2. ASSUME NEW state \in {"waiting", "connecting"},
               streams' = [streams EXCEPT ![s].state = state]
        PROVE  KeptStreams
    <3> DEFINE r == [streams[s] EXCEPT !.state = state]
    <3>1. streams' = [streams EXCEPT ![s] = r]
      BY <2>2, Typed DEF StreamsTyped
    <3>2. r \in Subscriptions /\ r.queue = streams[s].queue /\ r.state = state
      BY <1>4 DEF Subscriptions, StreamStates
    <3> HIDE DEF r
    <3>. QED  BY <1>2, <1>4, <3>1, <3>2, StreamMoved
  <2>. QED  BY <2>1, <2>2 DEF Refuse, Retry, NewStream
<1>. QED  BY <1>1, <1>2, <1>3, <1>5 DEF Beside

LEMMA SessionBeside == Inv /\ SessionEnds => Beside
<1> SUFFICES ASSUME Inv, SessionEnds PROVE Beside
  OBVIOUS
<1>1. /\ UNCHANGED <<order, lines, clock, me, place, page, drawn, said, chat, streams, current,
                     reads, pressed, owed>>
      /\ cookie' = Nobody /\ faults' \in 0..MaxFaults
  BY Typed DEF SessionEnds, server
<1>. QED  BY <1>1, Typed, StillGrows, StreamsSame DEF Beside

LEMMA PressedTyped ==
    ASSUME Inv
    PROVE  PressedOf \subseteq Count
<1>1. CASE pressed \in PressRecords
  BY <1>1 DEF PressedOf, PressRecords
<1>2. CASE pressed = Nothing
  BY <1>2 DEF PressedOf
<1>. QED  BY <1>1, <1>2 DEF Inv, TypeOK

\* What the page has read and asked for stays as good as it was.
LEMMA BesideKeeps == Inv /\ Beside => Inv'
<1> SUFFICES ASSUME Inv, Beside PROVE Inv'
  OBVIOUS
<1>1. UNCHANGED <<me, place, page, shown, second, gone, menuAt, said, chat, current, reads,
                  owed>>
  BY DEF Beside, drawn
<1>2. /\ order.version \in Nat /\ order'.version \in Nat /\ order.version <= order'.version
      /\ lines \in Nat /\ lines' \in Nat /\ lines <= lines'
      /\ owed \in Nat /\ chat.owed \in Nat
  BY Typed, BoundAssumption DEF Beside, Grows, ServerTyped, Orders, Count, Inv, TypeOK
<1>3. TypeOK'
  <2>1. pressed' \in {Nothing} \cup PressRecords
    BY DEF Beside, Inv, TypeOK
  <2>2. ServerTyped' /\ StreamsTyped' /\ faults' \in 0..MaxFaults
    BY DEF Beside, Grows, KeptStreams
  <2>. QED  BY <1>1, <2>1, <2>2 DEF Inv, TypeOK, ServerTyped, StreamsTyped
<1>4. PageInv'
  <2>1. page # "live" => pressed' = Nothing
    BY DEF Beside, Inv, PageInv
  <2>. QED  BY <1>1, <2>1 DEF Inv, PageInv, Living, Header, Participates, Detail
<1>5. StreamInv'
  <2>1. Active' = Active
    BY DEF Beside, KeptStreams
  <2>. QED  BY <1>1, <2>1 DEF Inv, StreamInv, OneSubscription, Active
<1>6. ToldInv'
  <2>1. \A v \in PressedOf' : v <= order'.version
    <3>1. CASE pressed' = pressed
      <4>1. PressedOf' = PressedOf
        BY <3>1 DEF PressedOf
      <4>2. PressedOf \subseteq Nat
        BY PressedTyped, BoundAssumption DEF Count
      <4>. QED  BY <1>2, <4>1, <4>2 DEF Inv, ToldInv
    <3>. QED  BY <3>1 DEF Beside
  <2>2. QueuesTold'
    BY DEF Beside, KeptStreams
  <2>. QED  BY <1>1, <1>2, <2>1, <2>2 DEF Inv, ToldInv, QueuesTold
<1>7. AnswersAlive'
  BY <1>1 DEF Inv, AnswersAlive
<1>8. ReadInv'
  BY <1>1 DEF Inv, ReadInv, OrderRead, ChatRead, Settles, SettlesChat
<1>. QED  BY <1>3, <1>4, <1>5, <1>6, <1>7, <1>8 DEF Inv

-----------------------------------------------------------------------------
(* What is asked for, and what that settles. *)

Fresh(of) == [of |-> of, answer |-> NoAnswer]
FreshReads == {Fresh(of) : of \in {"order", "summary", "chat"}}

\* More may be asked for, and nothing asked for is forgotten.
Adds(rs, was) == /\ BagToSet(was) \subseteq BagToSet(rs)
                 /\ BagToSet(rs) \subseteq BagToSet(was) \cup FreshReads

LEMMA FreshFacts ==
    ASSUME NEW of \in {"order", "summary", "chat"}
    PROVE  /\ Fresh(of) \in ReadRecords /\ Fresh(of) \in FreshReads
           /\ Fresh(of).of = of /\ ~Fresh(of).answer.answered
BY DEF Fresh, FreshReads, ReadRecords, Answers, NoAnswer

LEMMA AskAdds ==
    ASSUME NEW rs, NEW of \in {"order", "summary", "chat"}
    PROVE  Adds(Ask(rs, of), rs) /\ Fresh(of) \in BagToSet(Ask(rs, of))
<1>1. BagToSet(Ask(rs, of)) = BagToSet(rs) \cup {Fresh(of)}
  BY BagFacts DEF Ask, Fresh
<1>. QED  BY <1>1, FreshFacts DEF Adds

LEMMA ReloadAdds ==
    ASSUME NEW rs, NEW r
    PROVE  /\ Adds(Reload(rs, r), rs)
           /\ Participates(r, me) => Fresh("chat") \in BagToSet(Reload(rs, r))
           /\ ~Participates(r, me) => Reload(rs, r) = rs
<1>1. CASE Participates(r, me)
  <2>1. Reload(rs, r) = Ask(rs, "chat")
    BY <1>1 DEF Reload, AskIf
  <2>. QED  BY <1>1, <2>1, AskAdds
<1>2. CASE ~Participates(r, me)
  <2>1. Reload(rs, r) = rs
    BY <1>2 DEF Reload, AskIf
  <2>. QED  BY <1>2, <2>1 DEF Adds
<1>. QED  BY <1>1, <1>2

ReadsTyped == BagToSet(reads) \subseteq ReadRecords

\* A read that has just been asked brings nothing yet.
LEMMA ReadsKeep ==
    ASSUME Inv, BagToSet(reads') \subseteq BagToSet(reads) \cup FreshReads
    PROVE  ReadsTyped' /\ AnswersAlive'
<1>1. \A r \in FreshReads : r \in ReadRecords /\ ~r.answer.answered
  BY FreshFacts DEF FreshReads
<1>. QED  BY <1>1 DEF Inv, TypeOK, ReadsTyped, AnswersAlive

LEMMA OrderAsked ==
    ASSUME Fresh("order") \in BagToSet(reads')
    PROVE  OrderRead'
BY FreshFacts DEF OrderRead, Settles

LEMMA ChatAsked ==
    ASSUME Fresh("chat") \in BagToSet(reads')
    PROVE  ChatRead'
BY FreshFacts DEF ChatRead, SettlesChat

LEMMA OrderReadSame ==
    ASSUME OrderRead, BagToSet(reads) \subseteq BagToSet(reads'), UNCHANGED <<owed, said>>
    PROVE  OrderRead'
BY DEF OrderRead, Settles

LEMMA ChatReadSame ==
    ASSUME ChatRead, BagToSet(reads) \subseteq BagToSet(reads'), UNCHANGED chat
    PROVE  ChatRead'
BY DEF ChatRead, SettlesChat

ChatRecords == [messages : Count \cup {NotRead}, open : BOOLEAN, said : BOOLEAN, owed : Count]

\* The status line of the chat is cleared only by what reads the chat again.
LEMMA ChatCleared ==
    ASSUME chat \in ChatRecords, chat' = ClearedChat(shown)
    PROVE  /\ chat' \in ChatRecords /\ chat'.open = chat.open /\ chat'.owed = chat.owed
           /\ ~Participates(shown, me) => chat' = chat
<1>1. PICK b \in BOOLEAN : b = Participates(shown, me)
  BY DEF Participates
<1>2. chat' = [chat EXCEPT !.said = chat.said /\ ~b]
  BY <1>1 DEF ClearedChat
<1>. QED  BY <1>1, <1>2 DEF ChatRecords

LEMMA ChatReloaded ==
    ASSUME chat \in ChatRecords, ChatRead, NEW rs, Adds(rs, reads),
           reads' = Reload(rs, shown), chat' = ClearedChat(shown)
    PROVE  ChatRead'
<1>1. BagToSet(reads) \subseteq BagToSet(reads')
  BY ReloadAdds DEF Adds
<1>2. CASE Participates(shown, me)
  BY <1>2, ReloadAdds, ChatAsked
<1>3. CASE ~Participates(shown, me)
  BY <1>1, <1>3, ChatCleared, ChatReadSame
<1>. QED  BY <1>2, <1>3

\* What is drawn from an order that has been read.
LEMMA DrawnFacts ==
    ASSUME Inv, NEW b, b.order \in Orders, b.detail \in BOOLEAN
    PROVE  /\ DrawnNow(b) \in Drawn /\ DrawnNow(b) # Nothing /\ DrawnNow(b).as = me
           /\ DrawnNow(b).order = b.order /\ DrawnNow(b).detail = b.detail
           /\ b.order.alive => Living(DrawnNow(b))
<1>1. (clock < b.order.at) \in BOOLEAN /\ me \in People \cup {Nobody}
  BY Typed
<1>. QED  BY <1>1 DEF DrawnNow, Drawn, Nothing, Living, Header

LEMMA SnapshotFacts ==
    ASSUME Inv
    PROVE  Snapshot \in [order : Orders, detail : BOOLEAN] /\ Snapshot.order = order
BY Typed DEF Snapshot, ServerTyped

\* The streams, when nothing is sent on them and nothing changes beside the page.
LEMMA Still ==
    ASSUME Inv, UNCHANGED <<order, lines, clock, cookie, streams>>
    PROVE  StreamsTyped' /\ QueuesTold' /\ Active' = Active
BY Typed, StillGrows, StreamsSame DEF KeptStreams

-----------------------------------------------------------------------------
(* The answers. *)

\* The answer tells of everything the page has been told of.
LEMMA AnswerKeeps == ASSUME Inv, NEW r \in BagToSet(reads), Answer(r) PROVE Inv'
<1>1. /\ UNCHANGED <<order, lines, clock, cookie, me, place, page, shown, second, gone, menuAt,
                     said, chat, streams, current, pressed, owed>>
      /\ faults' \in 0..MaxFaults /\ r.answer = NoAnswer /\ r \in ReadRecords
  BY Typed DEF Answer, server, who, drawn, Inv, TypeOK
<1>2. PICK a : /\ reads' = BagAdd(BagRemove(reads, r), [r EXCEPT !.answer = a])
               /\ a \in {Reply(r.of), Failed}
  BY DEF Answer
<1>3. /\ order \in Orders /\ lines \in Count /\ owed \in Nat /\ chat.owed \in Nat
      /\ order.version \in Nat /\ lines \in Nat
      /\ owed <= order.version /\ chat.owed <= lines
  BY Typed, BoundAssumption DEF Inv, TypeOK, ToldInv, ServerTyped, Count
<1>4. \/ a = Failed
      \/ /\ a = [answered |-> TRUE, ok |-> TRUE,
                  brings |-> IF r.of = "chat" THEN lines ELSE Snapshot]
         /\ order.alive
  BY <1>2 DEF Reply
<1>5. /\ a.answered
      /\ a.ok => /\ r.of = "chat" => a.brings = lines
                 /\ r.of # "chat" => a.brings = Snapshot /\ order.alive
      /\ r.of = "chat" => a \in Answers(Count)
      /\ r.of # "chat" => a \in Answers([order : Orders, detail : BOOLEAN])
  <2>1. CASE a = Failed
    BY <2>1 DEF Failed, Answers
  <2>2. CASE r.of = "chat" /\ a = [answered |-> TRUE, ok |-> TRUE, brings |-> lines]
    BY <1>3, <2>2 DEF Answers
  <2>3. CASE r.of # "chat" /\ a = [answered |-> TRUE, ok |-> TRUE, brings |-> Snapshot]
    <3>1. order.alive
      BY <1>4, <2>3 DEF Failed
    <3>. QED  BY <2>3, <3>1, SnapshotFacts DEF Answers
  <2>. QED  BY <1>4, <2>1, <2>2, <2>3
<1> DEFINE q == [r EXCEPT !.answer = a]
<1>6. q \in ReadRecords /\ q.of = r.of /\ q.answer = a
  BY <1>1, <1>5 DEF ReadRecords
<1>7. /\ BagToSet(reads') \subseteq BagToSet(reads) \cup {q}
      /\ BagToSet(reads) \ {r} \subseteq BagToSet(reads') /\ q \in BagToSet(reads')
  <2>1. BagToSet(reads') = BagToSet(BagRemove(reads, r)) \cup {q}
    BY <1>2, BagFacts
  <2>. QED  BY <2>1, BagFacts
<1> HIDE DEF q
<1>8. TypeOK'
  BY <1>1, <1>6, <1>7 DEF Inv, TypeOK
<1>9. PageInv'
  BY <1>1 DEF Inv, PageInv, Living, Header, Participates, Detail
<1>10. StreamInv'
  BY <1>1 DEF Inv, StreamInv, OneSubscription, Active
<1>11. ToldInv'
  <2>1. QueuesTold' /\ PressedOf' = PressedOf
    BY <1>1, Still DEF PressedOf
  <2>. QED  BY <1>1, <2>1 DEF Inv, ToldInv, QueuesTold
<1>12. AnswersAlive'
  <2>1. q.of # "chat" /\ q.answer.answered /\ q.answer.ok => q.answer.brings.order.alive
    BY <1>5, <1>6, SnapshotFacts
  <2>. QED  BY <1>7, <2>1 DEF Inv, AnswersAlive
<1>13. Settles(r) => Settles(q)
  BY <1>3, <1>5, <1>6, SnapshotFacts DEF Settles
<1>14. SettlesChat(r) => SettlesChat(q)
  BY <1>3, <1>5, <1>6 DEF SettlesChat
<1>15. OrderRead => OrderRead'
  <2>1. CASE owed = 0 \/ said
    BY <1>1, <2>1 DEF OrderRead
  <2>2. ASSUME NEW t \in BagToSet(reads), Settles(t)
        PROVE  OrderRead'
    <3>1. PICK w \in BagToSet(reads') : Settles(w)
      BY <1>7, <1>13, <2>2
    <3>2. Settles(w)'
      BY <1>1, <3>1 DEF Settles
    <3>. QED  BY <3>2 DEF OrderRead
  <2>. QED  BY <2>1, <2>2 DEF OrderRead
<1>16. ChatRead => ChatRead'
  <2>1. CASE ~chat.open \/ chat.said \/ (chat.messages # NotRead /\ chat.owed = 0)
    BY <1>1, <2>1 DEF ChatRead
  <2>2. ASSUME NEW t \in BagToSet(reads), SettlesChat(t)
        PROVE  ChatRead'
    <3>1. PICK w \in BagToSet(reads') : SettlesChat(w)
      BY <1>7, <1>14, <2>2
    <3>2. SettlesChat(w)'
      BY <1>1, <3>1 DEF SettlesChat
    <3>. QED  BY <3>2 DEF ChatRead
  <2>. QED  BY <2>1, <2>2 DEF ChatRead
<1>17. ReadInv'
  BY <1>1, <1>15, <1>16 DEF Inv, ReadInv
<1>. QED  BY <1>8, <1>9, <1>10, <1>11, <1>12, <1>17 DEF Inv

\* What a read brings.
LEMMA AnswerFacts ==
    ASSUME NEW B, NEW a \in Answers(B), a # NoAnswer
    PROVE  a.answered /\ a.ok \in BOOLEAN /\ (a.ok => a.brings \in B)
<1>1. CASE a = Failed
  BY <1>1 DEF Failed
<1>2. CASE a \in [answered : {TRUE}, ok : {TRUE}, brings : B]
  BY <1>2
<1>. QED  BY <1>1, <1>2 DEF Answers

LEMMA ReadFacts ==
    ASSUME Inv, NEW r \in BagToSet(reads), r.answer # NoAnswer
    PROVE  /\ r.of \in {"order", "summary", "chat"}
           /\ r.answer.answered /\ r.answer.ok \in BOOLEAN
           /\ r.answer.ok /\ r.of = "chat" => r.answer.brings \in Count
           /\ r.answer.ok /\ r.of # "chat" => /\ r.answer.brings.order \in Orders
                                             /\ r.answer.brings.detail \in BOOLEAN
                                             /\ r.answer.brings.order.alive
<1> DEFINE a == r.answer
<1>1. \/ r.of \in {"order", "summary"} /\ a \in Answers([order : Orders, detail : BOOLEAN])
      \/ r.of = "chat" /\ a \in Answers(Count)
  BY DEF Inv, TypeOK, ReadRecords
<1>2. r.of # "chat" /\ a.answered /\ a.ok => a.brings.order.alive
  BY DEF Inv, AnswersAlive
<1>3. a # NoAnswer
  OBVIOUS
<1> HIDE DEF a
<1>4. /\ a.answered /\ a.ok \in BOOLEAN
      /\ a.ok /\ r.of = "chat" => a.brings \in Count
      /\ a.ok /\ r.of # "chat" => a.brings \in [order : Orders, detail : BOOLEAN]
  BY <1>1, <1>3, AnswerFacts
<1>5. a.ok /\ r.of # "chat" => /\ a.brings.order \in Orders /\ a.brings.detail \in BOOLEAN
                               /\ a.brings.order.alive
  BY <1>2, <1>4
<1>. QED  BY <1>1, <1>4, <1>5 DEF a

\* Drawing the order opens the chat for whoever takes part now, and asks for it; a read
\* that came too late for what the page has been told of leaves another one under way.
LEMMA OrderArrivesKeeps == ASSUME Inv, NEW r \in BagToSet(reads), OrderArrives(r) PROVE Inv'
<1> DEFINE rest == BagRemove(reads, r)
<1>1. /\ UNCHANGED <<order, lines, clock, cookie, me, place, page, streams, current, pressed,
                     faults>>
      /\ r.of \in {"order", "summary"} /\ r.answer # NoAnswer
      /\ UNCHANGED <<second, menuAt>>
  BY DEF OrderArrives, server, who, drawn
<1>2. /\ BagToSet(rest) \subseteq BagToSet(reads)
      /\ BagToSet(reads) \ {r} \subseteq BagToSet(rest)
  BY BagFacts
<1>3. /\ owed \in Nat /\ owed \in Count /\ order.version \in Nat /\ owed <= order.version
      /\ said \in BOOLEAN /\ chat \in ChatRecords
  BY Typed, BoundAssumption DEF Inv, TypeOK, ToldInv, Count, ChatRecords
<1>4. QueuesTold' /\ PressedOf' = PressedOf /\ StreamsTyped'
  BY <1>1, Still DEF PressedOf
<1>5. StreamInv'
  BY <1>1 DEF Inv, StreamInv, OneSubscription, Active
<1>6. CASE ~r.answer.ok
  <2>1. /\ said' = (said \/ place = "order") /\ reads' = rest
        /\ UNCHANGED <<shown, gone, chat, owed>>
    BY <1>6 DEF OrderArrives, drawn
  <2>2. ReadsTyped' /\ AnswersAlive'
    BY <1>2, <2>1, ReadsKeep
  <2>3. TypeOK'
    BY <1>1, <1>3, <2>1, <2>2 DEF Inv, TypeOK, ReadsTyped
  <2>4. PageInv'
    BY <1>1, <2>1 DEF Inv, PageInv, Living, Header, Participates, Detail
  <2>5. ToldInv'
    BY <1>1, <1>4, <2>1 DEF Inv, ToldInv, QueuesTold
  <2>6. ReadInv'
    <3> SUFFICES ASSUME page = "live", place = "order" PROVE OrderRead' /\ ChatRead'
      BY <1>1 DEF ReadInv
    <3>1. OrderRead'
      BY <2>1 DEF OrderRead
    <3>2. ChatRead
      BY DEF Inv, ReadInv
    <3>3. ChatRead'
      BY <1>1, <1>2, <2>1, <3>2 DEF ChatRead, SettlesChat
    <3>. QED  BY <3>1, <3>3
  <2>. QED  BY <1>5, <2>2, <2>3, <2>4, <2>5, <2>6 DEF Inv
<1>7. CASE r.answer.ok
  <2> DEFINE brought == r.answer.brings
             due == IF brought.order.version >= owed THEN 0 ELSE owed
  <2>1. /\ shown' = DrawnNow(brought) /\ gone' = FALSE /\ owed' = due /\ said' = said
        /\ \/ /\ place = "order" /\ reads' = Opens(shown', rest)
              /\ chat' = [chat EXCEPT !.open = Participates(shown', me),
                                      !.said = @ /\ reads' = rest]
           \/ place # "order" /\ reads' = rest /\ UNCHANGED chat
    BY <1>1, <1>7 DEF OrderArrives
  <2>2. /\ brought.order \in Orders /\ brought.detail \in BOOLEAN
        /\ brought.order.alive /\ brought.order.version \in Nat
    BY <1>1, <1>7, ReadFacts DEF Orders
  <2>3. /\ shown' \in Drawn /\ shown' # Nothing /\ shown'.as = me /\ Living(shown')
    BY <2>1, <2>2, DrawnFacts
  <2>4. Adds(reads', rest)
    <3>1. Adds(rest, rest)
      BY DEF Adds
    <3>. QED  BY <2>1, <3>1, ReloadAdds DEF Opens
  <2>5. /\ BagToSet(reads') \subseteq BagToSet(reads) \cup FreshReads
        /\ BagToSet(reads) \ {r} \subseteq BagToSet(reads')
    BY <1>2, <2>4 DEF Adds
  <2>6. ReadsTyped' /\ AnswersAlive'
    BY <2>5, ReadsKeep
  <2>7. PICK b \in BOOLEAN : b = Participates(shown', me)
    BY DEF Participates
  <2>8. PICK same \in BOOLEAN : same = (reads' = rest)
    OBVIOUS
  <2>9. place = "order" => chat' = [chat EXCEPT !.open = b, !.said = chat.said /\ same]
    BY <2>1, <2>7, <2>8
  <2>10. /\ chat' \in ChatRecords /\ chat'.owed = chat.owed
         /\ chat'.messages = chat.messages
         /\ place = "order" => chat'.open = b /\ chat'.said = (chat.said /\ same)
    BY <1>3, <2>1, <2>9 DEF ChatRecords
  <2>11. owed' \in Nat /\ owed' <= owed /\ owed' \in Count
    <3>1. 0 \in Count
      BY BoundAssumption DEF Count
    <3>. QED  BY <1>3, <2>1, <3>1
  <2> HIDE DEF brought, due, rest
  <2>12. TypeOK'
    BY <1>1, <1>3, <2>1, <2>3, <2>6, <2>10, <2>11
    DEF Inv, TypeOK, ReadsTyped, ChatRecords
  <2>13. PageInv'
    <3>1. page \in {"loading", "reading"} => owed' = 0
      BY <1>3, <2>11 DEF Inv, PageInv
    <3>2. place = "order" => chat'.open = Participates(shown', shown'.as)
      BY <2>3, <2>7, <2>10
    <3>3. Living(second)' /\ Living(shown)' /\ (page # "live" => pressed' = Nothing)
      BY <1>1, <2>3 DEF Inv, PageInv, Living, Header
    <3>. QED  BY <1>1, <2>3, <3>1, <3>2, <3>3 DEF PageInv
  <2>14. ToldInv'
    <3>1. owed' <= order.version
      BY <1>3, <2>11
    <3>. QED  BY <1>1, <1>4, <2>10, <3>1 DEF Inv, ToldInv, QueuesTold
  <2>15. ReadInv'
    <3> SUFFICES ASSUME page = "live", place = "order" PROVE OrderRead' /\ ChatRead'
      BY <1>1 DEF ReadInv
    <3>1. OrderRead /\ ChatRead
      BY DEF Inv, ReadInv
    <3>2. OrderRead'
      <4>1. CASE owed = 0
        BY <1>3, <2>11, <4>1 DEF OrderRead
      <4>2. CASE said
        BY <2>1, <4>2 DEF OrderRead
      <4>3. CASE owed <= brought.order.version
        <5>1. owed' = 0
          BY <1>3, <2>1, <2>2, <4>3 DEF due
        <5>. QED  BY <5>1 DEF OrderRead
      <4>4. ASSUME NEW t \in BagToSet(reads), Settles(t), t # r
            PROVE  OrderRead'
        <5>1. Settles(t)'
          <6>1. ASSUME t.answer.answered, t.answer.ok
                PROVE  owed' <= t.answer.brings.order.version
            <7>1. t.of = "order" /\ t.answer # NoAnswer
              BY <4>4, <6>1 DEF Settles, NoAnswer
            <7>2. t.answer.brings.order.version \in Nat
              BY <6>1, <7>1, ReadFacts DEF Orders
            <7>. QED  BY <1>3, <2>11, <4>4, <6>1, <7>2 DEF Settles
          <6>. QED  BY <4>4, <6>1 DEF Settles
        <5>. QED  BY <2>5, <4>4, <5>1 DEF OrderRead
      <4>5. Settles(r) => owed <= brought.order.version
        BY <1>1, <1>7, ReadFacts DEF Settles, brought
      <4>. QED  BY <3>1, <4>1, <4>2, <4>3, <4>4, <4>5 DEF OrderRead
    <3>3. ChatRead'
      <4>1. CASE chat.open
        <5>1. reads' = rest
          BY <2>1, <4>1 DEF Opens
        <5>2. chat'.said = chat.said
          BY <1>3, <2>8, <2>10, <5>1 DEF ChatRecords
        <5>3. ASSUME NEW t \in BagToSet(reads), SettlesChat(t)
              PROVE  t \in BagToSet(reads') /\ SettlesChat(t)'
          BY <1>1, <2>5, <2>10, <5>3 DEF SettlesChat
        <5>. QED  BY <2>10, <3>1, <4>1, <5>2, <5>3 DEF ChatRead
      <4>2. CASE ~chat.open /\ b
        <5>1. reads' = Reload(rest, shown')
          BY <2>1, <4>2 DEF Opens
        <5>. QED  BY <2>7, <4>2, <5>1, ReloadAdds, ChatAsked
      <4>3. CASE ~b
        BY <2>10, <4>3 DEF ChatRead
      <4>. QED  BY <4>1, <4>2, <4>3
    <3>. QED  BY <3>2, <3>3
  <2>. QED  BY <1>5, <2>6, <2>12, <2>13, <2>14, <2>15 DEF Inv
<1>8. r.answer.ok \in BOOLEAN
  BY <1>1, ReadFacts
<1>. QED  BY <1>6, <1>7, <1>8

\* The lines that are read are all the lines there were, and a failure is said.
LEMMA ChatArrivesKeeps == ASSUME Inv, NEW r \in BagToSet(reads), ChatArrives(r) PROVE Inv'
<1>1. /\ UNCHANGED <<order, lines, clock, cookie, me, place, page, shown, second, gone, menuAt,
                     said, streams, current, pressed, owed, faults>>
      /\ r.of = "chat" /\ r.answer # NoAnswer
      /\ reads' = BagRemove(reads, r)
  BY DEF ChatArrives, server, who, drawn
<1>2. /\ BagToSet(reads') \subseteq BagToSet(reads)
      /\ BagToSet(reads) \ {r} \subseteq BagToSet(reads')
  BY <1>1, BagFacts
<1>3. /\ chat \in ChatRecords /\ chat.owed \in Nat /\ lines \in Nat /\ 0 \in Count
      /\ chat.owed <= lines
  BY Typed, BoundAssumption DEF Inv, TypeOK, ToldInv, ServerTyped, Count, ChatRecords
<1>4. \/ ~r.answer.ok /\ chat' = [chat EXCEPT !.said = TRUE]
      \/ /\ r.answer.ok /\ r.answer.brings \in Count /\ r.answer.brings \in Nat
         /\ chat' = [chat EXCEPT !.messages = r.answer.brings,
                        !.owed = IF r.answer.brings >= chat.owed THEN 0 ELSE chat.owed]
  BY <1>1, ReadFacts DEF ChatArrives, Count
<1>5. /\ chat' \in ChatRecords /\ chat'.open = chat.open
      /\ chat'.owed \in Nat /\ chat'.owed <= chat.owed
      /\ \/ chat'.said
         \/ /\ chat'.said = chat.said /\ chat'.messages # NotRead
            /\ r.answer.ok
            /\ chat.owed = 0 \/ chat.owed <= r.answer.brings => chat'.owed = 0
  <2>1. CASE chat' = [chat EXCEPT !.said = TRUE]
    <3>1. /\ chat' \in ChatRecords /\ chat'.said
          /\ chat'.open = chat.open /\ chat'.owed = chat.owed
      BY <1>3, <2>1 DEF ChatRecords
    <3>. QED  BY <1>3, <3>1
  <2>2. CASE /\ r.answer.ok /\ r.answer.brings \in Count /\ r.answer.brings \in Nat
             /\ chat' = [chat EXCEPT !.messages = r.answer.brings,
                            !.owed = IF r.answer.brings >= chat.owed THEN 0 ELSE chat.owed]
    <3> DEFINE n == IF r.answer.brings >= chat.owed THEN 0 ELSE chat.owed
    <3>1. /\ n \in Count /\ n \in Nat /\ n <= chat.owed
          /\ chat.owed = 0 \/ chat.owed <= r.answer.brings => n = 0
      BY <1>3, <2>2 DEF ChatRecords
    <3>2. chat' = [chat EXCEPT !.messages = r.answer.brings, !.owed = n]
      BY <2>2
    <3> HIDE DEF n
    <3>3. chat' \in ChatRecords /\ chat'.open = chat.open /\ chat'.said = chat.said
      BY <1>3, <2>2, <3>1, <3>2 DEF ChatRecords
    <3>4. chat'.messages = r.answer.brings /\ chat'.owed = n
      BY <1>3, <3>2 DEF ChatRecords
    <3>. QED  BY <2>2, <3>1, <3>3, <3>4 DEF NotRead
  <2>. QED  BY <1>4, <2>1, <2>2
<1>6. ReadsTyped' /\ AnswersAlive'
  BY <1>2, ReadsKeep
<1>7. TypeOK'
  BY <1>1, <1>5, <1>6 DEF Inv, TypeOK, ReadsTyped, ChatRecords
<1>8. PageInv'
  BY <1>1, <1>5 DEF Inv, PageInv, Living, Header, Participates, Detail
<1>9. StreamInv'
  BY <1>1 DEF Inv, StreamInv, OneSubscription, Active
<1>10. ToldInv'
  <2>1. QueuesTold' /\ PressedOf' = PressedOf /\ chat'.owed <= lines
    BY <1>1, <1>3, <1>5, Still DEF PressedOf
  <2>. QED  BY <1>1, <2>1 DEF Inv, ToldInv, QueuesTold
<1>11. ReadInv'
  <2> SUFFICES ASSUME page = "live", place = "order" PROVE OrderRead' /\ ChatRead'
    BY <1>1 DEF ReadInv
  <2>1. OrderRead /\ ChatRead
    BY DEF Inv, ReadInv
  <2>2. OrderRead'
    <3>1. ASSUME NEW t \in BagToSet(reads), Settles(t)
          PROVE  t \in BagToSet(reads') /\ Settles(t)'
      BY <1>1, <1>2, <3>1 DEF Settles
    <3>. QED  BY <1>1, <2>1, <3>1 DEF OrderRead
  <2>3. ChatRead'
    <3>1. CASE ~chat.open
      BY <1>5, <3>1 DEF ChatRead
    <3>2. CASE chat'.said
      BY <3>2 DEF ChatRead
    <3>3. CASE chat.open /\ ~chat'.said
      <4>1. /\ chat'.messages # NotRead /\ ~chat.said /\ r.answer.ok
            /\ chat.owed = 0 \/ chat.owed <= r.answer.brings => chat'.owed = 0
        BY <1>5, <3>3
      <4>2. CASE chat.owed = 0
        BY <4>1, <4>2 DEF ChatRead
      <4>3. CASE SettlesChat(r)
        <5>1. chat.owed <= r.answer.brings
          BY <1>1, <4>1, <4>3, ReadFacts DEF SettlesChat
        <5>. QED  BY <4>1, <5>1 DEF ChatRead
      <4>4. ASSUME NEW t \in BagToSet(reads), SettlesChat(t), t # r
            PROVE  ChatRead'
        <5>1. ASSUME t.answer.answered, t.answer.ok
              PROVE  chat'.owed <= t.answer.brings
          <6>1. t.of = "chat" /\ t.answer # NoAnswer
            BY <4>4, <5>1 DEF SettlesChat, NoAnswer
          <6>2. t.answer.brings \in Nat
            BY <5>1, <6>1, ReadFacts DEF Count
          <6>. QED  BY <1>3, <1>5, <4>4, <5>1, <6>2 DEF SettlesChat
        <5>2. SettlesChat(t)'
          BY <4>4, <5>1 DEF SettlesChat
        <5>. QED  BY <1>2, <4>4, <5>2 DEF ChatRead
      <4>. QED  BY <2>1, <3>3, <4>1, <4>2, <4>3, <4>4 DEF ChatRead
    <3>. QED  BY <3>1, <3>2, <3>3
  <2>. QED  BY <2>2, <2>3
<1>. QED  BY <1>6, <1>7, <1>8, <1>9, <1>10, <1>11 DEF Inv

-----------------------------------------------------------------------------
(* Building the page, and leaving it. *)

LEMMA FetchKeeps == ASSUME Inv, Fetch PROVE Inv'
<1>1. /\ UNCHANGED <<order, lines, clock, cookie, me, place, second, gone, menuAt, said, chat,
                     streams, current, reads, pressed, owed, faults>>
      /\ page = "loading"
      /\ \/ order.alive /\ shown' = DrawnNow(Snapshot) /\ page' = "reading"
         \/ page' = "refused" /\ shown' = shown
  BY DEF Fetch, server, who
<1>2. shown' \in Drawn /\ Living(shown') /\ (page' = "reading" => shown' # Nothing)
  <2>1. CASE order.alive /\ shown' = DrawnNow(Snapshot)
    BY <2>1, SnapshotFacts, DrawnFacts
  <2>2. CASE page' = "refused" /\ shown' = shown
    BY <2>2 DEF Inv, TypeOK, PageInv
  <2>. QED  BY <1>1, <2>1, <2>2
<1>3. TypeOK'
  BY <1>1, <1>2 DEF Inv, TypeOK
<1>4. PageInv'
  BY <1>1, <1>2 DEF Inv, PageInv, Living, Header
<1>5. StreamInv'
  BY <1>1 DEF Inv, StreamInv, OneSubscription, Active
<1>6. ToldInv'
  <2>1. QueuesTold' /\ PressedOf' = PressedOf
    BY <1>1, Still DEF PressedOf
  <2>. QED  BY <1>1, <2>1 DEF Inv, ToldInv, QueuesTold
<1>7. AnswersAlive'
  BY <1>1 DEF Inv, AnswersAlive
<1>8. ReadInv'
  BY <1>1 DEF ReadInv
<1>. QED  BY <1>3, <1>4, <1>5, <1>6, <1>7, <1>8 DEF Inv

\* What has been read is drawn again, with the visitor of that moment.
LEMMA ShownFacts ==
    ASSUME Inv, shown # Nothing
    PROVE  /\ shown.order \in Orders /\ shown.detail \in BOOLEAN /\ shown.order.alive
           /\ shown.order.at \in Times
           /\ DrawnNow(shown) \in Drawn /\ DrawnNow(shown) # Nothing
           /\ Living(DrawnNow(shown)) /\ DrawnNow(shown).as = me
           /\ \A u : Participates(DrawnNow(shown), u) = Participates(shown, u)
<1>1. /\ shown.order \in Orders /\ shown.detail \in BOOLEAN /\ shown.order.alive
      /\ shown.order.at \in Times
  BY DEF Inv, TypeOK, Drawn, PageInv, Living, Header, Orders
<1>2. /\ DrawnNow(shown) \in Drawn /\ DrawnNow(shown) # Nothing
      /\ Living(DrawnNow(shown)) /\ DrawnNow(shown).as = me
      /\ DrawnNow(shown).order = shown.order /\ DrawnNow(shown).detail = shown.detail
  BY <1>1, DrawnFacts
<1>3. \A u : Participates(DrawnNow(shown), u) = Participates(shown, u)
  BY <1>2 DEF Participates, Detail, Header
<1>. QED  BY <1>1, <1>2, <1>3

LEMMA BuildOrderPageKeeps == ASSUME Inv, BuildOrderPage PROVE Inv'
<1>1. /\ UNCHANGED <<order, lines, clock, cookie, me, place, second, gone, said, current,
                     pressed, owed, faults>>
      /\ page = "reading" /\ place = "order" /\ page' = "live"
      /\ shown' = DrawnNow(shown) /\ menuAt' = shown.order.at
      /\ reads' = Reload(reads, shown)
      /\ streams' = NewStream(current)
  BY DEF BuildOrderPage, server, who
<1>2. PICK b \in BOOLEAN : b = Participates(shown, me)
  BY DEF Participates
<1>3. chat \in ChatRecords /\ chat' = [chat EXCEPT !.open = b]
  BY <1>2 DEF BuildOrderPage, Inv, TypeOK, ChatRecords
<1>4. chat' \in ChatRecords /\ chat'.open = b /\ chat'.owed = chat.owed
  BY <1>3 DEF ChatRecords
<1>5. /\ shown # Nothing /\ owed = 0
      /\ current \in Streams /\ Active = {}
  BY <1>1 DEF Inv, TypeOK, PageInv, StreamInv, OneSubscription, Active
<1>6. /\ menuAt' \in Times /\ shown' \in Drawn /\ shown' # Nothing /\ Living(shown')
      /\ shown'.as = me /\ Participates(shown', me) = Participates(shown, me)
  BY <1>1, <1>5, ShownFacts
<1>7. BagToSet(reads') \subseteq BagToSet(reads) \cup FreshReads
  BY <1>1, ReloadAdds DEF Adds
<1>8. ReadsTyped' /\ AnswersAlive'
  BY <1>7, ReadsKeep
<1>9. /\ streams' \in [Streams -> Subscriptions]
      /\ \A s \in Streams : streams'[s].queue = streams[s].queue
      /\ \A s \in Streams \ {current} : streams'[s].state = streams[s].state
  <2> DEFINE r == [streams[current] EXCEPT !.state = "connecting"]
  <2>1. streams' = [streams EXCEPT ![current] = r] /\ streams[current] \in Subscriptions
    BY <1>1, <1>5, Typed DEF NewStream, StreamsTyped
  <2>2. r \in Subscriptions /\ r.queue = streams[current].queue
    BY <2>1 DEF Subscriptions, StreamStates
  <2> HIDE DEF r
  <2>. QED  BY <1>5, <2>1, <2>2, Typed DEF StreamsTyped
<1>10. TypeOK'
  BY <1>1, <1>4, <1>6, <1>8, <1>9 DEF Inv, TypeOK, ReadsTyped, ChatRecords
<1>11. PageInv'
  BY <1>1, <1>2, <1>4, <1>6 DEF Inv, PageInv, Living, Header
<1>12. StreamInv'
  BY <1>1, <1>5, <1>9 DEF StreamInv, OneSubscription, Active
<1>13. ToldInv'
  <2>1. PressedOf' = PressedOf /\ Announced' = Announced
    BY <1>1 DEF PressedOf, Announced
  <2>. QED  BY <1>1, <1>4, <1>9, <2>1 DEF Inv, ToldInv
<1>14. ReadInv'
  <2>1. OrderRead'
    BY <1>1, <1>5 DEF OrderRead
  <2>2. ChatRead'
    <3>1. CASE b
      BY <1>1, <1>2, <3>1, ReloadAdds, ChatAsked
    <3>2. CASE ~b
      BY <1>4, <3>2 DEF ChatRead
    <3>. QED  BY <3>1, <3>2
  <2>. QED  BY <2>1, <2>2 DEF ReadInv
<1>. QED  BY <1>8, <1>10, <1>11, <1>12, <1>13, <1>14 DEF Inv

LEMMA BuildOtherPageKeeps == ASSUME Inv, BuildOtherPage PROVE Inv'
<1>1. /\ UNCHANGED <<order, lines, clock, cookie, me, place, gone, menuAt, said, chat, streams,
                     current, reads, pressed, owed>>
      /\ page = "reading" /\ place # "order" /\ page' = "live"
      /\ shown' = DrawnNow(shown) /\ faults' \in 0..MaxFaults
      /\ \/ order.alive /\ second' = DrawnNow(Snapshot)
         \/ second' = second
  BY Typed DEF BuildOtherPage, server, who
<1>2. shown # Nothing
  BY <1>1 DEF Inv, PageInv
<1>3. shown' \in Drawn /\ shown' # Nothing /\ Living(shown')
  BY <1>1, <1>2, ShownFacts
<1>4. second' \in Drawn /\ Living(second')
  BY <1>1, SnapshotFacts, DrawnFacts DEF Inv, TypeOK, PageInv
<1>5. TypeOK'
  BY <1>1, <1>3, <1>4 DEF Inv, TypeOK
<1>6. PageInv'
  BY <1>1, <1>3, <1>4 DEF Inv, PageInv, Living, Header
<1>7. StreamInv'
  BY <1>1 DEF Inv, StreamInv, OneSubscription, Active
<1>8. ToldInv'
  <2>1. QueuesTold' /\ PressedOf' = PressedOf
    BY <1>1, Still DEF PressedOf
  <2>. QED  BY <1>1, <2>1 DEF Inv, ToldInv, QueuesTold
<1>9. AnswersAlive'
  BY <1>1 DEF Inv, AnswersAlive
<1>10. ReadInv'
  BY <1>1 DEF ReadInv
<1>. QED  BY <1>5, <1>6, <1>7, <1>8, <1>9, <1>10 DEF Inv

\* The subscription ends with the page that holds it.
LEMMA ClosedFacts ==
    ASSUME Inv
    PROVE  /\ Closed(current) \in [Streams -> Subscriptions] /\ current \in Streams
           /\ \A s \in Streams : Closed(current)[s].queue \in Seq(Announced)
           /\ Closed(current)[current].state = "closed"
           /\ \A s \in Streams \ {current} : Closed(current)[s] = streams[s]
<1> DEFINE ended == [Unused EXCEPT !.state = "closed"]
<1>1. ended \in Subscriptions /\ ended.state = "closed" /\ ended.queue = <<>>
  <2>1. /\ <<>> \in Seq(Events) /\ 0 \in 0..LastTime
        /\ "closed" \in StreamStates
    BY EmptySeq, BoundAssumption DEF StreamStates
  <2>. QED  BY <2>1 DEF Unused, Subscriptions
<1>2. Closed(current) = [streams EXCEPT ![current] = ended] /\ current \in Streams
  BY DEF Closed, Inv, TypeOK
<1>3. <<>> \in Seq(Announced)
  BY EmptySeq
<1> HIDE DEF ended
<1>. QED  BY <1>1, <1>2, <1>3, Typed DEF StreamsTyped, QueuesTold

LEMMA LeaveKeeps ==
    ASSUME Inv, page = "live", LeavePage, pressed' = Nothing,
           UNCHANGED <<server, who, place, drawn, said, chat, current, owed, faults>>
    PROVE  Inv'
<1>1. /\ UNCHANGED <<order, lines, clock, cookie, me, place, shown, second, gone, menuAt, said,
                     chat, current, owed, faults>>
      /\ page' = "gone" /\ reads' = EmptyBag
      /\ streams' = IF place = "order" THEN Closed(current) ELSE streams
  BY DEF LeavePage, server, who, drawn
<1>2. BagToSet(reads') = {}
  BY <1>1, NoReads
<1>3. /\ streams' \in [Streams -> Subscriptions]
      /\ \A s \in Streams : streams'[s].queue \in Seq(Announced)
      /\ Active' = {}
  <2>1. CASE place = "order"
    <3>1. Active \subseteq {current}
      BY DEF Inv, StreamInv, OneSubscription, Active
    <3>. QED  BY <1>1, <2>1, <3>1, ClosedFacts DEF Active
  <2>2. CASE place # "order"
    BY <1>1, <2>2, Typed DEF StreamsTyped, QueuesTold, Inv, StreamInv, Active
  <2>. QED  BY <2>1, <2>2
<1>4. TypeOK'
  BY <1>1, <1>2, <1>3 DEF Inv, TypeOK
<1>5. PageInv'
  BY <1>1 DEF Inv, PageInv, Living, Header
<1>6. StreamInv'
  BY <1>3 DEF StreamInv, OneSubscription, Active
<1>7. ToldInv'
  <2>1. PressedOf' = {} /\ Announced' = Announced
    BY <1>1 DEF PressedOf, Announced
  <2>. QED  BY <1>1, <1>3, <2>1 DEF Inv, ToldInv
<1>8. AnswersAlive'
  BY <1>2 DEF AnswersAlive
<1>9. ReadInv'
  BY <1>1 DEF ReadInv
<1>. QED  BY <1>4, <1>5, <1>6, <1>7, <1>8, <1>9 DEF Inv

-----------------------------------------------------------------------------
(* What is settled, and what the stream brings: the order of the page stays  *)
(* as drawn, and something is read.                                          *)

\* A live order page asks for what it is told of.
Asks ==
    /\ page = "live"
    /\ UNCHANGED <<order, lines, clock, cookie, page, place, shown, second, menuAt>>
    /\ me' \in People \cup {Nobody} /\ faults' = faults /\ gone' \in BOOLEAN /\ said' \in BOOLEAN
    /\ BagToSet(reads) \subseteq BagToSet(reads')
    /\ BagToSet(reads') \subseteq BagToSet(reads) \cup FreshReads
    /\ owed' \in Count /\ owed' <= order.version
    /\ chat' \in ChatRecords /\ chat'.open = chat.open /\ chat'.owed <= lines
    /\ pressed' \in {pressed, Nothing}
    /\ streams' \in [Streams -> Subscriptions] /\ QueuesTold'
    /\ current' \in Streams /\ Active' \subseteq {current'} /\ (place # "order" => Active' = {})
    /\ place = "order" => OrderRead' /\ ChatRead'

LEMMA AsksKeeps == ASSUME Inv, Asks PROVE Inv'
<1>1. /\ UNCHANGED <<order, lines, clock, cookie, page, place, shown, second, menuAt, faults>>
      /\ page = "live" /\ me' \in People \cup {Nobody} /\ gone' \in BOOLEAN /\ said' \in BOOLEAN
      /\ pressed' \in {pressed, Nothing}
      /\ owed' \in Count /\ owed' <= order.version
      /\ chat' \in ChatRecords /\ chat'.open = chat.open /\ chat'.owed <= lines
  BY DEF Asks
<1>2. /\ streams' \in [Streams -> Subscriptions] /\ QueuesTold' /\ current' \in Streams
      /\ Active' \subseteq {current'} /\ (place # "order" => Active' = {})
      /\ place = "order" => OrderRead' /\ ChatRead'
  BY DEF Asks
<1>3. ReadsTyped' /\ AnswersAlive'
  BY ReadsKeep DEF Asks
<1>4. TypeOK'
  BY <1>1, <1>2, <1>3 DEF Inv, TypeOK, ReadsTyped, ChatRecords
<1>5. PageInv'
  BY <1>1 DEF Inv, PageInv, Living, Header, Participates, Detail
<1>6. StreamInv'
  BY <1>1, <1>2 DEF StreamInv, OneSubscription, Active
<1>7. ToldInv'
  <2>1. PressedOf' \subseteq PressedOf
    BY <1>1 DEF PressedOf
  <2>. QED  BY <1>1, <1>2, <2>1 DEF Inv, ToldInv, QueuesTold
<1>8. ReadInv'
  BY <1>1, <1>2 DEF ReadInv
<1>. QED  BY <1>3, <1>4, <1>5, <1>6, <1>7, <1>8 DEF Inv

\* What a live page knows.
LEMMA LiveFacts ==
    ASSUME Inv, page = "live"
    PROVE  /\ me \in People \cup {Nobody} /\ gone \in BOOLEAN /\ said \in BOOLEAN
           /\ owed \in Count /\ owed <= order.version /\ owed \in Nat /\ order.version \in Nat
           /\ chat \in ChatRecords /\ chat.owed <= lines /\ current \in Streams
           /\ Active \subseteq {current} /\ (place # "order" => Active = {})
           /\ place = "order" => OrderRead /\ ChatRead
           /\ PressedOf \subseteq Count /\ \A v \in PressedOf : v <= order.version
           /\ order.version \in Count
BY Typed, PressedTyped, BoundAssumption
DEF Inv, TypeOK, ToldInv, ServerTyped, Orders, Count, ChatRecords, StreamInv, OneSubscription,
    Active, ReadInv

LEMMA SettleKeeps == ASSUME Inv, Settle PROVE Inv'
<1>1. /\ UNCHANGED <<order, lines, clock, cookie, me, place, shown, second, gone, menuAt,
                     current, faults>>
      /\ pressed # Nothing /\ pressed' = Nothing /\ page = "live"
  BY DEF Settle, server, who, drawn, Inv, PageInv
<1>2. ASSUME UNCHANGED <<page, streams>>,
             BagToSet(reads) \subseteq BagToSet(reads'),
             BagToSet(reads') \subseteq BagToSet(reads) \cup FreshReads,
             said' \in BOOLEAN, owed' \in Count, owed' <= order.version,
             chat' \in ChatRecords, chat'.open = chat.open, chat'.owed <= lines,
             place = "order" => OrderRead' /\ ChatRead'
      PROVE  Inv'
  <2>1. StreamsTyped' /\ QueuesTold' /\ Active' = Active
    BY <1>1, <1>2, Still
  <2>2. Asks
    BY <1>1, <1>2, <2>1, LiveFacts DEF Asks, StreamsTyped
  <2>. QED  BY <2>2, AsksKeeps
<1>3. CASE pressed.then = "say"
  <2>1. said' = TRUE /\ UNCHANGED <<page, streams, reads, chat, owed>>
    BY <1>3 DEF Settle
  <2>2. place = "order" => OrderRead' /\ ChatRead'
    BY <1>1, <2>1, LiveFacts, ChatReadSame DEF OrderRead
  <2>. QED  BY <1>1, <1>2, <2>1, <2>2, LiveFacts
<1>4. CASE pressed.then = "put back"
  <2>1. UNCHANGED <<page, said, streams, reads, chat, owed>>
    BY <1>4 DEF Settle
  <2>2. place = "order" => OrderRead' /\ ChatRead'
    BY <1>1, <2>1, LiveFacts, OrderReadSame, ChatReadSame
  <2>. QED  BY <1>1, <1>2, <2>1, <2>2, LiveFacts
<1>5. CASE pressed.then = "delete"
  <2>1. LeavePage /\ UNCHANGED <<said, chat, owed>>
    BY <1>5 DEF Settle
  <2>. QED  BY <1>1, <2>1, LeaveKeeps DEF server, who, drawn
<1>6. CASE pressed.then = "chat"
  <2>1. /\ reads' = Reload(reads, shown) /\ chat' = ClearedChat(shown)
        /\ UNCHANGED <<page, streams, said, owed>>
    BY <1>6 DEF Settle
  <2>2. /\ BagToSet(reads) \subseteq BagToSet(reads')
        /\ BagToSet(reads') \subseteq BagToSet(reads) \cup FreshReads
    BY <2>1, ReloadAdds DEF Adds
  <2>3. place = "order" => OrderRead' /\ ChatRead'
    <3>1. Adds(reads, reads)
      BY DEF Adds
    <3>. QED  BY <1>1, <2>1, <2>2, <3>1, LiveFacts, OrderReadSame, ChatReloaded
  <2>4. chat' \in ChatRecords /\ chat'.open = chat.open /\ chat'.owed = chat.owed
    BY <1>1, <2>1, LiveFacts, ChatCleared
  <2>. QED  BY <1>1, <1>2, <2>1, <2>2, <2>3, <2>4, LiveFacts
<1>7. CASE pressed.then = "read" /\ place = "order" /\ Changed(pressed.version)
           /\ UNCHANGED <<page, streams>>
  <2>1. /\ reads' = Ask(reads, "order") /\ said' = FALSE
        /\ owed' = Later(owed, pressed.version) /\ chat' = chat
    BY <1>7 DEF Changed
  <2>2. pressed.version \in Count /\ pressed.version <= order.version
    BY <1>1, <1>7, LiveFacts DEF PressedOf
  <2>3. owed' \in Count /\ owed' <= order.version
    BY <1>1, <2>1, <2>2, LiveFacts DEF Later
  <2>4. /\ BagToSet(reads) \subseteq BagToSet(reads')
        /\ BagToSet(reads') \subseteq BagToSet(reads) \cup FreshReads
        /\ Fresh("order") \in BagToSet(reads')
    BY <2>1, AskAdds DEF Adds
  <2>5. OrderRead' /\ (place = "order" => ChatRead')
    BY <1>1, <2>1, <2>4, LiveFacts, OrderAsked, ChatReadSame
  <2>. QED  BY <1>1, <1>2, <1>7, <2>1, <2>3, <2>4, <2>5, LiveFacts
<1>8. CASE pressed.then = "read" /\ place = "summary"
           /\ reads' = Ask(reads, "summary") /\ UNCHANGED <<page, streams, said, chat, owed>>
  <2>1. /\ BagToSet(reads) \subseteq BagToSet(reads')
        /\ BagToSet(reads') \subseteq BagToSet(reads) \cup FreshReads
    BY <1>8, AskAdds DEF Adds
  <2>. QED  BY <1>1, <1>2, <1>8, <2>1, LiveFacts
<1>. QED  BY <1>3, <1>4, <1>5, <1>6, <1>7, <1>8 DEF Settle

\* The stream that moves is the one of the page.
LEMMA OwnStream ==
    ASSUME Inv, NEW s \in Streams, streams[s].state \notin {"unused", "closed"}
    PROVE  page = "live" /\ place = "order" /\ s = current
BY DEF Inv, StreamInv, OneSubscription, Active

LEMMA OpenedKeeps == ASSUME Inv, NEW s \in Streams, Opened(s) PROVE Inv'
<1>1. /\ UNCHANGED <<order, lines, clock, cookie, me, place, page, shown, second, gone, menuAt,
                     current, pressed, faults>>
      /\ streams[s].state = "connecting"
  BY DEF Opened, Stay, server, who, drawn
<1>2. page = "live" /\ place = "order" /\ s = current /\ s \in Active
  BY <1>1, OwnStream DEF Active
<1>3. KeptStreams
  <2>1. PICK signed \in BOOLEAN : signed = (cookie # Nobody)
    OBVIOUS
  <2>2. PICK armed \in 0..LastTime : armed = IF Open THEN order.at ELSE 0
    <3>1. order.at \in 0..LastTime /\ 0 \in 0..LastTime
      BY Typed, BoundAssumption DEF ServerTyped, Orders, Times
    <3>. QED  BY <3>1
  <2> DEFINE r == [streams[s] EXCEPT !.state = "open", !.opened = TRUE, !.signed = signed,
                                     !.armed = armed]
  <2>3. streams[s] \in Subscriptions
    BY Typed DEF StreamsTyped
  <2>4. streams' = [streams EXCEPT ![s] = r]
    BY <2>1, <2>2, Typed DEF Opened, StreamsTyped
  <2>5. r \in Subscriptions /\ r.queue = streams[s].queue /\ r.state = "open"
    <3>1. "open" \in StreamStates
      BY DEF StreamStates
    <3>. QED  BY <2>3, <3>1 DEF Subscriptions
  <2> HIDE DEF r
  <2>6. Grows
    BY <1>1, Typed, StillGrows
  <2>. QED  BY <1>2, <2>4, <2>5, <2>6, StreamMoved
<1>4. owed' = IF streams[s].opened THEN order.version ELSE owed
  BY DEF Opened
<1>5. owed' \in Count /\ owed' <= order.version
  BY <1>2, <1>4, LiveFacts
<1>6. /\ said' \in BOOLEAN
      /\ BagToSet(reads) \subseteq BagToSet(reads')
      /\ BagToSet(reads') \subseteq BagToSet(reads) \cup FreshReads
      /\ chat' \in ChatRecords /\ chat'.open = chat.open /\ chat'.owed <= lines
      /\ OrderRead' /\ ChatRead'
  <2>1. CASE Reopened(s)
    <3>1. /\ reads' = Reload(Ask(reads, "order"), shown)
          /\ said' = FALSE /\ chat' = ClearedChat(shown)
      BY <2>1 DEF Opened
    <3>2. /\ Adds(Ask(reads, "order"), reads) /\ Fresh("order") \in BagToSet(Ask(reads, "order"))
          /\ Adds(reads', Ask(reads, "order"))
      BY <3>1, AskAdds, ReloadAdds
    <3>3. /\ BagToSet(reads) \subseteq BagToSet(reads')
          /\ BagToSet(reads') \subseteq BagToSet(reads) \cup FreshReads
          /\ Fresh("order") \in BagToSet(reads')
      BY <3>2 DEF Adds
    <3>4. OrderRead' /\ ChatRead'
      BY <1>2, <3>1, <3>2, <3>3, LiveFacts, OrderAsked, ChatReloaded
    <3>5. chat' \in ChatRecords /\ chat'.open = chat.open /\ chat'.owed = chat.owed
      BY <1>2, <3>1, LiveFacts, ChatCleared
    <3>. QED  BY <1>2, <3>1, <3>3, <3>4, <3>5, LiveFacts
  <2>2. CASE ~Reopened(s)
    <3>1. UNCHANGED <<reads, said, chat, owed>>
      BY <1>4, <2>2 DEF Opened, Reopened
    <3>2. OrderRead' /\ ChatRead'
      BY <1>2, <3>1, LiveFacts, OrderReadSame, ChatReadSame
    <3>. QED  BY <1>2, <3>1, <3>2, LiveFacts
  <2>. QED  BY <2>1, <2>2
<1>7. Asks
  BY <1>1, <1>2, <1>3, <1>5, <1>6, LiveFacts DEF Asks, KeptStreams, StreamsTyped
<1>. QED  BY <1>7, AsksKeeps

\* A message is heard, and its lines are asked for by whoever takes part.
LEMMA HeardReads ==
    ASSUME Inv, page = "live", place = "order", NEW count \in Count, count <= lines,
           Heard(count)
    PROVE  /\ BagToSet(reads) \subseteq BagToSet(reads')
           /\ BagToSet(reads') \subseteq BagToSet(reads) \cup FreshReads
           /\ chat' \in ChatRecords /\ chat'.open = chat.open /\ chat'.owed <= lines
           /\ UNCHANGED <<said, owed>> /\ OrderRead' /\ ChatRead'
<1>1. UNCHANGED <<said, owed>>
  BY DEF Heard
<1>2. CASE UNCHANGED <<chat, reads>>
  <2>1. OrderRead' /\ ChatRead'
    BY <1>1, <1>2, LiveFacts, OrderReadSame, ChatReadSame
  <2>. QED  BY <1>1, <1>2, <2>1, LiveFacts
<1>3. CASE reads' = Reload(reads, shown) /\ Participates(shown, me)
           /\ chat' = [ClearedChat(shown) EXCEPT !.owed = count]
  <2>1. /\ BagToSet(reads) \subseteq BagToSet(reads')
        /\ BagToSet(reads') \subseteq BagToSet(reads) \cup FreshReads
        /\ Fresh("chat") \in BagToSet(reads')
    BY <1>3, ReloadAdds DEF Adds
  <2>2. ClearedChat(shown) = [chat EXCEPT !.said = FALSE]
    BY <1>3 DEF ClearedChat
  <2>3. chat \in ChatRecords /\ chat' = [[chat EXCEPT !.said = FALSE] EXCEPT !.owed = count]
    BY <1>3, <2>2, LiveFacts
  <2>4. chat' \in ChatRecords /\ chat'.open = chat.open /\ chat'.owed = count
    BY <2>3 DEF ChatRecords
  <2>5. OrderRead' /\ ChatRead'
    BY <1>1, <2>1, LiveFacts, OrderReadSame, ChatAsked
  <2>. QED  BY <1>1, <2>1, <2>4, <2>5
<1>4. CASE reads' = Reload(reads, shown) /\ ~Participates(shown, me)
           /\ chat' = [ClearedChat(shown) EXCEPT !.owed = @]
  <2>1. reads' = reads
    BY <1>4, ReloadAdds
  <2>2. ClearedChat(shown) = [chat EXCEPT !.said = chat.said /\ TRUE]
    BY <1>4 DEF ClearedChat
  <2>3. chat \in ChatRecords /\ chat' = chat
    <3>1. chat \in ChatRecords
      BY LiveFacts
    <3>2. ClearedChat(shown) = chat
      BY <2>2, <3>1 DEF ChatRecords
    <3>. QED  BY <1>4, <3>1, <3>2 DEF ChatRecords
  <2>4. OrderRead' /\ ChatRead'
    BY <1>1, <2>1, <2>3, LiveFacts, OrderReadSame, ChatReadSame
  <2>. QED  BY <1>1, <2>1, <2>3, <2>4, LiveFacts
<1>. QED  BY <1>2, <1>3, <1>4 DEF Heard

LEMMA DeliverKeeps == ASSUME Inv, NEW s \in Streams, Deliver(s) PROVE Inv'
<1> DEFINE event == Head(streams[s].queue)
           rest == [streams EXCEPT ![s].queue = Tail(@)]
<1>1. /\ UNCHANGED <<order, lines, clock, cookie, me, place, page, current, pressed, faults>>
      /\ streams[s].state = "open" /\ streams[s].queue # <<>>
  BY DEF Deliver, Stay, server, who
<1>2. \/ event.kind = "message" /\ Heard(event.count) /\ streams' = rest
      \/ /\ event.kind \in {"changed", "expired"}
         /\ Changed(event.version) /\ streams' = rest /\ UNCHANGED drawn
      \/ /\ event.kind = "deleted"
         /\ gone' = TRUE /\ streams' = Closed(current)
         /\ UNCHANGED <<shown, second, menuAt, reads, said, owed, chat>>
  BY Zenon DEF Deliver
<1>3. page = "live" /\ place = "order" /\ s = current /\ s \in Active
  BY <1>1, OwnStream DEF Active
<1>4. event \in Announced /\ Tail(streams[s].queue) \in Seq(Announced)
      /\ Tail(streams[s].queue) \in Seq(Events)
  <2>1. streams[s].queue \in Seq(Announced) /\ streams[s].queue \in Seq(Events)
    BY Typed DEF QueuesTold, StreamsTyped, Subscriptions
  <2>. QED  BY <1>1, <2>1, HeadTailProperties
<1>5. Announced' = Announced
  BY <1>1 DEF Announced
<1> DEFINE tail == Tail(streams[s].queue)
           r == [streams[s] EXCEPT !.queue = tail]
<1>6. streams' = rest =>
        /\ streams' \in [Streams -> Subscriptions] /\ QueuesTold' /\ Active' = Active
  <2>1. rest = [streams EXCEPT ![s] = r] /\ streams[s] \in Subscriptions
    BY Typed DEF StreamsTyped
  <2>2. tail \in Seq(Announced) /\ tail \in Seq(Events)
    BY <1>4
  <2> HIDE DEF tail
  <2>3. r \in Subscriptions /\ r.queue = tail /\ r.state = streams[s].state
    BY <2>1, <2>2 DEF Subscriptions
  <2> HIDE DEF r, rest
  <2>. QED  BY <1>5, <2>1, <2>2, <2>3, Typed DEF StreamsTyped, QueuesTold, Active
<1> HIDE DEF event, rest, tail, r
<1>7. CASE event.kind = "message" /\ Heard(event.count) /\ streams' = rest
  <2>1. event.count \in Count /\ event.count <= lines
    BY <1>4, <1>7 DEF Announced, Events
  <2>2. UNCHANGED <<shown, second, gone, menuAt>>
    BY <1>7 DEF Heard, drawn
  <2>3. Asks
    BY <1>1, <1>3, <1>6, <1>7, <2>1, <2>2, HeardReads, LiveFacts DEF Asks
  <2>. QED  BY <2>3, AsksKeeps
<1>8. CASE event.kind \in {"changed", "expired"} /\ Changed(event.version)
           /\ streams' = rest /\ UNCHANGED drawn
  <2>1. event.version \in Count /\ event.version <= order.version
    BY <1>4, <1>8 DEF Announced, Events
  <2>2. /\ reads' = Ask(reads, "order") /\ said' = FALSE /\ chat' = chat
        /\ owed' = Later(owed, event.version) /\ UNCHANGED <<shown, second, gone, menuAt>>
    BY <1>8 DEF Changed, drawn
  <2>3. owed' \in Count /\ owed' <= order.version
    BY <1>3, <2>1, <2>2, LiveFacts DEF Later
  <2>4. /\ BagToSet(reads) \subseteq BagToSet(reads')
        /\ BagToSet(reads') \subseteq BagToSet(reads) \cup FreshReads
        /\ Fresh("order") \in BagToSet(reads')
    BY <2>2, AskAdds DEF Adds
  <2>5. OrderRead' /\ ChatRead'
    BY <1>3, <2>2, <2>4, LiveFacts, OrderAsked, ChatReadSame
  <2>6. Asks
    BY <1>1, <1>3, <1>6, <1>8, <2>2, <2>3, <2>4, <2>5, LiveFacts DEF Asks
  <2>. QED  BY <2>6, AsksKeeps
<1>9. CASE gone' = TRUE /\ streams' = Closed(current)
           /\ UNCHANGED <<shown, second, menuAt, reads, said, owed, chat>>
  <2>1. /\ streams' \in [Streams -> Subscriptions] /\ QueuesTold'
        /\ Active' \subseteq {current'}
    BY <1>1, <1>3, <1>5, <1>9, LiveFacts, ClosedFacts DEF QueuesTold, Active
  <2>2. OrderRead' /\ ChatRead'
    BY <1>3, <1>9, LiveFacts, OrderReadSame, ChatReadSame
  <2>3. Asks
    BY <1>1, <1>3, <1>9, <2>1, <2>2, LiveFacts DEF Asks
  <2>. QED  BY <2>3, AsksKeeps
<1>. QED  BY <1>2, <1>7, <1>8, <1>9

LEMMA SessionKnownKeeps == ASSUME Inv, SessionKnown PROVE Inv'
<1>1. /\ UNCHANGED <<order, lines, clock, cookie, place, page, shown, second, gone, menuAt, chat,
                     pressed, owed, faults>>
      /\ me' \in People \cup {Nobody}
  BY Typed DEF SessionKnown, server, drawn
<1>2. CASE /\ page = "live" /\ place = "order" /\ current + 1 \in Streams
           /\ current' = current + 1
           /\ streams' = [Closed(current) EXCEPT ![current + 1].state = "connecting"]
           /\ reads' = Ask(reads, "order") /\ said' = FALSE
  <2>1. /\ BagToSet(reads) \subseteq BagToSet(reads')
        /\ BagToSet(reads') \subseteq BagToSet(reads) \cup FreshReads
        /\ Fresh("order") \in BagToSet(reads')
    BY <1>2, AskAdds DEF Adds
  <2>2. OrderRead' /\ ChatRead'
    BY <1>1, <1>2, <2>1, LiveFacts, OrderAsked, ChatReadSame
  <2>3. /\ streams' \in [Streams -> Subscriptions] /\ QueuesTold'
        /\ Active' \subseteq {current'}
    <3> DEFINE next == current + 1
               was == Closed(current)
               r == [was[next] EXCEPT !.state = "connecting"]
    <3>1. /\ next \in Streams /\ current' = next /\ current \in Streams
          /\ was \in [Streams -> Subscriptions]
          /\ \A s \in Streams : was[s].queue \in Seq(Announced)
          /\ was[current].state = "closed"
          /\ \A s \in Streams \ {current} : was[s] = streams[s]
      BY <1>2, ClosedFacts
    <3>2. streams' = [was EXCEPT ![next] = r]
      BY <1>2, <3>1
    <3> HIDE DEF next, was
    <3>3. r \in Subscriptions /\ r.queue = was[next].queue
      BY <3>1 DEF Subscriptions, StreamStates
    <3> HIDE DEF r
    <3>4. streams' \in [Streams -> Subscriptions]
      BY <3>1, <3>2, <3>3
    <3>5. QueuesTold'
      <4>1. Announced' = Announced
        BY <1>1 DEF Announced
      <4>. QED  BY <3>1, <3>2, <3>3, <4>1 DEF QueuesTold
    <3>6. Active' \subseteq {current'}
      BY <1>2, <3>1, <3>2, LiveFacts DEF Active
    <3>. QED  BY <3>4, <3>5, <3>6
  <2>4. current' \in Streams
    BY <1>2
  <2>5. Asks
    BY <1>1, <1>2, <2>1, <2>2, <2>3, <2>4, LiveFacts DEF Asks
  <2>. QED  BY <2>5, AsksKeeps
<1>3. CASE /\ ~(page = "live" /\ place = "order")
           /\ UNCHANGED <<current, streams, reads, said>>
  <2>1. TypeOK'
    BY <1>1, <1>3 DEF Inv, TypeOK
  <2>2. PageInv'
    BY <1>1, <1>3 DEF Inv, PageInv, Living, Header
  <2>3. StreamInv'
    BY <1>1, <1>3 DEF Inv, StreamInv, OneSubscription, Active
  <2>4. ToldInv'
    <3>1. QueuesTold' /\ PressedOf' = PressedOf
      BY <1>1, <1>3, Still DEF PressedOf
    <3>. QED  BY <1>1, <3>1 DEF Inv, ToldInv, QueuesTold
  <2>5. AnswersAlive'
    BY <1>3 DEF Inv, AnswersAlive
  <2>6. ReadInv'
    BY <1>1, <1>3 DEF ReadInv
  <2>. QED  BY <2>1, <2>2, <2>3, <2>4, <2>5, <2>6 DEF Inv
<1>. QED  BY <1>2, <1>3 DEF SessionKnown

-----------------------------------------------------------------------------
(* Every state. *)

LEMMA InitInv == Init => Inv
<1> SUFFICES ASSUME Init PROVE Inv
  OBVIOUS
<1>1. /\ 0 \in Count /\ 0 \in 0..LastTime /\ 0 \in 0..MaxFaults /\ 1 \in Times /\ 1 \in Streams
  BY BoundAssumption DEF Count, Times, Streams
<1>2. order \in Orders
  BY <1>1 DEF Init, Orders, Count
<1>3. Unused \in Subscriptions /\ Unused.queue \in Seq(Announced) /\ Unused.state = "unused"
  <2>1. /\ <<>> \in Seq(Events) /\ <<>> \in Seq(Announced)
        /\ "unused" \in StreamStates
    BY EmptySeq DEF StreamStates
  <2>. QED  BY <1>1, <2>1 DEF Unused, Subscriptions
<1>4. streams \in [Streams -> Subscriptions] /\ QueuesTold /\ Active = {}
  BY <1>3 DEF Init, QueuesTold, Active
<1>5. chat \in ChatRecords /\ chat.owed = 0
  BY <1>1 DEF Init, ChatRecords
<1>6. {cookie, me} \subseteq People \cup {Nobody}
  BY PeopleAssumption DEF Init
<1>7. BagToSet(reads) = {}
  BY NoReads DEF Init
<1>8. TypeOK
  BY <1>1, <1>2, <1>4, <1>5, <1>6, <1>7 DEF Init, TypeOK, Drawn, ChatRecords
<1>9. PageInv
  BY DEF Init, PageInv, Living, Header
<1>10. StreamInv
  BY <1>4 DEF StreamInv, OneSubscription, Active
<1>11. ToldInv
  <2>1. PressedOf = {} /\ owed = 0 /\ lines = 0 /\ order.version = 0
    BY DEF Init, PressedOf
  <2>. QED  BY <1>4, <1>5, <2>1 DEF ToldInv, QueuesTold
<1>12. AnswersAlive /\ ReadInv
  BY <1>7 DEF Init, AnswersAlive, ReadInv
<1>. QED  BY <1>8, <1>9, <1>10, <1>11, <1>12 DEF Inv

LEMMA NextKeeps == Inv /\ [Next]_vars => Inv'
<1> SUFFICES ASSUME Inv, [Next]_vars PROVE Inv'
  OBVIOUS
<1>1. CASE Elsewhere
  BY <1>1, ElsewhereBeside, BesideKeeps
<1>2. CASE Strike
  BY <1>2, StrikeBeside, BesideKeeps
<1>3. CASE Draw
  BY <1>3, DrawBeside, BesideKeeps
<1>4. CASE SessionEnds
  BY <1>4, SessionBeside, BesideKeeps
<1>5. CASE \E s \in Streams : Drop(s)
  BY <1>5, StreamBeside, BesideKeeps
<1>6. CASE ReadStep
  BY <1>6, AnswerKeeps, OrderArrivesKeeps, ChatArrivesKeeps DEF ReadStep
<1>7. CASE StreamStep
  BY <1>7, StreamBeside, BesideKeeps, OpenedKeeps, DeliverKeeps DEF StreamStep
<1>8. CASE PageStep
  BY <1>8, FetchKeeps, BuildOrderPageKeeps, BuildOtherPageKeeps, SessionKnownKeeps, SettleKeeps
  DEF PageStep
<1>9. CASE Leave
  BY <1>9, LeaveKeeps DEF Leave
<1>10. CASE \E c \in Control : Press(c)
  BY <1>10, PressBeside, BesideKeeps
<1>11. CASE UNCHANGED vars
  <2>1. /\ UNCHANGED <<order, lines, clock, cookie, me, place, page, shown, second, gone, menuAt,
                       said, chat, streams, current, reads, pressed, owed, faults>>
    BY <1>11 DEF vars, server, who, drawn
  <2>2. Beside
    BY <2>1, Typed, StillGrows, StreamsSame DEF Beside, drawn
  <2>. QED  BY <2>2, BesideKeeps
<1>. QED  BY <1>1, <1>2, <1>3, <1>4, <1>5, <1>6, <1>7, <1>8, <1>9, <1>10, <1>11 DEF Next

LEMMA AlwaysInv == Spec => []Inv
BY InitInv, NextKeeps, PTL DEF Spec

-----------------------------------------------------------------------------
(* What the page promises. *)

\* Every variable of the page has its type: what is drawn is an order, what is under way a
\* read with its answer, and what a stream holds are events.
THEOREM TypeCorrect == Spec => []TypeOK
<1>1. Inv => TypeOK
  BY DEF Inv
<1>. QED  BY <1>1, AlwaysInv, PTL

\* A page has one subscription at most, the one it can still close, and none once it has
\* been replaced: subscribe, close and the retry of events.ts with the cleanup of the page.
THEOREM OneStream == Spec => []OneSubscription
<1>1. Inv => OneSubscription
  BY DEF Inv, StreamInv
<1>. QED  BY <1>1, AlwaysInv, PTL

\* Who is on the page as it is may do what the page offers: the rules of the handlers
\* against those of the header, the lines, the menu column, the summary and the tile.
LEMMA OfferedOnOrderPage ==
    ASSUME Inv, page = "live", place = "order", AsItIs(shown),
           NEW c \in Control, OnOrderPage(c), c.act = "dish" => menuAt = order.at
    PROVE  Allowed(c, cookie)
<1>1. /\ shown.order = order /\ shown.open = Open /\ shown.as = cookie
      /\ order.alive /\ order \in Orders
  BY Typed DEF AsItIs, Inv, PageInv, Living, ServerTyped
<1>2. order.creator \in People /\ order.owners \subseteq People /\ Admins \subseteq People
      /\ Nobody \notin People
  BY <1>1, PeopleAssumption DEF Orders
<1>3. CASE c.act = "take" /\ MayTake(shown, c.on)
  BY <1>1, <1>3 DEF Allowed, MayTake
<1>4. CASE c.act = "release" /\ MayRelease(shown, c.on)
  BY <1>1, <1>4 DEF Allowed, MayRelease
<1>5. CASE c.act = "change" /\ MayChange(shown, c.on)
  BY <1>1, <1>2, <1>5 DEF Allowed, MayChange
<1>6. CASE c.act = "tick" /\ MayTickPaid(shown, shown, c.on)
  BY <1>1, <1>6 DEF Allowed, MayTickPaid
<1>7. CASE c.act = "edit" /\ shown.as = shown.order.creator /\ shown.open
  BY <1>1, <1>2, <1>7 DEF Allowed
<1>8. CASE c.act = "delete" /\ shown.as \in Admins \cup {shown.order.creator}
  BY <1>1, <1>2, <1>8 DEF Allowed
<1>9. CASE c.act = "dish" /\ MayOrder(shown)
  BY <1>1, <1>9 DEF Allowed, MayOrder
<1>10. CASE c.act \in {"summary", "chat"} /\ Participates(shown, shown.as)
  BY <1>1, <1>10 DEF Allowed, Participates, IsParticipant
<1>11. chat.open = Participates(shown, shown.as)
  BY DEF Inv, PageInv
<1>. QED  BY <1>3, <1>4, <1>5, <1>6, <1>7, <1>8, <1>9, <1>10, <1>11 DEF OnOrderPage

LEMMA OfferedElsewhere ==
    ASSUME Inv, page = "live", AsItIs(shown), second = Nothing \/ AsItIs(second),
           NEW c \in Control, OnSummary(c) \/ OnTile(c)
    PROVE  Allowed(c, cookie)
<1>1. /\ shown.order = order /\ shown.open = Open /\ shown.as = cookie
      /\ order.alive /\ order \in Orders
  BY Typed DEF AsItIs, Inv, PageInv, Living, ServerTyped
<1>2. Detail(second) => second.order = order
  BY DEF Detail, Header, AsItIs
<1>3. order.creator \in People /\ Nobody \notin People
  BY <1>1, PeopleAssumption DEF Orders
<1>4. CASE OnSummary(c)
  BY <1>1, <1>2, <1>4 DEF OnSummary, MayTickPaid, Allowed
<1>5. CASE c.act = "summary" /\ Participates(second, shown.as)
  BY <1>1, <1>2, <1>5 DEF Participates, Allowed, IsParticipant
<1>6. CASE c.act = "delete" /\ shown.as = shown.order.creator
  BY <1>1, <1>3, <1>6 DEF Allowed
<1>. QED  BY <1>4, <1>5, <1>6 DEF OnTile

\* What a page drawn from the order as it is now offers, the server accepts.
THEOREM OfferIsAccepted == Spec => []OfferedIsAllowed
<1>1. Inv => OfferedIsAllowed
  <2> SUFFICES ASSUME Inv, page = "live", AsItIs(shown),
                      place = "order" \/ second = Nothing \/ AsItIs(second),
                      NEW c \in Control, Offered(c), c.act = "dish" => menuAt = order.at
               PROVE  Allowed(c, cookie)
    BY DEF OfferedIsAllowed
  <2>1. CASE place = "order"
    BY <2>1, OfferedOnOrderPage DEF Offered
  <2>2. CASE place # "order"
    BY <2>2, OfferedElsewhere DEF Offered
  <2>. QED  BY <2>1, <2>2
<1>. QED  BY <1>1, AlwaysInv, PTL

\* A change the page was told of, by an event, a reconnection or its own request, has been
\* read once nothing is under way, whatever order the answers came in, or the failure is said.
THEOREM NewsIsRead == Spec => []ToldIsRead
<1>1. Inv => ToldIsRead
  BY NoReads DEF Inv, ReadInv, OrderRead, ToldIsRead, Quiet
<1>. QED  BY <1>1, AlwaysInv, PTL

\* Whoever becomes a participant finds the chat open and read, with every line the stream
\* has announced since, or the failure is said.
THEOREM OpenChatIsRead == Spec => []ChatIsRead
<1>1. Inv => ChatIsRead
  BY NoReads DEF Inv, ReadInv, ChatRead, ChatIsRead, Quiet
<1>. QED  BY <1>1, AlwaysInv, PTL
=============================================================================
