------------------------------ MODULE OrderPage ------------------------------
(***************************************************************************)
(* One visitor's page about one order, the requests and the event stream   *)
(* it lives on, and everybody else changing the order meanwhile: the       *)
(* order page with its live updates and chat, the summary, and the tile of *)
(* the overview.                                                           *)
(*                                                                         *)
(* A request is asked, answered from the order as it is at that moment,    *)
(* and its answer arrives later: answers overtake each other.  What an     *)
(* order says is reduced to what decides which controls a page offers.     *)
(***************************************************************************)
EXTENDS Integers, Sequences, FiniteSets, Bags, BagsExt

CONSTANTS
    People, Admins, Nobody,
    Visitor,             \* who uses the page when signed in
    Others,              \* who changes the order in other browsers
    Jobs, Collector,     \* the jobs of an order; the one that ticks payments
    Served,              \* the times at which the kitchen makes the dish
    MaxStreams,          \* subscriptions the page may make, in order
    MaxReads,            \* reads under way at once
    Places,              \* the pages a visitor may be on
    LastTime,            \* deadlines an order may have
    MaxChanges,          \* changes of the order and chat lines, together
    MaxFaults            \* connections dropped, reads failed and sessions ended

Streams == 1..MaxStreams
Times == 1..LastTime      \* deadlines; the food is fetched just after
Nothing == [none |-> TRUE]
NotRead == -1            \* of lines of the chat

ASSUME PeopleAssumption == /\ Admins \cup Others \cup {Visitor} \subseteq People
                           /\ Nobody \notin People
ASSUME JobAssumption == Collector \in Jobs
ASSUME BoundAssumption == /\ {LastTime, MaxStreams} \subseteq Nat \ {0}
                          /\ {MaxReads, MaxChanges, MaxFaults} \subseteq Nat

VARIABLES
    order,     \* the order in the database
    lines,     \* lines of its chat
    clock,     \* 0 before every deadline
    cookie,    \* whose session the browser's cookie names
    me,        \* app.session.user
    place,     \* which page
    page,      \* how far it is built
    shown,     \* the order as drawn
    second,    \* the other read of the summary and of the overview
    gone,      \* the page says that the order has been deleted
    said,      \* its status line reports a failure
    menuAt,    \* the time the menu column was read for
    chat,      \* messages, chatOpen and the chat's status line
    streams,   \* the subscriptions made, each with what the server sent it
    current,   \* the one the page holds
    reads,     \* requests under way
    pressed,   \* the control pressed last, until its answer is dealt with
    owed,      \* the newest change the page was told of and has not read yet
    faults

server == <<order, lines, clock>>
who == <<cookie, me>>
drawn == <<shown, second, gone, menuAt>>
vars == <<server, who, place, page, drawn, said, chat, streams, current, reads,
          pressed, owed, faults>>

Later(a, b) == IF a > b THEN a ELSE b
Open == clock < order.at

-----------------------------------------------------------------------------
(* The controls, who the server lets use them and what they do. *)

Control == [act : {"take", "release"}, on : Jobs]
           \cup [act : {"change", "tick"}, on : People]
           \cup [act : {"dish", "edit", "delete", "summary", "chat"}, on : {Nobody}]

\* db.IsParticipant, and the administrator.
IsParticipant(u) == \/ u \in Admins
                    \/ u = order.creator
                    \/ \E job \in Jobs : order.holder[job] = u
                    \/ u \in order.owners

Allowed(c, u) ==
    /\ order.alive /\ u # Nobody
    /\ \/ c.act = "take" /\ Open /\ order.holder[c.on] = Nobody
       \/ c.act = "release" /\ Open /\ u \in Admins \cup {order.creator, order.holder[c.on]}
       \/ c.act = "change" /\ Open /\ c.on \in order.owners /\ u \in Admins \cup {c.on}
       \/ /\ c.act = "tick" /\ c.on \in order.owners
          /\ u \in Admins \cup {c.on, order.creator, order.holder[Collector]}
       \/ c.act = "dish" /\ Open /\ order.at \in Served
       \/ c.act = "edit" /\ Open /\ u \in Admins \cup {order.creator}
       \/ c.act = "delete" /\ u \in Admins \cup {order.creator}
       \/ c.act \in {"summary", "chat"} /\ IsParticipant(u)

\* Slip: a deadline is taken as it comes.
AfterAnyEdit(c, u) ==
    order' = IF c.act = "edit" THEN [order EXCEPT !.version = @ + 1, !.at = 0] ELSE order
\* The order a request of u leaves behind; to vacate what is vacant changes
\* nothing and is not published.
After(c, u) ==
    LET next == [order EXCEPT !.version = @ + 1]
    IN  \/ c.act = "take" /\ order' = [next EXCEPT !.holder[c.on] = u]
        \/ c.act = "release" /\ order' = IF order.holder[c.on] = Nobody THEN order
                                         ELSE [next EXCEPT !.holder[c.on] = Nobody]
        \/ c.act = "change" /\ order' \in {next, [next EXCEPT !.owners = @ \ {c.on}]}
        \/ c.act = "tick" /\ order' = next
        \/ c.act = "dish" /\ order' = [next EXCEPT !.owners = @ \cup {u}]
        \/ c.act = "edit" /\ \E t \in Times : t > clock /\ order' = [next EXCEPT !.at = t]
        \/ c.act = "delete" /\ order' = [next EXCEPT !.alive = FALSE]

\* What the hub hands a subscriber, of the order or of its chat.
Published(event) ==
    [s \in Streams |->
        IF streams[s].state = "open" /\ (event.kind = "message" => streams[s].signed)
        THEN [streams[s] EXCEPT !.queue = Append(@, event)] ELSE streams[s]]

\* A control served for u.
Change(c, u) ==
    \/ /\ c.act = "chat" /\ lines + order.version < MaxChanges
       /\ lines' = lines + 1
       /\ streams' = Published([kind |-> "message", count |-> lines + 1])
       /\ UNCHANGED order
    \/ /\ c.act # "chat" /\ lines + order.version < MaxChanges
       /\ After(c, u)
       /\ streams' = IF order' = order THEN streams
                     ELSE Published([kind |-> IF order'.alive THEN "changed" ELSE "deleted",
                                     version |-> order'.version])
       /\ UNCHANGED lines

\* The model ends with the page.
Watched == page \notin {"gone", "refused"}

\* Anybody, in another browser.
Elsewhere == Watched /\ \E c \in Control, u \in Others :
    /\ Allowed(c, u) /\ c.act # "summary"
    /\ Change(c, u)
    /\ UNCHANGED <<clock, who, place, page, drawn, said, chat, current, reads, pressed,
                   owed, faults>>

\* A deadline passes: every stream watches the one it was opened with.
Strike ==
    /\ Watched /\ clock + 1 \in Times
    /\ clock' = clock + 1
    /\ streams' = [s \in Streams |->
         IF streams[s].state = "open" /\ streams[s].armed = clock + 1
         THEN [streams[s] EXCEPT
                 !.queue = Append(@, [kind |-> "expired", version |-> order.version])]
         ELSE streams[s]]
    /\ UNCHANGED <<order, lines, who, place, page, drawn, said, chat, current, reads,
                   pressed, owed, faults>>

\* The draw for the vacant jobs of a closed order, with its event.
Draw ==
    /\ Watched /\ order.alive /\ ~Open /\ order.version + lines < MaxChanges
    /\ \E u \in order.owners :
         LET holder == [job \in Jobs |-> IF order.holder[job] = Nobody
                                         THEN u ELSE order.holder[job]]
         IN  /\ holder # order.holder
             /\ order' = [order EXCEPT !.holder = holder, !.version = @ + 1]
    /\ streams' = Published([kind |-> "changed", version |-> order'.version])
    /\ UNCHANGED <<lines, clock, who, place, page, drawn, said, chat, current, reads,
                   pressed, owed, faults>>

-----------------------------------------------------------------------------
(* What a page offers: the controls drawn from the order it has read. *)

Header(r) == r # Nothing
Detail(r) == Header(r) /\ r.detail

\* participates: the same rule as db.IsParticipant, for the order as read.
Participates(r, u) ==
    /\ Detail(r) /\ u # Nobody
    /\ \/ u \in Admins
       \/ u = r.order.creator
       \/ \E job \in Jobs : r.order.holder[job] = u
       \/ u \in r.order.owners

\* "Me!" at a vacant job, and the cross at a taken one.
MayTake(r, job) == Detail(r) /\ r.as # Nobody /\ r.open /\ r.order.holder[job] = Nobody
\* Slip: the cross stays when the order closes.
MayReleaseAlways(r, job) ==
    /\ Detail(r) /\ r.as # Nobody /\ r.order.holder[job] # Nobody
    /\ r.as \in Admins \cup {r.order.creator, r.order.holder[job]}
MayRelease(r, job) ==
    /\ Detail(r) /\ r.as # Nobody /\ r.open /\ r.order.holder[job] # Nobody
    /\ r.as \in Admins \cup {r.order.creator, r.order.holder[job]}

\* The pencil and the bin of a line.
MayChange(r, owner) == Detail(r) /\ owner \in r.order.owners /\ r.as = owner /\ r.open
\* mayTickPaid, with the people of the order from roles.
MayTickPaid(r, roles, owner) ==
    /\ Detail(r) /\ owner \in r.order.owners /\ r.as # Nobody
    /\ \/ r.as \in Admins \cup {owner}
       \/ Detail(roles) /\ r.as \in {roles.order.creator, roles.order.holder[Collector]}

\* The dish in the menu column, which shows what is made at the time it was
\* read for.
MayOrder(r) == r.as # Nobody /\ r.open /\ menuAt \in Served

\* The column with the order, the controls beside the title and the tabs.
OnOrderPage(c) ==
    \/ ~gone /\ \/ c.act = "take" /\ MayTake(shown, c.on)
                \/ c.act = "release" /\ MayRelease(shown, c.on)
                \/ c.act = "change" /\ MayChange(shown, c.on)
                \/ c.act = "tick" /\ MayTickPaid(shown, shown, c.on)
    \/ c.act = "edit" /\ Detail(shown) /\ shown.as = shown.order.creator /\ shown.open
    \/ c.act = "delete" /\ Detail(shown) /\ shown.as \in Admins \cup {shown.order.creator}
    \/ c.act = "dish" /\ MayOrder(shown)
    \/ c.act = "summary" /\ Participates(shown, shown.as)
    \/ c.act = "chat" /\ chat.open

\* The summary: its lines, and the order read after it for the roles.
OnSummary(c) == c.act = "tick" /\ MayTickPaid(shown, second, c.on)

\* The tile: the listed order, and its detail for who takes part.  Its pencil
\* leads to the order page.
OnTile(c) ==
    \/ c.act = "summary" /\ Participates(second, shown.as)
    \/ /\ c.act = "delete"
       /\ Detail(shown) /\ shown.as = shown.order.creator /\ shown.open

Offered(c) == /\ page = "live"
              /\ \/ place = "order" /\ OnOrderPage(c)
                 \/ place = "summary" /\ OnSummary(c)
                 \/ place = "orders" /\ OnTile(c)

-----------------------------------------------------------------------------
(* Reads: asked now, answered from the order as it is then, drawn later. *)

NoAnswer == [answered |-> FALSE]
Failed == [answered |-> TRUE, ok |-> FALSE]
Room(n) == BagCardinality(reads) + n <= MaxReads
Ask(rs, of) == BagAdd(rs, [of |-> of, answer |-> NoAnswer])
AskIf(condition, rs, of) == IF condition THEN Ask(rs, of) ELSE rs

\* An order's read redraws the order; chat.reload is only for who takes part.
\* Both clear the status line they report on.
Reload(rs, r) == AskIf(Participates(r, me), rs, "chat")
ClearedChat(r) == [chat EXCEPT !.said = @ /\ ~Participates(r, me)]

\* GET /orders/:id names people to whoever is signed in; the summary and the
\* chat are refused to everybody who does not take part.
Snapshot == [order |-> order, detail |-> cookie # Nobody]
Reply(of) ==
    IF order.alive /\ (of = "order" \/ IsParticipant(cookie))
    THEN [answered |-> TRUE, ok |-> TRUE, brings |-> IF of = "chat" THEN lines ELSE Snapshot]
    ELSE Failed

Answer(r) ==
    /\ r.answer = NoAnswer
    /\ \/ /\ reads' = BagAdd(BagRemove(reads, r), [r EXCEPT !.answer = Reply(r.of)])
          /\ UNCHANGED faults
       \/ /\ faults < MaxFaults /\ faults' = faults + 1
          /\ reads' = BagAdd(BagRemove(reads, r), [r EXCEPT !.answer = Failed])
    /\ UNCHANGED <<server, who, place, page, drawn, said, chat, streams, current, pressed,
                   owed>>

\* Drawn with the session and the clock of that moment.
DrawnNow(brought) == [order |-> brought.order, detail |-> brought.detail,
                      as |-> me, open |-> clock < brought.order.at]

\* Slip: whoever becomes a participant finds the chat open and unread.
OpensUnread(r, rs) == rs
\* Becoming a participant opens the chat and reads it.
Opens(r, rs) == IF ~chat.open THEN Reload(rs, r) ELSE rs

\* ctx.refresh has its answer; the draw of the page follows at once.
OrderArrives(r) ==
    LET answer == r.answer
        rest == BagRemove(reads, r)
    IN  /\ r.of \in {"order", "summary"} /\ answer # NoAnswer
        /\ \/ /\ ~answer.ok
              /\ said' = (said \/ place = "order")
              /\ reads' = rest
              /\ UNCHANGED <<drawn, chat, owed>>
           \/ /\ answer.ok
              /\ shown' = DrawnNow(answer.brings)
              /\ gone' = FALSE
              /\ owed' = IF answer.brings.order.version >= owed THEN 0 ELSE owed
              /\ \/ /\ place = "order"
                    /\ reads' = Opens(shown', rest)
                    /\ chat' = [chat EXCEPT !.open = Participates(shown', me),
                                            !.said = @ /\ reads' = rest]
                 \/ place # "order" /\ reads' = rest /\ UNCHANGED chat
              /\ UNCHANGED <<second, menuAt, said>>
        /\ UNCHANGED <<server, who, place, page, streams, current, pressed, faults>>

\* chat.reload has its answer.
ChatArrives(r) ==
    LET answer == r.answer
    IN  /\ r.of = "chat" /\ answer # NoAnswer
        /\ \/ ~answer.ok /\ chat' = [chat EXCEPT !.said = TRUE]
           \/ answer.ok /\ chat' = [chat EXCEPT !.messages = answer.brings,
                                       !.owed = IF answer.brings >= @ THEN 0 ELSE @]
        /\ reads' = BagRemove(reads, r)
        /\ UNCHANGED <<server, who, place, page, drawn, said, streams, current, pressed,
                       owed, faults>>

-----------------------------------------------------------------------------
(* Building the page, and leaving it. *)

\* api.get, then what the page is built from.  The summary's handler asks who
\* takes part; an order that is gone leaves a page that says so.
Fetch ==
    /\ page = "loading"
    /\ \/ /\ order.alive /\ (place = "summary" => IsParticipant(cookie))
          /\ shown' = DrawnNow(Snapshot)
          /\ page' = "reading"
       \/ /\ ~order.alive \/ (place = "summary" /\ ~IsParticipant(cookie))
          /\ page' = "refused"
          /\ UNCHANGED shown
    /\ UNCHANGED <<server, who, place, second, gone, menuAt, said, chat, streams, current,
                   reads, pressed, owed, faults>>

NewStream(s) == [streams EXCEPT ![s].state = "connecting"]

\* The reads beside the order have come, and the page is drawn.  The order
\* page reads the chat and subscribes.
BuildOrderPage ==
    /\ page = "reading" /\ place = "order"
    /\ shown' = DrawnNow(shown)
    /\ menuAt' = shown.order.at
    /\ chat' = [chat EXCEPT !.open = Participates(shown, me)]
    /\ reads' = Reload(reads, shown)
    /\ streams' = NewStream(current)
    /\ page' = "live"
    /\ UNCHANGED <<server, who, place, second, gone, said, current, pressed, owed,
                   faults>>

\* The summary reads the order as well, the overview the detail of each order
\* when somebody is signed in; a failure leaves the page without it.
BuildOtherPage ==
    /\ page = "reading" /\ place # "order"
    /\ shown' = DrawnNow(shown)
    /\ \/ /\ order.alive /\ (place = "summary" \/ me # Nobody)
          /\ second' = DrawnNow(Snapshot)
          /\ UNCHANGED faults
       \/ /\ ~order.alive \/ (place = "orders" /\ me = Nobody)
          /\ UNCHANGED <<second, faults>>
       \/ faults < MaxFaults /\ faults' = faults + 1 /\ UNCHANGED second
    /\ page' = "live"
    /\ UNCHANGED <<server, who, place, gone, menuAt, said, chat, streams, current, reads,
                   pressed, owed>>

Unused == [state |-> "unused", opened |-> FALSE, armed |-> 0, signed |-> FALSE, queue |-> <<>>]
\* Slip: the retry waiting for its three seconds is forgotten.
ClosedButRetrying(s) == IF streams[s].state = "waiting" THEN streams
                        ELSE [streams EXCEPT ![s] = [Unused EXCEPT !.state = "closed"]]
\* close(): the source and the timer of a subscription.
Closed(s) == [streams EXCEPT ![s] = [Unused EXCEPT !.state = "closed"]]

\* The router replaces the page and runs what the page registered.  What is
\* still under way is drawn on a page nobody sees.
LeavePage ==
    /\ page' = "gone"
    /\ streams' = IF place = "order" THEN Closed(current) ELSE streams
    /\ reads' = EmptyBag
Leave ==
    /\ page = "live" /\ pressed = Nothing
    /\ LeavePage
    /\ UNCHANGED <<server, who, place, drawn, said, chat, current, pressed, owed,
                   faults>>

-----------------------------------------------------------------------------
(* The subscription: an EventSource, and a new one three seconds after the *)
(* server has refused it. *)

Stay == UNCHANGED <<server, who, place, page, current, pressed, faults>>

\* An answer that is not a stream leaves readyState CLOSED: the order is gone,
\* or the server is being restarted behind its proxy.
Refuse(s) ==
    /\ streams[s].state = "connecting"
    /\ \/ ~order.alive /\ UNCHANGED faults
       \/ order.alive /\ faults < MaxFaults /\ faults' = faults + 1
    /\ streams' = [streams EXCEPT ![s].state = "waiting"]
    /\ UNCHANGED <<server, who, place, page, drawn, said, chat, current, reads, pressed,
                   owed>>

\* The connection ends: the hub drops a slow subscriber, the server restarts,
\* the network fails.  What was under way on it is lost, and the EventSource
\* connects again by itself.
Drop(s) ==
    /\ streams[s].state = "open" /\ faults < MaxFaults
    /\ faults' = faults + 1
    /\ streams' = [streams EXCEPT ![s].state = "connecting", ![s].queue = <<>>,
                                  ![s].armed = 0, ![s].signed = FALSE]
    /\ UNCHANGED <<server, who, place, page, drawn, said, chat, current, reads, pressed,
                   owed>>

\* Slip: the source that was refused is given up.
RetryNever(s) == FALSE
Retry(s) ==
    /\ streams[s].state = "waiting"
    /\ streams' = NewStream(s)
    /\ UNCHANGED <<drawn, said, chat, reads, owed>> /\ Stay

\* Slip: a stream that comes back is taken for one that is new.
Returns(s) == FALSE
Reopened(s) == streams[s].opened

\* The handler of GET /orders/:id/events subscribes and answers: "open".  An
\* event published in between waits behind it.  The first is the subscription
\* itself; after that, whatever happened while the stream was down is read.
Opened(s) ==
    /\ streams[s].state = "connecting" /\ order.alive /\ Room(2)
    /\ streams' = [streams EXCEPT ![s].state = "open", ![s].opened = TRUE,
                     ![s].signed = cookie # Nobody, ![s].armed = IF Open THEN order.at ELSE 0]
    /\ \/ /\ Reopened(s)
          /\ reads' = Reload(Ask(reads, "order"), shown)
          /\ said' = FALSE
          /\ chat' = ClearedChat(shown)
       \/ ~Reopened(s) /\ UNCHANGED <<reads, said, chat>>
    /\ owed' = IF streams[s].opened THEN order.version ELSE owed
    /\ UNCHANGED drawn /\ Stay

\* order.message: a count.  The lines are read unless they are all here.
Heard(count) ==
    /\ \/ /\ chat.messages = count
          /\ UNCHANGED <<chat, reads>>
       \/ /\ chat.messages # count
          /\ chat' = [ClearedChat(shown) EXCEPT
                       !.owed = IF Participates(shown, me) THEN count ELSE @]
          /\ reads' = Reload(reads, shown)
    /\ UNCHANGED <<drawn, said, owed>>

\* Every other event is answered by reading the order again.
Changed(version) ==
    /\ reads' = Ask(reads, "order")
    /\ said' = FALSE
    /\ owed' = Later(owed, version)
    /\ UNCHANGED chat

\* onEvent.
Deliver(s) ==
    /\ streams[s].state = "open" /\ streams[s].queue # <<>> /\ Room(1)
    /\ LET event == Head(streams[s].queue)
           rest == [streams EXCEPT ![s].queue = Tail(@)]
       IN  \/ event.kind = "message" /\ Heard(event.count) /\ streams' = rest
           \/ /\ event.kind \in {"changed", "expired"}
              /\ Changed(event.version) /\ streams' = rest /\ UNCHANGED drawn
           \/ /\ event.kind = "deleted"
              /\ gone' = TRUE /\ streams' = Closed(current)
              /\ UNCHANGED <<shown, second, menuAt, reads, said, owed, chat>>
    /\ Stay

-----------------------------------------------------------------------------
(* The session, and the visitor. *)

\* The session ends: the visitor logs out, or logs in somewhere else.
SessionEnds ==
    /\ Watched /\ me # Nobody /\ cookie # Nobody /\ current < MaxStreams
    /\ faults < MaxFaults /\ faults' = faults + 1
    /\ cookie' = Nobody
    /\ UNCHANGED <<server, me, place, page, drawn, said, chat, streams, current, reads,
                   pressed, owed>>

\* Session.set: the listeners of the page subscribe again and read the order.
SessionKnown ==
    /\ Watched /\ me # cookie /\ Room(1)
    /\ me' = cookie
    /\ \/ /\ page = "live" /\ place = "order" /\ current + 1 \in Streams
          /\ current' = current + 1
          /\ streams' = [Closed(current) EXCEPT ![current + 1].state = "connecting"]
          /\ reads' = Ask(reads, "order")
          /\ said' = FALSE
       \/ /\ ~(page = "live" /\ place = "order")
          /\ UNCHANGED <<current, streams, reads, said>>
    /\ UNCHANGED <<server, cookie, place, page, drawn, chat, pressed, owed, faults>>

\* What the page does with the answer: a failure is said, or the box of a line
\* is put back; a line of the chat is followed by reading the chat, a deletion
\* by another page, and everything else by reading what the page shows.
AfterFailure(c) == IF c.act = "tick" THEN "put back" ELSE "say"
AfterSuccess(c) == IF c.act \in {"delete", "chat"} THEN c.act ELSE "read"

\* A control is used, and the server handles the request; a box and a button
\* are held until the answer.  The summary is a link.
Press(c) ==
    /\ Offered(c) /\ c.act # "summary" /\ pressed = Nothing
    /\ \/ /\ Allowed(c, cookie)
          /\ Change(c, cookie)
          /\ pressed' = [then |-> AfterSuccess(c), version |-> order'.version]
       \/ /\ ~Allowed(c, cookie)
          /\ pressed' = [then |-> AfterFailure(c)]
          /\ UNCHANGED <<order, lines, streams>>
    /\ UNCHANGED <<clock, who, place, page, drawn, said, chat, current, reads, owed,
                   faults>>

Settle ==
    /\ pressed # Nothing /\ Room(1)
    /\ pressed' = Nothing
    /\ \/ /\ pressed.then = "say" /\ said' = TRUE
          /\ UNCHANGED <<page, streams, reads, chat, owed>>
       \/ /\ pressed.then = "put back"
          /\ UNCHANGED <<page, said, streams, reads, chat, owed>>
       \/ /\ pressed.then = "delete" /\ LeavePage
          /\ UNCHANGED <<said, chat, owed>>
       \/ /\ pressed.then = "chat"
          /\ reads' = Reload(reads, shown) /\ chat' = ClearedChat(shown)
          /\ UNCHANGED <<page, streams, said, owed>>
       \/ /\ pressed.then = "read" /\ place = "order"
          /\ Changed(pressed.version)
          /\ UNCHANGED <<page, streams>>
       \/ /\ pressed.then = "read" /\ place = "summary"
          /\ reads' = Ask(reads, "summary")
          /\ UNCHANGED <<page, streams, said, chat, owed>>
    /\ UNCHANGED <<server, who, place, drawn, current, faults>>

-----------------------------------------------------------------------------
Init ==
    /\ order \in [alive : {TRUE}, version : {0}, at : {1}, creator : People,
                  holder : [Jobs -> {Nobody}], owners : {{}}]
    /\ lines = 0 /\ clock = 0
    /\ cookie \in {Visitor, Nobody} /\ me \in {cookie, Nobody}
    /\ place \in Places /\ page = "loading"
    /\ shown = Nothing /\ second = Nothing /\ gone = FALSE /\ menuAt = 1 /\ said = FALSE
    /\ chat = [messages |-> NotRead, open |-> FALSE, said |-> FALSE,
               owed |-> 0]
    /\ streams = [s \in Streams |-> Unused] /\ current = 1
    /\ reads = EmptyBag
    /\ pressed = Nothing /\ owed = 0 /\ faults = 0

\* The steps nobody has to decide on.
ReadStep == \E r \in BagToSet(reads) : Answer(r) \/ OrderArrives(r) \/ ChatArrives(r)
StreamStep == \E s \in Streams : Refuse(s) \/ Retry(s) \/ Opened(s) \/ Deliver(s)
PageStep == Fetch \/ BuildOrderPage \/ BuildOtherPage \/ SessionKnown \/ Settle

Next == \/ Elsewhere \/ Strike \/ Draw \/ SessionEnds
        \/ \E s \in Streams : Drop(s)
        \/ ReadStep \/ StreamStep \/ PageStep \/ Leave
        \/ \E c \in Control : Press(c)

Spec == Init /\ [][Next]_vars

\* The browser and the server do not stop: requests are answered, events on a
\* live connection arrive and timers fire.  Nothing is asked of the people, of
\* the clock or of failures.
Fairness == WF_vars(ReadStep) /\ WF_vars(StreamStep) /\ WF_vars(PageStep)
FairSpec == Spec /\ Fairness

-----------------------------------------------------------------------------
(* Properties. *)

Orders == [alive : BOOLEAN, version : 0..MaxChanges, at : Times, creator : People,
           holder : [Jobs -> People \cup {Nobody}], owners : SUBSET People]
Drawn == {Nothing} \cup [order : Orders, detail : BOOLEAN,
                         as : People \cup {Nobody}, open : BOOLEAN]
StreamStates == {"unused", "connecting", "open", "waiting", "closed"}
Count == 0..MaxChanges
Events == [kind : {"message"}, count : Count]
          \cup [kind : {"changed", "deleted", "expired"}, version : Count]
Subscriptions == [state : StreamStates, opened : BOOLEAN, armed : 0..LastTime,
                  signed : BOOLEAN, queue : Seq(Events)]
Answers(brought) == {NoAnswer, Failed} \cup [answered : {TRUE}, ok : {TRUE}, brings : brought]
ReadRecords == [of : {"order", "summary"}, answer : Answers([order : Orders, detail : BOOLEAN])]
               \cup [of : {"chat"}, answer : Answers(Count)]
PressRecords == [then : {"say", "put back"}]
                \cup [then : {"delete", "chat", "read"}, version : Count]

TypeOK ==
    /\ order \in Orders /\ lines \in Count /\ clock \in 0..LastTime
    /\ {cookie, me} \subseteq People \cup {Nobody}
    /\ page \in {"loading", "reading", "live", "refused", "gone"}
    /\ shown \in Drawn /\ second \in Drawn
    /\ {gone, said} \subseteq BOOLEAN /\ menuAt \in Times
    /\ chat \in [messages : Count \cup {NotRead},
                 open : BOOLEAN, said : BOOLEAN, owed : Count]
    /\ streams \in [Streams -> Subscriptions] /\ current \in Streams
    /\ BagToSet(reads) \subseteq ReadRecords /\ pressed \in {Nothing} \cup PressRecords
    /\ owed \in Count /\ faults \in 0..MaxFaults

\* "A stream outlives the DOM it feeds unless somebody closes it": a page has
\* one subscription at most, the one it can still close, and none once it has
\* been replaced.  A retry waiting for its time counts.
OneSubscription ==
    {s \in Streams : streams[s].state \notin {"unused", "closed"}}
        \subseteq IF page = "live" THEN {current} ELSE {}

\* Nothing under way for the page.
Quiet == /\ page = "live" /\ pressed = Nothing /\ reads = EmptyBag
         /\ me = cookie
         /\ \A s \in Streams : streams[s].queue = <<>>

\* What a page drawn from the order as it is now offers, the server accepts:
\* every rule about who may do what exists twice, in the pages and in the
\* handlers.  The menu column is as old as the page.
AsItIs(r) == /\ Header(r) /\ r.order = order /\ r.open = Open
             /\ r.as = cookie /\ r.detail = (cookie # Nobody)
OfferedIsAllowed ==
    /\ page = "live" /\ me = cookie /\ AsItIs(shown)
    /\ place = "order" \/ second = Nothing \/ AsItIs(second)
    => \A c \in Control :
         Offered(c) /\ (c.act = "dish" => menuAt = order.at) => Allowed(c, cookie)

\* "Whatever happened while the stream was down was never delivered": when
\* nothing is under way, an order at least as new as the newest change the page
\* was told of, by an event, a reconnection or its own request, has been read,
\* or the failure to read it is said.
ToldIsRead == Quiet /\ place = "order" => owed = 0 \/ said

\* "Becoming a participant opens the chat and reads it": an open chat has been
\* read, every line announced on the stream since then has been fetched, or the
\* failure is said.
ChatIsRead ==
    Quiet /\ place = "order" /\ chat.open
        => (chat.messages # NotRead /\ chat.owed = 0) \/ chat.said

\* A page whose stream was dropped or refused gets it back, unless the order is
\* gone or the page is left: "only then does this module make a new one".
StreamComesBack ==
    page = "live" /\ place = "order" /\ streams[current].state \in {"connecting", "waiting"}
        ~> streams[current].state = "open" \/ page # "live" \/ ~order.alive
=============================================================================
