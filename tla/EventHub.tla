------------------------------ MODULE EventHub ------------------------------
(***************************************************************************)
(* The registry of live streams (internal/sse), the stream handler and the *)
(* shutdown that use it.                                                   *)
(*                                                                         *)
(* The grain is one critical section per step: a step holds Registry.mu,   *)
(* or one Hub.mu, or both in the one place that nests them.  A hub is      *)
(* named after the stream whose Subscribe created it.  What an event says  *)
(* is left out: a full channel, a wanted event and a closed channel are    *)
(* what the hub tells apart, so a channel is its number of events.         *)
(***************************************************************************)
EXTENDS Integers, FiniteSets

CONSTANTS
    Streams,    \* requests of GET /orders/:id/events, one Subscriber each
    SignedIn,   \* the streams opened by a caller who is signed in
    Publishers, \* slots for handlers that publish
    Orders,
    Batches,    \* argument lists of Publish, each event by its audience
    Buffer,     \* capacity of a Subscriber's channel (sixteen in the code)
    NoHub       \* an order without a hub

Audience == {"everyone", "authenticatedOnly", "anonymousOnly"}

\* Whether a subscriber receives an event.
WantsEvent(s, audience) == \/ audience = "everyone"
                           \/ audience = "authenticatedOnly" /\ s \in SignedIn
                           \/ audience = "anonymousOnly" /\ s \notin SignedIn
Wants(s, batch) == \E audience \in batch : WantsEvent(s, audience)

ASSUME StreamAssumption == SignedIn \subseteq Streams /\ NoHub \notin Streams
ASSUME BufferAssumption == Buffer \in Nat \ {0}
\* Every call of Publish sends a subscriber one event at most, so a subscriber
\* dropped is not written to again in the same loop.
ASSUME BatchAssumption ==
    /\ Batches \subseteq SUBSET Audience
    /\ \A batch \in Batches, s \in Streams, a, b \in Audience :
         {a, b} \subseteq batch /\ WantsEvent(s, a) /\ WantsEvent(s, b) => a = b

VARIABLES
    registry,   \* Registry.hubs
    members,    \* Hub.subscribers of every hub
    closed,     \* subscribers whose channel is closed
    backlog,    \* events waiting in a subscriber's channel
    pc,         \* where a stream's handler is
    order,      \* the order in a stream's path
    hub,        \* the hub a stream's handler looked up last
    calls,      \* publisher -> the Publish under way
    server,     \* the shutdown's progress
    collected   \* hubs CloseAll has taken and not closed yet

streamVars == <<pc, order, hub>>
closerVars == <<server, collected>>
vars == <<registry, members, closed, backlog, streamVars, calls, closerVars>>

NoCall == [pc |-> "idle"]
To(s, place) == pc' = [pc EXCEPT ![s] = place]

-----------------------------------------------------------------------------
(* The stream's handler: Subscribe, the loop, Unsubscribe. *)

\* Subscribe under Registry.mu: the order's hub, or a new one.
Subscribe(s) ==
    /\ pc[s] = "unborn" /\ server \in {"up", "closing"}
    /\ LET o == order[s]
       IN  \/ /\ registry[o] # NoHub
              /\ hub' = [hub EXCEPT ![s] = registry[o]]
              /\ UNCHANGED registry
           \/ /\ registry[o] = NoHub
              /\ hub' = [hub EXCEPT ![s] = s]
              /\ registry' = [registry EXCEPT ![o] = s]
    /\ To(s, "joining")
    /\ UNCHANGED <<members, closed, backlog, order, calls, closerVars>>

\* Subscribe under Hub.mu.
Join(s) ==
    /\ pc[s] = "joining"
    /\ members' = [members EXCEPT ![hub[s]] = @ \cup {s}]
    /\ To(s, "streaming")
    /\ UNCHANGED <<registry, closed, backlog, order, hub, calls, closerVars>>

\* The handler writes an event to its client; a closed channel still drains.
Receive(s) ==
    /\ pc[s] = "streaming" /\ backlog[s] > 0
    /\ backlog' = [backlog EXCEPT ![s] = @ - 1]
    /\ UNCHANGED <<registry, members, closed, streamVars, calls, closerVars>>

\* The loop ends: the channel is closed and empty, or the client is gone or
\* cannot be written to.
Return(s) ==
    /\ pc[s] = "streaming"
    /\ To(s, "leaving")
    /\ UNCHANGED <<registry, members, closed, backlog, order, hub, calls, closerVars>>

\* Unsubscribe under Registry.mu.  Without a hub it returns at once and leaves
\* the channel open.
Leave(s) ==
    /\ pc[s] = "leaving"
    /\ \/ registry[order[s]] = NoHub /\ To(s, "gone") /\ UNCHANGED hub
       \/ /\ registry[order[s]] # NoHub
          /\ hub' = [hub EXCEPT ![s] = registry[order[s]]]
          /\ To(s, "removing")
    /\ UNCHANGED <<registry, members, closed, backlog, order, calls, closerVars>>

\* Slip: the hub is looked at before the subscriber is taken out of it.
EmptyBefore(h, s) == members[h] = {}
EmptyWithout(h, s) == members[h] \ {s} = {}

\* Unsubscribe under Hub.mu.
Withdraw(s) ==
    /\ pc[s] = "removing"
    /\ members' = [members EXCEPT ![hub[s]] = @ \ {s}]
    /\ To(s, IF EmptyWithout(hub[s], s) THEN "closingLast" ELSE "closing")
    /\ UNCHANGED <<registry, closed, backlog, order, hub, calls, closerVars>>

\* Unsubscribe closes the channel outside every lock.
Close(s) ==
    /\ pc[s] \in {"closing", "closingLast"}
    /\ closed' = closed \cup {s}
    /\ To(s, IF pc[s] = "closing" THEN "gone" ELSE "forgetting")
    /\ UNCHANGED <<registry, members, backlog, order, hub, calls, closerVars>>

\* Unsubscribe under both locks: the hub registered now is forgotten when it
\* is empty, whether or not it is the one the subscriber was in.
Forget(s) ==
    /\ pc[s] = "forgetting"
    /\ LET o == order[s]
           empty == registry[o] # NoHub /\ members[registry[o]] = {}
       IN  \/ empty /\ registry' = [registry EXCEPT ![o] = NoHub]
           \/ ~empty /\ UNCHANGED registry
    /\ To(s, "gone")
    /\ UNCHANGED <<members, closed, backlog, order, hub, calls, closerVars>>

-----------------------------------------------------------------------------
(* Publish, after the commit of a write. *)

\* Under Registry.mu.  Without a hub Publish returns at once.
Publish(p) ==
    /\ calls[p] = NoCall
    /\ \E o \in Orders, batch \in Batches :
         /\ registry[o] # NoHub
         /\ calls' = [calls EXCEPT ![p] = [pc |-> "sending", hub |-> registry[o],
                                           batch |-> batch]]
    /\ UNCHANGED <<registry, members, closed, backlog, streamVars, closerVars>>

Targets(p) == {s \in members[calls[p].hub] : Wants(s, calls[p].batch)}
\* Slip: one event too many.
FullLate(s) == backlog[s] > Buffer
Full(s) == backlog[s] = Buffer
Done(p) == calls' = [calls EXCEPT ![p] = NoCall]
Enqueue(targets) ==
    backlog' = [s \in Streams |-> IF s \in targets /\ ~Full(s)
                                  THEN backlog[s] + 1 ELSE backlog[s]]

\* Slip: the send waits until there is room.
SendWhenRoom(p) ==
    /\ calls[p] # NoCall
    /\ Targets(p) \cap closed = {}
    /\ \A s \in Targets(p) : ~Full(s)
    /\ Enqueue(Targets(p))
    /\ Done(p)
    /\ UNCHANGED <<registry, members, closed, streamVars, closerVars>>
\* Slip: a subscriber that is too slow is closed and stays in the hub.
SendKeepingClosed(p) ==
    /\ calls[p] # NoCall
    /\ Targets(p) \cap closed = {}
    /\ Enqueue(Targets(p))
    /\ closed' = closed \cup {s \in Targets(p) : Full(s)}
    /\ Done(p)
    /\ UNCHANGED <<registry, members, streamVars, closerVars>>

\* The loop under Hub.mu: a subscriber whose channel is full is dropped.
Send(p) ==
    /\ calls[p] # NoCall
    /\ Targets(p) \cap closed = {}
    /\ LET slow == {s \in Targets(p) : Full(s)}
       IN  /\ closed' = closed \cup slow
           /\ members' = [members EXCEPT ![calls[p].hub] = @ \ slow]
    /\ Enqueue(Targets(p))
    /\ Done(p)
    /\ UNCHANGED <<registry, streamVars, closerVars>>

\* The same loop meeting a closed channel: the send panics, after the map's
\* order has let it serve some of the others.  The deferred unlock and the
\* Recover middleware end the call.
SendPanics(p) ==
    /\ calls[p] # NoCall
    /\ Targets(p) \cap closed # {}
    /\ \E served \in SUBSET (Targets(p) \ closed) :
         LET slow == {s \in served : Full(s)}
         IN  /\ closed' = closed \cup slow
             /\ members' = [members EXCEPT ![calls[p].hub] = @ \ slow]
             /\ Enqueue(served)
    /\ Done(p)
    /\ UNCHANGED <<registry, streamVars, closerVars>>

-----------------------------------------------------------------------------
(* Shutdown: CloseAll, then http.Server.Shutdown with a grace period. *)

\* CloseAll under Registry.mu: it takes every hub.
CollectHubs ==
    /\ server = "up"
    /\ server' = "closing"
    /\ collected' = {registry[o] : o \in Orders} \ {NoHub}
    /\ registry' = [o \in Orders |-> NoHub]
    /\ UNCHANGED <<members, closed, backlog, streamVars, calls>>

\* CloseAll under one Hub.mu.
CloseHub(h) ==
    /\ h \in collected
    /\ closed' = closed \cup members[h]
    /\ members' = [members EXCEPT ![h] = {}]
    /\ collected' = collected \ {h}
    /\ UNCHANGED <<registry, backlog, streamVars, calls, server>>

\* http.Server.Shutdown closes the listener ...
StopListening ==
    /\ server = "closing" /\ collected = {}
    /\ server' = "waiting"
    /\ UNCHANGED <<registry, members, closed, backlog, streamVars, calls, collected>>

\* The process ends, and everything it holds in memory with it.
Exit == /\ server = "waiting"
        /\ server' = "stopped"
        /\ registry' = [o \in Orders |-> NoHub]
        /\ members' = [h \in Streams |-> {}]
        /\ pc' = [s \in Streams |-> "gone"]
        /\ calls' = [p \in Publishers |-> NoCall]
        /\ UNCHANGED <<closed, backlog, order, hub, collected>>

\* Slip: a shutdown without a deadline.
StopWhenDrained ==
    /\ \A s \in Streams : pc[s] \in {"unborn", "gone"}
    /\ \A p \in Publishers : calls[p] = NoCall
    /\ Exit

\* ... and returns when every request has ended, or when the grace period is
\* over: then http.Server.Close ends the rest.
Stop == Exit

-----------------------------------------------------------------------------
Init == /\ registry = [o \in Orders |-> NoHub]
        /\ members = [h \in Streams |-> {}]
        /\ closed = {}
        /\ backlog = [s \in Streams |-> 0]
        /\ pc = [s \in Streams |-> "unborn"]
        /\ order \in [Streams -> Orders]
        /\ hub = [s \in Streams |-> s]
        /\ calls = [p \in Publishers |-> NoCall]
        /\ server = "up" /\ collected = {}

\* The steps of a goroutine that is inside the registry's code.
StreamStep(s) == Join(s) \/ Leave(s) \/ Withdraw(s) \/ Close(s) \/ Forget(s)
PublishStep(p) == Send(p) \/ SendPanics(p)
ShutdownStep == (\E h \in Streams : CloseHub(h)) \/ StopListening \/ Stop

Next ==
    \/ \E s \in Streams : Subscribe(s) \/ Receive(s) \/ Return(s) \/ StreamStep(s)
    \/ \E p \in Publishers : Publish(p) \/ PublishStep(p)
    \/ CollectHubs \/ ShutdownStep

Spec == Init /\ [][Next]_vars

\* A goroutine inside the registry runs on: no critical section waits for
\* another goroutine, and a Go mutex does not starve.  Nothing is asked of a
\* browser: a handler writing to one that has stopped reading may stay there,
\* its write deadline having been cleared.
Fairness == /\ \A s \in Streams : WF_vars(StreamStep(s))
            /\ \A p \in Publishers : WF_vars(PublishStep(p))
            /\ WF_vars(ShutdownStep)
FairSpec == Spec /\ Fairness

-----------------------------------------------------------------------------
(* Properties. *)

StreamPlaces == {"unborn", "joining", "streaming", "leaving", "removing",
                 "closing", "closingLast", "forgetting", "gone"}
Call == {NoCall} \cup [pc : {"sending"}, hub : Streams, batch : Batches]

\* A channel never holds more than its capacity, and the rest is well typed.
TypeOK ==
    /\ registry \in [Orders -> Streams \cup {NoHub}]
    /\ members \in [Streams -> SUBSET Streams]
    /\ closed \subseteq Streams
    /\ backlog \in [Streams -> 0..Buffer]
    /\ pc \in [Streams -> StreamPlaces]
    /\ order \in [Streams -> Orders]
    /\ hub \in [Streams -> Streams]
    /\ calls \in [Publishers -> Call]
    /\ server \in {"up", "closing", "waiting", "stopped"}
    /\ collected \subseteq Streams

\* A hub the registry knows holds no subscriber whose channel is closed: who
\* closes a channel, the handler, a publisher or the shutdown, has taken the
\* subscriber or the hub out before, whatever the order of the lookups.
RegisteredOpen ==
    \A o \in Orders : registry[o] # NoHub => members[registry[o]] \cap closed = {}

\* "Removed when their last subscriber leaves": when no handler of an order is
\* under way, the registry has no hub for it.
NoHubLeft ==
    \A o \in Orders :
        (\A s \in Streams : pc[s] \in {"unborn", "gone"} \/ order[s] # o)
            => registry[o] = NoHub

\* "Never blocks": a call of Publish ends whatever the browsers do.
PublishReturns == \A p \in Publishers :
    calls[p] # NoCall ~> calls[p] = NoCall

\* An operator who asked for a restart gets one, whatever the browsers do.
ShutdownEnds == server = "closing" ~> server = "stopped"

\* "Dropping a hub that has just gained a subscriber would silently stop
\* delivering to it": a stream that was not dropped is in the hub that the
\* next Publish of its order finds.
NoStreamOrphaned ==
    server = "up" =>
        \A s \in Streams : pc[s] = "streaming" /\ s \notin closed =>
            /\ registry[order[s]] # NoHub
            /\ s \in members[registry[order[s]]]
=============================================================================
