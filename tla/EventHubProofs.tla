--------------------------- MODULE EventHubProofs ---------------------------
(***************************************************************************)
(* EventHub is type correct, a registered hub holds open channels only and *)
(* the last handler of an order leaves no hub behind, for any number of    *)
(* streams, publishers and orders and any capacity of the channels.        *)
(***************************************************************************)
EXTENDS EventHub, TLAPS

\* A channel that is full takes nothing more.
LEMMA EnqueueTyped ==
    ASSUME backlog \in [Streams -> 0..Buffer], NEW targets, Enqueue(targets)
    PROVE  backlog' \in [Streams -> 0..Buffer]
<1>1. ASSUME NEW s \in Streams
      PROVE  backlog'[s] \in 0..Buffer
  <2>1. backlog[s] \in 0..Buffer
    OBVIOUS
  <2>2. backlog'[s] = backlog[s] \/ (backlog[s] # Buffer /\ backlog'[s] = backlog[s] + 1)
    BY DEF Enqueue, Full
  <2>. QED  BY <2>1, <2>2, BufferAssumption
<1>2. backlog' = [s \in Streams |-> backlog'[s]]
  BY DEF Enqueue
<1>. QED  BY <1>1, <1>2

LEMMA TypeStep ==
    ASSUME TypeOK, [Next]_vars
    PROVE  TypeOK'
<1> USE DEF TypeOK, StreamPlaces, To
<1>1. ASSUME NEW s \in Streams, Subscribe(s)
      PROVE  TypeOK'
  BY <1>1 DEF Subscribe, closerVars
<1>2. ASSUME NEW s \in Streams, Receive(s)
      PROVE  TypeOK'
  BY <1>2, BufferAssumption DEF Receive, closerVars, streamVars
<1>3. ASSUME NEW s \in Streams, Return(s) \/ StreamStep(s)
      PROVE  TypeOK'
  <2>1. CASE Return(s)  BY <2>1 DEF Return, closerVars
  <2>2. CASE Join(s)  BY <2>2 DEF Join, closerVars
  <2>3. CASE Leave(s)  BY <2>3 DEF Leave, closerVars
  <2>4. CASE Withdraw(s)
    <3>1. members' \in [Streams -> SUBSET Streams]
      BY <2>4 DEF Withdraw
    <3>. QED  BY <2>4, <3>1 DEF Withdraw, closerVars
  <2>5. CASE Close(s)  BY <2>5 DEF Close, closerVars
  <2>6. CASE Forget(s)  BY <2>6 DEF Forget, closerVars
  <2>. QED  BY <1>3, <2>1, <2>2, <2>3, <2>4, <2>5, <2>6 DEF StreamStep
<1>4. ASSUME NEW p \in Publishers, Publish(p) \/ PublishStep(p)
      PROVE  TypeOK'
  <2>1. CASE Publish(p)
    BY <2>1 DEF Publish, Call, closerVars, streamVars
  <2>2. CASE Send(p) \/ SendPanics(p)
    <3>1. PICK targets \in SUBSET Streams :
             /\ Enqueue(targets)
             /\ closed' = closed \cup {s \in targets : Full(s)}
             /\ members' = [members EXCEPT ![calls[p].hub] =
                              @ \ {s \in targets : Full(s)}]
      <4>1. calls[p] # NoCall /\ calls[p].hub \in Streams
        BY <2>2 DEF Send, SendPanics, Call
      <4>. QED  BY <2>2, <4>1 DEF Send, SendPanics, Targets
    <3>2. backlog' \in [Streams -> 0..Buffer]
      BY <3>1, EnqueueTyped
    <3>3. members' \in [Streams -> SUBSET Streams] /\ closed' \subseteq Streams
      BY <3>1
    <3>4. calls' \in [Publishers -> Call]
      BY <2>2 DEF Send, SendPanics, Done, Call
    <3>. QED  BY <2>2, <3>2, <3>3, <3>4 DEF Send, SendPanics, closerVars, streamVars
  <2>. QED  BY <1>4, <2>1, <2>2 DEF PublishStep
<1>5. CASE CollectHubs
  BY <1>5 DEF CollectHubs, streamVars
<1>6. CASE ShutdownStep
  <2>1. ASSUME NEW h \in Streams, CloseHub(h)
        PROVE  TypeOK'
    BY <2>1 DEF CloseHub, streamVars
  <2>2. CASE StopListening  BY <2>2 DEF StopListening, streamVars
  <2>3. CASE Stop  BY <2>3 DEF Stop, Exit, Call
  <2>. QED  BY <1>6, <2>1, <2>2, <2>3 DEF ShutdownStep
<1>7. CASE UNCHANGED vars
  BY <1>7 DEF vars, streamVars, closerVars
<1>. QED  BY <1>1, <1>2, <1>3, <1>4, <1>5, <1>6, <1>7 DEF Next

LEMMA TypeInit == Init => TypeOK
  BY BufferAssumption DEF Init, TypeOK, StreamPlaces, Call

\* EventHub is type correct; in particular no channel is filled beyond its
\* capacity, though Publish and the handler touch it without a common lock.
THEOREM TypeCorrect == Spec => []TypeOK
  BY TypeInit, TypeStep, PTL DEF Spec

-----------------------------------------------------------------------------
(* Who is in a hub.  The invariant that makes RegisteredOpen inductive says  *)
(* where the handler of a member can be: a member of the hub the registry    *)
(* has now, once on its way out, has looked up that very hub.                *)

Registered(h) == registry[order[h]] = h

\* A hub belongs to one order: the one of the stream that made it.
Homes ==
    /\ \A o \in Orders : registry[o] # NoHub =>
         order[registry[o]] = o /\ pc[registry[o]] # "unborn"
    /\ \A s \in Streams : pc[s] = "joining" =>
         order[hub[s]] = order[s] /\ pc[hub[s]] # "unborn"

\* A subscriber is in one hub at most, of its own order, and only once it has
\* joined.
Members ==
    \A h, s \in Streams : s \in members[h] =>
        /\ order[h] = order[s] /\ pc[h] # "unborn"
        /\ pc[s] \notin {"unborn", "joining"}
        /\ \A g \in Streams : s \in members[g] => g = h

\* No channel is closed before its stream has joined.
ClosedJoined == \A s \in closed : pc[s] \notin {"unborn", "joining"}

\* A member of the registered hub is in it for good reason.
Stays(s, h) == \/ pc[s] \in {"streaming", "leaving"}
               \/ pc[s] = "removing" /\ hub[s] = h
Present ==
    \A h, s \in Streams : s \in members[h] /\ Registered(h) => Stays(s, h)

Open == \A h, s \in Streams : s \in members[h] /\ Registered(h) => s \notin closed

HubInv == Homes /\ Members /\ ClosedJoined /\ Present /\ Open

LEMMA HubInit == Init => HubInv
  BY StreamAssumption
  DEF Init, HubInv, Homes, Members, ClosedJoined, Present, Open

LEMMA HubStep ==
    ASSUME TypeOK, HubInv, [Next]_vars
    PROVE  HubInv'
<1> USE StreamAssumption DEF TypeOK, HubInv, Homes, Members, ClosedJoined, Present,
                             Open, Registered, Stays, To
<1>1. ASSUME NEW s \in Streams, Subscribe(s)
      PROVE  HubInv'
  BY <1>1 DEF Subscribe, closerVars
<1>2. ASSUME NEW s \in Streams, Receive(s) \/ Return(s)
      PROVE  HubInv'
  BY <1>2 DEF Receive, Return, closerVars, streamVars
<1>3. ASSUME NEW s \in Streams, StreamStep(s)
      PROVE  HubInv'
  <2>1. CASE Join(s)  BY <2>1 DEF Join, closerVars
  <2>2. CASE Leave(s)  BY <2>2 DEF Leave, closerVars
  <2>3. CASE Withdraw(s)  BY <2>3 DEF Withdraw, closerVars
  <2>4. CASE Close(s)  BY <2>4 DEF Close, closerVars
  <2>5. CASE Forget(s)  BY <2>5 DEF Forget, closerVars
  <2>. QED  BY <1>3, <2>1, <2>2, <2>3, <2>4, <2>5 DEF StreamStep
<1>4. ASSUME NEW p \in Publishers, Publish(p)
      PROVE  HubInv'
  BY <1>4 DEF Publish, streamVars
<1>5. ASSUME NEW p \in Publishers, PublishStep(p)
      PROVE  HubInv'
  <2>1. calls[p].hub \in Streams
    BY <1>5 DEF PublishStep, Send, SendPanics, Call
  <2>2. PICK slow \in SUBSET members[calls[p].hub] :
           /\ closed' = closed \cup slow
           /\ members' = [members EXCEPT ![calls[p].hub] = @ \ slow]
    BY <1>5 DEF PublishStep, Send, SendPanics, Targets
  <2>3. UNCHANGED <<registry, streamVars>>
    BY <1>5 DEF PublishStep, Send, SendPanics
  <2>. QED  BY <2>1, <2>2, <2>3 DEF streamVars
<1>6. CASE CollectHubs
  BY <1>6 DEF CollectHubs, streamVars
<1>7. CASE ShutdownStep
  <2>1. ASSUME NEW h \in Streams, CloseHub(h)
        PROVE  HubInv'
    BY <2>1 DEF CloseHub, streamVars
  <2>2. CASE StopListening  BY <2>2 DEF StopListening, streamVars
  <2>3. CASE Stop  BY <2>3 DEF Stop, Exit
  <2>. QED  BY <1>7, <2>1, <2>2, <2>3 DEF ShutdownStep
<1>8. CASE UNCHANGED vars
  BY <1>8 DEF vars, streamVars
<1>. QED  BY <1>1, <1>2, <1>3, <1>4, <1>5, <1>6, <1>7, <1>8 DEF Next

\* A hub the registry knows never holds a subscriber with a closed channel:
\* only a hub the registry has lost can make Publish panic.
THEOREM RegisteredHubsOpen == Spec => []RegisteredOpen
<1>1. TypeOK /\ HubInv => RegisteredOpen
  BY StreamAssumption DEF TypeOK, HubInv, Homes, Open, Registered, RegisteredOpen
<1>. QED  BY <1>1, TypeInit, TypeStep, HubInit, HubStep, PTL DEF Spec

-----------------------------------------------------------------------------
(* Who will forget a hub.  The hub of an order is answered for by a stream   *)
(* that is still to look it up, or has looked it up and is still to leave    *)
(* it, or is about to forget whatever hub the order has, if it is empty.     *)

AnswersFor(s, h) ==
    /\ order[s] = order[h]
    /\ \/ pc[s] = "joining" /\ hub[s] = h
       \/ Stays(s, h)
       \/ pc[s] \in {"closingLast", "forgetting"}
Answered == \A h \in Streams : Registered(h) => \E s \in Streams : AnswersFor(s, h)

\* A member of the registered hub answers for it.
LEMMA MemberAnswers ==
    ASSUME HubInv, NEW h \in Streams, NEW s \in Streams, s \in members[h], Registered(h)
    PROVE  AnswersFor(s, h)
  BY DEF HubInv, Members, Present, AnswersFor

LEMMA AnsweredInit == Init => Answered
  BY StreamAssumption DEF Init, Answered, Registered

LEMMA AnsweredStep ==
    ASSUME TypeOK, HubInv, Answered, [Next]_vars
    PROVE  Answered'
<1> SUFFICES ASSUME NEW h \in Streams, Registered(h)'
             PROVE  \E s \in Streams : AnswersFor(s, h)'
  BY DEF Answered
<1> USE StreamAssumption DEF TypeOK, Registered, To, AnswersFor, Stays
<1>0. order' = order
  BY DEF Next, Subscribe, Receive, Return, StreamStep, Join, Leave, Withdraw, Close,
         Forget, Publish, PublishStep, Send, SendPanics, CollectHubs, ShutdownStep,
         CloseHub, StopListening, Stop, Exit, vars, streamVars
<1>1. ASSUME NEW t \in Streams, Subscribe(t)
      PROVE  \E s \in Streams : AnswersFor(s, h)'
  <2>1. CASE Registered(h)
    BY <1>1, <2>1 DEF Answered, Subscribe
  <2>2. CASE ~Registered(h)
    <3>1. order[t] = order[h] /\ hub'[t] = h /\ pc'[t] = "joining"
      BY <1>1, <2>2 DEF Subscribe
    <3>. QED  BY <3>1, <1>0
  <2>. QED  BY <2>1, <2>2
<1>2. ASSUME NEW t \in Streams, Receive(t) \/ Return(t) \/ Join(t)
      PROVE  \E s \in Streams : AnswersFor(s, h)'
  BY <1>2 DEF Answered, Receive, Return, Join, streamVars
<1>3. ASSUME NEW t \in Streams, Leave(t)
      PROVE  \E s \in Streams : AnswersFor(s, h)'
  BY <1>3 DEF Answered, Leave
<1>4. ASSUME NEW t \in Streams, Withdraw(t)
      PROVE  \E s \in Streams : AnswersFor(s, h)'
  <2>0. Registered(h)
    BY <1>4 DEF Withdraw
  <2>1. CASE hub[t] = h /\ ~EmptyWithout(h, t)
    <3>1. PICK s \in members[h] : s # t
      BY <2>1 DEF EmptyWithout
    <3>2. s \in Streams /\ AnswersFor(s, h)
      BY <3>1, <2>0, MemberAnswers
    <3>3. AnswersFor(s, h)'
      BY <3>1, <3>2, <1>4 DEF Withdraw
    <3>. QED  BY <3>2, <3>3
  <2>2. CASE hub[t] # h \/ EmptyWithout(h, t)
    BY <1>4, <2>0, <2>2 DEF Answered, Withdraw
  <2>. QED  BY <2>1, <2>2
<1>5. ASSUME NEW t \in Streams, Close(t)
      PROVE  \E s \in Streams : AnswersFor(s, h)'
  BY <1>5 DEF Answered, Close
<1>6. ASSUME NEW t \in Streams, Forget(t)
      PROVE  \E s \in Streams : AnswersFor(s, h)'
  <2>0. Registered(h)
    BY <1>6 DEF Forget
  <2>1. CASE order[t] = order[h]
    <3>1. members[h] # {}
      BY <1>6, <2>0, <2>1 DEF Forget
    <3>2. PICK s \in members[h] : TRUE
      BY <3>1
    <3>3. s \in Streams /\ AnswersFor(s, h) /\ Stays(s, h)
      BY <3>2, <2>0, MemberAnswers DEF HubInv, Present
    <3>4. AnswersFor(s, h)'
      BY <3>3, <1>6 DEF Forget
    <3>. QED  BY <3>3, <3>4
  <2>2. CASE order[t] # order[h]
    BY <1>6, <2>0, <2>2 DEF Answered, Forget
  <2>. QED  BY <2>1, <2>2
<1>7. ASSUME NEW p \in Publishers, Publish(p) \/ PublishStep(p)
      PROVE  \E s \in Streams : AnswersFor(s, h)'
  BY <1>7 DEF Answered, Publish, PublishStep, Send, SendPanics, streamVars
<1>8. CASE CollectHubs \/ ShutdownStep
  <2>1. CASE CollectHubs \/ Stop
    <3>1. order[h] \in Orders /\ registry'[order[h]] = NoHub
      BY <2>1 DEF CollectHubs, Stop, Exit
    <3>. QED  BY <3>1, <1>0
  <2>2. CASE StopListening \/ \E g \in Streams : CloseHub(g)
    BY <2>2 DEF Answered, StopListening, CloseHub, streamVars
  <2>. QED  BY <1>8, <2>1, <2>2 DEF ShutdownStep
<1>9. CASE UNCHANGED vars
  BY <1>9 DEF Answered, vars, streamVars
<1>. QED
  BY <1>1, <1>2, <1>3, <1>4, <1>5, <1>6, <1>7, <1>8, <1>9 DEF Next, StreamStep

\* The registry does not keep a hub for an order nobody watches: the check of
\* the emptiness in two steps leaves nothing behind, whoever subscribes,
\* leaves or is dropped in between.
THEOREM HubsForgotten == Spec => []NoHubLeft
<1>1. TypeOK /\ HubInv /\ Answered => NoHubLeft
  BY StreamAssumption
  DEF TypeOK, HubInv, Homes, Answered, AnswersFor, Stays, Registered, NoHubLeft
<1>. QED  BY <1>1, TypeInit, TypeStep, HubInit, HubStep, AnsweredInit, AnsweredStep,
             PTL DEF Spec
=============================================================================
