---------------------------- MODULE ShellProofs ----------------------------
(***************************************************************************)
(* The shell of the browser is type correct, its router implements         *)
(* NewestPage, nothing is left open, nobody is locked out, and what has    *)
(* settled on the screen is the page of the address and of the visitor:    *)
(* for any number of pages, requests, modals and faults.                   *)
(***************************************************************************)
EXTENDS Shell, SequenceTheorems, TLAPS

CallPlaces ==
    {Idle} \cup [at : {"sent"}, then : {"return", "stay"}]
    \cup [at : {"answered"}, then : {"return", "stay"}, ok : BOOLEAN, who : Known,
          note : BOOLEAN]
CallsTyped == calls \in [Requests -> CallPlaces]

\* Every render has a ticket of its own, and the page on the screen is none of them.
RenderInv ==
    /\ page.mine <= ticket
    /\ \A r \in renders : /\ r.mine <= ticket /\ r.mine # page.mine
                          /\ \A s \in renders : s.mine = r.mine => s = r

\* The newest page has the address, and a page that is not the newest is about to be
\* replaced by it.
AddressInv ==
    /\ \A r \in renders : r.mine = ticket => r.path = url
    /\ page # Empty /\ page.mine = ticket => page.path = url
    /\ page # Empty /\ page.mine # ticket => \E r \in renders : r.mine = ticket /\ r.attached

\* The title bar names the visitor, and so does every page that will be or is on the
\* screen with it; but for the time between the answer about the session and the
\* drawing, and after a logout that failed.
VisitorInv ==
    /\ unsaid => bar # Nobody
    /\ started # "answered" /\ ~unsaid =>
         /\ bar = user
         /\ \A r \in renders : r.attached => r.as = bar
         /\ page # Empty => page.as = bar

-----------------------------------------------------------------------------
(* What a step is to the router. *)

Added ==
    {[mine |-> t, path |-> url', as |-> user', attached |-> TRUE] : t \in (ticket + 1)..ticket'}
Gone == FALSE
Detached == {[r EXCEPT !.attached = Gone] : r \in renders}
Asked ==
    /\ ticket' \in ticket..MaxRenders
    /\ url' \in Paths /\ (ticket' = ticket => url' = url)
    /\ UNCHANGED <<held, open>>

\* Pages are asked for in the shell on the screen, or in a new one.
SameShell ==
    /\ Asked /\ renders' = renders \cup Added
    /\ UNCHANGED <<page, bar, unsaid, user, started>>
NewShell ==
    /\ Asked /\ renders' = Detached \cup Added
    /\ page' = Empty /\ bar' = user' /\ user' \in Known /\ unsaid' = FALSE
    /\ started' \in {started, "done"}
NoPage ==
    /\ UNCHANGED <<url, ticket, renders, page, bar, held, open>>
    /\ \/ UNCHANGED <<user, unsaid, started>>
       \/ started' = "answered" /\ user' \in Known /\ UNCHANGED unsaid
       \/ user' = Nobody /\ unsaid' = (bar # Nobody) /\ UNCHANGED started

LEMMA CallShape ==
    ASSUME NEW c \in CallPlaces
    PROVE  /\ c.at \in {"sent", "answered"} => c.then \in {"return", "stay"}
           /\ c.at = "answered" => /\ c.who \in Known
                                  /\ c.ok \in BOOLEAN /\ c.note \in BOOLEAN
  BY DEF CallPlaces, Idle

LEMMA PathsAre ==
    /\ Paths = {"/", "/orders/1", "/account", "/account?next=/orders/1"}
    /\ "/" \in Paths /\ "/orders/1" \in Paths /\ "/account" \in Paths
  BY DEF Paths

LEMMA RouterStep ==
    ASSUME TypeOK, CallsTyped, [Next]_vars
    PROVE  RenderStep \/ SameShell \/ NewShell \/ NoPage
<1> USE DEF Room, SameChrome, Stay
<1>0. ticket \in Nat /\ ticket <= MaxRenders /\ MaxRenders \in Nat /\ url \in Paths
      /\ user \in Known
  BY BoundAssumption DEF TypeOK
<1>1. ASSUME NEW path \in Paths, Follow(path) \/ Back(path)
      PROVE  SameShell
  <2>1. ticket' = ticket + 1 /\ renders' = renders \cup Added
    BY <1>0, <1>1 DEF Follow, Back, Asks, Left, Added
  <2>2. ticket + 1 <= MaxRenders /\ url' \in Paths
        /\ UNCHANGED <<held, open, page, bar, unsaid, user, started>>
    BY <1>0, <1>1 DEF Follow, Back, session
  <2>. QED  BY <1>0, <2>1, <2>2 DEF SameShell, Asked
<1>2. ASSUME NEW path \in {"/", "/orders/1"}, Lead(path)
      PROVE  SameShell
  <2>1. ticket' = ticket + 1 /\ renders' = renders \cup Added
    BY <1>0, <1>2 DEF Lead, Asks, Left, Added
  <2>2. ticket + 1 <= MaxRenders /\ url' \in Paths
        /\ UNCHANGED <<held, open, page, bar, unsaid, user, started>>
    BY <1>0, <1>2, PathsAre DEF Lead, session
  <2>. QED  BY <1>0, <2>1, <2>2 DEF SameShell, Asked
<1>3. ASSUME LogInAgain
      PROVE  SameShell
  <2>1. UNCHANGED <<held, open, page, bar, unsaid, user, started>> /\ url' = "/account"
    BY <1>3 DEF LogInAgain, session
  <2>2. CASE url = "/account" /\ Asks(0, FALSE)
    <3>1. ticket' = ticket /\ renders' = renders \cup Added
      BY <1>0, <2>2 DEF Asks, Left, Added
    <3>. QED  BY <1>0, <2>1, <2>2, <3>1 DEF SameShell, Asked
  <2>3. CASE Room(1) /\ Asks(1, FALSE)
    <3>1. ticket' = ticket + 1 /\ renders' = renders \cup Added
      BY <1>0, <2>3 DEF Asks, Left, Added
    <3>2. ticket + 1 <= MaxRenders
      BY <1>0, <2>3
    <3>. QED  BY <1>0, <2>1, <3>1, <3>2, PathsAre DEF SameShell, Asked
  <2>. QED  BY <1>3, <2>2, <2>3 DEF LogInAgain
<1>4. ASSUME SwitchTheme \/ SetLanguage
      PROVE  NewShell
  <2>1. ticket' = ticket + 1 /\ renders' = Detached \cup Added
    BY <1>0, <1>4 DEF SwitchTheme, SetLanguage, Asks, Left, Added, Detached, Gone
  <2>2. /\ ticket + 1 <= MaxRenders /\ url' \in Paths /\ UNCHANGED <<held, open, user, started>>
        /\ page' = Empty /\ bar' = user' /\ unsaid' = FALSE
    BY <1>0, <1>4 DEF SwitchTheme, SetLanguage, Chrome, session
  <2>. QED  BY <1>0, <2>1, <2>2 DEF NewShell, Asked
<1>5. ASSUME MainGoesOn
      PROVE  NewShell
  <2>1. ticket' = ticket + 1 /\ renders' = Detached \cup Added
    BY <1>0, <1>5 DEF MainGoesOn, Asks, Left, Added, Detached, Gone
  <2>. QED  BY <1>0, <1>5, <2>1 DEF MainGoesOn, NewShell, Asked
<1>6. ASSUME LoggedIn \/ LoggedInThere \/ Saved
      PROVE  NewShell
  <2>1. calls["login"] \in CallPlaces /\ calls["save"] \in CallPlaces
    BY DEF CallsTyped, Requests
  <2>2. user' \in Known
    BY <1>6, <2>1, CallShape DEF LoggedIn, LoggedInThere, Saved, Arrived
  <2>3. url' \in Paths /\ UNCHANGED <<held, open, started>>
    BY <1>0, <1>6, PathsAre DEF LoggedIn, LoggedInThere, Saved
  <2>4. page' = Empty /\ bar' = user' /\ unsaid' = FALSE
    BY <1>6 DEF LoggedIn, LoggedInThere, Saved, Chrome
  <2>5. CASE LoggedIn
    <3>1. ticket' = ticket + 1 /\ renders' = Detached \cup Added
      BY <1>0, <2>5 DEF LoggedIn, Asks, Left, Added, Detached, Gone
    <3>2. ticket + 1 <= MaxRenders
      BY <1>0, <2>5 DEF LoggedIn
    <3>. QED  BY <1>0, <2>2, <2>3, <2>4, <3>1, <3>2 DEF NewShell, Asked
  <2>6. CASE LoggedInThere \/ Saved
    <3>1. ticket' = ticket /\ renders' = Detached \cup Added
      BY <1>0, <2>6 DEF LoggedInThere, Saved, Asks, Left, Added, Detached, Gone
    <3>2. url' = url
      BY <2>6 DEF LoggedInThere, Saved
    <3>. QED  BY <1>0, <2>2, <2>3, <2>4, <3>1, <3>2 DEF NewShell, Asked
  <2>. QED  BY <1>6, <2>5, <2>6
<1>7. ASSUME Leaves
      PROVE  NewShell
  <2>1. /\ ticket' = ticket + 1 \/ ticket' = ticket + 2
        /\ renders' = Detached \cup Added
    <3>1. CASE url = "/"
      BY <1>0, <1>7, <3>1 DEF Leaves, Asks, Left, Added, Detached, Gone
    <3>2. CASE url # "/"
      BY <1>0, <1>7, <3>2 DEF Leaves, Asks, Left, Added, Detached, Gone
    <3>. QED  BY <3>1, <3>2
  <2>2. ticket + 2 <= MaxRenders /\ url' \in Paths /\ UNCHANGED <<held, open, started>>
    BY <1>0, <1>7, PathsAre DEF Leaves
  <2>3. page' = Empty /\ bar' = user' /\ user' \in Known /\ unsaid' = FALSE
    BY <1>7 DEF Leaves, Chrome, Known
  <2>. QED  BY <1>0, <2>1, <2>2, <2>3 DEF NewShell, Asked
<1>8. ASSUME Loaded
      PROVE  NoPage
  <2>1. calls["session"] \in CallPlaces
    BY DEF CallsTyped, Requests
  <2>2. user' \in Known
    BY <1>8, <2>1, CallShape DEF Loaded, Arrived
  <2>. QED  BY <1>8, <2>2 DEF Loaded, NoPage, screen
<1>9. ASSUME LogoutFails
      PROVE  NoPage
  BY <1>9 DEF LogoutFails, NoPage
<1>10. ASSUME Impact \/ Refused \/ Dismiss \/ EndsElsewhere
       PROVE  NoPage
  BY <1>10 DEF Impact, Refused, Dismiss, EndsElsewhere, NoPage, session, router, screen
<1>11. ASSUME NEW r \in Requests, Press(r) \/ Handle(r) \/ Lose(r)
       PROVE  NoPage
  BY <1>11 DEF Press, Handle, Lose, NoPage, session, router, screen
<1>12. ASSUME UNCHANGED vars
       PROVE  NoPage
  BY <1>12 DEF vars, NoPage, session, router, screen
<1>. QED
  BY <1>1, <1>2, <1>3, <1>4, <1>5, <1>6, <1>7, <1>8, <1>9, <1>10, <1>11, <1>12
  DEF Next, ServerStep, AnswerStep, PersonStep, LoggedOut, Deleted

-----------------------------------------------------------------------------
(* Types. *)

\* Taking the innermost modal away leaves a shorter stack.
LEMMA RemovedLast ==
    ASSUME NEW stack \in Seq(Modals), stack # <<>>
    PROVE  /\ RemoveAt(stack, Len(stack)) \in Seq(Modals)
           /\ Len(RemoveAt(stack, Len(stack))) = Len(stack) - 1
<1> DEFINE n == Len(stack)
<1>1. n \in Nat \ {0} /\ \A i \in 1..n : stack[i] \in Modals
  BY EmptySeq, ElementOfSeq
<1>. HIDE DEF n
<1>2. \A i \in 1..(n - 1) : stack[i] \in Modals
  BY <1>1
<1>3. SubSeq(stack, 1, n - 1) \in Seq(Modals) /\ Len(SubSeq(stack, 1, n - 1)) = n - 1
  BY <1>1, <1>2, SubSeqProperties
<1>4. SubSeq(stack, n + 1, n) = <<>>
  BY <1>1, SubSeqEmpty
<1>5. SubSeq(stack, 1, n - 1) \o <<>> = SubSeq(stack, 1, n - 1)
  BY <1>3, ConcatEmptySeq
<1>6. RemoveAt(stack, n) = SubSeq(stack, 1, n - 1)
  BY <1>4, <1>5 DEF RemoveAt, n
<1>. QED  BY <1>3, <1>6 DEF n

\* The bounded sequences of the community modules are those of bounded length.
LEMMA BoundedStack ==
    ASSUME NEW n \in Nat
    PROVE  \A stack : stack \in BoundedSeq(Modals, n)
                        <=> stack \in Seq(Modals) /\ Len(stack) <= n
<1>1. ASSUME NEW stack \in BoundedSeq(Modals, n)
      PROVE  stack \in Seq(Modals) /\ Len(stack) <= n
  <2>1. PICK m \in 0..n : stack \in [1..m -> Modals]
    BY DEF BoundedSeq, SeqOf
  <2>. QED  BY <2>1
<1>2. ASSUME NEW stack \in Seq(Modals), Len(stack) <= n
      PROVE  stack \in BoundedSeq(Modals, n)
  <2>1. Len(stack) \in 0..n /\ stack \in [1..Len(stack) -> Modals]
    BY <1>2
  <2>. QED  BY <2>1 DEF BoundedSeq, SeqOf
<1>. QED  BY <1>1, <1>2

LEMMA AddedTyped ==
    ASSUME TypeOK, Asked, user' \in Known
    PROVE  Added \subseteq Renders
<1>1. ticket \in Nat /\ MaxRenders \in Nat /\ ticket' \in ticket..MaxRenders /\ url' \in Paths
  BY BoundAssumption DEF TypeOK, Asked
<1>2. ASSUME NEW t \in (ticket + 1)..ticket'
      PROVE  [mine |-> t, path |-> url', as |-> user', attached |-> TRUE] \in Renders
  <2>1. t \in 1..MaxRenders
    BY <1>1, <1>2
  <2>. QED  BY <2>1, <1>1 DEF Renders
<1>. QED  BY <1>2 DEF Added

LEMMA Replaced ==
    ASSUME NEW A, NEW B, NEW C, NEW D, NEW v,
           NEW r \in [mine : A, path : B, as : C, attached : D]
    PROVE  [r EXCEPT !.attached = v] =
             [mine |-> r.mine, path |-> r.path, as |-> r.as, attached |-> v]
  OBVIOUS

LEMMA DetachedShape ==
    ASSUME renders \subseteq Renders
    PROVE  /\ Detached \subseteq Renders
           /\ \A d \in Detached : \E r \in renders :
                d = [mine |-> r.mine, path |-> r.path, as |-> r.as, attached |-> Gone]
<1>1. ASSUME NEW r \in renders
      PROVE  [r EXCEPT !.attached = Gone] =
               [mine |-> r.mine, path |-> r.path, as |-> r.as, attached |-> Gone]
  <2>1. r \in [mine : 1..MaxRenders, path : Paths, as : Known, attached : BOOLEAN]
    BY DEF Renders
  <2>. QED  BY <2>1, Replaced
<1>2. ASSUME NEW r \in renders
      PROVE  [mine |-> r.mine, path |-> r.path, as |-> r.as, attached |-> Gone] \in Renders
  BY DEF Renders, Gone
<1>3. \A d \in Detached : \E r \in renders :
        d = [mine |-> r.mine, path |-> r.path, as |-> r.as, attached |-> Gone]
  BY <1>1 DEF Detached
<1>. QED  BY <1>2, <1>3

\* What one page leaves behind when it has been built.
LEMMA FinishStep ==
    ASSUME TypeOK, NEW r \in renders, Finish(r)
    PROVE  /\ renders' \subseteq renders /\ held' \in 0..MaxRenders
           /\ open' \subseteq 1..MaxRenders
           /\ page' \in {Empty} \cup [mine : 1..MaxRenders, path : Paths, as : Known]
           /\ UNCHANGED <<url, ticket, user, bar, started, unsaid>>
<1> USE DEF TypeOK
<1>1. /\ r.mine \in 1..MaxRenders
      /\ [mine |-> r.mine, path |-> r.path, as |-> r.as] \in
           [mine : 1..MaxRenders, path : Paths, as : Known]
  BY DEF Renders
<1>2. Opened(r) \subseteq 1..MaxRenders
  BY <1>1 DEF Opened
<1>3. UNCHANGED <<url, ticket, user, bar, started, unsaid>> /\ renders' \subseteq renders
  BY DEF Finish, session
<1>4. held' \in 0..MaxRenders /\ open' \subseteq 1..MaxRenders
  BY <1>1, <1>2 DEF Finish, Undone
<1>5. page' = page \/ page' = [mine |-> r.mine, path |-> r.path, as |-> r.as]
  BY DEF Finish
<1>. QED  BY <1>1, <1>3, <1>4, <1>5

\* Where the requests are.
LEMMA CallsStep ==
    ASSUME TypeOK, CallsTyped, [Next]_vars
    PROVE  CallsTyped'
<1> USE DEF CallsTyped
<1>1. Idle \in CallPlaces
  BY DEF CallPlaces
<1>2. ASSUME NEW r \in Requests, Arrived(r)
      PROVE  CallsTyped'
  BY <1>1, <1>2 DEF Arrived, Over
<1>3. ASSUME NEW r \in Requests, Press(r)
      PROVE  CallsTyped'
  <2>1. PICK then \in {"return", "stay"} :
           calls' = [calls EXCEPT ![r] = [at |-> "sent", then |-> then]]
    BY <1>3 DEF Press, Then, Sent
  <2>2. [at |-> "sent", then |-> then] \in CallPlaces
    BY DEF CallPlaces
  <2>. QED  BY <2>1, <2>2
<1>4. ASSUME NEW r \in Requests, Handle(r) \/ Lose(r)
      PROVE  CallsTyped'
  <2> DEFINE answer(ok, who, note) == [at |-> "answered", then |-> calls[r].then, ok |-> ok,
                                       who |-> who, note |-> note]
  <2>1. calls[r].then \in {"return", "stay"}
    BY <1>4, CallShape DEF Handle, Lose
  <2>2. \A ok, note \in BOOLEAN, who \in Known : answer(ok, who, note) \in CallPlaces
    BY <2>1 DEF CallPlaces
  <2>3. \E ok, note \in BOOLEAN, who \in Known :
           calls' = [calls EXCEPT ![r] = answer(ok, who, note)]
    <3>1. CASE Handle(r)
      BY <3>1 DEF Handle, Answered, Known, TypeOK
    <3>2. CASE Lose(r)
      BY <3>2 DEF Lose, Known
    <3>. QED  BY <1>4, <3>1, <3>2
  <2>. QED  BY <2>2, <2>3
<1>5. CASE UNCHANGED calls
  BY <1>5
<1>. QED
  BY <1>2, <1>3, <1>4, <1>5
  DEF Next, RenderStep, Finish, ServerStep, AnswerStep, PersonStep, Follow, Back, Lead,
      SwitchTheme, SetLanguage, LogInAgain, Dismiss, Loaded, MainGoesOn, LoggedIn,
      LoggedInThere, LoggedOut, LogoutFails, Saved, Impact, Deleted, Refused, EndsElsewhere,
      Requests, vars

\* The stack of modals, and what the chrome behind it is.
LEMMA ModalsStep ==
    ASSUME TypeOK, NeverLockedOut, [Next]_vars
    PROVE  /\ modals' \in BoundedSeq(Modals, MaxModals) /\ inert' \in BOOLEAN
           /\ NeverLockedOut'
<1> DEFINE Good == /\ modals' \in BoundedSeq(Modals, MaxModals) /\ inert' \in BOOLEAN
                   /\ (inert' => modals' # <<>>)
<1> SUFFICES Good
  BY DEF NeverLockedOut
<1>1. MaxModals \in Nat /\ modals \in Seq(Modals) /\ Len(modals) <= MaxModals /\ inert \in BOOLEAN
  BY BoundedStack, BoundAssumption DEF TypeOK
<1>2. <<>> \in BoundedSeq(Modals, MaxModals)
  <2>1. <<>> \in Seq(Modals) /\ Len(<<>>) = 0
    OBVIOUS
  <2>2. Len(<<>>) <= MaxModals
    BY <1>1, <2>1
  <2>. QED  BY <1>1, <2>1, <2>2, BoundedStack
<1>3. ASSUME modals' = <<>>, inert' = FALSE
      PROVE  Good
  BY <1>2, <1>3
<1>4. ASSUME UNCHANGED modals, UNCHANGED inert \/ inert' = FALSE
      PROVE  Good
  <2>1. modals' \in BoundedSeq(Modals, MaxModals)
    BY <1>4 DEF TypeOK
  <2>2. inert => modals # <<>>
    BY DEF NeverLockedOut
  <2>3. inert' \in BOOLEAN /\ (inert' => modals' # <<>>)
    <3>1. CASE UNCHANGED inert
      BY <1>1, <1>4, <2>2, <3>1
    <3>2. CASE inert' = FALSE
      BY <3>2
    <3>. QED  BY <1>4, <3>1, <3>2
  <2>. QED  BY <2>1, <2>3
<1>5. ASSUME NEW kind \in Modals, Len(modals) < MaxModals, Opens(kind)
      PROVE  Good
  <2>1. Append(modals, kind) \in Seq(Modals) /\ Len(Append(modals, kind)) = Len(modals) + 1
        /\ Append(modals, kind) # <<>>
    BY <1>1
  <2>2. Append(modals, kind) \in BoundedSeq(Modals, MaxModals)
    <3>1. Len(Append(modals, kind)) <= MaxModals
      BY <1>1, <1>5, <2>1
    <3>. QED  BY <1>1, <2>1, <3>1, BoundedStack
  <2>. QED  BY <1>5, <2>1, <2>2 DEF Opens
<1>6. ASSUME modals # <<>>, Closes(Len(modals))
      PROVE  Good
  <2>1. RemoveAt(modals, Len(modals)) \in BoundedSeq(Modals, MaxModals)
    BY <1>1, <1>6, RemovedLast, BoundedStack
  <2>2. modals' = RemoveAt(modals, Len(modals)) /\ inert' = (modals' # <<>> /\ inert)
    BY <1>6 DEF Closes, Inert
  <2>. QED  BY <2>1, <2>2, <1>1
<1>7. ASSUME ClosesModals \/ SetLanguage \/ Leaves
      PROVE  Good
  BY <1>3, <1>7 DEF ClosesModals, Inert, SetLanguage, Leaves, Chrome
<1>8. ASSUME MainGoesOn
      PROVE  Good
  <2>1. CASE ended
    BY <1>5, <1>8, <2>1 DEF MainGoesOn, Modals
  <2>2. CASE ~ended
    BY <1>4, <1>8, <2>2 DEF MainGoesOn
  <2>. QED  BY <2>1, <2>2
<1>9. ASSUME Impact
      PROVE  Good
  BY <1>5, <1>9 DEF Impact, Modals
<1>10. ASSUME Dismiss \/ LogInAgain
       PROVE  Good
  BY <1>6, <1>10 DEF Dismiss, LogInAgain
<1>11. ASSUME SwitchTheme \/ LoggedIn \/ LoggedInThere \/ Saved
       PROVE  Good
  BY <1>4, <1>11 DEF SwitchTheme, LoggedIn, LoggedInThere, Saved, Chrome
<1>12. ASSUME NEW path \in Paths, Follow(path) \/ Back(path)
       PROVE  Good
  BY <1>4, <1>12 DEF Follow, Back, SameChrome
<1>13. ASSUME NEW r, Finish(r) \/ Press(r) \/ Handle(r) \/ Lose(r)
       PROVE  Good
  BY <1>4, <1>13 DEF Finish, Press, Handle, Lose, screen
<1>14. ASSUME Loaded \/ LogoutFails \/ Refused \/ EndsElsewhere \/ UNCHANGED vars
       PROVE  Good
  BY <1>4, <1>14 DEF Loaded, LogoutFails, Refused, EndsElsewhere, vars, screen
<1>. QED
  BY <1>7, <1>8, <1>9, <1>10, <1>11, <1>12, <1>13, <1>14
  DEF Next, RenderStep, ServerStep, AnswerStep, PersonStep, Lead, LoggedOut, Deleted

\* What the server keeps, and what else the browser knows.
LEMMA FlagsStep ==
    ASSUME TypeOK, CallsTyped, [Next]_vars
    PROVE  /\ cookie' \in Known /\ {dead', account', ended', unsaid'} \subseteq BOOLEAN
           /\ started' \in {"asking", "answered", "done"} /\ faults' \in 0..MaxFaults
<1> DEFINE Good == /\ cookie' \in Known /\ dead' \in BOOLEAN /\ account' \in BOOLEAN
                   /\ ended' \in BOOLEAN /\ unsaid' \in BOOLEAN
                   /\ started' \in {"asking", "answered", "done"} /\ faults' \in 0..MaxFaults
<1> SUFFICES Good
  OBVIOUS
<1>1. /\ cookie \in Known /\ dead \in BOOLEAN /\ account \in BOOLEAN
      /\ ended \in BOOLEAN /\ unsaid \in BOOLEAN
      /\ started \in {"asking", "answered", "done"} /\ faults \in 0..MaxFaults
      /\ MaxFaults \in Nat
  BY BoundAssumption DEF TypeOK
<1>2. ASSUME UNCHANGED <<server, ended, started, faults>>,
             \/ UNCHANGED unsaid
             \/ unsaid' = FALSE
             \/ unsaid' = (bar # Nobody)
      PROVE  Good
  BY <1>1, <1>2 DEF server
<1>3. ASSUME NEW r \in Requests, Handle(r)
      PROVE  Good
  <2>1. cookie' \in Known
    BY <1>1, <1>3 DEF Handle, server, Known
  <2>2. dead' \in BOOLEAN /\ account' \in BOOLEAN
    BY <1>1, <1>3 DEF Handle, server
  <2>. QED  BY <1>1, <1>3, <2>1, <2>2 DEF Handle, session, screen
<1>4. ASSUME NEW r \in Requests, Lose(r)
      PROVE  Good
  BY <1>1, <1>4 DEF Lose, server, session, screen
<1>5. ASSUME EndsElsewhere
      PROVE  Good
  BY <1>1, <1>5 DEF EndsElsewhere, session, screen, Known
<1>6. ASSUME Loaded
      PROVE  Good
  <2>1. calls["session"] \in CallPlaces
    BY DEF CallsTyped, Requests
  <2>2. ended' \in BOOLEAN
    BY <1>1, <1>6, <2>1, CallShape DEF Loaded, Arrived
  <2>. QED  BY <1>1, <1>6, <2>2 DEF Loaded, Stay, server, screen
<1>7. ASSUME MainGoesOn
      PROVE  Good
  BY <1>1, <1>7 DEF MainGoesOn, Stay, server
<1>8. ASSUME NEW r, Finish(r) \/ Press(r)
      PROVE  Good
  BY <1>2, <1>8 DEF Finish, Press, session, screen
<1>9. ASSUME LoggedIn \/ LoggedInThere \/ Saved \/ Leaves \/ SwitchTheme \/ SetLanguage
      PROVE  Good
  BY <1>2, <1>9 DEF LoggedIn, LoggedInThere, Saved, Leaves, SwitchTheme, SetLanguage, Chrome,
                    Stay, session
<1>10. ASSUME LogoutFails \/ Impact \/ Refused
       PROVE  Good
  BY <1>2, <1>10 DEF LogoutFails, Impact, Refused, Stay, session, screen
<1>11. ASSUME NEW path \in Paths, Follow(path) \/ Back(path) \/ Lead(path)
       PROVE  Good
  BY <1>2, <1>11 DEF Follow, Back, Lead, SameChrome, session
<1>12. ASSUME LogInAgain \/ Dismiss \/ UNCHANGED vars
       PROVE  Good
  BY <1>2, <1>12 DEF LogInAgain, Dismiss, vars, session, screen
<1>. QED
  BY <1>3, <1>4, <1>5, <1>6, <1>7, <1>8, <1>9, <1>10, <1>11, <1>12, PathsAre
  DEF Next, RenderStep, ServerStep, AnswerStep, PersonStep, LoggedOut, Deleted

\* The pages under way and the one on the screen.
LEMMA PagesStep ==
    ASSUME TypeOK, CallsTyped, [Next]_vars
    PROVE  /\ user' \in Known /\ bar' \in Known /\ url' \in Paths
           /\ ticket' \in 1..MaxRenders /\ held' \in 0..MaxRenders
           /\ open' \subseteq 1..MaxRenders /\ renders' \subseteq Renders
           /\ page' \in {Empty} \cup [mine : 1..MaxRenders, path : Paths, as : Known]
<1>1. /\ user \in Known /\ bar \in Known /\ url \in Paths
      /\ ticket \in 1..MaxRenders /\ held \in 0..MaxRenders
      /\ open \subseteq 1..MaxRenders /\ renders \subseteq Renders
      /\ page \in {Empty} \cup [mine : 1..MaxRenders, path : Paths, as : Known]
      /\ MaxRenders \in Nat
  BY BoundAssumption DEF TypeOK
<1>2. CASE RenderStep
  BY <1>1, <1>2, FinishStep DEF RenderStep
<1>3. CASE SameShell
  <2>1. user' \in Known
    BY <1>1, <1>3 DEF SameShell
  <2>2. Added \subseteq Renders
    BY <1>3, <2>1, AddedTyped DEF SameShell
  <2>. QED  BY <1>1, <1>3, <2>1, <2>2 DEF SameShell, Asked
<1>4. CASE NewShell
  <2>1. Added \subseteq Renders /\ Detached \subseteq Renders
    BY <1>1, <1>4, AddedTyped, DetachedShape DEF NewShell
  <2>. QED  BY <1>1, <1>4, <2>1 DEF NewShell, Asked
<1>5. CASE NoPage
  BY <1>1, <1>5 DEF NoPage, Known
<1>. QED  BY <1>2, <1>3, <1>4, <1>5, RouterStep

ShellInv == TypeOK /\ CallsTyped /\ NeverLockedOut

LEMMA ShellInit == Init => ShellInv
<1> SUFFICES ASSUME Init PROVE ShellInv
  OBVIOUS
<1>1. CallsTyped
  BY DEF Init, CallsTyped, CallPlaces
<1>2. TypeOK
  <2>1. modals \in BoundedSeq(Modals, MaxModals)
    <3>1. <<>> \in Seq(Modals) /\ Len(<<>>) = 0 /\ MaxModals \in Nat
      BY BoundAssumption
    <3>2. Len(<<>>) <= MaxModals
      BY <3>1
    <3>. QED  BY <3>1, <3>2, BoundedStack DEF Init
  <2>2. MaxRenders \in Nat \ {0} /\ MaxFaults \in Nat
    BY BoundAssumption
  <2>3. renders \subseteq Renders
    BY <2>2 DEF Init, Renders, Known
  <2>4. DOMAIN calls = Requests
    BY DEF Init
  <2>5. {dead, account, ended, inert, unsaid} \subseteq BOOLEAN
    BY DEF Init
  <2>. QED  BY <2>1, <2>2, <2>3, <2>4, <2>5 DEF Init, TypeOK, Known
<1>3. NeverLockedOut
  BY DEF Init, NeverLockedOut
<1>. QED  BY <1>1, <1>2, <1>3 DEF ShellInv

LEMMA ShellStep ==
    ASSUME ShellInv, [Next]_vars
    PROVE  ShellInv'
<1> USE DEF ShellInv
<1>1. CallsTyped' /\ DOMAIN calls' = Requests
  BY CallsStep DEF CallsTyped
<1>2. modals' \in BoundedSeq(Modals, MaxModals) /\ inert' \in BOOLEAN /\ NeverLockedOut'
  BY ModalsStep
<1>3. TypeOK'
  BY <1>1, <1>2, FlagsStep, PagesStep DEF TypeOK, Known
<1>. QED  BY <1>1, <1>2, <1>3

\* The browser's state stays well typed, whatever is pressed, answered and lost.
THEOREM TypeCorrect == Spec => []TypeOK
<1>1. ShellInv /\ [Next]_vars => ShellInv'
  BY ShellStep
<1>2. ShellInv => TypeOK
  BY DEF ShellInv
<1>. QED  BY ShellInit, <1>1, <1>2, PTL DEF Spec

\* The chrome is inert behind a modal only, however modals are closed, by the innermost
\* one, by a page that leads away or with the language, and the chrome is drawn anew.
THEOREM NobodyLockedOut == Spec => []NeverLockedOut
<1>1. ShellInv /\ [Next]_vars => ShellInv'
  BY ShellStep
<1>2. ShellInv => NeverLockedOut
  BY DEF ShellInv
<1>. QED  BY ShellInit, <1>1, <1>2, PTL DEF Spec

-----------------------------------------------------------------------------
(* The router. *)

LEMMA OpenStep ==
    ASSUME ShellInv, NothingLeftOpen, [Next]_vars
    PROVE  NothingLeftOpen'
<1>1. ASSUME NEW r \in renders, Finish(r)
      PROVE  NothingLeftOpen'
  BY <1>1 DEF Finish, Opened, Undone, NothingLeftOpen
<1>2. CASE UNCHANGED <<held, open>>
  BY <1>2 DEF NothingLeftOpen
<1>. QED
  BY <1>1, <1>2, RouterStep DEF ShellInv, RenderStep, SameShell, NewShell, NoPage, Asked

\* No stream is left open by a page that was overtaken before it came: a page that
\* comes too late closes what it opened, and the one that comes closes its
\* predecessor's.
THEOREM StreamsClosed == Spec => []NothingLeftOpen
<1>1. Init => NothingLeftOpen
  BY DEF Init, NothingLeftOpen
<1>2. ShellInv /\ NothingLeftOpen /\ [Next]_vars => (ShellInv /\ NothingLeftOpen)'
  BY ShellStep, OpenStep
<1>. QED  BY ShellInit, <1>1, <1>2, PTL DEF Spec

LEMMA PageShape ==
    ASSUME TypeOK
    PROVE  /\ page.mine \in Nat /\ ticket \in Nat
           /\ page # Empty <=> page.mine # 0
           /\ Empty.mine = 0
           /\ \A r \in renders : r.mine \in Nat \ {0} /\ r.attached \in BOOLEAN
  BY BoundAssumption DEF TypeOK, Empty, Renders

LEMMA AddedShape ==
    ASSUME NEW d \in Added, ticket \in Nat, ticket' \in Nat
    PROVE  /\ d = [mine |-> d.mine, path |-> url', as |-> user', attached |-> TRUE]
           /\ d.mine \in Nat /\ d.mine > ticket /\ d.mine <= ticket'
           /\ d.path = url' /\ d.as = user' /\ d.attached
  BY DEF Added

LEMMA RenderInit == Init => RenderInv
  BY DEF Init, RenderInv, Empty

LEMMA RenderStepInv ==
    ASSUME ShellInv, RenderInv, [Next]_vars
    PROVE  RenderInv'
<1>1. /\ page.mine \in Nat /\ ticket \in Nat /\ page.mine <= ticket
      /\ \A r \in renders : r.mine \in Nat \ {0} /\ r.mine <= ticket /\ r.mine # page.mine
      /\ \A r, s \in renders : s.mine = r.mine => s = r
  BY PageShape DEF RenderInv, ShellInv
<1>2. ASSUME NEW r \in renders, Finish(r)
      PROVE  RenderInv'
  <2>1. /\ renders' = renders \ {r} /\ ticket' = ticket
        /\ page'.mine \in {page.mine, r.mine}
    BY <1>2 DEF Finish
  <2>. QED  BY <1>1, <2>1 DEF RenderInv
<1>3. ASSUME Asked
      PROVE  ticket' \in Nat /\ (\A n \in Nat : n <= ticket => n <= ticket')
  <2>1. \E t \in Nat : ticket' = t /\ ticket <= t
    BY <1>1, <1>3, BoundAssumption DEF Asked
  <2>. QED  BY <1>1, <2>1
<1>4. CASE SameShell
  <2>1. /\ page' = page /\ renders' = renders \cup Added
        /\ ticket' \in Nat /\ (\A n \in Nat : n <= ticket => n <= ticket')
    BY <1>3, <1>4 DEF SameShell
  <2>2. \A d \in Added : /\ d.mine \in Nat /\ d.mine > ticket /\ d.mine <= ticket'
                         /\ \A e \in Added : d.mine = e.mine => d = e
    BY <1>1, <2>1, AddedShape
  <2>. QED  BY <1>1, <2>1, <2>2 DEF RenderInv
<1>5. CASE NewShell
  <2>1. /\ page'.mine = 0 /\ renders' = Detached \cup Added
        /\ ticket' \in Nat /\ (\A n \in Nat : n <= ticket => n <= ticket')
    BY <1>3, <1>5 DEF NewShell, Empty
  <2>2. \A d \in Added : /\ d.mine \in Nat /\ d.mine > ticket /\ d.mine <= ticket'
                         /\ \A e \in Added : d.mine = e.mine => d = e
    BY <1>1, <2>1, AddedShape
  <2>3. \A d \in Detached : /\ d.mine \in Nat \ {0} /\ d.mine <= ticket
                            /\ \A e \in Detached : d.mine = e.mine => d = e
    <3>1. \A d \in Detached : \E r \in renders :
            d = [mine |-> r.mine, path |-> r.path, as |-> r.as, attached |-> Gone]
      BY DetachedShape DEF ShellInv, TypeOK
    <3>2. \A d \in Detached : \E r \in renders :
            /\ d.mine = r.mine
            /\ d = [mine |-> r.mine, path |-> r.path, as |-> r.as, attached |-> Gone]
      BY <3>1
    <3>. QED  BY <1>1, <3>2
  <2>. QED  BY <1>1, <2>1, <2>2, <2>3 DEF RenderInv
<1>6. CASE NoPage
  BY <1>6 DEF NoPage, RenderInv
<1>. QED  BY <1>2, <1>4, <1>5, <1>6, RouterStep DEF ShellInv, RenderStep

\* What a step of the shell is to NewestPage.
LEMMA NewestStep ==
    ASSUME ShellInv, RenderInv, [Next]_vars
    PROVE  [Newer!Next]_<<ticket, page.mine>>
<1>1. page.mine \in Nat /\ ticket \in Nat
  BY PageShape DEF ShellInv
<1>2. ASSUME NEW r \in renders, Finish(r)
      PROVE  Newer!Show \/ UNCHANGED <<ticket, page.mine>>
  <2>1. CASE UNCHANGED page
    BY <1>2, <2>1 DEF Finish
  <2>2. CASE r.mine = ticket /\ page' = [mine |-> r.mine, path |-> r.path, as |-> r.as]
    BY <1>2, <2>2 DEF Finish, RenderInv, Newer!Show
  <2>. QED  BY <1>2, <2>1, <2>2 DEF Finish, Newest
<1>3. CASE SameShell \/ NewShell
  <2>1. page'.mine \in {page.mine, 0}
    BY <1>3 DEF SameShell, NewShell, Empty
  <2>2. CASE ticket' = ticket
    BY <2>1, <2>2 DEF Newer!Next, Newer!Clear
  <2>3. CASE ticket' # ticket
    <3>1. ticket' > ticket
      <4>1. \E t \in Nat : ticket' = t /\ ticket <= t
        BY <1>1, <1>3, BoundAssumption DEF SameShell, NewShell, Asked
      <4>. QED  BY <1>1, <2>3, <4>1
    <3>. QED  BY <2>1, <3>1 DEF Newer!Next, Newer!Ask
  <2>. QED  BY <2>2, <2>3
<1>4. CASE NoPage
  BY <1>4 DEF NoPage
<1>. QED
  BY <1>2, <1>3, <1>4, RouterStep DEF ShellInv, RenderStep, Newer!Next

\* The router implements NewestPage: of the pages asked for, in whichever order they
\* come, the outlet shows the one asked for last or nothing, and never a page that was
\* overtaken before it came.
THEOREM RouterShowsNewest == Spec => NewestWins
<1>1. Init => Newer!Init
  BY DEF Init, Newer!Init, Empty
<1>2. ShellInv /\ RenderInv /\ [Next]_vars => (ShellInv /\ RenderInv)'
  BY ShellStep, RenderStepInv
<1>3. ShellInv /\ RenderInv /\ [Next]_vars => [Newer!Next]_<<ticket, page.mine>>
  BY NewestStep
<1>. QED
  BY ShellInit, RenderInit, <1>1, <1>2, <1>3, PTL DEF Spec, NewestWins, Newer!Spec

-----------------------------------------------------------------------------
(* What has settled on the screen. *)

LEMMA AddressInit == Init => AddressInv
  BY DEF Init, AddressInv, Empty

LEMMA AddressStep ==
    ASSUME ShellInv, RenderInv, AddressInv, [Next]_vars
    PROVE  AddressInv'
<1>1. /\ page.mine \in Nat /\ ticket \in Nat /\ page.mine <= ticket /\ Empty.mine = 0
      /\ page # Empty <=> page.mine # 0
      /\ \A r \in renders : /\ r.mine \in Nat \ {0} /\ r.mine <= ticket /\ r.mine # page.mine
                            /\ \A s \in renders : s.mine = r.mine => s = r
  BY PageShape DEF RenderInv, ShellInv
<1>2. ASSUME NEW r \in renders, Finish(r)
      PROVE  AddressInv'
  <2>1. renders' = renders \ {r} /\ ticket' = ticket /\ url' = url
    BY <1>2 DEF Finish
  <2>2. CASE r.mine # ticket
    <3>1. page' = page
      BY <1>2, <2>2 DEF Finish, Newest
    <3>. QED  BY <2>1, <2>2, <3>1 DEF AddressInv
  <2>3. CASE r.mine = ticket /\ r.attached
    <3>1. page' = [mine |-> r.mine, path |-> r.path, as |-> r.as]
      BY <1>2, <2>3 DEF Finish, Newest
    <3>. QED  BY <1>1, <2>1, <2>3, <3>1 DEF AddressInv
  <2>4. CASE r.mine = ticket /\ ~r.attached
    <3>1. page' = page
      BY <1>2, <2>4 DEF Finish, Newest
    <3>2. page = Empty
      BY <1>1, <2>4 DEF AddressInv
    <3>. QED  BY <1>1, <2>1, <2>4, <3>1, <3>2 DEF AddressInv
  <2>. QED  BY <2>2, <2>3, <2>4
<1>3. ASSUME Asked, ticket' # ticket
      PROVE  /\ ticket' \in Nat /\ ticket' > ticket
             /\ \A d \in Added : d.path = url' /\ d.attached
             /\ \E d \in Added : d.mine = ticket'
  <2>1. ticket' \in Nat /\ ticket' > ticket
    <3>1. \E t \in Nat : ticket' = t /\ ticket <= t
      BY <1>1, <1>3, BoundAssumption DEF Asked
    <3>. QED  BY <1>1, <1>3, <3>1
  <2>2. ticket' \in (ticket + 1)..ticket'
    BY <1>1, <2>1
  <2>3. \A d \in Added : d.path = url' /\ d.attached
    BY DEF Added
  <2>4. \E d \in Added : d.mine = ticket'
    <3>1. [mine |-> ticket', path |-> url', as |-> user', attached |-> TRUE] \in Added
      BY <2>2 DEF Added
    <3>. QED  BY <3>1
  <2>. QED  BY <2>1, <2>3, <2>4
<1>4. ASSUME Asked, ticket' = ticket
      PROVE  url' = url /\ Added = {}
  BY <1>1, <1>4 DEF Asked, Added
<1>5. CASE SameShell
  <2>1. page' = page /\ renders' = renders \cup Added /\ Asked
    BY <1>5 DEF SameShell
  <2>2. CASE ticket' = ticket
    BY <1>4, <2>1, <2>2 DEF AddressInv
  <2>3. CASE ticket' # ticket
    BY <1>1, <1>3, <2>1, <2>3 DEF AddressInv
  <2>. QED  BY <2>2, <2>3
<1>6. CASE NewShell
  <2>1. page' = Empty /\ renders' = Detached \cup Added /\ Asked
    BY <1>6 DEF NewShell
  <2>2. \A d \in Detached : \E r \in renders : d.mine = r.mine /\ d.path = r.path
    <3>1. \A d \in Detached : \E r \in renders :
            d = [mine |-> r.mine, path |-> r.path, as |-> r.as, attached |-> Gone]
      BY DetachedShape DEF ShellInv, TypeOK
    <3>. QED  BY <3>1
  <2>3. CASE ticket' = ticket
    BY <1>4, <2>1, <2>2, <2>3 DEF AddressInv
  <2>4. CASE ticket' # ticket
    BY <1>1, <1>3, <2>1, <2>2, <2>4 DEF AddressInv
  <2>. QED  BY <2>3, <2>4
<1>7. CASE NoPage
  BY <1>7 DEF NoPage, AddressInv
<1>. QED  BY <1>2, <1>5, <1>6, <1>7, RouterStep DEF ShellInv, RenderStep

\* With nothing on its way, the page on the screen is that of the address: no order in
\* which the pages come and the visitor, the answers and the back button move the
\* address leaves the page of another address standing.
THEOREM PageIsOfAddress == Spec => []PageOfUrl
<1> DEFINE Inv == ShellInv /\ RenderInv /\ AddressInv
<1>1. Init => Inv
  BY ShellInit, RenderInit, AddressInit
<1>2. Inv /\ [Next]_vars => Inv'
  BY ShellStep, RenderStepInv, AddressStep
<1>3. Inv => PageOfUrl
  BY DEF AddressInv, PageOfUrl
<1>. QED  BY <1>1, <1>2, <1>3, PTL DEF Spec

LEMMA VisitorInit == Init => VisitorInv
  BY DEF Init, VisitorInv

LEMMA VisitorStep ==
    ASSUME ShellInv, VisitorInv, [Next]_vars
    PROVE  VisitorInv'
<1>1. /\ ticket \in Nat /\ unsaid \in BOOLEAN
      /\ \A r \in renders : r.attached \in BOOLEAN
  BY PageShape DEF ShellInv, TypeOK
<1>2. ASSUME NEW r \in renders, Finish(r)
      PROVE  VisitorInv'
  <2>1. renders' \subseteq renders /\ UNCHANGED <<user, bar, started, unsaid>>
    BY <1>2, FinishStep DEF ShellInv
  <2>2. \/ page' = page
        \/ r.attached /\ page' = [mine |-> r.mine, path |-> r.path, as |-> r.as]
    BY <1>2 DEF Finish
  <2>. QED  BY <2>1, <2>2 DEF VisitorInv
<1>3. ASSUME Asked
      PROVE  \A d \in Added : d.as = user'
  BY DEF Added
<1>4. CASE SameShell
  BY <1>3, <1>4 DEF SameShell, VisitorInv
<1>5. CASE NewShell
  <2>1. \A d \in Detached : ~d.attached
    <3>1. \A d \in Detached : \E r \in renders :
            d = [mine |-> r.mine, path |-> r.path, as |-> r.as, attached |-> Gone]
      BY DetachedShape DEF ShellInv, TypeOK
    <3>. QED  BY <3>1 DEF Gone
  <2>. QED  BY <1>3, <1>5, <2>1 DEF NewShell, VisitorInv
<1>6. CASE NoPage
  <2>1. UNCHANGED <<renders, page, bar>>
    BY <1>6 DEF NoPage
  <2>2. CASE UNCHANGED <<user, unsaid, started>>
    BY <2>1, <2>2 DEF VisitorInv
  <2>3. CASE started' = "answered" /\ UNCHANGED unsaid
    BY <2>1, <2>3 DEF VisitorInv
  <2>4. CASE user' = Nobody /\ unsaid' = (bar # Nobody) /\ UNCHANGED started
    BY <2>1, <2>4 DEF VisitorInv
  <2>. QED  BY <1>6, <2>2, <2>3, <2>4 DEF NoPage
<1>. QED  BY <1>2, <1>4, <1>5, <1>6, RouterStep DEF ShellInv, RenderStep

\* Once everything has settled, the title bar and the page speak of the person the
\* session names, unless a logout has failed: whatever signing in, out and away has
\* crossed which page on its way.
THEOREM OneVisitorShown == Spec => []OneVisitor
<1>1. ShellInv /\ VisitorInv /\ [Next]_vars => (ShellInv /\ VisitorInv)'
  BY ShellStep, VisitorStep
<1>2. VisitorInv => OneVisitor
  BY DEF VisitorInv, OneVisitor, Settled
<1>. QED  BY ShellInit, VisitorInit, <1>1, <1>2, PTL DEF Spec
=============================================================================
