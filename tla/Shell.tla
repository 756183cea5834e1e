------------------------------- MODULE Shell -------------------------------
(***************************************************************************)
(* What is around the pages in the browser: the router with its            *)
(* asynchronous renders, the chrome that App.render() builds anew, the     *)
(* session as the browser knows it, the stack of modals, and the requests  *)
(* that change who is signed in.                                           *)
(*                                                                         *)
(* A request is sent, handled by the server and answered in three steps;   *)
(* a page is built in one turn of the event loop and shown in a later one. *)
(***************************************************************************)
EXTENDS Integers, Sequences, FiniteSets, SequencesExt

CONSTANTS
    Visitor, Nobody,
    MaxRenders,   \* pages asked for
    MaxUnderWay,  \* renders under way at once
    MaxCalls,     \* requests of the visitor under way at once
    MaxModals,    \* modals on top of each other
    MaxFaults     \* answers lost, logins refused, sessions ended elsewhere

ASSUME VisitorAssumption == Visitor # Nobody
ASSUME BoundAssumption ==
    MaxRenders \in Nat \ {0} /\ {MaxUnderWay, MaxCalls, MaxModals, MaxFaults} \subseteq Nat

\* The overview, an order, the account page, and the account page as the login
\* link of that order writes it, with the way back.
Paths == {"/", "/orders/1", "/account", "/account?next=/orders/1"}
Accounts == {"/account", "/account?next=/orders/1"}
Requests == {"session", "login", "logout", "save", "impact", "delete"}
Modals == {"ended", "impactFailed", "delete"}

VARIABLES
    cookie,    \* whose session the browser's cookie names, for the server
    dead,      \* the cookie names a session that has ended
    account,   \* the account exists
    user,      \* Session.current
    ended,     \* Session.ended
    started,   \* how far main is: "asking", "answered", "done"
    calls,     \* requests -> where they are
    url,
    ticket,    \* Router.ticket
    renders,   \* renders under way
    page,      \* what the outlet on the screen holds
    held,      \* the render whose cleanups the router holds
    open,      \* renders whose page has a stream and a listener open
    bar,       \* whom the title bar names
    modals,    \* the stack of modal.ts
    inert,     \* the chrome on the screen is inert
    unsaid,    \* a logout has failed, and nothing was drawn since
    faults

server == <<cookie, dead, account>>
session == <<user, ended>>
router == <<url, ticket, renders, held, open>>
screen == <<page, bar, modals, inert, unsaid>>
vars == <<server, session, started, calls, router, screen, faults>>

Idle == [at |-> "idle"]
Empty == [mine |-> 0]
Known == {Visitor, Nobody}

-----------------------------------------------------------------------------
(* Renders. *)

\* Pages are asked for by whatever handler asks for n of them, in a shell that
\* is new or the one on the screen.
Room(n) == ticket + n <= MaxRenders /\ Cardinality(renders) + n <= MaxUnderWay
\* Under a new chrome, what is under way has no outlet on the screen.
Left(fresh) == IF fresh THEN {[r EXCEPT !.attached = FALSE] : r \in renders} ELSE renders
\* Slip: navigate takes a ticket and render another.
AsksTwice(n, fresh) ==
    /\ ticket' = ticket + n + 1
    /\ renders' = Left(fresh)
          \cup {[mine |-> t, path |-> url', as |-> user', attached |-> TRUE]
                  : t \in (ticket + 1)..(ticket + n)}
Asks(n, fresh) ==
    /\ ticket' = ticket + n
    /\ renders' = Left(fresh)
          \cup {[mine |-> t, path |-> url', as |-> user', attached |-> TRUE]
                  : t \in (ticket + 1)..(ticket + n)}

\* App.render: a new title bar and an empty outlet; the chrome that was inert
\* is gone, the modals are not.
Chrome == /\ page' = Empty /\ bar' = user' /\ inert' = FALSE /\ unsaid' = FALSE
SameChrome == UNCHANGED <<page, bar, inert, unsaid>>

\* Slip: every page is shown as it comes.
NewestAlways(r) == TRUE
Newest(r) == r.mine = ticket
Opened(r) == IF r.path = "/orders/1" THEN open \cup {r.mine} ELSE open
\* Slip: what a page has opened is left to it.
LeftOpen(all, mine) == all
\* Router.run on the cleanups of one render.
Undone(all, mine) == all \ {mine}

\* A page has been built, the order page with a stream and a listener: render()
\* goes on, and the newest replaces the page on the screen, while every other
\* is undone.
Finish(r) ==
    /\ renders' = renders \ {r}
    /\ \/ /\ ~Newest(r)
          /\ open' = Undone(Opened(r), r.mine)
          /\ UNCHANGED <<held, page>>
       \/ /\ Newest(r)
          /\ open' = Undone(Opened(r), held) /\ held' = r.mine
          /\ page' = IF r.attached THEN [mine |-> r.mine, path |-> r.path, as |-> r.as]
                     ELSE page
    /\ UNCHANGED <<server, session, started, calls, url, ticket, bar, modals, inert, unsaid,
                   faults>>

-----------------------------------------------------------------------------
(* Modals. *)

\* openModal: the chrome on the screen is made inert.
Opens(kind) == modals' = Append(modals, kind) /\ inert' = TRUE

\* close(): the last one out gives the chrome back.
Inert(left) == left # <<>> /\ inert
Closes(i) == LET left == RemoveAt(modals, i)
             IN  modals' = left /\ inert' = Inert(left)

\* Escape, the backdrop and the button in the corner: the innermost only.
Dismiss ==
    /\ modals # <<>>
    /\ Closes(Len(modals))
    /\ UNCHANGED <<server, session, started, calls, router, page, bar, unsaid, faults>>

\* Slip: the stack is emptied, and what close() does is left out.
ForgetsModals == modals' = <<>> /\ UNCHANGED inert
\* closeAllModals.
ClosesModals == modals' = <<>> /\ inert' = Inert(<<>>)

-----------------------------------------------------------------------------
(* The visitor moves about. *)

\* A link: Router.navigate, which does nothing for the path one is on.
Follow(path) ==
    /\ ~inert /\ path # url /\ Room(1)
    /\ url' = path
    /\ UNCHANGED <<session, modals>> /\ SameChrome
    /\ Asks(1, FALSE)
    /\ UNCHANGED <<server, started, calls, held, open, faults>>

\* Slip: no page is asked for while another is on its way.
BackUnlessBusy(path) ==
    /\ path # url /\ Room(1)
    /\ url' = path
    /\ UNCHANGED <<session, modals>> /\ SameChrome
    /\ Asks(IF renders = {} THEN 1 ELSE 0, FALSE)
    /\ UNCHANGED <<server, started, calls, held, open, faults>>
\* The browser's back and forward buttons, which no modal is in the way of.
Back(path) ==
    /\ path # url /\ Room(1)
    /\ url' = path
    /\ UNCHANGED <<session, modals>> /\ SameChrome
    /\ Asks(1, FALSE)
    /\ UNCHANGED <<server, started, calls, held, open, faults>>

\* A page leads to another when its request has been answered, wherever the
\* visitor is by then: App.navigate.
Lead(path) ==
    /\ page # Empty /\ path # url /\ Room(1)
    /\ url' = path
    /\ ClosesModals
    /\ UNCHANGED <<session, page, bar, unsaid>>
    /\ Asks(1, FALSE)
    /\ UNCHANGED <<server, started, calls, held, open, faults>>

\* The theme: the chrome again, and the page.
SwitchTheme ==
    /\ ~inert /\ Room(1)
    /\ UNCHANGED <<session, url, modals>>
    /\ Chrome /\ Asks(1, TRUE)
    /\ UNCHANGED <<server, started, calls, held, open, faults>>

\* The language, which closes the modals first.
SetLanguage ==
    /\ ~inert /\ Room(1)
    /\ modals' = <<>>
    /\ UNCHANGED <<session, url>>
    /\ Chrome /\ Asks(1, TRUE)
    /\ UNCHANGED <<server, started, calls, held, open, faults>>

\* The button of the notice that the session has ended.
LogInAgain ==
    /\ modals # <<>> /\ Last(modals) = "ended"
    /\ url' = "/account"
    /\ Closes(Len(modals))
    /\ UNCHANGED <<session, page, bar, unsaid>>
    /\ \/ url = "/account" /\ Asks(0, FALSE)
       \/ url # "/account" /\ Room(1) /\ Asks(1, FALSE)
    /\ UNCHANGED <<server, started, calls, held, open, faults>>

-----------------------------------------------------------------------------
(* Requests: what is pressed, what the server does, what an answer changes. *)

Sent(request, then) == [calls EXCEPT ![request] = [at |-> "sent", then |-> then]]
Over(request) == [calls EXCEPT ![request] = Idle]

\* The controls that send one, held down until the answer: the login form, the
\* title bar's logout, Save and Delete of the account page, and the button of
\* the deletion's modal.
OnPage(r) == /\ page # Empty /\ page.path \in Accounts /\ ~inert
             /\ IF r = "login" THEN page.as = Nobody
                ELSE r \in {"save", "impact"} /\ page.as # Nobody
Offered(r) == \/ OnPage(r)
              \/ r = "logout" /\ bar # Nobody /\ ~inert
              \/ r = "delete" /\ modals # <<>> /\ Last(modals) = "delete"
\* Logging in leads back to where its link was pressed, registering does not.
Then(r) == IF r = "login" /\ page.path # "/account"
           THEN {"return", "stay"} ELSE {"stay"}
Press(r) ==
    /\ Offered(r) /\ calls[r] = Idle
    /\ Cardinality({q \in Requests \ {"session"} : calls[q] # Idle}) < MaxCalls
    /\ \E then \in Then(r) : calls' = Sent(r, then)
    /\ UNCHANGED <<server, session, started, router, screen, faults>>

Answered(r, ok, who) == [calls EXCEPT ![r] = [at |-> "answered", then |-> @.then, ok |-> ok,
                                              who |-> who, note |-> dead /\ r = "session"]]
\* The server handles one.  A session is created by a login, ends with a logout
\* or with its account, and everything else is refused without one.
Handle(r) ==
    /\ calls[r].at = "sent"
    /\ \/ /\ r = "session"
          /\ calls' = Answered(r, TRUE, cookie) /\ dead' = FALSE
          /\ UNCHANGED <<cookie, account>>
       \/ /\ r = "login" /\ account
          /\ calls' = Answered(r, TRUE, Visitor)
          /\ cookie' = Visitor /\ dead' = FALSE /\ UNCHANGED account
       \/ /\ r = "login" /\ ~account
          /\ calls' = Answered(r, FALSE, Nobody) /\ UNCHANGED server
       \/ /\ r = "logout"
          /\ calls' = Answered(r, TRUE, Nobody)
          /\ cookie' = Nobody /\ UNCHANGED <<dead, account>>
       \/ /\ r \in {"save", "impact"} /\ cookie # Nobody
          /\ calls' = Answered(r, TRUE, cookie) /\ UNCHANGED server
       \/ /\ r = "delete" /\ cookie # Nobody
          /\ calls' = Answered(r, TRUE, Nobody)
          /\ cookie' = Nobody /\ account' = FALSE /\ UNCHANGED dead
       \/ /\ r \in {"save", "impact", "delete"} /\ cookie = Nobody
          /\ calls' = Answered(r, FALSE, Nobody) /\ UNCHANGED server
    /\ UNCHANGED <<session, started, router, screen, faults>>

\* The network fails before the request is handled, or after.
Lose(r) ==
    /\ calls[r].at \in {"sent", "answered"} /\ faults < MaxFaults
    /\ faults' = faults + 1
    /\ calls' = [calls EXCEPT ![r] = [at |-> "answered", then |-> @.then, ok |-> FALSE,
                                      who |-> Nobody, note |-> FALSE]]
    /\ UNCHANGED <<server, session, started, router, screen>>

\* A login in another browser, or the idle timeout, ends the session.
EndsElsewhere ==
    /\ cookie # Nobody /\ faults < MaxFaults
    /\ faults' = faults + 1
    /\ cookie' = Nobody /\ dead' = TRUE
    /\ UNCHANGED <<account, session, started, calls, router, screen>>

-----------------------------------------------------------------------------
(* Answers. *)

Arrived(r) == calls[r].at = "answered" /\ calls' = Over(r)
Stay == UNCHANGED <<server, held, open, faults>>

\* Session.load, for main: an error is taken for nobody.
Loaded ==
    /\ Arrived("session")
    /\ user' = calls["session"].who
    /\ ended' = IF calls["session"].ok THEN calls["session"].note ELSE ended
    /\ started' = "answered"
    /\ UNCHANGED <<url, ticket, renders, screen>> /\ Stay

\* /version has been answered as well: main draws everything again, and says
\* that the session has ended.
MainGoesOn ==
    /\ started = "answered" /\ Room(1) /\ Len(modals) < MaxModals
    /\ started' = "done"
    /\ ended' = FALSE
    /\ UNCHANGED <<user, url, calls>>
    /\ page' = Empty /\ bar' = user /\ unsaid' = FALSE
    /\ \/ ended /\ Opens("ended")
       \/ ~ended /\ inert' = FALSE /\ UNCHANGED modals
    /\ Asks(1, TRUE)
    /\ Stay

\* Slip: the title bar is left as it was.
LoggedInBehindTheBar ==
    /\ Arrived("login") /\ calls["login"].ok /\ Room(1)
    /\ user' = calls["login"].who
    /\ UNCHANGED <<ended, started, modals, url>>
    /\ SameChrome /\ Asks(1, FALSE) /\ Stay
\* finishLogin: back to where the link was pressed, or the page again.
LoggedIn ==
    /\ Arrived("login") /\ calls["login"].ok /\ Room(1)
    /\ user' = calls["login"].who
    /\ UNCHANGED <<ended, started, modals>>
    /\ \/ calls["login"].then = "return" /\ url' = "/orders/1" /\ url # url'
       \/ calls["login"].then = "stay" /\ UNCHANGED url
    /\ Chrome /\ Asks(1, TRUE) /\ Stay

\* ... whose navigate does nothing when the visitor has gone back there: the
\* new outlet stays empty until the page is asked for again.
LoggedInThere ==
    /\ Arrived("login") /\ calls["login"].ok
    /\ calls["login"].then = "return" /\ url = "/orders/1"
    /\ user' = calls["login"].who
    /\ UNCHANGED <<ended, started, modals, url>>
    /\ Chrome /\ Asks(0, TRUE) /\ Stay

\* app.render, app.navigate("/"), router.refresh: after a logout and after the
\* deletion of the account.
Leaves ==
    /\ user' = Nobody /\ url' = "/"
    /\ UNCHANGED <<ended, started>>
    /\ modals' = <<>>
    /\ Room(2)
    /\ Chrome /\ Asks(IF url = "/" THEN 1 ELSE 2, TRUE) /\ Stay
LoggedOut == Arrived("logout") /\ calls["logout"].ok /\ Leaves

\* The request failed: the browser forgets the user, and nothing is drawn.
LogoutFails ==
    /\ Arrived("logout") /\ ~calls["logout"].ok
    /\ user' = Nobody /\ unsaid' = (bar # Nobody)
    /\ UNCHANGED <<ended, started, url, ticket, renders, page, bar, modals, inert>> /\ Stay

\* The profile is saved: the title bar shows the name, so the chrome is drawn,
\* and nothing asks for the page.
Saved ==
    /\ Arrived("save") /\ calls["save"].ok
    /\ user' = calls["save"].who
    /\ UNCHANGED <<ended, started, url, modals>>
    /\ Chrome /\ Asks(0, TRUE) /\ Stay

\* What the deletion would take with it, or why it cannot be said.
Impact ==
    /\ Arrived("impact") /\ Len(modals) < MaxModals
    /\ Opens(IF calls["impact"].ok THEN "delete" ELSE "impactFailed")
    /\ UNCHANGED <<session, started, url, ticket, renders, page, bar, unsaid>> /\ Stay

Deleted == Arrived("delete") /\ calls["delete"].ok /\ Leaves

\* A form or a dialog that was refused says so, where it still is.
Refused ==
    /\ \E r \in {"login", "save", "delete"} : Arrived(r) /\ ~calls[r].ok
    /\ UNCHANGED <<session, started, url, ticket, renders, screen>> /\ Stay

-----------------------------------------------------------------------------
Init ==
    /\ cookie \in Known /\ dead \in BOOLEAN /\ (dead => cookie = Nobody)
    /\ account = TRUE
    /\ user = Nobody /\ ended = FALSE
    /\ started = "asking"
    /\ calls = [[r \in Requests |-> Idle] EXCEPT !["session"] = [at |-> "sent", then |-> "stay"]]
    /\ url \in Paths
    /\ ticket = 1
    /\ renders = {[mine |-> 1, path |-> url, as |-> Nobody, attached |-> TRUE]}
    /\ page = Empty /\ held = 0 /\ open = {} /\ bar = Nobody
    /\ modals = <<>> /\ inert = FALSE /\ unsaid = FALSE /\ faults = 0

RenderStep == \E r \in renders : Finish(r)
ServerStep == \E r \in Requests : Handle(r)
AnswerStep == \/ Loaded \/ MainGoesOn \/ LoggedIn \/ LoggedInThere \/ LoggedOut
              \/ LogoutFails \/ Saved \/ Impact \/ Deleted \/ Refused
PersonStep == \/ \E path \in Paths : Follow(path) \/ Back(path)
              \/ \E r \in Requests : Press(r)
              \/ \E path \in {"/", "/orders/1"} : Lead(path)
              \/ SwitchTheme \/ SetLanguage \/ LogInAgain \/ Dismiss

Next == \/ RenderStep \/ ServerStep \/ AnswerStep \/ PersonStep
        \/ EndsElsewhere \/ \E r \in Requests : Lose(r)

Spec == Init /\ [][Next]_vars

\* Pages are built: their requests are answered or given up.  Nothing is asked
\* of the visitor.
Fairness == WF_vars(RenderStep)
FairSpec == Spec /\ Fairness

-----------------------------------------------------------------------------
(* Properties. *)

Renders == [mine : 1..MaxRenders, path : Paths, as : Known,
            attached : BOOLEAN]

TypeOK ==
    /\ cookie \in Known /\ user \in Known /\ bar \in Known
    /\ {dead, account, ended, inert, unsaid} \subseteq BOOLEAN
    /\ started \in {"asking", "answered", "done"}
    /\ DOMAIN calls = Requests
    /\ url \in Paths
    /\ ticket \in 1..MaxRenders /\ held \in 0..MaxRenders /\ open \subseteq 1..MaxRenders
    /\ renders \subseteq Renders
    /\ page \in {Empty} \cup [mine : 1..MaxRenders, path : Paths, as : Known]
    /\ modals \in BoundedSeq(Modals, MaxModals)
    /\ faults \in 0..MaxFaults

\* "Only the newest one is allowed to touch the DOM": the outlet holds the page
\* that was asked for last, one that was the last when it came, or nothing.
Newer == INSTANCE NewestPage WITH asked <- ticket, shown <- page.mine
NewestWins == Newer!Spec

\* "Whatever it opened while being built is closed here rather than left running
\* for the life of the session": a stream is open for no page but the one whose
\* cleanups the router holds.
NothingLeftOpen == open \subseteq {held}

\* With nothing on its way, the page on the screen is that of the address bar,
\* however the visitor and the answers have moved it meanwhile.
PageOfUrl == renders = {} /\ page # Empty => page.path = url

\* "Logging in or out updates this and everything subscribed re-renders": with
\* nothing on its way, the title bar and the page speak of the same person, and
\* it is the one the session names, unless a logout has failed.
Settled == renders = {} /\ started = "done" /\ \A r \in Requests : calls[r] = Idle
OneVisitor ==
    Settled /\ ~unsaid => /\ bar = user
                          /\ page # Empty => page.as = bar

\* The chrome is inert behind a modal only: however modals are closed and the
\* chrome is drawn anew, nobody is locked out.
NeverLockedOut == inert => modals # <<>>

\* The page asked for last comes, unless the chrome it was for has gone.
PageComes ==
    []<>(page.mine = ticket \/ page = Empty)
=============================================================================
