------------------------------ MODULE Editors ------------------------------
(***************************************************************************)
(* How the pages write what a visitor edits.                               *)
(*                                                                         *)
(* The account page and the restaurant page have one Save in the heading,  *)
(* over two sections of fields.  Everything else is a list whose elements  *)
(* are changed one request at a time: from a dialog that stays until the   *)
(* answer, from one that only asks, or at once; and the list is read again *)
(* afterwards.  The two share nothing, and `part` picks one of them.       *)
(***************************************************************************)
EXTENDS Integers, Sequences, FiniteSets, SequencesExt

CONSTANTS
    Presses,   \* presses of Save whose loop may be under way at once
    Tasks,     \* changes of a list that may be under way at once
    Rules      \* the availability rules of the restaurant

ASSUME TasksAssumption == IsFiniteSet(Tasks) /\ 0 \notin Tasks

VARIABLES
    part,
    \* The heading and its sections.
    field,     \* what the fields of a section say
    base,      \* dirtyTracker's baseline
    dirty,     \* what the sections have told the button
    offered,   \* Save is not disabled
    loops,     \* the section a press of Save is writing; 0 is none
    loading,   \* the e-mail address of the profile has not arrived
    drawn,     \* the page is on the screen
    \* A list and its dialogs.
    tasks,
    stack,     \* the dialogs on the screen, by task
    rules,     \* the rules attached to an element, for the server
    shown,     \* ... and in the list on the screen
    unread     \* a change has been answered and the list not been read since

heading == <<field, base, dirty, offered, loops, loading, drawn>>
list == <<tasks, stack, rules, shown, unread>>
vars == <<part, heading, list>>

-----------------------------------------------------------------------------
(* The heading's Save. *)

Sections == 1..2
Contents == 0..2
\* The account's profile is its first section and its password the second; a
\* restaurant's data and opening hours are.
Password == part = "account"
\* A password that breaks the rules is refused before it is sent.
Refuses(s) == Password /\ s = 2 /\ field[s] = 1

\* report(), in the section and in the button.
Report(s) ==
    /\ dirty' = [dirty EXCEPT ![s] = field'[s] # base'[s]]
    /\ offered' = \E q \in Sections : dirty'[q]

\* What a loop of Save does after section i: the next one that has changes.
Rest(i, told) == {j \in Sections : j > i /\ told[j]}
Onward(i, told) ==
    IF Rest(i, told) = {} THEN 0
    ELSE CHOOSE j \in Rest(i, told) : \A q \in Rest(i, told) : j <= q
Throws(j) == j # 0 /\ Refuses(j)

Edit(s) ==
    /\ part # "list" /\ drawn
    /\ \E content \in Contents \ {field[s]} : field' = [field EXCEPT ![s] = content]
    /\ UNCHANGED base
    /\ Report(s)
    /\ UNCHANGED <<part, loops, loading, drawn, list>>

PressSave(l) ==
    /\ drawn /\ offered /\ loops[l] = 0
    /\ LET j == Onward(0, dirty)
       IN  /\ loops' = [loops EXCEPT ![l] = IF Throws(j) THEN 0 ELSE j]
           /\ offered' = Throws(j)
    /\ UNCHANGED <<part, field, base, dirty, loading, drawn, list>>

\* A section has been written: what its fields say now becomes the baseline, or
\* they are emptied, and the loop goes on.  The name in the title bar is drawn
\* anew, which takes the account page off the screen.
SectionSaved(l) ==
    LET s == loops[l]
    IN  /\ s # 0
        /\ IF Password /\ s = 2
           THEN field' = [field EXCEPT ![s] = base[s]] /\ UNCHANGED base
           ELSE base' = [base EXCEPT ![s] = field[s]] /\ UNCHANGED field
        /\ dirty' = [dirty EXCEPT ![s] = FALSE]
        /\ LET j == Onward(s, dirty')
           IN  /\ loops' = [loops EXCEPT ![l] = IF Throws(j) THEN 0 ELSE j]
               /\ offered' = (Throws(j) \/ \E q \in Sections : dirty'[q])
        /\ drawn' = (drawn /\ ~(Password /\ s = 1))
        /\ UNCHANGED <<part, loading, list>>

\* Slip: the section reports the failure and does not throw it again.
FailureSwallowed(l) ==
    /\ loops[l] # 0
    /\ loops' = [loops EXCEPT ![l] = Onward(loops[l], dirty)]
    /\ UNCHANGED <<part, field, base, dirty, offered, loading, drawn, list>>
SectionFails(l) ==
    /\ loops[l] # 0
    /\ loops' = [loops EXCEPT ![l] = 0]
    /\ offered' = TRUE
    /\ UNCHANGED <<part, field, base, dirty, loading, drawn, list>>

\* Slip: the baseline moves, and nobody tells the button.
AddressUnreported ==
    /\ loading
    /\ loading' = FALSE
    /\ \E content \in Contents : field' = [field EXCEPT ![1] = content]
    /\ base' = [base EXCEPT ![1] = field'[1]]
    /\ UNCHANGED <<part, dirty, offered, loops, drawn, list>>
\* The e-mail address arrives and counts as loaded, with whatever else the
\* profile says by then; or it does not, and its field is disabled.
EmailArrives ==
    /\ loading
    /\ loading' = FALSE
    /\ \/ /\ \E content \in Contents : field' = [field EXCEPT ![1] = content]
          /\ base' = [base EXCEPT ![1] = field'[1]]
          /\ Report(1)
       \/ UNCHANGED <<field, base, dirty, offered>>
    /\ UNCHANGED <<part, loops, drawn, list>>

-----------------------------------------------------------------------------
(* The changes of a list: where the button is, what it asks, what is sent,  *)
(* and what follows.  A form stays until the answer; a name is asked for    *)
(* and its dialog closed; a button that is held cannot be pressed again     *)
(* meanwhile.  Two requests sent together count as one, which may fail with *)
(* half of its effect.                                                      *)

Change(on, asks, sends, then) == [on |-> on, asks |-> asks, sends |-> sends, then |-> then]

\* The menu of a restaurant.
RenameCategory == Change("page", "name", "one", "reads")
AddCategory == Change("page", "name", "one", "reads")
MoveCategory == Change("page", "nothing", "one", "reads")
RemoveCategory == Change("page", "consent", "one", "reads")
Duplicate == Change("page", "nothing", "one", "reads")
EditItem == Change("page", "form", "item", "reads")
RemoveItem == Change("item", "consent", "one", "reads")
SaveModification == Change("item", "nothing", "one", "says")
RemoveModification == Change("item", "nothing", "one", "says")
AddModification == Change("item", "nothing", "one", "says")
\* When food can be had.
EditFilter == Change("page", "form", "one", "reads")
RemoveFilter == Change("page", "consent", "one", "reads")
AttachFilters == Change("page", "form", "rules", "reads")
\* A restaurant's contacts.
StoreContact == Change("page", "nothing", "one", "says")
DropContact == Change("page", "nothing", "one", "says")
CreateContact == Change("page", "nothing", "one", "says")
\* An account's tokens.
CreateToken == Change("page", "held", "one", "reads")
RevokeToken == Change("page", "consent", "one", "reads")
\* The administrator's pages.
EditUser == Change("page", "form", "one", "reads")
SetPassword == Change("page", "form", "one", "says")
RemoveUser == Change("page", "form", "one", "reads")
ReplaceContent == Change("page", "form", "one", "says")
\* New restaurants and orders, whose pages are left with the answer.
CreateRestaurant == Change("page", "held", "one", "says")
CreateOrder == Change("page", "held", "one", "says")
\* An order: its items, its jobs, itself, and what the overview offers.
ChangeOrderItem == Change("page", "form", "one", "reads")
RemoveOrderItem == Change("page", "consent", "one", "reads")
Volunteer == Change("page", "nothing", "one", "reads")
PostLine == Change("page", "held", "one", "reads")
EditOrder == Change("page", "form", "one", "reads")
RemoveTile == Change("page", "consent", "one", "reads")
CleanUp == Change("page", "consent", "one", "reads")
\* What leaves the page, or only says that it is done.
RemoveOrder == Change("page", "consent", "one", "says")
RemoveRestaurant == Change("page", "consent", "one", "says")
ChooseImage == Change("page", "held", "one", "says")
ForgottenPassword == Change("page", "form", "one", "says")
ResetPassword == Change("page", "held", "one", "says")

Changes == {RenameCategory, AddCategory, MoveCategory, RemoveCategory, Duplicate, EditItem,
            RemoveItem, SaveModification, RemoveModification, AddModification, EditFilter,
            RemoveFilter, AttachFilters, StoreContact, DropContact, CreateContact, CreateToken,
            RevokeToken, EditUser, SetPassword, RemoveUser, ReplaceContent, CreateRestaurant,
            CreateOrder, ChangeOrderItem, RemoveOrderItem, Volunteer, PostLine, EditOrder,
            RemoveTile, CleanUp, RemoveOrder, RemoveRestaurant, ChooseImage,
            ForgottenPassword, ResetPassword}

Idle == [at |-> "idle"]
Under(t) == tasks[t].at # "idle"
Editing(t) == Under(t) /\ tasks[t].kind.sends = "item"
Open == ToSet(stack)
Top == IF stack = <<>> THEN 0 ELSE Last(stack)

\* Closing dialogs ends what was only being asked.
Closed(all, which) ==
    [t \in Tasks |->
        IF all[t].at = "idle" \/ (t \in which /\ all[t].at = "asking") THEN Idle
        ELSE [all[t] EXCEPT !.over = IF @ \in which THEN 0 ELSE @]]

\* A control on the page, which no dialog may cover, or in the item editor.
Reachable(kind) == \/ kind.on = "page" /\ stack = <<>>
                   \/ kind.on = "item" /\ Top # 0 /\ Editing(Top)
Held(kind) == kind.asks = "held" /\ \E t \in Tasks : Under(t) /\ tasks[t].kind = kind
Begin(t, kind) ==
    /\ part = "list" /\ ~Under(t) /\ Reachable(kind) /\ ~Held(kind)
    /\ tasks' = [tasks EXCEPT ![t] =
          [kind |-> kind, at |-> IF kind.asks \in {"nothing", "held"} THEN "sent" ELSE "asking",
           over |-> Top, request |-> 1,
           picker |-> IF kind.sends = "one" THEN "none" ELSE "coming",
           ticks |-> shown, data |-> {}, fresh |-> FALSE]]
    /\ stack' = IF tasks'[t].at = "asking" THEN Append(stack, t) ELSE stack
    /\ UNCHANGED <<part, heading, rules, shown, unread>>

\* The restaurant's rules arrive in an editor that attaches them, and are
\* ticked as the list had them; loadFilters answers none for a failure.
RulesArrive(t) ==
    /\ Under(t) /\ tasks[t].picker = "coming"
    /\ \E picker \in {"there", "none"} : tasks' = [tasks EXCEPT ![t].picker = picker]
    /\ UNCHANGED <<part, heading, stack, rules, shown, unread>>

Tick(t) ==
    /\ t = Top /\ tasks[t].picker = "there"
    /\ \E ticks \in SUBSET Rules \ {tasks[t].ticks} :
          tasks' = [tasks EXCEPT ![t].ticks = ticks]
    /\ UNCHANGED <<part, heading, stack, rules, shown, unread>>

Selected(t) == IF tasks[t].picker = "there" THEN tasks[t].ticks ELSE {}

\* Slip: the dialog can be sent while it says that it is loading.
ReadyAtOnce(t) == TRUE
\* "Nothing to save until the rules have arrived."
Ready(t) == tasks[t].kind.sends = "rules" => tasks[t].picker # "coming"
Submit(t) ==
    /\ t = Top /\ tasks[t].at = "asking" /\ Ready(t)
    /\ tasks' = [tasks EXCEPT ![t].at = "sent", ![t].data = Selected(t)]
    /\ stack' = IF tasks[t].kind.asks = "form" THEN stack ELSE Front(stack)
    /\ UNCHANGED <<part, heading, rules, shown, unread>>

\* Escape, Cancel, the backdrop: what has been sent goes on.
Dismiss ==
    /\ stack # <<>>
    /\ stack' = Front(stack)
    /\ tasks' = Closed(tasks, {Top})
    /\ UNCHANGED <<part, heading, rules, shown, unread>>

\* The server handles a request, or it fails, with or without its effect.
WritesRules(t) == tasks[t].kind.sends = "rules" \/ tasks[t].request = 2
Handle(t) ==
    /\ tasks[t].at = "sent"
    /\ \E done \in {"ok", "failed"} : tasks' = [tasks EXCEPT ![t].at = done]
    /\ rules' \in IF ~WritesRules(t) THEN {rules}
                  ELSE IF tasks'[t].at = "ok" THEN {tasks[t].data}
                  ELSE {rules, tasks[t].data}
    /\ UNCHANGED <<part, heading, stack, shown, unread>>

\* The rules of an item are a second request, when there were any to choose.
Attaches(t) == /\ tasks[t].kind.sends = "item" /\ tasks[t].request = 1
               /\ tasks[t].picker = "there"
AttachNext(t) ==
    /\ tasks[t].at = "ok" /\ Attaches(t)
    /\ tasks' = [tasks EXCEPT ![t].at = "sent", ![t].request = 2, ![t].data = Selected(t)]
    /\ UNCHANGED <<part, heading, stack, rules, shown, unread>>

\* The dialog closes and the list is read again; a dish that was deleted takes
\* its editor along.
Takes(t) == IF tasks[t].kind = RemoveItem THEN tasks[t].over ELSE 0
Closes(t) == {t, Takes(t)}
\* Slip: the dialog is left on the screen.
NothingSpliced(t) == stack
\* "stack.splice(stack.indexOf(handle), 1)", for a dialog that is not closed yet.
Spliced(t) == RemoveFirst(RemoveFirst(stack, t), Takes(t))
\* What has been read before a change was answered does not count for it.
Outdated(t) == [q \in Tasks |-> IF tasks[q].at = "read" /\ tasks[t].kind.then = "reads"
                               THEN [tasks[q] EXCEPT !.fresh = FALSE] ELSE tasks[q]]
\* Slip: a dialog that was closed meanwhile is forgotten.
FollowIfOpen(t) ==
    IF tasks[t].kind.then = "reads" /\ (tasks[t].kind.asks = "form" => t \in Open)
    THEN [tasks[t] EXCEPT !.at = "reading"] ELSE Idle
Follow(t) == IF tasks[t].kind.then = "reads" THEN [tasks[t] EXCEPT !.at = "reading"] ELSE Idle
Succeed(t) ==
    /\ tasks[t].at = "ok" /\ ~Attaches(t)
    /\ stack' = Spliced(t)
    /\ unread' = (unread \/ tasks[t].kind.then = "reads")
    /\ tasks' = [Closed(Outdated(t), Closes(t)) EXCEPT ![t] = Follow(t)]
    /\ UNCHANGED <<part, heading, rules, shown>>

\* Slip: the button stays disabled, for want of a finally.
StaysHeld(t) == tasks[t]
\* runAction: the form that failed can be sent again, while it is still there.
Released(t) == IF t \in Open THEN [tasks[t] EXCEPT !.at = "asking", !.request = 1] ELSE Idle
Fail(t) ==
    /\ tasks[t].at = "failed"
    /\ tasks' = [tasks EXCEPT ![t] = Released(t)]
    /\ UNCHANGED <<part, heading, stack, rules, shown, unread>>

\* reload(): the list as it is when the server reads it, shown when it comes, or
\* the page says that it could not be had.
Read(t) ==
    /\ tasks[t].at = "reading"
    /\ tasks' = [tasks EXCEPT ![t].at = "read", ![t].data = rules, ![t].fresh = TRUE]
    /\ UNCHANGED <<part, heading, stack, rules, shown, unread>>
Show(t) ==
    /\ tasks[t].at = "read"
    /\ shown' = tasks[t].data
    /\ unread' = (unread /\ ~tasks[t].fresh)
    /\ tasks' = [tasks EXCEPT ![t] = Idle]
    /\ UNCHANGED <<part, heading, stack, rules>>
ReadFails(t) ==
    /\ tasks[t].at \in {"reading", "read"}
    /\ unread' = FALSE
    /\ tasks' = [tasks EXCEPT ![t] = Idle]
    /\ UNCHANGED <<part, heading, stack, rules, shown>>

-----------------------------------------------------------------------------
Init ==
    /\ part \in {"account", "restaurant", "list"}
    /\ field = [s \in Sections |-> 0] /\ base = field
    /\ dirty = [s \in Sections |-> FALSE] /\ offered = FALSE
    /\ loops = [l \in Presses |-> 0]
    /\ loading = (part = "account") /\ drawn = TRUE
    /\ tasks = [t \in Tasks |-> Idle] /\ stack = <<>>
    /\ rules \in SUBSET Rules /\ shown = rules /\ unread = FALSE
    /\ part # "list" => rules = {}

SaveStep(l) == SectionSaved(l) \/ SectionFails(l)
TaskStep(t) == \/ Handle(t) \/ AttachNext(t) \/ Succeed(t) \/ Fail(t)
               \/ Read(t) \/ Show(t) \/ ReadFails(t)
VisitorStep(t) == (\E kind \in Changes : Begin(t, kind)) \/ Tick(t) \/ Submit(t)

HeadingStep == \/ \E s \in Sections : Edit(s)
               \/ \E l \in Presses : PressSave(l) \/ SaveStep(l)
               \/ EmailArrives
ListStep == \/ \E t \in Tasks : VisitorStep(t) \/ TaskStep(t) \/ RulesArrive(t)
            \/ Dismiss
Next == HeadingStep \/ ListStep

Spec == Init /\ [][Next]_vars

\* A request is answered, or given up by the browser.
Fairness == /\ \A l \in Presses : WF_vars(SaveStep(l))
            /\ \A t \in Tasks : WF_vars(TaskStep(t))
FairSpec == Spec /\ Fairness

-----------------------------------------------------------------------------
(* Properties. *)

States == {"asking", "sent", "ok", "failed", "reading", "read"}
TaskRecords == [kind : Changes, at : States, over : Tasks \cup {0}, request : 1..2,
                picker : {"none", "coming", "there"}, ticks : SUBSET Rules,
                data : SUBSET Rules, fresh : BOOLEAN]

\* ... and a dialog on the screen is that of a form or a question under way.
TypeOK ==
    /\ part \in {"account", "restaurant", "list"}
    /\ field \in [Sections -> Contents] /\ base \in [Sections -> Contents]
    /\ dirty \in [Sections -> BOOLEAN] /\ {offered, loading, drawn, unread} \subseteq BOOLEAN
    /\ loops \in [Presses -> 0..2]
    /\ tasks \in [Tasks -> {Idle} \cup TaskRecords]
    /\ stack \in Seq(Tasks) /\ IsInjective(stack) /\ \A t \in Open : Under(t)
    /\ {rules, shown} \subseteq SUBSET Rules

\* "The heading's Save is re-enabled by a failure that reaches it, and one
\* swallowed here would leave it disabled until a field was edited": with nothing
\* being written, a section that differs from its baseline can be saved, however
\* presses, edits and the late address have overlapped.
SaveIsOffered ==
    (\A l \in Presses : loops[l] = 0) /\ (\E s \in Sections : field[s] # base[s]) => offered

\* "Writing only those that have changes, in order, so pressing it never sends a
\* request that changes nothing": what the sections have told the button is what
\* they say, whenever it goes on to one of them.
WritesOnlyChanges ==
    [][\A l \in Presses : loops'[l] \notin {0, loops[l]} =>
          field'[loops'[l]] # base'[loops'[l]]]_vars

\* The rules attached to an element are replaced only from a picker that shows
\* them; the item editor sends none while they load or when they could not be
\* had.  The attachment editor sends nothing while they load, but takes a failed
\* load for a restaurant without rules.
RulesAreKept ==
    [][rules' # rules =>
        \E t \in Tasks : /\ tasks[t].at = "sent" /\ tasks'[t].at # "sent"
                         /\ \/ tasks[t].picker = "there"
                            \/ tasks[t].kind = AttachFilters /\ tasks[t].picker = "none"]_vars

\* Once nothing is being read, no change that went through is missing from what
\* the page has read: closing a dialog over a request under way does not keep
\* the list from being read again.
ReadAgain == (\A t \in Tasks : tasks[t].at \notin {"reading", "read"}) => ~unread

\* What is sent ends: a form can be sent again or has gone, and a press of Save
\* is over, so that no control stays disabled for good.
EverySaveEnds ==
    /\ \A l \in Presses : loops[l] # 0 ~> loops[l] = 0
    /\ \A t \in Tasks : tasks[t].at = "sent" ~> tasks[t].at \in {"idle", "asking"}
=============================================================================
