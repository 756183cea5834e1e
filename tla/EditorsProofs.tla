--------------------------- MODULE EditorsProofs ---------------------------
(***************************************************************************)
(* The editors are type correct: the heading's Save writes what has        *)
(* changed and stays within reach, the changes of a list are read again,   *)
(* and the rules of an element are replaced only by who has seen them; for *)
(* any number of presses, tasks and rules.                                 *)
(***************************************************************************)
EXTENDS Editors, SequenceTheorems, TLAPS

HeadingTyped ==
    /\ field \in [Sections -> Contents] /\ base \in [Sections -> Contents]
    /\ dirty \in [Sections -> BOOLEAN]
    /\ offered \in BOOLEAN /\ loading \in BOOLEAN /\ drawn \in BOOLEAN
    /\ loops \in [Presses -> 0..2]

\* The button has been told what the sections say.
Told == \A s \in Sections : dirty[s] = (field[s] # base[s])
HeadingInv == HeadingTyped /\ Told /\ SaveIsOffered

LEMMA OnwardFacts ==
    ASSUME NEW i \in 0..2, NEW told \in [Sections -> BOOLEAN]
    PROVE  /\ Onward(i, told) \in 0..2
           /\ Onward(i, told) # 0 => Onward(i, told) > i /\ told[Onward(i, told)]
           /\ Onward(i, told) = 0 => \A s \in Sections : s > i => ~told[s]
<1>1. CASE Rest(i, told) = {}
  BY <1>1 DEF Onward, Rest
<1>2. CASE Rest(i, told) # {}
  <2>1. Rest(i, told) \subseteq 1..2
    BY DEF Rest, Sections
  <2>2. PICK j \in Rest(i, told) : \A q \in Rest(i, told) : j <= q
    BY <1>2, <2>1
  <2>3. Onward(i, told) \in Rest(i, told)
    BY <1>2, <2>2 DEF Onward
  <2>. QED  BY <2>3, <2>1 DEF Rest
<1>. QED  BY <1>1, <1>2

LEMMA InitHeading == Init => HeadingInv
<1> SUFFICES ASSUME Init PROVE HeadingInv
  OBVIOUS
<1>1. /\ field = [s \in Sections |-> 0] /\ base = field /\ dirty = [s \in Sections |-> FALSE]
      /\ offered = FALSE /\ loading \in BOOLEAN /\ drawn = TRUE /\ loops = [l \in Presses |-> 0]
  BY DEF Init
<1>2. HeadingTyped
  <2>1. field \in [Sections -> Contents] /\ base \in [Sections -> Contents]
    BY <1>1 DEF Contents
  <2>2. dirty \in [Sections -> BOOLEAN] /\ offered \in BOOLEAN /\ drawn \in BOOLEAN
    BY <1>1
  <2>3. loops \in [Presses -> 0..2]
    BY <1>1
  <2>. QED  BY <1>1, <2>1, <2>2, <2>3 DEF HeadingTyped
<1>3. Told /\ SaveIsOffered
  BY <1>1 DEF Told, SaveIsOffered
<1>. QED  BY <1>2, <1>3 DEF HeadingInv

LEMMA HeadingKept ==
    ASSUME HeadingInv, UNCHANGED heading
    PROVE  HeadingInv'
BY DEF heading, HeadingInv, HeadingTyped, Told, SaveIsOffered

LEMMA EditHeading ==
    ASSUME HeadingInv, NEW s \in Sections, Edit(s)
    PROVE  HeadingInv'
<1>1. PICK content \in Contents : field' = [field EXCEPT ![s] = content]
  BY DEF Edit
<1>2. /\ base' = base /\ loops' = loops /\ loading' = loading /\ drawn' = drawn
      /\ dirty' = [dirty EXCEPT ![s] = field'[s] # base'[s]]
      /\ offered' = \E q \in Sections : dirty'[q]
  BY DEF Edit, Report
<1>3. HeadingTyped'
  BY <1>1, <1>2 DEF HeadingInv, HeadingTyped
<1>4. Told'
  BY <1>1, <1>2 DEF HeadingInv, HeadingTyped, Told
<1>5. SaveIsOffered'
  BY <1>2, <1>4 DEF Told, SaveIsOffered
<1>. QED  BY <1>3, <1>4, <1>5 DEF HeadingInv

LEMMA EmailHeading ==
    ASSUME HeadingInv, EmailArrives
    PROVE  HeadingInv'
<1>1. CASE UNCHANGED <<field, base, dirty, offered>>
  BY <1>1 DEF EmailArrives, HeadingInv, HeadingTyped, Told, SaveIsOffered
<1>2. CASE ~UNCHANGED <<field, base, dirty, offered>>
  <2>1. PICK content \in Contents : field' = [field EXCEPT ![1] = content]
    BY <1>2 DEF EmailArrives
  <2>2. /\ base' = [base EXCEPT ![1] = field'[1]]
        /\ loops' = loops /\ loading' = FALSE /\ drawn' = drawn
        /\ dirty' = [dirty EXCEPT ![1] = field'[1] # base'[1]]
        /\ offered' = \E q \in Sections : dirty'[q]
    BY <1>2 DEF EmailArrives, Report
  <2>3. HeadingTyped'
    BY <2>1, <2>2 DEF HeadingInv, HeadingTyped, Sections
  <2>4. Told'
    BY <2>1, <2>2 DEF HeadingInv, HeadingTyped, Told, Sections
  <2>5. SaveIsOffered'
    BY <2>2, <2>4 DEF Told, SaveIsOffered
  <2>. QED  BY <2>3, <2>4, <2>5 DEF HeadingInv
<1>. QED  BY <1>1, <1>2

\* A press of Save writes a section that has changes, or there is none.
LEMMA PressHeading ==
    ASSUME HeadingInv, NEW l \in Presses, PressSave(l)
    PROVE  /\ HeadingInv'
           /\ \A k \in Presses : loops'[k] \notin {0, loops[k]} =>
                field'[loops'[k]] # base'[loops'[k]]
<1> DEFINE j == Onward(0, dirty)
<1>1. /\ j \in 0..2
      /\ j # 0 => dirty[j]
      /\ j = 0 => \A s \in Sections : ~dirty[s]
  BY OnwardFacts DEF HeadingInv, HeadingTyped, Sections
<1>2. PICK throws \in BOOLEAN :
        /\ loops' = [loops EXCEPT ![l] = IF throws THEN 0 ELSE j]
        /\ offered' = throws
  BY DEF PressSave, Throws, Refuses, Password
<1>3. UNCHANGED <<field, base, dirty, loading, drawn>>
  BY DEF PressSave
<1> HIDE DEF j
<1>4. HeadingTyped'
  BY <1>1, <1>2, <1>3 DEF HeadingInv, HeadingTyped
<1>5. Told'
  BY <1>3 DEF HeadingInv, Told
<1>6. SaveIsOffered'
  BY <1>1, <1>2, <1>3 DEF HeadingInv, HeadingTyped, Told, SaveIsOffered
<1>7. ASSUME NEW k \in Presses, loops'[k] \notin {0, loops[k]}
      PROVE  field'[loops'[k]] # base'[loops'[k]]
  <2>1. loops'[k] = j /\ j \in Sections /\ dirty[j]
    BY <1>1, <1>2, <1>7 DEF HeadingInv, HeadingTyped, Sections
  <2>. QED  BY <1>3, <2>1 DEF HeadingInv, Told
<1>. QED  BY <1>4, <1>5, <1>6, <1>7 DEF HeadingInv

\* ... and so does a loop that goes on.
LEMMA SavedHeading ==
    ASSUME HeadingInv, NEW l \in Presses, SectionSaved(l)
    PROVE  /\ HeadingInv'
           /\ \A k \in Presses : loops'[k] \notin {0, loops[k]} =>
                field'[loops'[k]] # base'[loops'[k]]
<1> DEFINE s == loops[l]
           j == Onward(s, dirty')
<1>1. s \in Sections /\ dirty' = [dirty EXCEPT ![s] = FALSE]
  BY DEF SectionSaved, HeadingInv, HeadingTyped, Sections
<1>2. \/ field' = [field EXCEPT ![s] = base[s]] /\ base' = base
      \/ base' = [base EXCEPT ![s] = field[s]] /\ field' = field
  BY DEF SectionSaved
<1>3. PICK throws \in BOOLEAN :
        /\ loops' = [loops EXCEPT ![l] = IF throws THEN 0 ELSE j]
        /\ offered' = (throws \/ \E q \in Sections : dirty'[q])
  BY DEF SectionSaved, Throws, Refuses, Password
<1>4. loading' = loading /\ drawn' \in BOOLEAN
  BY DEF SectionSaved
<1>5. dirty' \in [Sections -> BOOLEAN]
  BY <1>1 DEF HeadingInv, HeadingTyped
<1>6. j \in 0..2 /\ (j # 0 => j > s /\ dirty'[j])
  <2>1. s \in 0..2
    BY <1>1 DEF Sections
  <2> HIDE DEF s
  <2>. QED  BY <1>5, <2>1, OnwardFacts
<1> HIDE DEF s, j
<1>7. HeadingTyped'
  BY <1>1, <1>2, <1>3, <1>4, <1>5, <1>6 DEF HeadingInv, HeadingTyped
<1>8. Told'
  BY <1>1, <1>2 DEF HeadingInv, HeadingTyped, Told
<1>9. SaveIsOffered'
  BY <1>3, <1>8 DEF Told, SaveIsOffered
<1>10. ASSUME NEW k \in Presses, loops'[k] \notin {0, loops[k]}
       PROVE  field'[loops'[k]] # base'[loops'[k]]
  <2>1. loops'[k] = j /\ j \in Sections /\ dirty'[j]
    BY <1>3, <1>6, <1>10 DEF HeadingInv, HeadingTyped, Sections
  <2>. QED  BY <1>8, <2>1 DEF Told
<1>. QED  BY <1>7, <1>8, <1>9, <1>10 DEF HeadingInv

LEMMA FailsHeading ==
    ASSUME HeadingInv, NEW l \in Presses, SectionFails(l)
    PROVE  HeadingInv' /\ \A k \in Presses : loops'[k] \in {0, loops[k]}
<1>1. HeadingTyped' /\ \A k \in Presses : loops'[k] \in {0, loops[k]}
  BY DEF SectionFails, HeadingInv, HeadingTyped
<1>2. Told' /\ SaveIsOffered'
  BY DEF SectionFails, HeadingInv, Told, SaveIsOffered
<1>. QED  BY <1>1, <1>2 DEF HeadingInv

WritesStep ==
    \A l \in Presses : loops'[l] \notin {0, loops[l]} => field'[loops'[l]] # base'[loops'[l]]

LEMMA StepHeading == HeadingInv /\ [Next]_vars => HeadingInv' /\ WritesStep
<1> SUFFICES ASSUME HeadingInv, [Next]_vars
             PROVE  HeadingInv' /\ WritesStep
  OBVIOUS
<1>1. CASE UNCHANGED heading
  BY <1>1, HeadingKept DEF heading, WritesStep
<1>2. CASE HeadingStep
  <2>1. ASSUME NEW s \in Sections, Edit(s)
        PROVE  HeadingInv' /\ WritesStep
    BY <2>1, EditHeading DEF Edit, WritesStep
  <2>2. CASE EmailArrives
    BY <2>2, EmailHeading DEF EmailArrives, WritesStep
  <2>3. ASSUME NEW l \in Presses, PressSave(l) \/ SectionSaved(l)
        PROVE  HeadingInv' /\ WritesStep
    BY <2>3, PressHeading, SavedHeading DEF WritesStep
  <2>4. ASSUME NEW l \in Presses, SectionFails(l)
        PROVE  HeadingInv' /\ WritesStep
    BY <2>4, FailsHeading DEF WritesStep
  <2>. QED  BY <1>2, <2>1, <2>2, <2>3, <2>4 DEF HeadingStep, SaveStep
<1>3. CASE ListStep
  <2>1. UNCHANGED heading
    BY <1>3 DEF ListStep, VisitorStep, TaskStep, Begin, Tick, Submit, Handle, AttachNext,
         Succeed, Fail, Read, Show, ReadFails, RulesArrive, Dismiss
  <2>. QED  BY <2>1, <1>1
<1>. QED  BY <1>1, <1>2, <1>3 DEF Next, vars
-----------------------------------------------------------------------------
(* The list. *)

\* A dialog on the screen is that of a form or a question whose answer is awaited.
Awaited == {"asking", "sent", "ok", "failed"}
StackTyped ==
    /\ stack \in Seq(Tasks) /\ IsInjective(stack)
    /\ \A t \in Open : tasks[t].at \in Awaited
ListTyped ==
    /\ part \in {"account", "restaurant", "list"}
    /\ tasks \in [Tasks -> {Idle} \cup TaskRecords]
    /\ rules \in SUBSET Rules /\ shown \in SUBSET Rules /\ unread \in BOOLEAN

\* A second request carries what was ticked, and an attachment is not sent before there
\* is something to tick.
PickerInv ==
    \A t \in Tasks : Under(t) =>
        /\ tasks[t].request = 2 => tasks[t].picker = "there"
        /\ tasks[t].kind.sends = "rules" /\ tasks[t].at = "sent" => tasks[t].picker # "coming"

\* What has been answered is being read, or has been and will be shown.
Reading(t) == tasks[t].at = "reading" \/ (tasks[t].at = "read" /\ tasks[t].fresh)
ReadInv == unread => \E t \in Tasks : Reading(t)

ListInv == ListTyped /\ StackTyped /\ PickerInv /\ ReadInv
-----------------------------------------------------------------------------
(* The stack of dialogs. *)

LEMMA Removed ==
    ASSUME NEW s \in Seq(Tasks), IsInjective(s), NEW q
    PROVE  /\ RemoveFirst(s, q) \in Seq(Tasks) /\ IsInjective(RemoveFirst(s, q))
           /\ ToSet(RemoveFirst(s, q)) \subseteq ToSet(s) \ {q}
<1>1. CASE \A i \in 1..Len(s) : s[i] # q
  <2>1. RemoveFirst(s, q) = s
    BY <1>1 DEF RemoveFirst
  <2>2. q \notin ToSet(s)
    BY <1>1 DEF ToSet
  <2>. QED  BY <2>1, <2>2
<1>2. ASSUME NEW i \in 1..Len(s), s[i] = q
      PROVE  /\ RemoveFirst(s, q) \in Seq(Tasks) /\ IsInjective(RemoveFirst(s, q))
             /\ ToSet(RemoveFirst(s, q)) \subseteq ToSet(s) \ {q}
  <2> DEFINE a == SubSeq(s, 1, i - 1)
             b == SubSeq(s, i + 1, Len(s))
  <2>1. {k \in 1..Len(s) : s[k] = q} = {i}
    BY <1>2 DEF IsInjective
  <2>2. Min({i}) = i
    BY DEF Min
  <2>3. RemoveFirst(s, q) = a \o b
    BY <1>2, <2>1, <2>2 DEF RemoveFirst, RemoveAt, SelectInSeq
  <2>4. /\ a \in Seq(Tasks) /\ Len(a) = i - 1 /\ \A k \in 1..(i - 1) : a[k] = s[k]
        /\ b \in Seq(Tasks) /\ Len(b) = Len(s) - i /\ \A k \in 1..(Len(s) - i) : b[k] = s[k + i]
    OBVIOUS
  <2> HIDE DEF a, b
  <2>5. /\ a \o b \in Seq(Tasks) /\ Len(a \o b) = Len(s) - 1
        /\ \A k \in 1..(Len(s) - 1) : (a \o b)[k] = IF k <= i - 1 THEN s[k] ELSE s[k + 1]
    <3>1. /\ Len(a) + Len(b) = Len(s) - 1
          /\ \A k \in 1..(Len(a) + Len(b)) :
               (a \o b)[k] = IF k <= Len(a) THEN a[k] ELSE b[k - Len(a)]
      BY <2>4, ConcatProperties
    <3>2. a \o b \in Seq(Tasks) /\ Len(a \o b) = Len(s) - 1
      BY <2>4, <3>1, ConcatProperties
    <3>3. ASSUME NEW k \in 1..(Len(s) - 1)
          PROVE  (a \o b)[k] = IF k <= i - 1 THEN s[k] ELSE s[k + 1]
      <4>1. CASE k <= i - 1
        BY <2>4, <3>1, <4>1
      <4>2. CASE ~(k <= i - 1)
        <5>1. k - (i - 1) \in 1..(Len(s) - i) /\ k - (i - 1) + i = k + 1
          BY <4>2
        <5>2. b[k - (i - 1)] = s[k + 1]
          BY <2>4, <5>1
        <5>. QED  BY <2>4, <3>1, <4>2, <5>2
      <4>. QED  BY <4>1, <4>2
    <3>. QED  BY <3>2, <3>3
  <2>6. ASSUME NEW k \in 1..(Len(s) - 1)
        PROVE  \E m \in 1..Len(s) :
                  (a \o b)[k] = s[m] /\ m # i /\ m = (IF k <= i - 1 THEN k ELSE k + 1)
    <3>1. Len(s) \in Nat
      OBVIOUS
    <3> DEFINE m == IF k <= i - 1 THEN k ELSE k + 1
    <3>2. m \in 1..Len(s) /\ m # i
      BY <3>1
    <3>3. (a \o b)[k] = s[m]
      BY <2>5
    <3>. QED  BY <3>2, <3>3
  <2> DEFINE r == a \o b
  <2>7. DOMAIN r = 1..(Len(s) - 1)
    BY <2>5
  <2>8. \A k \in DOMAIN r : \E m \in 1..Len(s) :
           r[k] = s[m] /\ m # i /\ m = (IF k <= i - 1 THEN k ELSE k + 1)
    BY <2>6, <2>7
  <2> HIDE DEF r
  <2>9. ASSUME NEW k \in DOMAIN r, NEW m \in DOMAIN r, r[k] = r[m]
        PROVE  k = m
    <3>1. k \in Int /\ m \in Int
      BY <2>7
    <3>. QED  BY <2>8, <2>9, <3>1 DEF IsInjective
  <2>10. ASSUME NEW k \in DOMAIN r
         PROVE  r[k] \in ToSet(s) \ {q}
    <3>1. PICK m \in 1..Len(s) : r[k] = s[m] /\ m # i
      BY <2>8
    <3>. QED  BY <1>2, <3>1 DEF ToSet, IsInjective
  <2>11. IsInjective(r) /\ ToSet(r) \subseteq ToSet(s) \ {q}
    BY <2>9, <2>10 DEF IsInjective, ToSet
  <2>. QED  BY <2>3, <2>5, <2>11 DEF r
<1>. QED  BY <1>1, <1>2

LEMMA Pushed ==
    ASSUME NEW s \in Seq(Tasks), IsInjective(s), NEW q \in Tasks \ ToSet(s)
    PROVE  /\ Append(s, q) \in Seq(Tasks) /\ IsInjective(Append(s, q))
           /\ ToSet(Append(s, q)) \subseteq ToSet(s) \cup {q}
BY DEF IsInjective, ToSet

LEMMA Popped ==
    ASSUME NEW s \in Seq(Tasks), IsInjective(s), s # <<>>
    PROVE  /\ Front(s) \in Seq(Tasks) /\ IsInjective(Front(s)) /\ Last(s) \in ToSet(s)
           /\ ToSet(Front(s)) \subseteq ToSet(s) \ {Last(s)}
<1>1. /\ Len(s) \in Nat \ {0}
      /\ Front(s) \in Seq(Tasks) /\ Len(Front(s)) = Len(s) - 1
      /\ \A i \in 1..(Len(s) - 1) : Front(s)[i] = s[i]
  <2>1. Len(s) \in Nat \ {0} /\ \A i \in 1..(Len(s) - 1) : s[i] \in Tasks
    BY EmptySeq
  <2>2. /\ SubSeq(s, 1, Len(s) - 1) \in Seq(Tasks)
        /\ Len(SubSeq(s, 1, Len(s) - 1)) = Len(s) - 1
        /\ \A i \in 1..(Len(s) - 1) : SubSeq(s, 1, Len(s) - 1)[i] = s[i]
    <3> DEFINE n == Len(s) - 1
    <3>1. n \in Nat /\ \A i \in 1..n : s[i] \in Tasks
      BY <2>1
    <3> HIDE DEF n
    <3>2. /\ SubSeq(s, 1, n) \in Seq(Tasks) /\ Len(SubSeq(s, 1, n)) = n
          /\ \A i \in 1..n : SubSeq(s, 1, n)[i] = s[i]
      BY <3>1, SubSeqProperties
    <3>. QED  BY <3>2 DEF n
  <2>. QED  BY <2>1, <2>2 DEF Front
<1>2. DOMAIN Front(s) = 1..(Len(s) - 1)
  BY <1>1
<1>. QED  BY <1>1, <1>2 DEF IsInjective, ToSet, Last

LEMMA TopFacts ==
    ASSUME StackTyped
    PROVE  /\ Top \in Tasks \cup {0}
           /\ stack # <<>> => Top = Last(stack) /\ Top \in Open
           /\ Top # 0 => stack # <<>>
BY Popped DEF StackTyped, Top, Open, ToSet

-----------------------------------------------------------------------------
(* What a step is to the tasks. *)

\* A step of one of them, which keeps what is said of each and of what is read.
Picks(r) ==
    r.at # "idle" => /\ r.request = 2 => r.picker = "there"
                     /\ r.kind.sends = "rules" /\ r.at = "sent" => r.picker # "coming"
TaskMoves(t) ==
    /\ tasks' \in [Tasks -> {Idle} \cup TaskRecords]
    /\ \A q \in Tasks \ {t} : tasks'[q] = tasks[q]
    /\ Picks(tasks'[t])
    /\ Reading(t)' \/ ~Reading(t) \/ ~unread'

LEMMA UnderWay ==
    ASSUME ListTyped, NEW t \in Tasks
    PROVE  /\ Under(t) <=> tasks[t] \in TaskRecords
           /\ tasks[t] = Idle \/ tasks[t] \in TaskRecords
           /\ ~Under(t) <=> tasks[t] = Idle
BY DEF ListTyped, Under, Idle, TaskRecords, States

LEMMA MovesKeep ==
    ASSUME ListInv, NEW t \in Tasks, TaskMoves(t), StackTyped',
           part' = part, rules' \in SUBSET Rules, shown' \in SUBSET Rules, unread' \in BOOLEAN,
           unread' => unread \/ Reading(t)'
    PROVE  ListInv'
<1>1. ListTyped'
  BY DEF ListInv, ListTyped, TaskMoves
<1>2. PickerInv'
  BY DEF ListInv, PickerInv, TaskMoves, Picks, Under
<1>3. ReadInv'
  BY DEF ListInv, ReadInv, TaskMoves, Reading
<1>. QED  BY <1>1, <1>2, <1>3 DEF ListInv

LEMMA SameStack ==
    ASSUME StackTyped, NEW t \in Tasks, TaskMoves(t), stack' = stack,
           t \in Open => tasks'[t].at \in Awaited
    PROVE  StackTyped'
<1>1. Open' = Open /\ Open \subseteq Tasks
  BY DEF StackTyped, Open, ToSet
<1>. QED  BY <1>1 DEF StackTyped, TaskMoves

-----------------------------------------------------------------------------
(* The steps of a list. *)

LEMMA BeginKeeps ==
    ASSUME ListInv, NEW t \in Tasks, NEW kind \in Changes, Begin(t, kind)
    PROVE  ListInv'
<1> DEFINE at == IF kind.asks \in {"nothing", "held"} THEN "sent" ELSE "asking"
           picker == IF kind.sends = "one" THEN "none" ELSE "coming"
           r == [kind |-> kind, at |-> at, over |-> Top, request |-> 1, picker |-> picker,
                 ticks |-> shown, data |-> {}, fresh |-> FALSE]
<1>1. tasks' = [tasks EXCEPT ![t] = r] /\ tasks[t] = Idle
  BY UnderWay DEF Begin, ListInv
<1>2. r \in TaskRecords
  BY TopFacts DEF ListInv, ListTyped, TaskRecords, States
<1>3. kind.sends = "rules" => kind.asks = "form"
  BY DEF Changes, Change, RenameCategory, AddCategory, MoveCategory, RemoveCategory, Duplicate,
         EditItem, RemoveItem, SaveModification, RemoveModification, AddModification, EditFilter,
         RemoveFilter, AttachFilters, StoreContact, DropContact, CreateContact, CreateToken,
         RevokeToken, EditUser, SetPassword, RemoveUser, ReplaceContent, CreateRestaurant,
         CreateOrder, ChangeOrderItem, RemoveOrderItem, Volunteer, PostLine, EditOrder,
         RemoveTile, CleanUp, RemoveOrder, RemoveRestaurant, ChooseImage,
         ForgottenPassword, ResetPassword
<1>4. tasks'[t] = r /\ tasks'[t].at = at /\ tasks'[t].request = 1 /\ tasks'[t].kind = kind
  BY <1>1 DEF ListInv, ListTyped
<1>5. TaskMoves(t)
  <2>1. /\ tasks' \in [Tasks -> {Idle} \cup TaskRecords]
        /\ \A q \in Tasks \ {t} : tasks'[q] = tasks[q]
    BY <1>1, <1>2 DEF ListInv, ListTyped
  <2>2. Picks(tasks'[t])
    BY <1>3, <1>4 DEF Picks
  <2>3. ~Reading(t)
    BY <1>1 DEF Reading, Idle
  <2>. QED  BY <2>1, <2>2, <2>3 DEF TaskMoves
<1>6. StackTyped'
  <2>1. t \notin Open
    BY <1>1 DEF ListInv, StackTyped, Idle, Awaited
  <2>2. CASE at = "asking"
    <3>1. stack' = Append(stack, t)
      BY <1>4, <2>2 DEF Begin
    <3>2. /\ stack' \in Seq(Tasks) /\ IsInjective(stack') /\ Open' \subseteq Open \cup {t}
      BY <2>1, <3>1, Pushed DEF ListInv, StackTyped, Open
    <3>3. \A q \in Open : q # t /\ q \in Tasks
      BY <2>1 DEF ListInv, StackTyped, Open, ToSet
    <3>. QED  BY <1>4, <1>5, <2>2, <3>2, <3>3 DEF ListInv, StackTyped, TaskMoves, Awaited
  <2>3. CASE at # "asking"
    <3>1. stack' = stack
      BY <1>4, <2>3 DEF Begin
    <3>. QED  BY <1>5, <2>1, <3>1, SameStack DEF ListInv
  <2>. QED  BY <2>2, <2>3
<1>. QED  BY <1>5, <1>6, MovesKeep DEF Begin, ListInv, ListTyped

LEMMA ArriveKeeps ==
    ASSUME ListInv, NEW t \in Tasks, RulesArrive(t) \/ Tick(t)
    PROVE  ListInv'
<1>1. tasks[t] \in TaskRecords
  <2>1. CASE RulesArrive(t)
    BY <2>1, UnderWay DEF RulesArrive, ListInv
  <2>2. CASE Tick(t)
    <3>1. t \in Open
      BY <2>2, TopFacts, TasksAssumption DEF Tick, ListInv
    <3>. QED  BY <3>1, UnderWay DEF ListInv, StackTyped, Awaited, Under
  <2>. QED  BY <2>1, <2>2
<1>2. PICK r \in TaskRecords :
        /\ tasks' = [tasks EXCEPT ![t] = r]
        /\ r.at = tasks[t].at /\ r.request = tasks[t].request /\ r.kind = tasks[t].kind
        /\ r.fresh = tasks[t].fresh
        /\ r.picker # "coming" /\ (tasks[t].picker = "there" => r.picker = "there")
        /\ (tasks[t].picker = "coming" \/ r.picker = tasks[t].picker)
  <2>1. CASE RulesArrive(t)
    <3>1. PICK picker \in {"there", "none"} : tasks' = [tasks EXCEPT ![t].picker = picker]
      BY <2>1 DEF RulesArrive
    <3> DEFINE r == [tasks[t] EXCEPT !.picker = picker]
    <3>2. tasks' = [tasks EXCEPT ![t] = r]
      BY <3>1 DEF ListInv, ListTyped
    <3>3. /\ r \in TaskRecords /\ r.at = tasks[t].at /\ r.request = tasks[t].request
          /\ r.kind = tasks[t].kind /\ r.fresh = tasks[t].fresh /\ r.picker = picker
      BY <1>1 DEF TaskRecords
    <3> HIDE DEF r
    <3>. QED  BY <2>1, <3>2, <3>3 DEF RulesArrive
  <2>2. CASE Tick(t)
    <3>1. PICK ticks \in SUBSET Rules : tasks' = [tasks EXCEPT ![t].ticks = ticks]
      BY <2>2 DEF Tick
    <3> DEFINE r == [tasks[t] EXCEPT !.ticks = ticks]
    <3>2. tasks' = [tasks EXCEPT ![t] = r]
      BY <3>1 DEF ListInv, ListTyped
    <3>3. /\ r \in TaskRecords /\ r.at = tasks[t].at /\ r.request = tasks[t].request
          /\ r.kind = tasks[t].kind /\ r.fresh = tasks[t].fresh /\ r.picker = tasks[t].picker
      BY <1>1 DEF TaskRecords
    <3> HIDE DEF r
    <3>. QED  BY <2>2, <3>2, <3>3 DEF Tick
  <2>. QED  BY <2>1, <2>2
<1>3. TaskMoves(t) /\ tasks'[t] = r
  <2>1. /\ tasks' \in [Tasks -> {Idle} \cup TaskRecords]
        /\ \A q \in Tasks \ {t} : tasks'[q] = tasks[q]
    BY <1>2 DEF ListInv, ListTyped
  <2>2. tasks'[t] = r
    BY <1>2 DEF ListInv, ListTyped
  <2>3. Picks(r)
    BY <1>1, <1>2, UnderWay DEF ListInv, PickerInv, Picks
  <2>4. Reading(t)' \/ ~Reading(t)
    BY <1>2, <2>2 DEF Reading
  <2>. QED  BY <2>1, <2>2, <2>3, <2>4 DEF TaskMoves
<1>4. StackTyped'
  BY <1>2, <1>3, SameStack DEF ListInv, StackTyped, RulesArrive, Tick
<1>. QED  BY <1>3, <1>4, MovesKeep DEF RulesArrive, Tick, ListInv, ListTyped

LEMMA Updated ==
    ASSUME ListInv, NEW t \in Tasks, NEW r \in {Idle} \cup TaskRecords,
           tasks' = [tasks EXCEPT ![t] = r], Picks(r),
           r.at = "reading" \/ (r.at = "read" /\ r.fresh) \/ ~Reading(t) \/ ~unread'
    PROVE  TaskMoves(t) /\ tasks'[t] = r
<1>1. /\ tasks' \in [Tasks -> {Idle} \cup TaskRecords]
      /\ \A q \in Tasks \ {t} : tasks'[q] = tasks[q]
  BY DEF ListInv, ListTyped
<1>2. tasks'[t] = r
  BY DEF ListInv, ListTyped
<1>. QED  BY <1>1, <1>2 DEF TaskMoves, Reading

LEMMA SubmitKeeps ==
    ASSUME ListInv, NEW t \in Tasks, Submit(t)
    PROVE  ListInv'
<1> DEFINE r == [tasks[t] EXCEPT !.at = "sent", !.data = Selected(t)]
<1>1. tasks[t] \in TaskRecords
  BY UnderWay DEF Submit, ListInv, Under
<1>2. Selected(t) \in SUBSET Rules
  BY <1>1 DEF Selected, TaskRecords
<1>3. tasks' = [tasks EXCEPT ![t] = r]
  BY DEF Submit, ListInv, ListTyped
<1>4. /\ r \in TaskRecords /\ r.at = "sent" /\ r.request = tasks[t].request
      /\ r.kind = tasks[t].kind /\ r.picker = tasks[t].picker
  BY <1>1, <1>2 DEF TaskRecords, States
<1> HIDE DEF r
<1>5. Picks(r)
  BY <1>1, <1>4, UnderWay DEF Picks, Submit, Ready, ListInv, PickerInv
<1>6. ~Reading(t)
  BY DEF Submit, Reading
<1>7. TaskMoves(t) /\ tasks'[t] = r
  BY <1>3, <1>4, <1>5, <1>6, Updated
<1>8. StackTyped'
  <2>1. CASE stack' = stack
    BY <1>4, <1>7, <2>1, SameStack DEF ListInv, Awaited
  <2>2. CASE stack' = Front(stack)
    <3>1. t = Last(stack) /\ stack # <<>>
      BY TopFacts, TasksAssumption DEF Submit, ListInv
    <3>2. /\ stack' \in Seq(Tasks) /\ IsInjective(stack') /\ Open' \subseteq Open \ {t}
      BY <2>2, <3>1, Popped DEF ListInv, StackTyped, Open
    <3>3. Open \subseteq Tasks
      BY DEF ListInv, StackTyped, Open, ToSet
    <3>. QED  BY <1>7, <3>2, <3>3 DEF ListInv, StackTyped, TaskMoves
  <2>. QED  BY <2>1, <2>2 DEF Submit
<1>. QED  BY <1>7, <1>8, MovesKeep DEF Submit, ListInv, ListTyped

LEMMA HandleKeeps ==
    ASSUME ListInv, NEW t \in Tasks, Handle(t)
    PROVE  /\ ListInv'
           /\ tasks[t].at = "sent" /\ tasks'[t].at # "sent"
<1>1. tasks[t] \in TaskRecords
  BY UnderWay DEF Handle, ListInv, Under
<1>2. PICK done \in {"ok", "failed"} : tasks' = [tasks EXCEPT ![t].at = done]
  BY DEF Handle
<1> DEFINE r == [tasks[t] EXCEPT !.at = done]
<1>3. tasks' = [tasks EXCEPT ![t] = r]
  BY <1>2 DEF ListInv, ListTyped
<1>4. /\ r \in TaskRecords /\ r.at = done /\ r.request = tasks[t].request
      /\ r.kind = tasks[t].kind /\ r.picker = tasks[t].picker
  BY <1>1 DEF TaskRecords, States
<1> HIDE DEF r
<1>5. Picks(r)
  BY <1>1, <1>4, UnderWay DEF Picks, ListInv, PickerInv
<1>6. ~Reading(t)
  BY DEF Handle, Reading
<1>7. TaskMoves(t) /\ tasks'[t] = r
  BY <1>3, <1>4, <1>5, <1>6, Updated
<1>8. StackTyped'
  BY <1>4, <1>7, SameStack DEF Handle, ListInv, Awaited
<1>9. rules' \in SUBSET Rules
  BY <1>1 DEF Handle, ListInv, ListTyped, TaskRecords
<1>. QED  BY <1>4, <1>7, <1>8, <1>9, MovesKeep DEF Handle, ListInv, ListTyped

LEMMA AttachKeeps ==
    ASSUME ListInv, NEW t \in Tasks, AttachNext(t)
    PROVE  ListInv'
<1> DEFINE r == [tasks[t] EXCEPT !.at = "sent", !.request = 2, !.data = Selected(t)]
<1>1. tasks[t] \in TaskRecords
  BY UnderWay DEF AttachNext, ListInv, Under
<1>2. Selected(t) \in SUBSET Rules
  BY <1>1 DEF Selected, TaskRecords
<1>3. tasks' = [tasks EXCEPT ![t] = r]
  BY DEF AttachNext, ListInv, ListTyped
<1>4. /\ r \in TaskRecords /\ r.at = "sent"
      /\ r.kind = tasks[t].kind /\ r.picker = tasks[t].picker
  <2>1. 2 \in 1..2 /\ "sent" \in States
    BY DEF States
  <2>. QED  BY <1>1, <1>2, <2>1 DEF TaskRecords
<1> HIDE DEF r
<1>5. Picks(r)
  BY <1>4 DEF Picks, AttachNext, Attaches
<1>6. ~Reading(t)
  BY DEF AttachNext, Reading
<1>7. TaskMoves(t) /\ tasks'[t] = r
  BY <1>3, <1>4, <1>5, <1>6, Updated
<1>8. StackTyped'
  BY <1>4, <1>7, SameStack DEF AttachNext, ListInv, Awaited
<1>. QED  BY <1>7, <1>8, MovesKeep DEF AttachNext, ListInv, ListTyped

LEMMA FailKeeps ==
    ASSUME ListInv, NEW t \in Tasks, Fail(t)
    PROVE  ListInv'
<1>1. tasks[t] \in TaskRecords
  BY UnderWay DEF Fail, ListInv, Under
<1>2. PICK r \in {Idle} \cup TaskRecords :
        /\ tasks' = [tasks EXCEPT ![t] = r] /\ Picks(r)
        /\ t \in Open => r.at = "asking"
  <2>1. CASE t \in Open
    <3> DEFINE r == [tasks[t] EXCEPT !.at = "asking", !.request = 1]
    <3>1. tasks' = [tasks EXCEPT ![t] = r]
      BY <2>1 DEF Fail, Released
    <3>2. r \in TaskRecords /\ r.at = "asking" /\ r.request = 1
      <4>1. 1 \in 1..2 /\ "asking" \in States
        BY DEF States
      <4>. QED  BY <1>1, <4>1 DEF TaskRecords
    <3> HIDE DEF r
    <3>3. Picks(r)
      BY <3>2 DEF Picks
    <3>. QED  BY <3>1, <3>2, <3>3
  <2>2. CASE t \notin Open
    BY <2>2 DEF Fail, Released, Picks, Idle
  <2>. QED  BY <2>1, <2>2
<1>3. TaskMoves(t) /\ tasks'[t] = r
  BY <1>2, Updated DEF Fail, Reading
<1>4. StackTyped'
  BY <1>2, <1>3, SameStack DEF Fail, ListInv, Awaited
<1>. QED  BY <1>3, <1>4, MovesKeep DEF Fail, ListInv, ListTyped

LEMMA ReadKeeps ==
    ASSUME ListInv, NEW t \in Tasks, Read(t) \/ Show(t) \/ ReadFails(t)
    PROVE  ListInv'
<1>1. tasks[t] \in TaskRecords /\ t \notin Open
  BY UnderWay DEF Read, Show, ReadFails, ListInv, StackTyped, Under, Awaited
<1>2. PICK r \in {Idle} \cup TaskRecords :
        /\ tasks' = [tasks EXCEPT ![t] = r] /\ Picks(r)
        /\ (r.at = "read" /\ r.fresh) \/ ~Reading(t) \/ ~unread'
  <2>1. CASE Read(t)
    <3> DEFINE r == [tasks[t] EXCEPT !.at = "read", !.data = rules, !.fresh = TRUE]
    <3>1. tasks' = [tasks EXCEPT ![t] = r]
      BY <2>1 DEF Read, ListInv, ListTyped
    <3>2. /\ r \in TaskRecords /\ r.at = "read" /\ r.request = tasks[t].request
          /\ r.kind = tasks[t].kind /\ r.picker = tasks[t].picker /\ r.fresh
      BY <1>1 DEF TaskRecords, States, ListInv, ListTyped
    <3> HIDE DEF r
    <3>3. Picks(r)
      BY <1>1, <3>2, UnderWay DEF Picks, ListInv, PickerInv
    <3>. QED  BY <3>1, <3>2, <3>3
  <2>2. CASE Show(t)
    <3>1. ~Reading(t) \/ ~unread'
      BY <2>2 DEF Show, Reading
    <3>. QED  BY <2>2, <3>1 DEF Show, Picks, Idle
  <2>3. CASE ReadFails(t)
    BY <2>3 DEF ReadFails, Picks, Idle
  <2>. QED  BY <2>1, <2>2, <2>3
<1>3. TaskMoves(t) /\ tasks'[t] = r
  BY <1>2, Updated
<1>4. StackTyped'
  BY <1>1, <1>3, SameStack DEF Read, Show, ReadFails, ListInv
<1>5. /\ shown' \in SUBSET Rules /\ unread' \in BOOLEAN /\ rules' = rules /\ part' = part
      /\ unread' => unread
  <2>1. CASE Read(t)
    BY <2>1 DEF Read, ListInv, ListTyped
  <2>2. CASE Show(t)
    BY <1>1, <2>2 DEF Show, ListInv, ListTyped, TaskRecords
  <2>3. CASE ReadFails(t)
    BY <2>3 DEF ReadFails, ListInv, ListTyped
  <2>. QED  BY <2>1, <2>2, <2>3
<1>. QED  BY <1>3, <1>4, <1>5, MovesKeep DEF ListInv, ListTyped

-----------------------------------------------------------------------------
(* The steps that close dialogs. *)

\* A record that says the same of what is sent and read.
Alike(is, was) ==
    /\ is \in TaskRecords /\ was \in TaskRecords
    /\ is.at = was.at /\ is.request = was.request /\ is.kind = was.kind
    /\ is.picker = was.picker

LEMMA ClosedFacts ==
    ASSUME NEW all \in [Tasks -> {Idle} \cup TaskRecords], NEW which
    PROVE  /\ Closed(all, which) \in [Tasks -> {Idle} \cup TaskRecords]
           /\ \A q \in Tasks :
                \/ /\ Closed(all, which)[q] = Idle
                   /\ all[q].at = "idle" \/ (q \in which /\ all[q].at = "asking")
                \/ /\ Alike(Closed(all, which)[q], all[q])
                   /\ Closed(all, which)[q].fresh = all[q].fresh
<1>1. ASSUME NEW q \in Tasks
      PROVE  /\ Closed(all, which)[q] \in {Idle} \cup TaskRecords
             /\ \/ /\ Closed(all, which)[q] = Idle
                   /\ all[q].at = "idle" \/ (q \in which /\ all[q].at = "asking")
                \/ /\ Alike(Closed(all, which)[q], all[q])
                   /\ Closed(all, which)[q].fresh = all[q].fresh
  <2>1. CASE all[q].at = "idle" \/ (q \in which /\ all[q].at = "asking")
    <3>1. Closed(all, which)[q] = Idle
      BY <2>1 DEF Closed
    <3>. QED  BY <2>1, <3>1
  <2>2. CASE ~(all[q].at = "idle" \/ (q \in which /\ all[q].at = "asking"))
    <3> DEFINE r == all[q]
               over == IF r.over \in which THEN 0 ELSE r.over
               c == [r EXCEPT !.over = over]
    <3>1. Closed(all, which)[q] = c
      BY <2>2 DEF Closed
    <3>2. r \in TaskRecords
      BY <2>2 DEF Idle
    <3>3. over \in Tasks \cup {0}
      BY <3>2 DEF TaskRecords
    <3> HIDE DEF r, over
    <3>4. Alike(c, r) /\ c.fresh = r.fresh
      BY <3>2, <3>3 DEF TaskRecords, Alike
    <3> HIDE DEF c
    <3>. QED  BY <3>1, <3>4 DEF r, Alike
  <2>. QED  BY <2>1, <2>2
<1>2. Closed(all, which) = [q \in Tasks |-> Closed(all, which)[q]]
  BY DEF Closed
<1>. QED  BY <1>1, <1>2

LEMMA DismissKeeps ==
    ASSUME ListInv, Dismiss
    PROVE  ListInv'
<1> DEFINE closed == Closed(tasks, {Top})
<1>1. /\ closed \in [Tasks -> {Idle} \cup TaskRecords]
      /\ \A q \in Tasks :
           \/ /\ closed[q] = Idle
              /\ tasks[q].at = "idle" \/ (q = Top /\ tasks[q].at = "asking")
           \/ Alike(closed[q], tasks[q]) /\ closed[q].fresh = tasks[q].fresh
  BY ClosedFacts DEF ListInv, ListTyped
<1>2. /\ tasks' = closed /\ stack # <<>> /\ stack' = Front(stack)
      /\ UNCHANGED <<part, rules, shown, unread>>
  BY DEF Dismiss
<1> HIDE DEF closed
<1>3. ListTyped'
  BY <1>1, <1>2 DEF ListInv, ListTyped
<1>4. StackTyped'
  <2>1. /\ stack' \in Seq(Tasks) /\ IsInjective(stack') /\ Open' \subseteq Open \ {Top}
    BY <1>2, Popped, TopFacts DEF ListInv, StackTyped, Open
  <2>2. Open \subseteq Tasks
    BY DEF ListInv, StackTyped, Open, ToSet
  <2>3. ASSUME NEW q \in Open'
        PROVE  tasks'[q].at \in Awaited
    <3>1. q \in Tasks /\ q # Top /\ tasks[q].at \in Awaited
      BY <2>1, <2>2, <2>3 DEF ListInv, StackTyped
    <3>. QED  BY <1>1, <1>2, <3>1 DEF Alike, Awaited
  <2>. QED  BY <2>1, <2>3 DEF StackTyped
<1>5. PickerInv'
  BY <1>1, <1>2 DEF ListInv, PickerInv, Under, Alike, Idle
<1>6. ReadInv'
  BY <1>1, <1>2 DEF ListInv, ReadInv, Reading, Alike, Idle
<1>. QED  BY <1>3, <1>4, <1>5, <1>6 DEF ListInv

LEMMA OutdatedFacts ==
    ASSUME ListTyped, NEW t \in Tasks
    PROVE  /\ Outdated(t) \in [Tasks -> {Idle} \cup TaskRecords]
           /\ \A q \in Tasks :
                \/ tasks[q] = Idle /\ Outdated(t)[q] = Idle
                \/ Alike(Outdated(t)[q], tasks[q])
           /\ tasks[t].kind.then # "reads" => Outdated(t) = tasks
<1>1. ASSUME NEW q \in Tasks
      PROVE  /\ Outdated(t)[q] \in {Idle} \cup TaskRecords
             /\ \/ tasks[q] = Idle /\ Outdated(t)[q] = Idle
                \/ Alike(Outdated(t)[q], tasks[q])
  <2>1. CASE tasks[q].at = "read" /\ tasks[t].kind.then = "reads"
    <3>1. tasks[q] \in TaskRecords
      BY <2>1, UnderWay DEF Under
    <3>2. Outdated(t)[q] = [tasks[q] EXCEPT !.fresh = FALSE]
      BY <2>1 DEF Outdated
    <3>. QED  BY <3>1, <3>2 DEF TaskRecords, Alike
  <2>2. CASE ~(tasks[q].at = "read" /\ tasks[t].kind.then = "reads")
    <3>1. Outdated(t)[q] = tasks[q]
      BY <2>2 DEF Outdated
    <3>. QED  BY <3>1, UnderWay DEF Alike
  <2>. QED  BY <2>1, <2>2
<1>2. Outdated(t) = [q \in Tasks |-> Outdated(t)[q]]
  BY DEF Outdated
<1>3. tasks[t].kind.then # "reads" => \A q \in Tasks : Outdated(t)[q] = tasks[q]
  BY DEF Outdated
<1>4. tasks = [q \in Tasks |-> tasks[q]]
  BY DEF ListTyped
<1>. QED  BY <1>1, <1>2, <1>3, <1>4

LEMMA SucceedKeeps ==
    ASSUME ListInv, NEW t \in Tasks, Succeed(t)
    PROVE  ListInv'
<1> DEFINE old == Outdated(t)
           closed == Closed(old, Closes(t))
           r == Follow(t)
<1>1. tasks[t] \in TaskRecords /\ tasks[t].at = "ok"
  BY UnderWay DEF Succeed, ListInv, Under
<1>2. /\ tasks' = [closed EXCEPT ![t] = r] /\ stack' = Spliced(t)
      /\ unread' = (unread \/ tasks[t].kind.then = "reads")
      /\ UNCHANGED <<part, rules, shown>>
  BY DEF Succeed
<1>3. /\ old \in [Tasks -> {Idle} \cup TaskRecords]
      /\ \A q \in Tasks : \/ tasks[q] = Idle /\ old[q] = Idle
                          \/ Alike(old[q], tasks[q])
      /\ tasks[t].kind.then # "reads" => old = tasks
  BY OutdatedFacts DEF ListInv
<1>4. /\ r \in {Idle} \cup TaskRecords /\ Picks(r)
      /\ tasks[t].kind.then = "reads" => r.at = "reading"
  <2>1. CASE tasks[t].kind.then = "reads"
    <3>1. r = [tasks[t] EXCEPT !.at = "reading"]
      BY <2>1 DEF Follow
    <3>2. /\ r \in TaskRecords /\ r.at = "reading" /\ r.request = tasks[t].request
          /\ r.picker = tasks[t].picker
      BY <1>1, <3>1 DEF TaskRecords, States
    <3> HIDE DEF r
    <3>3. tasks[t].request = 2 => tasks[t].picker = "there"
      BY <1>1 DEF ListInv, PickerInv, Under
    <3>. QED  BY <3>2, <3>3 DEF Picks
  <2>2. CASE tasks[t].kind.then # "reads"
    BY <2>2 DEF Follow, Picks, Idle
  <2>. QED  BY <2>1, <2>2
<1> HIDE DEF old, r
<1>5. /\ closed \in [Tasks -> {Idle} \cup TaskRecords]
      /\ \A q \in Tasks :
           \/ /\ closed[q] = Idle
              /\ old[q].at = "idle" \/ (q \in Closes(t) /\ old[q].at = "asking")
           \/ Alike(closed[q], old[q]) /\ closed[q].fresh = old[q].fresh
  BY <1>3, ClosedFacts
<1> HIDE DEF closed
<1>6. /\ tasks' \in [Tasks -> {Idle} \cup TaskRecords] /\ tasks'[t] = r
      /\ \A q \in Tasks \ {t} :
           \/ tasks'[q] = Idle /\ (tasks[q].at = "idle" \/ q \in Closes(t))
           \/ Alike(tasks'[q], tasks[q])
  BY <1>2, <1>3, <1>4, <1>5 DEF Alike, Idle
<1>7. ListTyped'
  BY <1>2, <1>6 DEF ListInv, ListTyped
<1>8. StackTyped'
  <2> DEFINE s == RemoveFirst(stack, t)
  <2>1. /\ s \in Seq(Tasks) /\ IsInjective(s) /\ ToSet(s) \subseteq Open \ {t}
    BY Removed DEF ListInv, StackTyped, Open
  <2>2. stack' = RemoveFirst(s, Takes(t))
    BY <1>2 DEF Spliced
  <2> HIDE DEF s
  <2>3. /\ stack' \in Seq(Tasks) /\ IsInjective(stack')
        /\ ToSet(stack') \subseteq ToSet(s) \ {Takes(t)}
    BY <2>1, <2>2, Removed
  <2>4. Open' \subseteq Open \ Closes(t)
    BY <2>1, <2>3 DEF Open, Closes
  <2>5. Open \subseteq Tasks
    BY DEF ListInv, StackTyped, Open, ToSet
  <2>6. ASSUME NEW q \in Open'
        PROVE  tasks'[q].at \in Awaited
    <3>1. /\ q \in Tasks \ {t} /\ q \notin Closes(t) /\ tasks[q].at \in Awaited
      BY <2>4, <2>5, <2>6 DEF ListInv, StackTyped, Closes
    <3>. QED  BY <1>6, <3>1 DEF Alike, Awaited
  <2>. QED  BY <2>3, <2>6 DEF StackTyped
<1>9. PickerInv'
  <2>1. ASSUME NEW q \in Tasks
        PROVE  Picks(tasks'[q])
    <3>1. CASE q = t
      BY <1>4, <1>6, <3>1
    <3>2. CASE q # t
      BY <1>6, <3>2 DEF ListInv, PickerInv, Under, Alike, Idle, Picks
    <3>. QED  BY <3>1, <3>2
  <2>. QED  BY <2>1 DEF PickerInv, Picks, Under
<1>10. ReadInv'
  <2>1. CASE tasks[t].kind.then = "reads"
    BY <1>4, <1>6, <2>1 DEF ReadInv, Reading
  <2>2. CASE tasks[t].kind.then # "reads"
    <3> SUFFICES ASSUME unread
                 PROVE  \E q \in Tasks : Reading(q)'
      BY <1>2, <2>2 DEF ReadInv
    <3>1. PICK q \in Tasks : Reading(q)
      BY DEF ListInv, ReadInv
    <3>2. q # t /\ tasks'[q] = closed[q] /\ old[q] = tasks[q]
      BY <1>1, <1>2, <1>3, <1>5, <2>2, <3>1 DEF Reading
    <3>3. closed[q].at = tasks[q].at /\ closed[q].fresh = tasks[q].fresh
      BY <1>5, <3>1, <3>2 DEF Reading, Alike
    <3>. QED  BY <3>1, <3>2, <3>3 DEF Reading
  <2>. QED  BY <2>1, <2>2
<1>. QED  BY <1>7, <1>8, <1>9, <1>10 DEF ListInv

-----------------------------------------------------------------------------
(* The theorems. *)

KeptStep ==
    rules' # rules =>
        \E t \in Tasks : /\ tasks[t].at = "sent" /\ tasks'[t].at # "sent"
                         /\ \/ tasks[t].picker = "there"
                            \/ tasks[t].kind = AttachFilters /\ tasks[t].picker = "none"

LEMMA HandleKeepsRules ==
    ASSUME ListInv, NEW t \in Tasks, Handle(t), rules' # rules
    PROVE  KeptStep
<1>1. WritesRules(t) /\ tasks[t].at = "sent" /\ tasks'[t].at # "sent"
  BY HandleKeeps DEF Handle
<1>2. tasks[t] \in TaskRecords
  BY <1>1, UnderWay DEF ListInv, Under
<1>3. CASE tasks[t].request = 2
  <2>1. tasks[t].picker = "there"
    BY <1>1, <1>3 DEF ListInv, PickerInv, Under
  <2>. QED  BY <1>1, <2>1 DEF KeptStep
<1>4. CASE tasks[t].kind.sends = "rules"
  <2>1. tasks[t].kind = AttachFilters
    <3>1. \A kind \in Changes : kind.sends = "rules" => kind = AttachFilters
      BY DEF Changes, Change, RenameCategory, AddCategory, MoveCategory, RemoveCategory,
         Duplicate, EditItem, RemoveItem, SaveModification, RemoveModification,
         AddModification, EditFilter, RemoveFilter, AttachFilters, StoreContact, DropContact,
         CreateContact, CreateToken, RevokeToken, EditUser, SetPassword, RemoveUser,
         ReplaceContent, CreateRestaurant, CreateOrder, ChangeOrderItem, RemoveOrderItem,
         Volunteer, PostLine, EditOrder, RemoveTile, CleanUp, RemoveOrder, RemoveRestaurant,
         ChooseImage, ForgottenPassword, ResetPassword
    <3>2. tasks[t].kind \in Changes
      BY <1>2 DEF TaskRecords
    <3>. QED  BY <1>4, <3>1, <3>2
  <2>2. tasks[t].picker \in {"there", "none"}
    BY <1>1, <1>2, <1>4 DEF ListInv, PickerInv, Under, TaskRecords
  <2>. QED  BY <1>1, <2>1, <2>2 DEF KeptStep
<1>. QED  BY <1>1, <1>3, <1>4 DEF WritesRules

LEMMA InitList == Init => ListInv
<1> SUFFICES ASSUME Init PROVE ListInv
  OBVIOUS
<1>1. /\ part \in {"account", "restaurant", "list"}
      /\ tasks = [t \in Tasks |-> Idle] /\ stack = <<>>
      /\ rules \in SUBSET Rules /\ shown = rules /\ unread = FALSE
  BY DEF Init
<1>2. ListTyped
  BY <1>1 DEF ListTyped
<1>3. StackTyped
  BY <1>1 DEF StackTyped, IsInjective, Open, ToSet
<1>4. PickerInv
  BY <1>1 DEF PickerInv, Under, Idle
<1>5. ReadInv
  BY <1>1 DEF ReadInv
<1>. QED  BY <1>2, <1>3, <1>4, <1>5 DEF ListInv

LEMMA ListKept ==
    ASSUME ListInv, UNCHANGED <<part, list>>
    PROVE  ListInv' /\ KeptStep
<1>1. ListTyped' /\ StackTyped'
  BY DEF list, ListInv, ListTyped, StackTyped, Open
<1>2. PickerInv' /\ ReadInv'
  BY DEF list, ListInv, PickerInv, ReadInv, Under, Reading
<1>. QED  BY <1>1, <1>2 DEF ListInv, KeptStep, list

LEMMA StepList == ListInv /\ [Next]_vars => ListInv' /\ KeptStep
<1> SUFFICES ASSUME ListInv, [Next]_vars
             PROVE  ListInv' /\ KeptStep
  OBVIOUS
<1>1. CASE UNCHANGED vars
  BY <1>1, ListKept DEF vars
<1>2. CASE HeadingStep
  <2>1. UNCHANGED <<part, list>>
    BY <1>2 DEF HeadingStep, Edit, PressSave, SaveStep, SectionSaved, SectionFails, EmailArrives
  <2>. QED  BY <2>1, ListKept
<1>3. CASE Dismiss
  BY <1>3, DismissKeeps DEF Dismiss, KeptStep
<1>4. ASSUME NEW t \in Tasks, VisitorStep(t) \/ RulesArrive(t)
      PROVE  ListInv' /\ KeptStep
  <2>1. ASSUME NEW kind \in Changes, Begin(t, kind)
        PROVE  ListInv' /\ KeptStep
    BY <2>1, BeginKeeps DEF Begin, KeptStep
  <2>2. CASE RulesArrive(t) \/ Tick(t)
    <3>1. rules' = rules
      BY <2>2 DEF RulesArrive, Tick
    <3>. QED  BY <2>2, <3>1, ArriveKeeps DEF KeptStep
  <2>3. CASE Submit(t)
    BY <2>3, SubmitKeeps DEF Submit, KeptStep
  <2>. QED  BY <1>4, <2>1, <2>2, <2>3 DEF VisitorStep
<1>5. ASSUME NEW t \in Tasks, TaskStep(t)
      PROVE  ListInv' /\ KeptStep
  <2>1. CASE Handle(t)
    <3>1. CASE rules' = rules
      BY <2>1, <3>1, HandleKeeps DEF KeptStep
    <3>2. CASE rules' # rules
      BY <2>1, <3>2, HandleKeeps, HandleKeepsRules
    <3>. QED  BY <3>1, <3>2
  <2>2. CASE AttachNext(t)
    BY <2>2, AttachKeeps DEF AttachNext, KeptStep
  <2>3. CASE Succeed(t)
    BY <2>3, SucceedKeeps DEF Succeed, KeptStep
  <2>4. CASE Fail(t)
    BY <2>4, FailKeeps DEF Fail, KeptStep
  <2>5. CASE Read(t) \/ Show(t) \/ ReadFails(t)
    <3>1. rules' = rules
      BY <2>5 DEF Read, Show, ReadFails
    <3>. QED  BY <2>5, <3>1, ReadKeeps DEF KeptStep
  <2>. QED  BY <1>5, <2>1, <2>2, <2>3, <2>4, <2>5 DEF TaskStep
<1>. QED  BY <1>1, <1>2, <1>3, <1>4, <1>5 DEF Next, ListStep

\* The fields, the loops of Save, the changes of a list and the stack of dialogs stay
\* well typed; every dialog on the screen is that of a task under way and there once.
THEOREM TypeCorrect == Spec => []TypeOK
<1>1. HeadingInv /\ ListInv => TypeOK
  <2> SUFFICES ASSUME HeadingInv, ListInv
               PROVE  TypeOK
    OBVIOUS
  <2>1. Open \subseteq Tasks
    BY DEF ListInv, StackTyped, Open, ToSet
  <2>2. \A t \in Open : Under(t)
    BY DEF ListInv, StackTyped, Under, Awaited
  <2>3. {offered, loading, drawn, unread} \subseteq BOOLEAN
    BY DEF HeadingInv, HeadingTyped, ListInv, ListTyped
  <2>4. {rules, shown} \subseteq SUBSET Rules
    BY DEF ListInv, ListTyped
  <2>. QED  BY <2>2, <2>3, <2>4
            DEF TypeOK, HeadingInv, HeadingTyped, ListInv, ListTyped, StackTyped
<1>. QED  BY InitHeading, InitList, StepHeading, StepList, <1>1, PTL DEF Spec

\* Whatever is not saved can be: with nothing being written the button in the heading is
\* live whenever a section differs from its baseline.
THEOREM UnsavedIsOffered == Spec => []SaveIsOffered
<1>1. HeadingInv => SaveIsOffered
  BY DEF HeadingInv
<1>. QED  BY InitHeading, StepHeading, <1>1, PTL DEF Spec

\* A press of Save goes on to sections that have changes only.
THEOREM OnlyChangesWritten == Spec => WritesOnlyChanges
<1>1. HeadingInv /\ [Next]_vars => [WritesStep]_vars
  BY StepHeading
<1>2. Spec => [][WritesStep]_vars
  BY InitHeading, StepHeading, <1>1, PTL DEF Spec
<1>. QED  BY <1>2 DEF WritesOnlyChanges, WritesStep

\* The rules of an element are replaced from a picker that shows them, or by the editor
\* that takes a failed load for a restaurant without rules.
THEOREM RulesKept == Spec => RulesAreKept
<1>1. ListInv /\ [Next]_vars => [KeptStep]_vars
  BY StepList
<1>2. Spec => [][KeptStep]_vars
  BY InitList, StepList, <1>1, PTL DEF Spec
<1>. QED  BY <1>2 DEF RulesAreKept, KeptStep

\* Once nothing is being read, the page has read every change that was answered.
THEOREM ChangesAreRead == Spec => []ReadAgain
<1>1. ListInv => ReadAgain
  BY DEF ListInv, ReadInv, ReadAgain, Reading
<1>. QED  BY InitList, StepList, <1>1, PTL DEF Spec
=============================================================================
