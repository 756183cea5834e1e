----------------------------- MODULE NewestPage -----------------------------
(***************************************************************************)
(* What the router promises of asynchronous renders: pages are asked for   *)
(* one after the other, and the outlet holds the page asked for last, one  *)
(* that was the last when it came, or nothing.                             *)
(***************************************************************************)
EXTENDS Naturals

VARIABLES
    asked,     \* how many pages have been asked for
    shown      \* which of them is on the screen; 0 is none

\* A page is asked for, with or without a new and empty screen.
Ask == /\ asked' > asked
       /\ shown' \in {shown, 0}

Clear == shown' = 0 /\ UNCHANGED asked

Show == /\ shown # asked
        /\ shown' = asked
        /\ UNCHANGED asked

Init == asked \in Nat /\ shown = 0
Next == Ask \/ Clear \/ Show
Spec == Init /\ [][Next]_<<asked, shown>>
=============================================================================
