----------------------------- MODULE MCEventHub -----------------------------
(* Instances of EventHub for TLC. *)
EXTENDS EventHub

CONSTANTS s1, s2

\* An item change, the same with its count unread, and a deletion.
MCBatches == {{"authenticatedOnly", "anonymousOnly"}, {"authenticatedOnly"}, {"everyone"}}
=============================================================================
