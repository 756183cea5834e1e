----------------------------- MODULE MCSessions -----------------------------
(* Instances of Sessions for TLC. *)
EXTENDS Sessions, TLC

CONSTANTS q1, q2

SlotSymmetry == Permutations(Requests)
=============================================================================
