---------------------------- MODULE MCOrderPage ----------------------------
(* Instances of OrderPage for TLC. *)
EXTENDS OrderPage

CONSTANTS ann, bob
=============================================================================
