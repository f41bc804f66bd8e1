----------------------------- MODULE MCIdentity -----------------------------
(* Instances of Identity for TLC. *)
EXTENDS Identity, TLC

CONSTANTS u1, e1, e2, e3

Sorts == (e1 :> "good") @@ (e2 :> "invalid") @@ (e3 :> "garbled")
=============================================================================
