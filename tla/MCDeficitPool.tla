---------------------------- MODULE MCDeficitPool ----------------------------
EXTENDS DeficitPool, TLC

CONSTANTS screen, panel

(* Two units of one component and one of another. *)
SkuOfUnit == [u \in Units |-> IF u = 3 THEN panel ELSE screen]
Requests == Permutations(Lockers)
=============================================================================
