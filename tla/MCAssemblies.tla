---------------------------- MODULE MCAssemblies ----------------------------
(* Instances of Assemblies for TLC. *)
EXTENDS Assemblies, TLC

CONSTANTS s1, m1, m2, p1, v1, v2

All == {s1, m1, m2, p1, v1, v2}
Prices == (v1 :> 1) @@ (v2 :> 2)
Lists == {<<>>, <<s1>>, <<s1, s1>>}
=============================================================================
