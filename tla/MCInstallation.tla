--------------------------- MODULE MCInstallation ---------------------------
(* An instance of Installation for TLC. *)
EXTENDS Installation

CONSTANTS p1, p2, p3, p4, m1, m2, m3

\* Three part numbers, of which one has two makers: they are sold by the
\* first four suppliers, of which the fourth has a receipt.
PartList == <<p1, p2, p3, p4>>
PartNumberOf == [p \in {p1, p2, p3, p4} |->
                   CASE p = p3 -> "board" [] p = p4 -> "case" [] OTHER -> "disk"]
ModelList == <<m1, m2, m3>>
Bills == [m \in {m1, m2, m3} |-> CASE m = m1 -> <<>> [] m = m2 -> <<p1>> [] OTHER -> <<p2>>]
=============================================================================
