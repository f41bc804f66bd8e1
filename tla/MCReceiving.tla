---------------------------- MODULE MCReceiving ----------------------------
EXTENDS Receiving, TLC
OneOfEach == [o \in POs |-> [s \in SKUs |-> 1]]
OnePO == [x \in Shipments |-> CHOOSE o \in POs : TRUE]
Alike == Permutations(Requests) \cup Permutations(Operators) \cup Permutations(Shipments)
=============================================================================
