----------------------------- MODULE Fulfilment -----------------------------
(***************************************************************************)
(* What the fulfilment of sales orders promises, whatever runs at the same *)
(* time and whatever fails: an order is reserved at most once at a time, a *)
(* manifest is announced once, for exactly the quantities reserved, and a  *)
(* reservation is given up only while no manifest has been announced.      *)
(***************************************************************************)
CONSTANTS Orders, Quantities, None

VARIABLES resv,      \* the quantities reserved for each order
          manifest   \* the quantities of the manifest announced for it

vars == <<resv, manifest>>

Init ==
    /\ resv = [o \in Orders |-> None]
    /\ manifest = [o \in Orders |-> None]

Reserve(o) ==
    /\ resv[o] = None
    /\ manifest[o] = None
    /\ \E v \in Quantities : resv' = [resv EXCEPT ![o] = v]
    /\ UNCHANGED manifest

Abandon(o) ==
    /\ manifest[o] = None
    /\ resv' = [resv EXCEPT ![o] = None]
    /\ UNCHANGED manifest

Announce(o) ==
    /\ resv[o] # None
    /\ manifest[o] = None
    /\ manifest' = [manifest EXCEPT ![o] = resv[o]]
    /\ UNCHANGED resv

Next == \E o \in Orders : Reserve(o) \/ Abandon(o) \/ Announce(o)

Spec == Init /\ [][Next]_vars
=============================================================================
