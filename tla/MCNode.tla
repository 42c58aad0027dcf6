------------------------------- MODULE MCNode -------------------------------
(* One node: its data plane.  Of Quantities only the assumption is checked.*)
EXTENDS DataPlane, Quantities, TLC
=============================================================================
