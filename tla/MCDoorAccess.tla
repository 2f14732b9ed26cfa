---------------------------- MODULE MCDoorAccess -----------------------------
(* Model-checking instances of DoorAccess.                                   *)
EXTENDS DoorAccess, TLC

Symmetry == Permutations(Requests) \cup Permutations(Doors)
            \cup Permutations(Rows) \cup Permutations(Scans)
===============================================================================
