------------------------------ MODULE MCNetwork ------------------------------
(* Model-checking instances of Network.                                      *)
EXTENDS Network, TLC

CONSTANTS p1, p2, p3, w1, w2, s1, s2

MCSwitchOf == p1 :> w1 @@ p2 :> w1 @@ p3 :> w2
MCRangeOf == s1 :> {1} @@ s2 :> {1, 2}
Symmetry == Permutations(Requests) \cup Permutations(Devices)
===============================================================================
