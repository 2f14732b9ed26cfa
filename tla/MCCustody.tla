----------------------------- MODULE MCCustody -----------------------------
(* Model-checking instances of Custody.                                      *)
EXTENDS Custody, TLC

Symmetry == Permutations(Assets) \cup Permutations(Users) \cup Permutations(Requests)
=============================================================================
