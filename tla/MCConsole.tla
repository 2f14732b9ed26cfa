------------------------------ MODULE MCConsole ------------------------------
(* Model-checking instances of Console.                                      *)
EXTENDS Console, TLC

CONSTANTS x1, x2, l1

MCKeys == SettingKeys \cup {x1, x2, l1}
Symmetry == Permutations(Requests) \cup Permutations(Processes) \cup Permutations({x1, x2})
==============================================================================
