-------------------------- MODULE MCDirectorySeats --------------------------
(* Model-checking instances of DirectorySeats.                               *)
EXTENDS DirectorySeats, TLC

Symmetry == Permutations(Requests) \cup Permutations(Users)
            \cup Permutations(Licenses \ Unlimited)
=============================================================================
