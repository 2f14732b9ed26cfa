--------------------------- MODULE MCLicenseSeats ---------------------------
(* Model-checking instances of LicenseSeats; all the sets are symmetric.     *)
EXTENDS LicenseSeats, TLC

Symmetry == Permutations(Requests) \cup Permutations(Users)
            \cup Permutations(Licenses \ Unlimited)
=============================================================================
