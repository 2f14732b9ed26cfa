SPECIFICATION Spec
CONSTANTS
    Licenses = {l1}
    Users = {u1, u2}
    Requests = {r1, r2}
    MaxRows = 3
    MaxSeats = 1
    Unlimited = {}
    Endpoints = {"assign", "batch", "revoke"}
    NoUser = NoUser
    NoLicense = NoLicense
    NoRequest = NoRequest
    NoCount = NoCount
SYMMETRY Symmetry
INVARIANTS OvershootBounded
PROPERTIES AloneHeals
