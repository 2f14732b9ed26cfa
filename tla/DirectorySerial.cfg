SPECIFICATION DirSpec
CONSTANTS
    Licenses = {l1, l2}
    Users = {u1, u2}
    Requests = {r1}
    MaxRows = 3
    MaxSeats = 2
    Unlimited = {l2}
    Endpoints = {"assign", "bundle", "revoke", "update", "dirAssign", "dirUnassign", "dirRemove"}
    NoUser = NoUser
    NoLicense = NoLicense
    NoRequest = NoRequest
    NoCount = NoCount
SYMMETRY Symmetry
INVARIANTS TypeOK UsedNotOverstated NoDoubleSeat
PROPERTIES AloneWithinCapacity
