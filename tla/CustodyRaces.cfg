SPECIFICATION Spec
CONSTANTS
    Assets = {a1}
    Users = {u1, u2}
    Requests = {r1, r2}
    MaxRecords = 3
    Endpoints = {"allocate", "return", "transfer", "attach", "delete", "remove", "dirUnassign"}
    Overrides = {}
    NoUser = NoUser
SYMMETRY Symmetry
INVARIANTS HolderIffInUse HolderHasRecord
