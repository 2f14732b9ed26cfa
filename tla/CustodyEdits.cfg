SPECIFICATION Spec
CONSTANTS
    Assets = {a1}
    Users = {u1}
    Requests = {r1, r2}
    MaxRecords = 2
    Endpoints = {"allocate", "batch", "update", "setStatus", "attach", "dirRemove", "suspend"}
    Overrides = {"MAINTENANCE"}
    NoUser = NoUser
SYMMETRY Symmetry
PROPERTIES AttachHeals
