SPECIFICATION Spec
CONSTANTS
    Assets = {a1, a2}
    Users = {u1, u2}
    Requests = {r1}
    MaxRecords = 4
    Endpoints = {"allocate", "return", "transfer", "attach"}
    Overrides = {}
    NoUser = NoUser
SYMMETRY Symmetry
INVARIANTS TypeOK LedgerTellsHolder ChainUnbroken FlagHasRecord
