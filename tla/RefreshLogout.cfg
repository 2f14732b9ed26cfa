SPECIFICATION Spec
CONSTANTS
    Users = {u1}
    Requests = {r1, r2}
    MaxClock = 1
    TTL = 1
    Faults = {}
    NoUser = NoUser
    NoToken = NoToken
SYMMETRY Symmetry
INVARIANTS EndedStaysEnded
CHECK_DEADLOCK FALSE
