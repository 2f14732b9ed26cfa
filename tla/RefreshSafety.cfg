SPECIFICATION Spec
CONSTANTS
    Users = {u1}
    Requests = {r1, r2}
    MaxClock = 2
    TTL = 1
    Faults = {"dbWrite", "crash", "response"}
    NoUser = NoUser
    NoToken = NoToken
SYMMETRY Symmetry
INVARIANTS TypeOK Lineage OneLivePerLogin OneHolder
PROPERTIES ImplementsSessionLineage
CHECK_DEADLOCK FALSE
