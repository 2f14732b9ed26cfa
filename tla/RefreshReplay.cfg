SPECIFICATION FairSpec
CONSTANTS
    Users = {u1}
    Requests = {r1, r2}
    MaxClock = 1
    TTL = 2
    Faults = {"response"}
    NoUser = NoUser
    NoToken = NoToken

PROPERTIES ReplayEndsSessions
CHECK_DEADLOCK FALSE
