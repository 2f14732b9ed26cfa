SPECIFICATION Spec
CONSTANTS
    Requests = {r1, r2}
    Areas = {"links", "racks", "addressing"}
    p1 = p1
    p2 = p2
    p3 = p3
    w1 = w1
    w2 = w2
    Ports = {p1, p2, p3}
    Switches = {w1, w2}
    Assets = {a1}
    SwitchOf <- MCSwitchOf
    NoPort = NoPort
    NoAsset = NoAsset
    Racks = {k1}
    Devices = {d1, d2}
    RackHeight = 2
    Positions = {1, 2}
    Heights = {1, 2}
    MaxNamed = 1
    NoRack = NoRack
    NoPos = NoPos
    Keep = Keep
    s1 = s1
    s2 = s2
    Subnets = {s1, s2}
    Addresses = {1, 2}
    MaxIps = 2
    MaxIpRequests = 1
    MaxChanged = 1
    Statuses = {"ASSIGNED", "AVAILABLE"}
    RangeOf <- MCRangeOf
    NoSubnet = NoSubnet
    NoAddress = NoAddress
    NoCount = NoCount
    Same = Same
    SyncFaults = TRUE
SYMMETRY Symmetry
INVARIANTS TypeOK AloneNeverRefused
PROPERTIES AloneLinksBothEnds AloneMountsFree AloneSyncs
