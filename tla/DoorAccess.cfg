SPECIFICATION Spec
CONSTANTS
    Requests = {r1, r2}
    Doors = {d1, d2}
    People = {p1}
    Rows = {a1, a2}
    Scans = {s1, s2}
    MaxInHand = 2
    NoDoor = NoDoor
    NoOne = NoOne
    NoRow = NoRow
    NoScan = NoScan
SYMMETRY Symmetry
INVARIANTS TypeOK ScansKept
PROPERTIES AloneDoesAll AloneOneRow
