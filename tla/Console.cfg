SPECIFICATION Spec
CONSTANTS
    Requests = {r1, r2}
    Areas = {"settings", "organizations", "roles", "inbox", "records", "licenses", "stock"}
    Processes = {n1, n2}
    x1 = x1
    x2 = x2
    l1 = l1
    Records = {x1, x2}
    Licenses = {l1}
    Keys <- MCKeys
    NoValue = NoValue
    Outages = TRUE
    MaxUpdates = 2
    Orgs = {o1, o2, o3}
    NoOrg = NoOrg
    Roles = {k1, k2}
    Permissions = {q1, q2}
    Users = {u1}
    NoRole = NoRole
    Cap = 1
    Page = 1
    MaxNotes = 3
    MaxWire = 0
    MaxCode = 2
    MaxIntake = 2
SYMMETRY Symmetry
INVARIANTS TypeOK StaleExcused TreeShowsAll BadgeSettles TwiceExcused ExpiredExcused RestockLeavesNoGap
PROPERTIES AloneMakesNoCycle AloneRoleExact
