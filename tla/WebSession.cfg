SPECIFICATION FairSpec
CONSTANTS
    t1 = t1
    c1 = c1
    c2 = c2
    Tabs = {t1}
    Calls = {c1, c2}
    TabOf <- MCTabOf
    MaxTokens = 3
    Faults = {"lost", "socket"}
    NoCall = NoCall
INVARIANTS TypeOK NoFalseAlarm
PROPERTIES CallsSettle
