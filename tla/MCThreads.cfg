CONSTANTS
    MaxRounds = 5
    MaxDeaths = 2
    MaxRefusals = 2
    Tabs = {"Storage"}
    Storage = "Storage"
    Users = {u1}
    NoUser = NoUser
    Calls = {c1, c2}
    MaxMutations = 0
    Outages = {"failed"}
SPECIFICATION ThreadsSpec
CHECK_DEADLOCK FALSE
INVARIANTS OneRoundAtATime
PROPERTIES KeepsPromise PendingEnds EveryQueryEnds
