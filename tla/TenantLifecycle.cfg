SPECIFICATION MCFairSpec
CONSTANTS
    Accounts = {a, b, c}
    Slots = {s}
    None = none
    MaxBoots = 1
    MayFail = TRUE
    Passwords = {p, q}
    MaxRuns = 2
    MaxReboots = 2
    Files = {f1, f2}
    Limits = {2, 3}
    MaxFailures = 1
    MaxEdits = 1
INVARIANTS
    NothingInherited
    SessionsAreActive
    ImportIsWhole
PROPERTIES
    DataIsKept
    DisabledStops
    EveryFileIsRetried
