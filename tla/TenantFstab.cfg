SPECIFICATION MCSpec
CONSTANTS
    Accounts = {a, b}
    Slots = {s, t}
    None = none
    MaxBoots = 0
    MayFail = FALSE
    Passwords = {p}
    MaxRuns = 0
    MaxReboots = 0
    Files = {}
    Limits = {2}
    MaxFailures = 0
    MaxEdits = 0
SYMMETRY Symmetry
INVARIANTS
    ActiveIsInFstab
