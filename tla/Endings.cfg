SPECIFICATION MCFairSpec
CONSTANTS
    Challenges = {c1, c2}
    Profiles = {p1}
    All = all
    Other = other
    None = none
    Room = 1
    MaxGeneration = 1
    Tasks = {t1}
    Inputs = {a}
    Events = {}
    Workers = {scheduler}
    MaxAttempts = 2
    Limit = 2
    Modes = {"oauth", "pat"}
    Secrets = {s1}
    Readers = {r1, r2}
    Preemptive = TRUE
PROPERTIES
    EveryAttemptEnds
    ClaimsEnd
    EveryReadEnds
