SPECIFICATION MCSpec
CONSTANTS
    Challenges = {c1, c2}
    Profiles = {p1, p2}
    Main = p1
    All = all
    Other = other
    None = none
    Limit = 2
    MaxGeneration = 2
    Bases = {b1, b2}
    Origin <- MCOrigin
    Requests = {q1, q2, q3}
SYMMETRY Symmetry
INVARIANTS
    VerdictIsTrue
    AccessFits
PROPERTIES
    NoLateLogin
    ClearAllIsComplete
