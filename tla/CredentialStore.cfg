SPECIFICATION MCSpec
CONSTANTS
    Secrets = {s1, s2}
    None = none
    Holders = {h1}
    PersistenceEnabled = TRUE
    MaxGeneration = 2
    MaxSurvivors = 2
    RemovalStates = {"INVALID"}
    Items = {i1, i2}
    Documents = {d1, d2}
    Invalid = invalid
    Mine = mine
    MaxFiles = 3
    MaxStamps = 1
SYMMETRY Symmetry
INVARIANTS
    RouteIsRight
    HeldIsCurrent
    FilesAreKept
PROPERTIES
    RefinesRegister
