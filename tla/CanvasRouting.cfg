SPECIFICATION MCSpec
CONSTANTS
    Modes = {"oauth", "pat"}
    Secrets = {s1, s2}
    Readers = {r1, r2}
    None = none
    MaxGeneration = 2
    Preemptive = FALSE
    Slots = 6
    Entries <- MCEntries
    Hours <- MCHours
    Commutes = {0, 1}
    CalendarFiles = {"f1", "f2"}
    Expansion <- MCExpansion
    Period = 3
    MaxEvents = 3
    Canvas = {c1, c2}
    Gradescope = {g1}
    Titles = {homework, essay}
    Homework = {homework}
    Clicks = {r1, r2}
SYMMETRY Symmetry
INVARIANTS
    FreeTimeIsReal
PROPERTIES
    NoHealthyRemoved
    FailoverIsComplete
    TitlesDecideNothing
