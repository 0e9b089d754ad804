SPECIFICATION MCSpec
CONSTANTS
    Modes = {"pat"}
    Secrets = {s1, s2}
    Readers = {r1}
    None = none
    MaxGeneration = 2
    Preemptive = TRUE
    Slots = 6
    Entries <- MCEntries
    Hours <- MCHours
    Commutes = {0, 1}
    CalendarFiles = {"f1", "f2"}
    Expansion <- MCExpansion
    Period = 3
    MaxEvents = 0
    Canvas = {}
    Gradescope = {}
    Titles = {}
    Homework = {}
    Clicks = {}
PROPERTIES
    NoHealthyRemoved
