SPECIFICATION MCSpec
CONSTANTS
    Assignments = {a}
    Files = {f}
    Runs = {scheduler}
    None = none
    MaxVersion = 2
    MaxChanges = 3
    Sources = {canvas, gradescope, site}
    Dates = {d1, d2}
    Providers = {canvas, gradescope}
    Retracting = {canvas}
    Rank <- MCRank
    Tasks = {t1, t2}
    Requests = {q1, q2}
    MaxTime = 1
    MaxCalls = 3
    Entries = {e1}
    Values = {v1}
    Actors = {q1, q2}
    MaxRevision = 2
    MaxBegun = 1
SYMMETRY Symmetry
INVARIANTS
    CopyCatchesUp
    NothingUnreported
    RemovalIsReal
    DownloadsKeepUp
    PlanFollowsTasks
PROPERTIES
    EvidenceIsRanked
    ProgressIsFenced
