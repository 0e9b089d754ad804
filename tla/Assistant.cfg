SPECIFICATION MCSpec
CONSTANTS
    Tasks = {t1}
    Inputs = {a, b}
    Events = {e1, e2}
    Workers = {scheduler, api}
    None = none
    MaxAttempts = 2
    Limit = 2
    Clouds = {deepseek, qwen}
    Local = ollama
    Models = {m1}
    Keys = {k1, k2}
    Probes = {p1, p2}
    MaxSaves = 3
    MaxGeneration = 4
    Proposals = {create_event, edit_source}
    Awaiting = {edit_source}
    Clicks = {c1, c2}
    MaxToolRounds = 2
    MaxCalls = 2
    MaxEffects = 2
    Hashes = {h1, h2}
    PerRun = 2
    Candidates = {n1, n2, n3, n4}
    Families = {family}
    Texts = {x1, x2}
    Needed = 2
    MaxRules = 1
SYMMETRY Symmetry
INVARIANTS
    PushesAreBounded
    AttemptsAreCounted
    ReadyMeansTested
PROPERTIES
    PushesAreApproved
    ApprovalSurvives
    HistoryStays
    SummariesAreCurrent
    SuppressionIsEarned
