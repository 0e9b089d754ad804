SPECIFICATION MCSpec
CONSTANTS
    Namespaces = {source_credentials, provider_sessions, ai_credential}
    Values = {blank, v1}
    Blank = blank
    Idle = idle
    Observed = source_credentials
    Accounts = {x, y}
    Environment = x
    Requests = {p1, p2}
    MaxGeneration = 2
    MaxBegun = 3
    None = none
    Forms = {p1, p2}
    Attempts = {c1, c2}
    MaxFaults = 1
SYMMETRY Symmetry
INVARIANTS
    OneLogin
    NoStrayAttempt
PROPERTIES
    RefinesRegister
    GrantIsCurrent
