SPECIFICATION Spec
CONSTANTS
    i1 = i1
    i2 = i2
    i3 = i3
    i4 = i4
    Incidents = {i1, i2, i3, i4}
    Matched = {i1, i2, i3}
    Vetted = {i3}
    Key <- Fingerprints
    Limit = 2
    Cooldown = 1
    Window = 2
    MaxClock = 2
    MaxFaults = 1
    TimezoneImported = TRUE
INVARIANTS
    TypeOK
    VettedNeverRun
    ExecutionsAreGranted
PROPERTIES
    ApprovalsAreUsed
    KeepsRateLimit
    
CHECK_DEADLOCK FALSE
