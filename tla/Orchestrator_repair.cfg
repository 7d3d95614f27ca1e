SPECIFICATION Spec
CONSTANTS
    i1 = i1
    i2 = i2
    i3 = i3
    a1 = a1
    Incidents = {i1}
    Agents = {}
    AgentType <- NoAgents
    Recorded <- NothingRecorded
    MaxRetries = 2
    MaxSent <- RepairPath
    SlowStates = {}
    MaxFaults = 1
    MaxCrashes = 0
INVARIANTS
    TypeOK
    NoUnapprovedExecution
    ResolvedOnlyOnSuccess
    AnnouncedAfterCommit
PROPERTIES
    ImplementsContract
CHECK_DEADLOCK FALSE
