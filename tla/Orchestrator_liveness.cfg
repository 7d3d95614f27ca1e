SPECIFICATION FairSpec
CONSTANTS
    i1 = i1
    i2 = i2
    i3 = i3
    a1 = a1
    Incidents = {i1}
    Agents = {}
    AgentType <- NoAgents
    Recorded <- NothingRecorded
    MaxRetries = 1
    MaxSent <- RefusalPath
    SlowStates = {"detecting", "diagnosing", "proposing_remediation", "safety_review"}
    MaxFaults = 1
    MaxCrashes = 0
PROPERTIES
    SettledOrEscalated
CHECK_DEADLOCK FALSE
