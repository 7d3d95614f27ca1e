SPECIFICATION FairSpec
CONSTANTS
    i1 = i1
    i2 = i2
    i3 = i3
    a1 = a1
    Incidents = {i1}
    Agents = {}
    AgentType <- NoAgents
    Recorded <- NothingRecorded
    MaxRetries = 2
    MaxSent <- AutomaticPath
    SlowStates = {}
    MaxFaults = 0
    MaxCrashes = 0
PROPERTIES
    SuccessfulRepairResolves
CHECK_DEADLOCK FALSE
