SPECIFICATION FairSpec
CONSTANTS
    i1 = i1
    i2 = i2
    i3 = i3
    a1 = a1
    Incidents = {i1, i3}
    Agents = {a1}
    AgentType <- Reviewers
    Recorded <- ReviewsRecorded
    MaxRetries = 1
    MaxSent <- FailurePath
    SlowStates = {"safety_review"}
    MaxFaults = 1
    MaxCrashes = 0
INVARIANTS
    RetriesWithinBudget
PROPERTIES
    LostAgentIsNoticed
CHECK_DEADLOCK FALSE
