SPECIFICATION Spec
CONSTANTS
    trend = trend
    down = down
    r1 = r1
    r2 = r2
    Alerts = {trend, down}
    Severity <- Ranks
    Batches <- Sources
    Lasting = {down}
    Trends = {trend}
    Silence = 1
    Backlog = 1
    Rows = {r1, r2}
    Window = 1
    MaxFaults = 1
CHECK_DEADLOCK FALSE
PROPERTIES
    LastingConditionIsDiagnosed
