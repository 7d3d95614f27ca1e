SPECIFICATION Spec
CONSTANTS
    Orders = {"o1"}
    Clients = {"c1", "c2"}
    MaxUpdates = 2
PROPERTIES
    MovesAlongValidTransitions
CHECK_DEADLOCK FALSE
