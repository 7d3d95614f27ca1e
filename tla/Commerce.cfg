SPECIFICATION Spec
CONSTANTS
    Clients = {c1, c2}
    Payments = {p1}
    o1 = o1
    Others <- OneOrder
    MaxFaults = 1
INVARIANTS
    TypeOK
    
    RefundedOnce
    
    RepeatsAreFaults
CHECK_DEADLOCK FALSE
