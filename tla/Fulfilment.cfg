SPECIFICATION Spec
CONSTANTS
    o1 = o1
    o2 = o2
    p1 = p1
    p2 = p2
    Orders = {o1, o2}
    Clients = {"c1"}
    MaxUpdates = 1
    Products = {p1, p2}
    Items <- CrossedItems
    Stock <- EnoughForBoth
    Threshold = 3
    MaxDeliver = 3
    Workers = {"w1", "w2"}
    MaxFaults = 1
INVARIANTS
    TypeOK
    StockAccounted
    RepeatedOnlyAfterFault
    ReservedOrdersExist
PROPERTIES
    ImplementsWarehouse
    
    LowStockIsAnnounced
CHECK_DEADLOCK FALSE
