----------------------------- MODULE Fulfilment -----------------------------
(***************************************************************************)
(* OrderService and InventoryWorker over the orders.created stream: what   *)
(* the one publishes the other reserves stock for.  Nothing else is        *)
(* shared, and nothing flows back.                                         *)
(***************************************************************************)
EXTENDS Integers, Sequences, FiniteSets

CONSTANTS
    Orders, Clients, MaxUpdates,
    Products, Items, Stock, Threshold, MaxDeliver, Workers, MaxFaults

ASSUME StockAssumption == Stock \in [Products -> Nat]

ASSUME ItemsAssumption ==
    \A o \in Orders :
        Items[o] \in Seq([product  : {Items[o][k].product : k \in DOMAIN Items[o]},
                         quantity : Int])

ASSUME WorkersAssumption == IsFiniteSet(Workers)

ASSUME LimitsAssumption ==
    /\ Threshold \in Int
    /\ MaxDeliver \in Nat \ {0}
    /\ {MaxFaults, MaxUpdates} \subseteq Nat

VARIABLES
    orders, request, updates,
    stream,
    due, acked, deliveries, inventory, worker, alerts, reservations, faults

Service == INSTANCE OrderService

Inventory == INSTANCE InventoryWorker

serviceVars == <<orders, request, updates>>

inventoryVars == <<due, acked, deliveries, inventory, worker, alerts,
                   reservations, faults>>

vars == <<serviceVars, stream, inventoryVars>>

Init == Service!Init /\ Inventory!Init

Next ==
    \/ Service!Next /\ UNCHANGED inventoryVars
    \/ Inventory!Work /\ UNCHANGED serviceVars

\* No client is obliged to do anything; the workers are.
Spec == Init /\ [][Next]_vars /\ Inventory!Fairness

-----------------------------------------------------------------------------

\* Every variable of both components keeps its type; in particular no event
\* is delivered more than MaxDeliver times.
TypeOK == Service!TypeOK /\ Inventory!TypeOK

\* Stock is set aside only for orders that are on record, whatever becomes of
\* the request that created them.
ReservedOrdersExist ==
    \A o \in Orders : reservations[o] > 0 => Service!Exists(o)

StockAccounted == Inventory!StockAccounted

RepeatedOnlyAfterFault == Inventory!RepeatedOnlyAfterFault

ImplementsWarehouse == Inventory!ImplementsWarehouse

OrdersAreTried == Inventory!OrdersAreTried

LowStockIsAnnounced == Inventory!LowStockIsAnnounced
=============================================================================
