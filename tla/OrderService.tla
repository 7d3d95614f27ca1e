---------------------------- MODULE OrderService ----------------------------
(***************************************************************************)
(* services/order-service/main.go: creation of orders and updates of their *)
(* status.  Every request is a goroutine of its own that talks to the      *)
(* database in single statements, without a transaction; a request stands  *)
(*    publish - between its INSERT and its publication of orders.created;  *)
(*    update  - between its SELECT and its UPDATE.                         *)
(* A request that is refused (400, 404) or whose first statement fails     *)
(* (500) changes nothing and is not a step.                                *)
(***************************************************************************)
EXTENDS Naturals

CONSTANTS
    Orders,         \* order ids
    Clients,        \* clients that have a request in progress at a time
    MaxUpdates      \* how many status updates are begun (bound)

VARIABLES
    orders,         \* the orders table: status of each order
    request,        \* the request of each client
    stream,         \* orders whose orders.created event is in the stream
    updates         \* history: updates begun

vars == <<orders, request, stream, updates>>

NoOrder == "none"

Statuses == {"pending", "confirmed", "processing", "shipped", "delivered",
             "cancelled", "refunded"}

\* validTransitions; a status without an entry allows nothing.
ValidTransitions(status) ==
    CASE status = "pending"    -> {"confirmed", "cancelled"}
      [] status = "confirmed"  -> {"processing", "cancelled"}
      [] status = "processing" -> {"shipped", "cancelled"}
      [] status = "shipped"    -> {"delivered"}
      [] status = "delivered"  -> {"refunded"}
      [] OTHER                 -> {}

Idle == [at |-> "idle"]

Creation(o) == [at |-> "publish", order |-> o]

Update(o, status) == [at |-> "update", order |-> o, status |-> status]

Requests ==
    {Idle} \union {Creation(o) : o \in Orders}
           \union {Update(o, status) : o \in Orders, status \in Statuses}

Exists(o) == orders[o] # NoOrder

Init ==
    /\ orders = [o \in Orders |-> NoOrder]
    /\ request = [c \in Clients |-> Idle]
    /\ stream = {}
    /\ updates = 0

Begin(c, r) == request[c] = Idle /\ request' = [request EXCEPT ![c] = r]

Finish(c) == request' = [request EXCEPT ![c] = Idle]

Store(o, status) == orders' = [orders EXCEPT ![o] = status]

\* Mutant of CreateOrder: the event is published before the INSERT.
PublishFirst(c, o) ==
    /\ ~Exists(o)
    /\ Begin(c, Creation(o))
    /\ stream' = stream \union {o}
    /\ UNCHANGED <<orders, updates>>

\* The id is a fresh uuid, so the INSERT meets no existing row.
CreateOrder(c, o) ==
    /\ ~Exists(o)
    /\ Begin(c, Creation(o))
    /\ Store(o, "pending")
    /\ UNCHANGED <<stream, updates>>

\* Best effort: when there is no connection, or the publish fails, the order
\* is created all the same.
PublishOrderCreated(c) ==
    /\ request[c].at = "publish"
    /\ stream' \in {stream, stream \union {request[c].order}}
    /\ Finish(c)
    /\ UNCHANGED <<orders, updates>>

\* fetchOrder, then the check against the status it returned.
FetchOrder(c, o, status) ==
    /\ updates < MaxUpdates
    /\ updates' = updates + 1
    /\ Exists(o)
    /\ status \in ValidTransitions(orders[o])
    /\ Begin(c, Update(o, status))
    /\ UNCHANGED <<orders, stream>>

\* The UPDATE has no condition on the status that was checked.
UpdateOrderStatus(c) ==
    /\ request[c].at = "update"
    /\ Store(request[c].order, request[c].status)
    /\ Finish(c)
    /\ UNCHANGED <<stream, updates>>

\* The UPDATE fails, the client hangs up, or the process dies with it.
RequestFails(c) ==
    /\ request[c] # Idle
    /\ Finish(c)
    /\ UNCHANGED <<orders, stream, updates>>

Next ==
    \E c \in Clients :
        \/ \E o \in Orders : CreateOrder(c, o)
        \/ PublishOrderCreated(c)
        \/ \E o \in Orders, status \in Statuses : FetchOrder(c, o, status)
        \/ UpdateOrderStatus(c)
        \/ RequestFails(c)

Spec == Init /\ [][Next]_vars

-----------------------------------------------------------------------------

\* Every variable keeps its type.
TypeOK ==
    /\ orders \in [Orders -> Statuses \union {NoOrder}]
    /\ request \in [Clients -> Requests]
    /\ stream \subseteq Orders
    /\ updates \in Nat

\* main.go, at validTransitions: "validTransitions defines which status
\* transitions are allowed."  The check reads the row in one statement and
\* the update writes it in another.
MovesAlongValidTransitions ==
    [][\A o \in Orders :
         Exists(o) /\ orders'[o] # orders[o]
            => orders'[o] \in ValidTransitions(orders[o])]_vars
=============================================================================
