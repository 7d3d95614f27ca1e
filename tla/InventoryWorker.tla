--------------------------- MODULE InventoryWorker ---------------------------
(***************************************************************************)
(* services/inventory-worker/main.go: reservation of stock for the orders  *)
(* of the orders.created stream.  The workers are the members of the queue *)
(* group inventory-workers; each handles one event at a time and stands    *)
(*    items - in its transaction, which has taken and locked the items     *)
(*            before `next` and not committed;                             *)
(*    ack   - after the commit;                                            *)
(*    check - after the acknowledgement, about to look for low stock.      *)
(* `taken` is what the transaction has written and nobody else can see.    *)
(***************************************************************************)
EXTENDS Integers, Sequences

CONSTANTS
    Orders,         \* order ids
    Products,       \* products with a row in the inventory table
    Items,          \* Items[o]: sequence of [product, quantity]
    Stock,          \* Stock[p]: what there is of p at first
    Threshold,      \* LOW_STOCK_THRESHOLD
    MaxDeliver,     \* nats.MaxDeliver
    Workers,        \* members of the queue group
    MaxFaults       \* failed statements, lost acks, crashes (bound)

VARIABLES
    stream,         \* orders whose orders.created event is in the stream
    due,            \* events to be delivered once more
    acked,          \* events that were acknowledged
    deliveries,     \* how often each event has been delivered
    inventory,      \* the committed rows
    worker,         \* what each worker is at
    alerts,         \* products for which inventory.low was published
    reservations,   \* history: committed reservations of each order
    faults

workerVars == <<due, acked, deliveries, inventory, worker, alerts,
                reservations, faults>>

vars == <<stream, due, acked, deliveries, inventory, worker, alerts,
          reservations, faults>>

Nothing == [p \in Products |-> 0]

Idle == [at |-> "idle"]

Down == [at |-> "down"]

Reservation(o, next, taken) ==
    [at |-> "items", order |-> o, next |-> next, taken |-> taken]

Activation ==
    [at : {"items", "ack", "check"}, order : Orders, next : Nat \ {0},
     taken : [Products -> Int]]

Init ==
    /\ stream = {}
    /\ due = {}
    /\ acked = {}
    /\ deliveries = [o \in Orders |-> 0]
    /\ inventory = [p \in Products |-> [stock |-> Stock[p], reserved |-> 0]]
    /\ worker = [w \in Workers |-> Idle]
    /\ alerts = {}
    /\ reservations = [o \in Orders |-> 0]
    /\ faults = 0

-----------------------------------------------------------------------------
(* Delivery.                                                               *)

\* The event of o reaches the stream.
Arrive(o) ==
    /\ o \notin stream
    /\ stream' = stream \union {o}
    /\ UNCHANGED workerVars

\* Mutant of Requeued: the consumer has no MaxDeliver.
RequeuedForever(o) == IF o \notin acked THEN due \union {o} ELSE due

\* What is due after a delivery of o was not acknowledged.
Requeued(o) ==
    IF o \notin acked /\ deliveries[o] < MaxDeliver THEN due \union {o} ELSE due

Deliver(w, o) ==
    /\ worker[w] = Idle
    /\ o \in stream
    /\ deliveries[o] = 0 \/ o \in due
    /\ deliveries' = [deliveries EXCEPT ![o] = @ + 1]
    /\ due' = due \ {o}
    /\ worker' = [worker EXCEPT ![w] = Reservation(o, 1, Nothing)]
    /\ UNCHANGED <<stream, acked, inventory, alerts, reservations, faults>>

\* msg.Nak().
Nak(w) ==
    /\ worker' = [worker EXCEPT ![w] = Idle]
    /\ due' = Requeued(worker[w].order)

\* The transaction is rolled back and the event given back.
GiveUp(w) ==
    /\ Nak(w)
    /\ UNCHANGED <<stream, acked, deliveries, inventory, alerts, reservations>>

Fault == faults < MaxFaults /\ faults' = faults + 1

-----------------------------------------------------------------------------
(* reserveStock.                                                           *)

Reserving(w) == worker[w].at = "items"

ItemsLeft(w) == Reserving(w) /\ worker[w].next <= Len(Items[worker[w].order])

Item(w) == Items[worker[w].order][worker[w].next]

Tracked(w) == Item(w).product \in Products

\* w's transaction has locked the row of p (SELECT ... FOR UPDATE).
Holds(w, p) ==
    /\ Reserving(w)
    /\ \E k \in 1 .. worker[w].next - 1 : Items[worker[w].order][k].product = p

Blocked(w) ==
    /\ ItemsLeft(w) /\ Tracked(w)
    /\ \E other \in Workers \ {w} : Holds(other, Item(w).product)

\* What w's transaction has written once it has taken the item.
Written(w) == [worker[w].taken EXCEPT ![Item(w).product] = @ + Item(w).quantity]

\* What w's transaction has written becomes visible.
Expose(w) ==
    inventory' = [p \in Products |->
                    [stock    |-> inventory[p].stock - worker[w].taken[p],
                     reserved |-> inventory[p].reserved + worker[w].taken[p]]]

\* The transaction reads its own writes, and what others have committed.
Left(w) ==
    inventory[Item(w).product].stock - worker[w].taken[Item(w).product]

GoOn(w, taken) ==
    worker' = [worker EXCEPT ![w] = Reservation(@.order, @.next + 1, taken)]

SkipItem(w) ==
    /\ ItemsLeft(w) /\ ~Tracked(w)
    /\ GoOn(w, worker[w].taken)
    /\ UNCHANGED <<stream, due, acked, deliveries, inventory, alerts, reservations, faults>>

\* Mutant of TakeItem: the SELECT is not FOR UPDATE.
TakeUnlocked(w) ==
    /\ ItemsLeft(w) /\ Tracked(w)
    /\ Left(w) >= Item(w).quantity
    /\ GoOn(w, Written(w))
    /\ UNCHANGED <<stream, due, acked, deliveries, inventory, alerts, reservations, faults>>

TakeItem(w) ==
    /\ ItemsLeft(w) /\ Tracked(w) /\ ~Blocked(w)
    /\ Left(w) >= Item(w).quantity
    /\ GoOn(w, Written(w))
    /\ UNCHANGED <<stream, due, acked, deliveries, inventory, alerts, reservations, faults>>

\* Mutant of InsufficientStock: the transaction is committed all the same.
CommitTheRest(w) ==
    /\ ItemsLeft(w) /\ Tracked(w) /\ ~Blocked(w)
    /\ Left(w) < Item(w).quantity
    /\ Expose(w)
    /\ Nak(w)
    /\ UNCHANGED <<stream, acked, deliveries, alerts, reservations, faults>>

InsufficientStock(w) ==
    /\ ItemsLeft(w) /\ Tracked(w) /\ ~Blocked(w)
    /\ Left(w) < Item(w).quantity
    /\ GiveUp(w)
    /\ UNCHANGED faults

\* Mutant of AbortBlocked: the event is acknowledged whatever came of it.
AckAborted(w) ==
    /\ Blocked(w)
    /\ acked' = acked \union {worker[w].order}
    /\ due' = due \ {worker[w].order}
    /\ worker' = [worker EXCEPT ![w] = Idle]
    /\ UNCHANGED <<stream, deliveries, inventory, alerts, reservations, faults>>

\* The database breaks a deadlock, or the 10 s of the context are over.
AbortBlocked(w) ==
    /\ Blocked(w)
    /\ GiveUp(w)
    /\ UNCHANGED faults

StatementFails(w) == Reserving(w) /\ Fault /\ GiveUp(w)

Commit(w) ==
    /\ Reserving(w) /\ ~ItemsLeft(w)
    /\ Expose(w)
    /\ reservations' = [reservations EXCEPT ![worker[w].order] = @ + 1]

CommitReservation(w) ==
    /\ Commit(w)
    /\ worker' = [worker EXCEPT ![w].at = "ack"]
    /\ UNCHANGED <<stream, due, acked, deliveries, alerts, faults>>

\* The connection breaks between the commit and its confirmation: tx.Commit()
\* returns an error, and the event is given back.
CommitUnconfirmed(w) ==
    /\ Commit(w)
    /\ Fault
    /\ Nak(w)
    /\ UNCHANGED <<stream, acked, deliveries, alerts>>

-----------------------------------------------------------------------------
(* After the commit.                                                       *)

\* Mutant of Ack: the reservation is taken for a failure.
NakReserved(w) == worker[w].at = "ack" /\ GiveUp(w) /\ UNCHANGED faults

\* Mutant of Ack: the handler returns.
AckAndReturn(w) ==
    /\ worker[w].at = "ack"
    /\ acked' = acked \union {worker[w].order}
    /\ due' = due \ {worker[w].order}
    /\ worker' = [worker EXCEPT ![w] = Idle]
    /\ UNCHANGED <<stream, deliveries, inventory, alerts, reservations, faults>>

Ack(w) ==
    /\ worker[w].at = "ack"
    /\ acked' = acked \union {worker[w].order}
    /\ due' = due \ {worker[w].order}
    /\ worker' = [worker EXCEPT ![w].at = "check"]
    /\ UNCHANGED <<stream, deliveries, inventory, alerts, reservations, faults>>


\* The acknowledgement does not reach the server; its error is ignored.
AckLost(w) ==
    /\ worker[w].at = "ack"
    /\ Fault
    /\ due' = Requeued(worker[w].order)
    /\ worker' = [worker EXCEPT ![w].at = "check"]
    /\ UNCHANGED <<stream, acked, deliveries, inventory, alerts, reservations>>

CheckLowStock(w) ==
    /\ worker[w].at = "check"
    /\ alerts' = alerts \union {p \in Products : inventory[p].stock < Threshold}
    /\ worker' = [worker EXCEPT ![w] = Idle]
    /\ UNCHANGED <<stream, due, acked, deliveries, inventory, reservations, faults>>

\* The query or a publish fails: it is logged, and that is all.
CheckFails(w) ==
    /\ worker[w].at = "check"
    /\ Fault
    /\ alerts' \in {alerts \union A : A \in
                      SUBSET {p \in Products : inventory[p].stock < Threshold}}
    /\ worker' = [worker EXCEPT ![w] = Idle]
    /\ UNCHANGED <<stream, due, acked, deliveries, inventory, reservations>>

\* The event has waited in the client's buffer before the handler began, or
\* the commit is slow: AckWait is over and the event due for another worker.
AckWaitExpires(w) ==
    /\ worker[w].at \in {"items", "ack"}
    /\ Fault
    /\ due' = Requeued(worker[w].order)
    /\ UNCHANGED <<stream, acked, deliveries, inventory, worker, alerts, reservations>>

\* An open transaction is rolled back, and AckWait expires in the end.
Crash(w) ==
    /\ worker[w] # Down
    /\ Fault
    /\ worker' = [worker EXCEPT ![w] = Down]
    /\ due' = IF worker[w] = Idle THEN due ELSE Requeued(worker[w].order)
    /\ UNCHANGED <<stream, acked, deliveries, inventory, alerts, reservations>>

\* Nothing restarts the container by itself.
StartWorker(w) ==
    /\ worker[w] = Down
    /\ worker' = [worker EXCEPT ![w] = Idle]
    /\ UNCHANGED <<stream, due, acked, deliveries, inventory, alerts, reservations, faults>>

-----------------------------------------------------------------------------

Proceed(w) ==
    \/ SkipItem(w) \/ TakeItem(w) \/ InsufficientStock(w) \/ AbortBlocked(w)
    \/ CommitReservation(w) \/ Ack(w) \/ CheckLowStock(w)

Work ==
    \E w \in Workers :
        \/ \E o \in Orders : Deliver(w, o)
        \/ Proceed(w)
        \/ StatementFails(w) \/ CommitUnconfirmed(w) \/ AckLost(w)
        \/ CheckFails(w) \/ AckWaitExpires(w) \/ Crash(w) \/ StartWorker(w)

Next == Work \/ \E o \in Orders : Arrive(o)

Spec == Init /\ [][Next]_vars

\* JetStream delivers what is due to a worker that is free; every worker's
\* statements return, if only with an error.
Fairness ==
    \A w \in Workers :
        /\ WF_vars(\E o \in Orders : Deliver(w, o))
        /\ WF_vars(Proceed(w))

-----------------------------------------------------------------------------

\* Every variable keeps its type.
TypeOK ==
    /\ stream \subseteq Orders
    /\ due \subseteq Orders
    /\ acked \subseteq Orders
    /\ deliveries \in [Orders -> 0 .. MaxDeliver]
    /\ inventory \in [Products -> [stock : Int, reserved : Int]]
    /\ worker \in [Workers -> {Idle, Down} \union Activation]
    /\ alerts \subseteq Products
    /\ reservations \in [Orders -> Nat]
    /\ faults \in Nat

\* No product is oversold and none is lost, however the transactions of
\* several workers interleave and wherever they are rolled back.
StockAccounted ==
    \A p \in Products :
        /\ inventory[p].stock >= 0
        /\ inventory[p].stock + inventory[p].reserved = Stock[p]

\* An order is reserved a second time only after something went wrong, and
\* not more often than that.
RepeatedOnlyAfterFault == \A o \in Orders : reservations[o] <= 1 + faults

\* Every commit is the reservation of one whole order from stock that
\* suffices for it.
Abstract ==
    INSTANCE Warehouse WITH
        stock    <- [p \in Products |-> inventory[p].stock],
        reserved <- [p \in Products |-> inventory[p].reserved]

ImplementsWarehouse == Abstract!Spec

\* As long as a worker is up, every order that was announced is reserved in
\* the end or has been tried MaxDeliver times, although workers lock the same
\* rows in different orders and die.
OrdersAreTried ==
    \A o \in Orders :
        o \in stream ~> \/ reservations[o] > 0 \/ deliveries[o] = MaxDeliver
                       \/ \A w \in Workers : worker[w] = Down

\* Stock that a reservation has made low is reported, unless something failed.
LowStockIsAnnounced ==
    \A p \in Products :
        inventory[p].stock < Threshold /\ inventory[p].stock # Stock[p]
            ~> p \in alerts \/ inventory[p].stock >= Threshold \/ faults > 0
=============================================================================
