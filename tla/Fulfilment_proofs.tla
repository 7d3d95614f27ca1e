-------------------------- MODULE Fulfilment_proofs -------------------------
(***************************************************************************)
(* Proofs about Fulfilment, for any orders, clients, products, workers and *)
(* bounds: the types, the stock, and what is made of an event on its way - *)
(* which orders are reserved, and how often.                               *)
(***************************************************************************)
EXTENDS Fulfilment, TLAPS, FiniteSetTheorems, WellFoundedInduction

Statements(w) ==
    \/ Inventory!SkipItem(w) \/ Inventory!TakeItem(w)
    \/ Inventory!InsufficientStock(w) \/ Inventory!AbortBlocked(w)
    \/ Inventory!StatementFails(w)
    \/ Inventory!CommitReservation(w) \/ Inventory!CommitUnconfirmed(w)

Afterwards(w) ==
    \/ Inventory!Ack(w) \/ Inventory!AckLost(w)
    \/ Inventory!CheckLowStock(w) \/ Inventory!CheckFails(w)
    \/ Inventory!AckWaitExpires(w) \/ Inventory!Crash(w)
    \/ Inventory!StartWorker(w)

-----------------------------------------------------------------------------
(* Type correctness.                                                       *)

\* Whatever is published or written of an order is about a row that exists.
LEMMA ServiceType ==
    ASSUME Service!TypeOK, Service!Next
    PROVE  Service!TypeOK'
<1> USE DEF Service!TypeOK, Service!Requests, Service!Idle, Service!Creation,
            Service!Update, Service!Statuses, Service!NoOrder
<1>1. PICK c \in Clients :
        \/ \E o \in Orders : Service!CreateOrder(c, o)
        \/ Service!PublishOrderCreated(c)
        \/ \E o \in Orders, status \in Service!Statuses :
              Service!FetchOrder(c, o, status)
        \/ Service!UpdateOrderStatus(c)
        \/ Service!RequestFails(c)
  BY DEF Service!Next
<1>2. ASSUME NEW o \in Orders, Service!CreateOrder(c, o)
      PROVE  Service!TypeOK'
  BY <1>2 DEF Service!CreateOrder, Service!Begin, Service!Store
<1>3. CASE Service!PublishOrderCreated(c)
  <2>1. request[c].order \in Orders
    BY <1>3 DEF Service!PublishOrderCreated
  <2>2. QED
    BY <1>3, <2>1 DEF Service!PublishOrderCreated, Service!Finish
<1>4. ASSUME NEW o \in Orders, NEW status \in Service!Statuses,
             Service!FetchOrder(c, o, status)
      PROVE  Service!TypeOK'
  BY <1>4 DEF Service!FetchOrder, Service!Begin
<1>5. CASE Service!UpdateOrderStatus(c)
  <2>1. request[c].order \in Orders /\ request[c].status \in Service!Statuses
    BY <1>5 DEF Service!UpdateOrderStatus
  <2>2. QED
    BY <1>5, <2>1 DEF Service!UpdateOrderStatus, Service!Finish, Service!Store
<1>6. CASE Service!RequestFails(c)
  BY <1>6 DEF Service!RequestFails, Service!Finish
<1>7. QED
  BY <1>1, <1>2, <1>3, <1>4, <1>5, <1>6

\* Adding to an entry of a function.
LEMMA AddToEntry ==
    ASSUME NEW S, NEW f \in [S -> Int], NEW x \in S, NEW n \in Int
    PROVE  [f EXCEPT ![x] = @ + n] \in [S -> Int]
OBVIOUS

\* A statement of a transaction moves an activation on.
LEMMA GoOnType ==
    ASSUME Inventory!TypeOK, NEW w \in Workers, NEW taken \in [Products -> Int],
           worker[w] \in Inventory!Activation, Inventory!GoOn(w, taken)
    PROVE  worker' \in [Workers -> {Inventory!Idle, Inventory!Down}
                                    \union Inventory!Activation]
<1>1. Inventory!Reservation(worker[w].order, worker[w].next + 1, taken)
         \in Inventory!Activation
  BY DEF Inventory!Activation, Inventory!Reservation
<1>2. QED
  BY <1>1 DEF Inventory!GoOn, Inventory!TypeOK

\* An item of an order is a product and a quantity.
LEMMA ItemType ==
    ASSUME Inventory!TypeOK, NEW w \in Workers, Inventory!ItemsLeft(w)
    PROVE  /\ worker[w] \in Inventory!Activation
           /\ Inventory!Item(w).quantity \in Int
<1>1. worker[w] \in Inventory!Activation
  BY DEF Inventory!TypeOK, Inventory!ItemsLeft, Inventory!Reserving,
         Inventory!Idle, Inventory!Down
<1>2. /\ worker[w].order \in Orders /\ worker[w].next \in Nat \ {0}
      /\ worker[w].next <= Len(Items[worker[w].order])
  BY <1>1 DEF Inventory!Activation, Inventory!ItemsLeft
<1>3. Items[worker[w].order][worker[w].next].quantity \in Int
  <2> DEFINE o == worker[w].order
             Wanted == [product  : {Items[o][k].product : k \in DOMAIN Items[o]},
                        quantity : Int]
  <2>1. Items[o] \in Seq(Wanted)
    BY <1>2, ItemsAssumption
  <2>2. worker[w].next \in 1 .. Len(Items[o])
    BY <1>2, <2>1
  <2>3. \A S, seq : seq \in Seq(S) => \A k \in 1 .. Len(seq) : seq[k] \in S
    OBVIOUS
  <2>4. Items[o][worker[w].next] \in Wanted
    BY <2>1, <2>2, <2>3, Zenon
  <2>5. QED
    BY <2>4
<1>4. QED
  BY <1>1, <1>3 DEF Inventory!Item

\* What is due has not been delivered MaxDeliver times.
DueIsBelowLimit == \A o \in due : deliveries[o] < MaxDeliver

InventoryInv == Inventory!TypeOK /\ DueIsBelowLimit

\* An event given back keeps what is due in range.
LEMMA GivenBack ==
    ASSUME InventoryInv, NEW o \in Orders
    PROVE  /\ Inventory!Requeued(o) \subseteq Orders
           /\ \A other \in Inventory!Requeued(o) : deliveries[other] < MaxDeliver
BY DEF InventoryInv, DueIsBelowLimit, Inventory!TypeOK, Inventory!Requeued

LEMMA DeliverType ==
    ASSUME InventoryInv, NEW w \in Workers, NEW o \in Orders,
           Inventory!Deliver(w, o)
    PROVE  InventoryInv'
<1> USE DEF InventoryInv, Inventory!TypeOK
<1>1. worker' \in [Workers -> {Inventory!Idle, Inventory!Down}
                                 \union Inventory!Activation]
  BY DEF Inventory!Deliver, Inventory!Activation, Inventory!Nothing,
         Inventory!Reservation
<1>2. deliveries' \in [Orders -> 0 .. MaxDeliver]
  <2>1. deliveries[o] \in Nat /\ deliveries[o] < MaxDeliver
    BY LimitsAssumption DEF Inventory!Deliver, DueIsBelowLimit
  <2>2. QED
    BY <2>1, LimitsAssumption DEF Inventory!Deliver
<1>3. DueIsBelowLimit'
  BY DEF Inventory!Deliver, DueIsBelowLimit
<1>4. QED
  BY <1>1, <1>2, <1>3 DEF Inventory!Deliver

LEMMA NakType ==
    ASSUME InventoryInv, NEW w \in Workers, worker[w] \in Inventory!Activation,
           Inventory!Nak(w), UNCHANGED deliveries
    PROVE  /\ due' \subseteq Orders
           /\ worker' \in [Workers -> {Inventory!Idle, Inventory!Down}
                                       \union Inventory!Activation]
           /\ DueIsBelowLimit'
<1>1. worker[w].order \in Orders
  BY DEF Inventory!Activation
<1>2. due' \subseteq Orders /\ DueIsBelowLimit'
  BY <1>1, GivenBack DEF Inventory!Nak, DueIsBelowLimit
<1>3. QED
  BY <1>2 DEF Inventory!Nak, InventoryInv, Inventory!TypeOK

\* Whoever handles an event is in an activation.
LEMMA ActiveType ==
    ASSUME Inventory!TypeOK, NEW w \in Workers,
           worker[w].at \in {"items", "ack", "check"}
    PROVE  worker[w] \in Inventory!Activation
BY DEF Inventory!TypeOK, Inventory!Idle, Inventory!Down

\* What a commit writes are integers.
LEMMA CommitType ==
    ASSUME InventoryInv, NEW w \in Workers, Inventory!Commit(w)
    PROVE  /\ inventory' \in [Products -> [stock : Int, reserved : Int]]
           /\ reservations' \in [Orders -> Nat]
<1>1. worker[w] \in Inventory!Activation
  BY ActiveType DEF InventoryInv, Inventory!Commit, Inventory!Reserving
<1>2. worker[w].taken \in [Products -> Int] /\ worker[w].order \in Orders
  BY <1>1 DEF Inventory!Activation
<1>3. \A p \in Products : /\ inventory[p].stock - worker[w].taken[p] \in Int
                          /\ inventory[p].reserved + worker[w].taken[p] \in Int
  BY <1>2 DEF InventoryInv, Inventory!TypeOK
<1>4. QED
  BY <1>2, <1>3 DEF Inventory!Commit, Inventory!Expose, InventoryInv,
                    Inventory!TypeOK

LEMMA StatementsType ==
    ASSUME InventoryInv, NEW w \in Workers, Statements(w)
    PROVE  InventoryInv'
<1> USE DEF InventoryInv, Inventory!TypeOK, Inventory!Fault
<1>1. worker[w] \in Inventory!Activation
  BY ActiveType DEF Statements, Inventory!SkipItem, Inventory!TakeItem,
     Inventory!InsufficientStock, Inventory!AbortBlocked, Inventory!StatementFails,
     Inventory!CommitReservation, Inventory!CommitUnconfirmed, Inventory!Commit,
     Inventory!Blocked, Inventory!ItemsLeft, Inventory!Reserving
<1>2. CASE Inventory!SkipItem(w)
  <2>1. worker[w].taken \in [Products -> Int]
    BY <1>1 DEF Inventory!Activation
  <2>2. QED
    BY <1>1, <1>2, <2>1, GoOnType DEF Inventory!SkipItem, DueIsBelowLimit
<1>3. CASE Inventory!TakeItem(w)
  <2>1. Inventory!Item(w).quantity \in Int
    BY <1>3, ItemType DEF Inventory!TakeItem
  <2>2. worker[w].taken \in [Products -> Int]
    BY <1>1 DEF Inventory!Activation
  <2>3. Inventory!Written(w) \in [Products -> Int]
    BY <1>3, <2>1, <2>2, AddToEntry, Zenon
    DEF Inventory!Written, Inventory!TakeItem, Inventory!Tracked
  <2>4. QED
    BY <1>1, <1>3, <2>3, GoOnType DEF Inventory!TakeItem, DueIsBelowLimit
<1>4. CASE Inventory!GiveUp(w) /\ UNCHANGED faults
  BY <1>1, <1>4, NakType DEF Inventory!GiveUp
<1>5. CASE Inventory!StatementFails(w)
  BY <1>1, <1>5, NakType DEF Inventory!StatementFails, Inventory!GiveUp
<1>6. CASE Inventory!CommitReservation(w)
  <2>1. [worker[w] EXCEPT !.at = "ack"] \in Inventory!Activation
    BY <1>1 DEF Inventory!Activation
  <2>2. QED
    BY <1>6, <2>1, CommitType DEF Inventory!CommitReservation, DueIsBelowLimit
<1>7. CASE Inventory!CommitUnconfirmed(w)
  BY <1>1, <1>7, CommitType, NakType DEF Inventory!CommitUnconfirmed
<1>8. QED
  BY <1>2, <1>3, <1>4, <1>5, <1>6, <1>7
  DEF Statements, Inventory!InsufficientStock, Inventory!AbortBlocked

LEMMA AfterwardsType ==
    ASSUME InventoryInv, NEW w \in Workers, Afterwards(w)
    PROVE  InventoryInv'
<1> USE DEF InventoryInv, Inventory!TypeOK, Inventory!Fault
<1>1. CASE Inventory!Ack(w) \/ Inventory!AckLost(w)
  <2>1. worker[w] \in Inventory!Activation
    BY <1>1, ActiveType DEF Inventory!Ack, Inventory!AckLost
  <2>2. /\ [worker[w] EXCEPT !.at = "check"] \in Inventory!Activation
        /\ worker[w].order \in Orders
    BY <2>1 DEF Inventory!Activation
  <2>3. CASE Inventory!Ack(w)
    BY <2>2, <2>3 DEF Inventory!Ack, DueIsBelowLimit
  <2>4. CASE Inventory!AckLost(w)
    BY <2>2, <2>4, GivenBack DEF Inventory!AckLost, DueIsBelowLimit
  <2>5. QED
    BY <1>1, <2>3, <2>4
<1>2. CASE Inventory!CheckLowStock(w) \/ Inventory!CheckFails(w)
  BY <1>2 DEF Inventory!CheckLowStock, Inventory!CheckFails, DueIsBelowLimit
<1>3. CASE Inventory!AckWaitExpires(w)
  <2>1. worker[w].order \in Orders
    BY <1>3, ActiveType DEF Inventory!AckWaitExpires, Inventory!Activation
  <2>2. QED
    BY <1>3, <2>1, GivenBack DEF Inventory!AckWaitExpires, DueIsBelowLimit
<1>4. CASE Inventory!Crash(w)
  <2>1. worker[w] # Inventory!Idle => worker[w].order \in Orders
    BY <1>4 DEF Inventory!Crash, Inventory!Activation
  <2>2. due' \subseteq Orders /\ \A o \in due' : deliveries[o] < MaxDeliver
    BY <1>4, <2>1, GivenBack DEF Inventory!Crash, DueIsBelowLimit
  <2>3. QED
    BY <1>4, <2>2 DEF Inventory!Crash, DueIsBelowLimit
<1>5. CASE Inventory!StartWorker(w)
  BY <1>5 DEF Inventory!StartWorker, DueIsBelowLimit
<1>6. QED
  BY <1>1, <1>2, <1>3, <1>4, <1>5 DEF Afterwards

\* A step of the composition is a step of the service, which may add to the
\* stream, or a step of one worker.
LEMMA StepCases ==
    ASSUME [Next]_vars
    PROVE  \/ Service!Next /\ UNCHANGED inventoryVars
           \/ /\ UNCHANGED serviceVars
              /\ \E w \in Workers :
                    \/ \E o \in Orders : Inventory!Deliver(w, o)
                    \/ Statements(w)
                    \/ Afterwards(w)
           \/ UNCHANGED vars
BY DEF Next, Inventory!Work, Inventory!Proceed, Statements, Afterwards

TypeInv == Service!TypeOK /\ InventoryInv

LEMMA TypeInit == Init => TypeInv
<1> SUFFICES ASSUME Init PROVE TypeInv
  OBVIOUS
<1>1. Service!TypeOK
  BY DEF Init, Service!Init, Service!TypeOK, Service!Requests
<1>2. InventoryInv
  BY StockAssumption, LimitsAssumption
  DEF Init, Inventory!Init, InventoryInv, DueIsBelowLimit, Inventory!TypeOK
<1>3. QED
  BY <1>1, <1>2 DEF TypeInv

LEMMA TypeStep == TypeInv /\ [Next]_vars => TypeInv'
<1> SUFFICES ASSUME TypeInv, [Next]_vars PROVE TypeInv'
  OBVIOUS
<1>1. CASE Service!Next /\ UNCHANGED inventoryVars
  <2>1. Service!TypeOK'
    BY <1>1, ServiceType DEF TypeInv
  <2>2. InventoryInv'
    BY <1>1, <2>1 DEF TypeInv, InventoryInv, DueIsBelowLimit, inventoryVars,
                      Inventory!TypeOK, Service!TypeOK
  <2>3. QED
    BY <2>1, <2>2 DEF TypeInv
<1>2. ASSUME UNCHANGED serviceVars, NEW w \in Workers,
             \/ \E o \in Orders : Inventory!Deliver(w, o)
             \/ Statements(w)
             \/ Afterwards(w)
      PROVE  TypeInv'
  <2>1. InventoryInv'
    BY <1>2, DeliverType, StatementsType, AfterwardsType DEF TypeInv
  <2>2. Service!TypeOK'
    BY <1>2, <2>1 DEF TypeInv, serviceVars, Service!TypeOK, InventoryInv,
                      Inventory!TypeOK
  <2>3. QED
    BY <2>1, <2>2 DEF TypeInv
<1>3. CASE UNCHANGED vars
  BY <1>3 DEF TypeInv, vars, serviceVars, inventoryVars, Service!TypeOK,
              InventoryInv, DueIsBelowLimit, Inventory!TypeOK
<1>4. QED
  BY <1>1, <1>2, <1>3, StepCases

\* Every variable of both services keeps its type, whatever the interleaving;
\* in particular no event is delivered more than MaxDeliver times, although a
\* lost acknowledgement, a crash and AckWait each put it back
\* (services/inventory-worker/main.go, the subscription).
THEOREM TypesHold == Spec => []TypeOK
<1>1. TypeInv => TypeOK
  BY DEF TypeInv, InventoryInv, TypeOK
<1>2. QED
  BY <1>1, TypeInit, TypeStep, PTL DEF Spec

-----------------------------------------------------------------------------
(* Stock.                                                                  *)

\* A transaction has locked every row it has written, and the committed stock
\* suffices for what it has written.
WritesAreCovered ==
    \A w \in Workers, p \in Products : Inventory!Reserving(w) =>
        /\ worker[w].taken[p] # 0 => Inventory!Holds(w, p)
        /\ worker[w].taken[p] <= inventory[p].stock

LocksAreExclusive ==
    \A v, w \in Workers, p \in Products :
        Inventory!Holds(v, p) /\ Inventory!Holds(w, p) => v = w

StockInv == StockAccounted /\ WritesAreCovered /\ LocksAreExclusive

\* What holds of another worker is not disturbed.
OthersStay(w) == \A v \in Workers \ {w} : worker'[v] = worker[v]

LEMMA OthersKeepLocks ==
    ASSUME NEW w \in Workers, OthersStay(w), NEW v \in Workers \ {w}
    PROVE  /\ Inventory!Reserving(v)' <=> Inventory!Reserving(v)
           /\ \A p : Inventory!Holds(v, p)' <=> Inventory!Holds(v, p)
BY DEF OthersStay, Inventory!Reserving, Inventory!Holds

\* Outside its transaction a worker holds nothing and has written nothing.
LEMMA OutsideTransaction ==
    ASSUME StockInv, NEW w \in Workers, OthersStay(w),
           UNCHANGED inventory, ~ Inventory!Reserving(w)'
    PROVE  StockInv'
<1>1. StockAccounted'
  BY DEF StockInv, StockAccounted, Inventory!StockAccounted
<1>2. WritesAreCovered'
  BY OthersKeepLocks DEF StockInv, WritesAreCovered, OthersStay
<1>3. LocksAreExclusive'
  <2>1. \A p : ~ Inventory!Holds(w, p)'
    BY DEF Inventory!Holds, Inventory!Reserving
  <2>2. QED
    BY <2>1, OthersKeepLocks DEF StockInv, LocksAreExclusive
<1>4. QED
  BY <1>1, <1>2, <1>3 DEF StockInv

\* A transaction that begins has written nothing and holds nothing.
LEMMA BeginTransaction ==
    ASSUME InventoryInv, StockInv, NEW w \in Workers, NEW o \in Orders,
           Inventory!Deliver(w, o)
    PROVE  StockInv'
<1>1. /\ OthersStay(w) /\ UNCHANGED inventory
      /\ worker'[w] = Inventory!Reservation(o, 1, Inventory!Nothing)
  BY DEF Inventory!Deliver, OthersStay, InventoryInv, Inventory!TypeOK
<1>2. StockAccounted'
  BY <1>1 DEF StockInv, StockAccounted, Inventory!StockAccounted
<1>3. \A p \in Products : /\ worker'[w].taken[p] = 0
                          /\ inventory'[p].stock >= 0
                          /\ ~ Inventory!Holds(w, p)'
  BY <1>1, <1>2 DEF Inventory!Reservation, Inventory!Nothing, Inventory!Holds,
                    StockAccounted, Inventory!StockAccounted
<1>4. WritesAreCovered'
  BY <1>1, <1>3, OthersKeepLocks DEF StockInv, WritesAreCovered, OthersStay
<1>5. LocksAreExclusive'
  BY <1>1, <1>3, OthersKeepLocks DEF StockInv, LocksAreExclusive
<1>6. QED
  BY <1>2, <1>4, <1>5 DEF StockInv

\* The statement about an item leaves its row locked, and the others as before.
LEMMA LocksGrow ==
    ASSUME InventoryInv, NEW w \in Workers, NEW taken,
           Inventory!ItemsLeft(w), Inventory!GoOn(w, taken)
    PROVE  /\ OthersStay(w)
           /\ Inventory!Reserving(w)'
           /\ worker'[w].taken = taken
           /\ \A p : Inventory!Holds(w, p)'
                        <=> Inventory!Holds(w, p) \/ Inventory!Item(w).product = p
<1>1. worker[w] \in Inventory!Activation
  BY ActiveType DEF InventoryInv, Inventory!ItemsLeft, Inventory!Reserving
<1>2. worker[w].next \in Nat \ {0}
  BY <1>1 DEF Inventory!Activation
<1>3. /\ OthersStay(w)
      /\ worker'[w] = Inventory!Reservation(worker[w].order, worker[w].next + 1, taken)
  BY DEF Inventory!GoOn, OthersStay, InventoryInv, Inventory!TypeOK
<1>4. /\ worker'[w].order = worker[w].order
      /\ worker'[w].next = worker[w].next + 1
      /\ worker'[w].taken = taken
      /\ worker'[w].at = "items"
  BY <1>3 DEF Inventory!Reservation
<1>5. \A k : k \in 1 .. worker'[w].next - 1
               <=> k \in 1 .. worker[w].next - 1 \/ k = worker[w].next
  BY <1>2, <1>4
<1>6. Inventory!Reserving(w) /\ Inventory!Reserving(w)'
  BY <1>4 DEF Inventory!ItemsLeft, Inventory!Reserving
<1>7. \A p : Inventory!Holds(w, p)'
                <=> Inventory!Holds(w, p) \/ Inventory!Item(w).product = p
  BY <1>4, <1>5, <1>6, Zenon DEF Inventory!Holds, Inventory!Item
<1>8. QED
  BY <1>3, <1>4, <1>6, <1>7

LEMMA SkipKeepsStock ==
    ASSUME InventoryInv, StockInv, NEW w \in Workers, Inventory!SkipItem(w)
    PROVE  StockInv'
<1>1. /\ Inventory!ItemsLeft(w) /\ Inventory!GoOn(w, worker[w].taken)
      /\ Inventory!Item(w).product \notin Products
      /\ UNCHANGED inventory
  BY DEF Inventory!SkipItem, Inventory!Tracked
<1>2. /\ OthersStay(w) /\ Inventory!Reserving(w)
      /\ worker'[w].taken = worker[w].taken
      /\ \A p \in Products : Inventory!Holds(w, p)' <=> Inventory!Holds(w, p)
  BY <1>1, LocksGrow DEF Inventory!ItemsLeft
<1>3. StockAccounted'
  BY <1>1 DEF StockInv, StockAccounted, Inventory!StockAccounted
<1>4. WritesAreCovered'
  BY <1>1, <1>2, OthersKeepLocks DEF StockInv, WritesAreCovered, OthersStay
<1>5. LocksAreExclusive'
  BY <1>2, OthersKeepLocks DEF StockInv, LocksAreExclusive
<1>6. QED
  BY <1>3, <1>4, <1>5 DEF StockInv

LEMMA TakeKeepsStock ==
    ASSUME InventoryInv, StockInv, NEW w \in Workers, Inventory!TakeItem(w)
    PROVE  StockInv'
<1> DEFINE item == Inventory!Item(w)
<1>1. /\ Inventory!ItemsLeft(w) /\ Inventory!GoOn(w, Inventory!Written(w))
      /\ item.product \in Products /\ item.quantity \in Int
      /\ ~ Inventory!Blocked(w)
      /\ Inventory!Left(w) >= item.quantity
      /\ UNCHANGED inventory
  BY ItemType DEF InventoryInv, Inventory!TakeItem, Inventory!Tracked
<1>2. /\ OthersStay(w) /\ Inventory!Reserving(w)
      /\ worker'[w].taken = Inventory!Written(w)
      /\ \A p : Inventory!Holds(w, p)'
                   <=> Inventory!Holds(w, p) \/ item.product = p
  BY <1>1, LocksGrow DEF Inventory!ItemsLeft
<1>3. \A v \in Workers \ {w} : ~ Inventory!Holds(v, item.product)
  BY <1>1 DEF Inventory!Blocked, Inventory!Tracked
<1>4. worker[w].taken \in [Products -> Int]
  BY <1>2, ActiveType DEF InventoryInv, Inventory!Reserving, Inventory!Activation
<1>5. /\ worker'[w].taken[item.product] = worker[w].taken[item.product] + item.quantity
      /\ \A p \in Products \ {item.product} : worker'[w].taken[p] = worker[w].taken[p]
  BY <1>1, <1>2, <1>4 DEF Inventory!Written
<1>6. worker'[w].taken[item.product] <= inventory'[item.product].stock
  <2>1. worker[w].taken[item.product] \in Int /\ inventory[item.product].stock \in Int
    BY <1>1, <1>4 DEF InventoryInv, Inventory!TypeOK
  <2>2. QED
    BY <1>1, <1>5, <2>1 DEF Inventory!Left
<1>7. StockAccounted'
  BY <1>1 DEF StockInv, StockAccounted, Inventory!StockAccounted
<1>8. WritesAreCovered'
  <2>1. \A p \in Products :
           /\ worker'[w].taken[p] # 0 => Inventory!Holds(w, p)'
           /\ worker'[w].taken[p] <= inventory'[p].stock
    BY <1>1, <1>2, <1>5, <1>6 DEF StockInv, WritesAreCovered
  <2>2. QED
    BY <1>1, <1>2, <2>1, OthersKeepLocks DEF StockInv, WritesAreCovered, OthersStay
<1>9. LocksAreExclusive'
  BY <1>2, <1>3, OthersKeepLocks DEF StockInv, LocksAreExclusive
<1>10. QED
  BY <1>7, <1>8, <1>9 DEF StockInv

\* Other transactions have written nothing where this one has, so the stock
\* that is left suffices for theirs.
LEMMA CommitKeepsStock ==
    ASSUME InventoryInv, StockInv, NEW w \in Workers, Inventory!Commit(w),
           OthersStay(w), ~ Inventory!Reserving(w)'
    PROVE  StockInv'
<1> DEFINE taken == worker[w].taken
<1>1. Inventory!Reserving(w) /\ taken \in [Products -> Int]
  BY ActiveType DEF Inventory!Commit, InventoryInv, Inventory!Reserving,
                    Inventory!Activation
<1>2. \A p \in Products :
         /\ inventory'[p].stock = inventory[p].stock - taken[p]
         /\ inventory'[p].reserved = inventory[p].reserved + taken[p]
  BY DEF Inventory!Commit, Inventory!Expose
<1>3. \A p \in Products :
         /\ inventory[p].stock \in Int /\ inventory[p].reserved \in Int
         /\ taken[p] \in Int /\ Stock[p] \in Nat
  BY <1>1, StockAssumption DEF InventoryInv, Inventory!TypeOK
<1>4. StockAccounted'
  BY <1>1, <1>2, <1>3 DEF StockInv, StockAccounted, Inventory!StockAccounted,
                          WritesAreCovered
<1>5. WritesAreCovered'
  <2> SUFFICES ASSUME NEW v \in Workers, NEW p \in Products,
                      Inventory!Reserving(v)'
               PROVE  /\ worker'[v].taken[p] # 0 => Inventory!Holds(v, p)'
                      /\ worker'[v].taken[p] <= inventory'[p].stock
    BY DEF WritesAreCovered
  <2>1. v \in Workers \ {w} /\ worker'[v] = worker[v] /\ Inventory!Reserving(v)
    BY OthersKeepLocks DEF OthersStay
  <2>2. worker'[v].taken[p] # 0 => Inventory!Holds(v, p)'
    BY <2>1, OthersKeepLocks DEF StockInv, WritesAreCovered
  <2>3. CASE worker[v].taken[p] = 0
    BY <1>4, <2>1, <2>3, <2>2 DEF StockAccounted, Inventory!StockAccounted
  <2>4. CASE worker[v].taken[p] # 0
    <3>1. taken[p] = 0
      BY <1>1, <2>1, <2>4 DEF StockInv, WritesAreCovered, LocksAreExclusive
    <3>2. QED
      BY <1>2, <1>3, <2>1, <2>2, <3>1 DEF StockInv, WritesAreCovered
  <2>5. QED
    BY <2>3, <2>4
<1>6. LocksAreExclusive'
  <2>1. \A p : ~ Inventory!Holds(w, p)'
    BY DEF Inventory!Holds
  <2>2. QED
    BY <2>1, OthersKeepLocks DEF StockInv, LocksAreExclusive
<1>7. QED
  BY <1>4, <1>5, <1>6 DEF StockInv

LEMMA StatementsKeepStock ==
    ASSUME InventoryInv, StockInv, NEW w \in Workers, Statements(w)
    PROVE  StockInv'
<1> USE DEF InventoryInv, Inventory!TypeOK, OthersStay, Inventory!Reserving
<1>1. CASE Inventory!SkipItem(w)
  BY <1>1, SkipKeepsStock
<1>2. CASE Inventory!TakeItem(w)
  BY <1>2, TakeKeepsStock
<1>3. CASE Inventory!GiveUp(w)
  <2>1. OthersStay(w) /\ ~ Inventory!Reserving(w)' /\ UNCHANGED inventory
    BY <1>3 DEF Inventory!GiveUp, Inventory!Nak, Inventory!Idle
  <2>2. QED
    BY <2>1, OutsideTransaction
<1>4. CASE Inventory!CommitReservation(w)
  <2>1. worker[w] \in Inventory!Activation
    BY <1>4, ActiveType DEF Inventory!CommitReservation, Inventory!Commit
  <2>2. OthersStay(w) /\ ~ Inventory!Reserving(w)'
    BY <1>4, <2>1 DEF Inventory!CommitReservation, Inventory!Activation
  <2>3. QED
    BY <1>4, <2>2, CommitKeepsStock DEF Inventory!CommitReservation
<1>5. CASE Inventory!CommitUnconfirmed(w)
  <2>1. OthersStay(w) /\ ~ Inventory!Reserving(w)'
    BY <1>5 DEF Inventory!CommitUnconfirmed, Inventory!Nak, Inventory!Idle
  <2>2. QED
    BY <1>5, <2>1, CommitKeepsStock DEF Inventory!CommitUnconfirmed
<1>6. QED
  BY <1>1, <1>2, <1>3, <1>4, <1>5 DEF Statements, Inventory!InsufficientStock,
     Inventory!AbortBlocked, Inventory!StatementFails

\* Nothing that depends on the rows and the workers alone is disturbed by a
\* step that leaves them.
LEMMA StockStays ==
    ASSUME StockInv, UNCHANGED <<inventory, worker>>
    PROVE  StockInv'
BY DEF StockInv, StockAccounted, Inventory!StockAccounted, WritesAreCovered,
       LocksAreExclusive, Inventory!Reserving, Inventory!Holds

LEMMA AfterwardsKeepStock ==
    ASSUME InventoryInv, StockInv, NEW w \in Workers, Afterwards(w)
    PROVE  StockInv'
<1> USE DEF InventoryInv, Inventory!TypeOK, OthersStay, Inventory!Reserving
<1>1. CASE Inventory!AckWaitExpires(w)
  BY <1>1, StockStays DEF Inventory!AckWaitExpires
<1>2. CASE ~ Inventory!AckWaitExpires(w)
  <2>1. CASE Inventory!Ack(w) \/ Inventory!AckLost(w)
    <3>1. worker[w] \in Inventory!Activation
      BY <2>1, ActiveType DEF Inventory!Ack, Inventory!AckLost
    <3>2. OthersStay(w) /\ ~ Inventory!Reserving(w)' /\ UNCHANGED inventory
      BY <2>1, <3>1 DEF Inventory!Ack, Inventory!AckLost, Inventory!Activation
    <3>3. QED
      BY <3>2, OutsideTransaction
  <2>2. CASE ~ (Inventory!Ack(w) \/ Inventory!AckLost(w))
    <3>1. OthersStay(w) /\ ~ Inventory!Reserving(w)' /\ UNCHANGED inventory
      BY <1>2, <2>2 DEF Afterwards, Inventory!CheckLowStock, Inventory!CheckFails,
         Inventory!Crash, Inventory!StartWorker, Inventory!Idle, Inventory!Down
    <3>2. QED
      BY <3>1, OutsideTransaction
  <2>3. QED
    BY <2>1, <2>2
<1>3. QED
  BY <1>1, <1>2

LEMMA StockInit == Init => StockInv
BY StockAssumption DEF Init, Inventory!Init, StockInv, StockAccounted,
   Inventory!StockAccounted, WritesAreCovered, LocksAreExclusive,
   Inventory!Reserving, Inventory!Holds, Inventory!Idle

LEMMA StockStep == TypeInv /\ StockInv /\ [Next]_vars => StockInv'
<1> SUFFICES ASSUME TypeInv, StockInv, [Next]_vars PROVE StockInv'
  OBVIOUS
<1>1. ASSUME NEW w \in Workers,
             \/ \E o \in Orders : Inventory!Deliver(w, o)
             \/ Statements(w)
             \/ Afterwards(w)
      PROVE  StockInv'
  BY <1>1, BeginTransaction, StatementsKeepStock, AfterwardsKeepStock DEF TypeInv
<1>2. CASE UNCHANGED <<inventory, worker>>
  BY <1>2, StockStays
<1>3. QED
  BY <1>1, <1>2, StepCases DEF vars, inventoryVars

\* No product is oversold and none is lost: what is left and what is reserved
\* always add up to the initial stock, and neither concurrent transactions of
\* several workers nor rollbacks, crashes and repeated deliveries bring it
\* below zero (services/inventory-worker/main.go, reserveStock).
THEOREM StockIsAccounted == Spec => []StockAccounted
<1>1. Init => TypeInv /\ StockInv
  BY TypeInit, StockInit
<1>2. TypeInv /\ StockInv /\ [Next]_vars => (TypeInv /\ StockInv)'
  BY TypeStep, StockStep
<1>3. TypeInv /\ StockInv => StockAccounted
  BY DEF StockInv
<1>4. QED
  BY <1>1, <1>2, <1>3, PTL DEF Spec

-----------------------------------------------------------------------------
(* Which orders are reserved.                                              *)

Handling(w) == worker[w].at \in {"items", "ack", "check"}

\* An event names an order on record from before it is published until after
\* it has been handled.
RecordInv ==
    /\ \A o \in stream : Service!Exists(o)
    /\ \A c \in Clients : request[c].at \in {"publish", "update"}
                             => Service!Exists(request[c].order)
    /\ due \subseteq stream
    /\ \A w \in Workers : Handling(w) => worker[w].order \in stream
    /\ \A o \in Orders : reservations[o] > 0 => o \in stream

LEMMA RecordInit == Init => RecordInv
BY DEF Init, Service!Init, Inventory!Init, RecordInv, Handling, Service!Idle,
       Inventory!Idle

\* A step of the service keeps what is on record there, and adds to the
\* stream and to the requests only what is.
RecordKept ==
    /\ \A o \in Orders : Service!Exists(o) => Service!Exists(o)'
    /\ \A o \in stream' : o \in stream \/ (o \in Orders /\ Service!Exists(o))
    /\ stream \subseteq stream'
    /\ \A c \in Clients : request'[c].at \in {"publish", "update"}
                             => Service!Exists(request[c].order)'

\* A request is about an order.
LEMMA RequestedOrder ==
    ASSUME Service!TypeOK, NEW c \in Clients, request[c].at \in {"publish", "update"}
    PROVE  /\ request[c].order \in Orders
           /\ request[c].at = "update" => request[c].status \in Service!Statuses
BY DEF Service!TypeOK, Service!Requests, Service!Idle, Service!Creation,
       Service!Update

\* Writing a status leaves the order on record.
LEMMA StoreKeeps ==
    ASSUME Service!TypeOK, NEW o \in Orders, NEW status \in Service!Statuses,
           Service!Store(o, status)
    PROVE  /\ Service!Exists(o)'
           /\ \A other \in Orders : Service!Exists(other) => Service!Exists(other)'
BY DEF Service!TypeOK, Service!Store, Service!Exists, Service!Statuses,
       Service!NoOrder

LEMMA ServiceKeepsRecord ==
    ASSUME TypeInv, RecordInv, Service!Next, UNCHANGED inventoryVars
    PROVE  RecordInv'
<1> USE DEF RecordKept, Service!Exists, Service!Idle
<1>0. /\ Service!TypeOK
      /\ \A c \in Clients : request[c].at \in {"publish", "update"}
            => request[c].order \in Orders /\ Service!Exists(request[c].order)
      /\ request \in [Clients -> Service!Requests]
  BY RequestedOrder DEF TypeInv, RecordInv, Service!TypeOK
<1>1. PICK c \in Clients :
        \/ \E o \in Orders : Service!CreateOrder(c, o)
        \/ Service!PublishOrderCreated(c)
        \/ \E o \in Orders, status \in Service!Statuses :
              Service!FetchOrder(c, o, status)
        \/ Service!UpdateOrderStatus(c)
        \/ Service!RequestFails(c)
  BY DEF Service!Next
<1>2. ASSUME NEW o \in Orders, Service!CreateOrder(c, o) PROVE RecordKept
  <2>1. /\ Service!Exists(o)'
        /\ \A other \in Orders : Service!Exists(other) => Service!Exists(other)'
    BY <1>0, <1>2, StoreKeeps DEF Service!CreateOrder, Service!Statuses
  <2>2. \A d \in Clients : request'[d] = IF d = c THEN Service!Creation(o) ELSE request[d]
    BY <1>0, <1>2 DEF Service!CreateOrder, Service!Begin
  <2>3. QED
    BY <1>0, <1>2, <2>1, <2>2 DEF Service!CreateOrder, Service!Creation
<1>3. ASSUME NEW o \in Orders, NEW status \in Service!Statuses,
             Service!FetchOrder(c, o, status)
      PROVE  RecordKept
  <2>1. \A d \in Clients :
           request'[d] = IF d = c THEN Service!Update(o, status) ELSE request[d]
    BY <1>0, <1>3 DEF Service!FetchOrder, Service!Begin
  <2>2. QED
    BY <1>0, <1>3, <2>1 DEF Service!FetchOrder, Service!Update, Service!Exists
<1>4. ASSUME Service!PublishOrderCreated(c) \/ Service!RequestFails(c)
      PROVE  RecordKept
  <2>1. \A d \in Clients : request'[d] = IF d = c THEN Service!Idle ELSE request[d]
    BY <1>0, <1>4 DEF Service!PublishOrderCreated, Service!RequestFails, Service!Finish
  <2>2. UNCHANGED orders /\ stream' \in {stream, stream \union {request[c].order}}
    BY <1>4 DEF Service!PublishOrderCreated, Service!RequestFails
  <2>3. stream' # stream => request[c].order \in Orders /\ Service!Exists(request[c].order)
    BY <1>0, <1>4 DEF Service!PublishOrderCreated, Service!RequestFails
  <2>4. QED
    BY <1>0, <2>1, <2>2, <2>3 DEF Service!Exists
<1>5. ASSUME Service!UpdateOrderStatus(c) PROVE RecordKept
  <2>1. \A other \in Orders : Service!Exists(other) => Service!Exists(other)'
    BY <1>0, <1>5, RequestedOrder, StoreKeeps DEF Service!UpdateOrderStatus
  <2>2. \A d \in Clients : request'[d] = IF d = c THEN Service!Idle ELSE request[d]
    BY <1>0, <1>5 DEF Service!UpdateOrderStatus, Service!Finish
  <2>3. QED
    BY <1>0, <1>5, <2>1, <2>2 DEF Service!UpdateOrderStatus
<1>6. RecordKept
  BY <1>1, <1>2, <1>3, <1>4, <1>5
<1>7. stream \subseteq Orders
  BY <1>0 DEF Service!TypeOK
<1>8. QED
  BY <1>6, <1>7 DEF RecordInv, inventoryVars, Handling

\* What a worker requeues was in the stream.
LEMMA RequeuedInStream ==
    ASSUME RecordInv, NEW w \in Workers, Handling(w)
    PROVE  Inventory!Requeued(worker[w].order) \subseteq stream
BY DEF RecordInv, Inventory!Requeued

LEMMA WorkerKeepsRecord ==
    ASSUME TypeInv, RecordInv, UNCHANGED serviceVars, NEW w \in Workers,
           \/ \E o \in Orders : Inventory!Deliver(w, o)
           \/ Statements(w)
           \/ Afterwards(w)
    PROVE  RecordInv'
<1> USE DEF Handling, Inventory!Idle, Inventory!Down
<1>1. UNCHANGED <<orders, request>>
  BY DEF serviceVars
<1>2. /\ worker \in [Workers -> {Inventory!Idle, Inventory!Down}
                                  \union Inventory!Activation]
      /\ reservations \in [Orders -> Nat]
  BY DEF TypeInv, InventoryInv, Inventory!TypeOK
<1>3. /\ UNCHANGED stream
      /\ due' \subseteq stream
      /\ \A v \in Workers : Handling(v)' => worker'[v].order \in stream
      /\ \A o \in Orders : reservations'[o] > 0 => o \in stream
  <2> USE DEF RecordInv
  <2>1. CASE \E o \in Orders : Inventory!Deliver(w, o)
    BY <1>2, <2>1 DEF Inventory!Deliver, Inventory!Reservation
  <2>2. CASE Statements(w)
    <3>1. worker[w] \in Inventory!Activation /\ Handling(w)
      BY <2>2, ActiveType DEF TypeInv, InventoryInv, Statements,
         Inventory!SkipItem, Inventory!TakeItem, Inventory!InsufficientStock,
         Inventory!AbortBlocked, Inventory!StatementFails,
         Inventory!CommitReservation, Inventory!CommitUnconfirmed,
         Inventory!Commit, Inventory!Blocked, Inventory!ItemsLeft,
         Inventory!Reserving
    <3>2. worker[w].order \in stream /\ worker[w].order \in Orders
      BY <3>1 DEF Inventory!Activation
    <3>3. CASE Inventory!SkipItem(w) \/ Inventory!TakeItem(w)
      BY <1>2, <3>2, <3>3 DEF Inventory!SkipItem, Inventory!TakeItem,
         Inventory!GoOn, Inventory!Reservation
    <3>4. CASE Inventory!GiveUp(w)
      BY <1>2, <3>1, <3>4, RequeuedInStream DEF Inventory!GiveUp, Inventory!Nak
    <3>5. CASE Inventory!CommitReservation(w)
      <4>1. worker'[w].order \in stream
        BY <1>2, <3>1, <3>2, <3>5 DEF Inventory!CommitReservation, Inventory!Activation
      <4>2. QED
        BY <1>2, <3>2, <3>5, <4>1 DEF Inventory!CommitReservation, Inventory!Commit
    <3>6. CASE Inventory!CommitUnconfirmed(w)
      BY <1>2, <3>1, <3>2, <3>6, RequeuedInStream
      DEF Inventory!CommitUnconfirmed, Inventory!Commit, Inventory!Nak
    <3>7. QED
      BY <2>2, <3>3, <3>4, <3>5, <3>6 DEF Statements, Inventory!InsufficientStock,
         Inventory!AbortBlocked, Inventory!StatementFails
  <2>3. CASE Afterwards(w)
    <3>1. CASE Inventory!Ack(w) \/ Inventory!AckLost(w)
      <4>1. worker[w] \in Inventory!Activation /\ Handling(w)
        BY <3>1, ActiveType DEF TypeInv, InventoryInv, Inventory!Ack, Inventory!AckLost
      <4>2. worker'[w].order \in stream
        BY <1>2, <3>1, <4>1 DEF Inventory!Ack, Inventory!AckLost, Inventory!Activation
      <4>3. QED
        BY <1>2, <3>1, <4>1, <4>2, RequeuedInStream
        DEF Inventory!Ack, Inventory!AckLost
    <3>2. CASE Inventory!CheckLowStock(w) \/ Inventory!CheckFails(w)
      BY <1>2, <3>2 DEF Inventory!CheckLowStock, Inventory!CheckFails
    <3>3. CASE Inventory!AckWaitExpires(w)
      BY <1>2, <3>3, RequeuedInStream DEF Inventory!AckWaitExpires
    <3>4. CASE Inventory!Crash(w)
      <4>1. worker[w] # Inventory!Idle => Handling(w)
        BY <1>2, <3>4 DEF Inventory!Crash, Inventory!Activation
      <4>2. due' \subseteq stream
        BY <3>4, <4>1, RequeuedInStream DEF Inventory!Crash
      <4>3. QED
        BY <1>2, <3>4, <4>2 DEF Inventory!Crash
    <3>5. CASE Inventory!StartWorker(w)
      BY <1>2, <3>5 DEF Inventory!StartWorker
    <3>6. QED
      BY <2>3, <3>1, <3>2, <3>3, <3>4, <3>5 DEF Afterwards
  <2>4. QED
    BY <2>1, <2>2, <2>3
<1>4. QED
  BY <1>1, <1>3 DEF RecordInv, Service!Exists

LEMMA RecordStep == TypeInv /\ RecordInv /\ [Next]_vars => RecordInv'
<1> SUFFICES ASSUME TypeInv, RecordInv, [Next]_vars PROVE RecordInv'
  OBVIOUS
<1>1. CASE UNCHANGED vars
  BY <1>1 DEF RecordInv, Handling, Service!Exists, vars, serviceVars, inventoryVars
<1>2. QED
  BY <1>1, StepCases, ServiceKeepsRecord, WorkerKeepsRecord

\* Stock is set aside only for orders that are on record, whatever becomes of
\* the request that created them and however often their event is delivered
\* (services/order-service/main.go, createOrder: the INSERT comes first).
THEOREM ReservedOrdersAreOnRecord == Spec => []ReservedOrdersExist
<1>1. Init => TypeInv /\ RecordInv
  BY TypeInit, RecordInit
<1>2. TypeInv /\ RecordInv /\ [Next]_vars => (TypeInv /\ RecordInv)'
  BY TypeStep, RecordStep
<1>3. TypeInv /\ RecordInv => ReservedOrdersExist
  BY DEF RecordInv, ReservedOrdersExist
<1>4. QED
  BY <1>1, <1>2, <1>3, PTL DEF Spec

-----------------------------------------------------------------------------
(* How often an order is reserved.                                         *)

\* The workers in the transaction for o.
Handlers(o) == {w \in Workers : Inventory!Reserving(w) /\ worker[w].order = o}

Count(condition) == IF condition THEN 1 ELSE 0

\* What may still become a reservation of o: a first delivery, the one that is
\* due, and the transactions under way.
Chances(o) ==
    Count(deliveries[o] = 0) + Count(o \in due) + Cardinality(Handlers(o))

\* Only a fault makes a new chance.
ChancesInv == \A o \in Orders : reservations[o] + Chances(o) <= 1 + faults

LEMMA ChancesInit == Init => ChancesInv
<1> SUFFICES ASSUME Init, NEW o \in Orders
             PROVE  reservations[o] + Chances(o) <= 1 + faults
  BY DEF ChancesInv
<1>1. Handlers(o) = {}
  BY DEF Init, Inventory!Init, Handlers, Inventory!Reserving, Inventory!Idle
<1>2. Cardinality(Handlers(o)) = 0
  BY <1>1, FS_EmptySet
<1>3. QED
  BY <1>2 DEF Init, Inventory!Init, Chances, Count

\* A step of w changes the number of transactions for o by its own.
LEMMA CountHandlers ==
    ASSUME NEW w \in Workers, OthersStay(w), NEW o
    PROVE  \E n \in Nat :
             /\ Cardinality(Handlers(o)) = n + Count(w \in Handlers(o))
             /\ Cardinality(Handlers(o)') = n + Count(w \in Handlers(o)')
<1> DEFINE Rest == Handlers(o) \ {w}
<1>1. IsFiniteSet(Handlers(o)) /\ IsFiniteSet(Handlers(o)')
  <2>1. Handlers(o) \subseteq Workers /\ Handlers(o)' \subseteq Workers
    BY DEF Handlers
  <2>2. QED
    BY <2>1, WorkersAssumption, FS_Subset
<1>2. Handlers(o)' \ {w} = Rest
  BY OthersKeepLocks DEF Handlers, OthersStay
<1>3. IsFiniteSet(Rest) /\ Cardinality(Rest) \in Nat
  BY <1>1, FS_RemoveElement, FS_CardinalityType
<1>4. \A S : S \in {Handlers(o), Handlers(o)'}
                => Cardinality(S) = Cardinality(Rest) + Count(w \in S)
  <2> SUFFICES ASSUME NEW S, S \in {Handlers(o), Handlers(o)'}
               PROVE  Cardinality(S) = Cardinality(Rest) + Count(w \in S)
    OBVIOUS
  <2>1. IsFiniteSet(S) /\ S \ {w} = Rest
    BY <1>1, <1>2
  <2>2. Cardinality(S) \in Nat
    BY <2>1, FS_CardinalityType
  <2>3. Cardinality(Rest) = IF w \in S THEN Cardinality(S) - 1 ELSE Cardinality(S)
    BY <2>1, FS_RemoveElement
  <2>4. QED
    BY <2>2, <2>3 DEF Count
<1>5. QED
  BY <1>3, <1>4

\* What a step of w has to respect for the chances of one order not to grow
\* beyond the faults.
Respects(w, o) ==
    reservations'[o] + Count(deliveries'[o] = 0) + Count(o \in due')
        + Count(w \in Handlers(o)')
    <= reservations[o] + Count(deliveries[o] = 0) + Count(o \in due)
        + Count(w \in Handlers(o)) + faults' - faults

LEMMA RespectSuffices ==
    ASSUME InventoryInv, InventoryInv', ChancesInv,
           NEW w \in Workers, OthersStay(w), NEW o \in Orders, Respects(w, o)
    PROVE  reservations'[o] + Chances(o)' <= 1 + faults'
<1>1. PICK n \in Nat :
        /\ Cardinality(Handlers(o)) = n + Count(w \in Handlers(o))
        /\ Cardinality(Handlers(o)') = n + Count(w \in Handlers(o)')
  BY CountHandlers
<1>2. /\ reservations[o] \in Nat /\ reservations'[o] \in Nat
      /\ faults \in Nat /\ faults' \in Nat
  BY DEF InventoryInv, Inventory!TypeOK
<1>3. reservations[o] + Chances(o) <= 1 + faults
  BY DEF ChancesInv
<1>4. \A condition : Count(condition) \in {0, 1}
  BY DEF Count
<1>5. QED
  BY <1>1, <1>2, <1>3, <1>4 DEF Chances, Respects

\* Only the order that w handles can be due again.
LEMMA RequeuedOne ==
    ASSUME NEW e, NEW o, o # e
    PROVE  o \in Inventory!Requeued(e) <=> o \in due
BY DEF Inventory!Requeued

LEMMA DeliverRespects ==
    ASSUME InventoryInv, NEW w \in Workers, NEW e \in Orders,
           Inventory!Deliver(w, e), NEW o \in Orders
    PROVE  OthersStay(w) /\ Respects(w, o)
<1> USE DEF InventoryInv, Inventory!TypeOK
<1>1. /\ OthersStay(w) /\ worker'[w].order = e
      /\ Inventory!Reserving(w)' /\ ~ Inventory!Reserving(w)
  BY DEF Inventory!Deliver, OthersStay, Inventory!Reserving,
         Inventory!Reservation, Inventory!Idle
<1>2. w \notin Handlers(o) /\ (w \in Handlers(o)' <=> o = e)
  BY <1>1 DEF Handlers
<1>3. UNCHANGED <<reservations, faults>>
  BY DEF Inventory!Deliver
<1>4. CASE o = e
  <2>1. deliveries[o] = 0 \/ o \in due
    BY <1>4 DEF Inventory!Deliver
  <2>2. deliveries'[o] # 0 /\ o \notin due'
    BY <1>4 DEF Inventory!Deliver
  <2>3. QED
    BY <1>1, <1>2, <1>3, <1>4, <2>1, <2>2 DEF Respects, Count
<1>5. CASE o # e
  <2>1. deliveries'[o] = deliveries[o] /\ (o \in due' <=> o \in due)
    BY <1>5 DEF Inventory!Deliver
  <2>2. QED
    BY <1>1, <1>2, <1>3, <1>5, <2>1 DEF Respects, Count
<1>6. QED
  BY <1>4, <1>5

LEMMA StatementsRespect ==
    ASSUME InventoryInv, NEW w \in Workers, Statements(w), NEW o \in Orders
    PROVE  OthersStay(w) /\ Respects(w, o)
<1> USE DEF InventoryInv, Inventory!TypeOK, OthersStay, Inventory!Fault
<1>1. Inventory!Reserving(w) /\ UNCHANGED deliveries
  BY DEF Statements, Inventory!SkipItem, Inventory!TakeItem,
     Inventory!InsufficientStock, Inventory!AbortBlocked, Inventory!StatementFails,
     Inventory!CommitReservation, Inventory!CommitUnconfirmed, Inventory!Commit,
     Inventory!Blocked, Inventory!ItemsLeft, Inventory!GiveUp
<1>2. worker[w] \in Inventory!Activation
  BY <1>1, ActiveType DEF Inventory!Reserving
<1>3. CASE Inventory!SkipItem(w) \/ Inventory!TakeItem(w)
  <2>1. OthersStay(w) /\ UNCHANGED <<reservations, faults, due>>
    BY <1>3 DEF Inventory!SkipItem, Inventory!TakeItem, Inventory!GoOn
  <2>2. Inventory!Reserving(w)' /\ worker'[w].order = worker[w].order
    BY <1>3 DEF Inventory!SkipItem, Inventory!TakeItem, Inventory!GoOn,
                Inventory!Reservation, Inventory!Reserving
  <2>3. w \in Handlers(o)' <=> w \in Handlers(o)
    BY <1>1, <2>2 DEF Handlers
  <2>4. QED
    BY <1>1, <2>1, <2>3 DEF Respects, Count
<1>4. ASSUME OthersStay(w), ~ Inventory!Reserving(w)',
             o # worker[w].order => (o \in due' <=> o \in due),
             faults' \in {faults, faults + 1},
             \/ UNCHANGED reservations
             \/ /\ reservations' = [reservations EXCEPT ![worker[w].order] = @ + 1]
                /\ o \in due' => o \in due \/ faults' = faults + 1
      PROVE  Respects(w, o)
  <2>1. w \notin Handlers(o)' /\ (w \in Handlers(o) <=> o = worker[w].order)
    BY <1>1, <1>4 DEF Handlers
  <2>2. QED
    BY <1>1, <1>2, <1>4, <2>1 DEF Respects, Count
<1>5. CASE Inventory!GiveUp(w) /\ faults' \in {faults, faults + 1}
  BY <1>4, <1>5, RequeuedOne
  DEF Inventory!GiveUp, Inventory!Nak, Inventory!Reserving, Inventory!Idle
<1>6. CASE Inventory!CommitReservation(w)
  <2>1. OthersStay(w) /\ ~ Inventory!Reserving(w)'
    BY <1>2, <1>6 DEF Inventory!CommitReservation, Inventory!Reserving,
                      Inventory!Activation
  <2>2. QED
    BY <1>4, <1>6, <2>1 DEF Inventory!CommitReservation, Inventory!Commit
<1>7. CASE Inventory!CommitUnconfirmed(w)
  BY <1>4, <1>7, RequeuedOne DEF Inventory!CommitUnconfirmed, Inventory!Commit,
     Inventory!Nak, Inventory!Reserving, Inventory!Idle
<1>8. QED
  BY <1>3, <1>5, <1>6, <1>7 DEF Statements, Inventory!InsufficientStock,
     Inventory!AbortBlocked, Inventory!StatementFails

LEMMA AfterwardsRespect ==
    ASSUME InventoryInv, NEW w \in Workers, Afterwards(w), NEW o \in Orders
    PROVE  OthersStay(w) /\ Respects(w, o)
<1> USE DEF InventoryInv, Inventory!TypeOK, OthersStay, Inventory!Fault,
            Inventory!Reserving
<1>1. UNCHANGED <<deliveries, reservations>>
  BY DEF Afterwards, Inventory!Ack, Inventory!AckLost, Inventory!CheckLowStock,
     Inventory!CheckFails, Inventory!AckWaitExpires, Inventory!Crash,
     Inventory!StartWorker
<1>2. /\ OthersStay(w)
      /\ w \in Handlers(o)' => w \in Handlers(o)
  <2>1. CASE Inventory!Ack(w) \/ Inventory!AckLost(w)
    <3>1. worker[w] \in Inventory!Activation
      BY <2>1, ActiveType DEF Inventory!Ack, Inventory!AckLost
    <3>2. QED
      BY <2>1, <3>1 DEF Inventory!Ack, Inventory!AckLost, Inventory!Activation,
                        Handlers
  <2>2. CASE Inventory!AckWaitExpires(w)
    BY <2>2 DEF Inventory!AckWaitExpires, Handlers
  <2>3. CASE ~ (Inventory!Ack(w) \/ Inventory!AckLost(w)) /\ ~ Inventory!AckWaitExpires(w)
    BY <2>3 DEF Afterwards, Inventory!CheckLowStock, Inventory!CheckFails,
       Inventory!Crash, Inventory!StartWorker, Inventory!Idle, Inventory!Down, Handlers
  <2>4. QED
    BY <2>1, <2>2, <2>3
<1>3. /\ faults' \in {faults, faults + 1}
      /\ o \in due' => o \in due \/ faults' = faults + 1
  BY DEF Afterwards, Inventory!Ack, Inventory!AckLost, Inventory!CheckLowStock,
     Inventory!CheckFails, Inventory!AckWaitExpires, Inventory!Crash,
     Inventory!StartWorker
<1>4. QED
  BY <1>1, <1>2, <1>3 DEF Respects, Count

LEMMA ChancesStep == TypeInv /\ ChancesInv /\ [Next]_vars => ChancesInv'
<1> SUFFICES ASSUME TypeInv, ChancesInv, [Next]_vars, NEW o \in Orders
             PROVE  reservations'[o] + Chances(o)' <= 1 + faults'
  BY DEF ChancesInv
<1>1. InventoryInv /\ InventoryInv'
  BY TypeStep DEF TypeInv
<1>2. ASSUME NEW w \in Workers,
             \/ \E e \in Orders : Inventory!Deliver(w, e)
             \/ Statements(w)
             \/ Afterwards(w)
      PROVE  reservations'[o] + Chances(o)' <= 1 + faults'
  <2>1. OthersStay(w) /\ Respects(w, o)
    BY <1>1, <1>2, DeliverRespects, StatementsRespect, AfterwardsRespect
  <2>2. QED
    BY <1>1, <2>1, RespectSuffices
<1>3. CASE UNCHANGED inventoryVars
  BY <1>3 DEF ChancesInv, Chances, Handlers, Inventory!Reserving, inventoryVars
<1>4. QED
  BY <1>2, <1>3, StepCases DEF vars

\* An order is reserved once, and once more for each fault at most: a lost
\* acknowledgement, an unconfirmed commit, an expired AckWait or a crash
\* repeats a reservation, and nothing else does, however workers abort each
\* other and give events back (services/inventory-worker/main.go, the
\* subscription: the commit comes before msg.Ack()).
THEOREM ReservedOncePerFault == Spec => []RepeatedOnlyAfterFault
<1>1. Init => TypeInv /\ ChancesInv
  BY TypeInit, ChancesInit
<1>2. TypeInv /\ ChancesInv /\ [Next]_vars => (TypeInv /\ ChancesInv)'
  BY TypeStep, ChancesStep
<1>3. TypeInv /\ ChancesInv => RepeatedOnlyAfterFault
  <2> SUFFICES ASSUME TypeInv, ChancesInv, NEW o \in Orders
               PROVE  reservations[o] <= 1 + faults
    BY DEF RepeatedOnlyAfterFault, Inventory!RepeatedOnlyAfterFault
  <2>1. Cardinality(Handlers(o)) \in Nat
    BY WorkersAssumption, FS_Subset, FS_CardinalityType DEF Handlers
  <2>2. reservations[o] \in Nat /\ faults \in Nat
    BY DEF TypeInv, InventoryInv, Inventory!TypeOK
  <2>3. QED
    BY <2>1, <2>2 DEF ChancesInv, Chances, Count
<1>4. QED
  BY <1>1, <1>2, <1>3, PTL DEF Spec

-----------------------------------------------------------------------------
(* Whole orders: what a transaction has written adds up to its order.      *)

\* Every number is reached from 0 by steps of one.
LEMMA SetInduction ==
    ASSUME NEW S \in SUBSET Nat, 0 \in S, \A n \in S : n + 1 \in S
    PROVE  S = Nat
<1> DEFINE R == {ss \in Nat \X Nat : ss[1] < ss[2]}
           T == Nat \ S
<1>1. IsWellFoundedOn(R, Nat)
  BY NatLessThanWellFounded DEF OpToRel
<1>2. ASSUME T # {}
      PROVE  FALSE
  <2>1. PICK m \in T : \A n \in T : ~ (<<n, m>> \in R)
    <3> HIDE DEF R
    <3>1. QED
      BY <1>1, <1>2, WFMin
  <2>2. m # 0 /\ m - 1 \in Nat /\ <<m - 1, m>> \in R /\ (m - 1) + 1 = m
    OBVIOUS
  <2>3. QED
    BY <2>1, <2>2
<1>3. QED
  BY <1>2

\* What the items of an order add up to is defined, item by item.
LEMMA RunningSums ==
    ASSUME NEW o \in Orders, NEW p
    PROVE  /\ Inventory!Abstract!Running(o, p)[0] = 0
           /\ \A n \in 1..Len(Items[o]) :
                 Inventory!Abstract!Running(o, p)[n] =
                    Inventory!Abstract!Running(o, p)[n - 1]
                       + (IF Items[o][n].product = p THEN Items[o][n].quantity ELSE 0)
<1> DEFINE N == Len(Items[o])
           W(n) == IF Items[o][n].product = p THEN Items[o][n].quantity ELSE 0
           Sums(g, m) == /\ g \in [0..m -> Int] /\ g[0] = 0
                         /\ \A n \in 1..m : g[n] = g[n - 1] + W(n)
           S == {m \in Nat : m > N \/ \E g : Sums(g, m)}
           R == Inventory!Abstract!Running(o, p)
<1>1. N \in Nat /\ \A n \in 1..N : W(n) \in Int
  <2>1. Items[o] \in Seq([product  : {Items[o][k].product : k \in DOMAIN Items[o]}, quantity : Int])
    BY ItemsAssumption
  <2>2. N \in Nat /\ \A n \in 1..N : Items[o][n].quantity \in Int
    <3>1. \A A, seq : seq \in Seq(A) => Len(seq) \in Nat /\ \A n \in 1..Len(seq) : seq[n] \in A
      OBVIOUS
    <3>2. \A n \in 1..N : Items[o][n] \in [product  : {Items[o][k].product : k \in DOMAIN Items[o]}, quantity : Int]
      BY <2>1, <3>1, Zenon
    <3>3. N \in Nat
      BY <2>1, <3>1, Zenon
    <3>4. QED
      BY <3>2, <3>3
  <2>3. QED
    BY <2>2
<1> HIDE DEF N, W
<1>2. 0 \in S
  <2>1. Sums([n \in {0} |-> 0], 0)
    OBVIOUS
  <2>2. QED
    BY <2>1
<1>3. ASSUME NEW m \in S PROVE m + 1 \in S
  <2>1. CASE m + 1 > N
    BY <2>1
  <2>2. CASE m + 1 <= N
    <3>1. PICK g : Sums(g, m)
      BY <1>1, <2>2
    <3> DEFINE h == [n \in 0..m + 1 |-> IF n = m + 1 THEN g[m] + W(m + 1) ELSE g[n]]
    <3>2. Sums(h, m + 1)
      <4>1. W(m + 1) \in Int /\ g[m] \in Int
        BY <1>1, <2>2, <3>1
      <4>2. h \in [0..m + 1 -> Int] /\ h[0] = 0
        BY <3>1, <4>1
      <4>3. ASSUME NEW n \in 1..m + 1 PROVE h[n] = h[n - 1] + W(n)
        BY <3>1
      <4>4. QED
        BY <4>2, <4>3
    <3>3. \E q : Sums(q, m + 1)
      <4> HIDE DEF h, Sums
      <4>1. QED
        BY <3>2
    <3>4. QED
      <4> HIDE DEF Sums
      <4>1. QED
        BY <3>3
  <2>3. QED
    <3>1. m + 1 > N \/ m + 1 <= N
      BY <1>1
    <3> HIDE DEF S
    <3>2. QED
      BY <2>1, <2>2, <3>1
<1>4. N \in S
  <2>1. S = Nat
    <3> HIDE DEF S
    <3>1. S \in SUBSET Nat
      BY DEF S
    <3>2. QED
      BY <1>2, <1>3, <3>1, SetInduction
  <2>2. QED
    BY <1>1, <2>1
<1>5. PICK g : Sums(g, N)
  <2> HIDE DEF Sums
  <2>1. QED
    BY <1>1, <1>4
<1> DEFINE P(r) == r = [n \in 0..N |-> IF n = 0 THEN 0 ELSE r[n - 1] + W(n)]
<1>6. P(g)
  BY <1>1, <1>5
<1>7. R = CHOOSE r : P(r)
  BY DEF N, W, Inventory!Abstract!Running
<1>8. P(R)
  <2> HIDE DEF R, P
  <2>1. QED
    BY <1>6, <1>7
<1>9. QED
  <2> HIDE DEF R
  <2>1. R[0] = 0 /\ \A n \in 1..N : R[n] = R[n - 1] + W(n)
    BY <1>1, <1>8
  <2>2. QED
    BY <2>1 DEF R, N, W

\* A transaction has written what the items before its next one ask for.
TakenInv ==
    \A w \in Workers : Inventory!Reserving(w) =>
        /\ worker[w].next <= Len(Items[worker[w].order]) + 1
        /\ \A p \in Products :
              worker[w].taken[p] = Inventory!Abstract!Running(worker[w].order, p)[worker[w].next - 1]

LEMMA LengthIsNat == \A o \in Orders : Len(Items[o]) \in Nat
<1>1. \A A, seq : seq \in Seq(A) => Len(seq) \in Nat
  OBVIOUS
<1>2. QED
  BY <1>1, ItemsAssumption, Zenon

\* It is enough to look at the worker that moves.
LEMMA TakenElsewhere ==
    ASSUME TakenInv, NEW w \in Workers, OthersStay(w),
           Inventory!Reserving(w)' =>
              /\ worker'[w].next <= Len(Items[worker'[w].order]) + 1
              /\ \A p \in Products :
                    worker'[w].taken[p] =
                       Inventory!Abstract!Running(worker'[w].order, p)[worker'[w].next - 1]
    PROVE  TakenInv'
  BY DEF TakenInv, OthersStay, Inventory!Reserving

LEMMA GoOnTaken ==
    ASSUME InventoryInv, TakenInv, NEW w \in Workers, NEW taken, Inventory!ItemsLeft(w),
           Inventory!GoOn(w, taken),
           \A p \in Products :
              taken[p] = worker[w].taken[p]
                  + (IF Inventory!Item(w).product = p THEN Inventory!Item(w).quantity ELSE 0)
    PROVE  TakenInv'
<1>0. worker[w].order \in Orders /\ worker[w].next \in Nat \ {0}
  BY ItemType DEF InventoryInv, Inventory!Activation
<1>o. PICK o \in Orders : o = worker[w].order
  BY <1>0
<1>n. PICK n \in Nat \ {0} : n = worker[w].next
  BY <1>0
<1>1. n \in 1..Len(Items[o]) /\ Len(Items[o]) \in Nat
  BY <1>o, <1>n, LengthIsNat DEF Inventory!ItemsLeft
<1>2. /\ OthersStay(w)
      /\ worker'[w].order = o /\ worker'[w].next = n + 1 /\ worker'[w].taken = taken
  BY <1>o, <1>n DEF Inventory!GoOn, Inventory!Reservation, InventoryInv, Inventory!TypeOK, OthersStay
<1>3. ASSUME NEW p \in Products
      PROVE  taken[p] = Inventory!Abstract!Running(o, p)[n]
  <2>1. worker[w].taken[p] = Inventory!Abstract!Running(o, p)[n - 1]
    BY <1>o, <1>n DEF TakenInv, Inventory!ItemsLeft
  <2>2. Inventory!Abstract!Running(o, p)[n] =
           Inventory!Abstract!Running(o, p)[n - 1]
              + (IF Items[o][n].product = p THEN Items[o][n].quantity ELSE 0)
    BY <1>1, RunningSums
  <2>3. QED
    BY <1>o, <1>n, <2>1, <2>2 DEF Inventory!Item
<1>4. /\ worker'[w].next <= Len(Items[worker'[w].order]) + 1 /\ worker'[w].next - 1 = n
  BY <1>1, <1>2
<1>5. QED
  BY <1>2, <1>3, <1>4, TakenElsewhere

LEMMA TakenStep ==
    ASSUME TypeInv, TakenInv, [Next]_vars
    PROVE  TakenInv'
<1>0. InventoryInv /\ Inventory!TypeOK
  BY DEF TypeInv, InventoryInv
<1>1. ASSUME NEW w \in Workers, NEW o \in Orders, Inventory!Deliver(w, o)
      PROVE  TakenInv'
  <2>1. /\ OthersStay(w)
        /\ worker'[w].order = o /\ worker'[w].next = 1 /\ worker'[w].taken = Inventory!Nothing
    BY <1>0, <1>1 DEF Inventory!Deliver, Inventory!Reservation, Inventory!TypeOK, OthersStay
  <2>2. \A p \in Products : Inventory!Nothing[p] = Inventory!Abstract!Running(o, p)[1 - 1]
    BY RunningSums DEF Inventory!Nothing
  <2>3. QED
    BY <2>1, <2>2, LengthIsNat, TakenElsewhere
<1>2. ASSUME NEW w \in Workers, Inventory!SkipItem(w)
      PROVE  TakenInv'
  <2>1. \A p \in Products : worker[w].taken[p] \in Int
    BY <1>0, <1>2, ItemType DEF Inventory!SkipItem, Inventory!Activation
  <2>2. QED
    BY <1>0, <1>2, <2>1, GoOnTaken DEF Inventory!SkipItem, Inventory!Tracked
<1>3. ASSUME NEW w \in Workers, Inventory!TakeItem(w)
      PROVE  TakenInv'
  <2>1. worker[w].taken \in [Products -> Int]
    BY <1>0, <1>3, ItemType DEF Inventory!TakeItem, Inventory!Activation
  <2>2. Inventory!Item(w).product \in Products /\ Inventory!Item(w).quantity \in Int
    BY <1>0, <1>3, ItemType DEF Inventory!TakeItem, Inventory!Tracked
  <2>3. \A p \in Products :
           Inventory!Written(w)[p] = worker[w].taken[p]
              + (IF Inventory!Item(w).product = p THEN Inventory!Item(w).quantity ELSE 0)
    BY <2>1, <2>2 DEF Inventory!Written
  <2>4. QED
    BY <1>0, <1>3, <2>3, GoOnTaken DEF Inventory!TakeItem
<1>4. ASSUME NEW w \in Workers, OthersStay(w), ~Inventory!Reserving(w)'
      PROVE  TakenInv'
  BY <1>4, TakenElsewhere
<1>5. CASE UNCHANGED worker
  BY <1>5 DEF TakenInv, Inventory!Reserving
<1>6. ASSUME NEW w \in Workers, Statements(w) \/ Afterwards(w)
      PROVE  TakenInv'
  <2>1. CASE worker[w].at \in {"items", "ack"} /\ worker' = [worker EXCEPT ![w].at = "ack"]
    <3>1. worker[w] \in Inventory!Activation
      BY <1>0, <2>1, ActiveType
    <3>2. OthersStay(w) /\ worker'[w].at = "ack"
      BY <1>0, <2>1, <3>1 DEF Inventory!TypeOK, Inventory!Activation, OthersStay
    <3>3. QED
      BY <1>4, <3>2 DEF Inventory!Reserving
  <2>2. CASE worker[w].at = "ack" /\ worker' = [worker EXCEPT ![w].at = "check"]
    <3>1. worker[w] \in Inventory!Activation
      BY <1>0, <2>2, ActiveType
    <3>2. OthersStay(w) /\ worker'[w].at = "check"
      BY <1>0, <2>2, <3>1 DEF Inventory!TypeOK, Inventory!Activation, OthersStay
    <3>3. QED
      BY <1>4, <3>2 DEF Inventory!Reserving
  <2>3. ASSUME NEW s \in {Inventory!Idle, Inventory!Down}, worker' = [worker EXCEPT ![w] = s]
        PROVE  TakenInv'
    <3>1. OthersStay(w) /\ ~Inventory!Reserving(w)'
      BY <1>0, <2>3 DEF Inventory!TypeOK, OthersStay, Inventory!Reserving, Inventory!Idle, Inventory!Down
    <3>2. QED
      BY <1>4, <3>1
  <2>4. QED
    BY <1>2, <1>3, <1>5, <1>6, <2>1, <2>2, <2>3
    DEF Statements, Afterwards, Inventory!InsufficientStock, Inventory!AbortBlocked,
        Inventory!StatementFails, Inventory!CommitReservation, Inventory!CommitUnconfirmed,
        Inventory!Commit, Inventory!Reserving, Inventory!GiveUp, Inventory!Nak,
        Inventory!Ack, Inventory!AckLost, Inventory!CheckLowStock, Inventory!CheckFails,
        Inventory!AckWaitExpires, Inventory!Crash, Inventory!StartWorker
<1>7. QED
  BY <1>1, <1>5, <1>6, StepCases DEF vars, inventoryVars

\* A commit reserves the whole order from stock that suffices; no other step
\* touches the rows.
LEMMA CommitReserves ==
    ASSUME TypeInv, StockInv', TakenInv, NEW w \in Workers, Inventory!Commit(w)
    PROVE  Inventory!Abstract!Next
<1>1. worker[w] \in Inventory!Activation
  BY ActiveType DEF TypeInv, InventoryInv, Inventory!Commit, Inventory!Reserving
<1>o. PICK o \in Orders : o = worker[w].order
  BY <1>1 DEF Inventory!Activation
<1>2. worker[w].next - 1 = Len(Items[o])
  BY <1>1, <1>o, LengthIsNat
  DEF Inventory!Activation, Inventory!Commit, Inventory!ItemsLeft, TakenInv
<1>3. \A p \in Products : worker[w].taken[p] = Inventory!Abstract!Demand(o, p)
  BY <1>2, <1>o DEF TakenInv, Inventory!Commit, Inventory!Abstract!Demand
<1>4. \A p \in Products :
         /\ inventory'[p].stock = inventory[p].stock - Inventory!Abstract!Demand(o, p)
         /\ inventory'[p].reserved = inventory[p].reserved + Inventory!Abstract!Demand(o, p)
         /\ inventory'[p].stock >= 0
  BY <1>3 DEF Inventory!Commit, Inventory!Expose, StockInv, StockAccounted, Inventory!StockAccounted
<1>5. Inventory!Abstract!Reserve(o)
  BY <1>4, <1>o DEF Inventory!Abstract!Reserve, Inventory!Commit
<1>6. QED
  BY <1>5 DEF Inventory!Abstract!Next

LEMMA StepReserves ==
    ASSUME TypeInv, StockInv', TakenInv, [Next]_vars
    PROVE  [Inventory!Abstract!Next]_(Inventory!Abstract!vars)
<1>1. CASE UNCHANGED <<inventory, reservations>>
  BY <1>1 DEF Inventory!Abstract!vars
<1>2. CASE \E w \in Workers : Inventory!Commit(w)
  BY <1>2, CommitReserves
<1>3. QED
  BY <1>1, <1>2, StepCases
  DEF Statements, Afterwards, Inventory!Deliver, Inventory!SkipItem, Inventory!TakeItem,
      Inventory!InsufficientStock, Inventory!AbortBlocked, Inventory!StatementFails,
      Inventory!CommitReservation, Inventory!CommitUnconfirmed, Inventory!GiveUp,
      Inventory!Ack, Inventory!AckLost, Inventory!CheckLowStock, Inventory!CheckFails,
      Inventory!AckWaitExpires, Inventory!Crash, Inventory!StartWorker, vars, inventoryVars

\* Whatever the workers' transactions do to each other, stock moves by whole
\* orders, one at a time, and never more than there is.
THEOREM WarehouseIsKept == Spec => ImplementsWarehouse
<1>1. Init => TypeInv /\ StockInv /\ TakenInv /\ Inventory!Abstract!Init
  <2>1. Init => TakenInv /\ Inventory!Abstract!Init
    BY StockAssumption
    DEF Init, Inventory!Init, TakenInv, Inventory!Reserving, Inventory!Idle, Inventory!Abstract!Init
  <2>2. QED
    BY <2>1, TypeInit, StockInit
<1>2. TypeInv /\ StockInv /\ TakenInv /\ [Next]_vars => (TypeInv /\ StockInv /\ TakenInv)'
  BY TypeStep, StockStep, TakenStep
<1>3. TypeInv /\ StockInv' /\ TakenInv /\ [Next]_vars
         => [Inventory!Abstract!Next]_(Inventory!Abstract!vars)
  BY StepReserves
<1>4. Spec => Inventory!Abstract!Spec
  BY <1>1, <1>2, <1>3, PTL DEF Spec, Inventory!Abstract!Spec
<1>5. QED
  BY <1>4 DEF ImplementsWarehouse, Inventory!ImplementsWarehouse
=============================================================================
