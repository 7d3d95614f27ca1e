--------------------------- MODULE Commerce_proofs ---------------------------
(***************************************************************************)
(* What holds of Commerce for any payments, clients and events: what is    *)
(* announced is on record, a refund needs an overlap to be repeated, and   *)
(* both workers handle every copy that is published, again only after a    *)
(* fault.                                                                  *)
(***************************************************************************)
EXTENDS Commerce, TLAPS

\* What a handler has taken, it still owes.
Owed(stored, mode, busy) ==
    \A e \in Events : mode = "durable" /\ busy[e] # "idle" => stored[e] > 0

\* A worker that is down is at nothing and has heard nothing.
Quiet(heard, mode, busy) ==
    \A e \in Events : mode = "off" => busy[e] = "idle" /\ heard[e] = 0

Shape ==
    /\ Quiet(nHeard, nMode, nBusy) /\ Quiet(aHeard, aMode, aBusy)
    /\ Owed(nStored, nMode, nBusy) /\ Owed(aStored, aMode, aBusy)
    /\ \A e \in Events : nBusy[e] # "work" /\ (aBusy[e] = "work" => IsOrder(e))

TypeInv == TypeOK /\ Shape

IsTable(f) == f \in [Events -> Nat]

\* The types, apart from those of the payments, spelt out.
Tables ==
    /\ IsTable(nStored) /\ IsTable(nHeard) /\ IsTable(aStored) /\ IsTable(aHeard)
    /\ IsTable(sent) /\ IsTable(tally) /\ IsTable(revenue) /\ IsTable(published)
    /\ nMode \in {"durable", "core", "off"} /\ aMode \in {"durable", "core", "off"}
    /\ nBusy \in [Events -> {"idle", "work", "ack"}]
    /\ aBusy \in [Events -> {"idle", "work", "ack"}]
    /\ faults \in Nat

LEMMA TypesSpeltOut == TypeOK <=> Payment!TypeOK /\ Tables
  BY DEF TypeOK, Tables, IsTable, Notification!TypeOK, Analytics!TypeOK,
      Notification!Positions, Analytics!Positions

\* One more, or one less, leaves a table.
LEMMA TableKept ==
    ASSUME NEW f, IsTable(f), NEW e \in Events
    PROVE  /\ IsTable([f EXCEPT ![e] = @ + 1])
           /\ f[e] > 0 => IsTable([f EXCEPT ![e] = @ - 1])
  BY DEF IsTable

LEMMA EventsDiffer ==
    /\ \A p \in Payments :
          /\ Payment!Completed(p) \in Events \ Others /\ Payment!Failed(p) \in Events \ Others
          /\ ~IsOrder(Payment!Completed(p)) /\ ~IsOrder(Payment!Failed(p))
    /\ \A p, q \in Payments :
          /\ Payment!Completed(p) # Payment!Failed(q)
          /\ Payment!Completed(p) = Payment!Completed(q) => p = q
          /\ Payment!Failed(p) = Payment!Failed(q) => p = q
  BY OthersAssumption DEF Events, Payment!Completed, Payment!Failed, IsOrder

-----------------------------------------------------------------------------
(* The steps of Commerce, as the workers and the service see them.         *)

AnyFailedAnnouncement ==
    \E c \in Clients, p \in Payments, e \in Events : AnnouncementFails(c, p, e)

Publication ==
    \E e \in Events :
        OtherPublishes(e) \/ \E c \in Clients, p \in Payments : PaymentAnnounces(c, p, e)

PaymentMoves == PaymentStep \/ PaymentStops \/ AnyFailedAnnouncement

NotificationMoves ==
    \/ \E e \in Events : Notify(e) \/ AckNotified(e)
    \/ StartNotification \/ NotificationFails

AnalyticsMoves ==
    \/ \E e \in Events : Count(e) \/ AddRevenue(e) \/ AckCounted(e)
    \/ StartAnalytics \/ AnalyticsFails

LEMMA StepCases ==
    Next => Publication \/ PaymentMoves \/ NotificationMoves \/ AnalyticsMoves
  BY DEF Next, Publication, PaymentMoves, AnyFailedAnnouncement, NotificationMoves, AnalyticsMoves

\* A fault is counted, or none happens.
LEMMA FaultsCounted ==
    ASSUME faults \in Nat, Next
    PROVE  faults' = faults \/ faults' = faults + 1
  BY DEF Next, PaymentStep, PaymentStops, PaymentAnnounces, AnnouncementFails, OtherPublishes,
      Notify, AckNotified, Count, AddRevenue, AckCounted, StartNotification,
      NotificationFails, StartAnalytics, AnalyticsFails, Fault

-----------------------------------------------------------------------------
(* Types.                                                                  *)

LEMMA PaymentTypes ==
    ASSUME Payment!TypeOK,
           \/ Payment!Next
           \/ \E c \in Clients, p \in Payments, e \in Events : Payment!Announce(c, p, e)
           \/ \E c \in Clients : Payment!Abandon(c)
           \/ UNCHANGED paymentVars
    PROVE  Payment!TypeOK'
<1> USE DEF Payment!TypeOK, Payment!Go, Payment!On, Payment!Idle
<1>1. ASSUME NEW c \in Clients, NEW p \in Payments,
             Payment!Create(c, p) \/ Payment!RefundReads(c, p) \/ Payment!RefundUpdates(c, p)
      PROVE  Payment!TypeOK'
  BY <1>1 DEF Payment!Create, Payment!RefundReads, Payment!RefundUpdates
<1>2. ASSUME NEW c \in Clients, NEW p \in Payments, NEW e \in Events, Payment!Announce(c, p, e)
      PROVE  Payment!TypeOK'
  BY <1>2 DEF Payment!Announce
<1>3. ASSUME NEW c \in Clients, Payment!Abandon(c)
      PROVE  Payment!TypeOK'
  BY <1>3 DEF Payment!Abandon
<1>4. CASE UNCHANGED paymentVars
  BY <1>4 DEF paymentVars
<1>5. QED
  BY <1>1, <1>2, <1>3, <1>4 DEF Payment!Next

\* What any step makes of the payments.
LEMMA PaymentStepCases ==
    ASSUME Next
    PROVE  \/ Payment!Next
           \/ \E c \in Clients, p \in Payments, e \in Events : Payment!Announce(c, p, e)
           \/ \E c \in Clients : Payment!Abandon(c)
           \/ UNCHANGED paymentVars
  BY DEF Next, PaymentStep, PaymentStops, PaymentAnnounces, AnnouncementFails, OtherPublishes,
      Notify, AckNotified, Count, AddRevenue, AckCounted, StartNotification,
      NotificationFails, StartAnalytics, AnalyticsFails, paymentVars

\* A copy is published to both workers.
LEMMA PublishTypes ==
    ASSUME Tables, Shape, NEW e \in Events, Publish(e), UNCHANGED faults
    PROVE  Tables' /\ Shape'
<1>1. /\ nStored' = [nStored EXCEPT ![e] = @ + 1] /\ aStored' = [aStored EXCEPT ![e] = @ + 1]
      /\ nHeard' = IF nMode = "core" THEN [nHeard EXCEPT ![e] = @ + 1] ELSE nHeard
      /\ aHeard' = IF aMode = "core" THEN [aHeard EXCEPT ![e] = @ + 1] ELSE aHeard
      /\ published' = [published EXCEPT ![e] = @ + 1]
      /\ UNCHANGED <<nMode, nBusy, aMode, aBusy, sent, tally, revenue>>
  BY DEF Publish, Notification!Receive, Analytics!Receive, Up
<1>2. Tables'
  <2>1. IsTable(nHeard) /\ IsTable(aHeard)
    BY DEF Tables
  <2>2. IsTable(nHeard') /\ IsTable(aHeard')
    BY <1>1, <2>1, TableKept
  <2>3. IsTable(nStored') /\ IsTable(aStored') /\ IsTable(published')
    BY <1>1, TableKept DEF Tables
  <2>4. QED
    BY <1>1, <2>2, <2>3 DEF Tables
<1>3. \A f \in Events :
         /\ nStored'[f] \in Nat /\ nStored[f] \in Nat /\ aStored'[f] \in Nat /\ aStored[f] \in Nat
         /\ nStored'[f] >= nStored[f] /\ aStored'[f] >= aStored[f]
  BY <1>1 DEF Tables, IsTable
<1>4. Shape'
  <2>1. Owed(nStored, nMode, nBusy)' /\ Owed(aStored, aMode, aBusy)'
    BY <1>1, <1>3 DEF Shape, Owed
  <2>2. Quiet(nHeard, nMode, nBusy)' /\ Quiet(aHeard, aMode, aBusy)'
    BY <1>1 DEF Shape, Quiet
  <2>3. QED
    BY <1>1, <2>1, <2>2 DEF Shape
<1>5. QED
  BY <1>2, <1>4

LEMMA NotificationTypes ==
    ASSUME Tables, Shape, NotificationMoves
    PROVE  Tables' /\ Shape'
<1> USE DEF Tables, IsTable, Shape, Owed, Quiet
<1>1. ASSUME NEW e \in Events, Notify(e)
      PROVE  Tables' /\ Shape'
  BY <1>1 DEF Notify, Notification!Take, Up, analyticsVars
<1>2. ASSUME NEW e \in Events, AckNotified(e)
      PROVE  Tables' /\ Shape'
  BY <1>2 DEF AckNotified, Notification!Ack, analyticsVars
<1>3. CASE StartNotification
  BY <1>3 DEF StartNotification, Notification!Start, analyticsVars
<1>4. CASE NotificationFails
  BY <1>4 DEF NotificationFails, Notification!Stop, Notification!Raise, analyticsVars, Fault
<1>5. QED
  BY <1>1, <1>2, <1>3, <1>4 DEF NotificationMoves

LEMMA AnalyticsTypes ==
    ASSUME Tables, Shape, AnalyticsMoves
    PROVE  Tables' /\ Shape'
<1> USE DEF Tables, IsTable, Shape, Owed, Quiet
<1>1. ASSUME NEW e \in Events, Count(e)
      PROVE  Tables' /\ Shape'
  BY <1>1 DEF Count, Analytics!Take, Up, notificationVars
<1>2. ASSUME NEW e \in Events, AddRevenue(e)
      PROVE  Tables' /\ Shape'
  BY <1>2 DEF AddRevenue, Analytics!Worked, Up, notificationVars
<1>3. ASSUME NEW e \in Events, AckCounted(e)
      PROVE  Tables' /\ Shape'
  BY <1>3 DEF AckCounted, Analytics!Ack, notificationVars
<1>4. CASE StartAnalytics
  BY <1>4 DEF StartAnalytics, Analytics!Start, notificationVars
<1>5. CASE AnalyticsFails
  BY <1>5 DEF AnalyticsFails, Analytics!Stop, Analytics!Raise, notificationVars, Fault
<1>6. QED
  BY <1>1, <1>2, <1>3, <1>4, <1>5 DEF AnalyticsMoves

LEMMA TypeInit == Init => TypeInv
<1> SUFFICES ASSUME Init PROVE TypeInv
  OBVIOUS
<1>1. Payment!TypeOK
  BY DEF Init, Payment!Init, Payment!TypeOK
<1>2. Tables
  BY DEF Init, Notification!Init, Analytics!Init, Tables, IsTable
<1>3. Shape
  BY DEF Init, Notification!Init, Analytics!Init, Shape, Owed, Quiet
<1>4. QED
  BY <1>1, <1>2, <1>3, TypesSpeltOut DEF TypeInv

LEMMA TypeStep ==
    ASSUME TypeInv, [Next]_vars
    PROVE  TypeInv'
<1>1. Payment!TypeOK /\ Tables /\ Shape
  BY TypesSpeltOut DEF TypeInv
<1>2. CASE Next
  <2>1. Payment!TypeOK'
    BY <1>1, <1>2, PaymentStepCases, PaymentTypes
  <2>2. Tables' /\ Shape'
    <3>1. CASE Publication
      <4>1. PICK e \in Events : Publish(e) /\ UNCHANGED faults
        BY <3>1 DEF Publication, OtherPublishes, PaymentAnnounces
      <4>2. QED
        BY <1>1, <4>1, PublishTypes
    <3>2. CASE PaymentMoves
      <4>1. UNCHANGED <<notificationVars, analyticsVars, published>> /\ faults' \in Nat
        BY <1>1, <1>2, <3>2, FaultsCounted
        DEF PaymentMoves, PaymentStep, PaymentStops, AnyFailedAnnouncement, AnnouncementFails, Tables
      <4>2. QED
        BY <1>1, <4>1 DEF notificationVars, analyticsVars, Tables, IsTable, Shape, Owed, Quiet
    <3>3. QED
      BY <1>1, <1>2, <3>1, <3>2, StepCases, NotificationTypes, AnalyticsTypes
  <2>3. TypeOK'
    <3>1. (TypeOK <=> Payment!TypeOK /\ Tables)'
      BY DEF TypeOK, Tables, IsTable, Notification!TypeOK, Analytics!TypeOK,
          Notification!Positions, Analytics!Positions
    <3>2. QED
      BY <2>1, <2>2, <3>1
  <2>4. QED
    BY <2>2, <2>3 DEF TypeInv
<1>3. CASE UNCHANGED vars
  BY <1>3
  DEF TypeInv, TypeOK, Shape, Owed, Quiet, vars, paymentVars, notificationVars, analyticsVars,
      Payment!TypeOK, Notification!TypeOK, Analytics!TypeOK, IsOrder
<1>4. QED
  BY <1>2, <1>3

LEMMA TypeInvHolds == Spec => []TypeInv
<1>1. TypeInv /\ [Next]_vars => TypeInv'
  BY TypeStep
<1>2. QED
  BY <1>1, TypeInit, PTL DEF Spec

\* Every variable of the service and of both workers keeps its type.
THEOREM TypesHold == Spec => []TypeOK
<1>1. TypeInv => TypeOK
  BY DEF TypeInv
<1>2. QED
  BY <1>1, TypeInvHolds, PTL

-----------------------------------------------------------------------------
(* What is announced is on record.                                         *)

\* Nothing is handled, owed or heard that was not published.
WasPublished ==
    \A e \in Events : sent[e] > 0 \/ nStored[e] > 0 \/ nHeard[e] > 0 => published[e] > 0

Backed ==
    \A p \in Payments :
        /\ published[Payment!Completed(p)] > 0 => payments[p] # "none"
        /\ published[Payment!Failed(p)] > 0 => payments[p] = "refunded"

\* A request is where it is because of what it wrote or read.
Standing ==
    \A c \in Clients, p \in Payments :
        /\ at[c] \in {Payment!On("paid", p), Payment!On("refund", p)} => payments[p] # "none"
        /\ at[c] = Payment!On("refunded", p) => payments[p] = "refunded"

RecordInv == WasPublished /\ Backed /\ Standing

\* A payment goes from "none" over "completed" to "refunded".
LEMMA PaymentsAdvance ==
    ASSUME TypeInv, RecordInv, [Next]_vars
    PROVE  \A p \in Payments :
              /\ payments[p] # "none" => payments'[p] # "none"
              /\ payments[p] = "refunded" => payments'[p] = "refunded"
<1>1. CASE Payment!Next
  BY <1>1 DEF Payment!Next, Payment!Create, Payment!RefundReads, Payment!RefundUpdates,
      TypeInv, TypeOK, Payment!TypeOK
<1>2. CASE UNCHANGED payments
  BY <1>2
<1>3. QED
  BY <1>1, <1>2, PaymentStepCases DEF Payment!Announce, Payment!Abandon, paymentVars, vars

LEMMA StandingKept ==
    ASSUME TypeInv, RecordInv, [Next]_vars
    PROVE  Standing'
<1> USE DEF Payment!On
<1>1. \A p \in Payments :
              /\ payments[p] # "none" => payments'[p] # "none"
              /\ payments[p] = "refunded" => payments'[p] = "refunded"
  BY PaymentsAdvance
<1>2. Payment!TypeOK
  BY DEF TypeInv, TypeOK
<1>3. ASSUME NEW c \in Clients, NEW p \in Payments,
             Payment!Create(c, p) \/ Payment!RefundReads(c, p) \/ Payment!RefundUpdates(c, p)
      PROVE  Standing'
  <2>1. /\ \A d \in Clients \ {c} : at'[d] = at[d]
        /\ \/ at'[c] = Payment!On("paid", p) /\ payments'[p] = "completed"
           \/ at'[c] = Payment!On("refund", p) /\ payments'[p] = "completed"
           \/ at'[c] = Payment!On("refunded", p) /\ payments'[p] = "refunded"
    BY <1>2, <1>3
    DEF Payment!Create, Payment!RefundReads, Payment!RefundUpdates, Payment!Refundable,
        Payment!Go, Payment!TypeOK
  <2>2. SUFFICES ASSUME NEW d \in Clients, NEW q \in Payments
        PROVE  /\ at'[d] \in {Payment!On("paid", q), Payment!On("refund", q)} => payments'[q] # "none"
               /\ at'[d] = Payment!On("refunded", q) => payments'[q] = "refunded"
    BY DEF Standing
  <2>3. CASE d = c
    BY <2>1, <2>3
  <2>4. CASE d # c
    BY <1>1, <2>1, <2>4 DEF RecordInv, Standing
  <2>5. QED
    BY <2>3, <2>4
<1>4. ASSUME NEW c \in Clients, Payment!Go(c, Payment!Idle)
      PROVE  Standing'
  BY <1>1, <1>2, <1>4 DEF RecordInv, Standing, Payment!Go, Payment!Idle, Payment!TypeOK
<1>5. CASE UNCHANGED at
  BY <1>1, <1>5 DEF RecordInv, Standing
<1>6. QED
  BY <1>3, <1>4, <1>5, PaymentStepCases
  DEF Payment!Next, Payment!Announce, Payment!Abandon, paymentVars, vars

\* What is published of a payment is what its table says.
LEMMA PublicationIsBacked ==
    ASSUME TypeInv, RecordInv, [Next]_vars
    PROVE  Backed'
<1>1. \A p \in Payments :
              /\ payments[p] # "none" => payments'[p] # "none"
              /\ payments[p] = "refunded" => payments'[p] = "refunded"
  BY PaymentsAdvance
<1>2. ASSUME NEW e \in Events, OtherPublishes(e)
      PROVE  Backed'
  <2>1. e \in Others /\ \A f \in Events \ {e} : published'[f] = published[f]
    BY <1>2 DEF OtherPublishes, Publish, Up, TypeInv, TypeOK
  <2>2. \A p \in Payments : /\ published'[Payment!Completed(p)] = published[Payment!Completed(p)]
                            /\ published'[Payment!Failed(p)] = published[Payment!Failed(p)]
    BY <2>1, EventsDiffer
  <2>3. QED
    BY <1>1, <2>2 DEF RecordInv, Backed
<1>3. ASSUME NEW e \in Events, NEW c \in Clients, NEW p \in Payments, PaymentAnnounces(c, p, e)
      PROVE  Backed'
  <2>1. \A f \in Events \ {e} : published'[f] = published[f]
    BY <1>3 DEF PaymentAnnounces, Publish, Up, TypeInv, TypeOK
  <2>2. \/ e = Payment!Completed(p) /\ payments[p] # "none"
        \/ e = Payment!Failed(p) /\ payments[p] = "refunded"
    BY <1>3 DEF PaymentAnnounces, Payment!Announce, RecordInv, Standing
  <2>3. QED
    BY <1>1, <2>1, <2>2, EventsDiffer DEF RecordInv, Backed
<1>4. CASE UNCHANGED published
  BY <1>1, <1>4 DEF RecordInv, Backed
<1>5. PaymentMoves \/ NotificationMoves \/ AnalyticsMoves \/ UNCHANGED vars => UNCHANGED published
  BY DEF PaymentMoves, PaymentStep, PaymentStops, AnyFailedAnnouncement, AnnouncementFails,
      NotificationMoves, Notify, AckNotified, StartNotification, NotificationFails,
      AnalyticsMoves, Count, AddRevenue, AckCounted, StartAnalytics, AnalyticsFails, vars
<1>6. QED
  BY <1>2, <1>3, <1>4, <1>5, StepCases DEF Publication

LEMMA WasPublishedKept ==
    ASSUME TypeInv, RecordInv, [Next]_vars
    PROVE  WasPublished'
<1> USE DEF TypeInv, TypeOK, Notification!TypeOK, RecordInv, WasPublished
<1>1. ASSUME NEW e \in Events, Publish(e)
      PROVE  WasPublished'
  BY <1>1 DEF Publish, Notification!Receive, Up
<1>2. ASSUME NEW e \in Events, Notify(e)
      PROVE  WasPublished'
  BY <1>2 DEF Notify, Notification!Take, Up
<1>3. ASSUME NEW e \in Events, AckNotified(e)
      PROVE  WasPublished'
  BY <1>3 DEF AckNotified, Notification!Ack, Shape, Owed
<1>4. CASE NotificationFails
  BY <1>4 DEF NotificationFails, Notification!Stop, Notification!Raise
<1>5. CASE UNCHANGED <<nStored, nHeard, sent, published>>
  BY <1>5
<1>6. QED
  BY <1>1, <1>2, <1>3, <1>4, <1>5, StepCases
  DEF Publication, OtherPublishes, PaymentAnnounces,
      PaymentMoves, PaymentStep, PaymentStops, AnyFailedAnnouncement, AnnouncementFails,
      NotificationMoves, StartNotification, Notification!Start,
      AnalyticsMoves, Count, AddRevenue, AckCounted, StartAnalytics, AnalyticsFails,
      notificationVars, vars

LEMMA RecordInvHolds == Spec => []RecordInv
<1>1. Init => RecordInv
  BY EventsDiffer
  DEF Init, Payment!Init, Notification!Init, RecordInv, WasPublished, Backed, Standing,
      Payment!On, Payment!Idle
<1>2. TypeInv /\ RecordInv /\ [Next]_vars => RecordInv'
  BY StandingKept, PublicationIsBacked, WasPublishedKept DEF RecordInv
<1>3. QED
  BY <1>1, <1>2, TypeInvHolds, PTL DEF Spec

\* No customer is written to about a payment or a refund that is not in the
\* table.
THEOREM NoticesStayTrue == Spec => []NoticesAreTrue
<1>1. RecordInv => NoticesAreTrue
  BY EventsDiffer DEF RecordInv, WasPublished, Backed, NoticesAreTrue
<1>2. QED
  BY <1>1, RecordInvHolds, PTL

-----------------------------------------------------------------------------
(* Refunds.                                                                *)

Refunding(c, p) == at[c] = Payment!On("refund", p)

Refunded(c, p) == at[c] = Payment!On("refunded", p)

\* Of a payment that no two refunds were at together: one request at most is
\* about to refund it, before the row says so, or about to confirm it, before
\* the confirmation.
RefundInv ==
    \A p \in Payments \ overlapped :
        /\ \A c, d \in Clients : Refunding(c, p) /\ Refunding(d, p) => c = d
        /\ \A c, d \in Clients : Refunded(c, p) /\ Refunded(d, p) => c = d
        /\ \A c \in Clients : Refunding(c, p) => payments[p] = "completed"
        /\ \A c \in Clients : Refunded(c, p) => payments[p] = "refunded" /\ refunds[p] = 0
        /\ refunds[p] > 0 => payments[p] = "refunded"
        /\ refunds[p] <= 1

LEMMA RefundStep ==
    ASSUME TypeInv, RefundInv, [Next]_vars
    PROVE  RefundInv'
<1> USE DEF RefundInv, Refunding, Refunded, Payment!On, Payment!Idle, Payment!Go
<1>0. Payment!TypeOK
  BY DEF TypeInv, TypeOK
<1>1. ASSUME NEW c \in Clients, NEW p \in Payments, Payment!Create(c, p)
      PROVE  RefundInv'
  BY <1>0, <1>1 DEF Payment!Create, Payment!TypeOK
<1>2. ASSUME NEW c \in Clients, NEW p \in Payments, Payment!RefundReads(c, p)
      PROVE  RefundInv'
  BY <1>0, <1>2 DEF Payment!RefundReads, Payment!Refundable, Payment!TypeOK
<1>3. ASSUME NEW c \in Clients, NEW p \in Payments, Payment!RefundUpdates(c, p)
      PROVE  RefundInv'
  BY <1>0, <1>3 DEF Payment!RefundUpdates, Payment!TypeOK
<1>4. ASSUME NEW c \in Clients, NEW p \in Payments, NEW e \in Events, Payment!Announce(c, p, e)
      PROVE  RefundInv'
  BY <1>0, <1>4 DEF Payment!Announce, Payment!TypeOK
<1>5. ASSUME NEW c \in Clients, Payment!Abandon(c)
      PROVE  RefundInv'
  BY <1>0, <1>5 DEF Payment!Abandon, Payment!TypeOK
<1>6. CASE UNCHANGED paymentVars
  BY <1>6 DEF paymentVars
<1>7. QED
  BY <1>1, <1>2, <1>3, <1>4, <1>5, <1>6, PaymentStepCases DEF Payment!Next, vars

\* A payment is refunded twice only by two requests that overlap.
THEOREM RefundsAreUnique == Spec => []RefundedOnce
<1>1. Init => RefundInv
  BY DEF Init, Payment!Init, RefundInv, Refunding, Refunded, Payment!On, Payment!Idle
<1>2. TypeInv /\ RefundInv /\ [Next]_vars => RefundInv'
  BY RefundStep
<1>3. RefundInv => RefundedOnce
  BY DEF RefundInv, RefundedOnce
<1>4. QED
  BY <1>1, <1>2, <1>3, TypeInvHolds, PTL DEF Spec

-----------------------------------------------------------------------------
(* Copies owed.                                                            *)

\* A durable handler that is through with a copy and has yet to acknowledge it.
Acking(mode, busy, e) == IF mode = "durable" /\ busy[e] = "ack" THEN 1 ELSE 0

Counted(e) == IF IsOrder(e) THEN revenue[e] ELSE tally[e]

\* Each copy is still owed, or was handled and is no longer awaiting its
\* acknowledgement.
CopyInv ==
    \A e \in Events :
        /\ sent[e] + nStored[e] >= published[e] + Acking(nMode, nBusy, e)
        /\ Counted(e) + aStored[e] >= published[e] + Acking(aMode, aBusy, e)

LEMMA CopyStep ==
    ASSUME TypeInv, CopyInv, [Next]_vars
    PROVE  CopyInv'
<1>0. Tables /\ Shape
  BY TypesSpeltOut DEF TypeInv
<1> USE DEF CopyInv, Acking, Counted, Tables, IsTable, Shape, Owed, Quiet, Up,
            notificationVars, analyticsVars
<1>1. ASSUME NEW e \in Events, Publish(e)
      PROVE  CopyInv'
  BY <1>0, <1>1 DEF Publish, Notification!Receive, Analytics!Receive
<1>2. CASE NotificationMoves
  <2>1. ASSUME NEW e \in Events, Notify(e)
        PROVE  CopyInv'
    BY <1>0, <2>1 DEF Notify, Notification!Take
  <2>2. ASSUME NEW e \in Events, AckNotified(e)
        PROVE  CopyInv'
    BY <1>0, <2>2 DEF AckNotified, Notification!Ack
  <2>3. CASE StartNotification
    BY <1>0, <2>3 DEF StartNotification, Notification!Start
  <2>4. CASE NotificationFails
    BY <1>0, <2>4 DEF NotificationFails, Notification!Stop, Notification!Raise
  <2>5. QED
    BY <1>2, <2>1, <2>2, <2>3, <2>4 DEF NotificationMoves
<1>3. CASE AnalyticsMoves
  <2>1. ASSUME NEW e \in Events, Count(e)
        PROVE  CopyInv'
    BY <1>0, <2>1 DEF Count, Analytics!Take
  <2>2. ASSUME NEW e \in Events, AddRevenue(e)
        PROVE  CopyInv'
    BY <1>0, <2>2 DEF AddRevenue, Analytics!Worked
  <2>3. ASSUME NEW e \in Events, AckCounted(e)
        PROVE  CopyInv'
    BY <1>0, <2>3 DEF AckCounted, Analytics!Ack
  <2>4. CASE StartAnalytics
    BY <1>0, <2>4 DEF StartAnalytics, Analytics!Start
  <2>5. CASE AnalyticsFails
    BY <1>0, <2>5 DEF AnalyticsFails, Analytics!Stop, Analytics!Raise
  <2>6. QED
    BY <1>3, <2>1, <2>2, <2>3, <2>4, <2>5 DEF AnalyticsMoves
<1>4. CASE UNCHANGED <<notificationVars, analyticsVars, published>>
  BY <1>4
<1>5. QED
  BY <1>1, <1>2, <1>3, <1>4, StepCases
  DEF Publication, OtherPublishes, PaymentAnnounces,
      PaymentMoves, PaymentStep, PaymentStops, AnyFailedAnnouncement, AnnouncementFails, vars

\* Each copy that was published is owed to a worker until it is through with it.
THEOREM CopiesAreOwed == Spec => []NothingIsDropped
<1>1. Init => CopyInv
  BY DEF Init, Notification!Init, Analytics!Init, CopyInv, Acking, Counted
<1>2. TypeInv /\ CopyInv /\ [Next]_vars => CopyInv'
  BY CopyStep
<1>3. TypeInv /\ CopyInv => NothingIsDropped
  BY TypesSpeltOut DEF TypeInv, Tables, IsTable, CopyInv, Acking, Counted, NothingIsDropped
<1>4. QED
  BY <1>1, <1>2, <1>3, TypeInvHolds, PTL DEF Spec

-----------------------------------------------------------------------------
(* Copies repeated.                                                        *)

\* Handlings of e that are due if nothing fails from here on.
Due(stored, heard, mode, busy, e) ==
    IF mode = "core" THEN heard[e]
    ELSE IF mode = "durable" /\ busy[e] # "idle" THEN stored[e] - 1 ELSE stored[e]

NotificationDue(e) == Due(nStored, nHeard, nMode, nBusy, e)

AnalyticsDue(e) == Due(aStored, aHeard, aMode, aBusy, e)

\* As often as e may be handled: each copy once, and once more for each fault.
Limit(e) == published[e] * (1 + faults)

\* An order that is counted and whose total is not added yet.
Adding(e) == IF aBusy[e] = "work" THEN 1 ELSE 0

RepeatInv ==
    \A e \in Events :
        /\ nStored[e] <= published[e] /\ aStored[e] <= published[e]
        /\ sent[e] + NotificationDue(e) <= Limit(e)
        /\ tally[e] + AnalyticsDue(e) <= Limit(e)
        /\ IsOrder(e) => /\ revenue[e] + Adding(e) <= tally[e]
                         /\ tally[e] <= revenue[e] + Adding(e) + faults

LEMMA Products ==
    ASSUME NEW p \in Nat, NEW f \in Nat
    PROVE  /\ p * (1 + f) \in Nat
           /\ p * (1 + (f + 1)) = p * (1 + f) + p
           /\ (p + 1) * (1 + f) = p * (1 + f) + (1 + f)
  OBVIOUS

\* A copy raises its event's limit, and a fault raises every limit by as much
\* as can be delivered again.
LEMMA LimitRises ==
    ASSUME Tables, Tables', NEW e \in Events
    PROVE  /\ Limit(e) \in Nat /\ Limit(e)' \in Nat
           /\ published'[e] = published[e] /\ faults' = faults => Limit(e)' = Limit(e)
           /\ published'[e] = published[e] /\ faults' = faults + 1 => Limit(e)' = Limit(e) + published[e]
           /\ published'[e] = published[e] + 1 /\ faults' = faults => Limit(e)' >= Limit(e) + 1
  BY Products DEF Limit, Tables, IsTable

LEMMA RepeatStep ==
    ASSUME TypeInv, RepeatInv, Next
    PROVE  RepeatInv'
<1>0. Tables /\ Shape /\ Tables'
  BY TypeStep, TypesSpeltOut DEF TypeInv, TypeOK, Tables, IsTable, Notification!TypeOK, Analytics!TypeOK,
      Notification!Positions, Analytics!Positions
<1>l. \A e \in Events :
           /\ Limit(e) \in Nat /\ Limit(e)' \in Nat
           /\ published'[e] = published[e] /\ faults' = faults => Limit(e)' = Limit(e)
           /\ published'[e] = published[e] /\ faults' = faults + 1 => Limit(e)' = Limit(e) + published[e]
           /\ published'[e] = published[e] + 1 /\ faults' = faults => Limit(e)' >= Limit(e) + 1
  BY <1>0, LimitRises
<1> USE DEF RepeatInv, NotificationDue, AnalyticsDue, Due, Adding, Tables, IsTable,
            Shape, Owed, Quiet, Up, Fault, notificationVars, analyticsVars
<1>1. ASSUME NEW e \in Events, Publish(e), UNCHANGED faults
      PROVE  RepeatInv'
  BY <1>0, <1>l, <1>1 DEF Publish, Notification!Receive, Analytics!Receive
<1>2. CASE NotificationMoves
  <2>1. ASSUME NEW e \in Events, Notify(e)
        PROVE  RepeatInv'
    BY <1>0, <1>l, <2>1 DEF Notify, Notification!Take
  <2>2. ASSUME NEW e \in Events, AckNotified(e)
        PROVE  RepeatInv'
    BY <1>0, <1>l, <2>2 DEF AckNotified, Notification!Ack
  <2>3. CASE StartNotification
    BY <1>0, <1>l, <2>3 DEF StartNotification, Notification!Start
  <2>4. CASE NotificationFails
    BY <1>0, <1>l, <2>4 DEF NotificationFails, Notification!Stop, Notification!Raise
  <2>5. QED
    BY <1>2, <2>1, <2>2, <2>3, <2>4 DEF NotificationMoves
<1>3. CASE AnalyticsMoves
  <2>1. ASSUME NEW e \in Events, Count(e)
        PROVE  RepeatInv'
    BY <1>0, <1>l, <2>1 DEF Count, Analytics!Take
  <2>2. ASSUME NEW e \in Events, AddRevenue(e)
        PROVE  RepeatInv'
    BY <1>0, <1>l, <2>2 DEF AddRevenue, Analytics!Worked
  <2>3. ASSUME NEW e \in Events, AckCounted(e)
        PROVE  RepeatInv'
    BY <1>0, <1>l, <2>3 DEF AckCounted, Analytics!Ack
  <2>4. CASE StartAnalytics
    BY <1>0, <1>l, <2>4 DEF StartAnalytics, Analytics!Start
  <2>5. CASE AnalyticsFails
    BY <1>0, <1>l, <2>5 DEF AnalyticsFails, Analytics!Stop, Analytics!Raise
  <2>6. QED
    BY <1>3, <2>1, <2>2, <2>3, <2>4, <2>5 DEF AnalyticsMoves
<1>4. CASE PaymentMoves
  <2>1. UNCHANGED <<notificationVars, analyticsVars, published>>
    BY <1>4 DEF PaymentMoves, PaymentStep, PaymentStops, AnyFailedAnnouncement, AnnouncementFails
  <2>2. faults' = faults \/ faults' = faults + 1
    BY <1>0, FaultsCounted
  <2>3. QED
    BY <1>0, <1>l, <2>1, <2>2
<1>5. QED
  BY <1>1, <1>2, <1>3, <1>4, StepCases DEF Publication, OtherPublishes, PaymentAnnounces

\* A copy is handled again only after a fault, and orders run ahead of revenue
\* only by what failed between the two writes.
THEOREM RepeatsNeedFaults == Spec => []RepeatsAreFaults
<1>1. Init => RepeatInv
  BY DEF Init, Notification!Init, Analytics!Init, RepeatInv, NotificationDue, AnalyticsDue, Due,
      Limit, Adding
<1>2. TypeInv /\ RepeatInv /\ [Next]_vars => RepeatInv'
  <2>1. CASE UNCHANGED vars
    BY <2>1 DEF RepeatInv, NotificationDue, AnalyticsDue, Due, Limit, Adding, IsOrder,
        vars, notificationVars, analyticsVars
  <2>2. QED
    BY <2>1, RepeatStep
<1>3. TypeInv /\ RepeatInv => RepeatsAreFaults
  <2>1. SUFFICES ASSUME TypeInv, RepeatInv, NEW e \in Events
        PROVE  /\ sent[e] <= Limit(e) /\ tally[e] <= Limit(e)
               /\ IsOrder(e) => revenue[e] <= tally[e] /\ tally[e] <= revenue[e] + faults + 1
    BY DEF RepeatsAreFaults, Limit
  <2>2. Tables /\ Shape
    BY <2>1, TypesSpeltOut DEF TypeInv
  <2>3. Limit(e) \in Nat
    BY <2>2, Products DEF Limit, Tables, IsTable
  <2>4. NotificationDue(e) \in Nat /\ AnalyticsDue(e) \in Nat /\ Adding(e) \in {0, 1}
    BY <2>2 DEF NotificationDue, AnalyticsDue, Due, Adding, Tables, IsTable, Shape, Owed
  <2>5. QED
    BY <2>1, <2>2, <2>3, <2>4 DEF RepeatInv, Tables, IsTable
<1>4. QED
  BY <1>1, <1>2, <1>3, TypeInvHolds, PTL DEF Spec
=============================================================================
