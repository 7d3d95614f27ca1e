------------------------------ MODULE Commerce ------------------------------
(***************************************************************************)
(* Payments and what is made of them: PaymentService publishes to          *)
(* BUSINESS, the notification worker writes to the customer and the        *)
(* analytics worker counts.  Orders and low stock are published by         *)
(* services outside this module.                                           *)
(***************************************************************************)
EXTENDS Naturals

CONSTANTS
    Clients, Payments,
    Others,         \* orders.created and inventory.low events
    MaxFaults       \* failed publishes and handlers, lost acks, crashes (bound)

ASSUME BoundAssumption == MaxFaults \in Nat

ASSUME OthersAssumption == \A e \in Others : e.subject \in {"orders.created", "inventory.low"}

VARIABLES
    payments, at, refunds, overlapped,
    nStored, nHeard, nMode, nBusy,
    aStored, aHeard, aMode, aBusy,
    sent,       \* history: emails, pushes or alerts about each event
    tally,      \* Redis counters, by the event that was counted
    revenue,    \* the hourly revenue, by the order that was added
    published,  \* history: copies of each event that were published
    faults

Payment == INSTANCE PaymentService

Events ==
    Others \union {Payment!Completed(p) : p \in Payments}
           \union {Payment!Failed(p) : p \in Payments}

Notification == INSTANCE Subscription
    WITH stored <- nStored, heard <- nHeard, mode <- nMode, busy <- nBusy

Analytics == INSTANCE Subscription
    WITH stored <- aStored, heard <- aHeard, mode <- aMode, busy <- aBusy

paymentVars == <<payments, at, refunds, overlapped>>

notificationVars == <<nStored, nHeard, nMode, nBusy, sent>>

analyticsVars == <<aStored, aHeard, aMode, aBusy, tally, revenue>>

vars == <<paymentVars, notificationVars, analyticsVars, published, faults>>

Init ==
    /\ Payment!Init
    /\ Notification!Init
    /\ Analytics!Init
    /\ sent = [e \in Events |-> 0]
    /\ tally = [e \in Events |-> 0]
    /\ revenue = [e \in Events |-> 0]
    /\ published = [e \in Events |-> 0]
    /\ faults = 0

Fault == faults < MaxFaults /\ faults' = faults + 1

Up(f, e) == [f EXCEPT ![e] = @ + 1]

-----------------------------------------------------------------------------
(* The stream.                                                             *)

Publish(e) ==
    /\ Notification!Receive(e)
    /\ Analytics!Receive(e)
    /\ published' = Up(published, e)
    /\ UNCHANGED <<sent, tally, revenue>>

OtherPublishes(e) ==
    e \in Others /\ published[e] = 0 /\ Publish(e) /\ UNCHANGED <<paymentVars, faults>>

PaymentAnnounces(c, p, e) == Payment!Announce(c, p, e) /\ Publish(e) /\ UNCHANGED faults

AnnouncementFails(c, p, e) ==
    /\ Payment!Announce(c, p, e)
    /\ Fault
    /\ UNCHANGED <<notificationVars, analyticsVars, published>>

PaymentStops ==
    /\ Fault
    /\ \E c \in Clients : Payment!Abandon(c)
    /\ UNCHANGED <<notificationVars, analyticsVars, published>>

PaymentStep ==
    Payment!Next /\ UNCHANGED <<notificationVars, analyticsVars, published, faults>>

-----------------------------------------------------------------------------
(* The notification worker: the handlers send before they give way.        *)

Notify(e) ==
    /\ Notification!Take(e, "ack")
    /\ sent' = Up(sent, e)
    /\ UNCHANGED <<paymentVars, analyticsVars, published, faults>>

AckNotified(e) ==
    Notification!Ack(e) /\ UNCHANGED <<sent, paymentVars, analyticsVars, published, faults>>

StartNotification ==
    Notification!Start /\ UNCHANGED <<sent, paymentVars, analyticsVars, published, faults>>

NotificationFails ==
    /\ Fault
    /\ Notification!Stop \/ \E e \in Events : Notification!Raise(e)
    /\ UNCHANGED <<sent, paymentVars, analyticsVars, published>>

-----------------------------------------------------------------------------
(* The analytics worker: an order is counted, then its total is added.     *)

IsOrder(e) == e.subject = "orders.created"

Count(e) ==
    /\ Analytics!Take(e, IF IsOrder(e) THEN "work" ELSE "ack")
    /\ tally' = Up(tally, e)
    /\ UNCHANGED <<revenue, paymentVars, notificationVars, published, faults>>

AddRevenue(e) ==
    /\ Analytics!Worked(e)
    /\ revenue' = Up(revenue, e)
    /\ UNCHANGED <<tally, paymentVars, notificationVars, published, faults>>

AckCounted(e) ==
    Analytics!Ack(e)
        /\ UNCHANGED <<tally, revenue, paymentVars, notificationVars, published, faults>>

StartAnalytics ==
    Analytics!Start
        /\ UNCHANGED <<tally, revenue, paymentVars, notificationVars, published, faults>>

\* Mutant of AnalyticsFails: what the handler raises is logged and acknowledged.
FailureAcked ==
    /\ Fault
    /\ \E e \in Events :
          /\ aBusy[e] = "work"
          /\ aBusy' = [aBusy EXCEPT ![e] = "idle"]
          /\ aStored' = [aStored EXCEPT ![e] = @ - 1]
          /\ UNCHANGED <<aHeard, aMode>>
    /\ UNCHANGED <<tally, revenue, paymentVars, notificationVars, published>>

AnalyticsFails ==
    /\ Fault
    /\ Analytics!Stop \/ \E e \in Events : Analytics!Raise(e)
    /\ UNCHANGED <<tally, revenue, paymentVars, notificationVars, published>>

-----------------------------------------------------------------------------

Next ==
    \/ PaymentStep \/ PaymentStops
    \/ \E c \in Clients, p \in Payments, e \in Events :
          PaymentAnnounces(c, p, e) \/ AnnouncementFails(c, p, e)
    \/ \E e \in Events :
          OtherPublishes(e) \/ Notify(e) \/ AckNotified(e)
             \/ Count(e) \/ AddRevenue(e) \/ AckCounted(e)
    \/ StartNotification \/ NotificationFails \/ StartAnalytics \/ AnalyticsFails

Spec == Init /\ [][Next]_vars

-----------------------------------------------------------------------------

\* Every variable of the service and of both workers keeps its type.
TypeOK ==
    /\ Payment!TypeOK
    /\ Notification!TypeOK
    /\ Analytics!TypeOK
    /\ {sent, tally, revenue, published} \subseteq [Events -> Nat]
    /\ faults \in Nat

\* No customer is written to about a payment that is not in the table, or
\* about a refund that is not: a row is committed before it is announced.
NoticesAreTrue ==
    \A p \in Payments :
        /\ sent[Payment!Completed(p)] > 0 => payments[p] # "none"
        /\ sent[Payment!Failed(p)] > 0 => payments[p] = "refunded"

\* A payment is refunded twice only by two requests that overlap.
RefundedOnce == \A p \in Payments \ overlapped : refunds[p] <= 1

\* Whatever fails, each copy of an event that was published is still owed to a
\* worker until the worker is through with it.
NothingIsDropped ==
    \A e \in Events :
        /\ sent[e] + nStored[e] >= published[e]
        /\ (IF IsOrder(e) THEN revenue[e] ELSE tally[e]) + aStored[e] >= published[e]

\* A copy of an event is notified of or counted again only after a fault, and
\* orders run ahead of revenue only by what failed between the two writes.
RepeatsAreFaults ==
    \A e \in Events :
        /\ sent[e] <= published[e] * (1 + faults)
        /\ tally[e] <= published[e] * (1 + faults)
        /\ IsOrder(e) => revenue[e] <= tally[e] /\ tally[e] <= revenue[e] + faults + 1
=============================================================================
