--------------------------- MODULE PaymentService ---------------------------
(***************************************************************************)
(* services/payment-service: a payment is inserted as completed, a refund  *)
(* is a SELECT, a test and an UPDATE, each a statement on its own; what    *)
(* has happened is published afterwards and a failure to is swallowed.     *)
(***************************************************************************)
EXTENDS Naturals

CONSTANTS Clients, Payments

VARIABLES
    payments,   \* the status of each row, "none" if there is none
    at,         \* where each request is
    refunds,    \* history: refunds of each payment that were confirmed
    overlapped  \* history: payments that two refunds were at together

paymentVars == <<payments, at, refunds, overlapped>>

Idle == [op |-> "idle"]

On(op, p) == [op |-> op, payment |-> p]

Completed(p) == [subject |-> "payments.completed", of |-> p]

Failed(p) == [subject |-> "payments.failed", of |-> p]

Init ==
    /\ payments = [p \in Payments |-> "none"]
    /\ at = [c \in Clients |-> Idle]
    /\ refunds = [p \in Payments |-> 0]
    /\ overlapped = {}

Go(c, step) == at' = [at EXCEPT ![c] = step]

\* Mutant of Create: the payment is announced before its row is inserted.
CreateLater(c, p) ==
    /\ at[c] = Idle
    /\ payments[p] = "none"
    /\ Go(c, On("paid", p))
    /\ UNCHANGED <<payments, refunds, overlapped>>

Create(c, p) ==
    /\ at[c] = Idle
    /\ payments[p] = "none"
    /\ payments' = [payments EXCEPT ![p] = "completed"]
    /\ Go(c, On("paid", p))
    /\ UNCHANGED <<refunds, overlapped>>

\* Mutant of Refundable: whether the payment was refunded before is not asked.
Exists(p) == payments[p] # "none"

Refundable(p) == payments[p] = "completed"

RefundReads(c, p) ==
    /\ at[c] = Idle
    /\ Refundable(p)
    /\ Go(c, On("refund", p))
    /\ overlapped' = IF \E d \in Clients : at[d] = On("refund", p)
                     THEN overlapped \union {p} ELSE overlapped
    /\ UNCHANGED <<payments, refunds>>

RefundUpdates(c, p) ==
    /\ at[c] = On("refund", p)
    /\ payments' = [payments EXCEPT ![p] = "refunded"]
    /\ Go(c, On("refunded", p))
    /\ UNCHANGED <<refunds, overlapped>>

\* What _publish_event is given, whether or not it gets it published.
Announce(c, p, e) ==
    /\ \/ at[c] = On("paid", p) /\ e = Completed(p) /\ UNCHANGED refunds
       \/ /\ at[c] = On("refunded", p)
          /\ e = Failed(p)
          /\ refunds' = [refunds EXCEPT ![p] = @ + 1]
    /\ Go(c, Idle)
    /\ UNCHANGED <<payments, overlapped>>

\* The service stops.
Abandon(c) == at[c] # Idle /\ Go(c, Idle) /\ UNCHANGED <<payments, refunds, overlapped>>

Next ==
    \E c \in Clients, p \in Payments :
       Create(c, p) \/ RefundReads(c, p) \/ RefundUpdates(c, p)

\* Every variable keeps its type.
TypeOK ==
    /\ payments \in [Payments -> {"none", "completed", "refunded"}]
    /\ at \in [Clients -> {Idle} \union
                   [op : {"paid", "refund", "refunded"}, payment : Payments]]
    /\ refunds \in [Payments -> Nat]
    /\ overlapped \subseteq Payments
=============================================================================
