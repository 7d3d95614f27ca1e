------------------------------ MODULE Warehouse ------------------------------
(***************************************************************************)
(* What the inventory worker promises, without workers, transactions or    *)
(* messages: stock moves from available to reserved by whole orders, one   *)
(* at a time, and never more than there is.                                *)
(***************************************************************************)
EXTENDS Integers, Sequences

CONSTANTS
    Orders,
    Products,
    Items,          \* Items[o]: sequence of [product, quantity]
    Stock           \* Stock[p]: what there is of p at first

VARIABLES
    stock,          \* what is left of each product
    reserved,       \* what is reserved of each product
    reservations    \* how often each order has been reserved

vars == <<stock, reserved, reservations>>

\* What the first n items of order o take of product p.
Running(o, p) ==
    LET sum[n \in 0..Len(Items[o])] ==
            IF n = 0 THEN 0
            ELSE sum[n - 1] + (IF Items[o][n].product = p THEN Items[o][n].quantity ELSE 0)
    IN  sum

\* What order o takes of product p; other products are not tracked.
Demand(o, p) == Running(o, p)[Len(Items[o])]

Init ==
    /\ stock = Stock
    /\ reserved = [p \in Products |-> 0]
    /\ reservations = [o \in Orders |-> 0]

Reserve(o) ==
    /\ stock' = [p \in Products |-> stock[p] - Demand(o, p)]
    /\ reserved' = [p \in Products |-> reserved[p] + Demand(o, p)]
    /\ \A p \in Products : stock'[p] >= 0
    /\ reservations' = [reservations EXCEPT ![o] = @ + 1]

Next == \E o \in Orders : Reserve(o)

Spec == Init /\ [][Next]_vars
=============================================================================
