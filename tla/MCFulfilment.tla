---------------------------- MODULE MCFulfilment ----------------------------
(***************************************************************************)
(* A small instance of Fulfilment for TLC: two orders that want the same   *)
(* two products in opposite order; the stock suffices for each once.       *)
(***************************************************************************)
EXTENDS Fulfilment

CONSTANTS o1, o2, p1, p2

Wants(product, quantity) == [product |-> product, quantity |-> quantity]

CrossedItems ==
    [o \in Orders |->
        IF o = o1 THEN <<Wants(p1, 2), Wants("untracked", 1), Wants(p2, 1)>>
                  ELSE <<Wants(p2, 1), Wants(p1, 2)>>]

EnoughForBoth == [p \in Products |-> 4]
=============================================================================
