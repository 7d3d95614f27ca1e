----------------------------- MODULE MCCommerce -----------------------------
(***************************************************************************)
(* Commerce for TLC: one order besides the payments.                       *)
(***************************************************************************)
EXTENDS Commerce

CONSTANT o1

OneOrder == {[subject |-> "orders.created", of |-> o1]}
=============================================================================
