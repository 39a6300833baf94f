-------------------------- MODULE MCAccountOrders --------------------------
(* Small instances of AccountOrders for TLC. *)
EXTENDS AccountOrders

CONSTANTS s1, s2, p1, x1

\* Every position reverses into an order of the same shape as the user's s2.
Reverse0 == [p \in {} |-> s2]
Reverse1 == [p \in {p1} |-> s2]
=============================================================================
