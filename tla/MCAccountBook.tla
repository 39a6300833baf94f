---------------------------- MODULE MCAccountBook ----------------------------
(* The account book on small instances: what is left of a plan of two legs,  *)
(* the first buy and the second sell of the pair.                            *)
EXTENDS AccountBook

MCOrders == {"b1", "s2"}
MCBuys   == {"b1"}
MCLeg    == [o \in MCOrders |-> IF o = "s2" THEN 2 ELSE 1]
MCPlan   == <<"b1", "s2">>
=============================================================================
