------------------------------ MODULE MCOrders -------------------------------
(* Constants of the TLC instances of Orders. *)
EXTENDS Orders

Volumes == [o \in Order |-> 2]
Limits == [c \in Coin |-> 10]
==============================================================================
