-------------------------- MODULE OrderLifecycle --------------------------
(***************************************************************************)
(* The life of an order as its OrderStatus describes it: it is PENDING,    *)
(* then INVENTORY_RESERVED, and ends COMPLETED or CANCELLED for good.      *)
(***************************************************************************)
CONSTANT Orders

VARIABLE status

Init == status = [o \in Orders |-> "NONE"]

Move(o, from, to) == status[o] = from /\ status' = [status EXCEPT ![o] = to]

Next == \E o \in Orders :
           \/ Move(o, "NONE", "PENDING")
           \/ Move(o, "PENDING", "INVENTORY_RESERVED")
           \/ Move(o, "PENDING", "CANCELLED")
           \/ Move(o, "INVENTORY_RESERVED", "COMPLETED")
           \/ Move(o, "INVENTORY_RESERVED", "CANCELLED")

Spec == Init /\ [][Next]_status
=============================================================================
