------------------------------ MODULE Delivery ------------------------------
(* What the offline queue of a device promises: a sale recorded on the device *)
(* reaches the server once, sales reach it in the order they were recorded,   *)
(* and every sale gets there in the end.                                      *)
EXTENDS Naturals, Sequences

VARIABLES recorded,   \* how many sales the device has recorded
          delivered   \* the sales the server has, in the order it got them

vars == <<recorded, delivered>>

Init == recorded = 0 /\ delivered = <<>>

Record == recorded' = recorded + 1 /\ UNCHANGED delivered

(* The oldest sale that the server does not have yet. *)
Deliver == /\ Len(delivered) < recorded
           /\ delivered' = Append(delivered, Len(delivered) + 1)
           /\ UNCHANGED recorded

Next == Record \/ Deliver

Spec == Init /\ [][Next]_vars /\ WF_vars(Deliver)
=============================================================================
