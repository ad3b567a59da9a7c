---------------------------- MODULE OrderService ----------------------------
(* What the touch screen, the server, the bridge and the controller promise  *)
(* together of an order.  It may be lost on the way and it may be refused,   *)
(* but it is never dispensed twice, out of turn, or for another product; and *)
(* an acknowledgement is for an order that did reach the controller.  Orders *)
(* are named by their position in "ordered".                                 *)
EXTENDS Naturals, Sequences

CONSTANT Product

VARIABLES
    ordered,   \* the products ordered, in their order
    reached,   \* the orders that reached the controller
    driven,    \* the orders a motor was turned on for
    acked      \* the orders whose acknowledgement came back

vars == <<ordered, reached, driven, acked>>

Init == ordered = <<>> /\ reached = <<>> /\ driven = <<>> /\ acked = <<>>

IsIn(k, s) == \E i \in DOMAIN s : s[i] = k
After(k, s) == \A i \in DOMAIN s : s[i] < k

Order(p) ==
    /\ ordered' = Append(ordered, p)
    /\ UNCHANGED <<reached, driven, acked>>

Reach(k) ==
    /\ After(k, reached)
    /\ reached' = Append(reached, k)
    /\ UNCHANGED <<ordered, driven, acked>>

Drive(k) ==
    /\ IsIn(k, reached) /\ After(k, driven)
    /\ driven' = Append(driven, k)
    /\ UNCHANGED <<ordered, reached, acked>>

Acknowledge(k) ==
    /\ IsIn(k, reached) /\ After(k, acked)
    /\ acked' = Append(acked, k)
    /\ UNCHANGED <<ordered, reached, driven>>

Next ==
    \/ \E p \in Product : Order(p)
    \/ \E k \in DOMAIN ordered : Reach(k) \/ Drive(k) \/ Acknowledge(k)

Spec == Init /\ [][Next]_vars
=============================================================================
