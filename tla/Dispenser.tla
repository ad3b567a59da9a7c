------------------------------ MODULE Dispenser ------------------------------
(* What the vending controller promises, with its interrupt, its tasks and   *)
(* its sensors left out: an order that is taken waits in a line of bounded   *)
(* length, orders are served in the order they were taken, serving one turns *)
(* the motor of its product on, and only a product that is out turns it off. *)
EXTENDS Naturals, Sequences

CONSTANTS
    Motor,       \* the motors, one for each product
    Capacity     \* how many orders may wait

VARIABLES
    orders,      \* the motors of the orders taken and not served, oldest first
    running      \* the motors that are on

vars == <<orders, running>>

Init == orders = <<>> /\ running = {}

Take(n) ==
    /\ Len(orders) < Capacity
    /\ orders' = Append(orders, n)
    /\ UNCHANGED running

Serve ==
    /\ orders # <<>>
    /\ orders' = Tail(orders)
    /\ running' = running \cup {Head(orders)}

(* Any number of sensors may see their product at once. *)
Stop ==
    /\ running' \subseteq running
    /\ UNCHANGED orders

Next == (\E n \in Motor : Take(n)) \/ Serve \/ Stop

Spec == Init /\ [][Next]_vars
FairSpec == Spec /\ WF_vars(Serve)
=============================================================================
