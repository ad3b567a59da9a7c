------------------------------- MODULE MCKiosk -------------------------------
(* Instances of Kiosk for TLC: two products, one of them without a motor. *)
EXTENDS Kiosk

Products == 1 .. 2
Motors == {1}
=============================================================================
