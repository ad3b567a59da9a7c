------------------------- MODULE MCVendingFirmware -------------------------
(* Instances of VendingFirmware for TLC: what the Bluetooth peer sends. *)
EXTENDS VendingFirmware

MotorLine(s, n) == [from |-> s, verb |-> "MOTOR", arg |-> n]
Senders == {"KIOSK", "CONSOLE"}

(* Two products ordered by two senders, a number past the last product, and a *)
(* notice of the server.                                                      *)
MixedLines == {MotorLine("KIOSK", 1), MotorLine("CONSOLE", 2),
               MotorLine("KIOSK", NUM_MOTOR_PINS + 1),
               [from |-> "CONSOLE", verb |-> "NOTICE", arg |-> 0]}
OrderLines == {MotorLine("KIOSK", n) : n \in Motor}
=============================================================================
