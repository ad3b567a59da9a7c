--------------------------- MODULE MCControlPanel ---------------------------
(* Instances of ControlPanel for TLC: products with a column in the database *)
(* and one without.                                                          *)
EXTENDS ControlPanel

Products == 1 .. 2
RecordedProducts == {1}
=============================================================================
