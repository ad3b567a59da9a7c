---------------------------- MODULE MCDogTracker ----------------------------
(* Instances of DogTracker for TLC: heights that reach both ends of the range. *)
EXTENDS DogTracker

Tilts == {-100, 60}
=============================================================================
