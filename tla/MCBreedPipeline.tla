-------------------------- MODULE MCBreedPipeline --------------------------
(* BreedPipeline as TLC runs it. *)
EXTENDS BreedPipeline
=============================================================================
