------------------------ MODULE MCGenerationRefinement -----------------------
(* A small instance of GenerationRefinement for TLC. *)
EXTENDS GenerationRefinement, MCGenerationService
=============================================================================
