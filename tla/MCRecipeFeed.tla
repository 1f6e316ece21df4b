----------------------------- MODULE MCRecipeFeed -----------------------------
(* A small instance of RecipeFeed for TLC. *)
EXTENDS RecipeFeed

FourRecipes == 1..4
=============================================================================
