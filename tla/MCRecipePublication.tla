------------------------- MODULE MCRecipePublication --------------------------
(* Small instances of RecipePublication for TLC. *)
EXTENDS RecipePublication, TLC

CONSTANTS q1, q2, q3, soup

TwoRequests   == {q1, q2}
ThreeRequests == {q1, q2, q3}
OneRecipe     == {soup}

\* Requests are interchangeable.
Symmetry == Permutations(Requests)
=============================================================================
