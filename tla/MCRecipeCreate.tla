--------------------------- MODULE MCRecipeCreate ---------------------------
(* RecipeCreate for TLC. *)
EXTENDS RecipeCreate
=============================================================================
