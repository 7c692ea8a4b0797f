--------------------------- MODULE MCRecipeLikes ---------------------------
(***************************************************************************)
(* RecipeLikes for TLC: users are interchangeable.                         *)
(***************************************************************************)
EXTENDS RecipeLikes, TLC

Symmetry == Permutations(Users)
=============================================================================
