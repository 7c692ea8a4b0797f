--------------------------- MODULE MCRefrigerator ---------------------------
(***************************************************************************)
(* Refrigerator for TLC: accounts and food codes are interchangeable.      *)
(***************************************************************************)
EXTENDS Refrigerator, TLC

Symmetry == Permutations(Users) \union Permutations(FoodCodes)
=============================================================================
