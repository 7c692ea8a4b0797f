---------------------------- MODULE MCRecipeFeed ----------------------------
(***************************************************************************)
(* RecipeFeed for TLC: the first user owns every odd recipe.               *)
(***************************************************************************)
EXTENDS RecipeFeed

CONSTANTS u1, u2

MCUsers == {u1, u2}
MCOwner == [d \in Recipes |-> IF d % 2 = 1 THEN u1 ELSE u2]
=============================================================================
