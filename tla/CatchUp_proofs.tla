--------------------------- MODULE CatchUp_proofs ---------------------------
(***************************************************************************)
(* The promise of CatchUp, for every set of sources and contents.          *)
(***************************************************************************)
EXTENDS CatchUp, TLAPS

Inv == TypeOK /\ NothingDueIsCurrent

LEMMA InitInv == Init => Inv
BY DEF Init, Inv, TypeOK, NothingDueIsCurrent

LEMMA NextInv == Inv /\ [Next]_vars => Inv'
<1> SUFFICES ASSUME Inv, [Next]_vars
             PROVE  Inv'
    OBVIOUS
<1> USE DEF Inv, TypeOK, NothingDueIsCurrent
<1>1. CASE Disturb
    BY <1>1 DEF Disturb
<1>2. CASE Elsewhere
    BY <1>2 DEF Elsewhere
<1>3. ASSUME NEW k \in asked, Refresh(k)
      PROVE  Inv'
    BY <1>3 DEF Refresh
<1>4. CASE Restart
    BY <1>4 DEF Restart
<1>5. CASE UNCHANGED vars
    BY <1>5 DEF vars
<1>6. QED
    BY <1>1, <1>2, <1>3, <1>4, <1>5 DEF Next

\* A list that catches up shows, whenever nothing is due, the present content of
\* a source that was asked for.  Refrigerator, RecipeFeed and WeatherRecipe
\* inherit it through their refinements.
THEOREM CatchUpCurrent == Spec => []NothingDueIsCurrent
<1>1. Inv => NothingDueIsCurrent
    BY DEF Inv
<1>2. QED
    BY InitInv, NextInv, <1>1, PTL DEF Spec
=============================================================================
