------------------------- MODULE RecipeFeed_proofs -------------------------
(***************************************************************************)
(* Proofs about RecipeFeed for every set of users and recipes and every    *)
(* number of listeners and changes.                                        *)
(***************************************************************************)
EXTENDS RecipeFeed, FiniteSetTheorems, TLAPS

-----------------------------------------------------------------------------
(* Types *)

\* Before anything is loaded.
LEMMA TypeInit == Init => TypeOK
<1> SUFFICES ASSUME Init PROVE TypeOK
  OBVIOUS
<1>1. docs \in [Recipes -> Documents \union {Absent}]
  BY DEF Init, Documents
<1>2. lists \in [Objects -> Seq(Infos)]
  BY DEF Init
<1> QED
  BY <1>1, <1>2 DEF Init, TypeOK, Objects

\* What the lists keep of a document that exists.
LEMMA EntryType ==
    ASSUME TypeOK, NEW d \in Present
    PROVE  Entry(d) \in Infos
BY DEF TypeOK, Present, Entry, Infos, Documents

\* The documents a rebuild gets through are some of those that exist.
LEMMA LoadedType == \A u : LoadedFor(u) \subseteq Present
BY DEF LoadedFor

\* Documents in order form a finite sequence, so the list built of them is one.
LEMMA BuiltType ==
    ASSUME TypeOK, NEW u, NEW s \in Ordered(LoadedFor(u))
    PROVE  /\ [i \in DOMAIN s |-> Entry(s[i])] \in Seq(Infos)
           /\ Range([i \in DOMAIN s |-> Entry(s[i])]) = {Entry(d) : d \in LoadedFor(u)}
<1> DEFINE D == LoadedFor(u)
<1>1. D \in SUBSET Recipes
  BY LoadedType DEF Present
<1>2. Cardinality(D) \in Nat
  BY <1>1, RecipesAssumption, FS_Subset, FS_CardinalityType
<1>3. s \in [1 .. Cardinality(D) -> D] /\ Range(s) = D
  BY DEF Ordered
<1>4. \A d \in D : Entry(d) \in Infos
  BY LoadedType, EntryType
<1>5. [i \in DOMAIN s |-> Entry(s[i])] \in [1 .. Cardinality(D) -> Infos]
  BY <1>3, <1>4
<1>6. [i \in DOMAIN s |-> Entry(s[i])] \in Seq(Infos)
  BY <1>2, <1>5
<1>7. Range([i \in DOMAIN s |-> Entry(s[i])]) = {Entry(d) : d \in D}
  BY <1>3 DEF Range
<1> QED
  BY <1>6, <1>7

\* The sort works in one of the two objects, on the very elements it holds.
LEMMA SortFacts ==
    ASSUME TypeOK, SortRecipesByLike
    PROVE  /\ popular' = info /\ info' = info
           /\ lists' \in [Objects -> Seq(Infos)]
           /\ Descending(lists'[info])
           /\ Range(lists'[info]) = Range(lists[info])
<1>1. PICK t \in Sorts(lists[info]) : lists' = [lists EXCEPT ![info] = t]
  BY DEF SortRecipesByLike
<1>2. info \in Objects /\ lists \in [Objects -> Seq(Infos)] /\ lists[info] \in Seq(Infos)
  BY DEF TypeOK
<1>3. /\ t \in [DOMAIN lists[info] -> Range(lists[info])]
      /\ Range(t) = Range(lists[info]) /\ Descending(t)
  BY DEF Sorts
<1>4. Range(lists[info]) \subseteq Infos
  BY <1>2 DEF Range
<1>5. t \in Seq(Infos)
  <2>1. DOMAIN lists[info] = 1 .. Len(lists[info]) /\ Len(lists[info]) \in Nat
    BY <1>2
  <2>2. t \in [1 .. Len(lists[info]) -> Infos]
    BY <1>3, <1>4, <2>1
  <2> QED
    BY <2>1, <2>2
<1> QED
  BY <1>1, <1>2, <1>3, <1>5 DEF SortRecipesByLike

\* Every step keeps the types.
LEMMA TypeNext == TypeOK /\ [Next]_vars => TypeOK'
<1> SUFFICES ASSUME TypeOK, [Next]_vars PROVE TypeOK'
  OBVIOUS
<1>1. CASE UNCHANGED vars
  BY <1>1 DEF vars, listVars, feedVars, TypeOK
<1>2. CASE LoadRecipes
  BY <1>2 DEF LoadRecipes, listVars, TypeOK
<1>3. CASE ListenerRuns
  <2>1. UNCHANGED <<favoriteRecipes, myRecipes>>
    BY <1>3 DEF ListenerRuns, SortRecipesByLike
  <2> QED
    BY <1>3, <2>1, SortFacts DEF ListenerRuns, TypeOK
<1>4. CASE SnapshotArrives
  <2>1. PICK s \in Ordered(LoadedFor(currentUser)) :
            lists' = [lists EXCEPT ![NewList] = [i \in DOMAIN s |-> Entry(s[i])]]
    BY <1>4 DEF SnapshotArrives
  <2>2. lists' \in [Objects -> Seq(Infos)]
    BY <2>1, BuiltType DEF TypeOK
  <2>3. info' \in Objects
    BY <1>4 DEF SnapshotArrives, NewList, TypeOK, Objects
  <2>4. favoriteRecipes' \subseteq Recipes /\ myRecipes' \subseteq Recipes
    BY <1>4 DEF SnapshotArrives, Present
  <2> QED
    BY <1>4, <2>2, <2>3, <2>4 DEF SnapshotArrives, TypeOK
<1>5. ASSUME NEW d \in Recipes, NEW r \in Documents \union {Absent}, CollectionChanges(d, r)
      PROVE  TypeOK'
  BY <1>5 DEF CollectionChanges, listVars, TypeOK
<1>6. ASSUME NEW u \in Users \union {NoUser}, UserChanges(u) PROVE TypeOK'
  BY <1>6 DEF UserChanges, listVars, TypeOK
<1> QED
  BY <1>1, <1>2, <1>3, <1>4, <1>5, <1>6 DEF Next

\* Every reachable state has its type: the two list objects hold finite lists of
\* recipes whatever rebuild and sort do to them.
THEOREM TypeCorrect == Spec => []TypeOK
BY TypeInit, TypeNext, PTL DEF Spec

-----------------------------------------------------------------------------
(* The lists *)

\* A listener that has run has installed a snapshot listener.
Listening == subs > 0 => calls > 0 \/ snaps

\* The lists are those of the present collection and user.
ListsCurrent ==
    /\ Range(recipeInformation) = {Entry(d) : d \in Present}
    /\ DOMAIN recipeInformation = 1 .. Cardinality(Present)
    /\ favoriteRecipes = {d \in Present : currentUser \in docs[d].likeusers}
    /\ myRecipes = {d \in Present : Owner[d] = currentUser}

\* Lists that are not current are about to be built again.
RefreshDue ==
    currentUser # NoUser /\ subs > 0 => calls > 0 \/ due > 0 \/ ListsCurrent

\* With a snapshot listener installed and no snapshot on its way, the list holds
\* what the last rebuild, for whomever, made of the collection as it still is.
BuiltForSomebody ==
    \E u \in Users \union {NoUser} :
        Range(recipeInformation) = {Entry(d) : d \in LoadedFor(u)}

Undisturbed == snaps /\ due = 0 => BuiltForSomebody

Inv == TypeOK /\ Listening /\ RefreshDue /\ Undisturbed /\ PopularIsSorted /\ ListsAgree

\* Before anything is loaded the invariant holds.
LEMMA InvInit == Init => Inv
<1> SUFFICES ASSUME Init PROVE Inv
  OBVIOUS
<1>1. Listening /\ RefreshDue /\ Undisturbed /\ ListsAgree
  BY DEF Init, Listening, RefreshDue, Undisturbed, ListsAgree
<1>2. popularRecipes = <<>>
  BY DEF Init, popularRecipes, Objects
<1>3. PopularIsSorted
  BY <1>2 DEF PopularIsSorted, Descending
<1> QED
  BY <1>1, <1>3, TypeInit DEF Inv

\* A snapshot goes to the object the popular list is not in, and makes of all
\* three lists what the present collection holds for the user.
LEMMA SnapshotFacts ==
    ASSUME TypeOK, SnapshotArrives
    PROVE  /\ info' # popular /\ lists'[popular] = lists[popular]
           /\ Range(recipeInformation') = {Entry(d) : d \in LoadedFor(currentUser)}
           /\ DOMAIN recipeInformation' = 1 .. Cardinality(LoadedFor(currentUser))
           /\ favoriteRecipes' = {d \in Present : currentUser \in docs[d].likeusers}
           /\ myRecipes' = {d \in Present : Owner[d] = currentUser}
<1>1. NewList \in Objects /\ NewList # popular
  BY DEF TypeOK, NewList, Objects
<1>2. PICK s \in Ordered(LoadedFor(currentUser)) :
          lists' = [lists EXCEPT ![NewList] = [i \in DOMAIN s |-> Entry(s[i])]]
  BY DEF SnapshotArrives
<1>3. recipeInformation' = [i \in DOMAIN s |-> Entry(s[i])] /\ lists'[popular] = lists[popular]
  BY <1>1, <1>2 DEF SnapshotArrives, TypeOK, recipeInformation
<1>4. DOMAIN s = 1 .. Cardinality(LoadedFor(currentUser))
  BY DEF Ordered
<1> QED
  BY <1>1, <1>3, <1>4, BuiltType DEF SnapshotArrives

\* So a rebuild for a user who is signed in makes the lists current.
LEMMA SnapshotCurrent ==
    ASSUME TypeOK, SnapshotArrives, currentUser # NoUser
    PROVE  ListsCurrent'
<1>1. UNCHANGED <<currentUser, docs>>
  BY DEF SnapshotArrives
<1>2. LoadedFor(currentUser) = Present /\ Present' = Present
  BY <1>1 DEF LoadedFor, Present
<1>3. Range(recipeInformation') = {Entry(d)' : d \in Present'}
  BY <1>1, <1>2, SnapshotFacts DEF Entry
<1> QED
  BY <1>1, <1>2, <1>3, SnapshotFacts DEF ListsCurrent

\* And one for whomever makes the list what it holds for that user.
LEMMA SnapshotBuilds ==
    ASSUME TypeOK, SnapshotArrives
    PROVE  BuiltForSomebody'
<1>1. UNCHANGED <<currentUser, docs>> /\ currentUser \in Users \union {NoUser}
  BY DEF SnapshotArrives, TypeOK
<1>2. LoadedFor(currentUser)' = LoadedFor(currentUser) /\ \A d : Entry(d)' = Entry(d)
  BY <1>1 DEF LoadedFor, Present, Entry
<1>3. Range(recipeInformation') = {Entry(d)' : d \in LoadedFor(currentUser)'}
  BY <1>2, SnapshotFacts
<1> QED
  BY <1>1, <1>3 DEF BuiltForSomebody, LoadedFor, Present

\* And whoever is signed in, nobody included, favourites and own recipes are
\* among those the rebuild got through.
LEMMA SnapshotAgrees ==
    ASSUME TypeOK, SnapshotArrives
    PROVE  ListsAgree'
<1>1. ASSUME NEW d \in favoriteRecipes' \union myRecipes'
      PROVE  d \in LoadedFor(currentUser)
  <2>1. d \in Present /\ (currentUser \in docs[d].likeusers \/ Owner[d] = currentUser)
    BY <1>1, SnapshotFacts
  <2>2. docs[d] \in Documents /\ Owner[d] \in Users
    BY <2>1, OwnerAssumption DEF Present, TypeOK
  <2>3. currentUser \in Users
    BY <2>1, <2>2 DEF Documents
  <2> QED
    BY <2>1, <2>3, NoUserAssumption DEF LoadedFor
<1>2. ASSUME NEW d \in LoadedFor(currentUser)
      PROVE  d \in {r.docId : r \in Range(recipeInformation')}
  <2>1. Entry(d) \in Range(recipeInformation') /\ Entry(d).docId = d
    BY SnapshotFacts DEF Entry
  <2> QED
    BY <2>1
<1> QED
  BY <1>1, <1>2 DEF ListsAgree

\* Every step keeps the invariant.
LEMMA InvNext == Inv /\ [Next]_vars => Inv'
<1> SUFFICES ASSUME Inv, [Next]_vars PROVE Inv'
  OBVIOUS
<1> USE NoUserAssumption DEF Inv
<1>0. TypeOK'
  BY TypeNext
<1>1. CASE UNCHANGED vars
  BY <1>0, <1>1 DEF vars, listVars, feedVars, Listening, RefreshDue, ListsCurrent, ListsAgree,
              Undisturbed, BuiltForSomebody, LoadedFor,
              PopularIsSorted, Descending, recipeInformation, popularRecipes, Present, Entry
<1>2. CASE LoadRecipes
  BY <1>0, <1>2 DEF LoadRecipes, listVars, TypeOK, Listening, RefreshDue, PopularIsSorted,
              Undisturbed, BuiltForSomebody, LoadedFor, Entry, Present,
              Descending, popularRecipes, ListsAgree, recipeInformation
<1>3. CASE ListenerRuns
  <2>1. SortRecipesByLike /\ due' > 0 /\ snaps' = TRUE
    BY <1>3 DEF ListenerRuns, TypeOK
  <2>2. PopularIsSorted'
    BY <2>1, SortFacts DEF PopularIsSorted, popularRecipes, Descending
  <2>3. Range(recipeInformation') = Range(recipeInformation)
    BY <2>1, SortFacts DEF recipeInformation
  <2>4. ListsAgree'
    BY <2>1, <2>3 DEF ListsAgree, SortRecipesByLike
  <2> QED
    BY <1>0, <2>1, <2>2, <2>4 DEF Listening, RefreshDue, Undisturbed
<1>4. CASE SnapshotArrives
  <2>1. UNCHANGED <<currentUser, docs, popular, subs, calls, snaps, changes>>
    BY <1>4 DEF SnapshotArrives
  <2>2. PopularIsSorted'
    BY <1>4, <2>1, SnapshotFacts DEF PopularIsSorted, popularRecipes, Descending
  <2>3. Listening' /\ RefreshDue'
    BY <1>4, <2>1, SnapshotCurrent DEF Listening, RefreshDue
  <2> QED
    BY <1>0, <1>4, <2>2, <2>3, SnapshotAgrees, SnapshotBuilds DEF Undisturbed
<1>5. ASSUME NEW d \in Recipes, NEW r, CollectionChanges(d, r) PROVE Inv'
  BY <1>0, <1>5 DEF CollectionChanges, listVars, TypeOK, Listening, RefreshDue, Undisturbed,
              PopularIsSorted, Descending, popularRecipes, ListsAgree, recipeInformation
<1>6. ASSUME NEW u \in Users \union {NoUser}, UserChanges(u) PROVE Inv'
  <2>1. Undisturbed'
    BY <1>6 DEF UserChanges, listVars, Undisturbed, BuiltForSomebody, LoadedFor, Entry,
                Present, recipeInformation
  <2>2. PopularIsSorted' /\ ListsAgree'
    BY <1>6 DEF UserChanges, listVars, PopularIsSorted, Descending, popularRecipes,
                ListsAgree, recipeInformation
  <2>3. Listening' /\ RefreshDue'
    BY <1>6 DEF UserChanges, TypeOK, Listening, RefreshDue
  <2> QED
    BY <1>0, <2>1, <2>2, <2>3
<1> QED
  BY <1>1, <1>2, <1>3, <1>4, <1>5, <1>6 DEF Next

\* The invariant holds always.
LEMMA Invariance == Spec => []Inv
BY InvInit, InvNext, PTL DEF Spec

\* The popular list is sorted at every instant, whatever snapshots arrive.
THEOREM PopularStaysSorted == Spec => []PopularIsSorted
<1>1. Inv => PopularIsSorted
  BY DEF Inv
<1> QED
  BY <1>1, Invariance, PTL

\* Once nothing is outstanding, the lists are those of the collection and of the
\* user who is signed in, whoever came and went before.
THEOREM ListsSettle == Spec => []SettledLists
<1>1. Inv => SettledLists
  BY DEF Inv, RefreshDue, ListsCurrent, SettledLists, Settled, TypeOK
<1> QED
  BY <1>1, Invariance, PTL

\* The favourites and own recipes shown are always among the recipes known, also
\* after a rebuild that threw because nobody was signed in.
THEOREM ListsAlwaysAgree == Spec => []ListsAgree
<1>1. Inv => ListsAgree
  BY DEF Inv
<1> QED
  BY <1>1, Invariance, PTL

\* A listener that runs with no snapshot on its way makes the popular list of the
\* collection as it is, however many snapshots and users there were before.
THEOREM ReloadMakesPopular == Spec => PopularAfterReload
<1>1. Inv /\ [Next]_vars =>
          [calls' < calls /\ snaps /\ due = 0 =>
               \E u \in Users \union {NoUser} :
                   Range(popularRecipes') = {Entry(d) : d \in LoadedFor(u)}]_vars
  <2> SUFFICES ASSUME Inv, Next, calls' < calls, snaps, due = 0
               PROVE  \E u \in Users \union {NoUser} :
                          Range(popularRecipes') = {Entry(d) : d \in LoadedFor(u)}
    OBVIOUS
  <2>1. ListenerRuns
    <3>1. calls \in Nat /\ subs \in Nat
      BY DEF Inv, TypeOK
    <3>2. ASSUME LoadRecipes PROVE FALSE
      BY <3>1, <3>2 DEF LoadRecipes
    <3>3. ASSUME SnapshotArrives PROVE FALSE
      <4>1. calls' = calls
        BY <3>3 DEF SnapshotArrives
      <4> QED
        BY <3>1, <4>1
    <3>4. ASSUME NEW d, NEW r, CollectionChanges(d, r) PROVE FALSE
      BY <3>1, <3>4 DEF CollectionChanges
    <3>5. ASSUME NEW u, UserChanges(u) PROVE FALSE
      BY <3>1, <3>5 DEF UserChanges
    <3> QED
      BY <3>2, <3>3, <3>4, <3>5 DEF Next
  <2>2. TypeOK /\ SortRecipesByLike /\ BuiltForSomebody
    BY <2>1 DEF ListenerRuns, Inv, Undisturbed
  <2>3. Range(popularRecipes') = Range(recipeInformation)
    BY <2>2, SortFacts DEF popularRecipes, recipeInformation
  <2> QED
    BY <2>2, <2>3 DEF BuiltForSomebody
<1> QED
  BY <1>1, Invariance, PTL DEF Spec, PopularAfterReload

-----------------------------------------------------------------------------
(***************************************************************************)
(* RecipeFeed implements CatchUp.  A snapshot is a Refresh for the user    *)
(* signed in when it arrives, a sort changes only the order, and every     *)
(* other step that matters leaves a listener or a snapshot to come, by     *)
(* Listening also a change of the collection.                              *)
(***************************************************************************)
\* What a rebuild would make of the collection has the type of the lists.
RebuiltOK ==
    [u \in Users \union {NoUser} |-> Rebuilt(u)] \in
        [Users \union {NoUser} ->
            [recipes : SUBSET Infos, favourite : SUBSET Recipes, mine : SUBSET Recipes]]

LEMMA RebuiltType == TypeOK => RebuiltOK
<1> SUFFICES ASSUME TypeOK PROVE RebuiltOK
  OBVIOUS
<1>1. \A u : {Entry(d) : d \in LoadedFor(u)} \subseteq Infos
  BY LoadedType, EntryType
<1>2. Present \subseteq Recipes
  BY DEF Present
<1> QED
  BY <1>1, <1>2 DEF Rebuilt, RebuiltOK

\* So it has after a step.
LEMMA RebuiltTypeNext == TypeOK' => RebuiltOK'
BY RebuiltType, PTL

\* The first state is one of CatchUp's.
LEMMA CopyInit == Init => Copy!Init
<1> SUFFICES ASSUME Init PROVE Copy!Init
  OBVIOUS
<1>1. TypeOK
  BY TypeInit
<1>2. Range(recipeInformation) = {}
  BY DEF Init, recipeInformation, Range, Objects
<1>3. {currentUser} \subseteq Users \union {NoUser}
  BY DEF Init
<1>4. ~(subs > 0 /\ calls = 0 /\ due = 0) /\ favoriteRecipes = {} /\ myRecipes = {}
  BY DEF Init
<1> QED
  BY <1>1, <1>2, <1>3, <1>4, RebuiltType DEF RebuiltOK, Copy!Init

\* A step that keeps the lists' content and leaves an answer due disturbs at most.
LEMMA CopyDisturb ==
    ASSUME TypeOK', ~(subs > 0 /\ calls = 0 /\ due = 0)',
           Range(recipeInformation') = Range(recipeInformation),
           UNCHANGED <<favoriteRecipes, myRecipes>>
    PROVE  Copy!Next
<1>1. RebuiltOK'
  BY RebuiltTypeNext
<1>2. {currentUser'} \subseteq Users \union {NoUser}
  BY DEF TypeOK
<1> QED
  BY <1>1, <1>2 DEF RebuiltOK, Copy!Next, Copy!Disturb

\* Every step is one of CatchUp's, or none.
LEMMA CopyNext == Inv /\ Inv' /\ [Next]_vars => [Copy!Next]_(Copy!vars)
<1> SUFFICES ASSUME Inv, Inv', [Next]_vars PROVE Copy!Next \/ UNCHANGED Copy!vars
  OBVIOUS
<1> USE DEF Inv
<1>1. CASE UNCHANGED vars
  BY <1>1 DEF vars, listVars, feedVars, Copy!vars, Rebuilt, LoadedFor, Entry, Present,
              recipeInformation
<1>2. CASE LoadRecipes
  <2>1. ~(subs > 0 /\ calls = 0 /\ due = 0)' /\ UNCHANGED listVars
    BY <1>2 DEF LoadRecipes, TypeOK
  <2> QED
    BY <2>1, CopyDisturb DEF listVars, recipeInformation
<1>3. CASE ListenerRuns
  <2>1. SortRecipesByLike /\ ~(subs > 0 /\ calls = 0 /\ due = 0)'
    BY <1>3 DEF ListenerRuns, TypeOK
  <2>2. Range(recipeInformation') = Range(recipeInformation)
    BY <2>1, SortFacts DEF recipeInformation
  <2> QED
    BY <2>1, <2>2, CopyDisturb DEF SortRecipesByLike
<1>4. CASE SnapshotArrives
  <2>1. UNCHANGED <<currentUser, docs>> /\ ~(subs > 0 /\ calls = 0 /\ due = 0)
    BY <1>4 DEF SnapshotArrives, TypeOK
  <2>2. [recipes |-> Range(recipeInformation'), favourite |-> favoriteRecipes',
         mine |-> myRecipes'] = Rebuilt(currentUser)
    BY <1>4, SnapshotFacts DEF Rebuilt
  <2>3. currentUser \in Users \union {NoUser}
    BY DEF TypeOK
  <2>4. [u \in Users \union {NoUser} |-> Rebuilt(u)]' = [u \in Users \union {NoUser} |-> Rebuilt(u)]
    BY <2>1 DEF Rebuilt, LoadedFor, Entry, Present
  <2>5. Copy!Refresh(currentUser)
    BY <2>1, <2>2, <2>3, <2>4 DEF Copy!Refresh
  <2> QED
    BY <2>5 DEF Copy!Next
<1>5. ASSUME NEW d \in Recipes, NEW r, CollectionChanges(d, r) PROVE Copy!Next
  <2>1. ~(subs > 0 /\ calls = 0 /\ due = 0)' /\ UNCHANGED listVars
    BY <1>5 DEF CollectionChanges, TypeOK, Listening
  <2> QED
    BY <2>1, CopyDisturb DEF listVars, recipeInformation
<1>6. ASSUME NEW u \in Users \union {NoUser}, UserChanges(u) PROVE Copy!Next
  <2>1. ~(subs > 0 /\ calls = 0 /\ due = 0)' /\ UNCHANGED listVars
    BY <1>6 DEF UserChanges, TypeOK
  <2> QED
    BY <2>1, CopyDisturb DEF listVars, recipeInformation
<1> QED
  BY <1>1, <1>2, <1>3, <1>4, <1>5, <1>6 DEF Next

\* RecipeProvider keeps the promise of CatchUp for its three lists together.
THEOREM FeedCatchesUp == Spec => ListsCatchUp
BY CopyInit, CopyNext, Invariance, PTL DEF Spec, ListsCatchUp, Copy!Spec
=============================================================================
