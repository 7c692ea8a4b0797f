----------------------------- MODULE RecipeFeed -----------------------------
(***************************************************************************)
(* RecipeProvider's view of the recipe collection 'forUana': loadRecipes,  *)
(* sortRecipesByLike and the lists the pages show.                         *)
(*                                                                         *)
(* Every call of loadRecipes leaves a userChanges listener behind.  Every  *)
(* run of such a listener leaves a snapshot listener behind and sorts at   *)
(* once what the provider holds by then.  Every snapshot listener rebuilds *)
(* the lists when it is installed and at every change of the collection.   *)
(* Nothing is ever cancelled.                                              *)
(*                                                                         *)
(* _popularRecipes is not a copy: it is the very list object               *)
(* _recipeInformation refers to at the time of the sort.  Hence two        *)
(* objects, and two references to them.                                    *)
(***************************************************************************)
EXTENDS Naturals, Sequences, FiniteSets, Functions

CONSTANTS
    Users,
    NoUser,      \* FirebaseAuth.instance.currentUser == null
    Recipes,     \* documents, numbered in the order of foodName
    Owner,       \* field userId of each document
    Absent,      \* no such document
    Likes,       \* values of the field like
    MaxChanges,  \* bound: changes of the collection
    MaxSubs,     \* bound: userChanges listeners left by loadRecipes
    MaxCalls,    \* bound: runs of these listeners that are queued
    MaxDue       \* bound: snapshots on their way to the listeners

ASSUME RecipesAssumption == Recipes \subseteq Nat /\ IsFiniteSet(Recipes)
ASSUME LikesAssumption == Likes \subseteq Nat
ASSUME OwnerAssumption == Owner \in [Recipes -> Users]
ASSUME NoUserAssumption == NoUser \notin Users

Documents == [like : Likes, likeusers : SUBSET Users]

ASSUME AbsentAssumption == Absent \notin Documents

\* What the lists keep of a RecipeInfo.
Infos == [docId : Recipes, like : Likes]

Objects == {0, 1}

VARIABLES
    currentUser,
    docs,             \* the collection, as the local view of Firestore has it
    lists,            \* content of the two list objects
    info,             \* the object _recipeInformation refers to
    popular,          \* the object _popularRecipes refers to
    favoriteRecipes,  \* documents in _favoriteRecipes
    myRecipes,        \* documents in _myRecipes
    subs,             \* userChanges listeners
    calls,            \* runs of these listeners still to come
    snaps,            \* whether a snapshot listener is installed
    due,              \* snapshots on their way
    changes

listVars == <<lists, info, popular, favoriteRecipes, myRecipes>>
feedVars == <<subs, calls, snaps, due>>
vars == <<currentUser, docs, listVars, feedVars, changes>>

TypeOK ==
    /\ currentUser \in Users \union {NoUser}
    /\ docs \in [Recipes -> Documents \union {Absent}]
    /\ lists \in [Objects -> Seq(Infos)]
    /\ info \in Objects /\ popular \in Objects
    /\ favoriteRecipes \subseteq Recipes /\ myRecipes \subseteq Recipes
    /\ subs \in Nat /\ calls \in Nat /\ due \in Nat /\ changes \in Nat
    /\ snaps \in BOOLEAN

recipeInformation == lists[info]
popularRecipes == lists[popular]

Present == {d \in Recipes : docs[d] # Absent}

Init ==
    /\ currentUser \in Users \union {NoUser}
    /\ docs \in [Recipes -> [like : Likes, likeusers : {{}}] \union {Absent}]
    /\ lists = [o \in Objects |-> <<>>] /\ info = 0 /\ popular = 1
    /\ favoriteRecipes = {} /\ myRecipes = {}
    /\ subs = 0 /\ calls = 0 /\ snaps = FALSE /\ due = 0 /\ changes = 0

-----------------------------------------------------------------------------
(* RecipeProvider *)

\* loadRecipes, by the constructor, by the home page, by the detail page when it
\* is left or deletes its recipe, and after a recipe was created.
LoadRecipes ==
    /\ subs < MaxSubs /\ calls < MaxCalls
    /\ subs' = subs + 1
    /\ calls' = calls + 1
    /\ UNCHANGED <<currentUser, docs, listVars, snaps, due, changes>>

\* Sorting in place, descending by like.
Descending(s) == \A i, j \in DOMAIN s : i < j => s[i].like >= s[j].like

\* Mutant: the list is cut after its first entry.
SortsAndCuts(s) ==
    {t \in [DOMAIN s \intersect {1} -> Range(s)] :
        \A i \in DOMAIN t, j \in DOMAIN s : t[i].like >= s[j].like}

Sorts(s) == {t \in [DOMAIN s -> Range(s)] : Range(t) = Range(s) /\ Descending(t)}

\* Mutant: the list that is popular already is sorted, the new one is not taken.
SortsOldPopular ==
    /\ \E t \in Sorts(lists[popular]) : lists' = [lists EXCEPT ![popular] = t]
    /\ UNCHANGED <<info, popular, favoriteRecipes, myRecipes>>

SortRecipesByLike ==
    /\ popular' = info
    /\ \E t \in Sorts(lists[info]) : lists' = [lists EXCEPT ![info] = t]
    /\ UNCHANGED <<info, favoriteRecipes, myRecipes>>

\* Mutant: the collection is read once instead of listened to.
ListenerReadsOnce ==
    /\ calls > 0 /\ due < MaxDue
    /\ calls' = calls - 1
    /\ due' = due + 1
    /\ SortRecipesByLike
    /\ UNCHANGED <<currentUser, docs, subs, snaps, changes>>

\* A userChanges listener runs: a snapshot listener more, then the sort.
ListenerRuns ==
    /\ calls > 0 /\ due < MaxDue
    /\ calls' = calls - 1
    /\ snaps' = TRUE
    /\ due' = due + 1
    /\ SortRecipesByLike
    /\ UNCHANGED <<currentUser, docs, subs, changes>>

Entry(d) == [docId |-> d, like |-> docs[d].like]

\* The documents of D in the order of foodName.
Ordered(D) ==
    {s \in [1 .. Cardinality(D) -> D] :
        Range(s) = D /\ \A i, j \in DOMAIN s : i < j => s[i] < s[j]}

\* Mutant: the list is cleared and filled again in place.
SameList == info

\* A new list, which _popularRecipes does not refer to.
NewList == 1 - popular

\* The documents the loop gets through: currentUser! throws in its first round
\* when nobody is signed in, after the document was added.
LoadedFor(u) ==
    IF u = NoUser
    THEN {d \in Present : \A e \in Present : d <= e}
    ELSE Present

\* Mutant: the favourites are not emptied before the loop.
SnapshotKeepsFavorites ==
    /\ due > 0
    /\ due' = due - 1
    /\ info' = NewList
    /\ \E s \in Ordered(LoadedFor(currentUser)) :
          lists' = [lists EXCEPT ![NewList] = [i \in DOMAIN s |-> Entry(s[i])]]
    /\ favoriteRecipes' = favoriteRecipes \union
                             {d \in Present : currentUser \in docs[d].likeusers}
    /\ myRecipes' = {d \in Present : Owner[d] = currentUser}
    /\ UNCHANGED <<currentUser, docs, popular, subs, calls, snaps, changes>>

\* The lists are emptied, then filled document by document.
SnapshotArrives ==
    /\ due > 0
    /\ due' = due - 1
    /\ info' = NewList
    /\ \E s \in Ordered(LoadedFor(currentUser)) :
          lists' = [lists EXCEPT ![NewList] = [i \in DOMAIN s |-> Entry(s[i])]]
    /\ favoriteRecipes' = {d \in Present : currentUser \in docs[d].likeusers}
    /\ myRecipes' = {d \in Present : Owner[d] = currentUser}
    /\ UNCHANGED <<currentUser, docs, popular, subs, calls, snaps, changes>>

-----------------------------------------------------------------------------
(* The environment *)

\* Some client creates, changes or deletes a recipe; the listeners are told.
CollectionChanges(d, r) ==
    /\ changes < MaxChanges
    /\ changes' = changes + 1
    /\ docs[d] # r
    /\ docs' = [docs EXCEPT ![d] = r]
    /\ IF snaps THEN due < MaxDue /\ due' = due + 1 ELSE UNCHANGED due
    /\ UNCHANGED <<currentUser, listVars, subs, calls, snaps>>

\* userChanges tells every listener of a sign-in or a sign-out.
UserChanges(u) ==
    /\ u # currentUser
    /\ calls + subs <= MaxCalls
    /\ currentUser' = u
    /\ calls' = calls + subs
    /\ UNCHANGED <<docs, listVars, subs, snaps, due, changes>>

Next ==
    \/ LoadRecipes
    \/ ListenerRuns
    \/ SnapshotArrives
    \/ \E d \in Recipes, r \in Documents \union {Absent} : CollectionChanges(d, r)
    \/ \E u \in Users \union {NoUser} : UserChanges(u)

Spec == Init /\ [][Next]_vars

\* The event loop runs what is queued.
FairSpec == Spec /\ WF_vars(ListenerRuns) /\ WF_vars(SnapshotArrives)

-----------------------------------------------------------------------------
(* Properties *)

Settled == currentUser # NoUser /\ subs > 0 /\ calls = 0 /\ due = 0

\* The lists, once nothing is outstanding, are those of the present collection
\* and of the user who is signed in now: nothing is left of a rebuild that threw
\* while nobody was signed in or of the user before, although loadRecipes reads
\* the user only when a snapshot arrives.
SettledLists ==
    Settled =>
        /\ Range(recipeInformation) = {Entry(d) : d \in Present}
        /\ DOMAIN recipeInformation = 1 .. Cardinality(Present)
        /\ favoriteRecipes = {d \in Present : currentUser \in docs[d].likeusers}
        /\ myRecipes = {d \in Present : Owner[d] = currentUser}

\* What a rebuild for u makes of the collection as it is now.
Rebuilt(u) ==
    [recipes   |-> {Entry(d) : d \in LoadedFor(u)},
     favourite |-> {d \in Present : u \in docs[d].likeusers},
     mine      |-> {d \in Present : Owner[d] = u}]

\* The three lists catch up together (see CatchUp): they change only by becoming
\* what the present collection holds for the user who is signed in at that
\* moment, sorting loses nothing, and neither the collection nor the user changes
\* without another snapshot to come, nobody's being signed in included.
Copy == INSTANCE CatchUp WITH
            Keys <- Users \union {NoUser},
            Contents <- [recipes : SUBSET Infos, favourite : SUBSET Recipes,
                         mine : SUBSET Recipes],
            Empty <- [recipes |-> {}, favourite |-> {}, mine |-> {}],
            source <- [u \in Users \union {NoUser} |-> Rebuilt(u)],
            asked <- {currentUser},
            list <- [recipes |-> Range(recipeInformation),
                     favourite |-> favoriteRecipes, mine |-> myRecipes],
            due <- ~(subs > 0 /\ calls = 0 /\ due = 0)

ListsCatchUp == Copy!Spec

\* The popular page shows its recipes by falling like at every instant: a
\* snapshot never writes to the list object the sort was made in.
PopularIsSorted == Descending(popularRecipes)

\* Favourites and own recipes shown are always among the recipes known.
ListsAgree ==
    favoriteRecipes \union myRecipes \subseteq {r.docId : r \in Range(recipeInformation)}

\* Comment of sortRecipesByLike: the popular recipes are sorted.  Violated: the
\* sort ran before the snapshot it was meant for.
PopularIsCurrent ==
    Settled => Range(popularRecipes) = Range(recipeInformation)

\* What is left of it: a listener that runs when no snapshot is on its way, as after
\* another call of loadRecipes, does make the popular list of the present
\* collection, or of its first recipe when the last rebuild was made for nobody.
PopularAfterReload ==
    [][calls' < calls /\ snaps /\ due = 0 =>
           \E u \in Users \union {NoUser} :
               Range(popularRecipes') = {Entry(d) : d \in LoadedFor(u)}]_vars

\* When the user stays and the collection comes to rest, the lists get there.
ListsConverge ==
    \A u \in Users, d \in Recipes :
        <>[](currentUser = u /\ subs > 0) =>
            /\ <>[](docs[d] # Absent /\ u \in docs[d].likeusers) => <>[](d \in favoriteRecipes)
            /\ <>[](docs[d] = Absent) => <>[](\A r \in Range(recipeInformation) : r.docId # d)
=============================================================================
