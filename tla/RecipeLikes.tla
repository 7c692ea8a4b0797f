---------------------------- MODULE RecipeLikes ----------------------------
(***************************************************************************)
(* The star of RecipeDetailPage: one recipe document and the clients that  *)
(* like it, one for each user.                                             *)
(*                                                                         *)
(* A tap changes the page's own counter and list and sends an update whose *)
(* field like is that counter, read when the page was built, and whose     *)
(* field likeusers is an arrayUnion or an arrayRemove.  Updates wait at    *)
(* the client until they reach the server, in order; until then only the   *)
(* client's own view shows them.                                           *)
(***************************************************************************)
EXTENDS Integers, Sequences, FiniteSets

CONSTANTS
    Users,
    MaxTaps,   \* bound: taps on stars
    MaxQueue   \* bound: updates waiting at a client

ASSUME UsersAssumption == IsFiniteSet(Users)

VARIABLES
    exists,     \* the document has not been deleted
    like,       \* its field like
    likeusers,  \* its field likeusers
    pending,    \* updates on their way from each client
    cached,     \* the RecipeInfo in each client's RecipeProvider
    open,       \* clients that show the page
    recipe,     \* widget.recipe of the page
    shared,     \* clients whose page still holds the provider's own RecipeInfo
    counter,    \* _counter
    star,       \* clients whose button is the full star
    wants,      \* history: users whose last tap was a like
    taps,
    freshCache,    \* history: clients whose provider's RecipeInfo,
    freshPage,     \* whose page's RecipeInfo,
    freshCounter,  \* whose _counter has missed no tap of any client
    blind          \* history: a tap was made with a counter that had missed one,
                   \* or on a star that was not drawn since the last tap

docVars == <<exists, like, likeusers>>
pageVars == <<open, recipe, shared, counter, star>>
freshVars == <<freshCache, freshPage, freshCounter, blind>>
vars == <<docVars, pending, cached, pageVars, wants, taps, freshVars>>

\* What the page uses of a RecipeInfo: like, the other users in its list
\* likeusers, and how often the user's own uid is in it.
Infos == [like : Int, others : SUBSET Users, mine : Nat]

Updates == [like : Int, liked : BOOLEAN]

TypeOK ==
    /\ exists \in BOOLEAN
    /\ like \in Int
    /\ likeusers \subseteq Users
    /\ pending \in [Users -> Seq(Updates)]
    /\ cached \in [Users -> Infos]
    /\ open \subseteq Users
    /\ recipe \in [Users -> Infos]
    /\ shared \subseteq open
    /\ counter \in [Users -> Int]
    /\ star \subseteq Users
    /\ wants \subseteq Users
    /\ taps \in Nat
    /\ freshCache \subseteq Users /\ freshPage \subseteq Users
    /\ freshCounter \subseteq Users /\ blind \in BOOLEAN

\* The local view: the document under the updates still on their way.
View(u) ==
    LET p == pending[u]
        liked == IF p = <<>> THEN u \in likeusers ELSE p[Len(p)].liked
    IN  [like |-> IF p = <<>> THEN like ELSE p[Len(p)].like,
         others |-> likeusers \ {u},
         mine |-> IF liked THEN 1 ELSE 0]

\* A recipe some users like already; every provider has seen it.
Init ==
    /\ exists = TRUE
    /\ likeusers \in SUBSET Users
    /\ like = Cardinality(likeusers)
    /\ pending = [u \in Users |-> <<>>]
    /\ cached = [u \in Users |-> View(u)]
    /\ open = {} /\ recipe = cached /\ shared = {}
    /\ counter = [u \in Users |-> 0] /\ star = {}
    /\ wants = likeusers
    /\ taps = 0
    /\ freshCache = Users /\ freshPage = {} /\ freshCounter = {} /\ blind = FALSE

-----------------------------------------------------------------------------
(* The page *)

Stars(u, info) == IF info.mine > 0 THEN star \union {u} ELSE star \ {u}

\* What is made anew, the set S of clients counts as fresh if it is made of what is.
Marked(S, u, fresh) == IF fresh THEN S \union {u} ELSE S \ {u}

Open(u) ==
    /\ u \notin open
    /\ open' = open \union {u}
    /\ shared' = shared \union {u}
    /\ recipe' = [recipe EXCEPT ![u] = cached[u]]
    /\ counter' = [counter EXCEPT ![u] = cached[u].like]
    /\ star' = Stars(u, cached[u])
    /\ freshPage' = Marked(freshPage, u, u \in freshCache)
    /\ freshCounter' = Marked(freshCounter, u, u \in freshCache)
    /\ UNCHANGED <<docVars, pending, cached, wants, taps, freshCache, blind>>

\* build runs again: by setState of the timer or by notifyListeners.  It makes
\* new notifiers from the RecipeInfo the page was opened with.
Rebuild(u) ==
    /\ u \in open
    /\ counter' = [counter EXCEPT ![u] = recipe[u].like]
    /\ star' = Stars(u, recipe[u])
    /\ freshCounter' = Marked(freshCounter, u, u \in freshPage)
    /\ UNCHANGED <<docVars, pending, cached, open, recipe, shared, wants, taps,
                   freshCache, freshPage, blind>>

\* The frame after a tap: only the builders below the notifiers run.
Frame(u) ==
    /\ u \in open
    /\ star' = Stars(u, recipe[u])
    /\ UNCHANGED <<docVars, pending, cached, open, recipe, shared, counter, wants, taps,
                   freshVars>>

\* Nobody's copies know of the tap, but for the counter it was made with.
Unnoticed(u) ==
    /\ freshCache' = {} /\ freshPage' = {}
    /\ freshCounter' = freshCounter \intersect {u}
    /\ blind' = (blind \/ u \notin freshCounter \/ (u \in star) # (recipe[u].mine > 0))

\* Mutant: the update is made of the counter before it is changed.
TapSendsOldCount(u, delta, mine) ==
    /\ u \in open
    /\ taps < MaxTaps /\ Len(pending[u]) < MaxQueue
    /\ taps' = taps + 1
    /\ counter' = [counter EXCEPT ![u] = @ + delta]
    /\ recipe' = [recipe EXCEPT ![u].mine = mine]
    /\ cached' = IF u \in shared THEN [cached EXCEPT ![u].mine = mine] ELSE cached
    /\ pending' = [pending EXCEPT
                      ![u] = Append(@, [like |-> counter[u], liked |-> delta > 0])]
    /\ Unnoticed(u)
    /\ UNCHANGED <<docVars, open, shared, star>>

\* The list likeusers belongs to the RecipeInfo, so the tap changes that too.
Tap(u, delta, mine) ==
    /\ u \in open
    /\ taps < MaxTaps /\ Len(pending[u]) < MaxQueue
    /\ taps' = taps + 1
    /\ counter' = [counter EXCEPT ![u] = @ + delta]
    /\ recipe' = [recipe EXCEPT ![u].mine = mine]
    /\ cached' = IF u \in shared THEN [cached EXCEPT ![u].mine = mine] ELSE cached
    /\ pending' = [pending EXCEPT
                      ![u] = Append(@, [like |-> counter[u] + delta, liked |-> delta > 0])]
    /\ Unnoticed(u)
    /\ UNCHANGED <<docVars, open, shared, star>>

\* Mutant: the page changes, the document does not.
LikeOnScreenOnly(u) ==
    /\ u \notin star /\ u \in open
    /\ taps < MaxTaps
    /\ taps' = taps + 1
    /\ counter' = [counter EXCEPT ![u] = @ + 1]
    /\ recipe' = [recipe EXCEPT ![u].mine = @ + 1]
    /\ wants' = wants \union {u}
    /\ Unnoticed(u)
    /\ UNCHANGED <<docVars, pending, cached, open, shared, star>>

Like(u) ==
    /\ u \notin star
    /\ Tap(u, 1, recipe[u].mine + 1)
    /\ wants' = wants \union {u}

\* List.remove takes out one occurrence.
Unlike(u) ==
    /\ u \in star
    /\ Tap(u, -1, IF recipe[u].mine > 0 THEN recipe[u].mine - 1 ELSE 0)
    /\ wants' = wants \ {u}

Close(u) ==
    /\ u \in open
    /\ open' = open \ {u}
    /\ shared' = shared \ {u}
    /\ UNCHANGED <<docVars, pending, cached, recipe, counter, star, wants, taps, freshVars>>

\* The owner deletes the recipe.
Delete ==
    /\ exists
    /\ exists' = FALSE
    /\ like' = 0 /\ likeusers' = {}
    /\ UNCHANGED <<pending, cached, pageVars, wants, taps, freshVars>>

-----------------------------------------------------------------------------
(* Firestore *)

\* Mutant: the page's whole list is written.
NewLikersFromList(u, w) ==
    recipe[u].others \union (IF w.liked THEN {u} ELSE {})

\* arrayUnion and arrayRemove act on the list the server has.
NewLikers(u, w) == IF w.liked THEN likeusers \union {u} ELSE likeusers \ {u}

\* update fails when the document is gone.
Update(u, w) ==
    /\ like' = IF exists THEN w.like ELSE like
    /\ likeusers' = IF exists THEN NewLikers(u, w) ELSE likeusers
    /\ UNCHANGED exists

Commit(u) ==
    /\ pending[u] # <<>>
    /\ Update(u, Head(pending[u]))
    /\ pending' = [pending EXCEPT ![u] = Tail(@)]
    /\ UNCHANGED <<cached, pageVars, wants, taps, freshVars>>

\* A snapshot gives the provider new RecipeInfos; open pages keep theirs.
SnapshotArrives(u) ==
    /\ exists
    /\ cached' = [cached EXCEPT ![u] = View(u)]
    /\ shared' = shared \ {u}
    /\ freshCache' = Marked(freshCache, u, \A v \in Users \ {u} : pending[v] = <<>>)
    /\ UNCHANGED <<docVars, pending, open, recipe, counter, star, wants, taps,
                   freshPage, freshCounter, blind>>

Next ==
    \/ \E u \in Users :
          \/ Open(u)
          \/ Rebuild(u)
          \/ Frame(u)
          \/ Like(u)
          \/ Unlike(u)
          \/ Close(u)
          \/ Commit(u)
          \/ SnapshotArrives(u)
    \/ Delete

Spec == Init /\ [][Next]_vars

\* Updates reach the server: the network comes back.
FairSpec == Spec /\ \A u \in Users : WF_vars(Commit(u))

-----------------------------------------------------------------------------
(* Properties *)

\* Whatever pages were built from, however late updates arrive and whatever the
\* others do meanwhile: once a user's updates are through, the user is in
\* likeusers exactly if the last tap was a like.
LikersFollowLastTap ==
    exists => \A u \in Users : pending[u] = <<>> => (u \in likeusers <=> u \in wants)

\* What is left of one tap, one like (see OneTapOneLike): once all updates are
\* through, like is the number of users in likeusers, as long as every tap was made
\* on a star drawn since the tap before and with a counter that had missed no tap:
\* of a page opened after a snapshot that showed the taps of all others, and not
\* built again after a tap of its own.
LikeCountsLikers ==
    exists /\ ~blind /\ (\A u \in Users : pending[u] = <<>>) => like = Cardinality(likeusers)

\* A like that stays ends up in the document, if that stays.
LikesArrive ==
    \A u \in Users : <>[](exists /\ u \in wants) => <>[](u \in likeusers)

\* updateLike announces a like as +1 and its withdrawal as -1.  An update that
\* reaches the server should move like by just that.  Violated.
OneTapOneLike ==
    [][\A u \in Users :
           exists /\ Len(pending'[u]) < Len(pending[u]) =>
               like' = like + (IF Head(pending[u]).liked THEN 1 ELSE -1)]_vars
=============================================================================
