------------------------- MODULE RecipeLikes_proofs -------------------------
(***************************************************************************)
(* Proofs about RecipeLikes for every finite set of users, any number of   *)
(* taps and queues of any length.                                          *)
(***************************************************************************)
EXTENDS RecipeLikes, SequenceTheorems, FiniteSetTheorems, TLAPS

\* A queue is empty exactly if its length is zero.
LEMMA EmptyIffLenZero ==
    ASSUME NEW S, NEW s \in Seq(S)
    PROVE  s = <<>> <=> Len(s) = 0
BY EmptySeq

\* What taking the head off a queue leaves of its last element.
LEMMA TailKeepsLast ==
    ASSUME NEW S, NEW s \in Seq(S), s # <<>>
    PROVE  \/ Tail(s) = <<>> /\ Head(s) = s[Len(s)]
           \/ Tail(s) # <<>> /\ Tail(s)[Len(Tail(s))] = s[Len(s)]
<1>1. /\ Tail(s) \in Seq(S)
      /\ Len(Tail(s)) = Len(s) - 1
      /\ \A i \in 1 .. Len(Tail(s)) : Tail(s)[i] = s[i + 1]
  BY HeadTailProperties
<1>2. Len(s) \in Nat /\ Len(s) # 0
  OBVIOUS
<1>3. CASE Len(s) = 1
  <2>1. Len(Tail(s)) = 0
    BY <1>1, <1>3
  <2>2. Tail(s) = <<>>
    BY <1>1, <2>1, EmptyIffLenZero
  <2>3. Head(s) = s[Len(s)]
    BY <1>3
  <2> QED
    BY <2>2, <2>3
<1>4. CASE Len(s) # 1
  <2>1. Len(Tail(s)) \in 1 .. Len(Tail(s)) /\ Len(Tail(s)) + 1 = Len(s)
    BY <1>1, <1>2, <1>4
  <2>2. Tail(s)[Len(Tail(s))] = s[Len(s)]
    BY <1>1, <2>1
  <2>3. Tail(s) # <<>>
    <3>1. Len(Tail(s)) # 0
      BY <2>1
    <3> QED
      BY <1>1, <3>1, EmptyIffLenZero
  <2> QED
    BY <2>2, <2>3
<1> QED
  BY <1>3, <1>4

\* The first state has its type.
LEMMA TypeInit == Init => TypeOK
<1> SUFFICES ASSUME Init PROVE TypeOK
  OBVIOUS
<1>1. like \in Int
  BY UsersAssumption, FS_Subset, FS_CardinalityType DEF Init
<1>2. \A u \in Users : View(u) \in Infos
  BY <1>1 DEF Init, View, Infos
<1>3. pending \in [Users -> Seq(Updates)]
  BY DEF Init
<1>4. cached \in [Users -> Infos] /\ recipe \in [Users -> Infos]
  BY <1>2 DEF Init
<1>5. exists \in BOOLEAN /\ blind \in BOOLEAN
  BY DEF Init
<1> QED
  BY <1>1, <1>3, <1>4, <1>5 DEF Init, TypeOK

\* The local view of a document is a RecipeInfo.
LEMMA ViewType ==
    ASSUME TypeOK, NEW u \in Users
    PROVE  View(u) \in Infos
<1>1. CASE pending[u] = <<>>
  BY <1>1 DEF View, TypeOK, Infos
<1>2. CASE pending[u] # <<>>
  <2>1. pending[u][Len(pending[u])] \in Updates
    BY <1>2 DEF TypeOK
  <2> QED
    BY <1>2, <2>1 DEF View, TypeOK, Infos, Updates
<1> QED
  BY <1>1, <1>2

\* Every step keeps the types.
LEMMA TypeNext == TypeOK /\ [Next]_vars => TypeOK'
<1> SUFFICES ASSUME TypeOK, [Next]_vars PROVE TypeOK'
  OBVIOUS
<1>1. CASE UNCHANGED vars
  BY <1>1 DEF TypeOK, vars, docVars, pageVars, freshVars
<1>2. ASSUME NEW u \in Users, Open(u) PROVE TypeOK'
  BY <1>2 DEF Open, Stars, Marked, TypeOK, Infos, docVars
<1>3. ASSUME NEW u \in Users, Rebuild(u) PROVE TypeOK'
  BY <1>3 DEF Rebuild, Stars, Marked, TypeOK, Infos, docVars
<1>4. ASSUME NEW u \in Users, Frame(u) PROVE TypeOK'
  BY <1>4 DEF Frame, Stars, TypeOK, docVars, freshVars
<1>5. ASSUME NEW u \in Users, NEW delta \in Int, NEW mine \in Nat,
             Tap(u, delta, mine), wants' \subseteq Users
      PROVE  TypeOK'
  <2>1. counter' \in [Users -> Int] /\ taps' \in Nat
    BY <1>5 DEF Tap, TypeOK
  <2>2. recipe' \in [Users -> Infos] /\ cached' \in [Users -> Infos]
    <3>1. ASSUME NEW f \in [Users -> Infos]
          PROVE  [f EXCEPT ![u].mine = mine] \in [Users -> Infos]
      <4>1. [f[u] EXCEPT !.mine = mine] \in Infos
        BY DEF Infos
      <4> QED
        BY <4>1
    <3> QED
      BY <1>5, <3>1 DEF Tap, TypeOK
  <2>3. [like |-> counter[u] + delta, liked |-> delta > 0] \in Updates
    BY <1>5 DEF TypeOK, Updates
  <2>4. pending' \in [Users -> Seq(Updates)]
    BY <1>5, <2>3 DEF Tap, TypeOK
  <2>5. freshCache' \subseteq Users /\ freshPage' \subseteq Users /\ freshCounter' \subseteq Users
    BY <1>5 DEF Tap, Unnoticed, TypeOK
  <2>6. blind' \in BOOLEAN
    BY <1>5 DEF Tap, Unnoticed
  <2> QED
    BY <1>5, <2>1, <2>2, <2>4, <2>5, <2>6 DEF Tap, TypeOK, docVars
<1>6. ASSUME NEW u \in Users, Like(u) PROVE TypeOK'
  <2>1. recipe[u].mine + 1 \in Nat /\ wants' \subseteq Users
    BY <1>6 DEF Like, TypeOK, Infos
  <2> QED
    BY <1>5, <1>6, <2>1 DEF Like
<1>7. ASSUME NEW u \in Users, Unlike(u) PROVE TypeOK'
  <2> DEFINE m == IF recipe[u].mine > 0 THEN recipe[u].mine - 1 ELSE 0
  <2>1. m \in Nat /\ wants' \subseteq Users
    BY <1>7 DEF Unlike, TypeOK, Infos
  <2>2. Tap(u, -1, m)
    BY <1>7 DEF Unlike
  <2> HIDE DEF m
  <2> QED
    BY <1>5, <2>1, <2>2
<1>8. ASSUME NEW u \in Users, Close(u) PROVE TypeOK'
  BY <1>8 DEF Close, TypeOK, docVars, freshVars
<1>9. ASSUME NEW u \in Users, Commit(u) PROVE TypeOK'
  <2>1. Head(pending[u]) \in Updates /\ Tail(pending[u]) \in Seq(Updates)
    BY <1>9 DEF Commit, TypeOK
  <2>2. exists' \in BOOLEAN /\ like' \in Int /\ likeusers' \subseteq Users
    BY <1>9, <2>1 DEF Commit, Update, NewLikers, TypeOK, Updates
  <2>3. pending' \in [Users -> Seq(Updates)]
    BY <1>9, <2>1 DEF Commit, TypeOK
  <2> QED
    BY <1>9, <2>2, <2>3 DEF Commit, TypeOK, pageVars, freshVars
<1>10. ASSUME NEW u \in Users, SnapshotArrives(u) PROVE TypeOK'
  BY <1>10, ViewType DEF SnapshotArrives, Marked, TypeOK, docVars
<1>11. CASE Delete
  <2>1. exists' \in BOOLEAN
    BY <1>11 DEF Delete
  <2> QED
    BY <1>11, <2>1 DEF Delete, TypeOK, pageVars, freshVars
<1> QED
  BY <1>1, <1>2, <1>3, <1>4, <1>6, <1>7, <1>8, <1>9, <1>10, <1>11 DEF Next

\* Every reachable state of page, provider and document has its type.
THEOREM TypeCorrect == Spec => []TypeOK
BY TypeInit, TypeNext, PTL DEF Spec

-----------------------------------------------------------------------------
(***************************************************************************)
(* The inductive form of LikersFollowLastTap also says what the updates    *)
(* that still wait will do: the last of them agrees with the last tap.     *)
(***************************************************************************)
LastUpdate(u) == pending[u][Len(pending[u])]

WaitingAgrees ==
    exists => \A u \in Users :
        /\ pending[u] = <<>> => (u \in likeusers <=> u \in wants)
        /\ pending[u] # <<>> => (LastUpdate(u).liked <=> u \in wants)

\* Every step keeps WaitingAgrees: the last update on its way says what the user
\* wants, and so does the document when none is.
LEMMA AgreesNext == TypeOK /\ WaitingAgrees /\ [Next]_vars => WaitingAgrees'
<1> SUFFICES ASSUME TypeOK, WaitingAgrees, [Next]_vars, exists', NEW v \in Users
             PROVE  /\ pending'[v] = <<>> => (v \in likeusers' <=> v \in wants')
                    /\ pending'[v] # <<>> => (LastUpdate(v)'.liked <=> v \in wants')
  BY DEF WaitingAgrees
<1> DEFINE Goal == /\ pending'[v] = <<>> => (v \in likeusers' <=> v \in wants')
                   /\ pending'[v] # <<>> => (LastUpdate(v)'.liked <=> v \in wants')
<1>1. CASE UNCHANGED <<exists, likeusers, pending, wants>>
  BY <1>1 DEF WaitingAgrees, LastUpdate
<1>2. ASSUME NEW u \in Users, NEW delta \in {1, -1}, NEW mine,
             Tap(u, delta, mine),
             wants' = IF delta > 0 THEN wants \union {u} ELSE wants \ {u}
      PROVE  Goal
  <2> DEFINE w == [like |-> counter[u] + delta, liked |-> delta > 0]
  <2>1. w \in Updates
    BY <1>2 DEF TypeOK, Updates
  <2>2. pending' = [pending EXCEPT ![u] = Append(pending[u], w)] /\ exists' = exists
    BY <1>2 DEF Tap, docVars
  <2>3. CASE v = u
    <3>1. pending'[u] = Append(pending[u], w)
      BY <2>2 DEF TypeOK
    <3>2. pending'[u] # <<>> /\ LastUpdate(u)' = w
      <4>1. pending[u] \in Seq(Updates) /\ Len(pending[u]) \in Nat
        BY DEF TypeOK
      <4>2. Append(pending[u], w) # <<>>
        BY <2>1, <4>1, AppendProperties
      <4>3. Append(pending[u], w)[Len(Append(pending[u], w))] = w
        BY <2>1, <4>1, AppendProperties
      <4> QED
        BY <3>1, <4>2, <4>3 DEF LastUpdate
    <3>3. LastUpdate(u)'.liked = (delta > 0)
      BY <3>2
    <3>4. u \in wants' <=> delta > 0
      BY <1>2
    <3> QED
      BY <2>3, <3>2, <3>3, <3>4
  <2>4. CASE v # u
    <3>1. pending'[v] = pending[v] /\ likeusers' = likeusers
      BY <1>2, <2>2, <2>4 DEF TypeOK, Tap, docVars
    <3> QED
      BY <1>2, <2>2, <2>4, <3>1 DEF WaitingAgrees, LastUpdate
  <2> QED
    BY <2>3, <2>4
<1>3. ASSUME NEW u \in Users, Like(u) PROVE Goal
  BY <1>2, <1>3 DEF Like
<1>4. ASSUME NEW u \in Users, Unlike(u) PROVE Goal
  BY <1>2, <1>4 DEF Unlike
<1>5. ASSUME NEW u \in Users, Commit(u) PROVE Goal
  <2>1. exists /\ wants' = wants /\ likeusers' = NewLikers(u, Head(pending[u]))
    BY <1>5 DEF Commit, Update
  <2>2. CASE v # u
    <3>1. pending'[v] = pending[v]
      BY <1>5, <2>2 DEF Commit, TypeOK
    <3> QED
      BY <2>1, <2>2, <3>1 DEF WaitingAgrees, LastUpdate, NewLikers
  <2>3. CASE v = u
    <3> DEFINE p == pending[u]
    <3>1. pending'[u] = Tail(p) /\ p # <<>> /\ p \in Seq(Updates)
      BY <1>5 DEF Commit, TypeOK
    <3>2. p[Len(p)].liked <=> u \in wants
      BY <2>1, <3>1 DEF WaitingAgrees, LastUpdate
    <3>3. \/ Tail(p) = <<>> /\ Head(p) = p[Len(p)]
          \/ Tail(p) # <<>> /\ Tail(p)[Len(Tail(p))] = p[Len(p)]
      BY <3>1, TailKeepsLast
    <3> QED
      BY <2>1, <2>3, <3>1, <3>2, <3>3 DEF LastUpdate, NewLikers
  <2> QED
    BY <2>2, <2>3
<1>6. CASE Delete
  BY <1>6 DEF Delete
<1> QED
  BY <1>1, <1>3, <1>4, <1>5, <1>6
     DEF Next, vars, docVars, Open, Rebuild, Frame, Close, SnapshotArrives

\* For any number of clients: once a user's updates are through, the document
\* lists the user exactly if the last tap was a like.
THEOREM LikersAreRight == Spec => []LikersFollowLastTap
<1>1. Init => WaitingAgrees
  BY DEF Init, WaitingAgrees
<1>2. WaitingAgrees => LikersFollowLastTap
  BY DEF WaitingAgrees, LikersFollowLastTap
<1> QED
  BY <1>1, <1>2, TypeInit, TypeNext, AgreesNext, PTL DEF Spec

-----------------------------------------------------------------------------
(***************************************************************************)
(* LikeCountsLikers.  Its inductive form says what each copy that counts   *)
(* as fresh is worth: the number of users who want the recipe, and of the  *)
(* user's own list whether the user is one of them; and that no update of  *)
(* another client is on its way.                                           *)
(***************************************************************************)
Wanted == Cardinality(wants)

Own(u) == IF u \in wants THEN 1 ELSE 0

Alone(u) == \A v \in Users \ {u} : pending[v] = <<>>

FreshCopies ==
    /\ \A u \in freshCache : cached[u].like = Wanted /\ cached[u].mine = Own(u) /\ Alone(u)
    /\ \A u \in freshPage : recipe[u].like = Wanted /\ recipe[u].mine = Own(u) /\ Alone(u)
    /\ \A u \in freshCounter : counter[u] = Wanted /\ recipe[u].mine = Own(u) /\ Alone(u)

WaitingCounts ==
    /\ \A u \in Users : pending[u] # <<>> => LastUpdate(u).like = Wanted /\ Alone(u)
    /\ (\A u \in Users : pending[u] = <<>>) => like = Wanted

CountAgrees == exists /\ ~blind => FreshCopies /\ WaitingCounts

\* The count of a set of users with one more or one less of them.
LEMMA OneMoreOneLess ==
    ASSUME NEW S \in SUBSET Users, NEW u \in Users
    PROVE  /\ Cardinality(S) \in Nat
           /\ u \notin S => Cardinality(S \union {u}) = Cardinality(S) + 1
           /\ u \in S => Cardinality(S \ {u}) = Cardinality(S) - 1
<1>1. IsFiniteSet(S)
  BY UsersAssumption, FS_Subset
<1> QED
  BY <1>1, FS_CardinalityType, FS_AddElement, FS_RemoveElement

\* An update that reaches the server leaves no more on the way than before.
LEMMA AloneStays ==
    ASSUME TypeOK, NEW u \in Users, NEW v \in Users, pending[u] # <<>>, Alone(v),
           pending' = [pending EXCEPT ![u] = Tail(@)]
    PROVE  v = u /\ Alone(v)'
<1>1. v = u
  BY DEF Alone
<1> QED
  BY <1>1 DEF Alone, TypeOK

\* A tap with a fresh counter moves what is wanted, the counter, the user's own
\* entry and the update together.
LEMMA CountTap ==
    ASSUME TypeOK, CountAgrees, exists', ~blind',
           NEW u \in Users, NEW delta \in {1, -1}, NEW mine,
           Tap(u, delta, mine),
           \/ u \notin star /\ delta = 1 /\ mine = recipe[u].mine + 1
              /\ wants' = wants \union {u}
           \/ u \in star /\ delta = -1 /\ wants' = wants \ {u}
              /\ mine = IF recipe[u].mine > 0 THEN recipe[u].mine - 1 ELSE 0
    PROVE  FreshCopies' /\ WaitingCounts'
<1> DEFINE w == [like |-> counter[u] + delta, liked |-> delta > 0]
<1>1. exists /\ ~blind /\ u \in freshCounter /\ (u \in star <=> recipe[u].mine > 0)
  <2>1. exists
    BY DEF Tap, docVars
  <2>2. blind' = (blind \/ u \notin freshCounter \/ (u \in star) # (recipe[u].mine > 0))
    BY DEF Tap, Unnoticed
  <2> QED
    BY <2>1, <2>2, Zenon
<1>2. counter[u] = Wanted /\ recipe[u].mine = Own(u) /\ Alone(u)
  BY <1>1 DEF CountAgrees, FreshCopies
<1>3. Wanted' = Wanted + delta /\ mine = Own(u)' /\ Wanted \in Nat
  <2>1. wants \in SUBSET Users /\ Wanted \in Nat
    BY OneMoreOneLess DEF Wanted, TypeOK
  <2>2. CASE u \notin star /\ delta = 1 /\ mine = recipe[u].mine + 1 /\ wants' = wants \union {u}
    <3>1. recipe[u].mine \in Nat /\ ~(recipe[u].mine > 0)
      BY <1>1, <2>2 DEF TypeOK, Infos
    <3>2. u \notin wants /\ mine = 1 /\ u \in wants'
      BY <1>2, <2>2, <3>1 DEF Own
    <3>3. Cardinality(wants \union {u}) = Cardinality(wants) + 1
      BY <2>1, <3>2, OneMoreOneLess
    <3> QED
      BY <2>1, <2>2, <3>2, <3>3 DEF Wanted, Own
  <2>3. CASE u \in star /\ delta = -1 /\ wants' = wants \ {u}
             /\ mine = IF recipe[u].mine > 0 THEN recipe[u].mine - 1 ELSE 0
    <3>1. recipe[u].mine > 0
      BY <1>1, <2>3
    <3>2. u \in wants /\ mine = 0 /\ u \notin wants'
      BY <1>2, <2>3, <3>1 DEF Own
    <3>3. Cardinality(wants \ {u}) = Cardinality(wants) - 1
      BY <2>1, <3>2, OneMoreOneLess
    <3> QED
      BY <2>1, <2>3, <3>2, <3>3 DEF Wanted, Own
  <2> QED
    BY <2>2, <2>3
<1>4. counter'[u] = Wanted' /\ recipe'[u].mine = Own(u)'
  BY <1>2, <1>3 DEF Tap, TypeOK, Infos
<1>5. pending'[u] = Append(pending[u], w) /\ \A v \in Users \ {u} : pending'[v] = pending[v]
  BY DEF Tap, TypeOK
<1>6. Alone(u)'
  BY <1>2, <1>5 DEF Alone
<1>7. pending'[u] # <<>> /\ LastUpdate(u)' = w
  <2>1. pending[u] \in Seq(Updates) /\ Len(pending[u]) \in Nat
    BY DEF TypeOK
  <2>2. w \in Updates
    BY DEF TypeOK, Updates
  <2>3. Append(pending[u], w) # <<>>
    BY <2>1, <2>2, AppendProperties
  <2>4. Append(pending[u], w)[Len(Append(pending[u], w))] = w
    BY <2>1, <2>2, AppendProperties
  <2> QED
    BY <1>5, <2>3, <2>4 DEF LastUpdate
<1>8. LastUpdate(u)'.like = Wanted'
  BY <1>2, <1>3, <1>7
<1>9. freshCache' = {} /\ freshPage' = {} /\ freshCounter' \subseteq {u}
  BY DEF Tap, Unnoticed
<1>10. FreshCopies'
  BY <1>4, <1>6, <1>9 DEF FreshCopies
<1>11. WaitingCounts'
  BY <1>2, <1>5, <1>6, <1>7, <1>8 DEF WaitingCounts, Alone
<1> QED
  BY <1>10, <1>11

\* Every step keeps CountAgrees.
LEMMA CountNext ==
    TypeOK /\ WaitingAgrees /\ CountAgrees /\ [Next]_vars => CountAgrees'
<1> SUFFICES ASSUME TypeOK, WaitingAgrees, CountAgrees, [Next]_vars, exists', ~blind'
             PROVE  FreshCopies' /\ WaitingCounts'
  BY DEF CountAgrees
<1>1. CASE UNCHANGED <<exists, like, pending, cached, recipe, counter, wants, freshVars>>
  BY <1>1 DEF CountAgrees, FreshCopies, WaitingCounts, freshVars, Wanted, Own, Alone, LastUpdate
<1>2. ASSUME NEW u \in Users, Open(u) PROVE FreshCopies' /\ WaitingCounts'
  <2>1. FreshCopies /\ WaitingCounts /\ UNCHANGED <<like, pending, cached, wants, freshCache>>
    BY <1>2 DEF Open, docVars, CountAgrees
  <2>2. WaitingCounts'
    BY <2>1 DEF WaitingCounts, Wanted, Alone, LastUpdate
  <2>3. /\ Wanted' = Wanted
        /\ \A v \in Users : Own(v)' = Own(v) /\ (Alone(v)' <=> Alone(v))
    BY <2>1 DEF Wanted, Own, Alone
  <2>4. /\ recipe'[u] = cached[u] /\ counter'[u] = cached[u].like
        /\ \A v \in Users \ {u} : recipe'[v] = recipe[v] /\ counter'[v] = counter[v]
        /\ u \in freshPage' \/ u \in freshCounter' => u \in freshCache
        /\ freshPage' \subseteq freshPage \union {u}
        /\ freshCounter' \subseteq freshCounter \union {u}
    BY <1>2 DEF Open, TypeOK, Marked
  <2>5. freshCache \subseteq Users /\ freshPage \subseteq Users /\ freshCounter \subseteq Users
    BY DEF TypeOK
  <2> QED
    BY <2>1, <2>2, <2>3, <2>4, <2>5 DEF FreshCopies
<1>3. ASSUME NEW u \in Users, Rebuild(u) PROVE FreshCopies' /\ WaitingCounts'
  <2>1. FreshCopies /\ WaitingCounts
        /\ UNCHANGED <<like, pending, cached, recipe, wants, freshCache, freshPage>>
    BY <1>3 DEF Rebuild, docVars, CountAgrees
  <2>2. WaitingCounts'
    BY <2>1 DEF WaitingCounts, Wanted, Alone, LastUpdate
  <2>3. /\ Wanted' = Wanted
        /\ \A v \in Users : Own(v)' = Own(v) /\ (Alone(v)' <=> Alone(v))
    BY <2>1 DEF Wanted, Own, Alone
  <2>4. /\ counter'[u] = recipe[u].like
        /\ \A v \in Users \ {u} : counter'[v] = counter[v]
        /\ u \in freshCounter' => u \in freshPage
        /\ freshCounter' \subseteq freshCounter \union {u}
    BY <1>3 DEF Rebuild, TypeOK, Marked
  <2>5. freshCache \subseteq Users /\ freshPage \subseteq Users /\ freshCounter \subseteq Users
    BY DEF TypeOK
  <2> QED
    BY <2>1, <2>2, <2>3, <2>4, <2>5 DEF FreshCopies
<1>4. ASSUME NEW u \in Users, Like(u) PROVE FreshCopies' /\ WaitingCounts'
  BY <1>4, CountTap DEF Like
<1>5. ASSUME NEW u \in Users, Unlike(u) PROVE FreshCopies' /\ WaitingCounts'
  <2> DEFINE m == IF recipe[u].mine > 0 THEN recipe[u].mine - 1 ELSE 0
  <2>1. u \in star /\ Tap(u, -1, m) /\ wants' = wants \ {u}
    BY <1>5 DEF Unlike
  <2> QED
    BY <2>1, CountTap
<1>6. ASSUME NEW u \in Users, Commit(u) PROVE FreshCopies' /\ WaitingCounts'
  <2>1. /\ FreshCopies /\ WaitingCounts /\ pending[u] # <<>>
        /\ pending' = [pending EXCEPT ![u] = Tail(@)]
        /\ UNCHANGED <<cached, recipe, counter, wants, freshCache, freshPage, freshCounter>>
        /\ like' = Head(pending[u]).like
    BY <1>6 DEF Commit, Update, pageVars, freshVars, CountAgrees
  <2>2. /\ Wanted' = Wanted
        /\ \A v \in Users : Own(v)' = Own(v)
    BY <2>1 DEF Wanted, Own
  <2>3. \A v \in Users : Alone(v) => v = u /\ Alone(v)'
    BY <2>1, AloneStays
  <2>4. freshCache \subseteq Users /\ freshPage \subseteq Users /\ freshCounter \subseteq Users
    BY DEF TypeOK
  <2>5. FreshCopies'
    BY <2>1, <2>2, <2>3, <2>4 DEF FreshCopies
  <2>6. LastUpdate(u).like = Wanted /\ Alone(u) /\ Alone(u)'
    BY <2>1, <2>3 DEF WaitingCounts
  <2>7. pending'[u] = Tail(pending[u]) /\ pending[u] \in Seq(Updates)
    BY <2>1 DEF TypeOK
  <2>8. \/ Tail(pending[u]) = <<>> /\ Head(pending[u]) = LastUpdate(u)
        \/ Tail(pending[u]) # <<>> /\ LastUpdate(u)' = LastUpdate(u)
    BY <2>1, <2>7, TailKeepsLast DEF LastUpdate
  <2>9. \A v \in Users : pending'[v] # <<>> => v = u
    BY <2>6 DEF Alone
  <2>10. WaitingCounts'
    BY <2>1, <2>2, <2>6, <2>7, <2>8, <2>9 DEF WaitingCounts
  <2> QED
    BY <2>5, <2>10
<1>7. ASSUME NEW u \in Users, SnapshotArrives(u) PROVE FreshCopies' /\ WaitingCounts'
  <2>1. /\ FreshCopies /\ WaitingCounts /\ exists
        /\ UNCHANGED <<like, pending, recipe, counter, wants, freshPage, freshCounter>>
    BY <1>7 DEF SnapshotArrives, docVars, CountAgrees
  <2>2. WaitingCounts'
    BY <2>1 DEF WaitingCounts, Wanted, Alone, LastUpdate
  <2>3. /\ Wanted' = Wanted
        /\ \A v \in Users : Own(v)' = Own(v) /\ (Alone(v)' <=> Alone(v))
    BY <2>1 DEF Wanted, Own, Alone
  <2>4. /\ cached'[u] = View(u)
        /\ \A v \in Users \ {u} : cached'[v] = cached[v]
        /\ u \in freshCache' => Alone(u)
        /\ freshCache' \subseteq freshCache \union {u}
    BY <1>7 DEF SnapshotArrives, TypeOK, Marked, Alone
  <2>5. Alone(u) => View(u).like = Wanted /\ View(u).mine = Own(u)
    <3>1. CASE pending[u] = <<>>
      BY <2>1, <3>1 DEF Alone, View, Own, WaitingCounts, WaitingAgrees
    <3>2. CASE pending[u] # <<>>
      BY <2>1, <3>2 DEF View, Own, WaitingCounts, WaitingAgrees, LastUpdate
    <3> QED
      BY <3>1, <3>2
  <2>6. freshCache \subseteq Users /\ freshPage \subseteq Users /\ freshCounter \subseteq Users
    BY DEF TypeOK
  <2> QED
    BY <2>1, <2>2, <2>3, <2>4, <2>5, <2>6 DEF FreshCopies
<1>8. CASE Delete
  BY <1>8 DEF Delete
<1> QED
  BY <1>1, <1>2, <1>3, <1>4, <1>5, <1>6, <1>7, <1>8
     DEF Next, vars, docVars, pageVars, Frame, Close

\* For any number of clients, taps and updates on their way: like is the number of
\* users in likeusers once all updates are through, if no tap was made blindly.
THEOREM CountIsRight == Spec => []LikeCountsLikers
<1>1. Init => WaitingAgrees
  BY DEF Init, WaitingAgrees
<1>2. Init => CountAgrees
  BY DEF Init, CountAgrees, FreshCopies, WaitingCounts, Wanted, Own, Alone, View
<1>3. TypeOK /\ WaitingAgrees /\ CountAgrees => LikeCountsLikers
  <2> SUFFICES ASSUME TypeOK, WaitingAgrees, CountAgrees, exists, ~blind,
                      \A u \in Users : pending[u] = <<>>
               PROVE  like = Cardinality(likeusers)
    BY DEF LikeCountsLikers
  <2>1. likeusers = wants
    BY DEF WaitingAgrees, TypeOK
  <2> QED
    BY <2>1 DEF CountAgrees, WaitingCounts, Wanted
<1> QED
  BY <1>1, <1>2, <1>3, TypeInit, TypeNext, AgreesNext, CountNext, PTL DEF Spec
=============================================================================
