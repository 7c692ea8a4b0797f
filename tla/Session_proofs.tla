--------------------------- MODULE Session_proofs ---------------------------
(***************************************************************************)
(* Proofs about Session for every set of accounts and guests, every number *)
(* of routes and all budgets.                                              *)
(***************************************************************************)
EXTENDS Session, SequenceTheorems, TLAPS

Contexts == Routes \union {Gone}

-----------------------------------------------------------------------------
(* Handlers that wait *)

\* One handler more waits, and the others still do.
LEMMA WaitsFacts ==
    ASSUME TypeOK, NEW k \in Kinds, NEW r \in Contexts, Waits(k, r)
    PROVE  /\ tasks' \in [Kinds -> [Contexts -> Nat]]
           /\ \A l \in Kinds, s \in Contexts :
                 tasks'[l][s] = IF l = k /\ s = r THEN tasks[k][r] + 1 ELSE tasks[l][s]
<1>1. tasks \in [Kinds -> [Contexts -> Nat]]
  BY DEF TypeOK, Contexts
<1>2. tasks' = [tasks EXCEPT ![k] = [tasks[k] EXCEPT ![r] = tasks[k][r] + 1]]
  BY DEF Waits
<1>3. tasks[k] \in [Contexts -> Nat] /\ tasks[k][r] + 1 \in Nat
  BY <1>1
<1>4. [tasks[k] EXCEPT ![r] = tasks[k][r] + 1] \in [Contexts -> Nat]
  BY <1>3
<1> QED
  BY <1>1, <1>2, <1>3, <1>4

\* A handler that waited goes on, and the others wait.
LEMMA GoesOnFacts ==
    ASSUME TypeOK, NEW k \in Kinds, NEW r \in Contexts, GoesOn(k, r)
    PROVE  /\ tasks[k][r] > 0
           /\ tasks' \in [Kinds -> [Contexts -> Nat]]
           /\ \A l \in Kinds, s \in Contexts :
                 tasks'[l][s] = IF l = k /\ s = r THEN tasks[k][r] - 1 ELSE tasks[l][s]
<1>1. tasks \in [Kinds -> [Contexts -> Nat]]
  BY DEF TypeOK, Contexts
<1>2. /\ tasks' = [tasks EXCEPT ![k] = [tasks[k] EXCEPT ![r] = tasks[k][r] - 1]]
      /\ tasks[k][r] > 0
  BY DEF GoesOn
<1>3. tasks[k] \in [Contexts -> Nat] /\ tasks[k][r] - 1 \in Nat
  BY <1>1, <1>2
<1>4. [tasks[k] EXCEPT ![r] = tasks[k][r] - 1] \in [Contexts -> Nat]
  BY <1>3
<1> QED
  BY <1>1, <1>2, <1>3, <1>4

\* Whose context is gone waits no longer as the handler of its page; the delayed
\* pops of other pages are still to come.
LEMMA OrphanedFacts ==
    ASSUME TypeOK, NEW K \in SUBSET Kinds, NEW r \in Routes, Orphaned(K, r)
    PROVE  /\ tasks' \in [Kinds -> [Contexts -> Nat]]
           /\ \A s \in Routes : s # r => tasks'["pop"][s] = tasks["pop"][s]
           /\ "pop" \notin K => tasks'["pop"] = tasks["pop"]
           /\ "pop" \in K => tasks'["pop"][r] = 0
<1>1. tasks \in [Kinds -> [Contexts -> Nat]]
  BY DEF TypeOK, Contexts
<1>2. r # Gone /\ Gone \in Contexts /\ r \in Contexts /\ Gone \notin Routes
  BY RoutesAssumption DEF Routes, Gone, Contexts
<1> DEFINE Left(k) == [tasks[k] EXCEPT ![r] = 0,
                          ![Gone] = IF k \in AuthKinds THEN @ + tasks[k][r] ELSE @]
<1>3. tasks' = [k \in Kinds |-> IF k \notin K THEN tasks[k] ELSE Left(k)]
  BY DEF Orphaned
<1>4. ASSUME NEW k \in Kinds
      PROVE  /\ Left(k) \in [Contexts -> Nat] /\ Left(k)[r] = 0
             /\ \A s \in Routes : s # r => Left(k)[s] = tasks[k][s]
  <2>1. tasks[k] \in [Contexts -> Nat]
    BY <1>1
  <2>2. tasks[k][r] \in Nat /\ tasks[k][Gone] \in Nat /\ tasks[k][Gone] + tasks[k][r] \in Nat
    BY <2>1, <1>2
  <2>3. \A s \in Routes : s \in Contexts /\ s # Gone
    BY <1>2 DEF Contexts
  <2> QED
    BY <2>1, <2>2, <2>3, <1>2
<1>5. "pop" \in Kinds
  BY DEF Kinds
<1> HIDE DEF Left
<1> QED
  BY <1>1, <1>3, <1>4, <1>5

-----------------------------------------------------------------------------
(* Routes *)

\* What a push leaves behind.
LEMMA PushTypes ==
    ASSUME TypeOK, NEW p \in Pages, Push(p)
    PROVE  /\ opened' = opened + 1 /\ opened' \in Routes
           /\ stack' = Append(stack, opened + 1) /\ stack' \in Seq(Routes)
           /\ page' \in [Routes -> Pages] /\ page' = [page EXCEPT ![opened + 1] = p]
           /\ budget' = budget /\ leaving' = leaving /\ tab' = tab
<1>1. budget.routes \in Routes
  BY BudgetsAssumption DEF TypeOK
<1>2. opened + 1 \in Routes
  BY <1>1, RoutesAssumption DEF Push, TypeOK, Routes
<1> QED
  BY <1>2 DEF Push, TypeOK

\* What a pop leaves behind.
LEMMA PopTypes ==
    ASSUME TypeOK, Pop
    PROVE  /\ Len(stack) \in Nat \ {0} /\ Top \in Routes /\ Top \in OnStack
           /\ stack' \in Seq(Routes) /\ Len(stack') = Len(stack) - 1
           /\ \A i \in 1 .. Len(stack) - 1 : stack'[i] = stack[i]
           /\ leaving' = leaving \union {Top} /\ leaving' \subseteq Routes
           /\ budget' = budget /\ opened' = opened /\ page' = page /\ tab' = tab
<1>1. stack \in Seq(Routes) /\ leaving \subseteq Routes
  BY DEF TypeOK
<1>2. stack # <<>> /\ stack' = SubSeq(stack, 1, Len(stack) - 1) /\ leaving' = leaving \union {Top}
  BY DEF Pop
<1>3. Len(stack) \in Nat \ {0}
  BY <1>1, <1>2
<1>4. Top \in Routes /\ Top \in OnStack
  BY <1>1, <1>3 DEF Top, OnStack
<1>5. stack' \in Seq(Routes) /\ Len(stack') = Len(stack) - 1
  <2> DEFINE n == Len(stack) - 1
  <2>1. n \in Nat /\ \A i \in 1 .. n : stack[i] \in Routes
    BY <1>1, <1>3
  <2>2. SubSeq(stack, 1, n) \in Seq(Routes) /\ Len(SubSeq(stack, 1, n)) = IF 1 <= n THEN n - 1 + 1 ELSE 0
    BY <2>1, SubSeqProperties
  <2>3. \A m \in Nat : (IF 1 <= m THEN m - 1 + 1 ELSE 0) = m
    OBVIOUS
  <2> QED
    BY <1>2, <2>1, <2>2, <2>3, Zenon
<1>6. \A i \in 1 .. Len(stack) - 1 : stack'[i] = stack[i]
  BY <1>1, <1>2, <1>3
<1> QED
  BY <1>1, <1>2, <1>3, <1>4, <1>5, <1>6 DEF Pop

RouteTypes ==
    /\ budget \in Budgets /\ opened \in Routes
    /\ stack \in Seq(Routes) /\ leaving \subseteq Routes
    /\ page \in [Routes -> Pages] /\ tab \in [Routes -> Tabs]

AuthTypes ==
    /\ currentUser \in Users \union {NoUser}
    /\ accounts \subseteq Users /\ known \subseteq Users /\ dropped \subseteq Users
    /\ docs \subseteq Users
    /\ userInformation \in Users \union {NoUser}
    /\ checks \in [Users -> Nat] /\ reads \in [Users -> Nat]

HistoryTypes ==
    /\ deleted \subseteq Routes /\ hurried \subseteq Routes
    /\ taken \subseteq Routes /\ astray \subseteq Routes

\* The four parts of the type invariant.
LEMMA TypeParts ==
    /\ TypeOK => AuthTypes /\ RouteTypes /\ HistoryTypes
    /\ AuthTypes /\ RouteTypes /\ HistoryTypes /\ tasks \in [Kinds -> [Contexts -> Nat]] => TypeOK
BY DEF TypeOK, AuthTypes, RouteTypes, HistoryTypes, Contexts

\* The same after a step.
LEMMA TypePartsNext ==
    AuthTypes' /\ RouteTypes' /\ HistoryTypes' /\ tasks' \in [Kinds -> [Contexts -> Nat]] => TypeOK'
BY DEF TypeOK, AuthTypes, RouteTypes, HistoryTypes, Contexts

\* The pages keep their types when a handler pushes one, or cannot any more.
LEMMA PushFromTypes ==
    ASSUME TypeOK, NEW r \in Contexts, NEW p \in Pages, PushFrom(r, p)
    PROVE  RouteTypes'
<1>1. CASE r = Gone
  BY <1>1, TypeParts DEF PushFrom, routeVars, RouteTypes
<1>2. CASE r # Gone
  BY <1>2, PushTypes, TypeParts DEF PushFrom, RouteTypes
<1> QED
  BY <1>1, <1>2

-----------------------------------------------------------------------------
(* Types *)

\* The first state has the types.
LEMMA InitTypes == Init => TypeOK
<1> SUFFICES ASSUME Init PROVE TypeOK
  OBVIOUS
<1>1. {1, 2} \subseteq Routes
  BY RoutesAssumption DEF Routes
<1>2. AuthTypes
  BY DEF Init, AuthTypes, NoGets
<1>3. RouteTypes
  <2>1. <<1, 2>> \in Seq(Routes)
    BY <1>1
  <2>2. FirstPages \in [Routes -> Pages]
    BY DEF FirstPages, Pages
  <2> QED
    BY <1>1, <2>1, <2>2 DEF Init, RouteTypes, Tabs
<1>4. HistoryTypes
  BY DEF Init, HistoryTypes
<1>5. tasks \in [Kinds -> [Contexts -> Nat]]
  BY DEF Init, Idle, Contexts
<1> QED
  BY <1>2, <1>3, <1>4, <1>5, TypeParts

\* A user's tap keeps the types.
LEMMA UserTypes == TypeOK /\ UserStep => TypeOK'
<1> SUFFICES ASSUME TypeOK, UserStep PROVE TypeOK'
  OBVIOUS
<1>0. AuthTypes /\ RouteTypes /\ HistoryTypes
  BY TypeParts
<1>a. AuthTypes'
  <2>1. UNCHANGED authVars
    BY DEF UserStep, TapGoogle, TapGuest, TapLogout, TapWeather, SwitchTab, Open, Back, ConfirmDelete, Save
  <2> QED
    BY <1>0, <2>1 DEF authVars, AuthTypes
<1>b. stack # <<>> => Top \in Routes /\ Top \in Contexts
  BY DEF TypeOK, Top, Contexts
<1>c. Len(stack) > 1 => Below \in Routes /\ Below \in Contexts
  BY DEF TypeOK, Below, Contexts
<1>d. ASSUME NEW r \in Routes, Hurries(r) PROVE hurried' \subseteq Routes
  BY <1>d DEF Hurries, TypeOK
<1>1. ASSUME TapGoogle \/ TapGuest \/ TapLogout \/ TapWeather PROVE TypeOK'
  <2>1. UNCHANGED routeVars /\ UNCHANGED historyVars
    BY <1>1 DEF TapGoogle, TapGuest, TapLogout, TapWeather
  <2>2. stack # <<>> /\ \E k \in Kinds : Waits(k, Top)
    BY <1>1 DEF TapGoogle, TapGuest, TapLogout, TapWeather, OnTop, Kinds, AuthKinds
  <2>3. tasks' \in [Kinds -> [Contexts -> Nat]]
    BY <2>2, <1>b, WaitsFacts
  <2>4. RouteTypes' /\ HistoryTypes'
    BY <2>1, <1>0 DEF routeVars, historyVars, RouteTypes, HistoryTypes
  <2> QED
    BY <1>a, <2>3, <2>4, TypePartsNext
<1>2. ASSUME NEW t \in Tabs, SwitchTab(t) PROVE TypeOK'
  <2>1. tasks' \in [Kinds -> [Contexts -> Nat]]
    <3>1. Orphaned({"weather", "signOut"}, Top) /\ stack # <<>>
      BY <1>2 DEF SwitchTab, OnTop
    <3>2. {"weather", "signOut"} \in SUBSET Kinds
      BY DEF Kinds, AuthKinds
    <3> QED
      BY <3>1, <3>2, <1>b, OrphanedFacts
  <2>2. RouteTypes' /\ HistoryTypes'
    BY <1>2, <1>0 DEF SwitchTab, RouteTypes, historyVars, HistoryTypes
  <2> QED
    BY <1>a, <2>1, <2>2, TypePartsNext
<1>3. ASSUME NEW p \in Pages, Open(p) PROVE TypeOK'
  <2>1. RouteTypes'
    <3>1. Push(p)
      BY <1>3 DEF Open
    <3> QED
      BY <1>0, <3>1, PushTypes DEF RouteTypes
  <2>2. HistoryTypes' /\ tasks' \in [Kinds -> [Contexts -> Nat]]
    BY <1>3, <1>0 DEF Open, historyVars, HistoryTypes, TypeOK, Contexts
  <2> QED
    BY <1>a, <2>1, <2>2, TypePartsNext
<1>4. ASSUME Back PROVE TypeOK'
  <2>1. Pop /\ stack # <<>> /\ Hurries(Top) /\ tasks' = tasks /\ UNCHANGED <<deleted, taken, astray>>
    BY <1>4 DEF Back, Pop
  <2>2. RouteTypes'
    BY <1>0, <2>1, PopTypes DEF RouteTypes
  <2>3. HistoryTypes'
    BY <1>0, <2>1, <1>b, <1>d DEF HistoryTypes
  <2>4. tasks' \in [Kinds -> [Contexts -> Nat]]
    BY <2>1 DEF TypeOK, Contexts
  <2> QED
    BY <1>a, <2>2, <2>3, <2>4, TypePartsNext
<1>5. ASSUME ConfirmDelete PROVE TypeOK'
  <2>1. /\ Pop /\ Len(stack) > 1 /\ Hurries(Below) /\ Waits("pop", Below)
        /\ deleted' = deleted \union {Below} /\ UNCHANGED <<taken, astray>>
    BY <1>5 DEF ConfirmDelete
  <2>2. RouteTypes'
    BY <1>0, <2>1, PopTypes DEF RouteTypes
  <2>3. HistoryTypes'
    BY <1>0, <2>1, <1>c, <1>d DEF HistoryTypes
  <2>4. tasks' \in [Kinds -> [Contexts -> Nat]]
    BY <2>1, <1>c, WaitsFacts DEF Kinds
  <2> QED
    BY <1>a, <2>2, <2>3, <2>4, TypePartsNext
<1>6. ASSUME Save PROVE TypeOK'
  <2>1. /\ stack # <<>> /\ Hurries(Top) /\ Waits("pop", Top)
        /\ UNCHANGED routeVars /\ UNCHANGED <<deleted, taken, astray>>
    BY <1>6 DEF Save, OnTop
  <2>2. RouteTypes'
    BY <1>0, <2>1 DEF RouteTypes, routeVars
  <2>3. HistoryTypes'
    BY <1>0, <2>1, <1>b, <1>d DEF HistoryTypes
  <2>4. tasks' \in [Kinds -> [Contexts -> Nat]]
    BY <2>1, <1>b, WaitsFacts DEF Kinds
  <2> QED
    BY <1>a, <2>2, <2>3, <2>4, TypePartsNext
<1> QED
  BY <1>1, <1>2, <1>3, <1>4, <1>5, <1>6 DEF UserStep

\* A page pushed by a handler of LoginProvider is a page.
LEMMA AuthTypesNext == TypeOK /\ AuthStep => TypeOK'
<1> SUFFICES ASSUME TypeOK, AuthStep PROVE TypeOK'
  OBVIOUS
<1>0. AuthTypes /\ RouteTypes /\ HistoryTypes
  BY TypeParts
<1>a. /\ "google" \in Kinds /\ "guest" \in Kinds /\ "signOut" \in Kinds
      /\ "home" \in Pages /\ "login" \in Pages
      /\ Accounts \subseteq Users /\ Guests \subseteq Users
  BY DEF Kinds, AuthKinds, Pages, Users
<1>b. ASSUME NEW u \in Users, NEW D, D \subseteq Users, SignedIn(u, D)
      PROVE  checks' \in [Users -> Nat] => AuthTypes'
  BY <1>b, <1>0 DEF SignedIn, Download, AuthTypes
<1>1. ASSUME NEW r \in Contexts, NEW u \in Accounts, GoogleDone(r, u) PROVE TypeOK'
  <2>1. AuthTypes'
    <3>1. SignedIn(u, docs) /\ checks' = [checks EXCEPT ![u] = @ + 1]
      BY <1>1 DEF GoogleDone
    <3>2. checks' \in [Users -> Nat] /\ docs \subseteq Users
      BY <3>1, <1>0, <1>a DEF AuthTypes
    <3> QED
      BY <3>1, <3>2, <1>a, <1>b
  <2>2. RouteTypes'
    BY <1>1, <1>a, PushFromTypes DEF GoogleDone
  <2>3. HistoryTypes'
    BY <1>1, <1>0 DEF GoogleDone, historyVars, HistoryTypes
  <2>4. tasks' \in [Kinds -> [Contexts -> Nat]]
    BY <1>1, <1>a, GoesOnFacts DEF GoogleDone
  <2> QED
    BY <2>1, <2>2, <2>3, <2>4, TypePartsNext
<1>2. ASSUME NEW r \in Contexts, NEW u \in Guests, GuestDone(r, u) PROVE TypeOK'
  <2>1. AuthTypes'
    <3>1. SignedIn(u, docs \union {u}) /\ checks' = checks
      BY <1>2 DEF GuestDone
    <3>2. checks' \in [Users -> Nat] /\ docs \union {u} \subseteq Users
      BY <3>1, <1>0, <1>a DEF AuthTypes
    <3> QED
      BY <3>1, <3>2, <1>a, <1>b
  <2>2. RouteTypes'
    BY <1>2, <1>a, PushFromTypes DEF GuestDone
  <2>3. HistoryTypes'
    BY <1>2, <1>0 DEF GuestDone, historyVars, HistoryTypes
  <2>4. tasks' \in [Kinds -> [Contexts -> Nat]]
    BY <1>2, <1>a, GoesOnFacts DEF GuestDone
  <2> QED
    BY <2>1, <2>2, <2>3, <2>4, TypePartsNext
<1>3. ASSUME NEW r \in Contexts, GoogleFails(r) \/ GuestFails(r) \/ SignOutDone(r) \/ SignOutFails(r)
      PROVE  TypeOK'
  <2>1. AuthTypes'
    BY <1>3, <1>0 DEF GoogleFails, GuestFails, SignOutDone, SignOutFails, authVars, AuthTypes
  <2>2. RouteTypes'
    <3>1. UNCHANGED routeVars \/ \E p \in Pages : PushFrom(r, p)
      BY <1>3, <1>a DEF GoogleFails, GuestFails, SignOutDone, SignOutFails
    <3> QED
      BY <3>1, <1>0, PushFromTypes DEF routeVars, RouteTypes
  <2>3. HistoryTypes'
    BY <1>3, <1>0 DEF GoogleFails, GuestFails, SignOutDone, SignOutFails, historyVars, HistoryTypes
  <2>4. tasks' \in [Kinds -> [Contexts -> Nat]]
    <3>1. \E k \in Kinds : GoesOn(k, r)
      BY <1>3, <1>a DEF GoogleFails, GuestFails, SignOutDone, SignOutFails
    <3> QED
      BY <3>1, GoesOnFacts
  <2> QED
    BY <2>1, <2>2, <2>3, <2>4, TypePartsNext
<1>4. ASSUME NEW u \in Users, CheckDone(u) \/ ReadDone(u) \/ GetFails(u) PROVE TypeOK'
  <2>1. UNCHANGED routeVars /\ UNCHANGED tasks /\ UNCHANGED historyVars
    BY <1>4 DEF CheckDone, ReadDone, GetFails
  <2>2. RouteTypes' /\ HistoryTypes' /\ tasks' \in [Kinds -> [Contexts -> Nat]]
    BY <2>1, <1>0 DEF routeVars, historyVars, RouteTypes, HistoryTypes, TypeOK, Contexts
  <2>3. AuthTypes'
    BY <1>4, <1>0 DEF CheckDone, ReadDone, GetFails, AuthTypes
  <2> QED
    BY <2>2, <2>3, TypePartsNext
<1> QED
  BY <1>1, <1>2, <1>3, <1>4 DEF AuthStep, Contexts

\* Timers and transitions keep the types.
LEMMA RouteTypesNext == TypeOK /\ RouteStep => TypeOK'
<1> SUFFICES ASSUME TypeOK, NEW r \in Routes, WeatherDue(r) \/ PopDue(r) \/ Dismissed(r) PROVE TypeOK'
  BY DEF RouteStep
<1>0. AuthTypes /\ RouteTypes /\ HistoryTypes
  BY TypeParts
<1>a. AuthTypes'
  <2>1. UNCHANGED authVars
    BY DEF WeatherDue, PopDue, Dismissed
  <2> QED
    BY <2>1, <1>0 DEF authVars, AuthTypes
<1>b. r \in Contexts /\ "weather" \in Kinds /\ "pop" \in Kinds /\ "weather" \in Pages
  BY DEF Contexts, Kinds, Pages
<1>1. ASSUME WeatherDue(r) PROVE TypeOK'
  <2>1. RouteTypes'
    BY <1>0, <1>1, <1>b, PushTypes DEF WeatherDue, RouteTypes
  <2>2. HistoryTypes' /\ tasks' \in [Kinds -> [Contexts -> Nat]]
    BY <1>0, <1>1, <1>b, GoesOnFacts DEF WeatherDue, historyVars, HistoryTypes
  <2> QED
    BY <1>a, <2>1, <2>2, TypePartsNext
<1>2. ASSUME PopDue(r) PROVE TypeOK'
  <2>1. tasks' \in [Kinds -> [Contexts -> Nat]]
    BY <1>2, <1>b, GoesOnFacts DEF PopDue
  <2>2. CASE stack = <<>>
    BY <1>2, <2>2, <1>0, <1>a, <2>1, TypePartsNext DEF PopDue, routeVars, RouteTypes, HistoryTypes
  <2>3. CASE stack # <<>>
    <3>1. Pop /\ deleted' = deleted /\ hurried' = hurried
      BY <1>2, <2>3 DEF PopDue
    <3>2. RouteTypes' /\ Top \in Routes
      BY <3>1, <1>0, PopTypes DEF RouteTypes
    <3>3. HistoryTypes'
      BY <3>1, <3>2, <1>2, <2>3, <1>0 DEF PopDue, HistoryTypes
    <3> QED
      BY <1>a, <2>1, <3>2, <3>3, TypePartsNext
  <2> QED
    BY <2>2, <2>3
<1>3. ASSUME Dismissed(r) PROVE TypeOK'
  <2>1. tasks' \in [Kinds -> [Contexts -> Nat]]
    BY <1>3, OrphanedFacts DEF Dismissed
  <2>2. RouteTypes' /\ HistoryTypes'
    BY <1>3, <1>0 DEF Dismissed, RouteTypes, HistoryTypes, Pages, Tabs
  <2> QED
    BY <1>a, <2>1, <2>2, TypePartsNext
<1> QED
  BY <1>1, <1>2, <1>3

\* Opening the app again is like opening it for the first time.
LEMMA RestartTypes == TypeOK /\ Restart => TypeOK'
<1> SUFFICES ASSUME TypeOK, Restart PROVE TypeOK'
  OBVIOUS
<1>1. {1, 2} \subseteq Routes
  BY RoutesAssumption DEF Routes
<1>2. AuthTypes'
  BY DEF Restart, AuthTypes, NoGets, TypeOK
<1>3. RouteTypes'
  <2>1. <<1, 2>> \in Seq(Routes)
    BY <1>1
  <2>2. FirstPages \in [Routes -> Pages]
    BY DEF FirstPages, Pages
  <2> QED
    BY <1>1, <2>1, <2>2 DEF Restart, RouteTypes, Tabs, TypeOK
<1>4. HistoryTypes'
  BY DEF Restart, HistoryTypes
<1>5. tasks' \in [Kinds -> [Contexts -> Nat]]
  BY DEF Restart, Idle, Contexts
<1> QED
  BY <1>2, <1>3, <1>4, <1>5, TypePartsNext

\* Every step keeps the types.
LEMMA TypeStep == TypeOK /\ [Next]_vars => TypeOK'
<1>1. ASSUME TypeOK, UNCHANGED vars PROVE TypeOK'
  BY <1>1 DEF vars, authVars, routeVars, historyVars, TypeOK
<1> QED
  BY <1>1, UserTypes, AuthTypesNext, RouteTypesNext, RestartTypes DEF Next

\* Every reachable state of LoginProvider, the stack and the waiting handlers has
\* its type: no handler goes on twice, no route is pushed past the last number.
THEOREM TypeCorrect == Spec => []TypeOK
<1> QED
  BY InitTypes, TypeStep, PTL DEF Spec

-----------------------------------------------------------------------------
(* Profiles *)

\* Downloads and profiles are those of users since the start; a document is
\* never lost; and a user who had one at the sign-in is being read or there is a
\* profile already.
ReadsOwned == \A u \in Users : reads[u] > 0 => u \in accounts
ProfileOwned == userInformation # NoUser => userInformation \in accounts \intersect docs
KnownDocs == known \subseteq docs
KnownRead == \A u \in known \ dropped : reads[u] > 0 \/ userInformation # NoUser

ProfileInv == ReadsOwned /\ ProfileOwned /\ KnownDocs /\ KnownRead /\ AccountHasDoc

\* A sign-in keeps them: whoever had a document is read.
LEMMA SignedInProfile ==
    ASSUME TypeOK, ProfileInv, NEW u \in Users, NEW D \in SUBSET Users, docs \subseteq D,
           SignedIn(u, D), checks' \in [Users -> Nat],
           \A v \in Users : checks[v] > 0 => checks'[v] > 0,
           u \in D \/ checks'[u] > 0
    PROVE  ProfileInv'
<1>1. /\ reads \in [Users -> Nat] /\ checks \in [Users -> Nat]
      /\ known \subseteq Users /\ accounts \subseteq Users
  BY DEF TypeOK
<1>2. /\ accounts' = accounts \union {u} /\ known' = known \union ({u} \intersect D)
      /\ docs' = D /\ dropped' = dropped /\ userInformation' = userInformation
  BY DEF SignedIn
<1>3. reads' = [reads EXCEPT ![u] = @ + 1]
  BY DEF SignedIn, Download
<1>4. \A v \in Users : (reads[v] > 0 => reads'[v] > 0) /\ reads'[u] > 0
                       /\ (v # u => reads'[v] = reads[v])
  BY <1>1, <1>3
<1>5. ReadsOwned' /\ ProfileOwned' /\ KnownDocs'
  BY <1>1, <1>2, <1>4 DEF ProfileInv, ReadsOwned, ProfileOwned, KnownDocs
<1>6. KnownRead'
  BY <1>1, <1>2, <1>4 DEF ProfileInv, KnownRead
<1>7. AccountHasDoc'
  BY <1>1, <1>2 DEF ProfileInv, AccountHasDoc
<1> QED
  BY <1>5, <1>6, <1>7 DEF ProfileInv

\* Every step keeps them.
LEMMA ProfileStep == TypeOK /\ ProfileInv /\ [Next]_vars => ProfileInv'
<1> SUFFICES ASSUME TypeOK, ProfileInv, [Next]_vars PROVE ProfileInv'
  OBVIOUS
<1>0. /\ reads \in [Users -> Nat] /\ checks \in [Users -> Nat]
      /\ known \subseteq Users /\ accounts \subseteq Users /\ docs \subseteq Users
      /\ Accounts \subseteq Users /\ Guests \subseteq Users /\ NoUser \notin Users
  BY UsersAssumption DEF TypeOK, Users
<1> USE DEF ProfileInv, ReadsOwned, ProfileOwned, KnownDocs, KnownRead, AccountHasDoc
<1>1. ASSUME UNCHANGED authVars PROVE ProfileInv'
  BY <1>1 DEF authVars
<1>2. ASSUME NEW r \in Contexts, NEW u \in Accounts, GoogleDone(r, u) PROVE ProfileInv'
  <2>1. SignedIn(u, docs) /\ checks' = [checks EXCEPT ![u] = @ + 1]
    BY <1>2 DEF GoogleDone
  <2>2. /\ checks' \in [Users -> Nat] /\ checks'[u] > 0
        /\ \A v \in Users : checks[v] > 0 => checks'[v] > 0
    BY <1>0, <2>1
  <2> QED
    BY <1>0, <2>1, <2>2, SignedInProfile DEF TypeOK
<1>3. ASSUME NEW r \in Contexts, NEW u \in Guests, GuestDone(r, u) PROVE ProfileInv'
  <2>1. SignedIn(u, docs \union {u}) /\ checks' = checks
    BY <1>3 DEF GuestDone
  <2> QED
    BY <1>0, <2>1, SignedInProfile DEF TypeOK
<1>4. ASSUME NEW r \in Contexts, SignOutDone(r) PROVE ProfileInv'
  BY <1>4 DEF SignOutDone
<1>5. ASSUME NEW u \in Users, CheckDone(u) PROVE ProfileInv'
  <2>1. /\ docs' = docs \union {u} /\ checks' = [checks EXCEPT ![u] = @ - 1]
        /\ UNCHANGED <<accounts, known, dropped, userInformation, reads>>
    BY <1>5 DEF CheckDone
  <2>2. \A v \in Users : v # u => checks'[v] = checks[v]
    BY <1>0, <2>1
  <2> QED
    BY <1>0, <2>1, <2>2
<1>6. ASSUME NEW u \in Users, ReadDone(u) PROVE ProfileInv'
  <2>1. /\ reads[u] > 0 /\ reads' = [reads EXCEPT ![u] = @ - 1]
        /\ userInformation' = IF u \in docs THEN u ELSE userInformation
        /\ UNCHANGED <<accounts, known, dropped, docs, checks>>
    BY <1>6 DEF ReadDone
  <2>2. \A v \in Users : (v # u => reads'[v] = reads[v]) /\ (reads'[v] > 0 => reads[v] > 0)
    BY <1>0, <2>1
  <2> QED
    BY <1>0, <2>1, <2>2
<1>7. ASSUME NEW u \in Users, GetFails(u) PROVE ProfileInv'
  <2>1. /\ dropped' = dropped \union {u} /\ UNCHANGED <<accounts, known, docs, userInformation>>
        /\ \/ reads' = [reads EXCEPT ![u] = @ - 1] /\ checks' = checks
           \/ checks' = [checks EXCEPT ![u] = @ - 1] /\ reads' = reads
        /\ reads'[u] > 0 => reads[u] > 0
    BY <1>0, <1>7 DEF GetFails
  <2>2. \A v \in Users : v # u => reads'[v] = reads[v] /\ checks'[v] = checks[v]
    BY <1>0, <2>1
  <2> QED
    BY <1>0, <2>1, <2>2
<1>8. ASSUME Restart PROVE ProfileInv'
  BY <1>8 DEF Restart, NoGets
<1>9. ASSUME UserStep \/ RouteStep PROVE UNCHANGED authVars
  BY <1>9 DEF UserStep, TapGoogle, TapGuest, TapLogout, TapWeather, SwitchTab, Open, Back,
              ConfirmDelete, Save, RouteStep, WeatherDue, PopDue, Dismissed
<1>10. ASSUME NEW r \in Contexts, GoogleFails(r) \/ GuestFails(r) \/ SignOutFails(r)
       PROVE  UNCHANGED authVars
  BY <1>10 DEF GoogleFails, GuestFails, SignOutFails
<1>11. ASSUME AuthStep PROVE ProfileInv'
  BY <1>11, <1>1, <1>2, <1>3, <1>4, <1>5, <1>6, <1>7, <1>10 DEF AuthStep, Contexts
<1>12. ASSUME UNCHANGED vars PROVE UNCHANGED authVars
  BY <1>12 DEF vars
<1> QED
  BY <1>1, <1>8, <1>9, <1>11, <1>12 DEF Next

\* They hold from the start.
LEMMA ProfileAlways == Spec => [](TypeOK /\ ProfileInv)
<1>1. Init => ProfileInv
  BY DEF Init, ProfileInv, ReadsOwned, ProfileOwned, KnownDocs, KnownRead, AccountHasDoc, NoGets
<1> QED
  BY <1>1, InitTypes, TypeStep, ProfileStep, PTL DEF Spec

\* Whoever signs in gets a document, whoever signs in or out meanwhile, unless
\* the get of addUserInfo fails.
THEOREM AccountsHaveDocs == Spec => []AccountHasDoc
<1>1. ProfileInv => AccountHasDoc
  BY DEF ProfileInv
<1> QED
  BY <1>1, ProfileAlways, PTL

\* Once the downloads are through there is a profile of a user since the start,
\* if one of them had a document and no get of theirs failed.
THEOREM ProfilesSettle == Spec => []SettledProfile
<1>1. TypeOK /\ ProfileInv => SettledProfile
  BY DEF TypeOK, ProfileInv, ProfileOwned, KnownRead, SettledProfile
<1> QED
  BY <1>1, ProfileAlways, PTL

\* What LoginProvider holds of a user who is the only one since the start: never
\* another profile, not even that of the user before the restart, and after the
\* downloads the user's own.
OwnProfile ==
    \A u \in Users : accounts = {u} =>
        /\ userInformation \in {u, NoUser}
        /\ u \in known \ dropped /\ (\A v \in Users : reads[v] = 0) => userInformation = u

\* As long as one user alone has signed in, by whatever sign-ins, sign-outs, gets
\* that fail and restarts, the profile is that user's, and it is there once the
\* downloads are through: ProfileArrives needs only that downloads end.
THEOREM OnlyUserHasOwnProfile == Spec => []OwnProfile
<1>1. TypeOK /\ ProfileInv => OwnProfile
  <2> SUFFICES ASSUME TypeOK, ProfileInv, NEW u \in Users, accounts = {u}
               PROVE  /\ userInformation \in {u, NoUser}
                      /\ u \in known \ dropped /\ (\A v \in Users : reads[v] = 0)
                            => userInformation = u
    BY DEF OwnProfile
  <2>1. userInformation \in {u, NoUser}
    BY DEF ProfileInv, ProfileOwned
  <2>2. ASSUME u \in known \ dropped, \A v \in Users : reads[v] = 0
        PROVE  userInformation = u
    <3>1. reads[u] = 0
      BY <2>2
    <3>2. userInformation # NoUser
      BY <2>2, <3>1 DEF ProfileInv, KnownRead
    <3> QED
      BY <2>1, <3>2
  <2> QED
    BY <2>1, <2>2
<1> QED
  BY <1>1, ProfileAlways, PTL

-----------------------------------------------------------------------------
(* Pages *)

\* Routes lie on the stack in the order they were pushed; a route that leaves is
\* not on it; a dialog lies on the detail page that opened it.
InOrder == \A i, j \in DOMAIN stack : i < j => stack[i] < stack[j]
WereOpened == \A r \in OnStack \union leaving : r <= opened
OffStack == leaving \intersect OnStack = {}
AlertOnRecipe ==
    \A i \in DOMAIN stack : page[stack[i]] = "alert" => i > 1 /\ page[stack[i - 1]] = "recipe"

StackInv == InOrder /\ WereOpened /\ OffStack /\ AlertOnRecipe

\* A delayed pop is that of a page that is not gone; a page that leaves, or waits
\* for a second pop, was left in a hurry or taken.
Pops(r) == tasks["pop"][r]
PopsLive == \A r \in Routes : Pops(r) > 0 => r \in OnStack \union leaving /\ page[r] \in {"recipe", "create"}
DeletedLive == deleted \subseteq OnStack \union leaving
LeavingHurried == \A r \in leaving : Pops(r) > 0 => r \in hurried \union taken
TwiceHurried == \A r \in Routes : Pops(r) > 1 => r \in hurried

PopInv == PopsLive /\ DeletedLive /\ LeavingHurried /\ TwiceHurried /\ DeletedPageGoes

\* The stack is a sequence of routes, and routes are numbers.
LEMMA StackFacts ==
    ASSUME TypeOK
    PROVE  /\ Routes \subseteq Nat /\ opened \in Nat /\ Len(stack) \in Nat
           /\ DOMAIN stack = 1 .. Len(stack)
           /\ \A i \in DOMAIN stack : stack[i] \in Routes /\ stack[i] \in Nat /\ i \in Nat
           /\ OnStack \subseteq Routes
           /\ stack # <<>> => Len(stack) > 0
<1>1. Routes \subseteq Nat
  BY RoutesAssumption DEF Routes
<1>2. stack \in Seq(Routes) /\ opened \in Routes
  BY DEF TypeOK
<1>3. Len(stack) \in Nat /\ DOMAIN stack = 1 .. Len(stack)
  BY <1>2
<1>4. \A i \in DOMAIN stack : stack[i] \in Routes /\ stack[i] \in Nat /\ i \in Nat
  <2>1. \A i \in DOMAIN stack : stack[i] \in Routes
    BY <1>2
  <2>2. \A i \in DOMAIN stack : i \in Nat
    BY <1>3
  <2> QED
    BY <1>1, <2>1, <2>2
<1>5. stack # <<>> => Len(stack) > 0
  BY <1>2
<1> QED
  BY <1>1, <1>2, <1>3, <1>4, <1>5 DEF OnStack

\* What a push does to the stack.
LEMMA PushStack ==
    ASSUME TypeOK, NEW p \in Pages, Push(p)
    PROVE  /\ OnStack' = OnStack \union {opened + 1}
           /\ DOMAIN stack' = DOMAIN stack \union {Len(stack) + 1}
           /\ stack'[Len(stack) + 1] = opened + 1
           /\ \A i \in DOMAIN stack : stack'[i] = stack[i]
<1>1. stack \in Seq(Routes) /\ stack' = Append(stack, opened + 1)
  BY DEF TypeOK, Push
<1>2. /\ DOMAIN stack' = DOMAIN stack \union {Len(stack) + 1}
      /\ stack'[Len(stack) + 1] = opened + 1
      /\ \A i \in DOMAIN stack : stack'[i] = stack[i]
  BY <1>1
<1>3. OnStack' = OnStack \union {opened + 1}
  BY <1>2 DEF OnStack
<1> QED
  BY <1>2, <1>3

\* A push keeps the stack in order, if a dialog is pushed from a detail page.
LEMMA PushKeepsStack ==
    ASSUME TypeOK, StackInv, NEW p \in Pages, Push(p), p = "alert" => OnTop("recipe")
    PROVE  StackInv'
<1>1. /\ opened \in Nat /\ Len(stack) \in Nat /\ leaving \subseteq Routes
      /\ page \in [Routes -> Pages]
      /\ \A i \in DOMAIN stack : stack[i] \in Routes /\ stack[i] \in Nat /\ i \in Nat
      /\ DOMAIN stack = 1 .. Len(stack) /\ Routes \subseteq Nat /\ OnStack \subseteq Routes
      /\ stack # <<>> => Len(stack) > 0
  BY StackFacts DEF TypeOK
<1>2. /\ opened' = opened + 1 /\ opened' \in Routes /\ leaving' = leaving
      /\ page' = [page EXCEPT ![opened + 1] = p]
  BY PushTypes
<1>3. \A i \in DOMAIN stack : stack[i] <= opened /\ stack[i] \in OnStack
  BY DEF StackInv, WereOpened, OnStack
<1>4. InOrder'
  BY <1>1, <1>3, PushStack DEF StackInv, InOrder
<1>5. WereOpened'
  <2>1. \A r \in OnStack \union leaving : r \in Nat /\ r <= opened
    BY <1>1 DEF StackInv, WereOpened
  <2>2. \A r \in OnStack \union leaving : r <= opened + 1
    BY <1>1, <2>1
  <2> QED
    <3>1. OnStack' = OnStack \union {opened + 1} /\ opened + 1 <= opened + 1
      BY <1>1, PushStack
    <3> QED
      BY <1>2, <2>2, <3>1 DEF WereOpened
<1>6. OffStack'
  <2>1. opened + 1 \notin leaving
    BY <1>1 DEF StackInv, WereOpened
  <2> QED
    BY <1>2, <2>1, PushStack DEF StackInv, OffStack
<1>7. AlertOnRecipe'
  <2>1. \A i \in DOMAIN stack : page'[stack'[i]] = page[stack[i]]
    <3>1. \A i \in DOMAIN stack : stack[i] # opened + 1
      BY <1>1, <1>3
    <3> QED
      BY <1>1, <1>2, <3>1, PushStack
  <2>2. page'[stack'[Len(stack) + 1]] = p
    BY <1>1, <1>2, PushStack
  <2>3. \A i \in DOMAIN stack : i > 1 => i - 1 \in DOMAIN stack
    BY <1>1
  <2>4. p = "alert" => Len(stack) \in DOMAIN stack /\ Len(stack) + 1 - 1 = Len(stack) /\ Len(stack) + 1 > 1
                       /\ page[stack[Len(stack)]] = "recipe"
    BY <1>1 DEF OnTop, Top
  <2>5. ASSUME NEW i \in DOMAIN stack', page'[stack'[i]] = "alert"
        PROVE  i > 1 /\ page'[stack'[i - 1]] = "recipe"
    <3>1. CASE i \in DOMAIN stack
      BY <2>1, <2>3, <2>5, <3>1 DEF StackInv, AlertOnRecipe
    <3>2. CASE i = Len(stack) + 1
      BY <2>1, <2>2, <2>4, <2>5, <3>2
    <3> QED
      BY <3>1, <3>2, PushStack
  <2> QED
    BY <2>5 DEF AlertOnRecipe
<1> QED
  BY <1>4, <1>5, <1>6, <1>7 DEF StackInv

\* What a pop does to it: the route on top is the last of those pushed.
LEMMA PopStack ==
    ASSUME TypeOK, StackInv, Pop
    PROVE  /\ OnStack' = OnStack \ {Top} /\ OnStack \subseteq Routes
           /\ DOMAIN stack' = 1 .. Len(stack) - 1 /\ DOMAIN stack' \subseteq DOMAIN stack
           /\ \A i \in DOMAIN stack' : stack'[i] = stack[i]
           /\ \A r \in OnStack : r # Top => r < Top
           /\ Len(stack) > 1 => Below \in OnStack' /\ Below # Top
<1>1. /\ Len(stack) \in Nat /\ Len(stack) > 0
      /\ \A i \in DOMAIN stack : stack[i] \in Routes /\ stack[i] \in Nat /\ i \in Nat
      /\ DOMAIN stack = 1 .. Len(stack) /\ OnStack \subseteq Routes
  BY StackFacts DEF Pop
<1>2. /\ DOMAIN stack' = 1 .. Len(stack) - 1
      /\ \A i \in DOMAIN stack' : stack'[i] = stack[i]
  BY PopTypes
<1>3. DOMAIN stack' \subseteq DOMAIN stack /\ Len(stack) \in DOMAIN stack
      /\ DOMAIN stack = DOMAIN stack' \union {Len(stack)}
  BY <1>1, <1>2
<1>4. \A i \in DOMAIN stack' : stack[i] < stack[Len(stack)] /\ stack[i] \in Nat
  <2>1. \A i \in DOMAIN stack' : i < Len(stack)
    BY <1>1, <1>2
  <2> QED
    BY <1>1, <1>3, <2>1 DEF StackInv, InOrder
<1>5. stack[Len(stack)] \in Nat /\ OnStack \subseteq Routes
  BY <1>1, <1>3
<1>6. \A r \in OnStack : r # Top => r < Top
  BY <1>3, <1>4 DEF OnStack, Top
<1>7. OnStack' = OnStack \ {Top}
  <2>1. OnStack' = {stack[i] : i \in DOMAIN stack'}
    BY <1>2 DEF OnStack
  <2>2. \A i \in DOMAIN stack' : stack[i] # stack[Len(stack)]
    BY <1>4, <1>5
  <2> QED
    BY <2>1, <2>2, <1>3 DEF OnStack, Top
<1>8. Len(stack) > 1 => Below \in OnStack' /\ Below # Top
  <2>1. Len(stack) > 1 => Len(stack) - 1 \in DOMAIN stack'
    BY <1>1, <1>2
  <2>2. Len(stack) > 1 => Below \in OnStack /\ Below < Top /\ Below \in Nat /\ Top \in Nat
    BY <2>1, <1>3, <1>4, <1>5 DEF OnStack, Below, Top
  <2> QED
    BY <2>2, <1>7
<1> QED
  BY <1>2, <1>3, <1>5, <1>6, <1>7, <1>8

\* A pop keeps the stack in order.
LEMMA PopKeepsStack ==
    ASSUME TypeOK, StackInv, Pop
    PROVE  StackInv'
<1>1. leaving' = leaving \union {Top} /\ opened' = opened /\ page' = page /\ Top \in OnStack
  BY PopTypes
<1>2. InOrder'
  BY PopStack DEF StackInv, InOrder
<1>3. WereOpened' /\ OffStack'
  BY <1>1, PopStack DEF StackInv, WereOpened, OffStack
<1>4. AlertOnRecipe'
  <2>1. \A i \in DOMAIN stack' : i > 1 => i - 1 \in DOMAIN stack'
    BY PopStack, PopTypes
  <2> QED
    BY <1>1, <2>1, PopStack DEF StackInv, AlertOnRecipe
<1> QED
  BY <1>2, <1>3, <1>4 DEF StackInv

\* No delayed pop comes, goes or is done.
SamePops == \A r \in Routes : tasks'["pop"][r] = tasks["pop"][r]

\* A push does not disturb the delayed pops.
LEMMA PushKeepsPops ==
    ASSUME TypeOK, StackInv, PopInv, NEW p \in Pages, Push(p), SamePops, UNCHANGED historyVars
    PROVE  PopInv'
<1>1. /\ opened' = opened + 1 /\ opened' \in Routes /\ leaving' = leaving
      /\ page' = [page EXCEPT ![opened + 1] = p] /\ OnStack' = OnStack \union {opened + 1}
  BY PushTypes, PushStack
<1>2. /\ Routes \subseteq Nat /\ opened \in Nat /\ OnStack \subseteq Routes /\ leaving \subseteq Routes
      /\ page \in [Routes -> Pages] /\ deleted \subseteq Routes
  BY StackFacts DEF TypeOK
<1>3. opened + 1 \notin OnStack \union leaving
  BY <1>2 DEF StackInv, WereOpened
<1>4. \A r \in Routes : r # opened + 1 => page'[r] = page[r]
  BY <1>1, <1>2
<1>5. deleted' = deleted /\ hurried' = hurried /\ taken' = taken /\ astray' = astray
  BY DEF historyVars
<1> USE DEF PopInv, Pops, SamePops
<1>6. PopsLive'
  BY <1>1, <1>3, <1>4 DEF PopsLive
<1>7. DeletedLive' /\ LeavingHurried' /\ TwiceHurried'
  BY <1>1, <1>2, <1>5 DEF DeletedLive, LeavingHurried, TwiceHurried
<1>8. DeletedPageGoes'
  BY <1>1, <1>2, <1>3, <1>5 DEF DeletedLive, DeletedPageGoes
<1> QED
  BY <1>6, <1>7, <1>8

\* Neither does what moves no page.
LEMMA StillKeepsPages ==
    ASSUME TypeOK, StackInv, PopInv, UNCHANGED <<opened, stack, leaving, page>>,
           SamePops, UNCHANGED historyVars
    PROVE  StackInv' /\ PopInv'
<1>1. leaving \subseteq Routes /\ deleted \subseteq Routes /\ OnStack' = OnStack
  BY DEF TypeOK, OnStack
<1>2. deleted' = deleted /\ hurried' = hurried /\ taken' = taken /\ astray' = astray
  BY DEF historyVars
<1>3. StackInv'
  BY <1>1 DEF StackInv, InOrder, WereOpened, OffStack, AlertOnRecipe
<1>4. PopInv'
  BY <1>1, <1>2 DEF PopInv, Pops, SamePops, PopsLive, DeletedLive, LeavingHurried, TwiceHurried, DeletedPageGoes
<1> QED
  BY <1>3, <1>4

\* Back: a page left with its pop still to come is left in a hurry.
LEMMA BackKeepsPages == TypeOK /\ StackInv /\ PopInv /\ Back => StackInv' /\ PopInv'
<1> SUFFICES ASSUME TypeOK, StackInv, PopInv, Back PROVE StackInv' /\ PopInv'
  OBVIOUS
<1>1. Pop /\ Hurries(Top) /\ tasks' = tasks /\ deleted' = deleted /\ taken' = taken /\ astray' = astray
  BY DEF Back
<1>2. /\ OnStack' = OnStack \ {Top} /\ leaving' = leaving \union {Top} /\ page' = page
      /\ Top \in Routes /\ Top \in OnStack
  BY <1>1, PopStack, PopTypes
<1>3. hurried \subseteq hurried' /\ (tasks["pop"][Top] > 0 => Top \in hurried')
  BY <1>1 DEF Hurries
<1>4. leaving \subseteq Routes /\ deleted \subseteq Routes
  BY DEF TypeOK
<1> USE DEF PopInv, Pops
<1>5. PopsLive' /\ DeletedLive'
  BY <1>1, <1>2 DEF PopsLive, DeletedLive
<1>6. LeavingHurried' /\ TwiceHurried'
  BY <1>1, <1>2, <1>3 DEF LeavingHurried, TwiceHurried
<1>7. DeletedPageGoes'
  BY <1>1, <1>2 DEF DeletedPageGoes
<1> QED
  BY <1>1, <1>5, <1>6, <1>7, PopKeepsStack

\* A deletion: the pop to come is that of the detail page, which stays.
LEMMA DeleteKeepsPages == TypeOK /\ StackInv /\ PopInv /\ ConfirmDelete => StackInv' /\ PopInv'
<1> SUFFICES ASSUME TypeOK, StackInv, PopInv, ConfirmDelete PROVE StackInv' /\ PopInv'
  OBVIOUS
<1>1. /\ OnTop("alert") /\ Len(stack) > 1 /\ deleted' = deleted \union {Below}
      /\ Hurries(Below) /\ Waits("pop", Below) /\ Pop /\ taken' = taken /\ astray' = astray
  BY DEF ConfirmDelete
<1>2. /\ OnStack' = OnStack \ {Top} /\ leaving' = leaving \union {Top} /\ page' = page
      /\ Top \in Routes /\ Top \in OnStack /\ Below \in OnStack' /\ Below # Top /\ OnStack \subseteq Routes
  BY <1>1, PopStack, PopTypes
<1>3. page[Top] = "alert" /\ page[Below] = "recipe"
  <2>1. Len(stack) \in DOMAIN stack
    BY <1>1, StackFacts
  <2> QED
    BY <1>1, <2>1 DEF OnTop, Top, Below, StackInv, AlertOnRecipe
<1>4. /\ hurried \subseteq hurried' /\ (tasks["pop"][Below] > 0 => Below \in hurried')
  BY <1>1 DEF Hurries
<1>5. /\ Below \in Routes /\ Below \in Contexts /\ "pop" \in Kinds
      /\ leaving \subseteq Routes /\ deleted \subseteq Routes /\ Routes \subseteq Contexts
      /\ tasks["pop"] \in [Contexts -> Nat]
  BY <1>2 DEF Contexts, Kinds, TypeOK
<1>6. \A r \in Routes : tasks'["pop"][r] = IF r = Below THEN tasks["pop"][Below] + 1 ELSE tasks["pop"][r]
  BY <1>1, <1>5, WaitsFacts
<1>7. tasks["pop"][Top] = 0 /\ tasks'["pop"][Top] = 0
  <2>1. ~(tasks["pop"][Top] > 0)
    BY <1>2, <1>3 DEF PopInv, PopsLive, Pops
  <2> QED
    BY <2>1, <1>2, <1>5, <1>6
<1>8. Below \notin leaving /\ tasks'["pop"][Below] > 0
  BY <1>2, <1>5, <1>6 DEF StackInv, OffStack
<1> USE DEF PopInv, Pops
<1>9. PopsLive' /\ DeletedLive'
  BY <1>1, <1>2, <1>3, <1>6 DEF PopsLive, DeletedLive
<1>10. LeavingHurried'
  BY <1>1, <1>2, <1>4, <1>5, <1>6, <1>7, <1>8 DEF LeavingHurried
<1>11. TwiceHurried'
  BY <1>4, <1>5, <1>6 DEF TwiceHurried
<1>12. DeletedPageGoes'
  BY <1>1, <1>2, <1>5, <1>6, <1>8 DEF DeletedPageGoes
<1> QED
  BY <1>1, <1>9, <1>10, <1>11, <1>12, PopKeepsStack

\* Save: likewise of the create page.
LEMMA SaveKeepsPages == TypeOK /\ StackInv /\ PopInv /\ Save => StackInv' /\ PopInv'
<1> SUFFICES ASSUME TypeOK, StackInv, PopInv, Save PROVE StackInv' /\ PopInv'
  OBVIOUS
<1>1. /\ stack # <<>> /\ page[Top] = "create" /\ Hurries(Top) /\ Waits("pop", Top)
      /\ UNCHANGED routeVars /\ deleted' = deleted /\ taken' = taken /\ astray' = astray
  BY DEF Save, OnTop
<1>2. stack' = stack /\ leaving' = leaving /\ page' = page /\ opened' = opened /\ OnStack' = OnStack
  BY <1>1 DEF routeVars, OnStack
<1>3. Top \in OnStack /\ Top \in Routes
  <2>1. Len(stack) \in DOMAIN stack
    BY <1>1, StackFacts
  <2> QED
    BY <2>1, StackFacts DEF Top, OnStack
<1>4. hurried \subseteq hurried' /\ (tasks["pop"][Top] > 0 => Top \in hurried')
  BY <1>1 DEF Hurries
<1>5. /\ Top \in Contexts /\ "pop" \in Kinds /\ Routes \subseteq Contexts
      /\ leaving \subseteq Routes /\ deleted \subseteq Routes /\ tasks["pop"] \in [Contexts -> Nat]
  BY <1>3 DEF Contexts, Kinds, TypeOK
<1>6. \A r \in Routes : tasks'["pop"][r] = IF r = Top THEN tasks["pop"][Top] + 1 ELSE tasks["pop"][r]
  BY <1>1, <1>5, WaitsFacts
<1>7. StackInv' /\ Top \notin leaving
  BY <1>2, <1>3 DEF StackInv, InOrder, WereOpened, OffStack, AlertOnRecipe
<1> USE DEF PopInv, Pops
<1>8. PopsLive' /\ DeletedLive'
  BY <1>1, <1>2, <1>3, <1>6 DEF PopsLive, DeletedLive
<1>9. LeavingHurried' /\ TwiceHurried'
  BY <1>1, <1>2, <1>4, <1>5, <1>6, <1>7 DEF LeavingHurried, TwiceHurried
<1>10. DeletedPageGoes'
  BY <1>1, <1>2, <1>5, <1>6 DEF DeletedPageGoes
<1> QED
  BY <1>7, <1>8, <1>9, <1>10

\* A delayed pop: if its own page stays, that is because one above it is taken.
LEMMA PopDueKeepsPages ==
    ASSUME TypeOK, StackInv, PopInv, NEW r \in Routes, PopDue(r)
    PROVE  StackInv' /\ PopInv'
<1>1. /\ r \in Contexts /\ "pop" \in Kinds /\ Routes \subseteq Contexts
      /\ leaving \subseteq Routes /\ deleted \subseteq Routes /\ tasks["pop"] \in [Contexts -> Nat]
      /\ Routes \subseteq Nat /\ OnStack \subseteq Routes
  BY StackFacts DEF Contexts, Kinds, TypeOK
<1>2. /\ tasks["pop"][r] > 0
      /\ \A s \in Routes : tasks'["pop"][s] = IF s = r THEN tasks["pop"][r] - 1 ELSE tasks["pop"][s]
  BY <1>1, GoesOnFacts DEF PopDue
<1>3. \A s \in Routes : tasks'["pop"][s] > 0 => tasks["pop"][s] > 0
  BY <1>1, <1>2
<1>4. deleted' = deleted /\ hurried' = hurried
  BY DEF PopDue
<1>5. r \in OnStack \union leaving
  BY <1>2 DEF PopInv, PopsLive, Pops
<1> USE DEF PopInv, Pops
<1>6. TwiceHurried'
  BY <1>1, <1>2, <1>4 DEF TwiceHurried
<1>7. CASE stack = <<>>
  <2>1. /\ stack' = stack /\ leaving' = leaving /\ page' = page /\ opened' = opened
        /\ taken' = taken /\ astray' = astray
    BY <1>7 DEF PopDue, routeVars
  <2>2. OnStack' = OnStack /\ OnStack = {}
    BY <2>1, <1>7 DEF OnStack
  <2>3. StackInv'
    BY <2>1, <2>2 DEF StackInv, InOrder, WereOpened, OffStack, AlertOnRecipe
  <2>4. PopsLive' /\ DeletedLive' /\ LeavingHurried' /\ DeletedPageGoes'
    BY <1>1, <1>3, <1>4, <2>1, <2>2 DEF PopsLive, DeletedLive, LeavingHurried, DeletedPageGoes
  <2> QED
    BY <1>6, <2>3, <2>4
<1>8. CASE stack # <<>>
  <2>1. /\ Pop /\ taken' = IF Top # r THEN taken \union {Top} ELSE taken
        /\ astray' = IF Top > r THEN astray \union {r} ELSE astray
    BY <1>8 DEF PopDue
  <2>2. /\ OnStack' = OnStack \ {Top} /\ leaving' = leaving \union {Top} /\ page' = page
        /\ Top \in Routes /\ Top \in OnStack /\ \A s \in OnStack : s # Top => s < Top
    BY <2>1, PopStack, PopTypes
  <2>3. PopsLive' /\ DeletedLive'
    BY <1>3, <1>4, <2>2 DEF PopsLive, DeletedLive
  <2>4. LeavingHurried'
    <3>1. Top = r /\ tasks'["pop"][Top] > 0 => Top \in hurried
      BY <1>1, <1>2, <2>2 DEF TwiceHurried
    <3> QED
      BY <1>1, <1>3, <1>4, <2>1, <2>2, <3>1 DEF LeavingHurried
  <2>5. DeletedPageGoes'
    <3>1. r \in OnStack' => r \in astray'
      BY <1>1, <2>1, <2>2
    <3> QED
      BY <1>1, <1>2, <1>4, <2>1, <2>2, <3>1 DEF DeletedPageGoes
  <2> QED
    BY <1>6, <2>1, <2>3, <2>4, <2>5, PopKeepsStack
<1> QED
  BY <1>7, <1>8

\* The end of a transition: the page was not on the stack.
LEMMA DismissedKeepsPages ==
    ASSUME TypeOK, StackInv, PopInv, NEW r \in Routes, Dismissed(r)
    PROVE  StackInv' /\ PopInv'
<1>1. /\ r \in leaving /\ leaving' = leaving \ {r} /\ page' = [page EXCEPT ![r] = "none"]
      /\ deleted' = deleted \ {r} /\ hurried' = hurried \ {r} /\ taken' = taken \ {r}
      /\ astray' = astray \ {r} /\ stack' = stack /\ opened' = opened /\ Orphaned(Kinds, r)
  BY DEF Dismissed
<1>2. /\ \A s \in Routes : s # r => tasks'["pop"][s] = tasks["pop"][s]
      /\ tasks'["pop"][r] = 0
  BY <1>1, OrphanedFacts DEF Kinds
<1>3. /\ OnStack' = OnStack /\ r \notin OnStack /\ OnStack \subseteq Routes
      /\ leaving \subseteq Routes /\ deleted \subseteq Routes
      /\ \A s \in Routes : s # r => page'[s] = page[s]
  BY <1>1, StackFacts DEF OnStack, StackInv, OffStack, TypeOK
<1>4. InOrder' /\ WereOpened' /\ OffStack'
  BY <1>1, <1>3 DEF StackInv, InOrder, WereOpened, OffStack
<1>5. AlertOnRecipe'
  <2>1. \A i \in DOMAIN stack : page'[stack[i]] = page[stack[i]]
    BY <1>3 DEF OnStack
  <2>2. \A i \in DOMAIN stack : i > 1 => i - 1 \in DOMAIN stack
    BY StackFacts
  <2> QED
    BY <1>1, <2>1, <2>2 DEF StackInv, AlertOnRecipe
<1> USE DEF PopInv, Pops
<1>6. PopsLive' /\ DeletedLive'
  BY <1>1, <1>2, <1>3 DEF PopsLive, DeletedLive
<1>7. LeavingHurried' /\ TwiceHurried'
  BY <1>1, <1>2, <1>3 DEF LeavingHurried, TwiceHurried
<1>8. DeletedPageGoes'
  BY <1>1, <1>2, <1>3 DEF DeletedPageGoes
<1> QED
  BY <1>4, <1>5, <1>6, <1>7, <1>8 DEF StackInv

\* The stack of the start: two login pages and nothing waiting.
LEMMA FirstStack ==
    /\ {1, 2} \subseteq Routes /\ <<1, 2>> \in Seq(Routes)
    /\ FirstPages[1] = "login" /\ FirstPages[2] = "login"
    /\ DOMAIN <<1, 2>> = {1, 2} /\ <<1, 2>>[1] = 1 /\ <<1, 2>>[2] = 2
    /\ \A r \in Routes : Idle["pop"][r] = 0
<1>1. {1, 2} \subseteq Routes
  BY RoutesAssumption DEF Routes
<1> QED
  BY <1>1 DEF FirstPages, Idle, Kinds

\* A step with no delayed pop in it: pages may be pushed, the dialog only from
\* a detail page.
QuietStep ==
    /\ SamePops /\ UNCHANGED historyVars
    /\ \/ UNCHANGED <<opened, stack, leaving, page>>
       \/ \E p \in Pages : Push(p) /\ (p = "alert" => OnTop("recipe"))

\* What the handlers of LoginProvider and the other taps are to the pages.
LEMMA AuthIsQuiet == TypeOK /\ AuthStep => QuietStep
<1> SUFFICES ASSUME TypeOK, AuthStep PROVE QuietStep
  OBVIOUS
<1>1. ASSUME NEW u \in Users, CheckDone(u) \/ ReadDone(u) \/ GetFails(u) PROVE QuietStep
  BY <1>1 DEF CheckDone, ReadDone, GetFails, QuietStep, SamePops, routeVars
<1>2. ASSUME NEW r \in Contexts, NEW k \in AuthKinds, GoesOn(k, r) PROVE SamePops
  <2>1. k \in Kinds /\ k # "pop" /\ "pop" \in Kinds /\ Routes \subseteq Contexts
    BY DEF AuthKinds, Kinds, Contexts
  <2> QED
    BY <1>2, <2>1, GoesOnFacts DEF SamePops
<1>3. ASSUME NEW r \in Contexts, NEW p \in {"home", "login"}, PushFrom(r, p)
      PROVE  \/ UNCHANGED <<opened, stack, leaving, page>>
             \/ \E q \in Pages : Push(q) /\ (q = "alert" => OnTop("recipe"))
  BY <1>3 DEF PushFrom, routeVars, Pages
<1>4. ASSUME NEW r \in Contexts,
             \/ \E u \in Accounts : GoogleDone(r, u)
             \/ \E u \in Guests : GuestDone(r, u)
             \/ GoogleFails(r) \/ GuestFails(r) \/ SignOutDone(r) \/ SignOutFails(r)
      PROVE  QuietStep
  <2>1. UNCHANGED historyVars
    BY <1>4 DEF GoogleDone, GuestDone, GoogleFails, GuestFails, SignOutDone, SignOutFails
  <2>2. \E k \in AuthKinds : GoesOn(k, r)
    BY <1>4 DEF GoogleDone, GuestDone, GoogleFails, GuestFails, SignOutDone, SignOutFails, AuthKinds
  <2>3. UNCHANGED routeVars \/ \E p \in {"home", "login"} : PushFrom(r, p)
    BY <1>4 DEF GoogleDone, GuestDone, GoogleFails, GuestFails, SignOutDone, SignOutFails
  <2> QED
    BY <1>2, <1>3, <2>1, <2>2, <2>3 DEF QuietStep, routeVars
<1> QED
  BY <1>1, <1>4 DEF AuthStep, Contexts

\* So are the user's other taps.
LEMMA TapsAreQuiet ==
    ASSUME TypeOK,
           \/ TapGoogle \/ TapGuest \/ TapLogout \/ TapWeather
           \/ \E t \in Tabs : SwitchTab(t)
           \/ \E p \in Pages : Open(p)
           \/ \E r \in Routes : WeatherDue(r)
           \/ UNCHANGED vars
    PROVE  QuietStep
<1>0. "pop" \in Kinds /\ Routes \subseteq Contexts /\ (stack # <<>> => Top \in Routes /\ Top \in Contexts)
  BY DEF Kinds, Contexts, TypeOK, Top
<1>1. ASSUME TapGoogle \/ TapGuest \/ TapLogout \/ TapWeather PROVE QuietStep
  <2>1. UNCHANGED routeVars /\ UNCHANGED historyVars /\ stack # <<>>
    BY <1>1 DEF TapGoogle, TapGuest, TapLogout, TapWeather, OnTop
  <2>2. \E k \in Kinds : k # "pop" /\ Waits(k, Top)
    BY <1>1 DEF TapGoogle, TapGuest, TapLogout, TapWeather, Kinds, AuthKinds
  <2>3. SamePops
    BY <1>0, <2>1, <2>2, WaitsFacts DEF SamePops
  <2> QED
    BY <2>1, <2>3 DEF QuietStep, routeVars
<1>2. ASSUME NEW t \in Tabs, SwitchTab(t) PROVE QuietStep
  <2>1. Orphaned({"weather", "signOut"}, Top) /\ stack # <<>>
    BY <1>2 DEF SwitchTab, OnTop
  <2>2. {"weather", "signOut"} \in SUBSET Kinds /\ "pop" \notin {"weather", "signOut"}
    BY DEF Kinds, AuthKinds
  <2>3. SamePops
    BY <1>0, <2>1, <2>2, OrphanedFacts DEF SamePops
  <2> QED
    BY <1>2, <2>3 DEF SwitchTab, QuietStep
<1>3. ASSUME NEW p \in Pages, Open(p) PROVE QuietStep
  <2>1. p = "alert" => OnTop("recipe")
    <3>1. stack # <<>> /\ p \in Opens /\ tab[Top] \in Tabs
      BY <1>0, <1>3 DEF Open, TypeOK
    <3> QED
      BY <3>1 DEF Opens, Tabs, OnTop
  <2> QED
    BY <1>3, <2>1 DEF Open, QuietStep, SamePops
<1>4. ASSUME NEW r \in Routes, WeatherDue(r) PROVE QuietStep
  <2>1. SamePops
    <3>1. "weather" \in Kinds /\ GoesOn("weather", r)
      BY <1>4 DEF WeatherDue, Kinds
    <3> QED
      BY <1>0, <3>1, GoesOnFacts DEF SamePops
  <2> QED
    BY <1>4, <2>1 DEF WeatherDue, QuietStep, Pages
<1>5. ASSUME UNCHANGED vars PROVE QuietStep
  BY <1>5 DEF vars, routeVars, QuietStep, SamePops
<1> QED
  BY <1>1, <1>2, <1>3, <1>4, <1>5

\* Every step is quiet, or one of those about a delayed pop, or a new start.
LEMMA StepsOfPages ==
    ASSUME TypeOK, [Next]_vars
    PROVE  \/ QuietStep \/ Back \/ ConfirmDelete \/ Save \/ Restart
           \/ \E r \in Routes : PopDue(r) \/ Dismissed(r)
BY AuthIsQuiet, TapsAreQuiet DEF Next, UserStep, RouteStep

\* Every step keeps the pages right.
LEMMA PageStep == TypeOK /\ StackInv /\ PopInv /\ [Next]_vars => StackInv' /\ PopInv'
<1> SUFFICES ASSUME TypeOK, StackInv, PopInv, [Next]_vars PROVE StackInv' /\ PopInv'
  OBVIOUS
<1>1. ASSUME QuietStep PROVE StackInv' /\ PopInv'
  <2>1. CASE UNCHANGED <<opened, stack, leaving, page>>
    BY <1>1, <2>1, StillKeepsPages DEF QuietStep
  <2>2. ASSUME NEW p \in Pages, Push(p), p = "alert" => OnTop("recipe") PROVE StackInv' /\ PopInv'
    BY <1>1, <2>2, PushKeepsStack, PushKeepsPops DEF QuietStep
  <2> QED
    BY <1>1, <2>1, <2>2 DEF QuietStep
<1>2. ASSUME Restart PROVE StackInv' /\ PopInv'
  <2>1. /\ stack' = <<1, 2>> /\ leaving' = {} /\ opened' = 2 /\ page' = FirstPages
        /\ tasks' = Idle /\ deleted' = {}
    BY <1>2 DEF Restart
  <2>2. OnStack' = {1, 2}
    BY <2>1, FirstStack DEF OnStack
  <2>3. StackInv'
    BY <2>1, <2>2, FirstStack DEF StackInv, InOrder, WereOpened, OffStack, AlertOnRecipe
  <2>4. PopInv'
    BY <2>1, FirstStack DEF PopInv, Pops, PopsLive, DeletedLive, LeavingHurried, TwiceHurried, DeletedPageGoes
  <2> QED
    BY <2>3, <2>4
<1> QED
  BY <1>1, <1>2, StepsOfPages, BackKeepsPages, DeleteKeepsPages, SaveKeepsPages,
     PopDueKeepsPages, DismissedKeepsPages

\* They are right from the start.
LEMMA PagesAlways == Spec => [](TypeOK /\ StackInv /\ PopInv)
<1>1. ASSUME Init PROVE StackInv /\ PopInv
  <2>1. /\ stack = <<1, 2>> /\ leaving = {} /\ opened = 2 /\ page = FirstPages
        /\ tasks = Idle /\ deleted = {}
    BY <1>1 DEF Init
  <2>2. OnStack = {1, 2}
    BY <2>1, FirstStack DEF OnStack
  <2>3. StackInv
    BY <2>1, <2>2, FirstStack DEF StackInv, InOrder, WereOpened, OffStack, AlertOnRecipe
  <2>4. PopInv
    BY <2>1, FirstStack DEF PopInv, Pops, PopsLive, DeletedLive, LeavingHurried, TwiceHurried, DeletedPageGoes
  <2> QED
    BY <2>3, <2>4
<1> QED
  BY <1>1, InitTypes, TypeStep, PageStep, PTL DEF Spec

\* The page of a deleted recipe stays on the stack only until its delayed pop,
\* unless that pop takes a page above it.
THEOREM DeletedPagesGo == Spec => []DeletedPageGoes
<1>1. PopInv => DeletedPageGoes
  BY DEF PopInv
<1> QED
  BY <1>1, PagesAlways, PTL

\* For any number of pages, deletions and saves: a page below is taken by a
\* delayed pop only if the user left or confirmed in a hurry, or another delayed
\* pop took the page first.
THEOREM BelowIsSafe == Spec => BelowLostOnlyInHurry
<1> DEFINE Safe == \A r \in Routes : PopsFor(r) /\ Top < r => r \in hurried \union taken
<1>1. TypeOK /\ StackInv /\ PopInv /\ [Next]_vars => Safe
  <2> SUFFICES ASSUME TypeOK, StackInv, PopInv, [Next]_vars, NEW r \in Routes, PopsFor(r), Top < r
               PROVE  r \in hurried \union taken
    OBVIOUS
  <2>0. /\ tasks'["pop"][r] < tasks["pop"][r] /\ stack # <<>> /\ Top \in leaving' /\ Top \notin leaving
        /\ tasks["pop"] \in [Contexts -> Nat] /\ Routes \subseteq Contexts /\ "pop" \in Kinds /\ Routes \subseteq Nat
    BY StackFacts DEF PopsFor, TypeOK, Kinds, Contexts
  <2>1. ASSUME \A s \in Routes : tasks'["pop"][s] >= tasks["pop"][s] PROVE FALSE
    <3>1. tasks'["pop"][r] >= tasks["pop"][r]
      BY <2>1
    <3>2. tasks' \in [Kinds -> [Contexts -> Nat]]
      BY TypeStep DEF TypeOK, Contexts
    <3>3. tasks'["pop"][r] \in Nat /\ tasks["pop"][r] \in Nat
      BY <2>0, <3>2
    <3> QED
      BY <2>0, <3>1, <3>3
  <2>2. ~QuietStep /\ ~Back
    <3>1. ASSUME SamePops \/ tasks' = tasks PROVE FALSE
      BY <2>0, <2>1, <3>1 DEF SamePops
    <3> QED
      BY <3>1 DEF QuietStep, Back
  <2>3. ASSUME NEW s \in Contexts, Waits("pop", s) PROVE FALSE
    <3>1. \A q \in Routes : tasks'["pop"][q] = IF q = s THEN tasks["pop"][s] + 1 ELSE tasks["pop"][q]
      BY <2>0, <2>3, WaitsFacts
    <3>2. \A q \in Routes : tasks["pop"][q] \in Nat
      BY <2>0
    <3> QED
      BY <2>1, <3>1, <3>2
  <2>4. ~ConfirmDelete /\ ~Save
    <3>1. Top \in Contexts /\ (Len(stack) > 1 => Below \in Contexts)
      BY <2>0 DEF TypeOK, Top, Below
    <3> QED
      BY <2>3, <3>1 DEF ConfirmDelete, Save
  <2>5. ~Restart /\ \A s \in Routes : ~Dismissed(s)
    BY <2>0 DEF Restart, Dismissed
  <2>6. PICK s \in Routes : PopDue(s)
    BY <2>2, <2>4, <2>5, StepsOfPages
  <2>7. s = r /\ tasks["pop"][r] > 0
    BY <2>0, <2>6, GoesOnFacts DEF PopDue
  <2>8. r \in OnStack \union leaving /\ (r \in leaving => r \in hurried \union taken)
    BY <2>7 DEF PopInv, PopsLive, LeavingHurried, Pops
  <2>9. r \notin OnStack
    <3>1. Pop
      BY <2>0, <2>6 DEF PopDue
    <3>2. Top \in Nat /\ r \in Nat /\ (r \in OnStack /\ r # Top => r < Top)
      BY <2>0, <3>1, PopStack, PopTypes
    <3> QED
      BY <3>2
  <2> QED
    BY <2>8, <2>9
<1> QED
  BY <1>1, PagesAlways, PTL DEF Spec, BelowLostOnlyInHurry
=============================================================================
