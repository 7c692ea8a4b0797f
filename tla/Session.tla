------------------------------- MODULE Session -------------------------------
(***************************************************************************)
(* One process of the app from sign-in to sign-out: LoginProvider with the *)
(* 'user' documents, and the stack of pages the handlers push to and pop   *)
(* from after an await or a delay.                                         *)
(*                                                                         *)
(* A handler that awaits or delays goes on later, with the BuildContext of *)
(* the page it was tapped on.  While that page is on the stack, or still   *)
(* in the transition that takes it off the screen, Navigator.of(context)   *)
(* works and addresses the stack as it is by then; afterwards it throws.   *)
(* What the handler does before it navigates happens either way.           *)
(***************************************************************************)
EXTENDS Naturals, Sequences, FiniteSets

CONSTANTS
    Accounts,   \* Google accounts
    Guests,     \* uids anonymous sign-ins are given
    NoUser,     \* null, for currentUser and for userInformation
    MaxRoutes,  \* bound: pages pushed since the start
    Budgets     \* bounds of one behaviour: pages pushed since the start, pages
                \* and kinds of handlers that wait at a time, gets of one document
                \* in flight; long walks through the pages and many sign-ins need
                \* not come together

\* Routes are numbered as they are pushed.
Routes == 1 .. MaxRoutes

ASSUME UsersAssumption == NoUser \notin Accounts \union Guests
ASSUME DistinctAssumption == Accounts \intersect Guests = {}
ASSUME RoutesAssumption == MaxRoutes \in Nat /\ MaxRoutes >= 2
ASSUME BudgetsAssumption == Budgets \subseteq [routes : Routes, waiting : Nat, gets : Nat]

Users == Accounts \union Guests

\* In place of a route whose context is gone.
Gone == 0

\* "lists" stands for every page that keeps no handler of its own waiting.
Pages == {"none", "login", "home", "weather", "lists", "recipe", "alert", "player", "create"}
FirstPages == [r \in Routes |-> IF r \in {1, 2} THEN "login" ELSE "none"]

\* The tabs of the home page; "others" are the fridge and the search.
Tabs == {"screen", "others", "profile"}

\* What a waiting handler goes on with: three calls of LoginProvider, each
\* followed by a push, the delayed push of the home screen, and the delayed pop
\* of the detail page after a deletion and of the create page after Save.
AuthKinds == {"google", "guest", "signOut"}
Kinds == AuthKinds \union {"weather", "pop"}

VARIABLES
    currentUser,
    accounts,         \* history: users signed in since the start
    known,            \* history: those whose document existed at the sign-in
    dropped,          \* history: users of whom a get failed since the start
    docs,             \* users whose 'user' document exists
    userInformation,  \* whose profile LoginProvider holds
    checks,           \* gets of addUserInfo in flight, by user
    reads,            \* gets of downloadUserInfo and downloadAnonymousInfo
    budget,           \* bounds of this behaviour, never changed
    opened,           \* routes pushed since the start
    stack,            \* the routes, the last one on top
    leaving,          \* routes popped whose transition is not over
    page,             \* page of each route
    tab,              \* tab of each route that is a home page
    tasks,            \* waiting handlers, by kind and route
    deleted,          \* detail pages whose recipe was deleted
    hurried,          \* history: pages left, or confirmed on again, by the user
                      \* while a delayed pop of theirs was to come
    taken,            \* history: pages the delayed pop of another page took
    astray            \* history: pages whose delayed pop took one above them

authVars == <<currentUser, accounts, known, dropped, docs, userInformation, checks, reads>>
routeVars == <<budget, opened, stack, leaving, page, tab>>
historyVars == <<deleted, hurried, taken, astray>>
vars == <<authVars, routeVars, tasks, historyVars>>

TypeOK ==
    /\ currentUser \in Users \union {NoUser}
    /\ accounts \subseteq Users /\ known \subseteq Users /\ dropped \subseteq Users
    /\ docs \subseteq Users
    /\ userInformation \in Users \union {NoUser}
    /\ checks \in [Users -> Nat] /\ reads \in [Users -> Nat]
    /\ budget \in Budgets
    /\ opened \in Routes
    /\ stack \in Seq(Routes) /\ leaving \subseteq Routes
    /\ page \in [Routes -> Pages] /\ tab \in [Routes -> Tabs]
    /\ tasks \in [Kinds -> [Routes \union {Gone} -> Nat]]
    /\ deleted \subseteq Routes /\ hurried \subseteq Routes
    /\ taken \subseteq Routes /\ astray \subseteq Routes

Top == stack[Len(stack)]
Below == stack[Len(stack) - 1]
OnStack == {stack[i] : i \in DOMAIN stack}

Idle == [k \in Kinds |-> [r \in Routes \union {Gone} |-> 0]]
NoGets == [u \in Users |-> 0]

\* home is LoginPage, and '/login' is pushed over it as the initial route.
\* The app is opened for the first time; later starts are Restart.
Init ==
    /\ currentUser = NoUser /\ docs = {}
    /\ accounts = {} /\ known = {} /\ dropped = {} /\ userInformation = NoUser
    /\ checks = NoGets /\ reads = NoGets
    /\ budget \in Budgets
    /\ opened = 2 /\ stack = <<1, 2>> /\ leaving = {}
    /\ page = FirstPages /\ tab = [r \in Routes |-> "screen"]
    /\ tasks = Idle
    /\ deleted = {} /\ hurried = {} /\ taken = {} /\ astray = {}

-----------------------------------------------------------------------------
(* Navigator *)

OnTop(p) == stack # <<>> /\ page[Top] = p

Push(p) ==
    /\ opened < budget.routes
    /\ opened' = opened + 1
    /\ stack' = Append(stack, opened + 1)
    /\ page' = [page EXCEPT ![opened + 1] = p]
    /\ UNCHANGED <<budget, leaving, tab>>

Pop ==
    /\ stack # <<>>
    /\ stack' = SubSeq(stack, 1, Len(stack) - 1)
    /\ leaving' = leaving \union {Top}
    /\ UNCHANGED <<budget, opened, page, tab>>

\* Navigator.of(context) throws once the context is gone.
PushFrom(r, p) == IF r = Gone THEN UNCHANGED routeVars ELSE Push(p)

Waiting == {w \in Kinds \X (Routes \union {Gone}) : tasks[w[1]][w[2]] > 0}

\* Bound: handlers of one kind that wait on one page.
MaxTaps == 2

\* The handler of page r waits.
Waits(k, r) ==
    /\ Cardinality(Waiting \ {<<k, r>>}) < budget.waiting /\ tasks[k][r] < MaxTaps
    /\ tasks' = [tasks EXCEPT ![k][r] = @ + 1]

GoesOn(k, r) ==
    /\ tasks[k][r] > 0
    /\ tasks' = [tasks EXCEPT ![k][r] = @ - 1]

\* The context of r, for the kinds K, is gone: the calls of LoginProvider still
\* come to their end, what is only navigation throws when its time comes.
Orphaned(K, r) ==
    tasks' = [k \in Kinds |->
                 IF k \notin K THEN tasks[k]
                 ELSE [tasks[k] EXCEPT ![r] = 0,
                                       ![Gone] = IF k \in AuthKinds THEN @ + tasks[k][r] ELSE @]]

\* The transition of a page that was popped is over.
Dismissed(r) ==
    /\ r \in leaving
    /\ leaving' = leaving \ {r}
    /\ page' = [page EXCEPT ![r] = "none"]
    /\ tab' = [tab EXCEPT ![r] = "screen"]
    /\ Orphaned(Kinds, r)
    /\ deleted' = deleted \ {r} /\ hurried' = hurried \ {r}
    /\ taken' = taken \ {r} /\ astray' = astray \ {r}
    /\ UNCHANGED <<authVars, budget, opened, stack>>

-----------------------------------------------------------------------------
(* LoginProvider *)

\* Mutant: one download at a time.
DownloadOnce(u) ==
    reads' = IF \E v \in Users : reads[v] > 0 THEN reads ELSE [reads EXCEPT ![u] = @ + 1]

\* Mutant: nothing is downloaded for a user whom FirebaseAuth still holds.
DownloadUnlessSignedIn(u) ==
    /\ reads[u] < budget.gets
    /\ reads' = IF currentUser = u THEN reads ELSE [reads EXCEPT ![u] = @ + 1]

Download(u) == reads[u] < budget.gets /\ reads' = [reads EXCEPT ![u] = @ + 1]

\* Signed in; D are the documents that exist when the profile is asked for.
SignedIn(u, D) ==
    /\ currentUser' = u
    /\ accounts' = accounts \union {u}
    /\ known' = known \union ({u} \intersect D)
    /\ docs' = D
    /\ Download(u)
    /\ UNCHANGED <<dropped, userInformation>>

\* signInWithGoogle: addUserInfo and downloadUserInfo run side by side.  Then
\* the page pushes /home.
GoogleDone(r, u) ==
    /\ GoesOn("google", r)
    /\ SignedIn(u, docs)
    /\ checks[u] < budget.gets
    /\ checks' = [checks EXCEPT ![u] = @ + 1]
    /\ PushFrom(r, "home")
    /\ UNCHANGED historyVars

\* Cancelled or failed: rethrown, and the page stays.
GoogleFails(r) ==
    /\ GoesOn("google", r)
    /\ UNCHANGED <<authVars, routeVars, historyVars>>

\* signInWithAnonymous: a guest who is signed in stays the same guest.  The
\* document is set before it is read.
GuestDone(r, u) ==
    /\ GoesOn("guest", r)
    /\ IF currentUser \in Guests THEN u = currentUser ELSE u \notin docs
    /\ SignedIn(u, docs \union {u})
    /\ PushFrom(r, "home")
    /\ UNCHANGED <<checks, historyVars>>

\* The error is swallowed and the page pushes /home all the same.
GuestFails(r) ==
    /\ GoesOn("guest", r)
    /\ PushFrom(r, "home")
    /\ UNCHANGED <<authVars, historyVars>>

\* signOut keeps userInformation.
SignOutDone(r) ==
    /\ GoesOn("signOut", r)
    /\ currentUser' = NoUser
    /\ PushFrom(r, "login")
    /\ UNCHANGED <<accounts, known, dropped, docs, userInformation, checks, reads, historyVars>>

SignOutFails(r) ==
    /\ GoesOn("signOut", r)
    /\ UNCHANGED <<authVars, routeVars, historyVars>>

\* Mutant: the document is made for whoever is signed in by now.
CheckDoneForCurrent(u) ==
    /\ checks[u] > 0
    /\ checks' = [checks EXCEPT ![u] = @ - 1]
    /\ docs' = docs \union ({currentUser} \ {NoUser})
    /\ UNCHANGED <<currentUser, accounts, known, dropped, userInformation, reads,
                   routeVars, tasks, historyVars>>

\* Mutant: the same, and nobody asks whether there is somebody.
CheckDoneForNobody(u) ==
    /\ checks[u] > 0
    /\ checks' = [checks EXCEPT ![u] = @ - 1]
    /\ docs' = docs \union {currentUser}
    /\ UNCHANGED <<currentUser, accounts, known, dropped, userInformation, reads,
                   routeVars, tasks, historyVars>>

\* The get of addUserInfo: a missing document is created.
CheckDone(u) ==
    /\ checks[u] > 0
    /\ checks' = [checks EXCEPT ![u] = @ - 1]
    /\ docs' = docs \union {u}
    /\ UNCHANGED <<currentUser, accounts, known, dropped, userInformation, reads,
                   routeVars, tasks, historyVars>>

\* The get of downloadUserInfo or downloadAnonymousInfo: data()! throws on a
\* missing document and what was there stays.
ReadDone(u) ==
    /\ reads[u] > 0
    /\ reads' = [reads EXCEPT ![u] = @ - 1]
    /\ userInformation' = IF u \in docs THEN u ELSE userInformation
    /\ UNCHANGED <<currentUser, accounts, known, dropped, docs, checks,
                   routeVars, tasks, historyVars>>

\* A get fails: nobody catches it, nobody asks again.
GetFails(u) ==
    /\ \/ reads[u] > 0 /\ reads' = [reads EXCEPT ![u] = @ - 1] /\ UNCHANGED checks
       \/ checks[u] > 0 /\ checks' = [checks EXCEPT ![u] = @ - 1] /\ UNCHANGED reads
    /\ dropped' = dropped \union {u}
    /\ UNCHANGED <<currentUser, accounts, known, docs, userInformation,
                   routeVars, tasks, historyVars>>

-----------------------------------------------------------------------------
(* The pages *)

TapGoogle ==
    /\ OnTop("login") /\ Waits("google", Top)
    /\ UNCHANGED <<authVars, routeVars, historyVars>>

TapGuest ==
    /\ OnTop("login") /\ Waits("guest", Top)
    /\ UNCHANGED <<authVars, routeVars, historyVars>>

\* The build of ProfilePage throws, and there is no button, without a profile.
TapLogout ==
    /\ OnTop("home") /\ tab[Top] = "profile" /\ userInformation # NoUser
    /\ Waits("signOut", Top)
    /\ UNCHANGED <<authVars, routeVars, historyVars>>

\* The button of the home screen, when loadWeatherRecipes does not throw.
TapWeather ==
    /\ OnTop("home") /\ tab[Top] = "screen"
    /\ Waits("weather", Top)
    /\ UNCHANGED <<authVars, routeVars, historyVars>>

WeatherDue(r) ==
    /\ GoesOn("weather", r)
    /\ Push("weather")
    /\ UNCHANGED <<authVars, historyVars>>

\* TabBarView disposes of the tab that is left, and of its context.
SwitchTab(t) ==
    /\ OnTop("home") /\ t # tab[Top]
    /\ tab' = [tab EXCEPT ![Top] = t]
    /\ Orphaned({"weather", "signOut"}, Top)
    /\ UNCHANGED <<authVars, budget, opened, stack, leaving, page, historyVars>>

\* The pages a page pushes at a tap.
Opens ==
    CASE page[Top] = "home" /\ tab[Top] = "screen"  -> {"lists"}
      [] page[Top] = "home" /\ tab[Top] = "others"  -> {"lists", "recipe", "create"}
      [] page[Top] = "home" /\ tab[Top] = "profile" -> {"lists", "recipe"}
      [] page[Top] = "weather" -> {"recipe"}
      [] page[Top] = "lists"   -> {"lists", "recipe"}
      [] page[Top] = "recipe"  -> {"alert", "player"}
      [] OTHER -> {}

Open(p) ==
    /\ stack # <<>> /\ p \in Opens
    /\ Push(p)
    /\ UNCHANGED <<authVars, tasks, historyVars>>

\* The user is in a hurry with page r if a delayed pop of it is to come.
Hurries(r) == hurried' = IF tasks["pop"][r] > 0 THEN hurried \union {r} ELSE hurried

\* The arrow of a page, Cancel, or the back gesture; on the last page the gesture
\* ends the app.
Back ==
    /\ Len(stack) > 1
    /\ Hurries(Top)
    /\ Pop
    /\ UNCHANGED <<authVars, tasks, deleted, taken, astray>>

\* Mutant: the page is popped together with the dialog.
ConfirmDeletePopsBoth ==
    /\ OnTop("alert") /\ Len(stack) > 1
    /\ deleted' = deleted \union {Below}
    /\ Hurries(Below)
    /\ Waits("pop", Below)
    /\ stack' = SubSeq(stack, 1, Len(stack) - 2)
    /\ leaving' = leaving \union {Top, Below}
    /\ UNCHANGED <<authVars, budget, opened, page, tab, taken, astray>>

\* The dialog of the detail page: the recipe is deleted, the dialog popped, and
\* the pop of the detail page is to follow in a second.
ConfirmDelete ==
    /\ OnTop("alert") /\ Len(stack) > 1
    /\ deleted' = deleted \union {Below}
    /\ Hurries(Below)
    /\ Waits("pop", Below)
    /\ Pop
    /\ UNCHANGED <<authVars, taken, astray>>

\* Save of the create page, when the fields are valid.
Save ==
    /\ OnTop("create")
    /\ Hurries(Top)
    /\ Waits("pop", Top)
    /\ UNCHANGED <<authVars, routeVars, deleted, taken, astray>>

\* Mutant: only if the page is still the one on top.
PopDueIfCurrent(r) ==
    /\ GoesOn("pop", r)
    /\ IF stack # <<>> /\ Top = r THEN Pop ELSE UNCHANGED routeVars
    /\ UNCHANGED <<authVars, historyVars>>

\* The second is over: whatever is on top is popped.
PopDue(r) ==
    /\ GoesOn("pop", r)
    /\ IF stack = <<>>
       THEN UNCHANGED <<routeVars, taken, astray>>
       ELSE /\ Pop
            /\ taken' = IF Top # r THEN taken \union {Top} ELSE taken
            /\ astray' = IF Top > r THEN astray \union {r} ELSE astray
    /\ UNCHANGED <<authVars, deleted, hurried>>

\* The process ends and the app is opened again; FirebaseAuth keeps the user.
Restart ==
    /\ accounts' = {} /\ known' = {} /\ dropped' = {} /\ userInformation' = NoUser
    /\ checks' = NoGets /\ reads' = NoGets
    /\ opened' = 2 /\ stack' = <<1, 2>> /\ leaving' = {}
    /\ page' = FirstPages /\ tab' = [r \in Routes |-> "screen"]
    /\ tasks' = Idle
    /\ deleted' = {} /\ hurried' = {} /\ taken' = {} /\ astray' = {}
    /\ UNCHANGED <<currentUser, docs, budget>>

-----------------------------------------------------------------------------
UserStep ==
    \/ TapGoogle \/ TapGuest \/ TapLogout \/ TapWeather
    \/ \E t \in Tabs : SwitchTab(t)
    \/ \E p \in Pages : Open(p)
    \/ Back \/ ConfirmDelete \/ Save

AuthStep ==
    \/ \E r \in Routes \union {Gone} :
          \/ \E u \in Accounts : GoogleDone(r, u)
          \/ \E u \in Guests : GuestDone(r, u)
          \/ GoogleFails(r) \/ GuestFails(r)
          \/ SignOutDone(r) \/ SignOutFails(r)
    \/ \E u \in Users : CheckDone(u) \/ ReadDone(u) \/ GetFails(u)

RouteStep == \E r \in Routes : WeatherDue(r) \/ PopDue(r) \/ Dismissed(r)

Next == UserStep \/ AuthStep \/ RouteStep \/ Restart

Spec == Init /\ [][Next]_vars

\* A get is answered or fails.
FairSpec == Spec /\ \A u \in Users : WF_vars(ReadDone(u))

-----------------------------------------------------------------------------
(* Properties *)

\* Whoever signed in since the start has a document, or the get that leads to one
\* is under way, unless it failed: signing out, in again or as somebody else in
\* between does no harm, since addUserInfo keeps the user it was called for.
AccountHasDoc ==
    \A u \in accounts : u \in docs \/ checks[u] > 0 \/ u \in dropped

\* Once no download is under way, and somebody signed in since the start whose
\* document existed by then, there is a profile, and it is that of a user since
\* the start: the other downloads, those too that found no document because
\* addUserInfo had not made it yet, have not kept it away.
SettledProfile ==
    /\ \A u \in Users : reads[u] = 0
    /\ known \ dropped # {}
    => userInformation \in accounts \intersect docs

\* The step is the delayed pop of page r, and takes the page on top.
PopsFor(r) == tasks'["pop"][r] < tasks["pop"][r] /\ stack # <<>> /\ Top \in leaving' \ leaving

\* A page below its own is taken by a delayed pop only if the user was in a hurry
\* with the page, or the page was itself taken by another page's delayed pop.
BelowLostOnlyInHurry ==
    [][\A r \in Routes : PopsFor(r) /\ Top < r => r \in hurried \union taken]_vars

\* The page of a deleted recipe does not stay: it is on the stack only while its
\* pop is to come, or after that pop took another page, which was on top of it.
DeletedPageGoes ==
    \A r \in deleted \intersect OnStack : tasks["pop"][r] > 0 \/ r \in astray

\* The profile arrives: if u alone signs in, at least once with a document, and
\* no get fails, LoginProvider ends up with the profile of u, signed out or not.
ProfileArrives ==
    \A u \in Users :
        <>[](accounts = {u} /\ u \in known \ dropped) => <>[](userInformation = u)
=============================================================================
