---------------------------- MODULE Refrigerator ----------------------------
(***************************************************************************)
(* The fridge of the signed-in user: RefrigeratorProvider with the pages   *)
(* that drive it and the alarm slots NotificationProvider keeps at the     *)
(* operating system.                                                       *)
(*                                                                         *)
(* Three things run beside each other.  The user walks through the pages   *)
(* (login, home, add, detail).  Every call of downloadUserFoods leaves one *)
(* more userChanges listener behind, and every listener runs once when it  *)
(* is installed and again at every change of the signed-in user.  Every    *)
(* run of a listener issues a get of the fridge document of the user that  *)
(* is current at that moment, and the gets of different documents complete *)
(* in any order.  Firestore applies a write to its local view before the   *)
(* call returns, so fridge is that view and a get completes with it.       *)
(***************************************************************************)
EXTENDS Naturals

CONSTANTS
    Users,      \* accounts that sign in on this device
    NoUser,     \* FirebaseAuth.instance.currentUser == null
    FoodCodes,  \* foodCode of every document of the 'food' collection
    None,       \* no food
    MaxRegs,    \* bound: foods registered
    MaxSubs,    \* bound: userChanges listeners left by downloadUserFoods
    MaxCalls,   \* bound: runs of these listeners that are queued
    MaxGets     \* bound: gets of one document that are in flight

ASSUME NoUserAssumption == NoUser \notin Users

(***************************************************************************)
(* A userFoodInfo.  reg stands for registerDate: registrations happen at   *)
(* different instants.  Expiry and storage type are in ExpiryAlarm.        *)
(***************************************************************************)
UserFoods == [foodCode : FoodCodes, reg : Nat]

ASSUME NoneAssumption == None \notin FoodCodes /\ None \notin UserFoods

VARIABLES
    currentUser,          \* FirebaseAuth.instance.currentUser
    accounts,             \* history: users signed in since the app was started
    page,                 \* the page on top
    addFood,              \* AddRefrigeratorDetailPage.food, by its code
    detailFood,           \* RefrigeratorDetailPage.userfood
    hasDoc,               \* users whose 'refrigerator' document exists
    fridge,               \* field 'foods' of these documents
    foodInformation,      \* codes the provider knows of
    userfoodInformation,  \* the provider's copy of the user's foods
    shown,                \* the buttons RefrigeratorPage last built
    subs,                 \* userChanges listeners of downloadUserFoods
    calls,                \* runs of these listeners still to come
    gets,                 \* gets in flight, by document
    alarmService,         \* NotificationProvider: "absent", "starting", "ready"
    alarm,                \* pending notification of each id
    rang,                 \* foods whose notification was delivered
    regs,                 \* foods registered so far
    unsaved,              \* history: foods registered while nobody was signed in
    registered,           \* history: all foods registered
    muted                 \* history: foods in a fridge that were registered before
                          \* alarmService was ready or that another user tapped
                          \* Delete for

authVars == <<currentUser, accounts, page, addFood, detailFood>>
storeVars == <<hasDoc, fridge, regs, unsaved, registered>>
feedVars == <<foodInformation, userfoodInformation, shown, subs, calls, gets>>
alarmVars == <<alarmService, alarm, rang, muted>>
vars == <<authVars, storeVars, feedVars, alarmVars>>

Pages == {"login", "home", "add", "detail"}

TypeOK ==
    /\ currentUser \in Users \union {NoUser}
    /\ accounts \subseteq Users
    /\ page \in Pages
    /\ addFood \in FoodCodes \union {None}
    /\ detailFood \in UserFoods \union {None}
    /\ hasDoc \subseteq Users
    /\ fridge \in [Users -> SUBSET UserFoods]
    /\ foodInformation \subseteq FoodCodes
    /\ userfoodInformation \subseteq UserFoods
    /\ shown \subseteq UserFoods
    /\ subs \in Nat
    /\ calls \in Nat
    /\ gets \in [Users -> Nat]
    /\ alarmService \in {"absent", "starting", "ready"}
    /\ alarm \in [FoodCodes -> UserFoods \union {None}]
    /\ rang \subseteq UserFoods
    /\ regs \in Nat
    /\ unsaved \subseteq UserFoods /\ registered \subseteq UserFoods
    /\ muted \subseteq UserFoods

(***************************************************************************)
(* The app starts on the login page; FirebaseAuth may still hold the user  *)
(* of an earlier session.                                                  *)
(***************************************************************************)
Init ==
    /\ currentUser \in Users \union {NoUser}
    /\ accounts = {currentUser} \ {NoUser}
    /\ page = "login" /\ addFood = None /\ detailFood = None
    /\ hasDoc = {} /\ fridge = [u \in Users |-> {}]
    /\ foodInformation = {} /\ userfoodInformation = {} /\ shown = {}
    /\ subs = 0 /\ calls = 0 /\ gets = [u \in Users |-> 0]
    /\ alarmService = "absent" /\ alarm = [c \in FoodCodes |-> None] /\ rang = {}
    /\ regs = 0 /\ unsaved = {} /\ registered = {} /\ muted = {}

-----------------------------------------------------------------------------
(* RefrigeratorProvider *)

\* downloadUserFoods: one more listener, which runs once for the current user.
DownloadUserFoods ==
    /\ subs < MaxSubs /\ calls < MaxCalls
    /\ subs' = subs + 1
    /\ calls' = calls + 1

\* userChanges emits to every listener.
UserChanges ==
    /\ calls + subs <= MaxCalls
    /\ calls' = calls + subs

ProviderInit ==
    /\ subs = 0
    /\ DownloadUserFoods
    /\ UNCHANGED <<authVars, storeVars, alarmVars, foodInformation,
                   userfoodInformation, shown, gets>>

\* A snapshot of the 'food' collection, which the app only reads.
FoodSnapshot ==
    /\ subs > 0
    /\ foodInformation' = FoodCodes
    /\ UNCHANGED <<authVars, storeVars, alarmVars, userfoodInformation, shown,
                   subs, calls, gets>>

\* A listener runs: currentUser! throws when nobody is signed in.
ListenerRuns ==
    /\ calls > 0
    /\ currentUser # NoUser => gets[currentUser] < MaxGets
    /\ calls' = calls - 1
    /\ gets' = IF currentUser = NoUser
               THEN gets
               ELSE [gets EXCEPT ![currentUser] = @ + 1]
    /\ UNCHANGED <<authVars, storeVars, alarmVars, foodInformation,
                   userfoodInformation, shown, subs>>

\* Mutant: the list is not emptied first.
GetCompletesAppending(u) ==
    /\ gets[u] > 0
    /\ gets' = [gets EXCEPT ![u] = @ - 1]
    /\ userfoodInformation' = userfoodInformation \union fridge[u]
    /\ UNCHANGED <<authVars, storeVars, alarmVars, foodInformation, shown,
                   subs, calls>>

\* The list is emptied before data()! throws on a missing document.
GetCompletes(u) ==
    /\ gets[u] > 0
    /\ gets' = [gets EXCEPT ![u] = @ - 1]
    /\ userfoodInformation' = IF u \in hasDoc THEN fridge[u] ELSE {}
    /\ UNCHANGED <<authVars, storeVars, alarmVars, foodInformation, shown,
                   subs, calls>>

\* Mutant: a document for nobody is written.
UploadForNobody(x) ==
    /\ regs < MaxRegs
    /\ regs' = regs + 1
    /\ registered' = registered \union {x}
    /\ hasDoc' = hasDoc \union {currentUser}
    /\ fridge' = [u \in Users |-> IF u = currentUser
                                  THEN fridge[u] \union {x} ELSE fridge[u]]
    /\ UNCHANGED unsaved

\* set with merge and arrayUnion; currentUser! throws when nobody is signed in.
UploadUserFoods(x) ==
    /\ regs < MaxRegs
    /\ regs' = regs + 1
    /\ registered' = registered \union {x}
    /\ IF currentUser = NoUser
       THEN unsaved' = unsaved \union {x} /\ UNCHANGED <<hasDoc, fridge>>
       ELSE /\ hasDoc' = hasDoc \union {currentUser}
            /\ fridge' = [fridge EXCEPT ![currentUser] = @ \union {x}]
            /\ UNCHANGED unsaved

\* Food x, if it is in the fridge of somebody who is not signed in.
NotOwn(x) == {y \in {x} : \E u \in Users \ {currentUser} : y \in fridge[u]}

\* Mutant: the list the provider holds is written back without the food.
DeleteFromCachedList(x) ==
    /\ fridge' = IF currentUser \in hasDoc
                 THEN [fridge EXCEPT ![currentUser] = userfoodInformation \ {x}]
                 ELSE fridge
    /\ muted' = (muted \ {x}) \union NotOwn(x)
    /\ UNCHANGED <<hasDoc, regs, unsaved, registered>>

\* update with arrayRemove, which fails on a missing document.
DeleteUserFood(x) ==
    /\ fridge' = IF currentUser \in hasDoc
                 THEN [fridge EXCEPT ![currentUser] = @ \ {x}]
                 ELSE fridge
    /\ muted' = (muted \ {x}) \union NotOwn(x)
    /\ UNCHANGED <<hasDoc, regs, unsaved, registered>>

-----------------------------------------------------------------------------
(* NotificationProvider *)

\* The provider is created by the first page that asks for it.
AlarmServiceWanted ==
    alarmService' = IF alarmService = "absent" THEN "starting" ELSE alarmService

AlarmServiceReady ==
    /\ alarmService = "starting"
    /\ alarmService' = "ready"
    /\ UNCHANGED <<authVars, storeVars, feedVars, alarm, rang, muted>>

\* Mutant: what was pending is cancelled after the new one has been scheduled.
ScheduleThenCancel(x) ==
    /\ alarm' = [alarm EXCEPT ![x.foodCode] = None]
    /\ muted' = muted \union {y \in {x} : alarmService # "ready" /\ currentUser # NoUser}
    /\ UNCHANGED <<alarmService, rang>>

\* zonedSchedule under the id foodCode: what was pending there is replaced.
\* Until init has set the local time zone tz.local throws.
ExpiredNotification(x) ==
    /\ alarm' = IF alarmService = "ready"
                THEN [alarm EXCEPT ![x.foodCode] = x]
                ELSE alarm
    /\ muted' = muted \union {y \in {x} : alarmService # "ready" /\ currentUser # NoUser}
    /\ UNCHANGED <<alarmService, rang>>

\* Mutant: the notification stays.
CancelNothing(c) == UNCHANGED <<alarm, alarmService, rang>>

CancelNotification(c) ==
    /\ alarm' = [alarm EXCEPT ![c] = None]
    /\ UNCHANGED <<alarmService, rang>>

\* The operating system delivers a notification.
AlarmRings(c) ==
    /\ alarm[c] # None
    /\ rang' = rang \union {alarm[c]}
    /\ alarm' = [alarm EXCEPT ![c] = None]
    /\ UNCHANGED <<authVars, storeVars, feedVars, alarmService, muted>>

-----------------------------------------------------------------------------
(* The pages *)

SignIn(u) ==
    /\ page = "login"
    /\ page' = "home"
    /\ currentUser' = u
    /\ accounts' = accounts \union {u}
    /\ UserChanges
    /\ shown' = userfoodInformation
    /\ UNCHANGED <<addFood, detailFood, storeVars, alarmVars, foodInformation,
                   userfoodInformation, subs, gets>>

\* signInWithAnonymous swallows the error and the page goes home all the same
\* (so does the back gesture after a logout, which pushes /login over /home).
SignInFails ==
    /\ page = "login"
    /\ page' = "home"
    /\ shown' = userfoodInformation
    /\ UNCHANGED <<currentUser, accounts, addFood, detailFood, storeVars, alarmVars,
                   foodInformation, userfoodInformation, subs, calls, gets>>

SignOut ==
    /\ page = "home"
    /\ page' = "login"
    /\ IF currentUser = NoUser THEN UNCHANGED calls ELSE UserChanges
    /\ currentUser' = NoUser
    /\ UNCHANGED <<accounts, addFood, detailFood, storeVars, alarmVars, foodInformation,
                   userfoodInformation, shown, subs, gets>>

\* RefrigeratorPage is built again from the provider's list, on top or not.
Rebuild ==
    /\ subs > 0
    /\ shown' = userfoodInformation
    /\ UNCHANGED <<authVars, storeVars, alarmVars, foodInformation,
                   userfoodInformation, subs, calls, gets>>

OpenAdd(c) ==
    /\ page = "home"
    /\ c \in foodInformation
    /\ page' = "add"
    /\ addFood' = c
    /\ AlarmServiceWanted
    /\ UNCHANGED <<currentUser, accounts, detailFood, storeVars, feedVars, alarm, rang,
                   muted>>

OpenDetail(x) ==
    /\ page = "home"
    /\ x \in shown
    /\ page' = "detail"
    /\ detailFood' = x
    /\ AlarmServiceWanted
    /\ UNCHANGED <<currentUser, accounts, addFood, storeVars, feedVars, alarm, rang,
                   muted>>

GoHome ==
    /\ page' = "home"
    /\ addFood' = None
    /\ detailFood' = None
    /\ UNCHANGED <<currentUser, accounts>>

Back ==
    /\ page \in {"add", "detail"}
    /\ GoHome
    /\ UNCHANGED <<storeVars, feedVars, alarmVars>>

\* /home was pushed over the login page, so the user leaves it still signed in.
BackToLogin ==
    /\ page = "home"
    /\ page' = "login"
    /\ UNCHANGED <<currentUser, accounts, addFood, detailFood, storeVars, feedVars,
                   alarmVars>>

\* The button of AddRefrigeratorDetailPage.
Register ==
    /\ page = "add"
    /\ GoHome
    /\ LET x == [foodCode |-> addFood, reg |-> regs]
       IN  UploadUserFoods(x) /\ ExpiredNotification(x)
    /\ DownloadUserFoods
    /\ UNCHANGED <<foodInformation, userfoodInformation, shown, gets>>

\* Mutant: no downloadUserFoods after the deletion.
DeleteOnly ==
    /\ page = "detail"
    /\ GoHome
    /\ CancelNotification(detailFood.foodCode)
    /\ DeleteUserFood(detailFood)
    /\ UNCHANGED feedVars

\* The button of RefrigeratorDetailPage.
Delete ==
    /\ page = "detail"
    /\ GoHome
    /\ CancelNotification(detailFood.foodCode)
    /\ DeleteUserFood(detailFood)
    /\ DownloadUserFoods
    /\ UNCHANGED <<foodInformation, userfoodInformation, shown, gets>>

\* The process ends and the app is opened again.  Documents, the session of
\* FirebaseAuth and the notifications the system holds survive.
Restart ==
    /\ accounts' = {currentUser} \ {NoUser}
    /\ page' = "login" /\ addFood' = None /\ detailFood' = None
    /\ foodInformation' = {} /\ userfoodInformation' = {} /\ shown' = {}
    /\ subs' = 0 /\ calls' = 0 /\ gets' = [u \in Users |-> 0]
    /\ alarmService' = "absent"
    /\ UNCHANGED <<currentUser, storeVars, alarm, rang, muted>>

-----------------------------------------------------------------------------
UserStep ==
    \/ \E u \in Users : SignIn(u)
    \/ SignInFails
    \/ SignOut
    \/ Rebuild
    \/ \E c \in FoodCodes : OpenAdd(c)
    \/ \E x \in shown : OpenDetail(x)
    \/ Back
    \/ BackToLogin
    \/ Register
    \/ Delete

PlatformStep ==
    \/ ProviderInit
    \/ FoodSnapshot
    \/ ListenerRuns
    \/ \E u \in Users : GetCompletes(u)
    \/ AlarmServiceReady
    \/ \E c \in FoodCodes : AlarmRings(c)

Next == UserStep \/ PlatformStep \/ Restart

Spec == Init /\ [][Next]_vars

(***************************************************************************)
(* The event loop runs what is queued and every get completes: Firestore   *)
(* answers from its cache when the network does not.  Nothing is assumed   *)
(* of the user or of the system's notifications.                           *)
(***************************************************************************)
Fairness ==
    /\ WF_vars(ProviderInit)
    /\ WF_vars(ListenerRuns)
    /\ \A u \in Users : WF_vars(GetCompletes(u))

FairSpec == Spec /\ Fairness

-----------------------------------------------------------------------------
(* Properties *)

SignedIn == currentUser # NoUser

Settled == SignedIn /\ subs > 0 /\ calls = 0 /\ \A u \in Users : gets[u] = 0

\* Once no listener and no get is outstanding, the list the provider holds is
\* the present content of the fridge of a user who was signed in since the app was
\* started, hence of the signed-in user as long as the account is not changed.  It
\* is never a mixture and never misses a later registration or deletion
\* (downloadUserFoods after every write of the add and the detail page).
SettledListIsAFridge ==
    Settled => \E u \in accounts : userfoodInformation = fridge[u]

\* The provider's list catches up with the fridges (see CatchUp): it changes only
\* by becoming the present fridge of a user since the start, or with the process,
\* and no fridge changes and nobody signs in without another get to come.  That
\* is what emptying the list before data() and the downloadUserFoods after every
\* write are for; that listeners pile up never breaks it.
Copy == INSTANCE CatchUp WITH
            Keys <- Users, Contents <- SUBSET UserFoods, Empty <- {},
            source <- fridge, asked <- accounts, list <- userfoodInformation,
            due <- ~Settled

ListCatchesUp == Copy!Spec

\* A pending notification is about a food that is still in somebody's fridge:
\* the detail page cancels the notification before it deletes the food.  Only a
\* registration attempted while nobody is signed in leaves one without a food.
NoAlarmForDeletedFood ==
    \A c \in FoodCodes :
        alarm[c] # None =>
            \/ alarm[c] \in unsaved
            \/ \E u \in Users : alarm[c] \in fridge[u]

\* What is left of "an alarm is registered for one week before" (see
\* PendingAlarmSurvives): a food in a fridge has its notification pending or
\* delivered, whatever was registered, deleted, signed out or restarted since,
\* unless a second food of its code was ever registered, NotificationProvider
\* was not ready yet at its registration, or somebody else, whose page still
\* showed it, tapped Delete, which cancels the notification and removes nothing.
FoodKeepsItsAlarm ==
    \A u \in Users : \A x \in fridge[u] :
        \/ alarm[x.foodCode] = x \/ x \in rang
        \/ x \in muted
        \/ \E y \in registered \ {x} : y.foodCode = x.foodCode

\* Whatever list the provider or a page holds, a step takes out of the fridges at
\* most the one food the open detail page shows, adds at most the one food being
\* registered, and touches no other user's fridge (uid is read when the write is
\* issued; arrayUnion and arrayRemove do not depend on what was read).
NoLostFood ==
    [][\A u \in Users :
           /\ \A x \in fridge[u] : x \in fridge'[u] \/ (u = currentUser /\ x = detailFood)
           /\ \A x \in fridge'[u] :
                  \/ x \in fridge[u]
                  \/ u = currentUser /\ x = [foodCode |-> addFood, reg |-> regs]]_vars

\* What is registered or deleted shows up: while one user stays signed in and is
\* the only one since the app was started, a food that stays in the fridge ends up
\* in the provider's list for good, and one that stays out of it leaves the list
\* for good, however much else is registered and deleted meanwhile.
OnlyUser(u) == currentUser = u /\ accounts = {u} /\ subs > 0

ListConverges ==
    \A u \in Users :
        \A x \in [foodCode : FoodCodes, reg : 0 .. MaxRegs - 1] :
            /\ <>[](OnlyUser(u) /\ x \in fridge[u]) => <>[](x \in userfoodInformation)
            /\ <>[](OnlyUser(u) /\ x \notin fridge[u]) => <>[](x \notin userfoodInformation)

\* Comment of userfoodInformation: only the foods in the user's own fridge.
\* Violated when the get of the user who left completes last.
ListIsOwnFoods ==
    Settled => \A u \in Users \ {currentUser} :
                   userfoodInformation \intersect fridge[u] = {}

\* Comment of the registration button: an alarm is registered for one week
\* before the food expires.  A pending alarm of a food that stays in the fridge
\* may go only by being delivered.  Violated: the id is the food's code, so a
\* second food of that code, or the deletion of one, takes it away.
PendingAlarmSurvives ==
    [][\A c \in FoodCodes :
           alarm[c] # None /\ alarm'[c] # alarm[c] =>
               \/ alarm[c] \in rang'
               \/ \A u \in Users : alarm[c] \notin fridge'[u]]_vars
=============================================================================
