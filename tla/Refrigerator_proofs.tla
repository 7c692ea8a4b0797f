------------------------ MODULE Refrigerator_proofs ------------------------
(***************************************************************************)
(* Proofs about Refrigerator for every set of accounts and food codes and  *)
(* every value of the bounds.                                              *)
(***************************************************************************)
EXTENDS Refrigerator, TLAPS

\* Every action keeps every variable in its type: Spec => []TypeOK covers the
\* whole of RefrigeratorProvider, the pages and the alarm slots.  The page a
\* handler runs on fixes what it was opened with, which the handlers need.
PageOK ==
    /\ page = "add" => addFood \in FoodCodes
    /\ page = "detail" => detailFood \in UserFoods

\* The first state has its type, and no page has an argument.
LEMMA TypeInit == Init => TypeOK /\ PageOK
BY DEF Init, TypeOK, PageOK, Pages

\* Every step keeps the types, and the argument of the open page.
LEMMA TypeNext == TypeOK /\ PageOK /\ [Next]_vars => TypeOK' /\ PageOK'
<1> SUFFICES ASSUME TypeOK, PageOK, [Next]_vars
             PROVE  TypeOK' /\ PageOK'
  OBVIOUS
<1> USE NoUserAssumption, NoneAssumption
<1>1. CASE UNCHANGED vars
  BY <1>1 DEF TypeOK, PageOK, vars, authVars, storeVars, feedVars, alarmVars
<1>2. ASSUME NEW u \in Users, SignIn(u)
      PROVE  TypeOK' /\ PageOK'
  BY <1>2 DEF SignIn, UserChanges, TypeOK, PageOK, Pages, storeVars, alarmVars
<1>3. CASE SignInFails
  BY <1>3 DEF SignInFails, TypeOK, PageOK, Pages, storeVars, alarmVars
<1>4. CASE SignOut
  BY <1>4 DEF SignOut, UserChanges, TypeOK, PageOK, Pages, storeVars, alarmVars
<1>5. CASE Rebuild
  BY <1>5 DEF Rebuild, TypeOK, PageOK, authVars, storeVars, alarmVars
<1>6. ASSUME NEW c \in FoodCodes, OpenAdd(c)
      PROVE  TypeOK' /\ PageOK'
  BY <1>6 DEF OpenAdd, AlarmServiceWanted, TypeOK, PageOK, Pages, storeVars, feedVars
<1>7. ASSUME NEW x \in shown, OpenDetail(x)
      PROVE  TypeOK' /\ PageOK'
  BY <1>7 DEF OpenDetail, AlarmServiceWanted, TypeOK, PageOK, Pages, storeVars, feedVars
<1>8. CASE Back
  BY <1>8 DEF Back, GoHome, TypeOK, PageOK, Pages, storeVars, feedVars, alarmVars
<1>9. CASE BackToLogin
  BY <1>9 DEF BackToLogin, TypeOK, PageOK, Pages, storeVars, feedVars, alarmVars
<1>10. CASE Register
  <2> DEFINE x == [foodCode |-> addFood, reg |-> regs]
  <2>1. x \in UserFoods
    BY <1>10 DEF Register, TypeOK, PageOK, UserFoods
  <2>2. hasDoc' \subseteq Users /\ fridge' \in [Users -> SUBSET UserFoods]
        /\ regs' \in Nat /\ unsaved' \subseteq UserFoods /\ registered' \subseteq UserFoods
    BY <1>10, <2>1 DEF Register, UploadUserFoods, TypeOK
  <2>3. alarm' \in [FoodCodes -> UserFoods \union {None}] /\ UNCHANGED <<alarmService, rang>>
        /\ muted' \subseteq UserFoods
    BY <1>10, <2>1 DEF Register, ExpiredNotification, TypeOK
  <2> QED
    BY <1>10, <2>2, <2>3 DEF Register, GoHome, DownloadUserFoods, TypeOK, PageOK, Pages
<1>11. CASE Delete
  <2>1. hasDoc' \subseteq Users /\ fridge' \in [Users -> SUBSET UserFoods]
        /\ regs' \in Nat /\ unsaved' \subseteq UserFoods /\ registered' \subseteq UserFoods
        /\ muted' \subseteq UserFoods
    BY <1>11 DEF Delete, DeleteUserFood, NotOwn, TypeOK, PageOK
  <2>2. alarm' \in [FoodCodes -> UserFoods \union {None}] /\ UNCHANGED <<alarmService, rang>>
    BY <1>11 DEF Delete, CancelNotification, TypeOK
  <2> QED
    BY <1>11, <2>1, <2>2 DEF Delete, GoHome, DownloadUserFoods, TypeOK, PageOK, Pages
<1>12. CASE ProviderInit
  BY <1>12 DEF ProviderInit, DownloadUserFoods, TypeOK, PageOK, authVars, storeVars, alarmVars
<1>13. CASE FoodSnapshot
  BY <1>13 DEF FoodSnapshot, TypeOK, PageOK, authVars, storeVars, alarmVars
<1>14. CASE ListenerRuns
  <2>1. gets' \in [Users -> Nat] /\ calls' \in Nat
    BY <1>14 DEF ListenerRuns, TypeOK
  <2> QED
    BY <1>14, <2>1 DEF ListenerRuns, TypeOK, PageOK, authVars, storeVars, alarmVars
<1>15. ASSUME NEW u \in Users, GetCompletes(u)
       PROVE  TypeOK' /\ PageOK'
  <2>1. gets' \in [Users -> Nat] /\ userfoodInformation' \subseteq UserFoods
    BY <1>15 DEF GetCompletes, TypeOK
  <2> QED
    BY <1>15, <2>1 DEF GetCompletes, TypeOK, PageOK, authVars, storeVars, alarmVars
<1>16. CASE AlarmServiceReady
  BY <1>16 DEF AlarmServiceReady, TypeOK, PageOK, authVars, storeVars, feedVars
<1>17. ASSUME NEW c \in FoodCodes, AlarmRings(c)
       PROVE  TypeOK' /\ PageOK'
  BY <1>17 DEF AlarmRings, TypeOK, PageOK, authVars, storeVars, feedVars
<1>18. CASE Restart
  BY <1>18 DEF Restart, TypeOK, PageOK, Pages, storeVars
<1> QED
  BY <1>1, <1>2, <1>3, <1>4, <1>5, <1>6, <1>7, <1>8, <1>9, <1>10, <1>11, <1>12,
     <1>13, <1>14, <1>15, <1>16, <1>17, <1>18 DEF Next, UserStep, PlatformStep

\* Every reachable state has its type.
THEOREM TypeCorrect == Spec => []TypeOK
<1>1. Spec => [](TypeOK /\ PageOK)
  BY TypeInit, TypeNext, PTL DEF Spec
<1> QED
  BY <1>1, PTL

-----------------------------------------------------------------------------
(***************************************************************************)
(* The inductive invariant behind the safety properties.  A settled list   *)
(* is right because every step that makes it wrong leaves a listener run   *)
(* or a get behind; an alarm is right because it sits in the slot of its   *)
(* own code, where the deletion of its food looks for it.                  *)
(***************************************************************************)
\* A user without a document has nothing in the fridge.
DocOK == \A u \in Users : u \notin hasDoc => fridge[u] = {}

\* An alarm is kept under the code of its food.
AlarmSlot == \A c \in FoodCodes : alarm[c] # None => alarm[c].foodCode = c

\* Only users who were signed in have gets under way.
AccountsOK ==
    /\ currentUser # NoUser => currentUser \in accounts
    /\ \A u \in Users : gets[u] > 0 => u \in accounts

\* While the list is not such a user's fridge, its replacement is under way.
RefreshDue ==
    currentUser # NoUser /\ subs > 0 =>
        \/ calls > 0
        \/ \E u \in Users : gets[u] > 0
        \/ \E u \in accounts : userfoodInformation = fridge[u]

Inv ==
    /\ TypeOK /\ PageOK
    /\ DocOK /\ AlarmSlot /\ NoAlarmForDeletedFood
    /\ AccountsOK /\ RefreshDue

\* The invariant holds when the app starts.
LEMMA InvInit == Init => Inv
BY TypeInit, NoneAssumption
   DEF Init, Inv, DocOK, AlarmSlot, NoAlarmForDeletedFood, AccountsOK, RefreshDue

\* Foods are only in documents that exist.
LEMMA DocNext == Inv /\ [Next]_vars => DocOK'
<1> SUFFICES ASSUME Inv, [Next]_vars PROVE DocOK'
  OBVIOUS
<1> USE NoUserAssumption, NoneAssumption DEF Inv
<1>1. CASE Register
  BY <1>1 DEF Register, UploadUserFoods, DocOK, TypeOK
<1>2. CASE Delete
  BY <1>2 DEF Delete, DeleteUserFood, DocOK, TypeOK
<1>3. CASE UNCHANGED <<hasDoc, fridge>>
  BY <1>3 DEF DocOK
<1> QED
  BY <1>1, <1>2, <1>3
     DEF Next, UserStep, PlatformStep, vars, authVars, storeVars, feedVars, alarmVars,
         SignIn, SignInFails, SignOut, Rebuild, OpenAdd, OpenDetail, Back, BackToLogin,
         ProviderInit, FoodSnapshot, ListenerRuns, GetCompletes, AlarmServiceReady,
         AlarmRings, Restart

\* Alarms stay in the slot of their food and go when it is deleted.
LEMMA AlarmNext ==
    Inv /\ [Next]_vars => AlarmSlot' /\ NoAlarmForDeletedFood'
<1> SUFFICES ASSUME Inv, [Next]_vars PROVE AlarmSlot' /\ NoAlarmForDeletedFood'
  OBVIOUS
<1> USE NoUserAssumption, NoneAssumption DEF Inv
<1>1. CASE Register
  <2> DEFINE x == [foodCode |-> addFood, reg |-> regs]
  <2>1. x \in UserFoods /\ x # None /\ x.foodCode = addFood /\ addFood \in FoodCodes
    BY <1>1 DEF Register, TypeOK, PageOK, UserFoods
  <2>2. alarm' = alarm \/ alarm' = [alarm EXCEPT ![addFood] = x]
    BY <1>1, <2>1 DEF Register, ExpiredNotification
  <2>3. AlarmSlot'
    BY <2>1, <2>2 DEF AlarmSlot, TypeOK
  <2>4. x \in unsaved' \/ \E u \in Users : x \in fridge'[u]
    BY <1>1 DEF Register, UploadUserFoods, TypeOK
  <2>5. /\ unsaved \subseteq unsaved'
        /\ \A u \in Users : fridge[u] \subseteq fridge'[u]
    BY <1>1 DEF Register, UploadUserFoods, TypeOK
  <2>6. ASSUME NEW c \in FoodCodes, alarm'[c] # None
        PROVE  alarm'[c] \in unsaved' \/ \E u \in Users : alarm'[c] \in fridge'[u]
    <3>1. CASE alarm'[c] = x
      BY <3>1, <2>4
    <3>2. CASE alarm'[c] = alarm[c]
      BY <3>2, <2>5, <2>6 DEF NoAlarmForDeletedFood
    <3> QED
      BY <2>1, <2>2, <3>1, <3>2 DEF TypeOK
  <2> QED
    BY <2>3, <2>6 DEF NoAlarmForDeletedFood
<1>2. CASE Delete
  <2>1. detailFood \in UserFoods /\ detailFood.foodCode \in FoodCodes
    BY <1>2 DEF Delete, PageOK, UserFoods
  <2>2. alarm' = [alarm EXCEPT ![detailFood.foodCode] = None]
    BY <1>2 DEF Delete, CancelNotification
  <2>3. AlarmSlot'
    BY <2>1, <2>2 DEF AlarmSlot, TypeOK
  <2>4. unsaved' = unsaved /\ \A u \in Users : fridge[u] \ {detailFood} \subseteq fridge'[u]
    BY <1>2 DEF Delete, DeleteUserFood, TypeOK
  <2>5. ASSUME NEW c \in FoodCodes, alarm'[c] # None
        PROVE  alarm'[c] \in unsaved' \/ \E u \in Users : alarm'[c] \in fridge'[u]
    <3>1. c # detailFood.foodCode /\ alarm'[c] = alarm[c]
      BY <2>1, <2>2, <2>5 DEF TypeOK
    <3>2. alarm[c] # detailFood
      BY <3>1, <2>5 DEF AlarmSlot
    <3> QED
      BY <2>4, <2>5, <3>1, <3>2 DEF NoAlarmForDeletedFood
  <2> QED
    BY <2>3, <2>5 DEF NoAlarmForDeletedFood
<1>3. ASSUME NEW c \in FoodCodes, AlarmRings(c)
      PROVE  AlarmSlot' /\ NoAlarmForDeletedFood'
  <2>1. alarm' = [alarm EXCEPT ![c] = None] /\ UNCHANGED <<fridge, unsaved>>
    BY <1>3 DEF AlarmRings, storeVars
  <2> QED
    BY <2>1 DEF AlarmSlot, NoAlarmForDeletedFood, TypeOK
<1>4. CASE UNCHANGED <<alarm, fridge, unsaved>>
  BY <1>4 DEF AlarmSlot, NoAlarmForDeletedFood
<1> QED
  BY <1>1, <1>2, <1>3, <1>4
     DEF Next, UserStep, PlatformStep, vars, authVars, storeVars, feedVars, alarmVars,
         SignIn, SignInFails, SignOut, Rebuild, OpenAdd, OpenDetail, Back, BackToLogin,
         ProviderInit, FoodSnapshot, ListenerRuns, GetCompletes, AlarmServiceReady, Restart

\* The signed-in user and every user with a get in flight is among the accounts.
LEMMA AccountsNext == Inv /\ [Next]_vars => AccountsOK'
<1> SUFFICES ASSUME Inv, [Next]_vars PROVE AccountsOK'
  OBVIOUS
<1> USE NoUserAssumption DEF Inv
<1>1. ASSUME NEW u \in Users, SignIn(u) PROVE AccountsOK'
  BY <1>1 DEF SignIn, AccountsOK
<1>2. CASE SignOut
  BY <1>2 DEF SignOut, AccountsOK
<1>3. CASE ListenerRuns
  BY <1>3 DEF ListenerRuns, AccountsOK, TypeOK, authVars
<1>4. ASSUME NEW u \in Users, GetCompletes(u) PROVE AccountsOK'
  BY <1>4 DEF GetCompletes, AccountsOK, TypeOK, authVars
<1>5. CASE Restart
  BY <1>5 DEF Restart, AccountsOK, TypeOK
<1>6. CASE UNCHANGED <<currentUser, accounts, gets>>
  BY <1>6 DEF AccountsOK
<1> QED
  BY <1>1, <1>2, <1>3, <1>4, <1>5, <1>6
     DEF Next, UserStep, PlatformStep, vars, authVars, storeVars, feedVars, alarmVars,
         SignInFails, Rebuild, OpenAdd, OpenDetail, Back, BackToLogin, GoHome, Register,
         Delete, ProviderInit, FoodSnapshot, AlarmServiceReady, AlarmRings

\* Whenever the list is not the fridge of an account, a listener or a get is due.
LEMMA RefreshNext == Inv /\ [Next]_vars => RefreshDue'
<1> SUFFICES ASSUME Inv, [Next]_vars PROVE RefreshDue'
  OBVIOUS
<1> USE NoUserAssumption, NoneAssumption DEF Inv
<1>1. ASSUME NEW u \in Users, SignIn(u)
      PROVE  RefreshDue'
  BY <1>1 DEF SignIn, UserChanges, RefreshDue, TypeOK
<1>2. CASE SignOut
  BY <1>2 DEF SignOut, RefreshDue
<1>3. CASE Register \/ Delete \/ ProviderInit
  BY <1>3 DEF Register, Delete, ProviderInit, DownloadUserFoods, RefreshDue, TypeOK
<1>4. CASE ListenerRuns
  BY <1>4 DEF ListenerRuns, RefreshDue, TypeOK, authVars
<1>5. ASSUME NEW u \in Users, GetCompletes(u)
      PROVE  RefreshDue'
  <2>1. userfoodInformation' = fridge[u] /\ UNCHANGED <<fridge, accounts>> /\ u \in accounts
    BY <1>5 DEF GetCompletes, DocOK, AccountsOK, storeVars, authVars
  <2> QED
    BY <2>1 DEF RefreshDue
<1>6. CASE Restart
  BY <1>6 DEF Restart, RefreshDue
<1>7. CASE UNCHANGED <<currentUser, accounts, subs, calls, gets, userfoodInformation, fridge>>
  BY <1>7 DEF RefreshDue
<1> QED
  BY <1>1, <1>2, <1>3, <1>4, <1>5, <1>6, <1>7
     DEF Next, UserStep, PlatformStep, vars, authVars, storeVars, feedVars, alarmVars,
         SignInFails, Rebuild, OpenAdd, OpenDetail, Back, BackToLogin, GoHome,
         FoodSnapshot, AlarmServiceReady, AlarmRings

\* Every step keeps the invariant.
LEMMA InvNext == Inv /\ [Next]_vars => Inv'
BY TypeNext, DocNext, AlarmNext, AccountsNext, RefreshNext DEF Inv

\* The invariant holds always.
LEMMA Invariance == Spec => []Inv
BY InvInit, InvNext, PTL DEF Spec

\* Once no listener and no get is outstanding the provider's list is the fridge of
\* one of the users since the start, with every registration and deletion in it.
THEOREM SettledList == Spec => []SettledListIsAFridge
<1>1. Inv => SettledListIsAFridge
  BY DEF Inv, RefreshDue, SettledListIsAFridge, Settled, SignedIn, TypeOK
<1> QED
  BY <1>1, Invariance, PTL

\* Hence the signed-in user's own, as long as nobody else was signed in.
COROLLARY SettledListIsOwn ==
    Spec => [](Settled /\ accounts = {currentUser} => userfoodInformation = fridge[currentUser])
<1>1. SettledListIsAFridge =>
          (Settled /\ accounts = {currentUser} => userfoodInformation = fridge[currentUser])
  BY DEF SettledListIsAFridge
<1> QED
  BY <1>1, SettledList, PTL

\* No notification stays behind for a food that was deleted.
THEOREM AlarmsHaveFoods == Spec => []NoAlarmForDeletedFood
<1>1. Inv => NoAlarmForDeletedFood
  BY DEF Inv
<1> QED
  BY <1>1, Invariance, PTL

\* No step loses or invents a food, whatever stale list it is taken from.
THEOREM FoodsAreKept == Spec => NoLostFood
<1> DEFINE Kept ==
      \A u \in Users :
          /\ \A x \in fridge[u] : x \in fridge'[u] \/ (u = currentUser /\ x = detailFood)
          /\ \A x \in fridge'[u] :
                 \/ x \in fridge[u]
                 \/ u = currentUser /\ x = [foodCode |-> addFood, reg |-> regs]
<1>1. Inv /\ [Next]_vars => [Kept]_vars
  <2> SUFFICES ASSUME Inv, Next PROVE Kept
    OBVIOUS
  <2> USE NoUserAssumption, NoneAssumption DEF Inv
  <2>1. CASE Register
    BY <2>1 DEF Register, UploadUserFoods, TypeOK
  <2>2. CASE Delete
    BY <2>2 DEF Delete, DeleteUserFood, TypeOK
  <2>3. CASE UNCHANGED fridge
    BY <2>3
  <2> QED
    BY <2>1, <2>2, <2>3
       DEF Next, UserStep, PlatformStep, authVars, storeVars, feedVars, alarmVars,
           SignIn, SignInFails, SignOut, Rebuild, OpenAdd, OpenDetail, Back, BackToLogin,
           ProviderInit, FoodSnapshot, ListenerRuns, GetCompletes, AlarmServiceReady,
           AlarmRings, Restart
<1> QED
  BY <1>1, Invariance, PTL DEF Spec, NoLostFood

-----------------------------------------------------------------------------
(***************************************************************************)
(* Foods and their alarms.  No food is registered twice, and whatever list *)
(* the provider or a page holds, however stale, only holds foods that were *)
(* registered: a Delete that takes an alarm away was tapped for the food   *)
(* itself or for a twin of it.                                             *)
(***************************************************************************)
RegisteredOK ==
    /\ \A x \in registered : x.reg < regs
    /\ \A u \in Users : fridge[u] \subseteq registered
    /\ userfoodInformation \subseteq registered /\ shown \subseteq registered
    /\ page = "detail" => detailFood \in registered

\* Every list holds registered foods only, and no food is registered twice.
LEMMA RegisteredNext == Inv /\ RegisteredOK /\ [Next]_vars => RegisteredOK'
<1> SUFFICES ASSUME Inv, RegisteredOK, [Next]_vars PROVE RegisteredOK'
  OBVIOUS
<1> USE DEF RegisteredOK
<1>1. CASE Register
  <2> DEFINE x == [foodCode |-> addFood, reg |-> regs]
  <2>1. registered' = registered \union {x} /\ regs' = regs + 1 /\ regs \in Nat
        /\ registered \subseteq UserFoods /\ x.reg = regs
    BY <1>1 DEF Register, UploadUserFoods, Inv, TypeOK
  <2>2. \A y \in registered' : y.reg < regs'
    BY <2>1 DEF UserFoods
  <2>3. \A u \in Users : fridge'[u] \subseteq fridge[u] \union {x}
    BY <1>1 DEF Register, UploadUserFoods, Inv, TypeOK
  <2>4. page' = "home" /\ UNCHANGED <<userfoodInformation, shown>>
    BY <1>1 DEF Register, GoHome
  <2> QED
    BY <2>1, <2>2, <2>3, <2>4
<1>2. CASE Delete
  <2>1. \A u \in Users : fridge'[u] \subseteq fridge[u]
    BY <1>2 DEF Delete, DeleteUserFood, Inv, TypeOK
  <2>2. page' = "home" /\ UNCHANGED <<userfoodInformation, shown, registered, regs>>
    BY <1>2 DEF Delete, DeleteUserFood, GoHome
  <2> QED
    BY <2>1, <2>2
<1>3. ASSUME NEW u \in Users, GetCompletes(u) PROVE RegisteredOK'
  BY <1>3 DEF GetCompletes, authVars, storeVars
<1>4. ASSUME NEW u \in Users, SignIn(u) PROVE RegisteredOK'
  BY <1>4 DEF SignIn, storeVars
<1>5. CASE SignInFails \/ SignOut \/ Rebuild \/ Back \/ BackToLogin
  BY <1>5 DEF SignInFails, SignOut, Rebuild, Back, BackToLogin, GoHome,
              authVars, storeVars, feedVars
<1>6. ASSUME NEW c \in FoodCodes, OpenAdd(c) PROVE RegisteredOK'
  BY <1>6 DEF OpenAdd, storeVars, feedVars
<1>7. ASSUME NEW x \in shown, OpenDetail(x) PROVE RegisteredOK'
  BY <1>7 DEF OpenDetail, storeVars, feedVars
<1>8. CASE ProviderInit \/ FoodSnapshot \/ ListenerRuns \/ AlarmServiceReady
  BY <1>8 DEF ProviderInit, FoodSnapshot, ListenerRuns, AlarmServiceReady,
              authVars, storeVars, feedVars
<1>9. ASSUME NEW c \in FoodCodes, AlarmRings(c) PROVE RegisteredOK'
  BY <1>9 DEF AlarmRings, authVars, storeVars, feedVars
<1>10. CASE Restart
  BY <1>10 DEF Restart, storeVars
<1>11. CASE UNCHANGED vars
  BY <1>11 DEF vars, authVars, storeVars, feedVars
<1> QED
  BY <1>1, <1>2, <1>3, <1>4, <1>5, <1>6, <1>7, <1>8, <1>9, <1>10, <1>11
     DEF Next, UserStep, PlatformStep

\* Food x has its alarm, had it, or is one of the exceptions.
Announced(x) ==
    \/ alarm[x.foodCode] = x \/ x \in rang
    \/ x \in muted
    \/ \E y \in registered \ {x} : y.foodCode = x.foodCode

\* Every step keeps the alarms of the foods, or makes them an exception.
LEMMA AnnouncedNext ==
    Inv /\ RegisteredOK /\ FoodKeepsItsAlarm /\ [Next]_vars => FoodKeepsItsAlarm'
<1> SUFFICES ASSUME Inv, RegisteredOK, FoodKeepsItsAlarm, [Next]_vars,
                    NEW u \in Users, NEW x \in fridge'[u]
             PROVE  Announced(x)'
  BY DEF FoodKeepsItsAlarm, Announced
<1>1. \A v \in Users : x \in fridge[v] => Announced(x) /\ x \in UserFoods /\ x \in registered
  BY DEF FoodKeepsItsAlarm, Announced, RegisteredOK, Inv, TypeOK
<1>2. CASE Register
  <2> DEFINE z == [foodCode |-> addFood, reg |-> regs]
  <2>1. /\ registered' = registered \union {z} /\ z \in UserFoods
        /\ z.foodCode = addFood /\ z.reg = regs /\ addFood \in FoodCodes
        /\ alarm' = IF alarmService = "ready" THEN [alarm EXCEPT ![addFood] = z] ELSE alarm
        /\ muted' = muted \union {y \in {z} : alarmService # "ready" /\ currentUser # NoUser}
        /\ rang' = rang
    BY <1>2 DEF Register, UploadUserFoods, ExpiredNotification, Inv, TypeOK, PageOK, UserFoods
  <2>2. \/ x \in fridge[u]
        \/ x = z /\ currentUser # NoUser
    BY <1>2 DEF Register, UploadUserFoods, Inv, TypeOK
  <2> HIDE DEF z
  <2>3. CASE x \in fridge[u]
    <3>1. Announced(x) /\ x \in UserFoods /\ x.reg < regs
      BY <1>1, <2>3 DEF RegisteredOK
    <3>2. x # z
      BY <2>1, <3>1 DEF Inv, TypeOK
    <3>3. CASE x.foodCode = addFood
      BY <2>1, <3>2, <3>3 DEF Announced
    <3>4. CASE x.foodCode # addFood
      <4>1. x.foodCode \in FoodCodes
        BY <3>1 DEF UserFoods
      <4>2. alarm'[x.foodCode] = alarm[x.foodCode]
        BY <2>1, <3>4, <4>1 DEF Inv, TypeOK
      <4> QED
        BY <2>1, <3>1, <4>2 DEF Announced
    <3> QED
      BY <3>3, <3>4
  <2>4. CASE x = z /\ currentUser # NoUser
    BY <2>1, <2>4 DEF Announced, Inv, TypeOK
  <2> QED
    BY <2>2, <2>3, <2>4
<1>3. CASE Delete
  <2> DEFINE z == detailFood
  <2>1. /\ z \in UserFoods /\ z \in registered /\ z.foodCode \in FoodCodes
        /\ alarm' = [alarm EXCEPT ![z.foodCode] = None]
        /\ muted' = (muted \ {z}) \union NotOwn(z)
        /\ UNCHANGED <<rang, registered>>
    BY <1>3 DEF Delete, CancelNotification, DeleteUserFood, RegisteredOK, Inv, PageOK, UserFoods
  <2>2. x \in fridge[u] /\ (x = z => u # currentUser)
    BY <1>3 DEF Delete, DeleteUserFood, Inv, TypeOK, DocOK
  <2>3. Announced(x) /\ x.foodCode \in FoodCodes
    BY <1>1, <2>2 DEF UserFoods
  <2> HIDE DEF z
  <2>4. CASE x = z
    BY <2>1, <2>2, <2>4 DEF NotOwn, Announced
  <2>5. CASE x # z /\ x.foodCode = z.foodCode
    BY <2>1, <2>5 DEF Announced
  <2>6. CASE x.foodCode # z.foodCode
    <3>1. alarm'[x.foodCode] = alarm[x.foodCode]
      BY <2>1, <2>3, <2>6 DEF Inv, TypeOK
    <3> QED
      BY <2>1, <2>3, <2>6, <3>1 DEF Announced
  <2> QED
    BY <2>4, <2>5, <2>6
<1>4. ASSUME NEW c \in FoodCodes, AlarmRings(c) PROVE Announced(x)'
  <2>1. /\ alarm' = [alarm EXCEPT ![c] = None] /\ rang' = rang \union {alarm[c]}
        /\ UNCHANGED <<fridge, muted, registered>>
    BY <1>4 DEF AlarmRings, storeVars
  <2>2. Announced(x) /\ x.foodCode \in FoodCodes
    BY <1>1, <2>1 DEF UserFoods
  <2>3. CASE x.foodCode = c
    BY <2>1, <2>2, <2>3 DEF Announced
  <2>4. CASE x.foodCode # c
    <3>1. alarm'[x.foodCode] = alarm[x.foodCode]
      BY <2>1, <2>2, <2>4 DEF Inv, TypeOK
    <3> QED
      BY <2>1, <2>2, <3>1 DEF Announced
  <2> QED
    BY <2>3, <2>4
<1>5. CASE UNCHANGED <<alarm, rang, muted, registered, fridge>>
  BY <1>1, <1>5 DEF Announced
<1> QED
  BY <1>2, <1>3, <1>4, <1>5
     DEF Next, UserStep, PlatformStep, vars, authVars, storeVars, feedVars, alarmVars,
         SignIn, SignInFails, SignOut, Rebuild, OpenAdd, OpenDetail, Back, BackToLogin,
         ProviderInit, FoodSnapshot, ListenerRuns, GetCompletes, AlarmServiceReady, Restart

\* A food keeps its alarm until it is delivered, through every deletion, change of
\* account and restart, but for a twin, a registration before NotificationProvider
\* was ready, and a Delete tapped by somebody else.
THEOREM FoodsKeepTheirAlarms == Spec => []FoodKeepsItsAlarm
<1>1. Init => RegisteredOK /\ FoodKeepsItsAlarm
  BY DEF Init, RegisteredOK, FoodKeepsItsAlarm
<1> QED
  BY <1>1, Invariance, RegisteredNext, AnnouncedNext, PTL DEF Spec

-----------------------------------------------------------------------------
(***************************************************************************)
(* Refrigerator implements CatchUp.  A get that completes is a Refresh of  *)
(* the document it read, which AccountsOK and DocOK say is that of a user  *)
(* since the start, empty when missing; a write or a sign-in is a Disturb  *)
(* because a run of a listener follows it.                                 *)
(***************************************************************************)
\* The first state is one of CatchUp's.
LEMMA CopyInit == Init => Copy!Init
<1> SUFFICES ASSUME Init PROVE Copy!Init
  OBVIOUS
<1>1. fridge \in [Users -> SUBSET UserFoods] /\ accounts \subseteq Users
  BY DEF Init
<1>2. ~Settled /\ userfoodInformation = {}
  BY DEF Init, Settled
<1> QED
  BY <1>1, <1>2 DEF Copy!Init

\* A step that leaves the list alone and an answer due disturbs at most.
LEMMA CopyDisturb ==
    ASSUME TypeOK', ~Settled', UNCHANGED userfoodInformation
    PROVE  Copy!Next
<1>1. fridge' \in [Users -> SUBSET UserFoods] /\ accounts' \subseteq Users
  BY DEF TypeOK
<1> QED
  BY <1>1 DEF Copy!Next, Copy!Disturb

\* Every step is one of CatchUp's, or none.
LEMMA CopyNext == Inv /\ Inv' /\ [Next]_vars => [Copy!Next]_(Copy!vars)
<1> SUFFICES ASSUME Inv, Inv', [Next]_vars PROVE Copy!Next \/ UNCHANGED Copy!vars
  OBVIOUS
<1> USE NoUserAssumption DEF Inv
<1>1. ASSUME NEW u \in Users, SignIn(u)
      PROVE  Copy!Next
  <2>1. ~Settled' /\ UNCHANGED userfoodInformation
    BY <1>1 DEF SignIn, UserChanges, Settled, TypeOK
  <2> QED
    BY <2>1, CopyDisturb
<1>2. CASE SignOut
  <2>1. ~Settled' /\ UNCHANGED userfoodInformation
    BY <1>2 DEF SignOut, Settled, SignedIn
  <2> QED
    BY <2>1, CopyDisturb
<1>3. CASE Register \/ Delete \/ ProviderInit
  <2>1. ~Settled' /\ UNCHANGED userfoodInformation
    BY <1>3 DEF Register, Delete, ProviderInit, DownloadUserFoods, Settled, TypeOK
  <2> QED
    BY <2>1, CopyDisturb
<1>4. CASE ListenerRuns
  <2>1. ~Settled' /\ UNCHANGED userfoodInformation
    <3>1. CASE currentUser = NoUser
      BY <1>4, <3>1 DEF ListenerRuns, Settled, SignedIn, authVars
    <3>2. CASE currentUser # NoUser
      <4>1. currentUser \in Users /\ gets'[currentUser] = gets[currentUser] + 1
        BY <1>4, <3>2 DEF ListenerRuns, TypeOK
      <4> QED
        BY <1>4, <4>1 DEF ListenerRuns, Settled, TypeOK
    <3> QED
      BY <1>4, <3>1, <3>2 DEF ListenerRuns
  <2> QED
    BY <2>1, CopyDisturb
<1>5. ASSUME NEW u \in Users, GetCompletes(u)
      PROVE  Copy!Next
  <2>1. userfoodInformation' = fridge[u] /\ UNCHANGED <<fridge, accounts>> /\ u \in accounts
    BY <1>5 DEF GetCompletes, DocOK, AccountsOK, storeVars, authVars
  <2>2. ~Settled
    BY <1>5 DEF GetCompletes, Settled, TypeOK
  <2>3. (~Settled') \in BOOLEAN
    OBVIOUS
  <2>4. Copy!Refresh(u)
    BY <2>1, <2>2, <2>3 DEF Copy!Refresh
  <2> QED
    BY <2>1, <2>4 DEF Copy!Next
<1>6. CASE Restart
  <2>1. ~Settled' /\ userfoodInformation' = {} /\ UNCHANGED fridge
    BY <1>6 DEF Restart, Settled, storeVars
  <2>2. accounts' \subseteq Users
    BY DEF TypeOK
  <2> QED
    BY <2>1, <2>2 DEF Copy!Next, Copy!Restart
<1>7. CASE UNCHANGED <<currentUser, accounts, subs, calls, gets, userfoodInformation, fridge>>
  BY <1>7 DEF Copy!vars, Settled, SignedIn
<1> QED
  BY <1>1, <1>2, <1>3, <1>4, <1>5, <1>6, <1>7
     DEF Next, UserStep, PlatformStep, vars, authVars, storeVars, feedVars, alarmVars,
         SignInFails, Rebuild, OpenAdd, OpenDetail, Back, BackToLogin, GoHome,
         FoodSnapshot, AlarmServiceReady, AlarmRings

\* RefrigeratorProvider keeps the promise of CatchUp: its list only ever changes
\* into the present fridge of a user since the start.
THEOREM FridgeCatchesUp == Spec => ListCatchesUp
BY CopyInit, CopyNext, Invariance, PTL DEF Spec, ListCatchesUp, Copy!Spec
=============================================================================
