------------------------ MODULE ExpiryAlarm_proofs ------------------------
(***************************************************************************)
(* Proofs about ExpiryAlarm for every length of a day, every lag shorter   *)
(* than a day and every range of dates.                                    *)
(***************************************************************************)
EXTENDS ExpiryAlarm, TLAPS

\* A difference that is not negative lies within its last whole day.
LEMMA WholeDays ==
    ASSUME NEW t \in Int, t >= 0
    PROVE  /\ InDays(t) \in Nat
           /\ InDays(t) * Day <= t
           /\ t < (InDays(t) + 1) * Day
BY DayAssumption DEF InDays

\* A negative difference has no positive number of whole days.
LEMMA NoDays ==
    ASSUME NEW t \in Int, t < 0
    PROVE  InDays(t) \in Int /\ InDays(t) <= 0
BY DayAssumption DEF InDays

\* Less than eight days are at most seven whole days.
LEMMA LessThanEightDays ==
    ASSUME NEW t \in Int, t < (Week + 1) * Day
    PROVE  InDays(t) <= Week
<1>1. CASE t < 0
  BY <1>1, NoDays DEF Week
<1>2. CASE t >= 0
  <2> DEFINE n == InDays(t)
  <2>1. n \in Nat /\ n * Day <= t
    BY <1>2, WholeDays
  <2> HIDE DEF n
  <2>2. ASSUME n > Week PROVE FALSE
    <3>1. (n - 8) * Day >= 0
      BY <2>1, <2>2, DayAssumption DEF Week
    <3>2. n * Day = (n - 8) * Day + 8 * Day
      BY <2>1, DayAssumption
    <3> QED
      BY <2>1, <3>1, <3>2, DayAssumption DEF Week
  <2>3. n <= Week
    BY <2>1, <2>2 DEF Week
  <2> QED
    BY <2>3 DEF n
<1> QED
  BY <1>1, <1>2

\* The notification is always in the future, as the plugin demands.
LEMMA DelayPositive ==
    ASSUME NEW k \in Int
    PROVE  Delay(k) \in Nat /\ Delay(k) > 0
BY DayAssumption DEF Delay, Week

-----------------------------------------------------------------------------
\* The first state has its type.
LEMMA TypeInit == Init => TypeOK
BY DEF Init, TypeOK, Only, Buttons

\* A number of whole days is an integer.
LEMMA InDaysType ==
    ASSUME NEW t \in Int
    PROVE  InDays(t) \in Int
BY WholeDays, NoDays

\* Every step keeps the types.
LEMMA TypeNext == TypeOK /\ [Next]_vars => TypeOK'
<1> SUFFICES ASSUME TypeOK, [Next]_vars PROVE TypeOK'
  OBVIOUS
<1> USE DayAssumption, DateAssumption, NoneAssumption
<1>1. CASE UNCHANGED vars
  BY <1>1 DEF TypeOK, vars, formVars, alarmVars
<1>2. CASE Tick
  BY <1>2 DEF Tick, TypeOK, formVars, alarmVars
<1>3. CASE AlarmRings
  BY <1>3 DEF AlarmRings, TypeOK, formVars
<1>4. CASE OpenForm
  BY <1>4 DEF OpenForm, TypeOK, Only, Buttons, alarmVars
<1>5. ASSUME NEW b \in Buttons, Toggle(b) PROVE TypeOK'
  BY <1>5 DEF Toggle, TypeOK, Only, alarmVars
<1>6. CASE ShowDatePickerPop
  BY <1>6 DEF ShowDatePickerPop, TypeOK, formVars, alarmVars
<1>7. ASSUME NEW d \in FirstDate .. LastDate, PickDate(d) PROVE TypeOK'
  <2>1. d * Day \in Int
    OBVIOUS
  <2> QED
    BY <1>7, <2>1 DEF PickDate, TypeOK, alarmVars
<1>8. CASE CancelPicker
  BY <1>8 DEF CancelPicker, TypeOK, formVars, alarmVars
<1>9. CASE Register
  <2>1. selectedTime \in Int /\ now \in Nat
    BY <1>9 DEF Register, TypeOK
  <2>2. food' \in StoredFoods
    <3>1. StorageType(isSelected) \in Buttons
      BY DEF StorageType, Buttons
    <3> QED
      BY <1>9, <2>1, <3>1 DEF Register, StoredFoods
  <2>3. alarmAt' \in Nat \union {None}
    <3>1. Delay(InDays(selectedTime - now)) \in Nat
      BY <2>1, InDaysType, DelayPositive
    <3> QED
      BY <1>9, <2>1, <3>1 DEF Register, ExpiredNotification, TypeOK
  <2> QED
    BY <1>9, <2>2, <2>3 DEF Register, CloseForm, TypeOK, Only, Buttons
<1>10. CASE Back
  BY <1>10 DEF Back, CloseForm, TypeOK, Only, Buttons, alarmVars
<1>11. CASE OpenDetail
  <2>1. food.expiredDate \in Int
    BY <1>11 DEF OpenDetail, TypeOK, StoredFoods
  <2>2. daysLeft' \in Int
    BY <1>11, <2>1, InDaysType DEF OpenDetail, TypeOK
  <2> QED
    BY <1>11, <2>2 DEF OpenDetail, TypeOK, formVars, alarmVars
<1>12. CASE Delete
  BY <1>12 DEF Delete, CancelNotification, TypeOK, formVars
<1> QED
  BY <1>1, <1>2, <1>3, <1>4, <1>5, <1>6, <1>7, <1>8, <1>9, <1>10, <1>11, <1>12 DEF Next

\* Form, alarm and food keep their types for every calendar.
THEOREM TypeCorrect == Spec => []TypeOK
BY TypeInit, TypeNext, PTL DEF Spec

-----------------------------------------------------------------------------
(***************************************************************************)
(* The inductive invariant: a pending notification is due exactly when     *)
(* expiredNotification computed it from the dates of its food, and one     *)
(* that was delivered was not delivered before that.                       *)
(***************************************************************************)
DueAt(f) == f.registerDate + Delay(InDays(f.expiredDate - f.registerDate))

AlarmDue ==
    food # None =>
        /\ alarmAt # None \/ rangAt # None
        /\ alarmAt # None => alarmAt = DueAt(food)
        /\ rangAt # None => rangAt >= DueAt(food) /\ rangAt <= now

\* Every step keeps AlarmDue: the instant of an alarm is the one computed at the
\* registration of the food that is in the fridge.
LEMMA DueNext == TypeOK /\ AlarmDue /\ [Next]_vars => AlarmDue'
<1> SUFFICES ASSUME TypeOK, AlarmDue, [Next]_vars PROVE AlarmDue'
  OBVIOUS
<1> USE NoneAssumption
<1>1. CASE Tick
  <2>1. now \in Nat /\ now' = now + 1 /\ UNCHANGED <<food, alarmAt, rangAt>>
    BY <1>1 DEF Tick, TypeOK, alarmVars
  <2> QED
    BY <2>1 DEF AlarmDue, DueAt, TypeOK
<1>2. CASE AlarmRings
  <2>1. now \in Nat /\ UNCHANGED <<food, now>> /\ rangAt' = now /\ alarmAt' = None
        /\ alarmAt # None /\ now >= alarmAt
    BY <1>2 DEF AlarmRings, TypeOK
  <2> QED
    BY <2>1 DEF AlarmDue, DueAt
<1>3. CASE Register
  <2>1. selectedTime \in Int /\ now \in Nat
    BY <1>3 DEF Register, TypeOK
  <2> DEFINE k == InDays(selectedTime - now)
  <2>2. k \in Int
    BY <2>1, InDaysType
  <2>3. Delay(k) \in Nat /\ Delay(k) > 0
    BY <2>2, DelayPositive
  <2>4. alarmAt' = now + Delay(k) /\ rangAt' = None
    BY <1>3, <2>3 DEF Register, ExpiredNotification
  <2>5. food'.registerDate = now /\ food'.expiredDate = selectedTime
    BY <1>3 DEF Register
  <2>6. DueAt(food)' = now + Delay(k)
    BY <2>5 DEF DueAt
  <2>7. alarmAt' # None
    BY <2>1, <2>3, <2>4
  <2> QED
    BY <2>4, <2>6, <2>7 DEF AlarmDue
<1>4. CASE Delete
  BY <1>4 DEF Delete, AlarmDue
<1>5. CASE UNCHANGED <<now, food, alarmAt, rangAt>>
  BY <1>5 DEF AlarmDue, DueAt
<1> QED
  BY <1>1, <1>2, <1>3, <1>4, <1>5
     DEF Next, vars, formVars, alarmVars, OpenForm, Toggle, ShowDatePickerPop, PickDate,
         CancelPicker, Back, OpenDetail

\* Types and AlarmDue hold always.
LEMMA Invariance == Spec => [](TypeOK /\ AlarmDue)
<1>1. Init => AlarmDue
  BY DEF Init, AlarmDue
<1> QED
  BY <1>1, TypeInit, TypeNext, DueNext, PTL DEF Spec

\* Every food that is in the fridge has been announced or will be.
THEOREM FoodsHaveAlarms == Spec => []EveryFoodHasAlarm
<1>1. AlarmDue => EveryFoodHasAlarm
  BY DEF AlarmDue, EveryFoodHasAlarm
<1> QED
  BY <1>1, Invariance, PTL

\* At the instant it is due, and later, less than eight days are left, by the lag.
LEMMA DueBeforeEightDays ==
    ASSUME NEW f \in StoredFoods, NEW t \in Int, t >= DueAt(f)
    PROVE  f.expiredDate - t + Lag < (Week + 1) * Day
<1> DEFINE r == f.registerDate
           e == f.expiredDate
           k == InDays(e - r)
<1>1. r \in Int /\ e \in Int
  BY DEF StoredFoods
<1>2. k \in Int
  BY <1>1, InDaysType
<1>3. t >= r + Delay(k)
  BY DEF DueAt
<1>4. e - r < (k + 1) * Day \/ e - r < 0
  BY <1>1, WholeDays
<1> HIDE DEF r, e, k
<1>5. e - t + Lag < (Week + 1) * Day
  <2>1. CASE k <= Week
    <3>1. Delay(k) = Lag
      BY <2>1, DayAssumption DEF Delay, Week
    <3>2. (k + 1) * Day <= (Week + 1) * Day
      <4>1. (Week - k) * Day >= 0
        BY <1>2, <2>1, DayAssumption DEF Week
      <4>2. (Week + 1) * Day = (k + 1) * Day + (Week - k) * Day
        BY <1>2, DayAssumption DEF Week
      <4>3. (k + 1) * Day \in Int /\ (Week - k) * Day \in Int
        BY <1>2, DayAssumption DEF Week
      <4> QED
        BY <4>1, <4>2, <4>3
    <3>3. (Week + 1) * Day > 0 /\ (k + 1) * Day \in Int
      BY <1>2, DayAssumption DEF Week
    <3> QED
      BY <1>1, <1>2, <1>3, <1>4, <3>1, <3>2, <3>3, DayAssumption DEF Week
  <2>2. CASE k > Week
    <3>1. Delay(k) = (k - Week) * Day + Lag
      BY <1>2, <2>2, DayAssumption DEF Delay, Week
    <3>2. (k + 1) * Day = (k - Week) * Day + (Week + 1) * Day
      BY <1>2, DayAssumption DEF Week
    <3>3. (k - Week) * Day \in Int /\ (k - Week) * Day >= 0 /\ (Week + 1) * Day \in Int
          /\ (Week + 1) * Day > 0
      BY <1>2, <2>2, DayAssumption DEF Week
    <3> QED
      BY <1>1, <1>3, <1>4, <3>1, <3>2, <3>3, DayAssumption
  <2> QED
    BY <1>2, <2>1, <2>2 DEF Week
<1> QED
  BY <1>5 DEF e

\* So the detail page shows seven days at most.
LEMMA DueWithinAWeek ==
    ASSUME NEW f \in StoredFoods, NEW t \in Int, t >= DueAt(f)
    PROVE  InDays(f.expiredDate - t) <= Week
<1>1. f.expiredDate - t \in Int
  BY DEF StoredFoods
<1>2. f.expiredDate - t < (Week + 1) * Day
  BY <1>1, DueBeforeEightDays, DayAssumption DEF Week
<1> QED
  BY <1>1, <1>2, LessThanEightDays

\* The notification says a week or less while more is left, but never by a day.
THEOREM LessThanADayEarly == Spec => []AlarmAtMostADayEarly
<1>1. TypeOK /\ AlarmDue => AlarmAtMostADayEarly
  <2> SUFFICES ASSUME TypeOK, AlarmDue, rangAt # None, food # None
               PROVE  food.expiredDate - rangAt + Lag < (Week + 1) * Day
    BY DEF AlarmAtMostADayEarly
  <2>1. food \in StoredFoods /\ rangAt \in Int /\ rangAt >= DueAt(food)
    BY DEF TypeOK, AlarmDue
  <2> QED
    BY <2>1, DueBeforeEightDays
<1> QED
  BY <1>1, Invariance, PTL

\* Nor does it come later than a week and the lag before the food expires, when
\* there was more than a week to begin with.
THEOREM NoticeOfAWeek == Spec => []AWeekOfNotice
<1>1. TypeOK /\ AlarmDue => AWeekOfNotice
  <2> SUFFICES ASSUME TypeOK, AlarmDue, alarmAt # None, food # None,
                      InDays(food.expiredDate - food.registerDate) > Week
               PROVE  food.expiredDate - alarmAt >= Week * Day - Lag
    BY DEF AWeekOfNotice
  <2> DEFINE r == food.registerDate
             e == food.expiredDate
             k == InDays(e - r)
  <2>1. r \in Int /\ e \in Int
    BY DEF TypeOK, StoredFoods
  <2>2. k \in Int /\ k > Week
    BY <2>1, InDaysType
  <2>3. alarmAt = r + Delay(k)
    BY DEF AlarmDue, DueAt
  <2>4. e - r >= 0
    BY <2>1, <2>2, NoDays DEF Week
  <2>5. k * Day <= e - r
    BY <2>1, <2>4, WholeDays
  <2> HIDE DEF r, e, k
  <2>6. Delay(k) = (k - Week) * Day + Lag
    BY <2>2, DayAssumption DEF Delay, Week
  <2>7. k * Day = (k - Week) * Day + Week * Day
    BY <2>2, DayAssumption DEF Week
  <2>8. (k - Week) * Day \in Int /\ Week * Day \in Int
    BY <2>2, DayAssumption DEF Week
  <2>9. e - alarmAt >= Week * Day - Lag
    BY <2>1, <2>3, <2>5, <2>6, <2>7, <2>8, DayAssumption
  <2> QED
    BY <2>9 DEF e
<1> QED
  BY <1>1, Invariance, PTL

\* The page opened after the notification shows no more days than it promised.
THEOREM DetailAgrees == Spec => DetailAgreesWithAlarm
<1>1. TypeOK /\ AlarmDue /\ [Next]_vars =>
          [page' = "detail" /\ page # "detail" /\ rangAt # None => daysLeft' <= Week]_vars
  <2> SUFFICES ASSUME TypeOK, AlarmDue, Next, page' = "detail", page # "detail", rangAt # None
               PROVE  daysLeft' <= Week
    OBVIOUS
  <2>1. OpenDetail
    BY DEF Next, Tick, AlarmRings, OpenForm, Toggle, ShowDatePickerPop, PickDate,
           CancelPicker, Register, Back, Delete
  <2>2. food \in StoredFoods /\ food # None
    BY <2>1 DEF OpenDetail, TypeOK
  <2>3. now \in Int /\ rangAt \in Int /\ rangAt >= DueAt(food) /\ rangAt <= now
    BY <2>2 DEF TypeOK, AlarmDue
  <2>4. DueAt(food) \in Int
    <3>1. food.expiredDate \in Int /\ food.registerDate \in Int
      BY <2>2 DEF StoredFoods
    <3>2. Delay(InDays(food.expiredDate - food.registerDate)) \in Nat
      BY <3>1, InDaysType, DelayPositive
    <3> QED
      BY <3>1, <3>2 DEF DueAt
  <2>5. now >= DueAt(food)
    BY <2>3, <2>4
  <2> QED
    BY <2>1, <2>2, <2>3, <2>5, DueWithinAWeek DEF OpenDetail
<1> QED
  BY <1>1, Invariance, PTL DEF Spec, DetailAgreesWithAlarm
=============================================================================
