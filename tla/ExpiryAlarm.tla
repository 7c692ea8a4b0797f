---------------------------- MODULE ExpiryAlarm ----------------------------
(***************************************************************************)
(* One food from the form of AddRefrigeratorDetailPage to its expiry       *)
(* notification: the date arithmetic of the handlers and of                *)
(* NotificationProvider, the date picker, the toggle buttons and the page  *)
(* that shows how many days are left.  Foods that share a code and users   *)
(* that come and go are in Refrigerator.                                   *)
(*                                                                         *)
(* Time is counted in ticks, Day of them to a day, from midnight of the    *)
(* first day of the run; dates before it are negative.                     *)
(***************************************************************************)
EXTENDS Integers

CONSTANTS
    Day,        \* ticks in a day
    Lag,        \* the five seconds added to every notification, in ticks
    FirstDate,  \* first day the date picker offers (2021)
    LastDate,   \* last day the date picker offers (2025)
    Late,       \* bound: last tick at which a food is registered
    MaxNow,     \* bound: last tick of the run
    None

ASSUME DayAssumption == Day \in Nat /\ Lag \in Nat /\ 0 < Lag /\ Lag < Day
ASSUME DateAssumption == FirstDate \in Int /\ LastDate \in Int /\ FirstDate <= LastDate
ASSUME BoundAssumption == Late \in Nat /\ MaxNow \in Nat
ASSUME NoneAssumption == None \notin Int

VARIABLES
    now,
    page,          \* "list", "form", "picker" (over the form) or "detail"
    selectedTime,  \* _selectedTime of the form
    isSelected,    \* which storage button is down
    food,          \* the stored userFoodInfo, None before and after
    alarmAt,       \* when the pending notification is due
    rangAt,        \* when it was delivered
    daysLeft       \* the number the detail page shows

formVars == <<selectedTime, isSelected>>
alarmVars == <<alarmAt, rangAt>>
vars == <<now, page, formVars, food, alarmVars, daysLeft>>

Buttons == {"cold", "frozen", "room"}

Week == 7

\* Whole days in a difference of two instants: Dart truncates towards zero.
InDays(t) == IF t >= 0 THEN t \div Day ELSE - ((- t) \div Day)

\* A userFoodInfo.
StoredFoods == [registerDate : Nat, expiredDate : Int, storageType : Buttons]

TypeOK ==
    /\ now \in Nat
    /\ page \in {"list", "form", "picker", "detail"}
    /\ selectedTime \in Int \union {None}
    /\ page \in {"form", "picker"} => selectedTime \in Int
    /\ isSelected \in [Buttons -> BOOLEAN]
    /\ food = None \/ food \in StoredFoods
    /\ alarmAt \in Nat \union {None}
    /\ rangAt \in Nat \union {None}
    /\ daysLeft \in Int \union {None}

Only(b) == [s \in Buttons |-> s = b]

Init ==
    /\ now = 0
    /\ page = "list"
    /\ selectedTime = None /\ isSelected = Only("cold")
    /\ food = None /\ alarmAt = None /\ rangAt = None /\ daysLeft = None

-----------------------------------------------------------------------------
(* NotificationProvider *)

\* Mutants: no lower limit; a day too early; a day too late.
DelayUnclamped(days) == (days - Week) * Day + Lag
DelayEarly(days) == (IF days <= Week + 1 THEN 0 ELSE days - Week - 1) * Day + Lag
DelayLate(days) == (IF days <= Week THEN 0 ELSE days - Week + 1) * Day + Lag

\* A food with a week or less to go is announced at once.
Delay(days) == ((IF days <= Week THEN Week ELSE days) - Week) * Day + Lag

\* The plugin refuses an instant that is not in the future.
ExpiredNotification(days) ==
    alarmAt' = IF Delay(days) > 0 THEN now + Delay(days) ELSE alarmAt

CancelNotification == alarmAt' = None

AlarmRings ==
    /\ alarmAt # None
    /\ now >= alarmAt
    /\ rangAt' = now
    /\ alarmAt' = None
    /\ UNCHANGED <<now, page, formVars, food, daysLeft>>

-----------------------------------------------------------------------------
(* AddRefrigeratorDetailPage *)

\* The state of the form goes with its page.
CloseForm == selectedTime' = None /\ isSelected' = Only("cold")

\* The state of the page starts with this instant and the first button.
OpenForm ==
    /\ page = "list"
    /\ page' = "form"
    /\ selectedTime' = now
    /\ isSelected' = Only("cold")
    /\ UNCHANGED <<now, food, alarmVars, daysLeft>>

\* The buttons work like radio buttons.
Toggle(b) ==
    /\ page = "form"
    /\ isSelected' = Only(b)
    /\ UNCHANGED <<now, page, selectedTime, food, alarmVars, daysLeft>>

\* showDatePicker asserts that today is not after the last date.
ShowDatePickerPop ==
    /\ page = "form"
    /\ FirstDate * Day <= now /\ now \div Day <= LastDate
    /\ page' = "picker"
    /\ UNCHANGED <<now, formVars, food, alarmVars, daysLeft>>

PickDate(d) ==
    /\ page = "picker"
    /\ page' = "form"
    /\ selectedTime' = d * Day
    /\ UNCHANGED <<now, isSelected, food, alarmVars, daysLeft>>

\* Mutant: the null of a dismissed picker is stored.
CancelPickerStoresNull ==
    /\ page = "picker"
    /\ page' = "form"
    /\ selectedTime' = None
    /\ UNCHANGED <<now, isSelected, food, alarmVars, daysLeft>>

\* dateTime! throws before the assignment.
CancelPicker ==
    /\ page = "picker"
    /\ page' = "form"
    /\ UNCHANGED <<now, formVars, food, alarmVars, daysLeft>>

\* The chain of conditions of the button: the second if decides alone, so the
\* food is never stored as "cold", the default.
StorageType(sel) == IF sel["frozen"] THEN "frozen" ELSE "room"

\* The registration button: upload, then the alarm.
Register ==
    /\ page = "form"
    /\ food = None /\ now <= Late
    /\ page' = "list"
    /\ food' = [registerDate |-> now,
                expiredDate |-> selectedTime,
                storageType |-> StorageType(isSelected)]
    /\ ExpiredNotification(InDays(selectedTime - now))
    /\ rangAt' = None
    /\ CloseForm
    /\ UNCHANGED <<now, daysLeft>>

Back ==
    /\ page \in {"form", "detail"}
    /\ page' = "list"
    /\ daysLeft' = None
    /\ CloseForm
    /\ UNCHANGED <<now, food, alarmVars>>

-----------------------------------------------------------------------------
(* RefrigeratorDetailPage *)

\* Mutant: the days are counted from the registration.
OpenDetailFromRegistration ==
    /\ page = "list"
    /\ food # None
    /\ page' = "detail"
    /\ daysLeft' = InDays(food.expiredDate - food.registerDate)
    /\ UNCHANGED <<now, formVars, food, alarmVars>>

\* Mutant: looking at the food clears its notification.
OpenDetailClearsAlarm ==
    /\ page = "list"
    /\ food # None
    /\ page' = "detail"
    /\ daysLeft' = InDays(food.expiredDate - now)
    /\ alarmAt' = None
    /\ UNCHANGED <<now, formVars, food, rangAt>>

OpenDetail ==
    /\ page = "list"
    /\ food # None
    /\ page' = "detail"
    /\ daysLeft' = InDays(food.expiredDate - now)
    /\ UNCHANGED <<now, formVars, food, alarmVars>>

Delete ==
    /\ page = "detail"
    /\ page' = "list"
    /\ CancelNotification
    /\ food' = None
    /\ rangAt' = None
    /\ daysLeft' = None
    /\ UNCHANGED <<now, formVars>>

-----------------------------------------------------------------------------
Tick ==
    /\ now < MaxNow
    /\ now' = now + 1
    /\ UNCHANGED <<page, formVars, food, alarmVars, daysLeft>>

Next ==
    \/ Tick
    \/ AlarmRings
    \/ OpenForm
    \/ \E b \in Buttons : Toggle(b)
    \/ ShowDatePickerPop
    \/ \E d \in FirstDate .. LastDate : PickDate(d)
    \/ CancelPicker
    \/ Register
    \/ Back
    \/ OpenDetail
    \/ Delete

Spec == Init /\ [][Next]_vars

\* Time passes and the system delivers what is due.
FairSpec == Spec /\ WF_vars(Tick) /\ WF_vars(AlarmRings)

-----------------------------------------------------------------------------
(* Properties *)

\* Every food that was registered has its notification pending or delivered,
\* even one that had expired already when it was registered (expiredNotification
\* raises such a number of days before it computes the instant).
EveryFoodHasAlarm == food # None => alarmAt # None \/ rangAt # None

\* The text of the notification says that a week or less is left.  The days are
\* cut to whole ones when the food is registered, so it may say so early: by less
\* than a day, the lag taken off, and never by more, however late it is delivered.
AlarmAtMostADayEarly ==
    rangAt # None /\ food # None => food.expiredDate - rangAt + Lag < (Week + 1) * Day

\* The detail page opened after the notification agrees with it.
DetailAgreesWithAlarm ==
    [][page' = "detail" /\ page # "detail" /\ rangAt # None => daysLeft' <= Week]_vars

\* A food registered with more than a week to go is announced a week ahead, up
\* to the five seconds: the truncation to whole days never costs the user a day.
AWeekOfNotice ==
    /\ food # None
    /\ alarmAt # None
    /\ InDays(food.expiredDate - food.registerDate) > Week
    => food.expiredDate - alarmAt >= Week * Day - Lag

\* Every notification arrives, unless its food is deleted first.
AlarmArrives == (alarmAt # None) ~> (rangAt # None \/ food = None)
=============================================================================
