---------------------------- MODULE WeatherRecipe ----------------------------
(***************************************************************************)
(* The recommendation of the day: WeatherProvider, loadWeatherRecipes of   *)
(* RecipeProvider, the button of the home page and the page it opens.      *)
(*                                                                         *)
(* WeatherProvider asks once, when it is created, for the position and the *)
(* weather there; whatever goes wrong leaves the weather null for good.    *)
(* The button looks up a category by hour and weather and leaves a         *)
(* userChanges listener for it behind, whose runs leave snapshot listeners *)
(* of that category's query behind.  They all write to _weatherRecipes and *)
(* none is ever cancelled.                                                 *)
(***************************************************************************)
EXTENDS Naturals, Sequences

CONSTANTS
    Recipes,
    Labels,      \* values of a document's field kategorie, {} for no document
    NoWeather,   \* null
    Weathers,    \* "rain", then by the felt temperature "cold", "hot", "mild"
    StartHours,  \* bound: hours at which a behaviour may begin
    MaxTaps,     \* bound: taps of the button
    MaxChanges,  \* bound: changes of the collection
    MaxUsers,    \* bound: changes of the user
    MaxTicks     \* bound: full hours passing

ASSUME WeatherAssumption == Weathers \subseteq {"rain", "cold", "hot", "mild"}
ASSUME NoWeatherAssumption == NoWeather \notin Weathers

Hours == 0 .. 23

ASSUME HoursAssumption == StartHours \subseteq Hours

\* The queries: arrayContains on the field kategorie.
Kategories == {"late snack", "breakfast", "fried, jeon", "soup", "spicy", "meal"}

\* What the form of a recipe writes to that field: the query for rain is not among it.
FormKategories == {"soup", "fried", "spicy", "late snack", "breakfast", "meal"}

ASSUME LabelsAssumption == Labels \subseteq SUBSET FormKategories

Phases == {"service", "requestService", "permission", "requestPermission",
           "location", "weather", "done", "failed"}

VARIABLES
    hour,
    phase,           \* progress of WeatherProvider.init
    granted,         \* whether getLocation will be allowed
    position,        \* latitude and longitude are set
    weather,
    kategorie,       \* field kategorie of each document
    weatherRecipes,
    subs, calls,     \* userChanges listeners and their runs to come, by category
    snaps, due,      \* snapshot listeners and snapshots on their way, by category
    pushes,          \* delayed pushes of the page
    pages,           \* the pages pushed, the last one on top
    asked,           \* the last call of loadWeatherRecipes that did not throw
    taps, changes, users, ticks

weatherVars == <<phase, granted, position, weather>>
listenVars == <<subs, calls, snaps, due>>
pageVars == <<pushes, pages, asked>>
boundVars == <<taps, changes, users, ticks>>
vars == <<hour, weatherVars, kategorie, weatherRecipes, listenVars, pageVars, boundVars>>

\* By the hour at night and in the morning, by the weather during the day.
ByWeather(w) ==
    IF w = "rain" THEN "fried, jeon"
    ELSE IF w = "cold" THEN "soup"
    ELSE IF w = "hot" THEN "spicy"
    ELSE "meal"

\* Mutant: the morning begins after seven.
KategorieFromEight(h, w) ==
    IF h >= 21 \/ h <= 3 THEN "late snack"
    ELSE IF h > 7 /\ h <= 11 THEN "breakfast"
    ELSE IF h >= 11 /\ h <= 20
    THEN IF w = NoWeather THEN "throws" ELSE ByWeather(w)
    ELSE "nothing"

\* Mutant: the weather is not forced to be known.
KategorieUnchecked(h, w) ==
    IF h >= 21 \/ h <= 3 THEN "late snack"
    ELSE IF h >= 7 /\ h <= 11 THEN "breakfast"
    ELSE IF h >= 11 /\ h <= 20
    THEN IF w = NoWeather THEN "null" ELSE ByWeather(w)
    ELSE "nothing"

\* The category loadWeatherRecipes asks for.
Kategorie(h, w) ==
    IF h >= 21 \/ h <= 3 THEN "late snack"
    ELSE IF h >= 7 /\ h <= 11 THEN "breakfast"
    ELSE IF h >= 11 /\ h <= 20
    THEN IF w = NoWeather THEN "throws" ELSE ByWeather(w)
    ELSE "nothing"

\* The category printWeatherDescription talks of.
Description(h, w) ==
    IF h >= 21 \/ h <= 3 THEN "late snack"
    ELSE IF (h >= 11 /\ h <= 15) \/ (h >= 17 /\ h <= 20) THEN "meal"
    ELSE IF h >= 7 /\ h <= 10 THEN "breakfast"
    ELSE ByWeather(w)

\* A page of which the build threw shows an error.
Pages == [kind : {"recipes"}, hour : Hours, says : Kategories]
            \union [kind : {"error"}, hour : Hours]

Asked == [hour : Hours, weather : Weathers \union {NoWeather},
          kategorie : Kategories \union {"nothing"}]

TypeOK ==
    /\ hour \in Hours
    /\ phase \in Phases /\ granted \in BOOLEAN /\ position \in BOOLEAN
    /\ weather \in Weathers \union {NoWeather}
    /\ kategorie \in [Recipes -> Labels]
    /\ weatherRecipes \subseteq Recipes
    /\ subs \in [Kategories -> Nat] /\ calls \in [Kategories -> Nat]
    /\ snaps \in [Kategories -> Nat] /\ due \in [Kategories -> Nat]
    /\ pushes \in Nat
    /\ pages \in Seq(Pages)
    /\ asked \in Asked \union {<<>>}
    /\ taps \in Nat /\ changes \in Nat /\ users \in Nat /\ ticks \in Nat

None == [c \in Kategories |-> 0]

Init ==
    /\ hour \in StartHours
    /\ phase = "service" /\ granted = FALSE /\ position = FALSE /\ weather = NoWeather
    /\ kategorie \in [Recipes -> Labels]
    /\ weatherRecipes = {}
    /\ subs = None /\ calls = None /\ snaps = None /\ due = None
    /\ pushes = 0 /\ pages = <<>> /\ asked = <<>>
    /\ taps = 0 /\ changes = 0 /\ users = 0 /\ ticks = 0

-----------------------------------------------------------------------------
(* WeatherProvider *)

Step(p) ==
    /\ phase' = p
    /\ UNCHANGED <<hour, kategorie, weatherRecipes, listenVars, pageVars, boundVars>>

ServiceEnabled ==
    /\ phase = "service"
    /\ Step("permission") \/ Step("requestService")
    /\ UNCHANGED <<granted, position, weather>>

\* Refused: getPosition returns, getWeather runs without a position.
RequestService ==
    /\ phase = "requestService"
    /\ Step("permission") \/ Step("weather")
    /\ UNCHANGED <<granted, position, weather>>

\* Only "denied" leads to a request; "deniedForever" goes on to getLocation.
HasPermission(status) ==
    /\ phase = "permission"
    /\ Step(IF status = "denied" THEN "requestPermission" ELSE "location")
    /\ granted' = (status \in {"granted", "grantedLimited"})
    /\ UNCHANGED <<position, weather>>

RequestPermission(status) ==
    /\ phase = "requestPermission"
    /\ Step(IF status = "granted" THEN "location" ELSE "weather")
    /\ granted' = (status \in {"granted", "grantedLimited"})
    /\ UNCHANGED <<position, weather>>

\* getLocation throws without permission, or for reasons of its own.
GetLocation ==
    /\ phase = "location"
    /\ \/ /\ granted /\ Step("weather")
          /\ position' = TRUE
       \/ /\ Step("failed")
          /\ UNCHANGED position
    /\ UNCHANGED <<granted, weather>>

\* Mutant: asked again on every visit, the old value is dropped first.
GetWeatherAgain ==
    /\ phase \in {"weather", "done"}
    /\ \/ /\ position /\ Step("done")
          /\ weather' \in Weathers
       \/ /\ Step("failed")
          /\ weather' = NoWeather
    /\ UNCHANGED <<granted, position>>

\* latitude! throws without a position; the service may fail.
GetWeather ==
    /\ phase = "weather"
    /\ \/ /\ position /\ Step("done")
          /\ weather' \in Weathers
       \/ /\ Step("failed")
          /\ UNCHANGED weather
    /\ UNCHANGED <<granted, position>>

-----------------------------------------------------------------------------
(* RecipeProvider.loadWeatherRecipes *)

Add(f, c) == [f EXCEPT ![c] = @ + 1]
Sub(f, c) == [f EXCEPT ![c] = @ - 1]

Query(c) == {r \in Recipes : c \in kategorie[r]}

LoadWeatherRecipes(c) ==
    IF c = "nothing"
    THEN UNCHANGED <<subs, calls>>
    ELSE subs' = Add(subs, c) /\ calls' = Add(calls, c)

\* The button: loads, and pushes the page a little later.  What
\* loadWeatherRecipes throws ends the handler before the push.
Tap ==
    /\ taps < MaxTaps /\ pages = <<>>
    /\ taps' = taps + 1
    /\ LET c == Kategorie(hour, weather) IN
       IF c = "throws"
       THEN UNCHANGED <<subs, calls, pushes, asked>>
       ELSE /\ LoadWeatherRecipes(c)
            /\ pushes' = pushes + 1
            /\ asked' = [hour |-> hour, weather |-> weather, kategorie |-> c]
    /\ UNCHANGED <<hour, weatherVars, kategorie, weatherRecipes, snaps, due,
                   pages, changes, users, ticks>>

\* Mutant: the category's snapshots are read once.
ListenerReadsOnce(c) ==
    /\ calls[c] > 0
    /\ calls' = Sub(calls, c)
    /\ due' = Add(due, c)
    /\ UNCHANGED <<hour, weatherVars, kategorie, weatherRecipes, subs, snaps,
                   pageVars, boundVars>>

\* A userChanges listener runs: one more snapshot listener, whose first
\* snapshot is on its way.
ListenerRuns(c) ==
    /\ calls[c] > 0
    /\ calls' = Sub(calls, c)
    /\ snaps' = Add(snaps, c)
    /\ due' = Add(due, c)
    /\ UNCHANGED <<hour, weatherVars, kategorie, weatherRecipes, subs,
                   pageVars, boundVars>>

\* Mutant: the list is not emptied first.
SnapshotAppends(c) ==
    /\ due[c] > 0
    /\ due' = Sub(due, c)
    /\ weatherRecipes' = weatherRecipes \union Query(c)
    /\ UNCHANGED <<hour, weatherVars, kategorie, subs, calls, snaps, pageVars, boundVars>>

\* A snapshot arrives: the list is emptied and filled from it.
SnapshotArrives(c) ==
    /\ due[c] > 0
    /\ due' = Sub(due, c)
    /\ weatherRecipes' = Query(c)
    /\ UNCHANGED <<hour, weatherVars, kategorie, subs, calls, snaps, pageVars, boundVars>>

-----------------------------------------------------------------------------
(* The page *)

\* weather! throws in build.
Build(h, w) ==
    IF w = NoWeather
    THEN [kind |-> "error", hour |-> h]
    ELSE [kind |-> "recipes", hour |-> h, says |-> Description(h, w)]

PushPage ==
    /\ pushes > 0
    /\ pushes' = pushes - 1
    /\ pages' = Append(pages, Build(hour, weather))
    /\ UNCHANGED <<hour, weatherVars, kategorie, weatherRecipes, listenVars, asked, boundVars>>

\* RecipeProvider notifies (loadRecipes of the detail page): the pages that got
\* as far as listening to it are built again.  WeatherProvider never notifies.
Rebuild ==
    /\ pages # <<>>
    /\ pages' = [i \in DOMAIN pages |->
                    IF pages[i].kind = "error" THEN pages[i] ELSE Build(hour, weather)]
    /\ UNCHANGED <<hour, weatherVars, kategorie, weatherRecipes, listenVars,
                   pushes, asked, boundVars>>

Back ==
    /\ pages # <<>>
    /\ pages' = SubSeq(pages, 1, Len(pages) - 1)
    /\ UNCHANGED <<hour, weatherVars, kategorie, weatherRecipes, listenVars,
                   pushes, asked, boundVars>>

-----------------------------------------------------------------------------
(* The environment *)

\* Some client creates, changes or deletes a recipe.  Every snapshot listener
\* whose query has another result is told.
CollectionChanges(r, K) ==
    /\ changes < MaxChanges
    /\ changes' = changes + 1
    /\ kategorie' = [kategorie EXCEPT ![r] = K]
    /\ due' = [c \in Kategories |->
                  IF c \in (K \ kategorie[r]) \union (kategorie[r] \ K)
                  THEN due[c] + snaps[c] ELSE due[c]]
    /\ UNCHANGED <<hour, weatherVars, weatherRecipes, subs, calls, snaps,
                   pageVars, taps, users, ticks>>

\* userChanges tells every listener of a sign-in or a sign-out.
UserChanges ==
    /\ users < MaxUsers
    /\ users' = users + 1
    /\ calls' = [c \in Kategories |-> calls[c] + subs[c]]
    /\ UNCHANGED <<hour, weatherVars, kategorie, weatherRecipes, subs, snaps,
                   due, pageVars, taps, changes, ticks>>

Tick ==
    /\ ticks < MaxTicks
    /\ ticks' = ticks + 1
    /\ hour' = (hour + 1) % 24
    /\ UNCHANGED <<weatherVars, kategorie, weatherRecipes, listenVars, pageVars,
                   taps, changes, users>>

Next ==
    \/ ServiceEnabled \/ RequestService
    \/ \E p \in {"granted", "grantedLimited", "denied", "deniedForever"} :
          HasPermission(p) \/ RequestPermission(p)
    \/ GetLocation \/ GetWeather
    \/ Tap
    \/ \E c \in Kategories : ListenerRuns(c) \/ SnapshotArrives(c)
    \/ PushPage \/ Rebuild \/ Back
    \/ \E r \in Recipes, K \in Labels : CollectionChanges(r, K)
    \/ UserChanges \/ Tick

Spec == Init /\ [][Next]_vars

\* The event loop runs what is queued.
FairSpec ==
    /\ Spec
    /\ \A c \in Kategories : WF_vars(ListenerRuns(c)) /\ WF_vars(SnapshotArrives(c))

-----------------------------------------------------------------------------
(* Properties *)

Settled == \A c \in Kategories : calls[c] = 0 /\ due[c] = 0

\* Once nothing is outstanding the list is the present result of one query that
\* was asked for: never a mixture of two and never one the collection has left
\* behind, although listeners of several categories write to it.  A consequence of
\* ListCatchesUp.
SettledListIsAQuery ==
    Settled /\ (\E c \in Kategories : subs[c] > 0) =>
        \E c \in Kategories : subs[c] > 0 /\ weatherRecipes = Query(c)

\* The list catches up with the queries (see CatchUp): it changes only by becoming
\* the present result of a category that was asked for, and no such result changes
\* and nothing more is asked for without a snapshot to come.
Copy == INSTANCE CatchUp WITH
            Keys <- Kategories, Contents <- SUBSET Recipes, Empty <- {},
            source <- [c \in Kategories |-> Query(c)],
            asked <- {c \in Kategories : subs[c] > 0},
            list <- weatherRecipes,
            due <- ~(Settled /\ \E c \in Kategories : subs[c] > 0)

ListCatchesUp == Copy!Spec

\* A page of the stack shows an error only if the weather was unknown at the
\* last tap that loaded something: the weather once known stays known, and a
\* push that comes late never does worse than its tap.
ErrorOnlyWithoutWeather ==
    (\E i \in DOMAIN pages : pages[i].kind = "error") => asked.weather = NoWeather

\* Outside meal times (11 to 15 and 17 to 20) and the early morning (4 to 6) the
\* text of the page, built within the hour of the tap, speaks of the category
\* that was loaded: the two tables of hours agree there.
TextFitsList ==
    \A i \in DOMAIN pages :
        /\ pages[i].kind = "recipes" /\ pages[i].hour = asked.hour
        /\ pages[i].hour \notin (4 .. 6) \union (11 .. 15) \union (17 .. 20)
        => pages[i].says = asked.kategorie

\* If only one category was ever asked for, a recipe that stays in it gets onto
\* the list and one that stays out of it gets off the list.
ListArrives ==
    \A c \in Kategories, r \in Recipes :
        <>[](subs[c] > 0 /\ \A d \in Kategories \ {c} : subs[d] = 0) =>
            /\ <>[](c \in kategorie[r]) => <>[](r \in weatherRecipes)
            /\ <>[](c \notin kategorie[r]) => <>[](r \notin weatherRecipes)
=============================================================================
