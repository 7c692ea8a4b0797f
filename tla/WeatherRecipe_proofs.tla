------------------------ MODULE WeatherRecipe_proofs ------------------------
(***************************************************************************)
(* Proofs about WeatherRecipe for every collection, every weather and every *)
(* number of taps, changes, users and hours.                               *)
(***************************************************************************)
EXTENDS WeatherRecipe, TLAPS

\* Listeners exist only for categories that were asked for.
Owned == \A c \in Kategories : snaps[c] > 0 \/ due[c] > 0 \/ calls[c] > 0 => subs[c] > 0

\* Someone is going to write the list, or the category written last is still
\* listened to and the list is its present result.
RefreshDue ==
    (\E c \in Kategories : subs[c] > 0) =>
        \/ \E c \in Kategories : calls[c] > 0 \/ due[c] > 0
        \/ \E c \in Kategories : snaps[c] > 0 /\ weatherRecipes = Query(c)

\* A snapshot on its way has a listener.
Listening == \A c \in Kategories : due[c] > 0 => snaps[c] > 0

\* The weather is set by the last step of init and never again.
WeatherLast == phase # "done" => weather = NoWeather

\* A page, or a push to come, belongs to a tap.
PagesAsked == pushes > 0 \/ pages # <<>> => asked # <<>>

\* What a tap was told of the weather still holds, if it was told anything.
AskedRight ==
    asked # <<>> =>
        /\ asked.weather = NoWeather \/ asked.weather = weather
        /\ asked.kategorie = Kategorie(asked.hour, asked.weather)

\* What a page shows is what it would show now, were it built at its hour.
PagesRight ==
    \A i \in DOMAIN pages :
        \/ pages[i].kind = "error" /\ asked.weather = NoWeather
        \/ /\ pages[i].kind = "recipes" /\ weather # NoWeather
           /\ pages[i].says = Description(pages[i].hour, weather)

ListInv == Owned /\ RefreshDue /\ Listening
PageInv == WeatherLast /\ PagesAsked /\ AskedRight /\ PagesRight
Inv == TypeOK /\ ListInv /\ PageInv

\* The steps of WeatherProvider.init.
WeatherStep ==
    \/ ServiceEnabled \/ RequestService
    \/ \E p \in {"granted", "grantedLimited", "denied", "deniedForever"} :
          HasPermission(p) \/ RequestPermission(p)
    \/ GetLocation \/ GetWeather

-----------------------------------------------------------------------------
(* The tables *)

\* The table by weather returns a category.
LEMMA ByWeatherType == \A w : ByWeather(w) \in Kategories
BY DEF ByWeather, Kategories

\* What the two tables return.
LEMMA KategorieType == \A h \in Hours : \A w : Kategorie(h, w) \in Kategories \union {"nothing", "throws"}
BY ByWeatherType DEF Kategorie, Kategories, Hours

\* The text always speaks of a category.
LEMMA DescriptionType == \A h \in Hours : \A w : Description(h, w) \in Kategories
BY ByWeatherType DEF Description, Kategories, Hours

\* Neither "nothing" nor "throws" is a category.
LEMMA NoKategorie == "nothing" \notin Kategories /\ "throws" \notin Kategories
BY DEF Kategories

\* Where the tables agree, if the lookup did not throw.
LEMMA TablesAgree ==
    ASSUME NEW h \in Hours, NEW w, NEW v, v = NoWeather \/ v = w,
           Kategorie(h, v) # "throws",
           h \notin (4 .. 6) \union (11 .. 15) \union (17 .. 20)
    PROVE  Description(h, w) = Kategorie(h, v)
<1>0. h \in Nat
  BY DEF Hours
<1>1. CASE h >= 21 \/ h <= 3
  <2>1. Description(h, w) = "late snack"
    <3>1. CASE h >= 21
      BY <1>0, <3>1 DEF Description
    <3>2. CASE h <= 3
      BY <1>0, <3>2 DEF Description
    <3> QED
      BY <1>1, <3>1, <3>2
  <2>2. Kategorie(h, v) = "late snack"
    <3>1. CASE h >= 21
      BY <1>0, <3>1 DEF Kategorie
    <3>2. CASE h <= 3
      BY <1>0, <3>2 DEF Kategorie
    <3> QED
      BY <1>1, <3>1, <3>2
  <2> QED
    BY <2>1, <2>2
<1>2. CASE 7 <= h /\ h <= 10
  <2>1. Description(h, w) = "breakfast"
    BY <1>0, <1>2 DEF Description
  <2>2. Kategorie(h, v) = "breakfast"
    BY <1>0, <1>2 DEF Kategorie
  <2> QED
    BY <2>1, <2>2
<1>3. CASE h = 16
  <2>1. Description(h, w) = ByWeather(w)
    BY <1>0, <1>3 DEF Description
  <2>2. Kategorie(h, v) = IF v = NoWeather THEN "throws" ELSE ByWeather(v)
    BY <1>0, <1>3 DEF Kategorie
  <2> QED
    BY <2>1, <2>2
<1> QED
  BY <1>1, <1>2, <1>3 DEF Hours

\* A page that is built has the type of pages.
LEMMA BuildType == \A h \in Hours : \A w : Build(h, w) \in Pages
BY DescriptionType DEF Build, Pages

-----------------------------------------------------------------------------
\* The invariant holds when the app starts.
LEMMA InvInit == Init => Inv
<1> SUFFICES ASSUME Init PROVE Inv
  OBVIOUS
<1>1. TypeOK
  <2>1. hour \in Hours /\ None \in [Kategories -> Nat]
    BY HoursAssumption DEF Init, None
  <2>2. pages = <<>> /\ asked = <<>> /\ pages \in Seq(Pages)
    BY DEF Init
  <2> QED
    BY <2>1, <2>2 DEF Init, TypeOK, Phases
<1>2. ListInv
  BY DEF Init, None, ListInv, Owned, RefreshDue, Listening
<1>3. PageInv
  BY DEF Init, PageInv, WeatherLast, PagesAsked, AskedRight, PagesRight
<1> QED
  BY <1>1, <1>2, <1>3 DEF Inv

\* Counting up and down by category.
LEMMA Counting ==
    ASSUME NEW f \in [Kategories -> Nat], NEW c \in Kategories
    PROVE  /\ Add(f, c) \in [Kategories -> Nat] /\ Add(f, c)[c] = f[c] + 1
           /\ f[c] > 0 => Sub(f, c) \in [Kategories -> Nat] /\ Sub(f, c)[c] = f[c] - 1
           /\ \A d \in Kategories : d # c => Add(f, c)[d] = f[d] /\ Sub(f, c)[d] = f[d]
BY DEF Add, Sub

\* The steps of WeatherProvider change nothing but its own state.
LEMMA WeatherStepAlone ==
    WeatherStep => UNCHANGED <<hour, kategorie, weatherRecipes, listenVars, pageVars, boundVars>>
BY DEF WeatherStep, ServiceEnabled, RequestService, HasPermission,
       RequestPermission, GetLocation, GetWeather, Step

\* Every step keeps the types.
LEMMA TypeStep == TypeOK /\ [Next]_vars => TypeOK'
<1> SUFFICES ASSUME TypeOK, [Next]_vars PROVE TypeOK'
  OBVIOUS
<1> USE DEF weatherVars, listenVars, pageVars, boundVars
<1>1. CASE WeatherStep
  <2>1. phase' \in Phases
    BY <1>1 DEF WeatherStep, ServiceEnabled, RequestService, HasPermission,
                RequestPermission, GetLocation, GetWeather, Step, Phases
  <2>2. weather' \in Weathers \union {NoWeather}
    BY <1>1 DEF WeatherStep, ServiceEnabled, RequestService, HasPermission,
                RequestPermission, GetLocation, GetWeather, Step, TypeOK
  <2>3. granted' \in BOOLEAN /\ position' \in BOOLEAN
    <3>1. granted \in BOOLEAN /\ position \in BOOLEAN
      BY DEF TypeOK
    <3>2. ASSUME NEW p, HasPermission(p) \/ RequestPermission(p)
          PROVE  granted' \in BOOLEAN /\ position' = position
      <4>1. granted' = (p \in {"granted", "grantedLimited"}) /\ position' = position
        BY <3>2 DEF HasPermission, RequestPermission
      <4>2. (p \in {"granted", "grantedLimited"}) \in BOOLEAN
        OBVIOUS
      <4> QED
        BY <4>1, <4>2, Zenon
    <3>3. CASE ServiceEnabled \/ RequestService \/ GetLocation \/ GetWeather
      BY <3>1, <3>3, Zenon DEF ServiceEnabled, RequestService, GetLocation, GetWeather
    <3> QED
      BY <1>1, <3>1, <3>2, <3>3 DEF WeatherStep
  <2>4. UNCHANGED <<hour, kategorie, weatherRecipes, listenVars, pageVars, boundVars>>
    BY <1>1, WeatherStepAlone
  <2> QED
    BY <2>1, <2>2, <2>3, <2>4 DEF TypeOK
<1>2. CASE Tap
  <2> DEFINE c == Kategorie(hour, weather)
  <2>1. c \in Kategories \union {"nothing", "throws"}
    BY KategorieType DEF TypeOK
  <2>2. CASE c = "throws"
    BY <1>2, <2>2 DEF Tap, TypeOK
  <2>3. CASE c # "throws"
    <3>1. LoadWeatherRecipes(c) /\ pushes' = pushes + 1
          /\ asked' = [hour |-> hour, weather |-> weather, kategorie |-> c]
      BY <1>2, <2>3 DEF Tap
    <3>2. asked' \in Asked
      BY <2>1, <2>3, <3>1 DEF TypeOK, Asked
    <3>3. subs' \in [Kategories -> Nat] /\ calls' \in [Kategories -> Nat]
      <4>1. CASE c = "nothing"
        BY <3>1, <4>1 DEF LoadWeatherRecipes, TypeOK
      <4>2. CASE c # "nothing"
        <5>1. c \in Kategories /\ subs' = Add(subs, c) /\ calls' = Add(calls, c)
          BY <2>1, <2>3, <3>1, <4>2 DEF LoadWeatherRecipes
        <5> QED
          BY <5>1, Counting DEF TypeOK
      <4> QED
        BY <4>1, <4>2
    <3> QED
      BY <1>2, <3>1, <3>2, <3>3 DEF Tap, TypeOK
  <2> QED
    BY <2>2, <2>3
<1>3. ASSUME NEW c \in Kategories, ListenerRuns(c) PROVE TypeOK'
  <2>1. /\ calls' \in [Kategories -> Nat] /\ snaps' \in [Kategories -> Nat]
        /\ due' \in [Kategories -> Nat]
    BY <1>3, Counting DEF ListenerRuns, TypeOK
  <2> QED
    BY <1>3, <2>1 DEF ListenerRuns, TypeOK
<1>4. ASSUME NEW c \in Kategories, SnapshotArrives(c) PROVE TypeOK'
  <2>1. due' \in [Kategories -> Nat]
    BY <1>4, Counting DEF SnapshotArrives, TypeOK
  <2> QED
    BY <1>4, <2>1 DEF SnapshotArrives, TypeOK, Query
<1>5. CASE PushPage
  <2>1. pages' \in Seq(Pages)
    BY <1>5, BuildType DEF PushPage, TypeOK
  <2> QED
    BY <1>5, <2>1 DEF PushPage, TypeOK
<1>6. CASE Rebuild
  <2>1. pages \in Seq(Pages) /\ hour \in Hours
    BY DEF TypeOK
  <2>2. DOMAIN pages = 1 .. Len(pages) /\ Len(pages) \in Nat
        /\ \A i \in 1 .. Len(pages) : pages[i] \in Pages
    BY <2>1
  <2>3. pages' = [i \in 1 .. Len(pages) |->
                    IF pages[i].kind = "error" THEN pages[i] ELSE Build(hour, weather)]
    BY <1>6, <2>2 DEF Rebuild
  <2>4. pages' \in [1 .. Len(pages) -> Pages]
    BY <2>1, <2>2, <2>3, BuildType
  <2>5. pages' \in Seq(Pages)
    BY <2>2, <2>4
  <2> QED
    BY <1>6, <2>5 DEF Rebuild, TypeOK
<1>7. CASE Back
  <2>1. pages' \in Seq(Pages)
    BY <1>7 DEF Back, TypeOK
  <2> QED
    BY <1>7, <2>1 DEF Back, TypeOK
<1>8. ASSUME NEW r \in Recipes, NEW K \in Labels, CollectionChanges(r, K) PROVE TypeOK'
  <2>1. due' \in [Kategories -> Nat]
    BY <1>8 DEF CollectionChanges, TypeOK
  <2> QED
    BY <1>8, <2>1 DEF CollectionChanges, TypeOK
<1>9. CASE UserChanges
  <2>1. calls' \in [Kategories -> Nat]
    BY <1>9 DEF UserChanges, TypeOK
  <2> QED
    BY <1>9, <2>1 DEF UserChanges, TypeOK
<1>10. CASE Tick
  BY <1>10 DEF Tick, TypeOK, Hours
<1>11. CASE UNCHANGED vars
  BY <1>11 DEF vars, TypeOK
<1> QED
  BY <1>1, <1>2, <1>3, <1>4, <1>5, <1>6, <1>7, <1>8, <1>9, <1>10, <1>11
     DEF Next, WeatherStep

-----------------------------------------------------------------------------
(* The list *)

\* A change of one document leaves the result of a query alone unless it adds or
\* takes away the category.
LEMMA QueryChanges ==
    ASSUME NEW r \in Recipes, NEW K \in Labels, TypeOK, NEW c \in Kategories,
           kategorie' = [kategorie EXCEPT ![r] = K],
           c \notin (K \ kategorie[r]) \union (kategorie[r] \ K)
    PROVE  Query(c)' = Query(c)
BY DEF Query, TypeOK

\* Every step keeps what is known of the list and of what is due to it.
LEMMA ListStep == TypeOK /\ ListInv /\ [Next]_vars => ListInv'
<1> SUFFICES ASSUME TypeOK, ListInv, [Next]_vars PROVE ListInv'
  OBVIOUS
<1> USE DEF weatherVars, listenVars, pageVars, boundVars
<1>1. /\ subs \in [Kategories -> Nat] /\ calls \in [Kategories -> Nat]
      /\ snaps \in [Kategories -> Nat] /\ due \in [Kategories -> Nat]
  BY DEF TypeOK
<1>2. ASSUME UNCHANGED <<kategorie, weatherRecipes, subs, calls, snaps, due>> PROVE ListInv'
  BY <1>2 DEF ListInv, Owned, RefreshDue, Listening, Query
<1>3. CASE WeatherStep
  BY <1>2, <1>3, WeatherStepAlone
<1>4. CASE Tap
  <2>1. UNCHANGED <<kategorie, weatherRecipes, snaps, due>>
    BY <1>4 DEF Tap
  <2>2. CASE UNCHANGED <<subs, calls>>
    BY <1>2, <2>1, <2>2
  <2>3. ASSUME NEW c \in Kategories, subs' = Add(subs, c), calls' = Add(calls, c)
        PROVE  ListInv'
    <3>1. calls'[c] > 0 /\ subs'[c] > 0
      BY <1>1, <2>3, Counting
    <3>2. \A d \in Kategories : d # c => calls'[d] = calls[d] /\ subs'[d] = subs[d]
      BY <1>1, <2>3, Counting
    <3>3. Owned'
      BY <2>1, <3>1, <3>2 DEF ListInv, Owned
    <3>4. RefreshDue'
      BY <3>1 DEF RefreshDue
    <3> QED
      BY <2>1, <3>3, <3>4 DEF ListInv, Listening
  <2>4. Kategorie(hour, weather) \in Kategories \union {"nothing", "throws"}
    BY KategorieType DEF TypeOK
  <2> QED
    BY <1>4, <2>2, <2>3, <2>4 DEF Tap, LoadWeatherRecipes
<1>5. ASSUME NEW c \in Kategories, ListenerRuns(c) PROVE ListInv'
  <2>1. calls[c] > 0 /\ calls' = Sub(calls, c) /\ snaps' = Add(snaps, c)
        /\ due' = Add(due, c) /\ UNCHANGED <<kategorie, weatherRecipes, subs>>
    BY <1>5 DEF ListenerRuns
  <2>2. subs[c] > 0 /\ due'[c] > 0 /\ snaps'[c] > 0
    BY <1>1, <2>1, Counting DEF ListInv, Owned
  <2>3. \A d \in Kategories : d # c => calls'[d] = calls[d] /\ snaps'[d] = snaps[d] /\ due'[d] = due[d]
    BY <1>1, <2>1, Counting
  <2>4. Owned'
    BY <2>1, <2>2, <2>3 DEF ListInv, Owned
  <2>5. RefreshDue'
    BY <2>2 DEF RefreshDue
  <2>6. Listening'
    BY <2>2, <2>3 DEF ListInv, Listening
  <2> QED
    BY <2>4, <2>5, <2>6 DEF ListInv
<1>6. ASSUME NEW c \in Kategories, SnapshotArrives(c) PROVE ListInv'
  <2>1. due[c] > 0 /\ due' = Sub(due, c) /\ weatherRecipes' = Query(c)
        /\ UNCHANGED <<kategorie, subs, calls, snaps>>
    BY <1>6 DEF SnapshotArrives
  <2>2. snaps[c] > 0 /\ subs[c] > 0
    BY <2>1 DEF ListInv, Owned, Listening
  <2>3. \A d \in Kategories : d # c => due'[d] = due[d]
    BY <1>1, <2>1, Counting
  <2>4. Owned' /\ Listening'
    BY <2>1, <2>2, <2>3 DEF ListInv, Owned, Listening
  <2>5. RefreshDue'
    BY <2>1, <2>2 DEF RefreshDue, Query
  <2> QED
    BY <2>4, <2>5 DEF ListInv
<1>7. CASE PushPage \/ Rebuild \/ Back \/ Tick
  BY <1>2, <1>7 DEF PushPage, Rebuild, Back, Tick
<1>8. ASSUME NEW r \in Recipes, NEW K \in Labels, CollectionChanges(r, K) PROVE ListInv'
  <2>1. /\ kategorie' = [kategorie EXCEPT ![r] = K]
        /\ UNCHANGED <<weatherRecipes, subs, calls, snaps>>
        /\ \A c \in Kategories :
              due'[c] = IF c \in (K \ kategorie[r]) \union (kategorie[r] \ K)
                        THEN due[c] + snaps[c] ELSE due[c]
    BY <1>8 DEF CollectionChanges
  <2>2. \A c \in Kategories : (due'[c] > 0 => due[c] > 0 \/ snaps[c] > 0)
                            /\ (due[c] > 0 => due'[c] > 0)
    BY <1>1, <2>1
  <2>3. Owned' /\ Listening'
    BY <2>1, <2>2 DEF ListInv, Owned, Listening
  <2>4. ASSUME NEW c \in Kategories, snaps[c] > 0, weatherRecipes = Query(c)
        PROVE  due'[c] > 0 \/ weatherRecipes' = Query(c)'
    <3>1. CASE c \in (K \ kategorie[r]) \union (kategorie[r] \ K)
      BY <1>1, <2>1, <2>4, <3>1
    <3>2. CASE c \notin (K \ kategorie[r]) \union (kategorie[r] \ K)
      BY <2>1, <2>4, <3>2, QueryChanges
    <3> QED
      BY <3>1, <3>2
  <2>5. RefreshDue'
    BY <2>1, <2>2, <2>4 DEF ListInv, RefreshDue
  <2> QED
    BY <2>3, <2>5 DEF ListInv
<1>9. CASE UserChanges
  <2>1. /\ UNCHANGED <<kategorie, weatherRecipes, subs, snaps, due>>
        /\ \A c \in Kategories : calls'[c] = calls[c] + subs[c]
    BY <1>9 DEF UserChanges
  <2>2. \A c \in Kategories : (calls'[c] > 0 => calls[c] > 0 \/ subs[c] > 0)
                            /\ (calls[c] > 0 => calls'[c] > 0)
    BY <1>1, <2>1
  <2> QED
    BY <2>1, <2>2 DEF ListInv, Owned, RefreshDue, Listening, Query
<1>10. CASE UNCHANGED vars
  BY <1>2, <1>10 DEF vars
<1> QED
  BY <1>3, <1>4, <1>5, <1>6, <1>7, <1>8, <1>9, <1>10 DEF Next, WeatherStep

-----------------------------------------------------------------------------
(* The pages *)

\* A page built now is one PagesRight allows, if its tap preceded.
LEMMA BuildRight ==
    ASSUME NEW h \in Hours, NEW w
    PROVE  /\ Build(h, w).kind = "error" => w = NoWeather
           /\ w = NoWeather => Build(h, w).kind = "error"
           /\ w # NoWeather => /\ Build(h, w).kind = "recipes" /\ Build(h, w).hour = h
                               /\ Build(h, w).says = Description(h, w)
BY DEF Build

\* Every step keeps what is known of the pages and of the last tap.
LEMMA PageInvStep == TypeOK /\ PageInv /\ [Next]_vars => PageInv'
<1> SUFFICES ASSUME TypeOK, PageInv, [Next]_vars PROVE PageInv'
  OBVIOUS
<1> USE DEF weatherVars, listenVars, pageVars, boundVars
<1>1. pages \in Seq(Pages) /\ hour \in Hours /\ weather \in Weathers \union {NoWeather}
  BY DEF TypeOK
<1>2. ASSUME UNCHANGED <<phase, weather, pushes, pages, asked>> PROVE PageInv'
  BY <1>2 DEF PageInv, WeatherLast, PagesAsked, AskedRight, PagesRight
<1>3. CASE WeatherStep
  <2>1. UNCHANGED <<pushes, pages, asked>>
    BY <1>3, WeatherStepAlone
  <2>2. CASE UNCHANGED weather
    <3>1. phase' = "done" \/ phase # "done"
      BY <1>3 DEF WeatherStep, ServiceEnabled, RequestService, HasPermission,
                  RequestPermission, GetLocation, GetWeather
    <3>2. WeatherLast'
      BY <2>2, <3>1 DEF PageInv, WeatherLast
    <3> QED
      BY <2>1, <2>2, <3>2 DEF PageInv, PagesAsked, AskedRight, PagesRight
  <2>3. CASE weather' # weather
    <3>1. weather = NoWeather /\ phase' = "done"
      BY <1>3, <2>3 DEF WeatherStep, ServiceEnabled, RequestService, HasPermission,
             RequestPermission, GetLocation, GetWeather, Step, PageInv, WeatherLast
    <3> QED
      BY <2>1, <3>1 DEF PageInv, WeatherLast, PagesAsked, AskedRight, PagesRight
  <2> QED
    BY <2>2, <2>3
<1>4. CASE Tap
  <2>1. pages = <<>> /\ UNCHANGED <<phase, weather, pages>>
    BY <1>4 DEF Tap
  <2>2. CASE Kategorie(hour, weather) = "throws"
    BY <1>2, <1>4, <2>1, <2>2 DEF Tap
  <2>3. CASE Kategorie(hour, weather) # "throws"
    <3>1. asked' = [hour |-> hour, weather |-> weather, kategorie |-> Kategorie(hour, weather)]
      BY <1>4, <2>3 DEF Tap
    <3>2. asked' # <<>>
      BY <3>1
    <3>3. PagesRight'
      BY <2>1 DEF PagesRight
    <3> QED
      BY <2>1, <3>1, <3>2, <3>3 DEF PageInv, WeatherLast, PagesAsked, AskedRight
  <2> QED
    BY <2>2, <2>3
<1>5. CASE PushPage
  <2>1. pushes > 0 /\ pages' = Append(pages, Build(hour, weather))
        /\ UNCHANGED <<phase, weather, asked, hour>>
    BY <1>5 DEF PushPage
  <2>2. asked # <<>>
    BY <2>1 DEF PageInv, PagesAsked
  <2>3. ASSUME NEW i \in DOMAIN pages' PROVE \/ i \in DOMAIN pages /\ pages'[i] = pages[i]
                                             \/ pages'[i] = Build(hour, weather)
    BY <1>1, <2>1
  <2>4. weather = NoWeather => asked.weather = NoWeather
    BY <2>2 DEF PageInv, AskedRight
  <2>5. PagesRight'
    <3> SUFFICES ASSUME NEW i \in DOMAIN pages'
                 PROVE  \/ pages'[i].kind = "error" /\ asked.weather = NoWeather
                        \/ /\ pages'[i].kind = "recipes" /\ weather # NoWeather
                           /\ pages'[i].says = Description(pages'[i].hour, weather)
      BY <2>1 DEF PagesRight
    <3>1. CASE i \in DOMAIN pages /\ pages'[i] = pages[i]
      BY <3>1 DEF PageInv, PagesRight
    <3>2. CASE pages'[i] = Build(hour, weather)
      BY <1>1, <2>4, <3>2, BuildRight
    <3> QED
      BY <2>3, <3>1, <3>2
  <2> QED
    BY <2>1, <2>2, <2>5 DEF PageInv, WeatherLast, PagesAsked, AskedRight
<1>6. CASE Rebuild
  <2>1. /\ pages # <<>> /\ UNCHANGED <<phase, weather, asked, pushes>>
        /\ DOMAIN pages' = DOMAIN pages
        /\ \A i \in DOMAIN pages :
              pages'[i] = IF pages[i].kind = "error" THEN pages[i] ELSE Build(hour, weather)
    BY <1>6 DEF Rebuild
  <2>2. asked # <<>>
    BY <2>1 DEF PageInv, PagesAsked
  <2>3. PagesRight'
    <3> SUFFICES ASSUME NEW i \in DOMAIN pages
                 PROVE  \/ pages'[i].kind = "error" /\ asked.weather = NoWeather
                        \/ /\ pages'[i].kind = "recipes" /\ weather # NoWeather
                           /\ pages'[i].says = Description(pages'[i].hour, weather)
      BY <2>1 DEF PagesRight
    <3>1. CASE pages[i].kind = "error"
      BY <2>1, <3>1 DEF PageInv, PagesRight
    <3>2. CASE pages[i].kind # "error"
      <4>1. weather # NoWeather /\ pages'[i] = Build(hour, weather)
        BY <2>1, <3>2 DEF PageInv, PagesRight
      <4> QED
        BY <1>1, <4>1, BuildRight
    <3> QED
      BY <3>1, <3>2
  <2> QED
    BY <2>1, <2>2, <2>3 DEF PageInv, WeatherLast, PagesAsked, AskedRight
<1>7. CASE Back
  <2>1. pages # <<>> /\ pages' = SubSeq(pages, 1, Len(pages) - 1)
        /\ UNCHANGED <<phase, weather, asked, pushes>>
    BY <1>7 DEF Back
  <2>2. Len(pages) \in Nat /\ Len(pages) > 0 /\ DOMAIN pages = 1 .. Len(pages)
    BY <1>1, <2>1
  <2>3. ASSUME NEW i \in DOMAIN pages' PROVE i \in DOMAIN pages /\ pages'[i] = pages[i]
    BY <1>1, <2>1, <2>2
  <2>4. PagesRight'
    BY <2>1, <2>3 DEF PageInv, PagesRight
  <2>5. asked # <<>>
    BY <2>1 DEF PageInv, PagesAsked
  <2> QED
    BY <2>1, <2>4, <2>5 DEF PageInv, WeatherLast, PagesAsked, AskedRight
<1>8. CASE Tick \/ UserChanges
  BY <1>2, <1>8 DEF Tick, UserChanges
<1>9. ASSUME NEW c \in Kategories, ListenerRuns(c) \/ SnapshotArrives(c) PROVE PageInv'
  BY <1>2, <1>9 DEF ListenerRuns, SnapshotArrives
<1>10. ASSUME NEW r \in Recipes, NEW K \in Labels, CollectionChanges(r, K) PROVE PageInv'
  BY <1>2, <1>10 DEF CollectionChanges
<1>11. CASE UNCHANGED vars
  BY <1>2, <1>11 DEF vars
<1> QED
  BY <1>3, <1>4, <1>5, <1>6, <1>7, <1>8, <1>9, <1>10, <1>11 DEF Next, WeatherStep

-----------------------------------------------------------------------------
(* Theorems *)

\* The invariant holds always.
LEMMA InvAlways == Spec => []Inv
<1>1. Inv /\ [Next]_vars => Inv'
  BY TypeStep, ListStep, PageInvStep DEF Inv
<1> QED
  BY <1>1, InvInit, PTL DEF Spec

\* The list, once nothing is outstanding, is the present result of one query that
\* was asked for.
LEMMA InvGivesList == Inv => SettledListIsAQuery
<1> SUFFICES ASSUME Inv, Settled, NEW d \in Kategories, subs[d] > 0
             PROVE  \E c \in Kategories : subs[c] > 0 /\ weatherRecipes = Query(c)
  BY DEF SettledListIsAQuery
<1>1. \A c \in Kategories : ~(calls[c] > 0) /\ ~(due[c] > 0)
  BY DEF Settled
<1>2. PICK c \in Kategories : snaps[c] > 0 /\ weatherRecipes = Query(c)
  BY <1>1 DEF Inv, ListInv, RefreshDue
<1>3. subs[c] > 0
  BY <1>2 DEF Inv, ListInv, Owned
<1> QED
  BY <1>2, <1>3

\* Where the tables of hours agree, the page speaks of what was loaded.
LEMMA InvGivesText == Inv => TextFitsList
<1> SUFFICES ASSUME Inv, NEW i \in DOMAIN pages,
                    pages[i].kind = "recipes", pages[i].hour = asked.hour,
                    pages[i].hour \notin (4 .. 6) \union (11 .. 15) \union (17 .. 20)
             PROVE  pages[i].says = asked.kategorie
  BY DEF TextFitsList
<1>1. pages # <<>> /\ asked # <<>>
  BY DEF Inv, PageInv, PagesAsked
<1>2. asked \in Asked
  BY <1>1 DEF Inv, TypeOK
<1>3. asked.hour \in Hours /\ asked.kategorie # "throws"
  BY <1>2, NoKategorie DEF Asked
<1>4. pages[i].says = Description(asked.hour, weather)
  BY DEF Inv, PageInv, PagesRight
<1>5. /\ asked.weather = NoWeather \/ asked.weather = weather
      /\ asked.kategorie = Kategorie(asked.hour, asked.weather)
  BY <1>1 DEF Inv, PageInv, AskedRight
<1> QED
  BY <1>3, <1>4, <1>5, TablesAgree

\* Every reachable state has its type.
THEOREM TypeCorrect == Spec => []TypeOK
BY InvAlways, PTL DEF Inv

\* However many listeners of however many categories write to the list, it never
\* settles on anything but the present result of one query asked for.
THEOREM ListSettles == Spec => []SettledListIsAQuery
BY InvAlways, InvGivesList, PTL

\* A page shows an error only if the weather was unknown at its tap.
THEOREM ErrorsAreExplained == Spec => []ErrorOnlyWithoutWeather
<1>1. Inv => ErrorOnlyWithoutWeather
  BY DEF Inv, PageInv, PagesRight, ErrorOnlyWithoutWeather
<1> QED
  BY <1>1, InvAlways, PTL

\* The text of the page speaks of what was loaded, for all hours at which the two
\* tables agree.
THEOREM TextFits == Spec => []TextFitsList
BY InvAlways, InvGivesText, PTL

-----------------------------------------------------------------------------
(***************************************************************************)
(* WeatherRecipe implements CatchUp.  Owned makes every snapshot one of a  *)
(* category that was asked for; Served makes every change of the result of *)
(* such a query come with one.                                             *)
(***************************************************************************)
\* The results of the queries are sets of recipes.
LEMMA QueryType ==
    /\ [c \in Kategories |-> Query(c)] \in [Kategories -> SUBSET Recipes]
    /\ [c \in Kategories |-> Query(c)]' \in [Kategories -> SUBSET Recipes]
BY DEF Query

\* A category that was asked for is listened to, or will be.
Served == \A c \in Kategories : subs[c] > 0 => calls[c] > 0 \/ snaps[c] > 0

\* That holds always: a listener's run is used up by installing a snapshot listener.
LEMMA ServedAlways == Spec => []Served
<1>1. Init => Served
  BY DEF Init, None, Served
<1>2. TypeOK /\ Served /\ [Next]_vars => Served'
  <2> SUFFICES ASSUME TypeOK, Served, [Next]_vars PROVE Served'
    OBVIOUS
  <2> USE DEF weatherVars, listenVars, pageVars, boundVars
  <2>1. /\ subs \in [Kategories -> Nat] /\ calls \in [Kategories -> Nat]
        /\ snaps \in [Kategories -> Nat] /\ due \in [Kategories -> Nat]
    BY DEF TypeOK
  <2>2. CASE UNCHANGED <<subs, calls, snaps>>
    BY <2>2 DEF Served
  <2>3. CASE WeatherStep
    BY <2>2, <2>3, WeatherStepAlone
  <2>4. CASE Tap
    <3>1. Kategorie(hour, weather) \in Kategories \union {"nothing", "throws"}
      BY KategorieType DEF TypeOK
    <3>2. ASSUME NEW c \in Kategories, subs' = Add(subs, c), calls' = Add(calls, c),
                 UNCHANGED snaps
          PROVE  Served'
      <4>1. \A d \in Kategories : d # c => subs'[d] = subs[d] /\ calls'[d] = calls[d]
        BY <2>1, <3>2, Counting
      <4>2. calls'[c] > 0
        BY <2>1, <3>2, Counting
      <4> QED
        BY <3>2, <4>1, <4>2 DEF Served
    <3> QED
      BY <2>2, <2>4, <3>1, <3>2 DEF Tap, LoadWeatherRecipes
  <2>5. ASSUME NEW c \in Kategories, ListenerRuns(c) PROVE Served'
    <3>1. calls' = Sub(calls, c) /\ snaps' = Add(snaps, c) /\ UNCHANGED subs /\ calls[c] > 0
      BY <2>5 DEF ListenerRuns
    <3>2. snaps'[c] > 0
      BY <2>1, <3>1, Counting
    <3>3. \A d \in Kategories : d # c => calls'[d] = calls[d] /\ snaps'[d] = snaps[d]
      BY <2>1, <3>1, Counting
    <3> QED
      BY <3>1, <3>2, <3>3 DEF Served
  <2>6. CASE UserChanges
    <3>1. UNCHANGED <<subs, snaps>> /\ \A c \in Kategories : calls'[c] = calls[c] + subs[c]
      BY <2>6 DEF UserChanges
    <3> QED
      BY <2>1, <3>1 DEF Served
  <2> QED
    BY <2>2, <2>3, <2>4, <2>5, <2>6
       DEF Next, vars, WeatherStep, SnapshotArrives, PushPage, Rebuild, Back,
           CollectionChanges, Tick
<1> QED
  BY <1>1, <1>2, TypeCorrect, PTL DEF Spec

\* The first state is one of CatchUp's.
LEMMA CopyInit == Init => Copy!Init
<1> SUFFICES ASSUME Init PROVE Copy!Init
  OBVIOUS
<1>1. ~(Settled /\ \E c \in Kategories : subs[c] > 0)
  BY DEF Init, None
<1>2. weatherRecipes = {}
  BY DEF Init
<1> QED
  BY <1>1, <1>2, QueryType DEF Copy!Init

\* A step that leaves the list alone and a snapshot to come disturbs at most.
LEMMA CopyDisturb ==
    ASSUME NEW c \in Kategories, calls'[c] > 0 \/ due'[c] > 0, UNCHANGED weatherRecipes
    PROVE  Copy!Next
<1>1. ~Settled'
  BY DEF Settled
<1> QED
  BY <1>1, QueryType DEF Copy!Next, Copy!Disturb

\* Every step is one of CatchUp's, or none.
LEMMA CopyNext == Inv /\ Served /\ [Next]_vars => [Copy!Next]_(Copy!vars)
<1> SUFFICES ASSUME Inv, Served, [Next]_vars PROVE Copy!Next \/ UNCHANGED Copy!vars
  OBVIOUS
<1> USE DEF weatherVars, listenVars, pageVars, boundVars
<1>1. /\ subs \in [Kategories -> Nat] /\ calls \in [Kategories -> Nat]
      /\ snaps \in [Kategories -> Nat] /\ due \in [Kategories -> Nat]
  BY DEF Inv, TypeOK
<1>2. ASSUME UNCHANGED <<kategorie, weatherRecipes, subs, calls, due>>
      PROVE  UNCHANGED Copy!vars
  BY <1>2 DEF Copy!vars, Settled, Query
<1>3. CASE WeatherStep
  BY <1>2, <1>3, WeatherStepAlone
<1>4. CASE Tap
  <2>1. UNCHANGED <<kategorie, weatherRecipes, due>>
    BY <1>4 DEF Tap
  <2>2. CASE UNCHANGED <<subs, calls>>
    BY <1>2, <2>1, <2>2
  <2>3. ASSUME NEW c \in Kategories, calls' = Add(calls, c)
        PROVE  Copy!Next
    <3>1. calls'[c] > 0
      BY <1>1, <2>3, Counting
    <3> QED
      BY <2>1, <3>1, CopyDisturb
  <2>4. Kategorie(hour, weather) \in Kategories \union {"nothing", "throws"}
    BY KategorieType DEF Inv, TypeOK
  <2> QED
    BY <1>4, <2>2, <2>3, <2>4 DEF Tap, LoadWeatherRecipes
<1>5. ASSUME NEW c \in Kategories, ListenerRuns(c) PROVE Copy!Next
  <2>1. due'[c] > 0 /\ UNCHANGED weatherRecipes
    BY <1>1, <1>5, Counting DEF ListenerRuns
  <2> QED
    BY <2>1, CopyDisturb
<1>6. ASSUME NEW c \in Kategories, SnapshotArrives(c) PROVE Copy!Next
  <2>1. due[c] > 0 /\ weatherRecipes' = Query(c) /\ UNCHANGED <<kategorie, subs>>
    BY <1>6 DEF SnapshotArrives
  <2>2. subs[c] > 0
    BY <2>1 DEF Inv, ListInv, Owned, Listening
  <2>3. ~Settled
    BY <1>1, <2>1 DEF Settled
  <2>4. [d \in Kategories |-> Query(d)]' = [d \in Kategories |-> Query(d)]
    BY <2>1 DEF Query
  <2>5. {d \in Kategories : subs[d] > 0}' = {d \in Kategories : subs[d] > 0}
    BY <2>1
  <2>6. Copy!Refresh(c)
    BY <2>1, <2>2, <2>3, <2>4, <2>5 DEF Copy!Refresh
  <2> QED
    BY <2>2, <2>6 DEF Copy!Next
<1>7. CASE PushPage \/ Rebuild \/ Back \/ Tick
  BY <1>2, <1>7 DEF PushPage, Rebuild, Back, Tick
<1>8. ASSUME NEW r \in Recipes, NEW K \in Labels, CollectionChanges(r, K)
      PROVE  Copy!Next \/ UNCHANGED Copy!vars
  <2>1. /\ kategorie' = [kategorie EXCEPT ![r] = K]
        /\ UNCHANGED <<weatherRecipes, subs, calls, snaps>>
        /\ \A c \in Kategories :
              due'[c] = IF c \in (K \ kategorie[r]) \union (kategorie[r] \ K)
                        THEN due[c] + snaps[c] ELSE due[c]
    BY <1>8 DEF CollectionChanges
  <2>2. CASE \E c \in Kategories : calls'[c] > 0 \/ due'[c] > 0
    BY <2>1, <2>2, CopyDisturb
  <2>3. CASE \A c \in Kategories : ~(calls'[c] > 0) /\ ~(due'[c] > 0)
    <3>1. \A c \in Kategories : calls'[c] = 0 /\ calls[c] = 0 /\ due'[c] = 0 /\ due[c] = 0
      BY <1>1, <2>1, <2>3
    <3>2. Settled /\ Settled'
      BY <3>1 DEF Settled
    <3>3. ASSUME NEW c \in Kategories, subs[c] > 0
          PROVE  Query(c)' = Query(c)
      <4>1. snaps[c] > 0
        BY <3>1, <3>3 DEF Served
      <4>2. c \notin (K \ kategorie[r]) \union (kategorie[r] \ K)
        BY <1>1, <2>1, <3>1, <4>1
      <4> QED
        BY <2>1, <4>2, QueryChanges DEF Inv
    <3>4. Copy!Elsewhere
      BY <2>1, <3>2, <3>3, QueryType DEF Copy!Elsewhere
    <3> QED
      BY <3>4 DEF Copy!Next
  <2> QED
    BY <2>2, <2>3
<1>9. CASE UserChanges
  <2>1. /\ UNCHANGED <<kategorie, weatherRecipes, subs, due>>
        /\ calls' = [c \in Kategories |-> calls[c] + subs[c]]
    BY <1>9 DEF UserChanges
  <2>2. CASE \E c \in Kategories : calls'[c] > 0
    BY <2>1, <2>2, CopyDisturb
  <2>3. CASE \A c \in Kategories : ~(calls'[c] > 0)
    <3>1. calls' = calls
      BY <1>1, <2>1, <2>3
    <3> QED
      BY <1>2, <2>1, <3>1
  <2> QED
    BY <2>2, <2>3
<1>10. CASE UNCHANGED vars
  BY <1>2, <1>10 DEF vars
<1> QED
  BY <1>3, <1>4, <1>5, <1>6, <1>7, <1>8, <1>9, <1>10 DEF Next, WeatherStep

\* The recommendation keeps the promise of CatchUp, however many listeners of
\* however many categories write to the one list.
THEOREM RecommendationCatchesUp == Spec => ListCatchesUp
BY CopyInit, CopyNext, InvAlways, ServedAlways, PTL DEF Spec, ListCatchesUp, Copy!Spec
=============================================================================
