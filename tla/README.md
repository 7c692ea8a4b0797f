# Uana: a verification project

Uana is a Flutter application: a community cookbook, the user's fridge with
expiry alarms, and recommendations by weather and time of day.  Its own code is
`src/uana_project/lib` (about 6,200 lines of Dart); everything else in the
repository is vendored (`ios/Pods`), generated (`build`, `.dart_tool`, plugin
registrants) or platform scaffolding.  There is no server code: all clients
share Cloud Firestore, Firebase Auth and Firebase Storage.

Paths below are relative to `src/uana_project/lib`.

## Inventory

| Part | State it keeps | Operations | Hard behaviour |
|---|---|---|---|
| **RefrigeratorProvider** `provider/refrigerator_provider.dart` | `_foodInformation`, `_userfoodInformation`, one more `userChanges` listener per `downloadUserFoods` | `init`, `downloadFoods`, `downloadUserFoods`, `uploadUserFoods`, `deleteUserFood` | listeners are never cancelled; gets of different documents complete in any order; `currentUser!` throws when signed out; the list is replaced without `notifyListeners` |
| **NotificationProvider** `provider/notification_provider.dart` | pending notifications at the OS, keyed by `foodCode` | `init`, `configureLocalTimeZone`, `expiredNotification`, `cancelNotification` | one slot per food code, device wide, not per user; day arithmetic with truncation; use before `tz.local` is set |
| **Fridge pages** `refrigerator/*.dart` | form (`isSelected`, `_selectedTime`), the food passed to the detail page, `toSearch` | register, delete, toggle, pick a date, open pages | handlers start three asynchronous operations without awaiting any |
| **RecipeProvider** `provider/recipe_provider.dart` | `_recipeInformation`, `_popularRecipes` (the same list object after a sort), `_favoriteRecipes`, `_myRecipes`, `_weatherRecipes`; snapshot listeners | `loadRecipes`, `sortRecipesByLike`, `loadWeatherRecipes`, `updateLike` (not called) | listeners accumulate; the sort runs before the snapshot it is meant for; sorting in place reorders the aliased list; `currentUser!` throws in the middle of a rebuild |
| **Recipe detail** `recipe/recipe_detail.dart` | `_counter`, `_a` (created anew by every build), the `RecipeInfo` it was opened with, the cooking timer | like, unlike, delete, timer | read-modify-write of `like` against atomic `arrayUnion` of `likeusers`; counter reset by a rebuild; delayed `Navigator.pop` |
| **Recipe creation** `recipe/recipe_create.dart` | form, `count`, `_forimage`, images | edit, save (up to seven uploads, then one document) | fields read after awaits; page popped after one second whatever happened; signed-in user may change on the way |
| **LoginProvider** `provider/login_provider.dart`, `login.dart` | `_userInformation`, `_userName` | Google and anonymous sign-in, sign-out, `addUserInfo`, `downloadUserInfo` ... | profile read races the creation of the profile document; errors swallowed; pages are pushed after an await, from a page that may be gone |
| **WeatherProvider** and recommendation `provider/weather_provider.dart`, `homepage/weather_recipe.dart` | position, permission, `_weather` | `init`, `getPosition`, `getWeather`, `printWeatherDescription` | early returns leave null that is forced later; two different tables of hours |
| **Search from the fridge** `search/search_from_refri.dart` | none | filter | pure |
| **Profile** `profile/*.dart` | tab | list favourites and own recipes, log out | own recipes hidden when there are no favourites |
| **CSV import** `other/*.dart` | none | developer tool that fills `food` | sequential writes |
| **Navigation** `main.dart`, `recipe/app.dart`, `home.dart` | route stack | push, pop, delayed pop | delayed pops hit whatever page is on top |

The parts meet in four places: Firebase Auth's `currentUser` and its
`userChanges` stream, which every provider reads at its own moment; Firestore's
local view, to which every write applies before the call returns; the
providers' lists, which pages read whenever they are built; and the route stack,
on which handlers push and pop, some of them after a delay.  Dart runs one
callback at a time, so an action of a module is one callback, from its start (or
from the `await` it resumes at) to its next `await` or its end.  What the code
starts without awaiting it is a separate action that may run at any later time.

## Modules

| Module | Models | Theorems |
|---|---|---|
| `Refrigerator` | fridge list, pages, alarm slots, users, restart | `Refrigerator_proofs` |
| `ExpiryAlarm` | form, dates, instant of the notification | `ExpiryAlarm_proofs` |
| `RecipeFeed` | recipe, popular, favourite and own lists | `RecipeFeed_proofs` |
| `RecipeLikes` | the star: one document, one client per user | `RecipeLikes_proofs` |
| `RecipeCreate` | the form, Save and its uploads, the delayed pop | `RecipeCreate_proofs` |
| `WeatherRecipe` | weather, recommendation button, its list and page | `WeatherRecipe_proofs` |
| `Session` | sign-in, documents and profile of LoginProvider; the route stack with everything that pushes or pops late | `Session_proofs` |
| `CatchUp` | no code: the abstract list that catches up with its source, which the fridge, the feed and the recommendation implement | `CatchUp_proofs` |
| `Publishing` | no code: what the saves of the create page promise, which `RecipeCreate` implements | (the refinement is in `RecipeCreate_proofs`) |

Each module of code has an `MC...` module with values for TLC.  A definition keeps the name of
the function it models; `PROJECT.json` gives its lines.  Definitions marked
"Mutant" are what a plausible mistake would make of the definition that follows
them; no specification uses them.

### Refrigerator

*State.*  `currentUser`; the page on top and its argument (`addFood`,
`detailFood`); the documents (`hasDoc`, `fridge`); the provider
(`foodInformation`, `userfoodInformation`) and what the page last built of it
(`shown`); listeners of `downloadUserFoods` (`subs`), their runs to come
(`calls`) and gets in flight per document (`gets`); notifications the system
holds under each id (`alarm`).  `accounts`, `unsaved`, `registered`, `rang` and
`muted` are history: no action looks at them, only the properties do.

*Actions.*  `ListenerRuns` is the callback of `userChanges().listen`,
`GetCompletes(u)` what follows its `await`.  `Register` and `Delete` are the
whole handlers of the two buttons: write, alarm, `downloadUserFoods`, pop.
`currentUser!` throws when nobody is signed in, which ends a listener's run or
an upload but not the handler that started it.  `Restart` ends the process:
documents, session and pending notifications survive, everything else is gone.

*Properties.*  `SettledListIsAFridge`, `NoAlarmForDeletedFood`, `NoLostFood`,
`ListCatchesUp` (see CatchUp), and `ListConverges` under fairness.
`FoodKeepsItsAlarm` says exactly when a food in a fridge may be without its alarm:
a second food of its code was registered, the notification service was not ready
at the registration, or somebody else, whose detail page still showed the food,
tapped Delete.  `PendingAlarmSurvives`, which a run refutes, is the same without
the exceptions.  `NoAlarmForDeletedFood` admits the alarm of a registration nobody was
signed in for (`unsaved`): the code schedules it, and the property says that an alarm
without a food comes about in no other way.

*Reads.*  A get, like a snapshot in the other modules, delivers the content of the
moment it completes.  Firestore answers from its local view, to which writes of this
client apply when they are issued; an answer made before such a write and delivered
after it is not told apart from one made after it.  In the fridge every write is
followed by a listener's run and a get of its own, and answers about one document come
in the order they were made, so an older answer would be replaced by the newer one; a
snapshot listener is called again after every change.  What the abstraction gives up is
the content of the list in between, about which no property speaks while something is
outstanding.

### ExpiryAlarm

One food from form to notification, with a clock of `Day` ticks a day.  `InDays`
is Dart's `Duration.inDays` (truncation towards zero), `Delay` the computation
of `expiredNotification`; the plugin refuses an instant that is not in the
future, so a delay of zero or less would leave the food without an alarm.
`DateTime.now()` at the registration has a time of day, a picked date has none:
that, the truncation and the limit of seven days are where an error by a day
would hide.  The text of the notification says that a week or less is left; with the
time of day cut off it is delivered with up to almost eight days left.
`AlarmAtMostADayEarly` states that bound exactly, in ticks and not in the whole days
the program counts, `AWeekOfNotice` the bound on the other side.  `StorageType` is the chain of conditions as it is executed.

### RecipeFeed

`_popularRecipes = _recipeInformation` makes two names of one list, which is then
sorted in place; so there are two list objects (`lists`) and two references
(`info`, `popular`).  `ListenerRuns` installs a snapshot listener and sorts what
is there by then; `SnapshotArrives` rebuilds the lists for the user who is signed
in at that moment and stops after the first document if there is none.  Writes of
all clients are `CollectionChanges`.  The number of snapshot listeners is kept
only as "none or some": further ones repeat what the first does.

`PopularIsCurrent`, which a run refutes, is what the sort is there for.
`PopularAfterReload` is what is left of it: a listener that runs while no snapshot is on
its way sorts the collection as it is.  So the popular page is right after the next call
of `loadRecipes` (leaving a detail page is enough), unless something changed meanwhile
or the last rebuild was made for nobody.

### RecipeLikes

Every client has its page (`recipe`, `counter`, `star`), its provider's copy
(`cached`, the same object as `recipe` while in `shared`) and a queue of updates
(`pending`).  An update carries `like` as a value and `likeusers` as
`arrayUnion` or `arrayRemove`.  `Rebuild` makes `_counter` anew, `Frame` is the
frame after a tap, `Commit` the arrival at the server, which ignores an update of
a document that is gone.

`wants`, `freshCache`, `freshPage`, `freshCounter` and `blind` are history.  A tap makes
all copies of `like` stale but for the counter it was made with; a copy is fresh again
when it is made of a fresh one, the provider's when a snapshot arrives while no other
client's update is on its way.  `blind` records that a tap was made with a stale counter,
or on a star not drawn since the last tap.  `LikersFollowLastTap` needs none of this:
`arrayUnion` and `arrayRemove` are right however stale the page.  `LikeCountsLikers` is
what holds of the number: it equals the length of `likeusers` as long as nobody tapped
blindly.  That is the exact price of writing `like` as a value (two clients at once, a
rebuild after a tap, two taps in one frame).

### RecipeCreate

One visit of the page.  A save captures the images, runs up to its first upload
within the handler and is then resumed by `UploadDone` or ended by
`UploadFails`; `Continue` is the chain of seven conditions of
`_uploadImageToStorage` from one `await` to the next.  The URLs are fields of the
page, common to all saves.  The document is made of the fields, the boxes and
the user at the end.  `DelayedPop` is the callback a second after the tap, which
pops whatever is on top; while the page is still leaving this is the page below.

`disturbed` is history: the saves during whose uploads the form was edited, another
save began or ran, or the account changed.  The others publish what was validated,
for the user who opened the page, with exactly the images of the tap
(`UndisturbedSave`; not the validator of the other ingredients, which is asked only
while their field is unfolded); that is what is left of `PublishedIsValid`, which a run
refutes.  What holds of all saves, disturbed or not, is `Publishing`.

### WeatherRecipe

`WeatherProvider.init` with every early return (service off, permission refused,
no location, no answer), the button with its lookup `Kategorie` by hour and
weather, the listeners it leaves, the page pushed a tenth of a second later, and the
text it shows (`Description`, a second table of hours).  Categories are named in
English.  The queries (`Kategories`) and the labels the form of a recipe stores
(`FormKategories`) are different sets: the query for rain is not among the labels.  The
hours 4 to 6, which load nothing, and a null weather, which throws, are
results of the tables like the others.

### Session

*State.*  LoginProvider: `currentUser`, the `user` documents (`docs`), the profile
(`userInformation`), and the gets in flight of `addUserInfo` (`checks`) and of
the downloads (`reads`).  Navigation: routes are numbered as they are pushed;
`stack` holds those on the navigator, `leaving` those popped whose transition
still runs, `page` and `tab` what they show.  `tasks` counts the handlers that
wait behind an `await` or a `Future.delayed`, by kind and by the route whose
context they hold.  `accounts`, `known`, `dropped`, `hurried`, `taken` and
`astray` are history.

*Contexts.*  Every handler that waits goes on with the `BuildContext` of the page
it was tapped on.  While that page is on the stack or in its transition,
`Navigator.of(context)` finds the navigator and acts on whatever is on top;
afterwards it throws (all pages are `StatefulWidget`s, whose context is unmounted
then; a tab that is left is disposed of as well).  `Dismissed` and `SwitchTab`
take the contexts away: calls of LoginProvider still come to their end, under
`Gone`, but push nothing.

*Actions.*  `Tap...`, `Save` and `ConfirmDelete` are handlers up to the point where
they wait; `GoogleDone`, `GuestDone`, `SignOutDone`, `WeatherDue` and `PopDue` are
what they go on with; the `...Fails` are their exceptions: rethrown and caught by
the page (Google), swallowed so that the page goes home all the same (guest),
uncaught (sign-out).  `CheckDone` and `ReadDone` are the callbacks of the two
gets; `GetFails` is a get that fails, which nobody catches.  Pages that keep no
handler waiting (fridge, lists of recipes, calendar, edit page) are one page,
`lists`.  `Restart` keeps `currentUser` and the documents.

*Properties.*  Documents are made for whoever signed in (`AccountHasDoc`); once the
downloads are through there is a profile if any user had a document at the
sign-in (`SettledProfile`), and with one user only it is that user's
(`ProfileArrives`, under fairness); the page of a deleted recipe does not stay
(`DeletedPageGoes`); and a delayed pop takes a page below its own only if the
user did not wait for it (`BelowLostOnlyInHurry`).

### CatchUp, and what implements it

`CatchUp` is what a cached list promises: every key has a `source`, some keys were
`asked` for, the `list` changes only by becoming, as a whole, the present content
of one of those, or by being lost at a restart, and no source asked for changes,
and no other key is asked for, without an answer being `due` afterwards.  It
follows that with nothing due the list is current (`CatchUpCurrent`).

| Module | Key | Source | List | Due |
|---|---|---|---|---|
| `Refrigerator` | user | the fridges | `userfoodInformation` | a listener's run or a get is outstanding, or nobody is signed in |
| `RecipeFeed` | user, or nobody | what a rebuild for that user makes of the collection | recipe, favourite and own list together | a listener's run or a snapshot is outstanding |
| `WeatherRecipe` | category | the result of its query | `weatherRecipes` | a listener's run or a snapshot is outstanding |

The refinement is a property of the three runs (`ListCatchesUp`,
`ListsCatchUp`) and a theorem of the three proof modules.

### Publishing

The contract of the create page, in terms of saves, the files each is `given`, the
files `stored`, and the document each leaves (`doc`, and the files it `refers` to):
a save is given its files when it begins, ends at most once and for good; files are
only added, out of those given to a save under way; a document appears in the step
that ends its save, when all its files are stored, refers to stored files only and
never changes.  `RecipeCreate` implements it (`SavesPublish`) with the slot and the
image as the file; typing, ticking boxes, timers, pages and users are stutters.

## Runs

Five of the seven passing runs check the type invariant with the properties named.  The
types of `RecipeFeed` and `RecipeLikes` are proved only: no mistake one could make in
that code breaks them.
`UploadsPrecedeDocument` and `SettledListIsAQuery` are proved, and no run repeats
them: they are part of what the refinements `SavesPublish` and `ListCatchesUp` say.

| Run | Bounds | Shows |
|---|---|---|
| `fridge` | 2 users, 1 food code, 2 registrations, 2 listeners, 2 queued runs, 1 get per document | the settled list is the present fridge of one account, alarms follow deletions, a food alone with its code keeps its alarm, no food is lost or invented, what stays registered or deleted shows up |
| `expiry_alarm` | 3 ticks a day, picker dates from day -1 to day 9, registration up to tick 4 | no food without alarm, the text is early by less than a day, a week of notice, detail page agrees, alarms arrive |
| `recipe_feed` | 2 users, 2 recipes, 1 change, 2 listeners, 2 queued runs, 2 snapshots on their way | settled lists are those of the present user and collection, popular is sorted at every instant, favourites and own recipes are always among the recipes known, lists converge, a reload makes the popular list current |
| `recipe_likes` | 2 users, 3 taps, 2 updates waiting | `likeusers` follows the last tap, `like` counts the likers unless somebody tapped blindly, a lasting like arrives |
| `recipe_create` | 2 users, 2 steps, 2 files, 4 edits, 2 saves | images of published recipes are sound, uploads precede the document, steps shown are those up to the counter, undisturbed saves publish what was validated, saves are as `Publishing` says, saves end |
| `weather_recipe` | 1 recipe with 3 possible labels, 2 taps, starting hours 6, 11, 15 and 20, two weathers, 1 change each of collection, user and hour | the list settles on one query, errors are explained by the tap, the text fits, the list arrives |
| `session` | 1 Google account, 1 guest; three budgets: 6 pages pushed and 1 handler kind waiting, 5 pages and 2 kinds, 4 pages with 1 kind and 1 get of each sort per user; at most 2 handlers of one kind on a page | documents, profile, deleted pages and delayed pops as above |

Why these bounds are enough.  Two users are needed for one to take over from the
other, and no action looks at a third.  Two listeners, or two gets, already
complete in either order; all listeners run the same code on the same lists.
One food code makes two foods collide in a slot; the first of them is alone with
its code until the second comes, which is where `FoodKeepsItsAlarm` says something
(several codes, and several foods under each, are in the proof).  Three ticks to a day give a registration at midnight,
in the middle and at the end of a day, and the picked dates reach from expired
over seven to more than eight days, the places where `inDays` and the limit of
seven switch.  Two steps give a slot before, at and after an upload.  The
starting hours of `weather_recipe` sit on both sides of the tables' bounds, and
one more hour passes.  In `session`, six pages are two logins, home, a
list, a detail page and a dialog or player over it; two kinds of handlers give two
delayed pops of different pages, and a restart leads back to any number of
sign-ins.  The budgets exclude one another because long walks and many sign-ins
together make a run with liveness too long; safety with six pages and two waiting
handlers was explored to 3.6 million states without a violation, and is
covered by the proofs.  The proofs drop these bounds for the safety properties.

The runs that end in a violation each show a disagreement between the program and
something the repository says of it:

| Run | The code | What the repository says |
|---|---|---|
| `fridge_late_get` | the get of the user who left may complete last; the list then stays that user's | "only the foods registered in the user's fridge" |
| `fridge_shared_alarm` | the notification's id is the food code: a second food of that code replaces the first one's alarm, and deleting either cancels the other's | "register an alarm one week before expiry" |
| `feed_popular` | the sort runs before the snapshot it is meant for, and nothing sorts afterwards | "sort the popular recipes", "sorting done" |
| `likes_rebuild` | a rebuild resets the counter but not the list, so one tap moves `like` by two or not at all, down to -1 | "like +1", "like -1" |
| `create_validation` | fields are validated at the tap and read after the uploads | "please enter a name", "at least one step has to be added" |

Other things the models make visible, without a run of their own:

- the second `if` of the storage buttons has an `else` of its own
  (`refrigerator/add_refrigerator_detail.dart:186`), so a food with the default
  button, refrigerated, down is stored as kept at room temperature
  (`StorageType` of `ExpiryAlarm`);
- the notification says "일주일 이하" (a week or less,
  `provider/notification_provider.dart:52`) with up to almost eight days left, since
  the days are cut to whole ones at the registration (`AlarmAtMostADayEarly`);
- when it rains the recommendation asks for the label '튀김, 전'
  (`provider/recipe_provider.dart:234`), while the form stores '튀김'
  (`recipe/recipe_create.dart:71`): no recipe made with the form is ever found;
- on a first Google sign-in the profile may be read before `addUserInfo` has
  written it; `data()!` then throws, nobody reads again, and the profile of the
  user before stays, or there is none.  Without one the build of the profile page
  throws, and with it goes the logout button;
- `downloadUserInfo` notifies when the get is issued, not when it is through, so
  the page shows the new profile only at its next build;
- a deletion's delayed pop takes the player if the user has opened it within the
  second, and the page of the deleted recipe stays; if the user leaves the page
  within the second, or confirms twice, it takes the page below;
- Delete, tapped on a detail page that still shows the food of the user before,
  cancels that food's alarm and removes nothing from any fridge: `arrayRemove`
  goes to the present user's document, the cancellation to the code
  (`refrigerator/refrigerator_detail.dart:54`);
- the owner of a recipe is whoever is signed in when the last upload ends, while the
  files lie under the user who opened the page;
- a registration attempted by nobody leaves an alarm without a food;
- at 11 to 15 and 17 to 20 o'clock the page speaks of a meal whatever the weather
  made it load, and between 4 and 6 nothing is loaded at all; without a location
  the page of the recommendation shows an error for as long as the app runs.

## Fairness

- Dart's event loop runs what is queued: `ListenerRuns`, `SnapshotArrives` and
  the lazy creation of the provider (`ProviderInit`) are weakly fair.
- A get completes: Firestore answers from its cache when the network does not
  (`GetCompletes`).
- Timers expire (`DelayedPop`) and an upload ends in one way or another: success
  *or* failure is fair, neither of them alone.
- An update that waits reaches the server (`Commit`): Firestore sends the queue
  again when the network returns.
- A download of a profile is answered or fails (`ReadDone` of `Session`; weak
  fairness is satisfied by the failure, which takes the get away).
- Time passes and the system delivers a notification that is due
  (`Tick`, `AlarmRings` of `ExpiryAlarm`).

Nothing is assumed of the user: no tap, sign-in or deletion is ever fair.  The
liveness properties speak of what stays: if a food stays in the fridge, or a
like is not taken back, it shows up for good.

Deadlock is checked everywhere but in `WeatherRecipe`: once its taps, hours and
changes are used up and every page is closed, nothing is left to happen.

## What is proved

TLAPS proves the theorems of the eight `_proofs` modules for every value of the
constants that satisfies the named assumptions (special values such as `NoUser`
and `None` are not users or foods; the lag is shorter than a day; the documents'
owners are users; accounts and guests are distinct, and there is room for the two
first routes): any number of users, foods, recipes, listeners, saves and
taps, any number of ticks to a day.

| Module | Theorems | Inductive invariant |
|---|---|---|
| `Refrigerator` | `TypeCorrect`, `SettledList`, `SettledListIsOwn`, `AlarmsHaveFoods`, `FoodsAreKept`, `FoodsKeepTheirAlarms`, `FridgeCatchesUp` | `RefreshDue`: whenever the list is not the fridge of an account, a listener's run or a get is outstanding; `AccountsOK`: gets are only of accounts; `DocOK`: no document, no foods (a get of a missing document empties the list); `AlarmSlot`: an alarm lies under the code of its own food, where the deletion looks for it; `RegisteredOK`: fridges, lists and the detail page hold registered foods only and no food is registered twice, so a deletion that cancels the alarm of a food is one of that food or of another with its code |
| `ExpiryAlarm` | `TypeCorrect`, `FoodsHaveAlarms`, `LessThanADayEarly`, `NoticeOfAWeek`, `DetailAgrees` | `AlarmDue`: a pending alarm is due exactly at the instant computed from its food's dates and was not delivered earlier; with three lemmas on truncated division |
| `RecipeFeed` | `TypeCorrect`, `PopularStaysSorted`, `ListsSettle`, `ListsAlwaysAgree`, `ReloadMakesPopular`, `FeedCatchesUp` | `RefreshDue`: lists that are not current are about to be built again, because `Listening`: a listener that has run has left a snapshot listener; `Undisturbed`: with such a listener and no snapshot on its way the list is what the last rebuild made of the collection as it still is |
| `RecipeLikes` | `TypeCorrect`, `LikersAreRight`, `CountIsRight` | `WaitingAgrees`: the last update on its way, or the document if there is none, says what the user's last tap said; `CountAgrees`: while nobody tapped blindly, every fresh copy, the last update on its way and, when there is none, the document hold the number of users who want the recipe, and whoever has a fresh copy or an update on its way is alone in that |
| `RecipeCreate` | `TypeCorrect`, `StepsAreShown`, `ImagesAreSound`, `UploadsComeFirst`, `UndisturbedSavesAreFaithful`, `PageImplementsPublishing`, `SavesAreNeverStuck` | `UrlsGood`: the shared fields only ever hold blanks, the logo or stored images of their own slot; `Progress`: behind the slot a save is uploading no URL is blank and no image is missing; `IdleArgs`, `DocsPublished`; `AloneInv`: while an undisturbed save uploads, the form is still the one that was validated, the user is the one of the page and the shared fields below its slot hold its own images; `PopDue`: the page of a save has its callback to come |
| `WeatherRecipe` | `TypeCorrect`, `ListSettles`, `ErrorsAreExplained`, `TextFits`, `RecommendationCatchesUp` | `Owned`, `Listening`, `RefreshDue` for the list; `WeatherLast` (the weather is set once), `PagesAsked`, `AskedRight`, `PagesRight` for the pages; `Served`: a category asked for is listened to or will be |
| `CatchUp` | `CatchUpCurrent` | the property itself, with the keys asked for |
| `Session` | `TypeCorrect`, `AccountsHaveDocs`, `ProfilesSettle`, `OnlyUserHasOwnProfile`, `DeletedPagesGo`, `BelowIsSafe` | `ProfileInv`: reads and profiles are those of users since the start, documents are never lost, and a user who had one at the sign-in is being read or there is a profile; `StackInv`: routes lie in the order they were pushed, a dialog lies on its detail page; `PopInv`: a delayed pop is that of a page not yet gone, and a page that leaves with one, or waits for two, was left in a hurry or taken |

None of the safety properties is inductive by itself: a settled list is right
because of what is outstanding *before* it settles, so the invariants speak of
the outstanding runs, gets and snapshots instead.  Nor are the properties of
`Session`: that a pop finds its own page or one above it rests on the order of the
stack, and that a page which leaves has no pop to come on what the user did
before.  That an undisturbed save publishes what was validated is a fact about the
end of the uploads, and needs the state of form, user and shared fields at every
slot before it.  The refinements are proved step by step from the same invariants:
every action is a step of `CatchUp`, or of `Publishing`, or leaves its variables
alone.

Only model-checked: the seven liveness properties, since the prover does not treat
fairness.  What each needs of the states on the way is proved, so that fairness
adds only that what is outstanding comes to its end:

| Liveness property | Its safety part, proved |
|---|---|
| `ListConverges` | `SettledListIsOwn`: with one account and nothing outstanding the list is that account's fridge |
| `AlarmArrives` | `FoodsHaveAlarms`: a food's alarm is pending or delivered, and was accepted |
| `ListsConverge` | `ListsSettle` |
| `LikesArrive` | `LikersAreRight`, with `WaitingAgrees` for what is on its way |
| `SavesEnd` | `SavesAreNeverStuck`: a save's page has its callback to come, and a save that has not ended awaits an upload |
| `ListArrives` | `ListSettles` |
| `ProfileArrives` | `OnlyUserHasOwnProfile` |

The properties that the runs refute have no theorem.  Each has a proved counterpart
that says what does hold:

| Refuted | Holds, and is proved |
|---|---|
| `ListIsOwnFoods` | `SettledListIsOwn`: as long as the account is not changed |
| `PendingAlarmSurvives` | `FoodsKeepTheirAlarms`: with the exceptions named |
| `PopularIsCurrent` | `ReloadMakesPopular`: at a reload with nothing on its way |
| `OneTapOneLike` | `CountIsRight`: while nobody taps blindly |
| `PublishedIsValid` | `UndisturbedSavesAreFaithful`: for a save that is left alone |

## Not modelled

- Anything outside `lib`.  By lines the repository is mostly vendored iOS pods
  (Firestore, gRPC, BoringSSL: over a million lines of C and C++) that this
  program does not change; they appear here only as the interfaces `lib` uses.
- The cooking timer of the detail page: its countdown is a library widget driven by
  callbacks of another one.  What it does to the page, `setState`, is the `Rebuild`
  of `RecipeLikes`.
- Search, fridge search, calendar: they keep no state and draw the lists of
  `RecipeFeed` and `Refrigerator`, filtered or not, whenever they are built; the
  calendar draws the list it was opened with.  The pages they push are in
  `Session`.
- Which recipes the profile's grid shows: it returns early when there are no
  favourites and hides the user's own recipes with them
  (`profile/profile.dart:33`).
- `updateLike` and `updateAnonymousInfo` have no caller; the map page and the CSV
  import are reached from no route; the profile's edit page saves nothing; layout,
  video player and generated code have no state of their own.
- Failures of Firestore writes (rules that refuse one): no handler reacts to them.
- Dates past the picker's last year: `showDatePicker` then fails its assertion
  and the form keeps its date, which is the guard of `ShowDatePickerPop`.

## Plan

1. Compose `Session` with `Refrigerator` and `RecipeFeed`, so that their sign-ins
   are those of the login page with its late completions; today each module has its
   own, coarser sign-in.
2. The filters of the fridge search as operators against a reference definition.
