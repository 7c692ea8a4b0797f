---------------------------- MODULE RecipeCreate ----------------------------
(***************************************************************************)
(* One visit of the page that creates a recipe (recipe_create.dart): the   *)
(* form, its validators, Save with its uploads, and the delayed pop.       *)
(*                                                                         *)
(* Save captures the images and starts _uploadImageToStorage, which is not *)
(* awaited.  It uploads one image after the other, keeps the URLs in       *)
(* fields of the page that every save in progress shares, and reads the    *)
(* texts, the boxes and the signed-in user only when the last upload is    *)
(* through; by then the page may have been edited, saved again or left.    *)
(***************************************************************************)
EXTENDS Naturals

CONSTANTS
    Users,
    NoUser,     \* FirebaseAuth.instance.currentUser == null
    Texts,      \* what can be typed
    Empty,      \* the empty text
    Default,    \* the initial value of a field nobody has typed into
    TooLong,    \* a video id of more than eleven characters
    Images,     \* files of the gallery
    NoImage,    \* null
    Blank,      \* initial value of processUrl
    Logo,       \* URL shown for a step without image
    Ingredients,
    Kategorie,
    Other,      \* the ingredient that asks for a text of its own
    Meal,       \* the category checked at first
    LastStep,   \* number of the last step, 5 in the code
    MaxEdits,   \* bound: edits of the form
    MaxSaves    \* bound: saves

ASSUME StepAssumption == LastStep \in Nat /\ MaxSaves \in Nat /\ MaxEdits \in Nat
ASSUME NoUserAssumption == NoUser \notin Users
ASSUME TextAssumption == Empty \in Texts /\ TooLong \in Texts /\ Default \notin Texts
ASSUME ImageAssumption == NoImage \notin Images
ASSUME BoxAssumption == Other \in Ingredients /\ Meal \in Kategorie

Steps == 0 .. LastStep
\* Slot 0 is the picture of the dish, slot i + 1 the one of step i.
Slots == 0 .. LastStep + 1
Saves == 1 .. MaxSaves

\* A download URL: the path names the slot.
Urls == [slot : Slots, image : Images]

ASSUME UrlAssumption == Blank \notin Urls /\ Logo \notin Urls /\ Blank # Logo

Recipes == [owner : Users, name : Texts \union {Default},
            des : [Steps -> Texts \union {Default}],
            url : [Slots -> Urls \union {Blank, Logo}],
            boxes : SUBSET (Ingredients \union Kategorie),
            etc : Texts \union {Default}, video : Texts \union {Default}]

CONSTANT NoRecipe
ASSUME NoRecipeAssumption == NoRecipe \notin Recipes

VARIABLES
    currentUser,
    top,             \* page on top; "leaving": create during its transition
    productname, processDes, boxes, etcDescription, detailVideo,
    etcField,        \* content of the field of etcDescription
    offingre,        \* whether the ingredients are folded
    count, forimage, \* number of the last step shown, steps off stage
    images,          \* _image and _processimage0 ...
    user,            \* _user
    url,             \* _profileImageURL and processUrl
    state, args, at, \* of each save: progress, images captured, slot uploading
    timers,          \* delayed callbacks of saves
    stored,          \* files in Firebase Storage
    docs,            \* the document each save created
    edits,
    disturbed        \* history: the saves during whose uploads the form was
                     \* edited, another save ran or the account changed

formVars == <<productname, processDes, boxes, etcDescription, detailVideo,
              etcField, offingre, count, forimage, images>>
saveVars == <<url, state, args, at, stored, docs>>
vars == <<currentUser, top, formVars, user, saveVars, timers, edits, disturbed>>

TypeOK ==
    /\ currentUser \in Users \union {NoUser} /\ user \in Users \union {NoUser}
    /\ top \in {"create", "leaving", "home", "login"}
    /\ productname \in Texts \union {Default}
    /\ processDes \in [Steps -> Texts \union {Default}]
    /\ boxes \subseteq Ingredients \union Kategorie
    /\ etcDescription \in Texts \union {Default} /\ etcField \in Texts
    /\ detailVideo \in Texts \union {Default}
    /\ offingre \in BOOLEAN
    /\ count \in Steps /\ forimage \in [Steps -> BOOLEAN]
    /\ images \in [Slots -> Images \union {NoImage}]
    /\ url \in [Slots -> Urls \union {Blank, Logo}]
    /\ state \in [Saves -> {"idle", "uploading", "published", "failed"}]
    /\ args \in [Saves -> [Slots -> Images \union {NoImage}]]
    /\ at \in [Saves -> Slots]
    /\ timers \in Nat /\ edits \in Nat
    /\ stored \subseteq Urls
    /\ docs \in [Saves -> Recipes \union {NoRecipe}]
    /\ disturbed \subseteq Saves

\* The page has just been opened from the recipe page, by whoever is signed in.
\* The first build checked the box of Meal.
Init ==
    /\ currentUser \in Users \union {NoUser} /\ user = currentUser
    /\ top = "create"
    /\ productname = Default /\ processDes = [i \in Steps |-> Default]
    /\ boxes = {Meal} /\ etcDescription = Default /\ detailVideo = Default
    /\ etcField = Empty /\ offingre = TRUE
    /\ count = 0 /\ forimage = [i \in Steps |-> i # 0]
    /\ images = [k \in Slots |-> NoImage]
    /\ url = [k \in Slots |-> Blank]
    /\ state = [s \in Saves |-> "idle"]
    /\ args = [s \in Saves |-> [k \in Slots |-> NoImage]]
    /\ at = [s \in Saves |-> 0]
    /\ timers = 0 /\ stored = {} /\ edits = 0
    /\ docs = [s \in Saves |-> NoRecipe]
    /\ disturbed = {}

\* The saves that await an upload.
Uploading == {s \in Saves : state[s] = "uploading"}

-----------------------------------------------------------------------------
(* The form *)

Edit ==
    /\ top = "create" /\ edits < MaxEdits
    /\ edits' = edits + 1
    /\ disturbed' = disturbed \union Uploading
    /\ UNCHANGED <<currentUser, top, user, saveVars, timers>>

TypeName(t) ==
    /\ Edit
    /\ productname' = t
    /\ UNCHANGED <<processDes, boxes, etcDescription, detailVideo, etcField,
                   offingre, count, forimage, images>>

TypeVideo(t) ==
    /\ Edit
    /\ detailVideo' = t
    /\ UNCHANGED <<productname, processDes, boxes, etcDescription, etcField,
                   offingre, count, forimage, images>>

DescribeStep(i, t) ==
    /\ Edit /\ ~forimage[i]
    /\ processDes' = [processDes EXCEPT ![i] = t]
    /\ UNCHANGED <<productname, boxes, etcDescription, detailVideo, etcField,
                   offingre, count, forimage, images>>

\* A pick that is cancelled throws and changes nothing.
PickImage(k, f) ==
    /\ Edit /\ (k > 0 => ~forimage[k - 1])
    /\ images' = [images EXCEPT ![k] = f]
    /\ UNCHANGED <<productname, processDes, boxes, etcDescription, detailVideo,
                   etcField, offingre, count, forimage>>

Toggle(b) == boxes' = IF b \in boxes THEN boxes \ {b} ELSE boxes \union {b}

CheckKategorie(b) ==
    /\ Edit
    /\ Toggle(b)
    /\ UNCHANGED <<productname, processDes, etcDescription, detailVideo,
                   etcField, offingre, count, forimage, images>>

CheckIngredient(b) ==
    /\ Edit /\ ~offingre
    /\ Toggle(b)
    /\ UNCHANGED <<productname, processDes, etcDescription, detailVideo,
                   etcField, offingre, count, forimage, images>>

\* The field of etcDescription exists only while the ingredients are unfolded;
\* it comes back empty, whatever etcDescription is.
FoldIngredients ==
    /\ Edit
    /\ offingre' = ~offingre
    /\ etcField' = Empty
    /\ UNCHANGED <<productname, processDes, boxes, etcDescription, detailVideo,
                   count, forimage, images>>

TypeEtc(t) ==
    /\ Edit /\ ~offingre
    /\ etcField' = t
    /\ etcDescription' = t
    /\ UNCHANGED <<productname, processDes, boxes, detailVideo, offingre,
                   count, forimage, images>>

\* Mutant: the order of the two statements swapped.
RemoveStepTooLate ==
    /\ top = "create" /\ count > 0
    /\ count' = count - 1
    /\ forimage' = [forimage EXCEPT ![count - 1] = ~@]
    /\ UNCHANGED <<currentUser, top, productname, processDes, boxes,
                   etcDescription, detailVideo, etcField, offingre, images,
                   user, saveVars, timers, edits, disturbed>>

\* The buttons below the steps; at the limits they only show a message.
RemoveStep ==
    /\ top = "create" /\ count > 0
    /\ forimage' = [forimage EXCEPT ![count] = ~@]
    /\ count' = count - 1
    /\ UNCHANGED <<currentUser, top, productname, processDes, boxes,
                   etcDescription, detailVideo, etcField, offingre, images,
                   user, saveVars, timers, edits, disturbed>>

AddStep ==
    /\ top = "create" /\ count < LastStep
    /\ count' = count + 1
    /\ forimage' = [forimage EXCEPT ![count + 1] = ~@]
    /\ UNCHANGED <<currentUser, top, productname, processDes, boxes,
                   etcDescription, detailVideo, etcField, offingre, images,
                   user, saveVars, timers, edits, disturbed>>

\* Mutant: the field of the first step has no validator.
ValidWithoutStep ==
    /\ productname \notin {Default, Empty}
    /\ detailVideo # TooLong
    /\ offingre \/ Other \notin boxes \/ etcField # Empty

\* The validators of the fields that exist.  They look at the fields: a
\* Default was never typed, its field is empty.
Valid ==
    /\ productname \notin {Default, Empty}
    /\ processDes[0] \notin {Default, Empty}
    /\ detailVideo # TooLong
    /\ offingre \/ Other \notin boxes \/ etcField # Empty

-----------------------------------------------------------------------------
(* _uploadImageToStorage *)

Pending(a, k) == {n \in Slots : n >= k /\ a[n] # NoImage}

\* From slot k on up to the next image, the URL is that of the logo.
Filled(u, a, k) ==
    [n \in Slots |->
        IF n >= k /\ \A m \in k .. n : a[m] = NoImage THEN Logo ELSE u[n]]

\* The document, of what the page and Firebase Auth hold by now.
Document(u) ==
    [owner |-> currentUser, name |-> productname, des |-> processDes, url |-> u,
     boxes |-> boxes, etc |-> etcDescription, video |-> detailVideo]

\* The next image is sent.  _user! throws if the page was opened by nobody.
Upload(s, a, k) ==
    \E n \in Pending(a, k) :
        /\ \A m \in Pending(a, k) : n <= m
        /\ at' = [at EXCEPT ![s] = n]
        /\ state' = [state EXCEPT ![s] = IF user = NoUser THEN "failed" ELSE "uploading"]
        /\ UNCHANGED docs

\* Mutant: the document is written although nobody is signed in.
PublishForNobody(s, a, k, u) ==
    /\ Pending(a, k) = {}
    /\ docs' = [docs EXCEPT ![s] = Document(u)]
    /\ state' = [state EXCEPT ![s] = "published"]
    /\ UNCHANGED at

\* No image is left: the document is written, unless currentUser! throws.
Publish(s, a, k, u) ==
    /\ Pending(a, k) = {}
    /\ IF currentUser = NoUser
       THEN /\ state' = [state EXCEPT ![s] = "failed"]
            /\ UNCHANGED docs
       ELSE /\ docs' = [docs EXCEPT ![s] = Document(u)]
            /\ state' = [state EXCEPT ![s] = "published"]
    /\ UNCHANGED at

\* Mutant: every save starts with the URLs of the one before.
ContinueKeepingUrls(s, a, k, u) ==
    /\ url' = u
    /\ Upload(s, a, k) \/ Publish(s, a, k, u)

\* Runs save s of images a from slot k on until it awaits an upload or ends.
Continue(s, a, k, u) ==
    /\ url' = Filled(u, a, k)
    /\ Upload(s, a, k) \/ Publish(s, a, k, Filled(u, a, k))

\* Save s starts among the saves that are uploading, or alone.
Overlap(s) ==
    disturbed \union Uploading \union {t \in {s} : Uploading # {}}

\* Mutant: the callback is only started when the document has been written.
SaveWithoutTimer(s) ==
    /\ top = "create" /\ Valid
    /\ \A t \in Saves : state[t] = "idle" <=> t >= s
    /\ args' = [args EXCEPT ![s] = images]
    /\ Continue(s, images, 0, url)
    /\ timers' = IF state'[s] = "published" THEN timers + 1 ELSE timers
    /\ disturbed' = Overlap(s)
    /\ UNCHANGED <<currentUser, top, formVars, user, stored, edits>>

\* The button Save.  Saves are numbered in their order.
Save(s) ==
    /\ top = "create" /\ Valid
    /\ \A t \in Saves : state[t] = "idle" <=> t >= s
    /\ args' = [args EXCEPT ![s] = images]
    /\ Continue(s, images, 0, url)
    /\ timers' = timers + 1
    /\ disturbed' = Overlap(s)
    /\ UNCHANGED <<currentUser, top, formVars, user, stored, edits>>

\* The URL of what save s is uploading.
Uploaded(s) == [slot |-> at[s], image |-> args[s][at[s]]]

\* Mutant: the URL is kept before the upload is awaited, the file gets lost.
UploadDoneNotAwaited(s) ==
    /\ state[s] = "uploading"
    /\ Continue(s, args[s], at[s] + 1, [url EXCEPT ![at[s]] = Uploaded(s)])
    /\ UNCHANGED <<currentUser, top, formVars, user, args, stored, timers, edits, disturbed>>

\* An upload and the request of its URL are through: the save goes on.
UploadDone(s) ==
    /\ state[s] = "uploading"
    /\ stored' = stored \union {Uploaded(s)}
    /\ Continue(s, args[s], at[s] + 1, [url EXCEPT ![at[s]] = Uploaded(s)])
    /\ UNCHANGED <<currentUser, top, formVars, user, args, timers, edits, disturbed>>

\* The upload or the request throws, which ends the save.
UploadFails(s) ==
    /\ state[s] = "uploading"
    /\ state' = [state EXCEPT ![s] = "failed"]
    /\ UNCHANGED <<currentUser, top, formVars, user, url, args, at, timers,
                   stored, docs, edits, disturbed>>

-----------------------------------------------------------------------------
(* Pages *)

\* One second after a save: the recipes are loaded again and the page on top is
\* left, which is the one below if this page is just leaving.  Once the page is
\* gone its context has no navigator and the pop throws.
DelayedPop ==
    /\ timers > 0
    /\ timers' = timers - 1
    /\ top' = CASE top = "create" -> "leaving"
                [] top = "leaving" -> "login"
                [] OTHER -> top
    /\ UNCHANGED <<currentUser, formVars, user, saveVars, edits, disturbed>>

\* Cancel, or the back gesture.
Cancel ==
    /\ top = "create"
    /\ top' = "leaving"
    /\ UNCHANGED <<currentUser, formVars, user, saveVars, timers, edits, disturbed>>

\* The transition is over.
PageGone ==
    /\ top = "leaving"
    /\ top' = "home"
    /\ UNCHANGED <<currentUser, formVars, user, saveVars, timers, edits, disturbed>>

SignOut ==
    /\ top = "home"
    /\ currentUser' = NoUser
    /\ top' = "login"
    /\ disturbed' = disturbed \union Uploading
    /\ UNCHANGED <<formVars, user, saveVars, timers, edits>>

\* Signing in, or failing to as a guest, which opens the home page as well.
SignIn(u) ==
    /\ top = "login"
    /\ currentUser' = u
    /\ top' = "home"
    /\ disturbed' = disturbed \union Uploading
    /\ UNCHANGED <<formVars, user, saveVars, timers, edits>>

Next ==
    \/ \E t \in Texts \ {TooLong} : TypeName(t)
    \/ \E t \in Texts : TypeVideo(t)
    \/ \E i \in Steps, t \in Texts \ {TooLong} : DescribeStep(i, t)
    \/ \E k \in Slots, f \in Images : PickImage(k, f)
    \/ \E b \in Kategorie : CheckKategorie(b)
    \/ \E b \in Ingredients : CheckIngredient(b)
    \/ FoldIngredients
    \/ \E t \in Texts \ {TooLong} : TypeEtc(t)
    \/ RemoveStep
    \/ AddStep
    \/ \E s \in Saves : Save(s)
    \/ \E s \in Saves : UploadDone(s)
    \/ \E s \in Saves : UploadFails(s)
    \/ DelayedPop
    \/ Cancel
    \/ PageGone
    \/ SignOut
    \/ \E u \in Users \union {NoUser} : SignIn(u)

Spec == Init /\ [][Next]_vars

\* Uploads end in one way or another, and timers expire.
FairSpec ==
    /\ Spec
    /\ WF_vars(DelayedPop)
    /\ \A s \in Saves : WF_vars(UploadDone(s) \/ UploadFails(s))

-----------------------------------------------------------------------------
(* Properties *)

\* The steps on stage are those up to count, however often steps were added and
\* removed: each button only toggles one flag.
StepsShown == \A i \in Steps : forimage[i] = (i > count)

\* A published recipe shows the logo or an image that one of the saves was given
\* for that very slot and whose upload is complete, never a blank URL, although
\* all saves write to the same fields.
PublishedImages ==
    \A s \in Saves : docs[s] # NoRecipe =>
        \A k \in Slots :
            \/ docs[s].url[k] = Logo
            \/ /\ docs[s].url[k] \in stored
               /\ \E t \in Saves : /\ args[t][k] # NoImage
                                   /\ docs[s].url[k] = [slot |-> k, image |-> args[t][k]]

\* Every image a save was given is in the storage before its document refers to
\* any: the uploads are awaited one after the other and none is left out.  Part of
\* what SavesPublish says, stated of the states.
UploadsPrecedeDocument ==
    \A s \in Saves : docs[s] # NoRecipe =>
        \A k \in Slots : args[s][k] # NoImage => [slot |-> k, image |-> args[s][k]] \in stored

\* A save during whose uploads nobody edits the form, saves again or changes the
\* account publishes a recipe that passed the validators, for the user who opened
\* the page, with exactly the images it was given at the tap: Save reads them from
\* shared fields and after the uploads, but nothing else writes there.  Of the
\* other ingredients nothing is said: their validator is asked only while their
\* field is unfolded.
UndisturbedSave ==
    \A s \in Saves \ disturbed : docs[s] # NoRecipe =>
        /\ docs[s].owner = user
        /\ docs[s].name \notin {Default, Empty}
        /\ docs[s].des[0] \notin {Default, Empty}
        /\ docs[s].video # TooLong
        /\ \A k \in Slots : docs[s].url[k] =
              IF args[s][k] = NoImage THEN Logo ELSE [slot |-> k, image |-> args[s][k]]

\* The files save s was given, and those the document of save s refers to.
Given(s) == {[slot |-> k, image |-> args[s][k]] : k \in Pending(args[s], 0)}
Shown(s) == {docs[s].url[k] : k \in {n \in Slots : docs[s] # NoRecipe}} \ {Logo}

\* The saves publish as Publishing says: each ends once and for good, files are
\* stored one after the other and never get lost, and a document comes complete
\* and all at once or, when an upload fails, not at all.
Publication == INSTANCE Publishing WITH
                   Files <- Urls, NoDoc <- NoRecipe,
                   phase <- state, doc <- docs,
                   given <- [s \in Saves |-> Given(s)],
                   refers <- [s \in Saves |-> Shown(s)]

SavesPublish == Publication!Spec

\* Every save comes to an end and its page is left, also when an upload fails.
SavesEnd ==
    \A s \in Saves :
        state[s] # "idle" ~> state[s] \in {"published", "failed"} /\ top # "create"

\* The validators: a recipe has a name and a first step.  Violated: Save
\* validates at the tap, the fields are read after the uploads.
PublishedIsValid ==
    \A s \in Saves : docs[s] # NoRecipe =>
        /\ docs[s].name \notin {Default, Empty}
        /\ docs[s].des[0] \notin {Default, Empty}
=============================================================================
