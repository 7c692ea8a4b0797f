------------------------- MODULE RecipeCreate_proofs -------------------------
(***************************************************************************)
(* Proofs about RecipeCreate for every number of steps, saves and edits.   *)
(***************************************************************************)
EXTENDS RecipeCreate, TLAPS

\* URL x of slot k is that of a stored image which some save was given for k.
Good(k, x) ==
    /\ x \in stored
    /\ \E t \in Saves : args[t][k] # NoImage /\ x = [slot |-> k, image |-> args[t][k]]

\* The fields the saves share hold nothing else, whichever save wrote them.
UrlsGood == \A k \in Slots : url[k] \in {Blank, Logo} \/ Good(k, url[k])

\* Before it starts a save has no images: what it is given hides nothing.
IdleArgs == \A s \in Saves : state[s] = "idle" => \A k \in Slots : args[s][k] = NoImage

\* What lies behind a save that is uploading: no blank URL, no image forgotten.
Progress ==
    \A s \in Saves : state[s] = "uploading" =>
        /\ args[s][at[s]] # NoImage
        /\ \A k \in Slots : k < at[s] =>
              /\ url[k] # Blank
              /\ args[s][k] # NoImage => [slot |-> k, image |-> args[s][k]] \in stored

DocsPublished == \A s \in Saves : docs[s] # NoRecipe => state[s] = "published"

ImageInv ==
    /\ UrlsGood /\ IdleArgs /\ Progress /\ DocsPublished
    /\ PublishedImages /\ UploadsPrecedeDocument

Inv == TypeOK /\ StepsShown /\ ImageInv

\* The steps of the form and of the pages, which leave the saves alone.
FormStep ==
    \/ \E t \in Texts \ {TooLong} : TypeName(t)
    \/ \E t \in Texts : TypeVideo(t)
    \/ \E i \in Steps, t \in Texts \ {TooLong} : DescribeStep(i, t)
    \/ \E k \in Slots, f \in Images : PickImage(k, f)
    \/ \E b \in Kategorie : CheckKategorie(b)
    \/ \E b \in Ingredients : CheckIngredient(b)
    \/ FoldIngredients
    \/ \E t \in Texts \ {TooLong} : TypeEtc(t)
    \/ RemoveStep
    \/ AddStep

PageStep ==
    DelayedPop \/ Cancel \/ PageGone \/ SignOut \/ \E u \in Users \union {NoUser} : SignIn(u)

-----------------------------------------------------------------------------
\* The page just opened satisfies the invariant.
LEMMA InvInit == Init => Inv
<1> SUFFICES ASSUME Init PROVE Inv
  OBVIOUS
<1>1. TypeOK
  BY StepAssumption, TextAssumption, BoxAssumption DEF Init, TypeOK, Steps, Slots
<1>2. StepsShown
  <2>1. ASSUME NEW i \in Steps PROVE (i # 0) = (i > 0)
    BY StepAssumption DEF Steps
  <2>2. count = 0 /\ \A i \in Steps : forimage[i] = (i # 0)
    BY DEF Init
  <2> QED
    BY <2>1, <2>2 DEF StepsShown
<1>3. ImageInv
  BY DEF Init, ImageInv, UrlsGood, IdleArgs, Progress, DocsPublished,
         PublishedImages, UploadsPrecedeDocument
<1> QED
  BY <1>1, <1>2, <1>3 DEF Inv

-----------------------------------------------------------------------------
(* Edits and pages *)

\* An edit keeps the types and shows the steps up to count.
LEMMA FormType == TypeOK /\ StepsShown /\ FormStep => TypeOK' /\ StepsShown'
<1> SUFFICES ASSUME TypeOK, StepsShown, FormStep PROVE TypeOK' /\ StepsShown'
  OBVIOUS
<1> USE DEF saveVars, Uploading
<1>1. ASSUME NEW t \in Texts \ {TooLong}, TypeName(t) PROVE TypeOK' /\ StepsShown'
  BY <1>1 DEF TypeName, Edit, TypeOK, StepsShown
<1>2. ASSUME NEW t \in Texts, TypeVideo(t) PROVE TypeOK' /\ StepsShown'
  BY <1>2 DEF TypeVideo, Edit, TypeOK, StepsShown
<1>3. ASSUME NEW i \in Steps, NEW t \in Texts \ {TooLong}, DescribeStep(i, t)
      PROVE TypeOK' /\ StepsShown'
  BY <1>3 DEF DescribeStep, Edit, TypeOK, StepsShown
<1>4. ASSUME NEW k \in Slots, NEW f \in Images, PickImage(k, f)
      PROVE TypeOK' /\ StepsShown'
  BY <1>4 DEF PickImage, Edit, TypeOK, StepsShown
<1>5. ASSUME NEW b \in Kategorie, CheckKategorie(b) PROVE TypeOK' /\ StepsShown'
  BY <1>5 DEF CheckKategorie, Toggle, Edit, TypeOK, StepsShown
<1>6. ASSUME NEW b \in Ingredients, CheckIngredient(b) PROVE TypeOK' /\ StepsShown'
  BY <1>6 DEF CheckIngredient, Toggle, Edit, TypeOK, StepsShown
<1>7. CASE FoldIngredients
  BY <1>7, TextAssumption DEF FoldIngredients, Edit, TypeOK, StepsShown
<1>8. ASSUME NEW t \in Texts \ {TooLong}, TypeEtc(t) PROVE TypeOK' /\ StepsShown'
  BY <1>8 DEF TypeEtc, Edit, TypeOK, StepsShown
<1>9. CASE RemoveStep
  <2>1. count \in 0 .. LastStep /\ count' = count - 1 /\ count' \in 0 .. LastStep
    BY <1>9, StepAssumption DEF RemoveStep, TypeOK, Steps
  <2>2. forimage' \in [Steps -> BOOLEAN]
    BY <1>9 DEF RemoveStep, TypeOK
  <2>3. TypeOK'
    BY <1>9, <2>1, <2>2 DEF RemoveStep, TypeOK, Steps
  <2>4. ASSUME NEW i \in Steps PROVE forimage'[i] = (i > count')
    BY <1>9, <2>1, StepAssumption DEF RemoveStep, TypeOK, StepsShown, Steps
  <2> QED
    BY <2>3, <2>4 DEF StepsShown
<1>10. CASE AddStep
  <2>1. count \in 0 .. LastStep /\ count' = count + 1 /\ count' \in 0 .. LastStep
    BY <1>10, StepAssumption DEF AddStep, TypeOK, Steps
  <2>2. forimage' \in [Steps -> BOOLEAN]
    BY <1>10 DEF AddStep, TypeOK
  <2>3. TypeOK'
    BY <1>10, <2>1, <2>2 DEF AddStep, TypeOK, Steps
  <2>4. ASSUME NEW i \in Steps PROVE forimage'[i] = (i > count')
    BY <1>10, <2>1, StepAssumption DEF AddStep, TypeOK, StepsShown, Steps
  <2> QED
    BY <2>3, <2>4 DEF StepsShown
<1> QED
  BY <1>1, <1>2, <1>3, <1>4, <1>5, <1>6, <1>7, <1>8, <1>9, <1>10 DEF FormStep

\* Leaving pages and changing the user keeps the types and the steps shown.
LEMMA PageType == TypeOK /\ StepsShown /\ PageStep => TypeOK' /\ StepsShown'
<1> SUFFICES ASSUME TypeOK, StepsShown, PageStep PROVE TypeOK' /\ StepsShown'
  OBVIOUS
<1> USE DEF saveVars, formVars, Uploading
<1>1. CASE DelayedPop
  <2>1. top' \in {"create", "leaving", "home", "login"} /\ timers' \in Nat
    BY <1>1 DEF DelayedPop, TypeOK
  <2> QED
    BY <1>1, <2>1 DEF DelayedPop, TypeOK, StepsShown
<1>2. CASE Cancel
  BY <1>2 DEF Cancel, TypeOK, StepsShown
<1>3. CASE PageGone
  BY <1>3 DEF PageGone, TypeOK, StepsShown
<1>4. CASE SignOut
  BY <1>4 DEF SignOut, TypeOK, StepsShown
<1>5. ASSUME NEW u \in Users \union {NoUser}, SignIn(u) PROVE TypeOK' /\ StepsShown'
  BY <1>5 DEF SignIn, TypeOK, StepsShown
<1> QED
  BY <1>1, <1>2, <1>3, <1>4, <1>5 DEF PageStep

\* None of them touches a save.
LEMMA SavesAlone == FormStep \/ PageStep => UNCHANGED saveVars
BY DEF FormStep, PageStep, TypeName, TypeVideo, DescribeStep, PickImage,
       CheckKategorie, CheckIngredient, FoldIngredients, TypeEtc, RemoveStep,
       AddStep, Edit, DelayedPop, Cancel, PageGone, SignOut, SignIn

\* What leaves the saves alone keeps what is known of their images.
LEMMA ImagesAlone == ImageInv /\ UNCHANGED saveVars => ImageInv'
BY DEF saveVars, ImageInv, UrlsGood, Good, IdleArgs, Progress, DocsPublished,
       PublishedImages, UploadsPrecedeDocument

-----------------------------------------------------------------------------
(* Saves *)

\* What a save does until it awaits an upload or ends, whatever images a it was
\* given: it gets past every slot without image, and stops at one with.
LEMMA ContinueFacts ==
    ASSUME NEW s \in Saves, NEW a \in [Slots -> Images \union {NoImage}],
           NEW k \in Nat, NEW u \in [Slots -> Urls \union {Blank, Logo}],
           TypeOK, Continue(s, a, k, u)
    PROVE  /\ url' = Filled(u, a, k)
           /\ \/ /\ state' = [state EXCEPT ![s] = "uploading"] \/ state' = [state EXCEPT ![s] = "failed"]
                 /\ at'[s] \in Slots /\ at'[s] >= k /\ at' = [at EXCEPT ![s] = at'[s]]
                 /\ a[at'[s]] # NoImage
                 /\ \A n \in Slots : n >= k /\ n < at'[s] => a[n] = NoImage /\ url'[n] = Logo
                 /\ docs' = docs
              \/ /\ state' = [state EXCEPT ![s] = "failed"] /\ at' = at /\ docs' = docs
              \/ /\ state' = [state EXCEPT ![s] = "published"] /\ at' = at
                 /\ currentUser # NoUser
                 /\ docs' = [docs EXCEPT ![s] = Document(url')]
                 /\ \A n \in Slots : n >= k => a[n] = NoImage /\ url'[n] = Logo
<1>1. url' = Filled(u, a, k)
  BY DEF Continue
<1>2. CASE Upload(s, a, k)
  <2>1. PICK n \in Pending(a, k) :
            /\ \A m \in Pending(a, k) : n <= m
            /\ at' = [at EXCEPT ![s] = n]
            /\ state' = [state EXCEPT ![s] = IF user = NoUser THEN "failed" ELSE "uploading"]
            /\ docs' = docs
    BY <1>2 DEF Upload
  <2>2. n \in Slots /\ n >= k /\ a[n] # NoImage /\ at'[s] = n
    BY <2>1 DEF Pending, TypeOK
  <2>3. ASSUME NEW m \in Slots, m >= k, m < n PROVE a[m] = NoImage /\ url'[m] = Logo
    <3>1. \A i \in Slots : i >= k /\ i < n => a[i] = NoImage
      BY <2>1, <2>2, StepAssumption DEF Pending, Slots
    <3>2. \A i \in k .. m : i \in Slots /\ i >= k /\ i < n
      BY <2>2, <2>3, StepAssumption DEF Slots
    <3> QED
      BY <1>1, <2>3, <3>1, <3>2 DEF Filled
  <2>4. state' = [state EXCEPT ![s] = "uploading"] \/ state' = [state EXCEPT ![s] = "failed"]
    BY <2>1
  <2> QED
    BY <1>1, <2>1, <2>2, <2>3, <2>4
<1>3. CASE Publish(s, a, k, Filled(u, a, k))
  <2>1. Pending(a, k) = {} /\ at' = at
    BY <1>3 DEF Publish
  <2>2. ASSUME NEW m \in Slots, m >= k PROVE a[m] = NoImage /\ url'[m] = Logo
    <3>1. \A i \in Slots : i >= k => a[i] = NoImage
      BY <2>1 DEF Pending
    <3>2. \A i \in k .. m : i \in Slots /\ i >= k
      BY <2>2, StepAssumption DEF Slots
    <3> QED
      BY <1>1, <2>2, <3>1, <3>2 DEF Filled
  <2>3. CASE currentUser = NoUser
    BY <1>1, <1>3, <2>1, <2>3 DEF Publish
  <2>4. CASE currentUser # NoUser
    BY <1>1, <1>3, <2>1, <2>2, <2>4 DEF Publish
  <2> QED
    BY <2>3, <2>4
<1> QED
  BY <1>2, <1>3 DEF Continue

\* The URLs a save leaves: what was there before it, or the logo.
LEMMA FilledFacts ==
    ASSUME NEW a \in [Slots -> Images \union {NoImage}], NEW k \in Nat,
           NEW u \in [Slots -> Urls \union {Blank, Logo}]
    PROVE  /\ Filled(u, a, k) \in [Slots -> Urls \union {Blank, Logo}]
           /\ \A n \in Slots : Filled(u, a, k)[n] = Logo \/ Filled(u, a, k)[n] = u[n]
BY DEF Filled

\* The types a save can disturb.
LEMMA ContinueType ==
    ASSUME NEW s \in Saves, NEW a \in [Slots -> Images \union {NoImage}],
           NEW k \in Nat, NEW u \in [Slots -> Urls \union {Blank, Logo}],
           TypeOK, Continue(s, a, k, u)
    PROVE  /\ url' \in [Slots -> Urls \union {Blank, Logo}]
           /\ state' \in [Saves -> {"idle", "uploading", "published", "failed"}]
           /\ at' \in [Saves -> Slots]
           /\ docs' \in [Saves -> Recipes \union {NoRecipe}]
<1>1. url' \in [Slots -> Urls \union {Blank, Logo}]
  BY ContinueFacts, FilledFacts
<1>2. state' \in [Saves -> {"idle", "uploading", "published", "failed"}]
  BY ContinueFacts DEF TypeOK
<1>3. at' \in [Saves -> Slots]
  BY ContinueFacts DEF TypeOK
<1>4. currentUser # NoUser => Document(url') \in Recipes
  BY <1>1 DEF TypeOK, Document, Recipes
<1>5. docs' \in [Saves -> Recipes \union {NoRecipe}]
  BY <1>4, ContinueFacts DEF TypeOK
<1> QED
  BY <1>1, <1>2, <1>3, <1>5

\* URLs u are blank, logos, or of files st that saves with images ar were given.
Sound(u, st, ar) ==
    \A n \in Slots :
        \/ u[n] \in {Blank, Logo}
        \/ /\ u[n] \in st
           /\ \E t \in Saves : ar[t][n] # NoImage /\ u[n] = [slot |-> n, image |-> ar[t][n]]

\* Before slot k no URL of u is blank and no image of a is missing in st.
Behind(u, a, k, st) ==
    \A n \in Slots : n < k =>
        u[n] # Blank /\ (a[n] # NoImage => [slot |-> n, image |-> a[n]] \in st)

\* The images of a include those of b.
Includes(a, b) == \A n \in Slots : b[n] # NoImage => a[n] = b[n]

\* Where u is blank, v is.
BlankOnlyWhere(u, v) == \A n \in Slots : u[n] = Blank => v[n] = Blank

\* The heart of the argument: save s goes on from slot k with URLs u.  If u is
\* sound and nothing behind k is blank or forgotten, then so are the shared URLs
\* and the document afterwards.
LEMMA ContinueImages ==
    ASSUME NEW s \in Saves, NEW a \in [Slots -> Images \union {NoImage}],
           NEW k \in Nat, NEW u \in [Slots -> Urls \union {Blank, Logo}],
           TypeOK, ImageInv, Continue(s, a, k, u),
           state[s] \in {"idle", "uploading"},
           args' = [args EXCEPT ![s] = a],
           Includes(a, args[s]), stored \subseteq stored',
           Sound(u, stored', args'), BlankOnlyWhere(u, url), Behind(u, a, k, stored')
    PROVE  ImageInv'
<1> DEFINE U == Filled(u, a, k)
<1>1. url' = U /\ U \in [Slots -> Urls \union {Blank, Logo}]
      /\ \A n \in Slots : U[n] = Logo \/ U[n] = u[n]
  BY ContinueFacts, FilledFacts
<1> HIDE DEF U
<1>0. \/ /\ state' = [state EXCEPT ![s] = "uploading"] \/ state' = [state EXCEPT ![s] = "failed"]
         /\ at'[s] \in Slots /\ at'[s] >= k /\ at' = [at EXCEPT ![s] = at'[s]]
         /\ a[at'[s]] # NoImage
         /\ \A n \in Slots : n >= k /\ n < at'[s] => a[n] = NoImage /\ url'[n] = Logo
         /\ docs' = docs
      \/ /\ state' = [state EXCEPT ![s] = "failed"] /\ at' = at /\ docs' = docs
      \/ /\ state' = [state EXCEPT ![s] = "published"] /\ at' = at
         /\ docs' = [docs EXCEPT ![s] = Document(url')]
         /\ \A n \in Slots : n >= k => a[n] = NoImage /\ url'[n] = Logo
  BY ContinueFacts
<1>2. args'[s] = a /\ \A t \in Saves : t # s => args'[t] = args[t]
  BY DEF TypeOK
<1>3. \A t \in Saves, n \in Slots : args[t][n] # NoImage => args'[t][n] = args[t][n]
  BY <1>2 DEF Includes
<1>4. Logo # Blank
  BY UrlAssumption
<1>5. \A n \in Slots : url'[n] = Blank => url[n] = Blank
  BY <1>1, <1>4 DEF BlankOnlyWhere
<1>6. \A t \in Saves : t # s => state'[t] = state[t] /\ at'[t] = at[t] /\ docs'[t] = docs[t]
  BY <1>0 DEF TypeOK
<1>7. docs[s] = NoRecipe
  BY DEF ImageInv, DocsPublished
<1>8. UrlsGood'
  BY <1>1 DEF UrlsGood, Good, Sound
<1>9. state'[s] # "idle"
  BY <1>0 DEF TypeOK
<1>10. IdleArgs'
  BY <1>2, <1>6, <1>9 DEF ImageInv, IdleArgs
<1>11. state'[s] = "uploading" =>
          /\ at'[s] \in Slots /\ at'[s] >= k /\ a[at'[s]] # NoImage
          /\ \A n \in Slots : n >= k /\ n < at'[s] => a[n] = NoImage /\ url'[n] = Logo
  BY <1>0 DEF TypeOK
<1>12. \A n \in Slots : n < k => url'[n] # Blank
  BY <1>1, <1>4 DEF Behind
<1>13. Slots \subseteq Nat
  BY DEF Slots
<1>14. Progress'
  <2> SUFFICES ASSUME NEW t \in Saves, state'[t] = "uploading"
               PROVE  /\ args'[t][at'[t]] # NoImage
                      /\ \A n \in Slots : n < at'[t] =>
                            /\ url'[n] # Blank
                            /\ args'[t][n] # NoImage => [slot |-> n, image |-> args'[t][n]] \in stored'
    BY DEF Progress
  <2>1. CASE t = s
    BY <1>2, <1>4, <1>11, <1>12, <1>13, <2>1 DEF Behind
  <2>2. CASE t # s
    BY <1>2, <1>5, <1>6, <2>2 DEF ImageInv, Progress
  <2> QED
    BY <2>1, <2>2
<1>15. docs'[s] # NoRecipe => /\ state'[s] = "published"
                              /\ docs'[s].url = url'
                              /\ \A n \in Slots : n >= k => a[n] = NoImage /\ url'[n] = Logo
  BY <1>0, <1>7 DEF TypeOK, Document
<1>16. DocsPublished'
  BY <1>6, <1>15 DEF ImageInv, DocsPublished
<1>17. PublishedImages'
  <2> SUFFICES ASSUME NEW t \in Saves, docs'[t] # NoRecipe, NEW n \in Slots,
                      docs'[t].url[n] # Logo
               PROVE  /\ docs'[t].url[n] \in stored'
                      /\ \E r \in Saves : /\ args'[r][n] # NoImage
                                          /\ docs'[t].url[n] = [slot |-> n, image |-> args'[r][n]]
    BY DEF PublishedImages
  <2>1. CASE t = s
    <3>1. docs'[t].url = url' /\ url'[n] # Logo /\ ~(n >= k)
      BY <1>15, <2>1
    <3>2. n < k
      BY <1>13, <3>1
    <3>3. url'[n] # Blank
      BY <1>12, <3>2
    <3> QED
      BY <1>8, <3>1, <3>3 DEF UrlsGood, Good
  <2>2. CASE t # s
    <3>1. docs'[t] = docs[t] /\ docs[t].url[n] # Logo /\ docs[t] # NoRecipe
      BY <1>6, <2>2
    <3>2. PICK r \in Saves : /\ args[r][n] # NoImage
                             /\ docs[t].url[n] = [slot |-> n, image |-> args[r][n]]
                             /\ docs[t].url[n] \in stored
      BY <3>1 DEF ImageInv, PublishedImages
    <3> QED
      BY <1>3, <3>1, <3>2
  <2> QED
    BY <2>1, <2>2
<1>18. UploadsPrecedeDocument'
  <2> SUFFICES ASSUME NEW t \in Saves, docs'[t] # NoRecipe, NEW n \in Slots,
                      args'[t][n] # NoImage
               PROVE  [slot |-> n, image |-> args'[t][n]] \in stored'
    BY DEF UploadsPrecedeDocument
  <2>1. CASE t = s
    BY <1>2, <1>13, <1>15, <2>1 DEF Behind
  <2>2. CASE t # s
    BY <1>2, <1>6, <2>2 DEF ImageInv, UploadsPrecedeDocument
  <2> QED
    BY <2>1, <2>2
<1> QED
  BY <1>8, <1>10, <1>14, <1>16, <1>17, <1>18 DEF ImageInv

\* A save that starts keeps the invariant.
LEMMA SaveKeepsInv == ASSUME NEW s \in Saves, Inv, Save(s) PROVE Inv'
<1>1. TypeOK /\ StepsShown /\ ImageInv /\ Continue(s, images, 0, url) /\ state[s] = "idle"
  BY DEF Inv, Save, Saves
<1>2. images \in [Slots -> Images \union {NoImage}] /\ url \in [Slots -> Urls \union {Blank, Logo}]
  BY <1>1 DEF TypeOK
<1>3. args' = [args EXCEPT ![s] = images] /\ stored' = stored
  BY DEF Save
<1>4. TypeOK'
  <2>1. /\ url' \in [Slots -> Urls \union {Blank, Logo}]
        /\ state' \in [Saves -> {"idle", "uploading", "published", "failed"}]
        /\ at' \in [Saves -> Slots]
        /\ docs' \in [Saves -> Recipes \union {NoRecipe}]
    BY <1>1, <1>2, ContinueType
  <2>2. args' \in [Saves -> [Slots -> Images \union {NoImage}]]
    BY <1>1, <1>2, <1>3 DEF TypeOK
  <2>3. /\ timers' \in Nat /\ disturbed' \subseteq Saves
        /\ UNCHANGED <<currentUser, top, formVars, user, stored, edits>>
    BY <1>1 DEF Save, TypeOK, Overlap, Uploading
  <2> QED
    BY <1>1, <2>1, <2>2, <2>3 DEF TypeOK, formVars
<1>5. StepsShown'
  BY <1>1 DEF Save, formVars, StepsShown
<1>6. \A n \in Slots : args[s][n] = NoImage
  BY <1>1 DEF ImageInv, IdleArgs
<1>7. Sound(url, stored', args')
  <2> SUFFICES ASSUME NEW n \in Slots, url[n] \notin {Blank, Logo}
               PROVE  /\ url[n] \in stored'
                      /\ \E t \in Saves : args'[t][n] # NoImage /\ url[n] = [slot |-> n, image |-> args'[t][n]]
    BY DEF Sound
  <2>1. PICK t \in Saves : /\ url[n] \in stored /\ args[t][n] # NoImage
                           /\ url[n] = [slot |-> n, image |-> args[t][n]]
    BY <1>1 DEF ImageInv, UrlsGood, Good
  <2>2. t # s /\ args'[t] = args[t]
    BY <1>1, <1>3, <1>6, <2>1 DEF TypeOK
  <2> QED
    BY <1>3, <2>1, <2>2
<1>8. Includes(images, args[s]) /\ BlankOnlyWhere(url, url) /\ Behind(url, images, 0, stored')
  BY <1>6 DEF Includes, BlankOnlyWhere, Behind, Slots
<1>9. ImageInv'
  BY <1>1, <1>2, <1>3, <1>7, <1>8, ContinueImages
<1> QED
  BY <1>4, <1>5, <1>9 DEF Inv

\* An upload that completes keeps it, whichever other saves are under way.
LEMMA UploadKeepsInv == ASSUME NEW s \in Saves, Inv, UploadDone(s) PROVE Inv'
<1> DEFINE f == args[s][at[s]]
           U == [url EXCEPT ![at[s]] = Uploaded(s)]
<1>1. TypeOK /\ StepsShown /\ ImageInv /\ state[s] = "uploading"
      /\ Continue(s, args[s], at[s] + 1, U) /\ args' = args
      /\ stored' = stored \union {Uploaded(s)}
  BY DEF Inv, UploadDone
<1>2. at[s] \in Slots /\ at[s] + 1 \in Nat /\ args[s] \in [Slots -> Images \union {NoImage}]
  BY <1>1 DEF TypeOK, Slots
<1>3. f \in Images /\ f # NoImage /\ Uploaded(s) = [slot |-> at[s], image |-> f] /\ Uploaded(s) \in Urls
  BY <1>1, <1>2 DEF ImageInv, Progress, Uploaded, Urls
<1>4. U \in [Slots -> Urls \union {Blank, Logo}]
      /\ U[at[s]] = Uploaded(s) /\ \A n \in Slots : n # at[s] => U[n] = url[n]
  BY <1>1, <1>2, <1>3 DEF TypeOK
<1> HIDE DEF U
<1>5. TypeOK'
  <2>1. /\ url' \in [Slots -> Urls \union {Blank, Logo}]
        /\ state' \in [Saves -> {"idle", "uploading", "published", "failed"}]
        /\ at' \in [Saves -> Slots]
        /\ docs' \in [Saves -> Recipes \union {NoRecipe}]
    BY <1>1, <1>2, <1>4, ContinueType
  <2>2. stored' \subseteq Urls
    BY <1>1, <1>3 DEF TypeOK
  <2>3. UNCHANGED <<currentUser, top, formVars, user, args, timers, edits, disturbed>>
    BY DEF UploadDone
  <2> QED
    BY <1>1, <2>1, <2>2, <2>3 DEF TypeOK, formVars
<1>6. StepsShown'
  BY <1>1 DEF UploadDone, formVars, StepsShown
<1>7. args' = [args EXCEPT ![s] = args[s]]
  BY <1>1 DEF TypeOK
<1>8. Uploaded(s) # Blank
  BY <1>3, UrlAssumption
<1>9. Sound(U, stored', args')
  <2> SUFFICES ASSUME NEW n \in Slots, U[n] \notin {Blank, Logo}
               PROVE  /\ U[n] \in stored'
                      /\ \E t \in Saves : args'[t][n] # NoImage /\ U[n] = [slot |-> n, image |-> args'[t][n]]
    BY DEF Sound
  <2>1. CASE n = at[s]
    BY <1>1, <1>3, <1>4, <2>1
  <2>2. CASE n # at[s]
    BY <1>1, <1>4, <2>2 DEF ImageInv, UrlsGood, Good
  <2> QED
    BY <2>1, <2>2
<1>10. Includes(args[s], args[s]) /\ BlankOnlyWhere(U, url)
  BY <1>4, <1>8 DEF Includes, BlankOnlyWhere
<1>11. Behind(U, args[s], at[s] + 1, stored')
  <2> SUFFICES ASSUME NEW n \in Slots, n < at[s] + 1
               PROVE U[n] # Blank /\ (args[s][n] # NoImage => [slot |-> n, image |-> args[s][n]] \in stored')
    BY DEF Behind
  <2>1. CASE n = at[s]
    BY <1>1, <1>3, <1>4, <1>8, <2>1
  <2>2. CASE n # at[s]
    <3>1. n < at[s]
      BY <1>2, <2>2 DEF Slots
    <3> QED
      BY <1>1, <1>4, <2>2, <3>1 DEF ImageInv, Progress
  <2> QED
    BY <2>1, <2>2
<1>12. ImageInv'
  BY <1>1, <1>2, <1>4, <1>7, <1>9, <1>10, <1>11, ContinueImages
<1> QED
  BY <1>5, <1>6, <1>12 DEF Inv

\* An upload that fails keeps it.
LEMMA FailureKeepsInv == ASSUME NEW s \in Saves, Inv, UploadFails(s) PROVE Inv'
<1>1. TypeOK'
  BY DEF Inv, UploadFails, TypeOK, formVars
<1>2. StepsShown'
  BY DEF Inv, UploadFails, formVars, StepsShown
<1>3. /\ state'[s] = "failed" /\ \A t \in Saves : t # s => state'[t] = state[t]
      /\ UNCHANGED <<url, args, at, stored, docs>>
  BY DEF Inv, TypeOK, UploadFails
<1>4. docs[s] = NoRecipe
  BY DEF Inv, ImageInv, DocsPublished, UploadFails
<1>5. ImageInv'
  BY <1>3, <1>4 DEF Inv, ImageInv, UrlsGood, Good, IdleArgs, Progress,
         DocsPublished, PublishedImages, UploadsPrecedeDocument
<1> QED
  BY <1>1, <1>2, <1>5 DEF Inv

-----------------------------------------------------------------------------
(* Theorems *)

\* Every step keeps the invariant.
LEMMA InvNext == Inv /\ [Next]_vars => Inv'
<1> SUFFICES ASSUME Inv, [Next]_vars PROVE Inv'
  OBVIOUS
<1>1. CASE FormStep
  BY <1>1, FormType, SavesAlone, ImagesAlone DEF Inv
<1>2. CASE PageStep
  BY <1>2, PageType, SavesAlone, ImagesAlone DEF Inv
<1>3. ASSUME NEW s \in Saves, Save(s) \/ UploadDone(s) \/ UploadFails(s) PROVE Inv'
  BY <1>3, SaveKeepsInv, UploadKeepsInv, FailureKeepsInv
<1>4. CASE UNCHANGED vars
  <2>1. TypeOK' /\ StepsShown'
    BY <1>4 DEF Inv, vars, formVars, saveVars, TypeOK, StepsShown
  <2>2. ImageInv'
    BY <1>4, ImagesAlone DEF Inv, vars
  <2> QED
    BY <2>1, <2>2 DEF Inv
<1> QED
  BY <1>1, <1>2, <1>3, <1>4 DEF Next, FormStep, PageStep

\* The invariant holds always.
LEMMA InvAlways == Spec => []Inv
BY InvInit, InvNext, PTL DEF Spec

\* Every reachable state of the page, its saves and its documents has its type;
\* in particular no recipe is published without an owner.
THEOREM TypeCorrect == Spec => []TypeOK
BY InvAlways, PTL DEF Inv

\* The buttons that add and remove steps keep the flags of the steps and the
\* number of the last one in agreement.
THEOREM StepsAreShown == Spec => []StepsShown
BY InvAlways, PTL DEF Inv

\* However many saves write to the shared URLs, a published recipe shows only
\* logos and uploaded images that were picked for that slot.
THEOREM ImagesAreSound == Spec => []PublishedImages
BY InvAlways, PTL DEF Inv, ImageInv

\* The images of a save are all stored when its document is written.
THEOREM UploadsComeFirst == Spec => []UploadsPrecedeDocument
BY InvAlways, PTL DEF Inv, ImageInv

-----------------------------------------------------------------------------
(* Saves that nobody disturbs *)

\* The URL a save that is alone leaves in slot k.
Own(s, k) == IF args[s][k] = NoImage THEN Logo ELSE [slot |-> k, image |-> args[s][k]]

\* While such a save uploads, the form still is the one that was validated and
\* the shared fields hold the URLs of its own images.
AloneSave(s) ==
    /\ Valid /\ currentUser = user
    /\ \A t \in Saves : state[t] = "uploading" => t = s
    /\ \A k \in Slots : k < at[s] => url[k] = Own(s, k)

AloneInv ==
    /\ UndisturbedSave
    /\ top = "create" => currentUser = user
    /\ \A s \in Saves \ disturbed : state[s] = "uploading" => AloneSave(s)

\* The form that the validators and the document read.
textVars == <<productname, processDes, boxes, etcDescription, detailVideo,
              etcField, offingre>>

\* A step of the form or of the pages disturbs every save that is uploading, or
\* leaves alone all that the save is going to read.
LEMMA DisturbOrLeave ==
    FormStep \/ PageStep =>
        /\ UNCHANGED <<user, saveVars>>
        /\ top' = "create" => top = "create" /\ currentUser' = currentUser
        /\ \/ disturbed' = disturbed \union Uploading
           \/ UNCHANGED <<textVars, currentUser, disturbed>>
<1> USE DEF textVars, formVars
<1>1. FormStep => /\ UNCHANGED <<user, saveVars, currentUser, top>>
                  /\ \/ disturbed' = disturbed \union Uploading
                     \/ UNCHANGED <<textVars, currentUser, disturbed>>
  BY DEF FormStep, TypeName, TypeVideo, DescribeStep, PickImage, CheckKategorie,
         CheckIngredient, FoldIngredients, TypeEtc, RemoveStep, AddStep, Edit
<1>2. PageStep => /\ UNCHANGED <<user, saveVars>> /\ top' # "create"
                  /\ \/ disturbed' = disturbed \union Uploading
                     \/ UNCHANGED <<textVars, currentUser, disturbed>>
  <2>1. DelayedPop => top' # "create"
    BY DEF DelayedPop
  <2> QED
    BY <2>1 DEF PageStep, DelayedPop, Cancel, PageGone, SignOut, SignIn
<1> QED
  BY <1>1, <1>2

\* So it keeps what is known of the saves that are alone.
LEMMA LeaveAlone == TypeOK /\ AloneInv /\ (FormStep \/ PageStep) => AloneInv'
<1> SUFFICES ASSUME TypeOK, AloneInv, FormStep \/ PageStep PROVE AloneInv'
  OBVIOUS
<1>1. UNCHANGED <<user, saveVars>> /\ disturbed \subseteq disturbed'
      /\ (top' = "create" => top = "create" /\ currentUser' = currentUser)
  BY DisturbOrLeave
<1>2. UndisturbedSave'
  BY <1>1 DEF AloneInv, UndisturbedSave, saveVars
<1>3. (top = "create" => currentUser = user)'
  BY <1>1 DEF AloneInv
<1>4. ASSUME NEW s \in Saves, s \notin disturbed', state'[s] = "uploading"
      PROVE  AloneSave(s)'
  <2>1. state[s] = "uploading" /\ s \notin disturbed /\ s \in Uploading
    BY <1>1, <1>4 DEF saveVars, Uploading
  <2>2. UNCHANGED <<textVars, currentUser>>
    BY <1>4, <2>1, DisturbOrLeave
  <2>3. AloneSave(s)
    BY <2>1 DEF AloneInv
  <2> QED
    BY <1>1, <2>2, <2>3 DEF AloneSave, Valid, Own, textVars, saveVars
<1> QED
  BY <1>2, <1>3, <1>4 DEF AloneInv

\* Save s goes on from slot k with URLs u while no other save is uploading: if u
\* holds its own URLs up to k, the shared URLs and the document do.
LEMMA ContinueAlone ==
    ASSUME NEW s \in Saves, NEW a \in [Slots -> Images \union {NoImage}],
           NEW k \in Nat, NEW u \in [Slots -> Urls \union {Blank, Logo}],
           TypeOK, ImageInv, UndisturbedSave, Continue(s, a, k, u),
           state[s] \in {"idle", "uploading"},
           args' = [args EXCEPT ![s] = a], UNCHANGED <<formVars, user, currentUser>>,
           disturbed \subseteq disturbed',
           s \notin disturbed' =>
              /\ Valid /\ currentUser = user
              /\ \A t \in Saves : state[t] = "uploading" => t = s
              /\ \A n \in Slots : n < k => u[n] = Own(s, n)'
    PROVE  /\ UndisturbedSave'
           /\ s \notin disturbed' /\ state'[s] = "uploading" => AloneSave(s)'
<1>0. /\ url' = Filled(u, a, k)
      /\ \/ /\ state' = [state EXCEPT ![s] = "uploading"] \/ state' = [state EXCEPT ![s] = "failed"]
            /\ at'[s] \in Slots /\ at'[s] >= k /\ at' = [at EXCEPT ![s] = at'[s]]
            /\ \A n \in Slots : n >= k /\ n < at'[s] => a[n] = NoImage /\ url'[n] = Logo
            /\ docs' = docs
         \/ /\ state' = [state EXCEPT ![s] = "failed"] /\ at' = at /\ docs' = docs
         \/ /\ state' = [state EXCEPT ![s] = "published"] /\ at' = at
            /\ docs' = [docs EXCEPT ![s] = Document(url')]
            /\ \A n \in Slots : n >= k => a[n] = NoImage /\ url'[n] = Logo
  BY ContinueFacts
<1>1. /\ args'[s] = a /\ \A t \in Saves : t # s => args'[t] = args[t]
      /\ \A t \in Saves : t # s => state'[t] = state[t] /\ docs'[t] = docs[t]
  BY <1>0 DEF TypeOK
<1>2. \A n \in Slots : n < k => url'[n] = u[n]
  <2>1. Slots \subseteq Nat
    BY DEF Slots
  <2> QED
    BY <1>0, <2>1 DEF Filled
<1>3. \A n \in Slots : a[n] = NoImage => Own(s, n)' = Logo
  BY <1>1 DEF Own
<1>4. Slots \subseteq Nat
  BY DEF Slots
<1>5. docs[s] = NoRecipe
  BY DEF ImageInv, DocsPublished
<1>6. s \notin disturbed' /\ state'[s] = "uploading" => AloneSave(s)'
  <2> SUFFICES ASSUME s \notin disturbed', state'[s] = "uploading" PROVE AloneSave(s)'
    OBVIOUS
  <2>1. Valid' /\ (currentUser = user)'
    BY DEF Valid, formVars
  <2>2. \A t \in Saves : state'[t] = "uploading" => t = s
    BY <1>1
  <2>3. \A n \in Slots : n >= k /\ n < at'[s] => a[n] = NoImage /\ url'[n] = Logo
    BY <1>0 DEF TypeOK
  <2>4. ASSUME NEW n \in Slots, n < at'[s] PROVE url'[n] = Own(s, n)'
    <3>1. CASE n < k
      BY <1>2, <3>1
    <3>2. CASE n >= k
      BY <1>3, <2>3, <2>4, <3>2
    <3> QED
      BY <1>4, <3>1, <3>2
  <2> QED
    BY <2>1, <2>2, <2>4 DEF AloneSave
<1>7. UndisturbedSave'
  <2> SUFFICES ASSUME NEW t \in Saves, t \notin disturbed', docs'[t] # NoRecipe
               PROVE  /\ docs'[t].owner = user'
                      /\ docs'[t].name \notin {Default, Empty}
                      /\ docs'[t].des[0] \notin {Default, Empty}
                      /\ docs'[t].video # TooLong
                      /\ \A n \in Slots : docs'[t].url[n] = Own(t, n)'
    BY DEF UndisturbedSave, Own
  <2>1. CASE t = s
    <3>1. /\ docs'[s] = Document(url')
          /\ \A n \in Slots : n >= k => a[n] = NoImage /\ url'[n] = Logo
      BY <1>0, <1>5, <2>1 DEF TypeOK
    <3>2. \A n \in Slots : url'[n] = Own(s, n)'
      BY <1>2, <1>3, <1>4, <2>1, <3>1
    <3>3. Valid /\ currentUser = user
      BY <2>1
    <3> HIDE DEF Own
    <3> QED
      BY <2>1, <3>1, <3>2, <3>3 DEF Document, Valid, formVars
  <2>2. CASE t # s
    BY <1>1, <2>2 DEF UndisturbedSave, Own
  <2> QED
    BY <2>1, <2>2
<1> QED
  BY <1>6, <1>7

\* A save that starts alone is alone; one that does not disturbs the others.
LEMMA SaveAlone == ASSUME NEW s \in Saves, Inv, AloneInv, Save(s) PROVE AloneInv'
<1>1. /\ TypeOK /\ ImageInv /\ Continue(s, images, 0, url) /\ state[s] = "idle"
      /\ args' = [args EXCEPT ![s] = images] /\ Valid /\ top = "create"
      /\ UNCHANGED <<top, formVars, user, currentUser>>
      /\ disturbed' = Overlap(s)
  BY DEF Inv, Save, Saves
<1>2. images \in [Slots -> Images \union {NoImage}] /\ url \in [Slots -> Urls \union {Blank, Logo}]
  BY <1>1 DEF TypeOK
<1>3. Uploading \subseteq disturbed' /\ disturbed \subseteq disturbed'
      /\ (s \notin disturbed' => Uploading = {})
  BY <1>1 DEF Overlap
<1>4. currentUser = user
  BY <1>1 DEF AloneInv
<1>5. \A t \in Saves : s \notin disturbed' /\ state[t] = "uploading" => t = s
  BY <1>3 DEF Uploading
<1>6. \A n \in Slots : n < 0 => url[n] = Own(s, n)'
  BY DEF Slots
<1>7. /\ UndisturbedSave'
      /\ s \notin disturbed' /\ state'[s] = "uploading" => AloneSave(s)'
  <2>1. UndisturbedSave
    BY DEF AloneInv
  <2> QED
    BY <1>1, <1>2, <1>3, <1>4, <1>5, <1>6, <2>1, ContinueAlone
<1>8. ASSUME NEW t \in Saves, t \notin disturbed', state'[t] = "uploading" PROVE t = s
  <2>1. t # s => state'[t] = state[t]
    BY <1>1, <1>2, ContinueFacts DEF TypeOK
  <2> QED
    BY <1>3, <1>8, <2>1 DEF Uploading
<1> QED
  BY <1>1, <1>4, <1>7, <1>8 DEF AloneInv

\* An upload that completes leaves the URL of an image of its own save.
LEMMA UploadAlone == ASSUME NEW s \in Saves, Inv, AloneInv, UploadDone(s) PROVE AloneInv'
<1> DEFINE U == [url EXCEPT ![at[s]] = Uploaded(s)]
<1>1. /\ TypeOK /\ ImageInv /\ state[s] = "uploading"
      /\ Continue(s, args[s], at[s] + 1, U)
      /\ UNCHANGED <<top, formVars, user, currentUser, args, disturbed>>
  BY DEF Inv, UploadDone
<1>2. /\ at[s] \in Slots /\ at[s] + 1 \in Nat /\ args[s] \in [Slots -> Images \union {NoImage}]
      /\ args' = [args EXCEPT ![s] = args[s]]
  BY <1>1 DEF TypeOK, Slots
<1>3. args[s][at[s]] \in Images /\ args[s][at[s]] # NoImage /\ Uploaded(s) \in Urls
  BY <1>1, <1>2 DEF ImageInv, Progress, Uploaded, Urls
<1>4. U \in [Slots -> Urls \union {Blank, Logo}]
      /\ U[at[s]] = Uploaded(s) /\ \A n \in Slots : n # at[s] => U[n] = url[n]
  BY <1>1, <1>2, <1>3 DEF TypeOK
<1> HIDE DEF U
<1>5. \A t \in Saves, n \in Slots : Own(t, n)' = Own(t, n)
  BY <1>1 DEF Own
<1>6. s \notin disturbed => AloneSave(s)
  BY <1>1 DEF AloneInv
<1>7. ASSUME s \notin disturbed, NEW n \in Slots, n < at[s] + 1 PROVE U[n] = Own(s, n)'
  <2>1. CASE n = at[s]
    BY <1>3, <1>4, <1>5, <2>1 DEF Own, Uploaded
  <2>2. CASE n # at[s]
    <3>1. n < at[s]
      BY <1>2, <1>7, <2>2 DEF Slots
    <3> QED
      BY <1>4, <1>5, <1>6, <1>7, <2>2, <3>1 DEF AloneSave
  <2> QED
    BY <2>1, <2>2
<1>8. /\ UndisturbedSave'
      /\ s \notin disturbed' /\ state'[s] = "uploading" => AloneSave(s)'
  <2>1. UndisturbedSave
    BY DEF AloneInv
  <2>2. s \notin disturbed' =>
              /\ Valid /\ currentUser = user
              /\ \A t \in Saves : state[t] = "uploading" => t = s
              /\ \A n \in Slots : n < at[s] + 1 => U[n] = Own(s, n)'
    BY <1>1, <1>6, <1>7 DEF AloneSave
  <2>3. state[s] \in {"idle", "uploading"} /\ disturbed \subseteq disturbed'
    BY <1>1
  <2> QED
    BY <1>1, <1>2, <1>4, <2>1, <2>2, <2>3, ContinueAlone
<1>9. ASSUME NEW t \in Saves, t \notin disturbed', state'[t] = "uploading" PROVE t = s
  <2>1. t # s => state'[t] = state[t]
    BY <1>1, <1>2, <1>4, ContinueFacts DEF TypeOK
  <2> QED
    BY <1>1, <1>9, <2>1 DEF AloneInv, AloneSave
<1> QED
  BY <1>1, <1>8, <1>9 DEF AloneInv

\* Every step keeps what is known of undisturbed saves.
LEMMA AloneNext == Inv /\ AloneInv /\ [Next]_vars => AloneInv'
<1> SUFFICES ASSUME Inv, AloneInv, [Next]_vars PROVE AloneInv'
  OBVIOUS
<1>1. CASE FormStep \/ PageStep
  BY <1>1, LeaveAlone DEF Inv
<1>2. ASSUME NEW s \in Saves, Save(s) PROVE AloneInv'
  BY <1>2, SaveAlone
<1>3. ASSUME NEW s \in Saves, UploadDone(s) PROVE AloneInv'
  BY <1>3, UploadAlone
<1>4. ASSUME NEW s \in Saves, UploadFails(s) PROVE AloneInv'
  <2>1. /\ UNCHANGED <<currentUser, top, formVars, user, url, args, at, docs, disturbed>>
        /\ \A t \in Saves : state'[t] = "uploading" => state[t] = "uploading"
    BY <1>4 DEF UploadFails, Inv, TypeOK
  <2> QED
    BY <2>1 DEF AloneInv, AloneSave, UndisturbedSave, Valid, Own, formVars
<1>5. CASE UNCHANGED vars
  BY <1>5 DEF vars, formVars, saveVars, AloneInv, AloneSave, UndisturbedSave, Valid, Own
<1> QED
  BY <1>1, <1>2, <1>3, <1>4, <1>5 DEF Next, FormStep, PageStep

\* Whatever happens before and after it, a save whose uploads nobody disturbs
\* publishes the form that was validated, for the user of the page, with its own
\* images and no others.
THEOREM UndisturbedSavesAreFaithful == Spec => []UndisturbedSave
<1>1. Init => AloneInv
  BY DEF Init, AloneInv, UndisturbedSave
<1> QED
  BY <1>1, InvAlways, AloneNext, PTL DEF Spec, AloneInv

-----------------------------------------------------------------------------
(***************************************************************************)
(* RecipeCreate implements Publishing.  Only the steps of a save change    *)
(* what Publishing speaks of; that the files are stored and the document   *)
(* is complete when it appears is the invariant of the images.             *)
(***************************************************************************)
\* The page just opened has no files, no saves and no documents.
LEMMA PublishingInit == Init => Publication!Init
<1> SUFFICES ASSUME Init PROVE Publication!Init
  OBVIOUS
<1>1. \A s \in Saves : Given(s) = {} /\ Shown(s) = {}
  BY DEF Init, Given, Shown, Pending
<1> QED
  BY <1>1 DEF Init, Publication!Init

\* Whatever leaves the saves alone is no step of Publishing.
LEMMA PublishingAlone == UNCHANGED saveVars => UNCHANGED Publication!vars
BY DEF saveVars, Publication!vars, Given, Shown

\* What a save was given are files, stored ones once its document is there; and
\* that document refers to stored files only.
FilesOK ==
    \A s \in Saves :
        /\ Given(s) \subseteq Urls
        /\ docs[s] # NoRecipe => Given(s) \subseteq stored /\ Shown(s) \subseteq stored

\* The invariant of the images says so.
LEMMA FilesFacts == Inv => FilesOK
<1> SUFFICES ASSUME Inv, NEW s \in Saves
             PROVE  /\ Given(s) \subseteq Urls
                    /\ docs[s] # NoRecipe => Given(s) \subseteq stored /\ Shown(s) \subseteq stored
  BY DEF FilesOK
<1>1. Given(s) \subseteq Urls
  BY DEF Given, Pending, Inv, TypeOK, Urls
<1>2. docs[s] # NoRecipe => Given(s) \subseteq stored
  BY DEF Given, Pending, Inv, ImageInv, UploadsPrecedeDocument
<1>3. docs[s] # NoRecipe => Shown(s) \subseteq stored
  BY DEF Shown, Inv, ImageInv, PublishedImages
<1> QED
  BY <1>1, <1>2, <1>3

\* So it is after a step.
LEMMA FilesFactsNext == Inv' => FilesOK'
BY FilesFacts, PTL

\* A step that changes one save, which is not over, and adds at most what it was
\* given, is a step of Publishing.
LEMMA WorkStep ==
    ASSUME NEW s \in Saves, Inv, Inv', state[s] \in {"idle", "uploading"},
           \A t \in Saves : t # s => /\ state'[t] = state[t] /\ args'[t] = args[t]
                                     /\ docs'[t] = docs[t],
           state[s] = "uploading" => args'[s] = args[s],
           \/ state'[s] = "published" /\ docs'[s] # NoRecipe
           \/ state'[s] \in {"uploading", "failed"} /\ docs' = docs,
           stored \subseteq stored', stored' \subseteq stored \union Given(s)
    PROVE  Publication!Work(s)
<1> DEFINE g == [t \in Saves |-> Given(t)]
           h == [t \in Saves |-> Shown(t)]
<1>1. /\ state' = [state EXCEPT ![s] = state'[s]]
      /\ docs' = [docs EXCEPT ![s] = docs'[s]]
  BY DEF Inv, TypeOK
<1>2. \A t \in Saves : t # s => Given(t)' = Given(t) /\ Shown(t)' = Shown(t)
  BY DEF Given, Shown
<1>3. g' = [g EXCEPT ![s] = g'[s]] /\ h' = [h EXCEPT ![s] = h'[s]]
      /\ g[s] = Given(s) /\ g'[s] = Given(s)' /\ h'[s] = Shown(s)'
  BY <1>2
<1>4. Given(s)' \subseteq Urls
      /\ (docs'[s] # NoRecipe => Given(s)' \subseteq stored' /\ Shown(s)' \subseteq stored')
  BY FilesFactsNext DEF FilesOK
<1>5. state[s] = "uploading" => Given(s)' = Given(s)
  BY DEF Given
<1>6. docs' = docs => h' = h
  BY DEF Shown
<1> HIDE DEF g, h
<1>7. /\ Publication!OnlyAt(s, state, state') /\ Publication!OnlyAt(s, docs, docs')
      /\ Publication!OnlyAt(s, g, g') /\ Publication!OnlyAt(s, h, h')
  BY <1>1, <1>3 DEF Publication!OnlyAt
<1>8. CASE state'[s] = "published" /\ docs'[s] # NoRecipe
  <2>1. Publication!Published(s)
    BY <1>3, <1>4, <1>7, <1>8 DEF Publication!Published, g, h
  <2> QED
    BY <1>3, <1>4, <1>5, <1>7, <2>1 DEF Publication!Work, g
<1>9. CASE state'[s] \in {"uploading", "failed"} /\ docs' = docs
  <2>1. Publication!Unpublished(s)
    BY <1>6, <1>9 DEF Publication!Unpublished, h
  <2> QED
    BY <1>3, <1>4, <1>5, <1>7, <2>1 DEF Publication!Work, g
<1> QED
  BY <1>8, <1>9

\* How a save goes on or ends, in the terms of WorkStep.
LEMMA ContinueEnds ==
    ASSUME NEW s \in Saves, NEW a \in [Slots -> Images \union {NoImage}],
           NEW k \in Nat, NEW u \in [Slots -> Urls \union {Blank, Logo}],
           TypeOK, TypeOK', Continue(s, a, k, u)
    PROVE  /\ \A t \in Saves : t # s => state'[t] = state[t] /\ docs'[t] = docs[t]
           /\ \/ state'[s] = "published" /\ docs'[s] # NoRecipe
              \/ state'[s] \in {"uploading", "failed"} /\ docs' = docs
<1>1. \/ /\ state' = [state EXCEPT ![s] = "uploading"] \/ state' = [state EXCEPT ![s] = "failed"]
         /\ docs' = docs
      \/ /\ state' = [state EXCEPT ![s] = "published"] /\ currentUser # NoUser
         /\ docs' = [docs EXCEPT ![s] = Document(url')]
  BY ContinueFacts
<1>2. currentUser # NoUser => Document(url') # NoRecipe
  <2>1. currentUser # NoUser => Document(url') \in Recipes
    BY DEF TypeOK, Document, Recipes
  <2> QED
    BY <2>1, NoRecipeAssumption
<1> QED
  BY <1>1, <1>2 DEF TypeOK

\* Every step is one of Publishing's, or none.
LEMMA PublishingNext == Inv /\ Inv' /\ [Next]_vars => [Publication!Next]_(Publication!vars)
<1> SUFFICES ASSUME Inv, Inv', [Next]_vars
             PROVE  Publication!Next \/ UNCHANGED Publication!vars
  OBVIOUS
<1> USE DEF Inv
<1>1. CASE FormStep \/ PageStep \/ UNCHANGED vars
  BY <1>1, SavesAlone, PublishingAlone DEF vars
<1>2. ASSUME NEW s \in Saves, Save(s) PROVE Publication!Next
  <2>1. /\ Continue(s, images, 0, url) /\ state[s] = "idle"
        /\ args' = [args EXCEPT ![s] = images] /\ stored' = stored
        /\ images \in [Slots -> Images \union {NoImage}]
        /\ url \in [Slots -> Urls \union {Blank, Logo}]
    BY <1>2 DEF Save, Saves, TypeOK
  <2>2. \A t \in Saves : t # s => args'[t] = args[t]
    BY <2>1 DEF TypeOK
  <2>3. /\ \A t \in Saves : t # s => state'[t] = state[t] /\ docs'[t] = docs[t]
        /\ \/ state'[s] = "published" /\ docs'[s] # NoRecipe
           \/ state'[s] \in {"uploading", "failed"} /\ docs' = docs
    BY <2>1, ContinueEnds
  <2>4. Publication!Work(s)
    BY <2>1, <2>2, <2>3, WorkStep
  <2> QED
    BY <2>4 DEF Publication!Next
<1>3. ASSUME NEW s \in Saves, UploadDone(s) PROVE Publication!Next
  <2> DEFINE U == [url EXCEPT ![at[s]] = Uploaded(s)]
  <2>1. /\ Continue(s, args[s], at[s] + 1, U) /\ state[s] = "uploading"
        /\ args' = args /\ stored' = stored \union {Uploaded(s)}
    BY <1>3 DEF UploadDone
  <2>2. /\ at[s] \in Slots /\ at[s] \in Nat /\ at[s] + 1 \in Nat
        /\ args[s] \in [Slots -> Images \union {NoImage}] /\ args[s][at[s]] # NoImage
    BY <2>1 DEF TypeOK, Slots, ImageInv, Progress
  <2>3. Uploaded(s) \in Urls /\ Uploaded(s) \in Given(s)
    BY <2>2 DEF Uploaded, Urls, Given, Pending
  <2>4. U \in [Slots -> Urls \union {Blank, Logo}]
    BY <2>2, <2>3 DEF TypeOK
  <2> HIDE DEF U
  <2>5. /\ \A t \in Saves : t # s => state'[t] = state[t] /\ docs'[t] = docs[t]
        /\ \/ state'[s] = "published" /\ docs'[s] # NoRecipe
           \/ state'[s] \in {"uploading", "failed"} /\ docs' = docs
    BY <2>1, <2>2, <2>4, ContinueEnds
  <2>6. Publication!Work(s)
    BY <2>1, <2>3, <2>5, WorkStep
  <2> QED
    BY <2>6 DEF Publication!Next
<1>4. ASSUME NEW s \in Saves, UploadFails(s) PROVE Publication!Next
  <2>1. /\ state[s] = "uploading" /\ state'[s] = "failed"
        /\ \A t \in Saves : t # s => state'[t] = state[t]
        /\ UNCHANGED <<args, docs, stored>>
    BY <1>4 DEF UploadFails, TypeOK
  <2>2. Publication!Work(s)
    BY <2>1, WorkStep
  <2> QED
    BY <2>2 DEF Publication!Next
<1> QED
  BY <1>1, <1>2, <1>3, <1>4 DEF Next, FormStep, PageStep

\* However saves, uploads, failures and edits interleave, the page publishes as
\* Publishing says.
THEOREM PageImplementsPublishing == Spec => SavesPublish
BY PublishingInit, PublishingNext, InvAlways, PTL DEF Spec, SavesPublish, Publication!Spec

-----------------------------------------------------------------------------
(* The safety part of SavesEnd *)

\* While the page of a save is on top, the callback that leaves it is to come;
\* and a save that has not ended awaits the upload of an image.
NeverStuck ==
    \A s \in Saves :
        /\ state[s] # "idle" /\ top = "create" => timers > 0
        /\ state[s] = "uploading" => args[s][at[s]] # NoImage

\* A save never loses the callback that leaves its page, and no save waits for
\* nothing: SavesEnd needs only that timers expire and uploads end.
THEOREM SavesAreNeverStuck == Spec => []NeverStuck
<1> DEFINE PopDue == \A s \in Saves : state[s] # "idle" /\ top = "create" => timers > 0
<1>1. Init => PopDue
  BY DEF Init
<1>2. Inv /\ PopDue /\ [Next]_vars => PopDue'
  <2> SUFFICES ASSUME Inv, PopDue, [Next]_vars, NEW t \in Saves,
                      state'[t] # "idle", top' = "create"
               PROVE  timers' > 0
    OBVIOUS
  <2>0. timers \in Nat
    BY DEF Inv, TypeOK
  <2>1. CASE FormStep
    <3>1. UNCHANGED <<state, top, timers>>
      BY <2>1 DEF FormStep, TypeName, TypeVideo, DescribeStep, PickImage, CheckKategorie,
             CheckIngredient, FoldIngredients, TypeEtc, RemoveStep, AddStep, Edit, saveVars
    <3> QED
      BY <3>1
  <2>2. CASE PageStep
    BY <2>2 DEF PageStep, DelayedPop, Cancel, PageGone, SignOut, SignIn
  <2>3. ASSUME NEW s \in Saves, Save(s) PROVE timers' > 0
    BY <2>0, <2>3 DEF Save
  <2>4. ASSUME NEW s \in Saves, UploadDone(s) \/ UploadFails(s) PROVE timers' > 0
    <3>1. UNCHANGED <<top, timers>> /\ state[s] # "idle"
      BY <2>4 DEF UploadDone, UploadFails
    <3> QED
      BY <3>1
  <2>5. CASE UNCHANGED vars
    BY <2>5 DEF vars, saveVars
  <2> QED
    BY <2>1, <2>2, <2>3, <2>4, <2>5 DEF Next, FormStep, PageStep
<1>3. Inv /\ PopDue => NeverStuck
  BY DEF NeverStuck, Inv, ImageInv, Progress
<1> HIDE DEF PopDue
<1> QED
  BY <1>1, <1>2, <1>3, InvAlways, PTL DEF Spec
=============================================================================
