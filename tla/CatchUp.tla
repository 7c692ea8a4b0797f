------------------------------- MODULE CatchUp -------------------------------
(***************************************************************************)
(* What the providers of the app promise about a list they hold of remote  *)
(* documents: refrigerator, recipe feed and recommendation all copy one of *)
(* several sources, chosen by whoever asked, through listeners that are    *)
(* never cancelled.  The promise, whatever listeners and gets do:          *)
(*                                                                         *)
(*   - the list changes only by becoming, as a whole, the present content  *)
(*     of a source that was asked for, or by being lost with the process;  *)
(*   - no source that was asked for changes, and nothing else is asked     *)
(*     for, without an answer being due afterwards.                        *)
(***************************************************************************)
CONSTANTS
    Keys,      \* the sources: accounts, categories
    Contents,  \* what a source may hold
    Empty      \* the list before the first answer

VARIABLES
    source,  \* content of every source
    asked,   \* the sources the list may be a copy of
    list,    \* the copy
    due      \* an answer is still to come

vars == <<source, asked, list, due>>

TypeOK ==
    /\ source \in [Keys -> Contents]
    /\ asked \subseteq Keys
    /\ list \in Contents \union {Empty}
    /\ due \in BOOLEAN

Init ==
    /\ source \in [Keys -> Contents]
    /\ asked \subseteq Keys
    /\ list = Empty
    /\ due = TRUE

\* A source is written, or something else is asked for: an answer is due.
Disturb ==
    /\ source' \in [Keys -> Contents]
    /\ asked' \subseteq Keys
    /\ due' = TRUE
    /\ UNCHANGED list

\* A source nobody asked for is written.
Elsewhere ==
    /\ source' \in [Keys -> Contents]
    /\ \A k \in asked : source'[k] = source[k]
    /\ UNCHANGED <<asked, list, due>>

\* An answer: the list becomes what the source holds at this moment.
Refresh(k) ==
    /\ due
    /\ k \in asked
    /\ list' = source[k]
    /\ due' \in BOOLEAN
    /\ UNCHANGED <<source, asked>>

\* The process ends and the app is opened again.
Restart ==
    /\ list' = Empty
    /\ asked' \subseteq Keys
    /\ due' = TRUE
    /\ UNCHANGED source

Next == Disturb \/ Elsewhere \/ (\E k \in asked : Refresh(k)) \/ Restart

Spec == Init /\ [][Next]_vars

\* When no answer is due the list is the present content of one source that was
\* asked for: neither a mixture nor what a source held some time ago.
NothingDueIsCurrent == ~due => \E k \in asked : list = source[k]
=============================================================================
