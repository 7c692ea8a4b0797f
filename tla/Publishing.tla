----------------------------- MODULE Publishing -----------------------------
(***************************************************************************)
(* What the page that creates a recipe promises about its saves, whatever  *)
(* is edited, uploaded, left or tapped again meanwhile:                    *)
(*                                                                         *)
(*   - a save is given its files when it begins and ends at most once,     *)
(*     published or failed, and stays that way;                            *)
(*   - files are only added, by a save under way, out of those it was      *)
(*     given;                                                              *)
(*   - the document of a save appears in the step that ends it, when all   *)
(*     files it was given are stored, refers to stored files only, and     *)
(*     never changes afterwards.                                           *)
(***************************************************************************)
CONSTANTS
    Saves,
    Files,
    NoDoc

VARIABLES
    phase,   \* of each save
    given,   \* the files it was given
    stored,  \* the files stored
    doc,     \* the document it published
    refers   \* the files that document refers to

vars == <<phase, given, stored, doc, refers>>

Init ==
    /\ phase = [s \in Saves |-> "idle"]
    /\ given = [s \in Saves |-> {}]
    /\ stored = {}
    /\ doc = [s \in Saves |-> NoDoc]
    /\ refers = [s \in Saves |-> {}]

\* Of the functions f, only the value for s changes.
OnlyAt(s, f, g) == g = [f EXCEPT ![s] = g[s]]

Published(s) ==
    /\ phase'[s] = "published"
    /\ given'[s] \subseteq stored'
    /\ OnlyAt(s, doc, doc') /\ doc'[s] # NoDoc
    /\ OnlyAt(s, refers, refers') /\ refers'[s] \subseteq stored'

Unpublished(s) ==
    /\ phase'[s] \in {"uploading", "failed"}
    /\ UNCHANGED <<doc, refers>>

\* Save s begins or goes on, and may end at once.
Work(s) ==
    /\ phase[s] \in {"idle", "uploading"}
    /\ OnlyAt(s, phase, phase') /\ OnlyAt(s, given, given')
    /\ given'[s] \subseteq Files
    /\ phase[s] = "uploading" => given'[s] = given[s]
    /\ stored \subseteq stored' /\ stored' \subseteq stored \union given[s]
    /\ Published(s) \/ Unpublished(s)

Next == \E s \in Saves : Work(s)

Spec == Init /\ [][Next]_vars
=============================================================================
