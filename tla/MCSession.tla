----------------------------- MODULE MCSession -----------------------------
(***************************************************************************)
(* Session for TLC.  Three kinds of behaviours: six pages are pushed and   *)
(* one handler waits at a time; five, and two wait; four, one waits, and   *)
(* sign-ins succeed.  Without gets only a guest's failure leads home,      *)
(* which pushes the same page as a success.                                *)
(***************************************************************************)
EXTENDS Session

MCBudgets == {[routes |-> 6, waiting |-> 1, gets |-> 0],
              [routes |-> 5, waiting |-> 2, gets |-> 0],
              [routes |-> 4, waiting |-> 1, gets |-> 1]}
=============================================================================
