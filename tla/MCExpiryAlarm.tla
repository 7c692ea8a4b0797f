--------------------------- MODULE MCExpiryAlarm ---------------------------
(***************************************************************************)
(* ExpiryAlarm for TLC: three ticks to a day, foods that expired a day     *)
(* ago up to foods that keep for nine days.                                *)
(***************************************************************************)
EXTENDS ExpiryAlarm

MCFirstDate == - 1
MCLastDate == 9
=============================================================================
