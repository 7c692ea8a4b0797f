--------------------------- MODULE MCWeatherRecipe ---------------------------
(***************************************************************************)
(* WeatherRecipe for TLC: no document, one that is in a single query, and  *)
(* one in two, so that a change can move both, one or none of two queries. *)
(***************************************************************************)
EXTENDS WeatherRecipe

MCLabels == {{}, {"breakfast", "fried"}, {"breakfast", "meal"}}
=============================================================================
