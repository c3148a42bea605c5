--------------------------- MODULE MCRequestQueue ---------------------------
(***************************************************************************)
(* RequestQueue for TLC: two link workers, the one refresher that          *)
(* engine/app.py starts, and the round.  Three calls of run() are enough   *)
(* for a link to overtake a refresh that drew its ticket earlier, for two  *)
(* links to contend, and for a second refresh after the first.             *)
(***************************************************************************)
EXTENDS RequestQueue

MCMinDelay == 1
MCMaxDelay == 2
MCMaxTickets == 3
=============================================================================
