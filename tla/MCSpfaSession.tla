--------------------------- MODULE MCSpfaSession ---------------------------
(***************************************************************************)
(* SpfaSession for TLC.  With four attempts and a threshold of two the     *)
(* blocks of one call count in the next, a recovery begins on the last     *)
(* attempt and another on the extra one; a window of four ticks holds two  *)
(* polls; a history of four needs the blocks of two recoveries.            *)
(***************************************************************************)
EXTENDS SpfaSession

MCMaxRetries == 4
MCBlockThreshold == 2
MCWindow == 4
MCInterval == 2
MCCooldown == 3
MCMaxStatusHistory == 4
MCRotationAttempts == 2
=============================================================================
