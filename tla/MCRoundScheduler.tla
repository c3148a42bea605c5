-------------------------- MODULE MCRoundScheduler --------------------------
(***************************************************************************)
(* A small instance of RoundScheduler for TLC.                             *)
(***************************************************************************)
EXTENDS RoundScheduler, TLC

CONSTANTS k1, k2

\* The keys are interchangeable: for the run without liveness.
Symmetry == Permutations(Keys)
=============================================================================
