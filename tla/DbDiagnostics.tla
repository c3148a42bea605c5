--------------------------- MODULE DbDiagnostics ---------------------------
(***************************************************************************)
(* DatabaseDiagnostics (utils/db_diagnostics.py): what the threads that    *)
(* use one database for one operation report of its failures.  The state   *)
(* is changed under a lock, the message is logged after the lock was given *)
(* back.                                                                   *)
(*                                                                         *)
(* outage is _State: recent says that interval has not passed since        *)
(* last_log.  reporter is a thread with a message it has not logged yet.   *)
(* told and counted are histories of the current outage, the messages that *)
(* were decided and the suppressed failures they name.                     *)
(***************************************************************************)
EXTENDS Integers

CONSTANTS Reporters, Errors,
          NoError,      \* the signature of a fresh state
          MaxFailures   \* bound: failures of one outage

ASSUME DiagnosticsAssumption == NoError \notin Errors /\ MaxFailures \in Nat

VARIABLES outage, reporter, told, counted

diagnosticsVars == <<outage, reporter, told, counted>>

Messages == {"failure", "ready", "recovered"}
Fresh(ready) == [ready |-> ready, failures |-> 0, suppressed |-> 0, signature |-> NoError,
                 recent |-> FALSE]

DiagnosticsTypeOK ==
  /\ outage \in [ready : BOOLEAN, failures : 0..MaxFailures, suppressed : 0..MaxFailures,
                 signature : Errors \cup {NoError}, recent : BOOLEAN]
  /\ reporter \in [Reporters -> Messages \cup {"none"}]
  /\ told \in 0..MaxFailures
  /\ counted \in 0..MaxFailures

DiagnosticsInit ==
  /\ outage = Fresh(FALSE)
  /\ reporter = [r \in Reporters |-> "none"]
  /\ told = 0 /\ counted = 0

\* What failure keeps quiet about.
Known(error) ==
  outage.failures > 0 /\ error = outage.signature /\ outage.recent

Suppress(r, error) ==
  /\ reporter[r] = "none" /\ Known(error) /\ outage.failures < MaxFailures
  /\ outage' = [outage EXCEPT !.failures = @ + 1, !.suppressed = @ + 1]
  /\ UNCHANGED <<reporter, told, counted>>

\* Mutant: the number of suppressed errors is told again and again.
ReportFailureAgain(r, error) ==
  /\ reporter[r] = "none" /\ ~Known(error) /\ outage.failures < MaxFailures
  /\ outage' = [outage EXCEPT !.failures = @ + 1, !.signature = error, !.recent = TRUE]
  /\ reporter' = [reporter EXCEPT ![r] = "failure"]
  /\ told' = told + 1
  /\ counted' = counted + outage.suppressed

ReportFailure(r, error) ==
  /\ reporter[r] = "none" /\ ~Known(error) /\ outage.failures < MaxFailures
  /\ outage' = [outage EXCEPT !.failures = @ + 1, !.suppressed = 0,
                              !.signature = error, !.recent = TRUE]
  /\ reporter' = [reporter EXCEPT ![r] = "failure"]
  /\ told' = told + 1
  /\ counted' = counted + outage.suppressed

\* success: quiet while all is well.
ReportSuccess(r) ==
  /\ reporter[r] = "none"
  /\ ~outage.ready \/ outage.failures > 0
  /\ reporter' = [reporter EXCEPT ![r] = IF outage.failures > 0 THEN "recovered" ELSE "ready"]
  /\ outage' = Fresh(TRUE)
  /\ told' = 0 /\ counted' = 0

\* The environment is looked at and the message logged, in any order.
LogMessage(r) ==
  /\ reporter[r] # "none"
  /\ reporter' = [reporter EXCEPT ![r] = "none"]
  /\ UNCHANGED <<outage, told, counted>>

IntervalOver ==
  /\ outage.recent
  /\ outage' = [outage EXCEPT !.recent = FALSE]
  /\ UNCHANGED <<reporter, told, counted>>

DiagnosticsNext ==
  \/ \E r \in Reporters :
       \/ \E error \in Errors : Suppress(r, error) \/ ReportFailure(r, error)
       \/ ReportSuccess(r) \/ LogMessage(r)
  \/ IntervalOver

DiagnosticsSpec == DiagnosticsInit /\ [][DiagnosticsNext]_diagnosticsVars

---------------------------------------------------------------------------
(* Properties. *)

\* Whatever the threads interleave, an outage is reported with its first
\* failure, and every failure of it is told of or is counted in a message of
\* it or in the number the next message will name.
FailuresAccounted ==
  /\ outage.failures > 0 => told > 0
  /\ outage.failures = told + counted + outage.suppressed
=============================================================================
