---------------------------- MODULE AvitoAccess ----------------------------
(***************************************************************************)
(* What engine/cookies/external_api.py promises to those who talk to Avito *)
(* in one process.  Access is open or suspended.  Pages and photos are     *)
(* requested only while it is open; it is suspended only when nothing is   *)
(* in flight; SPFA is asked only while it is suspended, and only an answer *)
(* of SPFA opens it again.  A new process starts with open access; process *)
(* tells it from the one before it.                                        *)
(***************************************************************************)
EXTENDS Integers

CONSTANT Photos

VARIABLES suspended, asking, sending, loading, process

vars == <<suspended, asking, sending, loading, process>>

Init ==
  /\ suspended = FALSE
  /\ asking = FALSE
  /\ sending = FALSE
  /\ loading = {}
  /\ process = 0

Send ==
  /\ ~suspended /\ ~sending
  /\ sending' = TRUE
  /\ UNCHANGED <<suspended, asking, loading, process>>

Sent ==
  /\ sending
  /\ sending' = FALSE
  /\ UNCHANGED <<suspended, asking, loading, process>>

Load(p) ==
  /\ ~suspended
  /\ loading' = loading \cup {p}
  /\ UNCHANGED <<suspended, asking, sending, process>>

Loaded(p) ==
  /\ loading' = loading \ {p}
  /\ UNCHANGED <<suspended, asking, sending, process>>

\* Nothing is in flight; SPFA is asked at once.
Suspend ==
  /\ ~suspended /\ ~sending /\ loading = {}
  /\ suspended' = TRUE
  /\ asking' = TRUE
  /\ UNCHANGED <<sending, loading, process>>

Ask ==
  /\ suspended /\ ~asking
  /\ asking' = TRUE
  /\ UNCHANGED <<suspended, sending, loading, process>>

Answer ==
  /\ asking
  /\ asking' = FALSE
  /\ suspended' \in BOOLEAN
  /\ UNCHANGED <<sending, loading, process>>

Restart ==
  /\ suspended' = FALSE
  /\ asking' = FALSE
  /\ sending' = FALSE
  /\ loading' = {}
  /\ process' = 1 - process

Next ==
  \/ Send \/ Sent \/ Suspend \/ Ask \/ Answer \/ Restart
  \/ \E p \in Photos : Load(p) \/ Loaded(p)

Spec == Init /\ [][Next]_vars
=============================================================================
