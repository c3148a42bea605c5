------------------------ MODULE MCNotificationOutbox ------------------------
(***************************************************************************)
(* A small instance of NotificationOutbox for TLC.                         *)
(***************************************************************************)
EXTENDS NotificationOutbox, TLC

MCMaxAttempts == 2
MCLease == 2
MCRetry == 1
MCMaxJobs == 2

\* Senders, ads and prices are interchangeable: for the runs without liveness.
Symmetry == Permutations(Senders) \cup Permutations(Ads) \cup Permutations(Prices)
=============================================================================
