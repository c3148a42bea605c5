------------------------- MODULE NotificationOutbox -------------------------
(***************************************************************************)
(* The persistent queue of notifications: the table notification_outbox of *)
(* persistence/ads.py, filled by the scan (add_record_from_page), emptied  *)
(* by the senders (AvitoParse._deliver_pending_notifications) and cut by   *)
(* the card refresh (delete_ad, update_ad).                                *)
(*                                                                         *)
(* A sender is the notification thread of one parser process; the thread   *)
(* is not joined at shutdown, so a parser started again in the same        *)
(* process adds one.  Each database call is one transaction, hence one     *)
(* step; finish_notification is two, its SELECT runs before the            *)
(* transaction of its UPDATE.  Time is in ticks: wait counts down to       *)
(* retry_at and is 0 once retry_at <= now.                                 *)
(*                                                                         *)
(* Rows are numbered the way SQLite numbers an INTEGER PRIMARY KEY without *)
(* AUTOINCREMENT: one more than the largest id in the table, so the id of  *)
(* a deleted last row is given again.  The model therefore marks each row  *)
(* with a job number of its own, which the code does not have.             *)
(***************************************************************************)
EXTENDS Integers, FiniteSets, Functions

CONSTANTS Ads, Links, Prices,
          Recipients,      \* the configured delivery targets
          Senders,
          MaxAttempts,     \* NOTIFICATION_MAX_ATTEMPTS
          Lease, Retry,    \* the 600 s of a claim and the 60 s after a failure, in ticks
          MaxJobs          \* bound on the rows ever inserted

Events == Ads \X Links \X Prices  \* id, source_key, price
Keys == Events \X Recipients   \* UNIQUE(source_key, ad_id, price, recipient)
Jobs == 1..MaxJobs

ASSUME OutboxAssumption ==
  /\ MaxAttempts \in Nat \ {0}
  /\ Lease \in Nat \ {0}
  /\ Retry \in Nat
  /\ Retry < Lease
  /\ MaxJobs \in Nat
  /\ IsFiniteSet(Keys)

AdOf(key) == key[1][1]

VARIABLES viewed,   \* the events in the table viewed
          outbox,   \* row id -> row
          place,    \* where each sender is in _deliver_pending_notifications
          job,      \* what each sender holds of the row it claimed
          posted,   \* rows inserted so far
          accepted, \* jobs whose message the messenger has taken
          starts,   \* how many deliveries of each job were begun
          overrun,  \* some sender was still busy when its lease ran out
          misfired  \* some result was written to a row of another job

vars == <<viewed, outbox, place, job, posted, accepted, starts, overrun, misfired>>

Row == [key : Keys, number : Jobs, sent : BOOLEAN, failed : BOOLEAN,
        wait : 0..Lease, attempts : 0..MaxAttempts]

Results == {"none", "ok", "transient", "permanent"}
Job == [id : Nat, number : 0..MaxJobs, left : 0..Lease, read : 0..MaxAttempts, result : Results]
NoJob == [id |-> 0, number |-> 0, left |-> 0, read |-> 0, result |-> "none"]

\* idle, sending (claimed, in notify()), done (notify() returned or raised), read
\* (finish_notification has read attempts).
Places == {"idle", "sending", "done", "read"}

TypeOK ==
  /\ viewed \in SUBSET Events
  /\ DOMAIN outbox \in SUBSET (Nat \ {0})
  /\ \A i \in DOMAIN outbox : outbox[i] \in Row
  /\ place \in [Senders -> Places]
  /\ job \in [Senders -> Job]
  /\ posted \in 0..MaxJobs
  /\ accepted \in SUBSET Jobs
  /\ starts \in [Jobs -> Nat]
  /\ overrun \in BOOLEAN
  /\ misfired \in BOOLEAN

Init ==
  /\ viewed = {}
  /\ outbox = [i \in {} |-> NoJob]
  /\ place = [s \in Senders |-> "idle"]
  /\ job = [s \in Senders |-> NoJob]
  /\ posted = 0
  /\ accepted = {}
  /\ starts = [n \in Jobs |-> 0]
  /\ overrun = FALSE
  /\ misfired = FALSE

-----------------------------------------------------------------------------
\* The scan and the refresh.

HasRow(key) == \E i \in DOMAIN outbox : outbox[i].key = key

Above(i) == \A k \in DOMAIN outbox : k < i

NewRow(key, n) ==
  [key |-> key, number |-> n, sent |-> FALSE, failed |-> FALSE, wait |-> 0, attempts |-> 0]

\* add_record_from_page: the events of one link that passed the filter, and one row per
\* event and recipient that has none, in one transaction.  New rows take consecutive
\* ids, in some order, above the largest id in the table.
SavePage(page) ==
  LET new == {key \in page \X Recipients : ~HasRow(key)}
      count == Cardinality(new)
      ids(first) == first..(first + count - 1)
  IN /\ posted + count <= MaxJobs
     /\ viewed' = viewed \cup page
     /\ \E first \in 1..(posted + 1) :
          /\ Above(first)
          /\ first = 1 \/ (first - 1) \in DOMAIN outbox
          /\ \E at \in Bijection(ids(first), new) :
               outbox' = [i \in DOMAIN outbox \cup ids(first) |->
                            IF i \in DOMAIN outbox THEN outbox[i]
                            ELSE NewRow(at[i], posted + 1 + i - first)]
     /\ posted' = posted + count
     /\ UNCHANGED <<place, job, accepted, starts, overrun, misfired>>

\* Fault: the unsent rows of the ad stay in the queue.
DeleteAdKeepsRows(ad) ==
  /\ viewed' = {e \in viewed : e[1] # ad}
  /\ UNCHANGED <<outbox, place, job, posted, accepted, starts, overrun, misfired>>

\* delete_ad: the refresh found the ad removed.
DeleteAd(ad) ==
  LET kept == {i \in DOMAIN outbox : AdOf(outbox[i].key) # ad \/ outbox[i].sent}
  IN /\ viewed' = {e \in viewed : e[1] # ad}
     /\ outbox' = [i \in kept |-> outbox[i]]
     /\ UNCHANGED <<place, job, posted, accepted, starts, overrun, misfired>>

\* update_ad: the refresh rewrites every viewed row of the ad to the price it found;
\* rows that come to coincide are merged (UPDATE OR REPLACE).
UpdateAd(ad, price) ==
  /\ \E e \in viewed : e[1] = ad
  /\ viewed' = {IF e[1] = ad THEN <<ad, e[2], price>> ELSE e : e \in viewed}
  /\ UNCHANGED <<outbox, place, job, posted, accepted, starts, overrun, misfired>>

-----------------------------------------------------------------------------
\* The senders.

Open(row) == ~row.sent /\ ~row.failed
Due(row) == Open(row) /\ row.attempts < MaxAttempts /\ row.wait = 0
Exhausted(row) == Open(row) /\ row.attempts >= MaxAttempts /\ row.wait = 0

\* Fault: no row is given up for its spent attempts.
SweptNone == outbox

\* The first UPDATE of claim_notification: a last attempt cut short by a crash.
Swept ==
  [i \in DOMAIN outbox |->
     IF Exhausted(outbox[i]) THEN [outbox[i] EXCEPT !.failed = TRUE] ELSE outbox[i]]

ClaimedJob(i, n) ==
  [id |-> i, number |-> n, left |-> Lease, read |-> 0, result |-> "none"]

\* claim_notification finds nothing due.
ClaimNothing(s) ==
  /\ place[s] = "idle"
  /\ \A i \in DOMAIN outbox : ~Due(outbox[i])
  /\ outbox' = Swept
  /\ UNCHANGED <<viewed, place, job, posted, accepted, starts, overrun, misfired>>

\* Fault: the claim leases the row and leaves the counting to finish_notification.
ClaimUncounted(s) ==
  /\ place[s] = "idle"
  /\ \E i \in DOMAIN outbox :
       /\ Due(outbox[i])
       /\ \A k \in DOMAIN outbox : Due(outbox[k]) => i <= k
       /\ outbox' = [Swept EXCEPT ![i].wait = Lease]
       /\ job' = [job EXCEPT ![s] = ClaimedJob(i, outbox[i].number)]
       /\ starts' = [starts EXCEPT ![outbox[i].number] = @ + 1]
  /\ place' = [place EXCEPT ![s] = "sending"]
  /\ UNCHANGED <<viewed, posted, accepted, overrun, misfired>>

\* Fault: the claim sets no lease.
ClaimUnleased(s) ==
  /\ place[s] = "idle"
  /\ \E i \in DOMAIN outbox :
       /\ Due(outbox[i])
       /\ \A k \in DOMAIN outbox : Due(outbox[k]) => i <= k
       /\ outbox' = [Swept EXCEPT ![i].attempts = @ + 1]
       /\ job' = [job EXCEPT ![s] = ClaimedJob(i, outbox[i].number)]
       /\ starts' = [starts EXCEPT ![outbox[i].number] = @ + 1]
  /\ place' = [place EXCEPT ![s] = "sending"]
  /\ UNCHANGED <<viewed, posted, accepted, overrun, misfired>>

\* claim_notification takes the due row of the lowest id, leases it and counts the attempt.
Claim(s) ==
  /\ place[s] = "idle"
  /\ \E i \in DOMAIN outbox :
       /\ Due(outbox[i])
       /\ \A k \in DOMAIN outbox : Due(outbox[k]) => i <= k
       /\ outbox' = [Swept EXCEPT ![i].wait = Lease, ![i].attempts = @ + 1]
       /\ job' = [job EXCEPT ![s] = ClaimedJob(i, outbox[i].number)]
       /\ starts' = [starts EXCEPT ![outbox[i].number] = @ + 1]
  /\ place' = [place EXCEPT ![s] = "sending"]
  /\ UNCHANGED <<viewed, posted, accepted, overrun, misfired>>

\* notify() returns, after the messenger took the message, or raises: then the message
\* may have been taken all the same (the answer was lost, or the photo went through and
\* the fallback to text failed).
Notify(s) ==
  /\ place[s] = "sending"
  /\ \E result \in Results \ {"none"}, taken \in BOOLEAN :
       /\ result = "ok" => taken
       /\ job' = [job EXCEPT ![s].result = result]
       /\ accepted' = IF taken THEN accepted \cup {job[s].number} ELSE accepted
  /\ place' = [place EXCEPT ![s] = "done"]
  /\ UNCHANGED <<viewed, outbox, posted, starts, overrun, misfired>>

\* finish_notification, SELECT attempts: without a row there is nothing to finish.
FinishRead(s) ==
  /\ place[s] = "done"
  /\ IF job[s].id \in DOMAIN outbox
     THEN /\ place' = [place EXCEPT ![s] = "read"]
          /\ job' = [job EXCEPT ![s].read = outbox[job[s].id].attempts]
     ELSE /\ place' = [place EXCEPT ![s] = "idle"]
          /\ job' = [job EXCEPT ![s] = NoJob]
  /\ UNCHANGED <<viewed, outbox, posted, accepted, starts, overrun, misfired>>

\* Fault: only a permanent error keeps a row from being marked as sent.
FinishedUnlessPermanent(row, j) ==
  LET failed == j.result = "permanent"
  IN [row EXCEPT !.sent = ~failed, !.failed = failed, !.wait = 0]

\* sent, failed and retry_at as finish_notification computes them.
Finished(row, j) ==
  LET success == j.result = "ok"
      failed == ~success /\ (j.result = "permanent" \/ j.read >= MaxAttempts)
  IN [row EXCEPT !.sent = success, !.failed = failed,
                 !.wait = IF success \/ failed THEN 0 ELSE Retry]

\* finish_notification, UPDATE ... WHERE id = ?: whatever row has the id by now.
FinishWrite(s) ==
  LET i == job[s].id
  IN /\ place[s] = "read"
     /\ outbox' = [k \in DOMAIN outbox |->
                     IF k = i THEN Finished(outbox[k], job[s]) ELSE outbox[k]]
     /\ misfired' = (misfired \/ (i \in DOMAIN outbox /\ outbox[i].number # job[s].number))
     /\ place' = [place EXCEPT ![s] = "idle"]
     /\ job' = [job EXCEPT ![s] = NoJob]
     /\ UNCHANGED <<viewed, posted, accepted, starts, overrun>>

\* The process dies and is started again, or the database refuses the result: the row
\* keeps its lease and the sender begins anew.
Abort(s) ==
  /\ place[s] # "idle"
  /\ place' = [place EXCEPT ![s] = "idle"]
  /\ job' = [job EXCEPT ![s] = NoJob]
  /\ UNCHANGED <<viewed, outbox, posted, accepted, starts, overrun, misfired>>

-----------------------------------------------------------------------------
\* Fault: retry_at in the past keeps counting.
LessUnbounded(n) == n - 1

Less(n) == IF n > 0 THEN n - 1 ELSE 0

\* Time passes for the rows and for the leases of the busy senders.
Tick ==
  /\ \/ \E i \in DOMAIN outbox : outbox[i].wait > 0
     \/ \E s \in Senders : job[s].left > 0
  /\ outbox' = [i \in DOMAIN outbox |-> [outbox[i] EXCEPT !.wait = Less(@)]]
  /\ job' = [s \in Senders |-> [job[s] EXCEPT !.left = Less(@)]]
  /\ overrun' = (overrun \/ \E s \in Senders : place[s] # "idle" /\ job[s].left <= 1)
  /\ UNCHANGED <<viewed, place, posted, accepted, starts, misfired>>

Next ==
  \/ \E link \in Links : \E page \in SUBSET (Ads \X {link} \X Prices) \ {{}} : SavePage(page)
  \/ \E ad \in Ads : DeleteAd(ad) \/ \E price \in Prices : UpdateAd(ad, price)
  \/ \E s \in Senders :
       \/ Claim(s) \/ ClaimNothing(s) \/ Notify(s)
       \/ FinishRead(s) \/ FinishWrite(s) \/ Abort(s)
  \/ Tick

Spec == Init /\ [][Next]_vars

\* The notification thread polls every 3 s and its sends time out; time passes.
Fairness ==
  /\ \A s \in Senders : WF_vars(Claim(s) \/ ClaimNothing(s) \/ Notify(s)
                                \/ FinishRead(s) \/ FinishWrite(s))
  /\ WF_vars(Tick)

FairSpec == Spec /\ Fairness

-----------------------------------------------------------------------------
\* Properties.

\* NOTIFICATION_MAX_ATTEMPTS holds across crashes, restarts and several processes:
\* no job is handed to the messenger more often, because claiming counts, not finishing.
AttemptBudget == \A n \in Jobs : starts[n] <= MaxAttempts

\* A row marked as sent was taken by the messenger, unless a result was written to a
\* row of another job that had been given the id of a deleted one.
SentUnlessMisfired ==
  misfired \/ \A i \in DOMAIN outbox : outbox[i].sent => outbox[i].number \in accepted

\* As long as every send ends within its lease and no result goes astray, a job is in
\* the hands of one sender at a time.
OneSenderWithinLease ==
  overrun \/ misfired \/
    \A s, t \in Senders :
      place[s] # "idle" /\ place[t] # "idle" /\ job[s].number = job[t].number => s = t

\* Under the same conditions no message is prepared for an ad that was deleted: the
\* deletion takes the unsent rows with it and no late result brings one back.
OpenRowHasAd ==
  overrun \/ misfired \/
    \A i \in DOMAIN outbox :
      Open(outbox[i]) => \E e \in viewed : e[1] = AdOf(outbox[i].key)

\* Every row is settled: sent, given up, or deleted with its ad, whatever crashes and
\* failures happen on the way.
RowsSettle ==
  \A key \in Keys :
    (\E i \in DOMAIN outbox : outbox[i].key = key /\ Open(outbox[i]))
      ~> ~(\E i \in DOMAIN outbox : outbox[i].key = key /\ Open(outbox[i]))

\* docs/SUBSCRIPTIONS.md: a successful delivery is marked for each recipient.  The mark
\* stands for a message the messenger has taken.
SentMeansAccepted == \A i \in DOMAIN outbox : outbox[i].sent => outbox[i].number \in accepted
=============================================================================
