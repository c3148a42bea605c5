--------------------------- MODULE RoundScheduler ---------------------------
(***************************************************************************)
(* The threads of one AvitoParse (engine/app.py): the scheduler loop of    *)
(* _run_scheduler, one worker per link (_link_cycle with _process_link)    *)
(* and the card refresher (_refresh_cycle), over the subscriptions that    *)
(* users edit meanwhile (persistence/store.py).                            *)
(*                                                                         *)
(* A subscription is its revision: 0 when the link is not there, and a     *)
(* higher number after every edit.  _current_links is two steps of the     *)
(* calling thread, because all threads share the copy _provider_links:     *)
(* Fetch asks the provider, Keep stores the answer in the copy, and the    *)
(* copy is what the caller then looks at.  A failed read skips Keep.       *)
(*                                                                         *)
(* The request queue appears here by what RequestSlot promises: workers    *)
(* and the round hold the foreground, a refresh is admitted while it is    *)
(* free and runs from then on.  Each page has one ad per link.      *)
(***************************************************************************)
EXTENDS Integers, FiniteSets

CONSTANTS Keys,          \* the links, by source_key
          Pages,         \* config.count
          MaxEdits,      \* bound on the edits of the links, all in all
          MaxFailures,   \* bound on the failed reads of the web store
          WithPause,     \* config.pause_general > 0
          WithRefresh    \* config.ad_refresh_interval > 0

Scheduler == "scheduler"
Round == "round"

\* The scheduler and the round are no links.
ASSUME SchedulerAssumption ==
  /\ IsFiniteSet(Keys)
  /\ Scheduler \notin Keys /\ Round \notin Keys
  /\ Pages \in Nat \ {0}
  /\ MaxEdits \in Nat
  /\ MaxFailures \in Nat
  /\ WithPause \in BOOLEAN
  /\ WithRefresh \in BOOLEAN

Threads == Keys \cup {Scheduler}
Targets == 0..(MaxEdits + 1)   \* 0: no such link

VARIABLES links,      \* the subscriptions in the store
          revision,   \* the last revision each link has had
          edits,      \* edits so far
          failures,   \* failed reads so far
          copy,       \* _provider_links
          reading,    \* how far each thread is in _current_links
          answer,     \* what the provider answered to it
          sched,      \* place of the scheduler in its loop
          workers,    \* keys of the dict workers
          completed,  \* the dict completed
          pausing,    \* pause_until is not None
          due,        \* pause_until is over
          window,     \* refresh_allowed
          foreground, \* holders of the foreground of the request queue
          place,      \* place of each link worker
          target,     \* the target a worker scans; at its end, its outcome
          page,       \* the page a worker is at
          refresher,  \* place of the card refresher
          stopped,    \* _shutdown or stop_event; a fatal error sets it too
          viewed,     \* ads in the database
          exported,   \* ads in the Excel file
          scanned,    \* target of the last scan that ended since the last pause began
          stale       \* pages a scan saved under a target no longer in the store

store == <<links, revision, edits>>
reads == <<failures, copy, reading, answer>>
loop == <<sched, workers, completed, pausing, due, window>>
scans == <<place, target, page, scanned, stale>>
results == <<viewed, exported>>
vars == <<store, reads, loop, foreground, scans, refresher, stopped, results>>

WorkerPlaces == {"none", "top", "page", "request", "save", "export", "error", "last",
                 "dead"}

TypeOK ==
  /\ links \in [Keys -> Targets]
  /\ revision \in [Keys -> Targets]
  /\ edits \in 0..MaxEdits
  /\ failures \in 0..MaxFailures
  /\ copy \in [Keys -> Targets]
  /\ reading \in [Threads -> {"no", "fetched", "ready"}]
  /\ answer \in [Threads -> [Keys -> Targets]]
  /\ sched \in {"reap", "round", "launch", "join", "done"}
  /\ workers \in SUBSET Keys
  /\ completed \in [Keys -> Targets]
  /\ pausing \in BOOLEAN /\ due \in BOOLEAN /\ window \in BOOLEAN
  /\ foreground \in SUBSET (Keys \cup {Round})
  /\ place \in [Keys -> WorkerPlaces]
  /\ target \in [Keys -> Targets]
  /\ page \in [Keys -> 1..Pages]
  /\ refresher \in {"poll", "queued", "run", "exit"}
  /\ stopped \in BOOLEAN
  /\ viewed \in SUBSET (Keys \X (1..Pages))
  /\ exported \in SUBSET (Keys \X (1..Pages))
  /\ scanned \in [Keys -> Targets]
  /\ stale \in [Keys -> 0..Pages]

Nothing == [k \in Keys |-> 0]

Init ==
  /\ links \in [Keys -> {0, 1}]
  /\ revision = links
  /\ edits = 0
  /\ failures = 0
  /\ copy = Nothing
  /\ reading = [t \in Threads |-> "no"]
  /\ answer = [t \in Threads |-> Nothing]
  /\ sched = "round"
  /\ workers = {}
  /\ completed = Nothing
  /\ pausing = FALSE
  /\ due = TRUE      \* round_number = 0: the first round begins at once
  /\ window = FALSE
  /\ foreground = {}
  /\ place = [k \in Keys |-> "none"]
  /\ target = Nothing
  /\ page = [k \in Keys |-> 1]
  /\ refresher = IF WithRefresh THEN "poll" ELSE "exit"
  /\ stopped = FALSE
  /\ viewed = {}
  /\ exported = {}
  /\ scanned = Nothing
  /\ stale = [k \in Keys |-> 0]

-----------------------------------------------------------------------------
\* The store, its readers and the stop.

\* A link is added or saved again (revision + 1), or removed, or its URL is changed,
\* which removes its key.
EditLink(k) ==
  /\ edits < MaxEdits
  /\ edits' = edits + 1
  /\ \/ /\ links' = [links EXCEPT ![k] = revision[k] + 1]
        /\ revision' = [revision EXCEPT ![k] = @ + 1]
     \/ /\ links[k] # 0
        /\ links' = [links EXCEPT ![k] = 0]
        /\ UNCHANGED revision
  /\ UNCHANGED <<reads, loop, foreground, scans, refresher, stopped, results>>

\* stop_event is set.
Stop ==
  /\ ~stopped
  /\ stopped' = TRUE
  /\ UNCHANGED <<store, reads, loop, foreground, scans, refresher, results>>

\* Where a thread calls _current_links.
Asks(t) ==
  \/ t = Scheduler /\ sched = "launch"
  \/ t \in Keys /\ ~stopped /\ place[t] \in {"top", "page", "request", "save", "error", "last"}

Fetch(t) ==
  /\ Asks(t)
  /\ reading[t] = "no"
  /\ \/ /\ reading' = [reading EXCEPT ![t] = "fetched"]
        /\ answer' = [answer EXCEPT ![t] = links]
        /\ UNCHANGED failures
     \/ /\ failures < MaxFailures
        /\ failures' = failures + 1
        /\ reading' = [reading EXCEPT ![t] = "ready"]
        /\ UNCHANGED answer
  /\ UNCHANGED <<store, copy, loop, foreground, scans, refresher, stopped, results>>

Keep(t) ==
  /\ reading[t] = "fetched"
  /\ copy' = answer[t]
  /\ reading' = [reading EXCEPT ![t] = "ready"]
  /\ answer' = [answer EXCEPT ![t] = Nothing]
  /\ UNCHANGED <<store, failures, loop, foreground, scans, refresher, stopped, results>>

\* The call is over; a stop spares a worker the read.
Looked(t) ==
  /\ reading[t] = "ready" \/ (t \in Keys /\ stopped /\ reading[t] = "no")
  /\ reading' = [reading EXCEPT ![t] = "no"]
  /\ UNCHANGED <<failures, copy, answer>>

-----------------------------------------------------------------------------
\* The scheduler.

\* Fault: the outcome of an ended thread is not recorded.
ReapForgets ==
  LET ended == {k \in workers : place[k] = "dead"}
  IN /\ sched = "reap"
     /\ ~stopped
     /\ sched' = "round"
     /\ workers' = workers \ ended
     /\ place' = [k \in Keys |-> IF k \in ended THEN "none" ELSE place[k]]
     /\ UNCHANGED <<store, reads, completed, pausing, due, window, foreground, target, page,
                    scanned, stale, refresher, stopped, results>>

\* Top of the loop: the ended threads are taken out of workers.
Reap ==
  LET ended == {k \in workers : place[k] = "dead"}
  IN /\ sched = "reap"
     /\ ~stopped
     /\ sched' = "round"
     /\ workers' = workers \ ended
     /\ completed' = [k \in Keys |-> IF k \in ended THEN target[k] ELSE completed[k]]
     /\ place' = [k \in Keys |-> IF k \in ended THEN "none" ELSE place[k]]
     /\ UNCHANGED <<store, reads, pausing, due, window, foreground, target, page, scanned,
                    stale, refresher, stopped, results>>

\* Fault: a round keeps what the last one has completed.
BeginRoundKeeps ==
  /\ sched = "round"
  /\ sched' = "launch"
  /\ IF due
     THEN /\ foreground' = foreground \cup {Round}
          /\ window' = FALSE
          /\ pausing' = FALSE
          /\ due' = FALSE
     ELSE UNCHANGED <<foreground, window, pausing, due>>
  /\ UNCHANGED <<store, reads, workers, completed, scans, refresher, stopped, results>>

\* A round begins when the pause is over: the foreground first, then the window closes.
BeginRound ==
  /\ sched = "round"
  /\ sched' = "launch"
  /\ IF due
     THEN /\ foreground' = foreground \cup {Round}
          /\ window' = FALSE
          /\ completed' = Nothing
          /\ pausing' = FALSE
          /\ due' = FALSE
     ELSE UNCHANGED <<foreground, window, completed, pausing, due>>
  /\ UNCHANGED <<store, reads, workers, scans, refresher, stopped, results>>

\* Fault: a link that was scanned in this round is not compared with its target.
PendingByKey == {k \in Keys : copy[k] # 0 /\ k \notin workers /\ completed[k] = 0}

\* The links without a worker whose current target the round has not scanned.
Pending == {k \in Keys : copy[k] # 0 /\ k \notin workers /\ completed[k] # copy[k]}

\* Starts the workers; with none running the round is over and the pause begins.
Launch ==
  /\ sched = "launch"
  /\ Looked(Scheduler)
  /\ sched' = "reap"
  /\ workers' = workers \cup Pending
  /\ place' = [k \in Keys |-> IF k \in Pending THEN "top" ELSE place[k]]
  /\ target' = [k \in Keys |-> IF k \in Pending THEN copy[k] ELSE target[k]]
  /\ IF ~pausing /\ workers' = {}
     THEN /\ pausing' = TRUE
          /\ window' = WithPause
          /\ foreground' = foreground \ {Round}
          /\ scanned' = Nothing
     ELSE UNCHANGED <<pausing, window, foreground, scanned>>
  /\ UNCHANGED <<store, completed, due, page, stale, refresher, stopped, results>>

PauseOver ==
  /\ pausing /\ ~due /\ sched # "done"
  /\ due' = TRUE
  /\ UNCHANGED <<store, reads, sched, workers, completed, pausing, window, foreground, scans,
                 refresher, stopped, results>>

\* The finally of the scheduler.
Close ==
  /\ sched = "reap" /\ stopped
  /\ sched' = "join"
  /\ foreground' = foreground \ {Round}
  /\ UNCHANGED <<store, reads, workers, completed, pausing, due, window, scans, refresher,
                 stopped, results>>

\* Fault: the shutdown does not wait for the link workers.
JoinRefresher ==
  /\ sched = "join"
  /\ refresher = "exit"
  /\ sched' = "done"
  /\ UNCHANGED <<store, reads, workers, completed, pausing, due, window, foreground, scans,
                 refresher, stopped, results>>

\* All threads have ended; parse() returns, or raises _fatal_error.
Join ==
  /\ sched = "join"
  /\ \A k \in workers : place[k] = "dead"
  /\ refresher = "exit"
  /\ sched' = "done"
  /\ UNCHANGED <<store, reads, workers, completed, pausing, due, window, foreground, scans,
                 refresher, stopped, results>>

-----------------------------------------------------------------------------
\* A link worker.

Goto(k, where) == place' = [place EXCEPT ![k] = where]

Continues(k) == ~stopped /\ copy[k] = target[k]

\* The scan is left, with its foreground; its page counters are forgotten.
Leave(k, where) ==
  /\ Goto(k, where)
  /\ page' = [page EXCEPT ![k] = 1]
  /\ stale' = [stale EXCEPT ![k] = 0]
  /\ foreground' = foreground \ {k}

\* The worker returns its outcome, the target that the round counts as scanned.
Return(k, outcome) ==
  /\ Leave(k, "dead")
  /\ target' = [target EXCEPT ![k] = outcome]
  /\ scanned' = [scanned EXCEPT ![k] = outcome]

\* Fault: the loop of _link_cycle does not look for a stop.
TakeUnstopped(k) ==
  /\ place[k] = "top"
  /\ Looked(k)
  /\ IF copy[k] = 0
     THEN Return(k, 0)
     ELSE /\ Goto(k, "page")
          /\ target' = [target EXCEPT ![k] = copy[k]]
          /\ foreground' = foreground \cup {k}
          /\ UNCHANGED <<page, scanned, stale>>
  /\ UNCHANGED <<store, loop, refresher, stopped, results>>

\* Top of _link_cycle: stopped or without its link the worker returns None; otherwise
\* it takes the current target and opens the foreground.
Take(k) ==
  /\ place[k] = "top"
  /\ Looked(k)
  /\ IF stopped \/ copy[k] = 0
     THEN Return(k, 0)
     ELSE /\ Goto(k, "page")
          /\ target' = [target EXCEPT ![k] = copy[k]]
          /\ foreground' = foreground \cup {k}
          /\ UNCHANGED <<page, scanned, stale>>
  /\ UNCHANGED <<store, loop, refresher, stopped, results>>

\* Any checkpoint: ParseCancelled closes the foreground and begins anew.
Cancel(k) ==
  /\ place[k] \in {"page", "request", "save", "last"}
  /\ Looked(k)
  /\ ~Continues(k)
  /\ Leave(k, "top")
  /\ UNCHANGED <<store, loop, target, scanned, refresher, stopped, results>>

AskPage(k) ==
  /\ place[k] = "page"
  /\ Looked(k)
  /\ Continues(k)
  /\ Goto(k, "request")
  /\ UNCHANGED <<store, loop, foreground, target, page, scanned, stale, refresher, stopped,
                 results>>

\* The IP could not be changed: the whole parser stops.
RequestFatal(k) ==
  /\ place[k] = "request"
  /\ reading[k] = "no"
  /\ ~stopped
  /\ stopped' = TRUE
  /\ Return(k, target[k])
  /\ UNCHANGED <<store, reads, loop, refresher, results>>

\* Fault: range(1, count + 1) counted one too far.
NextPageBeyond(k) ==
  IF page[k] <= Pages
  THEN page' = [page EXCEPT ![k] = @ + 1] /\ Goto(k, "page")
  ELSE UNCHANGED page /\ Goto(k, "last")

NextPage(k) ==
  IF page[k] < Pages
  THEN page' = [page EXCEPT ![k] = @ + 1] /\ Goto(k, "page")
  ELSE UNCHANGED page /\ Goto(k, "last")

\* The request has ended: with ads, with a page without ads, or with a failure that skips
\* the page.  The ads that are not in the database yet pass the filter.
Answer(k) ==
  /\ place[k] = "request"
  /\ Looked(k)
  /\ Continues(k)
  /\ \/ NextPage(k)
     \/ UNCHANGED page /\ Goto(k, "last")
     \/ <<k, page[k]>> \notin viewed /\ UNCHANGED page /\ Goto(k, "save")
  /\ UNCHANGED <<store, loop, foreground, target, scanned, stale, refresher, stopped, results>>

\* Fault: no checkpoint between the filter and the save.
SaveUnchecked(k) ==
  /\ place[k] = "save"
  /\ reading[k] = "no"
  /\ viewed' = viewed \cup {<<k, page[k]>>}
  /\ stale' = [stale EXCEPT ![k] = IF links[k] # target[k] THEN @ + 1 ELSE @]
  /\ Goto(k, "export")
  /\ UNCHANGED <<store, reads, loop, foreground, target, page, scanned, refresher, stopped,
                 exported>>

\* __save_viewed: the transaction of add_record_from_page.
Save(k) ==
  /\ place[k] = "save"
  /\ Looked(k)
  /\ Continues(k)
  /\ viewed' = viewed \cup {<<k, page[k]>>}
  /\ stale' = [stale EXCEPT ![k] = IF links[k] # target[k] THEN @ + 1 ELSE @]
  /\ Goto(k, "export")
  /\ UNCHANGED <<store, loop, foreground, target, page, scanned, refresher, stopped, exported>>

\* result_storage.save appends the page to the Excel file.
Export(k) ==
  /\ place[k] = "export"
  /\ exported' = exported \cup {<<k, page[k]>>}
  /\ NextPage(k)
  /\ UNCHANGED <<store, reads, loop, foreground, target, scanned, stale, refresher, stopped,
                 viewed>>

\* Something on the way raises (the file is open elsewhere, the database is locked):
\* the scope is left and the exception handler of _link_cycle runs.
Fail(k) ==
  /\ place[k] \in {"page", "request", "save", "export"}
  /\ reading[k] = "no"
  /\ Leave(k, "error")
  /\ UNCHANGED <<store, reads, loop, target, scanned, refresher, stopped, results>>

\* The handler: on a stop or an edit the loop goes on, otherwise the scan is over.
Handle(k) ==
  /\ place[k] = "error"
  /\ Looked(k)
  /\ IF Continues(k)
     THEN Return(k, target[k])
     ELSE Leave(k, "top") /\ UNCHANGED <<target, scanned>>
  /\ UNCHANGED <<store, loop, refresher, stopped, results>>

\* The last checkpoint, then the end of the scan.
End(k) ==
  /\ place[k] = "last"
  /\ Looked(k)
  /\ Continues(k)
  /\ Return(k, target[k])
  /\ UNCHANGED <<store, loop, refresher, stopped, results>>

-----------------------------------------------------------------------------
\* The card refresher.

RefreshGoto(where) ==
  /\ refresher' = where
  /\ UNCHANGED <<store, reads, loop, foreground, scans, results>>

\* A card is due and the window is open: the refresher queues for the slot.
RefreshAsk ==
  /\ refresher = "poll" /\ ~stopped /\ window
  /\ RefreshGoto("queued") /\ UNCHANGED stopped

\* RequestSlot: it runs once the foreground is free; being admitted and then sent back to
\* the queue is no different from waiting in it.
RefreshStart ==
  /\ refresher = "queued" /\ ~stopped /\ foreground = {}
  /\ RefreshGoto("run") /\ UNCHANGED stopped

\* _refresh_ad ends, with its card updated or deleted or with an error.
RefreshEnd ==
  /\ refresher = "run"
  /\ RefreshGoto("poll") /\ UNCHANGED stopped

RefreshFatal ==
  /\ refresher = "run" /\ ~stopped
  /\ stopped' = TRUE
  /\ RefreshGoto("exit")

\* A stop is seen at the top of the loop, in the queue and in the request.
RefreshExit ==
  /\ refresher # "exit" /\ stopped
  /\ RefreshGoto("exit") /\ UNCHANGED stopped

-----------------------------------------------------------------------------
SchedulerStep ==
  \/ Fetch(Scheduler) \/ Keep(Scheduler)
  \/ Reap \/ BeginRound \/ Launch \/ Close \/ Join

WorkerStep(k) ==
  \/ Fetch(k) \/ Keep(k)
  \/ Take(k) \/ Cancel(k) \/ AskPage(k) \/ RequestFatal(k)
  \/ Answer(k) \/ Save(k) \/ Export(k) \/ Handle(k) \/ End(k)

RefreshStep ==
  \/ RefreshAsk \/ RefreshStart \/ RefreshEnd \/ RefreshFatal \/ RefreshExit

Next ==
  \/ \E k \in Keys : EditLink(k) \/ WorkerStep(k) \/ Fail(k)
  \/ SchedulerStep
  \/ PauseOver
  \/ RefreshStep
  \/ Stop

Spec == Init /\ [][Next]_vars

\* Threads run, requests end (each has a timeout), the pause ends.
Fairness ==
  /\ WF_vars(SchedulerStep)
  /\ \A k \in Keys : WF_vars(WorkerStep(k))
  /\ WF_vars(PauseOver)
  /\ WF_vars(RefreshEnd \/ RefreshFatal \/ RefreshExit)

FairSpec == Spec /\ Fairness

-----------------------------------------------------------------------------
\* Safety.

\* Once a subscription is edited or removed, its running scan saves no page under the old
\* target, except the one it was about to save: a further page takes three checkpoints
\* that were all misled, by a failed read of the store or by an older answer of another
\* thread that was still to be stored in the shared copy.
StaleSaves ==
  \A k \in Keys : 3 * (stale[k] - 1) <= failures + Cardinality(Keys)

\* A round ends only when each subscription the scheduler knows was scanned to the end
\* under its present target after the last pause began; a subscription edited after its
\* scan is scanned again in the same round.
RoundCovers ==
  [][pausing' /\ ~pausing => \A k \in Keys : copy[k] # 0 => scanned[k] = copy[k]]_vars

\* When parse() returns no link worker and no refresher is left to send requests or to
\* write to the database, and nobody holds the foreground of the request queue.
ReturnLeavesNothing ==
  sched = "done" => /\ \A k \in Keys : place[k] \in {"none", "dead"}
                    /\ refresher = "exit"
                    /\ foreground = {}

\* Liveness, under FairSpec.

\* A subscription that stays as it is gets scanned under its own settings, again and
\* again, whatever the other threads last read: an edit is never lost.
EditReachesScan ==
  \A k \in Keys, v \in Targets \ {0} :
    links[k] = v ~> \/ links[k] # v
                    \/ stopped
                    \/ place[k] = "dead" /\ target[k] = v

\* A round comes to its end although scans are cancelled, fail and are done again.
RoundEnds == sched # "done" /\ ~pausing ~> pausing \/ stopped

\* After a stop, or a fatal error of any thread, parse() returns.
StopReturns == stopped ~> sched = "done"

\* What docs/SUBSCRIPTIONS.md:22-25 says of a page whose save has begun: it is completed,
\* the ads get into the Excel file before the scan is left.
SavedPageExported ==
  \A k \in Keys, p \in 1..Pages : <<k, p>> \in viewed ~> <<k, p>> \in exported
=============================================================================
