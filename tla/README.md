# A TLA+ model of parser_avito

The parser watches search pages of Avito ("subscriptions"), stores new ads in SQLite and in an
Excel file, tells messengers about them, and keeps the stored ads fresh. Several threads and
processes share one request queue, two databases, one set of cookies and one phone used as a
proxy. This directory holds specifications of the parts where the order of their steps matters,
TLC configurations that check them on small instances, and TLAPS proofs of the main results.

Paths below are relative to the root of the repository.

## Inventory

| Component | State | Operations | Talks to | What is hard |
|---|---|---|---|---|
| Request queue, `engine/request_queue.py`, `engine/cancellation.py` | `_queue` of tickets, `_sequence`, `_foreground`, `_lock`, `_next_at` | `run`, `foreground` | called by link workers, the scheduler, the refresher | two locks, a priority that is looked at before it is used, cancellation at every wait |
| Round scheduler and link workers, `engine/app.py` | `workers`, `completed`, `pause_until`, `refresh_allowed`, `_shutdown`, `_provider_links` | `_run_scheduler`, `_link_cycle`, `_process_link`, `_refresh_cycle`, `_current_links` | queue, web store, ads database, Excel file | subscriptions are edited while they are scanned; all threads share one cached copy; shutdown joins threads that wait |
| Notification outbox, `persistence/ads.py`, `engine/app.py:500-536` | table `notification_outbox` | `add_record_from_page`, `claim_notification`, `finish_notification`, `delete_ad` | scan, refresh, messengers | crashes between claim and result, several senders, leases, reused row ids |
| Transports, `notifications/` | none | `notify` with retries, photo, fallback to text | outbox, messengers, SPFA session (photos) | an error after the messenger took the message |
| Ads database, `persistence/ads.py` | tables `viewed`, `ad_refresh_state` | `record_exists`, `update_ad`, `next_ad_for_refresh`, `finish_ad_refresh`, `_migrate` | scan, refresh, REST API | merging rows, the order of refreshes |
| Excel export, `engine/export/excel.py` | the file | `save` | link workers | fails after the database was written |
| HTTP client and SPFA session, `engine/http/`, `engine/cookies/external_api.py` | `_block_attempts`, `unblock_started_at`, `status_history`, cookies, `revision` | `request`, `handle_block`, `poll_unblock`, `expire_unblock`, `photo_access` | link workers, refresher, photos, rotation | a retry loop with a recovery window, a purchase and a rotation inside one another |
| IP rotation, `engine/proxies/` | a worker process, its deadline | `rotate_with_retries` | HTTP client, own proxy | result, time limit, death and cancellation race |
| Own mobile proxy, `mobile_proxy/` | state and lock files, the ADB forward, airplane mode | start, stop, `rotate_ip`, `ensure_forward`, `watch_forward` | rotation, launcher | several processes over one state file; half-done changes of the phone |
| URL converter, `engine/url_converter.py` | cache file, `_last_request_at`, `_request_lock` | `convert` | link workers, SPFA | rate limit across failures, a shared cache file |
| Web store and REST API, `persistence/store.py`, `server/` | users, links with revisions, sessions, failed logins | CRUD of links, login, sessions | web frontend, scheduler | edits under a running scan, limits under parallel requests |
| Database diagnostics, `utils/db_diagnostics.py` | a failure count per operation | `failure`, `success` | both databases | rate limit against recovery |
| Launcher, `run.py`, `scripts/stop.py` | pid files, tmux sessions | `launch`, `stop_previous` | all processes | pids that are used again, a change of mode between two runs |
| Desktop form, `AvitoParser.py`, `load_config.py` | the form, `prev_links`, `stop_event`, `config.toml` | `set_up`, `save_config`, `run_process`, `stop_parser` | the parser in a thread, the file | the file is written from what was read long before |
| Filters and parsing, `engine/filters.py`, `engine/mobile_detail.py` | none | pure functions | scan, refresh | boundaries |
| Logging, monitoring, web frontend, other scripts | | | | no shared state of their own |

What makes each of the first components correct:

- *queue*: one request at a time, a pause after each, first come first served among links, no
  refresh in the foreground, nobody starved, nobody left behind after a stop;
- *scheduler*: a round covers every subscription as it is now, an edit is never lost and soon stops
  the old scan, rounds end, a stop ends everything;
- *outbox*: a bounded number of attempts whatever crashes, a mark that means what it says, one
  sender at a time, every row settled, no message about a deleted ad;
- *session*: quiet while a recovery is open, bounded attempts, no old cookies after new ones;
- *own proxy*: no forgotten forward or tail, no foreign process killed, a rotation that is whole,
  a phone that comes back from the airplane mode;
- *viewed ads*: no subscription loses an ad, every ad is refreshed at last;
- *web application*: revisions that tell edits apart, sessions that end for good, no refusal without
  failures; *converter*: no request without need; *diagnostics*: no failure unaccounted for;
  *launcher*: one copy of each service; *form*: the file keeps what the form does not change.

The hazards, each at its line, are in `PROJECT.json`.

## Modules

| Module | What it is |
|---|---|
| `RequestSlot` | the abstract request slot: what the queue promises |
| `RequestQueue` | the queue, one action per step of `run()`; refines `RequestSlot` |
| `RequestQueueProofs` | type correctness, mutual exclusion, the late refresh, the refinement |
| `NotificationOutbox` | the outbox with its senders |
| `NotificationOutboxProofs` | type correctness and the four safety invariants |
| `RoundScheduler` | scheduler, link workers and refresher over the edited subscriptions |
| `RoundSchedulerProofs` | type correctness, what a round covers, the stale pages, the return of `parse()` |
| `AvitoAccess` | abstract access to Avito: open or suspended |
| `SpfaSession` | a request with its retries, IP changes, SPFA recovery and photos; refines `AvitoAccess` |
| `SpfaSessionProofs` | type correctness, four safety invariants, the window, the refinement |
| `AdbForward` | the ADB forward: commands under a file lock, monitors without it, kills |
| `AdbForwardProofs` | type correctness, the forward that is kept, the programs that are spared |
| `PhoneProxy` | rotation, start and stop of the proxy on the phone, its log, over SSH and ADB |
| `Launcher` | `run.py` and `stop.py` over processes, pid files and tmux sessions |
| `ViewedStore` | viewed ads by rowid and the order of the refreshes between scans, refresher and scripts |
| `PhoneAndCardsProofs` | an undisturbed rotation and stop; the schedule and the subscriptions of ads |
| `WebLinks` | the links of the web application as the parser tells them apart |
| `WebAuth` | registration, login, sessions, the limit of failures |
| `WebProofs` | the revisions of links, the end of sessions, who is refused |
| `UrlConverter` | callers that share converters, over one cache file and one limit of requests |
| `DbDiagnostics` | what is reported of the failures of a database |
| `DesktopGui` | the form over `config.toml` |
| `ServicesProofs` | requests of the converters, the account of failures, the filters, the services |
| `MC...` | instances for TLC: values of numeric constants, symmetry, parts that a run puts side by side |

`RoundScheduler` composes the scan with the queue by the queue's promise: it has the foreground and
admits a refresh only while the foreground is free. The late refresh that `RequestQueue` allows adds
nothing to the scheduler's own state, so it is left to that module. `PhoneProxy` takes
`ensure_forward` and `stop_forward` as one step each, which succeeds or raises: their steps are
`AdbForward`. `ViewedStore` leaves the outbox to `NotificationOutbox`, `DesktopGui` the parser to
`RoundScheduler`.

`MCServices` and `MCPhoneAndCards` put several modules in one run. The modules there share no state,
so their product would only multiply: `part` chooses the module a behaviour belongs to, the others
rest. What such a run shows of a module is what a run of the module alone would. Two modules have
two instances in their run: `WebAuth` one with names and tokens and one with more failures,
`ViewedStore` one with several ads and one with several subscriptions of one ad.

### RequestQueue

`pc[c]` is the place of a thread inside `run()`; the comment at the head of the module lists the
places. A block under `with self._state` is one step. `_queue` and its tickets are the set `queue`
with `number` (the second half of a ticket; the first half follows from the caller's kind).
`_foreground` is kept as the set of its holders rather than as a count. `_next_at` is `delay`, in
ticks still to wait. `cancelled` is the set of callers whose `Cancellation` answers yes: an edit
turns it on and off, a stop turns it on for good. Two variables observe: `since` counts the ticks
after the last request, `late` the refreshes begun in the foreground.

The refinement maps `waiting` to the callers in the queue that have not been served, the slot to the
caller that runs under the lock, and `rested` to `since`.

### NotificationOutbox

A sender is one notification thread. The thread is not joined at shutdown, so one process may have
two; several processes may share the database in any case. Every database call is one transaction
and one step; `finish_notification` is two, because its `SELECT` runs outside the transaction of its
`UPDATE`. Rows get ids as SQLite gives them to an `INTEGER PRIMARY KEY` without `AUTOINCREMENT`: one
more than the largest in the table. Each row carries a job number that the code does not have; it
tells two rows apart that had the same id. `overrun` and `misfired` remember the two events under
which the code cannot keep its word: a send that outlived its lease, and a result written to the row
of another job. `accepted` and `starts` observe the messenger and the attempts.

### RoundScheduler

A subscription is its revision (`persistence/store.py` counts it up on every update), 0 if it is not
there. `_current_links` is two steps, `Fetch` (ask the provider) and `Keep` (store the answer in
`_provider_links`), because every thread calls it and all share the copy; a failed read skips
`Keep`. A worker looks at the copy at each checkpoint. The two checkpoints between the answer of a
page and its save that have no other effect between them are one. `scanned` and `stale` observe:
what was scanned to the end since the pause began, and how many pages a scan saved under a target
that was gone. `_fatal_error` only decides whether `parse()` raises; the model keeps the stop that
goes with it.

### SpfaSession

`RequestQueue` proves that requests do not overlap, so there is one client; its place inside
`request()`, `_rotate` and the provider is `pc`, listed at the head of the module. The times are
ticks still to go: `left` to the end of a recovery window, `timer` to the end of a wait, `cooldown`
to the end of `purchase_cooldown`. Of `status_history` only the run of block statuses at its end is
kept (`bad`), of the two revisions only whether they differ (`stale`), of a rotation whether its
worker process lives and how often one was started. `_recovery_lock` is an `RLock`: the purchase
inside a recovery takes it again, which the model does not show. A photo holds it while it loads.
The clock does not stop while a request to SPFA is in flight, so a window may end under it.

`Restart` keeps what `_save_to_disk` wrote and forgets the recovery, as the code does;
`process` tells the two processes apart, so that in the abstract specification a recovery ends by
an answer of SPFA or by a new process, and in no other way. The `dead` place is a
`ProxyRotationError`, which ends `parse()`. The branches of `_rotate` and of `handle_block` for a
recovery that is already open are left out, because no request is sent in one (`AvitoQuiet`) and
only a request leads there. The worker of a parser that was killed is not followed. A save to disk
that fails is not modelled, nor are the Camoufox client and the provider of own cookies. Other
requests to a proxy service, the phone and SPFA are their answers.

### AdbForward

The monitor process `watch_forward` takes no lock; `ensure_forward` and `stop_forward` hold a file
lock, which the system takes back from a process that is killed. Each system call that another
process can see is a step: the forward, the replacement of the state file, each signal, the look at
the state file and its removal. A call of ADB may fail after it was done, so a failed `_forward` may
have added the port and a failed `_remove_forward` may have removed it. `SeeTerm` is `SystemExit`
raised where the monitor stands, in `finally` as well. A pid is used once by a monitor; another
program may take it afterwards (`TakePid`). Environment: ADB loses a forward, a monitor or a command
is killed at any place (both cost one of `MaxFaults`).

The history `unclaimed` names the only three ways in which a forward is left to nobody: its start
was cut between the forward and the record; the record was written over or unlinked by a monitor
that was not its own; `ensure_forward` forwarded again for a monitor that was just leaving. The code
accepts the first (`created` is set after `_forward`), and the other two need a monitor that ends by
itself while a command runs.

### PhoneProxy

Commands of several processes share no lock here: the rotation worker, the start and stop scripts.
`alone` says of a command that no other one ran since it began; the code promises a whole rotation
only then. The airplane mode is a switch of the phone; over ADB the worker throws it both ways, over
SSH a job on the phone does, which outlives the connection. Bound: a job whose rotation was killed
ends before the next one is launched. The bind address of tinyproxy is `current` or `stale`, as the
network changes with each airplane mode. Over SSH it is a script of the phone that names the network
anew (`FixScript`); where the phone has none, the code logs so and goes on with the old address
(`own_mobile_proxy.py:174-176`), which `RotationWhole` allows. The follower of the log is a process
with its tail on the phone; `orphans` holds a follower whose start was killed before `FOLLOW_PID`
named it. `tiny' = "off"` in `StopClears` picks the steps in which `_stop_tinyproxy` succeeded.

### Launcher

A shell runs `run.py` or `stop.py` step by step; the `todo` of a shell holds the services it has
still to go through. `run.py` stops both the pid files and the tmux sessions of an earlier run,
because the mode may have changed since. A pid file may name a process that ended or another
program. `tmux kill-session` may fail, which is no error of the command: such a session is `kept`,
and the next `launch` finds it and leaves the service to it. Two shells may overlap (`overlap`), a
command may be killed between `Popen` and the pid file (`stray`); the property says what holds up to
the two.

### ViewedStore

A row has its rowid and the columns of the unique index: an ad, a price, a subscription. `viewed`
has no `AUTOINCREMENT`, so new rows go on after the largest rowid of the table, and the rowid of a
row that was deleted at the end is given again (`Numberings`); in which order a page gets its rowids
is left open. `schedule` is `ad_refresh_state` sorted by `last_attempt`. A scan looks its ads up
first and saves them later, while other scans, the refresher, `refresh_ads.py` (with a list it read
once) and `migrate_ads.py` go on. What a card says is one of the outcomes of `mobile_detail.py`:
other fields, a new price, gone, or an error. Of the rows that `UPDATE OR REPLACE` makes equal one
stays, and which one depends on the order in which SQLite visits them (`Survivors`).

`migrate_ads.py` reads the rowids of the rows without a subscription once (`MigrationStarts`) and
then updates one rowid after another with no other condition (`MigrationTakes`, `Assign`).
`migration` is what is left of its list; the history `reused` has the rowids of the list that were
given to new rows since, and that is where it takes a row from a subscription. One copy of the
script runs at a time; it may be stopped anywhere and started again.

### WebLinks, WebAuth

`sqlite3` begins a transaction at the first write, so what a request has read before may have
changed: `update_link` and `create_link_any` are several steps. An id is one more than the largest
that was given (`AUTOINCREMENT`). `seen` keeps what the parser has read. In `WebAuth` the handlers
run in threads and no lock is held from the clock of `_auth_limited` to its count, nor from the list
of `_auth_fail` to its append. Each is a step: read the clock, read and filter the list, put the
result in its place, count; look the list up, append. A failure is its number in the order of time,
`ranOut` is how many are older than the window now, and the window slides by one failure at a time
between any two steps. So a failure that is appended to a list which another thread replaces is
lost, and a thread that read the list before the window moved puts back what another has filtered
out. Hence the limit is no upper bound of the attempts, and no lower bound of the failures in the
window of the request that is refused. What is left of the lower bound is `RefusedByFailures`: the
failures of a refusal are distinct, and none is older than the window of the earliest clock among
the requests that were in `_auth_limited` when it came (`since`). Bounds: `MaxMade` failures of a
kind until a restart; the clock of a failure is read when it is appended, so `_auth_fail` orders
failures by their appends. The wall clock is taken to go forward.

### UrlConverter, DbDiagnostics

`AvitoParse` makes one converter, which all its link workers call; a second one in the process is
that of a parser the form started anew. `_request_lock` and `_last_request_at` are of the class,
hence of the process; the cache in memory is of the converter, the cache file is of every process. A
caller that waited for the lock looks into both caches again (`LoadCache`), because the one before
it may have been told the same link. The file is written to a temporary name and moved, and the
temporary name is the same for all: a writer may move the half of another. `Torn` is such a file;
the next read takes it for an empty cache, so another converter may ask for what is known; nothing
in the code promises otherwise. `asked` remembers what each converter has an answer for. In
`DbDiagnostics` the state changes under a lock and the message is logged after it, so messages may
be out of order; `told` and `counted` follow what was decided under the lock.

### DesktopGui

The file is a record of its links with their filters, one block the form shows and one it does not
(the web server); an older file has flat fields and a list of urls. `Start` is `start_parser` with
`save_config`; the write empties the file first and may be cut (`StartCut`), and an edit by hand may
leave a file that is not TOML. A second click on a button that is hidden already and a Start while
`stop_parser` still runs are left out. So are the conversions of the shown fields, among them a
number the field cannot show.

## Runs

| Run | Instance | Result |
|---|---|---|
| `request_queue` | 2 links, 1 refresher, the round; delays 1..2 ticks, 3 calls | holds |
| `outbox` | 2 senders, 2 ads, 2 prices, 1 recipient, 2 attempts, 2 rows, lease 2 and retry 1 ticks | holds |
| `rows_settle` | the same with one ad and one price, fair | holds |
| `sent_means_accepted` | the same with two ads | violated: finding |
| `round_scheduler` | 2 links of 1 page, one edit, the refresher | holds |
| `link_scan` | 1 link of 2 pages, one edit, one failed read, fair | holds |
| `saved_page_exported` | 1 link of 1 page, fair | violated: finding |
| `spfa_session` | 4 attempts, threshold 2, window 4 and interval 2 ticks, cooldown 3, history 4, 2 rotations, 2 photos, fair | holds |
| `purchases_spaced` | the same with one photo | violated: finding |
| `services` | eight modules, each alone: 2 commands, 2 pids and 2 ports with 2 faults; 2 phone commands with 1 follower and 1 kill; 2 shells, 2 pids, 2 services and 1 cut; 2 requests for links of 1 owner, ids to 2; 2 threads, limit 2, with 2 failures of a kind, or with 1 and a name and a token; 4 callers with 3 converters in 2 processes; 3 reporters, 5 failures; 1 url with 2 filters and 1 edit by hand | holds |
| `phone_and_cards` | 2 phone commands, 1 kill, no follower, no script for the network; 2 ads of 1 link at 1 price, 2 rows, or 1 ad of 2 links at 2 prices, 3 rows; fair | holds |
| `server_kept` | the form of `services` | violated: finding |

Why the bounds are enough for something to happen. *Queue*: three callers are the least at which a
second link overtakes a waiting refresher while a first one holds the lock; with three calls every
caller asks, or one asks again after it was cancelled. *Outbox*: two rows let an id be given again
while an older result is on its way; two attempts give a first, a last and a swept one; a lease of
two ticks is longer than a retry and can be outlived. *Scheduler*: with two links one of them can be
edited before, during and after its scan while the other keeps the round open; the scheduler itself
is the second reader in the run with one link. A second page is needed to tell a page that was about
to be saved from a further one; one failed read shows that a failure misleads one checkpoint.
*Session*: four attempts with a threshold of two let blocks of one call count in the next, let a
recovery begin on the last attempt and another on the extra one; a window of four ticks holds two
polls; a history of four is filled by the blocks of two recoveries; with two photos one can load
while the other waits for a recovery to end. *Forward*: two commands are a stop and a start that
wait for each other; two pids are a monitor and its successor, two ports a change of the port; two
faults kill a monitor and give its pid away, or kill a command as well. A run with three pids (15
million states, not among those listed) found the same. *Phone*: the second command is the one that
makes the first not `alone`. *Launcher*: two services whose order of stop is not that of start, two
shells, one killed command or taken pid. *Links*: two requests cross in `update_link`; ids to 2 let
a deleted link be followed by a new one. *Login*: a limit of two is the least at which a list can be
full of a failure that ran out and one that did not; the sessions need no failures. *Converter*: two
callers of one converter wait for its lock with the same link, another converter of the process
shares the lock but not the cache, a third has a lock of its own, and all share the file.
*Diagnostics*: one thread in each role, enough failures for a second message. *Cards*: two ads are
an order. *Rows*: two prices make rows that differ in the price alone, two subscriptions can lose
one to the other, and three rows are one of each and one of no subscription; with one ad there is
enough to delete a last row and give its rowid again. `MaxTickets`, `MaxJobs`, `MaxEdits`,
`MaxFailures`, `MaxMade`, `MaxId`, `MaxRowid`, `MaxRevision`, `MaxFaults`, `MaxKills` and `MaxCuts`
bound counters that the code does not bound.

`CHECK_DEADLOCK FALSE` stands where the system really stops: the queue after `MaxTickets` calls or a
stop, the parser after `parse()` has returned, a module of the last three runs when its
bounded counters are used up. The outbox never stops, and deadlock is checked.

### What the properties say

- `SlotExclusive`, `OneLateRefresh`, `ImplementsSlot`: requests never overlap, and a refresh runs in
  the foreground at most once, when it had been admitted before. `LinkReturns`: a link that asks
  gets back, served or cancelled. `StopDrains`: a stop empties queue, lock and foreground.
- `AttemptBudget`: claims count, so crashes cannot exceed `NOTIFICATION_MAX_ATTEMPTS`.
  `SentUnlessMisfired`, `OneSenderWithinLease`, `OpenRowHasAd`: the sent mark, the lease and the
  deletion of an ad hold as long as no send outlives its lease and no result goes astray.
  `RowsSettle`: every row is sent, given up or deleted at last.
- `RoundCovers`: when a round ends, each known subscription was scanned to its end under the target
  it has now. `StaleSaves`: after an edit a scan saves at most the page it was about to save; each
  further one takes three misled checkpoints. `EditReachesScan`: a subscription that stays as it is
  gets scanned under its own settings, over and over. `RoundEnds`, `StopReturns`: rounds and
  shutdowns end. `ReturnLeavesNothing`: nobody is left at work when `parse()` returns.
- `AvitoQuiet`, `ImplementsAccess`: no page and no photo is requested while a recovery is open, the
  recovery starts when nothing is in flight and ends by an answer of SPFA or with the process.
  `FreshSession`: a cancellation between the new cookies and the new session does not let old ones
  be sent. `SendBudget`: a call sends at most `max_count_of_retry` + 1 times, the last time after a
  recovery it waited for. `WindowNotExtended`: no answer prolongs a window. `WorkerConfined`: no
  worker process outlives its rotation. `CallReturns`: every call ends, photos or not.
- `ForwardKept`: a port that ADB forwards is on record, has its monitor, or its start was cut; so a
  stop or the next start finds it. `StrangersSafe`: a program that took the pid of an ended monitor
  dies only by a command that was waiting for that end already; the window is the wait of `stop`,
  whose SIGKILL goes to the group without a second look.
- `RotationWhole`: a rotation that nobody disturbs ends with the airplane mode off and tinyproxy on
  the network of now, unless the phone has no script that names it. `StopClears`: a stop that
  reports success left no tail, follower, forward or proxy. `AirplaneEnds`: the airplane mode ends
  whatever becomes of the connection.
- `OneOfEach`: no service runs twice unless two commands overlapped, a pid file was never written or
  tmux would not end a session. It does not say that each service runs: one whose pid was taken by
  another program is skipped.
- `SubscriptionsKept`: `UPDATE OR REPLACE` never takes an ad from a subscription, and the migration
  only by a rowid of its list that was given again since. `EveryAdScheduled`: each ad has one place
  in the order of the refreshes. `RefreshReaches`: a card that is due is refreshed or deleted.
- `SameRevisionSameLink`: equal key and revision mean equal data for the parser, through deletions.
  `EndedStaysEnded`, `RefusedByFailures`: see `WebAuth` above.
- `RequestJustified`: no two conversions of a process at a time, none too early, none whose answer
  the same converter got before, for another of its callers as well. `FailuresAccounted`: failures =
  messages + those counted in one + those to come.
- `FiltersSurvive`: a parser started from the form scans with the filters the file had.

### Fairness

Liveness is checked with TLC only, under weak fairness of what the code schedules by itself:

- a thread inside `run()` moves, since each of its waits has a time limit (0.05 s and 0.1 s) and a
  request has a timeout; time passes; a cancelled scan unwinds; the scheduler closes its round on
  the way out;
- a sender thread polls every 3 s and its sends are bounded in number and by timeouts; time passes;
- the scheduler loop and the link workers run, the pause ends, a refresh ends;
- requests to Avito, SPFA and the CDN end, since each has a time limit, and so does a rotation.
  `HandleBlock` alone has strong fairness: one notification thread loads the photos, and between
  two of them it works on messages with `_recovery_lock` free for longer than a thread that waits
  for it needs to take it.

- the phone runs its job, and a rotation worker that lives switches the airplane mode off;
- a card comes due, the refresher takes the next card, and (strong fairness) no card fails for ever:
  `docs/CONFIG.md:607-650` describes the refresh as repeated in the background, and the order of
  `next_ad_for_refresh` leaves an ad that always fails in front of all others.

Nothing is assumed about edits, stops, crashes, failures, or about a refresh ever being asked for.
Edits and failed reads are finite in number: a subscription edited for ever is restarted for ever,
and the code promises no more. `RowsSettle` takes the recipients to be constant: rows of a recipient
that was taken out of the configuration stay, as `docs/SUBSCRIPTIONS.md` says. A violated temporal
property counts only under these assumptions; `saved_page_exported` fails by one exception.

## Findings

- `docs/SUBSCRIPTIONS.md:99`: a successful delivery is marked for each recipient. A late result may
  mark the row of another job that was given the same id (`persistence/ads.py:370`, `:150`).
- `docs/SUBSCRIPTIONS.md:22-25`: ads of a finished page are not lost to the Excel file. They are if
  `save` raises after the database commit (`engine/app.py:414-416`): later scans skip them as
  viewed.
- `docs/ANTIBLOCK.md:44`: cookies are bought no more often than configured. `purchase_cooldown` only
  decides whether to buy before SPFA is asked (`engine/cookies/external_api.py:226`); when SPFA
  refuses or does not answer, cookies are bought inside the cooldown.
- `docs/CONFIG.md:8`: the form loads `config.toml` and saves it back. `set_up` assigns the block of
  the web server to a local name (`AvitoParser.py:39`, `:47`), so the first Start replaces the block
  by its defaults, the password of the admin among them. What the form has no name for at all, such
  as `detached_mode`, goes the same way.

Three limits of what the documentation says are part of the properties: a refresh may begin in a
round that has just started, once (`OneLateRefresh`, `docs/CONFIG.md:626`), two processes may send
one job when a send outlives its 10 minutes (`OneSenderWithinLease`,
`docs/SUBSCRIPTIONS.md:104-105`), and `migrate_ads.py`, which gives a `source_url` to each row that
has none (`scripts/migrate_ads.py:5-6`), moves a row of a subscription as well when the row was
given a rowid of its list after lines 46-51 had read it, because line 63 has no other condition
(`SubscriptionsKept`).

Three hazards are in the model but in no property. A pid file whose pid another program has by now
makes `stop.py` leave the file and `launch` skip the service (`run.py:83-88`); `OneOfEach` is about
too many services, not too few. A cache file of the converters that was torn or is older than what a
converter knows makes another one ask SPFA again (`url_converter.py:122`). A link that is typed into
the form and was not loaded by it is saved without the filters a hand may have given it in
`config.toml` since (`AvitoParser.py:110`).

## Proofs

TLAPS proves the following for every value of the constants that meets the assumptions stated in the
modules (finite or infinite sets of callers and senders; any delays, leases and attempts).

`RequestQueueProofs`. The invariant says where each place of `run()` puts a thread: in the queue or
not, holding the lock or not. That `lock` has a single holder then gives `SlotExclusive`. For
`OneLateRefresh` the invariant adds who can still become late: only a refresher that stands between
its last look at the foreground and the start of its request, and it holds the lock, so there is
one; once the late refresh has begun in a foreground, nobody stands there until the foreground is
free. `ImplementsSlot` needs in addition that a link past that last look has the oldest ticket of
all links, and that `delay` and `since` together are at least `MinDelay`.

`NotificationOutboxProofs`. The job numbers carry the argument. Rows have different numbers, none
above `posted` (`NumberInv`); a row's attempts are as many as its job's starts (`CountInv`), which
bounds the starts even for rows that are gone; a sender whose result is "ok" holds an accepted job
(`AnswerInv`), and so does a row marked as sent; and a busy sender within its lease holds a row
whose lease is at least as long (`LeaseInv`), which makes it due for nobody else. The last two hold
up to `overrun` and `misfired`, and so do the properties drawn from them.

`SpfaSessionProofs`. Two facts strengthen `AvitoQuiet`. `LockInv`: a photo loads exactly while it
holds `_recovery_lock`, and the client holds it exactly at the four places under it. `RecoveryInv`:
no photo holds the lock in a recovery; none is open from a send until `handle_block` opens one,
and one is open from the wait for a poll to its answer. The first is needed for `handle_block` to
find nobody loading when it takes the lock, the second for a block never to meet an open recovery.
`WindowKept` and `Refinement` follow from them step by step; the other invariants are inductive
together with them.

`AdbForwardProofs`. `ForwardKept` says that *some* monitor runs, which does not say who has the port
on record when it ends. The invariant names the keepers of a port: the record, `unclaimed`, or a
monitor between its forward and its record (`KeptInv`). A monitor in its loop is on record or its
port is unclaimed (`WatchInv`), so a kill costs nothing; whoever is about to remove a record has
seen the port freed, and whatever forwards it again in between is itself a keeper (`RemovedInv` for
the monitor, `ErasedInv` for `_stop`). The second needs that only the holder of the lock is past it
(`LockInv`) and that the monitor of a state that was read has been through its start, and has ended
by the time its record is erased (`RecordInv`). `StrangersSafe` needs only `WaitingInv`: who waits
for a pid that was taken over had begun to wait before, because `Signal` looks at the process.

`RoundSchedulerProofs`. A worker is there exactly for a link in `workers`, and the scheduler gives
back the round before it joins them (`WorkerInv`): hence `ReturnLeavesNothing`. `RoundCovers` needs
what the code keeps in `completed`: for a link without a worker it is what was scanned to the end
since the last pause began, and so is the target that a dead thread has left behind (`ScanInv`).
`StaleSaves` bounds a sum, so its invariant is a balance (`StaleInv`). A revision never comes back
into the store (`RevisionInv`), so a scan of an old target can pass a checkpoint only where its own
read failed, which `failures` counts, or where another thread stores an answer older than the edit.
Each thread has at most one such answer, and can take no new one: three checkpoints for each stale
page but the first, those passed since, and the answers still on their way are together at most the
failures and the links. An answer stored in the copy counts for the scan that has just read it.

`PhoneAndCardsProofs`. A rotation or a stop that is `alone` has all other commands idle
(`AloneInv`), so what it has done stays done, up to the job of the phone and the followers.
`RotationAt` says what a rotation has at each of its places. The job disturbs none of them, because
a rotation over ssh goes on only after the job ended well and over adb there is none (`JobInv`).
Where the script for the network is missing, the address of tinyproxy is left out of it.
`StopClears` needs that every follower is named by `FOLLOW_PID`, is about to be, or is an orphan
(`KnownInv`). That is inductive because only one command at a time is between `Popen` and the file,
and the follower that the file named before is dead by then (`NewbornInv`). For the viewed ads, the
types and `EveryAdScheduled` are inductive by themselves; the work is in lemmas about lists: what
`SetToSeq` makes of a finite set, what joining two lists of different ads and taking one ad out of a
list leave. `SubscriptionsKept` needs that no two rows have one rowid, and that a rowid on the list
of `migrate_ads.py` which was not given again names a row of no subscription (`NumbersInv`). The
first is kept by a save, whose rowids are above all others, the second because only a save makes a
row of a subscription, and then `reused` has its rowid. The rest is by cases on who writes a row: of
the survivors of a new price each subscription has one, and a row that the migration replaces is
replaced by one of the same subscription and ad.

`WebProofs`. `EndedStaysEnded` rests on `OverInv`: no live session has a token that is over, and
the old tokens which the next start would move are neither over nor in use. `RefusedByFailures`
rests on two invariants. `ClockInv`: `since` of a request is no later than the clock of anybody who
may still put a list where it counts, whoever came first. `ListInv`: what a thread has read is later
than its clock, and so what lies in the place of the list while a request counts is later than its
`since`, whichever thread put it there. Then a list of `Limit` different numbers between `since` and
`made` leaves `made - since` at least `Limit`. Ids of links are given once (`RowsInv`), so what
the parser has seen of an id is the past of the link that has it now, or of one that is gone for
good (`SeenInv`): `SameRevisionSameLink`.

`ServicesProofs`. Converters: the places past the lock hold it (`LockInv`), so only the caller there
changes the cache of its converter, and its look into the cache stays true up to the request, also
if other callers of the converter wait (`CacheInv`). Diagnostics: beside the types the balance of
failures needs no strengthening. Form: `FiltersSurvive` is about a parser that runs, and what it
loads was written by `Start`, so the invariant carries it over the write (`FileInv`: the file has
the filters that were read while the parser loads it) and over the form (`FormInv`: an open form
remembers the links that were read). Launcher: as long as no two commands overlapped, a process that
the next command can find is the one in its pid file, or the one `Popen` has just given to the
command that is about to write it, and a service with a session has no such process (`FoundInv`).
`LoopAt` says what each loop of a command has done: the services it has passed in the first loop
have no process, in the second no session but a `kept` one, so that at the loop that starts there is
nothing of the other mode. The services are by definition those that `stop.py` goes through, and
`run.py` goes through the same list before it starts any.

Assumed of the constants beside their types: the markers (`NoFollower`, `NoAd`, `Unassigned`,
`Scheduler`, `Round`, ...) are none of the things they stand apart from, and the ads are finitely
many, since an id is a number of 64 bits (without it the list of the ads of a page need not exist).

Only model-checked: liveness (`LinkReturns`, `StopDrains`, `RowsSettle`, `EditReachesScan`,
`RoundEnds`, `StopReturns`, `CallReturns`, `AirplaneEnds`, `RefreshReaches`), which is out of the
prover's reach. Every invariant, action property and refinement of a run that passes is proved.

## Plan

1. *Done*: queue with its abstract slot, outbox, SPFA session, each with proofs; scheduler, checked.
2. *Done*: `AdbForward`, `WebAuth`, `WebLinks`, `UrlConverter`, `DbDiagnostics`, `PhoneProxy`,
   `Launcher`, `ViewedStore`, `DesktopGui`, checked.
3. *Done*: proofs of every safety property, action property and refinement that is checked.
4. An abstract specification of the outbox (a job is sent, given up or deleted, once) and of the
   scheduler, with the refinements proved.
5. The Camoufox client and the provider of own cookies; the worker of a parser that was killed.

## Not modelled

- *Filters and parsing of answers*: pure functions of one ad or one page. A model would repeat them
  line by line, and a unit test reaches them; what they answer is a choice in `RoundScheduler` and
  `ViewedStore`.
- *Logging and monitoring, web frontend*: output and a client; nothing else reads their state.
- *Scripts run by hand* other than `refresh_ads.py` and `migrate_ads.py`, the first installation of
  the proxy on the phone, the installation of dependencies in `run.py`: no state of their own.
- *Queries* (the list of ads, the statistics of the REST API) change nothing.
- Inside the modelled parts: what the section of each module above names.
