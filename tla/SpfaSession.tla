---------------------------- MODULE SpfaSession ----------------------------
(***************************************************************************)
(* BaseHttpClient.request (engine/http/base.py) of the curl client with    *)
(* ExternalApiCookiesProvider (engine/cookies/external_api.py): the retry  *)
(* loop, the count of blocks, the change of IP (rotate_with_retries of     *)
(* engine/proxies/rotation.py), the recovery window of SPFA, the purchase  *)
(* of cookies, and the photo loaders that share the provider through       *)
(* photo_access().  RequestQueue lets one request() run at a time, so      *)
(* there is one client.                                                    *)
(*                                                                         *)
(* pc is the place of the client:                                          *)
(*   idle     outside request()                                            *)
(*   loop     top of "while True", the pause retry_delay included          *)
(*   wait     in cancellation.wait(delay) of a recovery                    *)
(*   poll     poll_unblock: POST /unblock/ in flight                       *)
(*   send     the request to Avito in flight                               *)
(*   rotate   _rotate: the IP is being changed                             *)
(*   block    handle_block: waiting for _recovery_lock                     *)
(*   unblock  handle_block: POST /unblock/ in flight                       *)
(*   buy      _get_new_cookies: POST /cookies/mobile/ in flight            *)
(*   penalty  _handle_purchase_failure: the IP is being changed            *)
(*   reset    _rotate: handle_block has returned                           *)
(*   dead     a ProxyRotationError has ended the parser                    *)
(* buyer says which of the two calls reached _get_new_cookies; worker says *)
(* that the process which changes the IP is alive, tries counts its starts.*)
(*                                                                         *)
(* suspended is "unblock_started_at is not None" and left the ticks to its *)
(* deadline; cooldown the ticks until purchase_cooldown has passed since   *)
(* last_purchase_at; timer the ticks left of a wait.  bad is the length of *)
(* the run of 403/429/439 that ends status_history, and stale says that    *)
(* revision differs from _cookies_revision.  last_id is always set: the    *)
(* constructor of the client buys cookies if there are none on disk.       *)
(* process tells a start of the parser from the one before it.             *)
(***************************************************************************)
EXTENDS Integers

CONSTANTS Photos,            \* photo downloads that call photo_access()
          MaxRetries,        \* max_count_of_retry
          BlockThreshold,    \* block_threshold
          Window,            \* spfa_unblock_timeout, in ticks
          Interval,          \* spfa_unblock_check_interval, in ticks
          Cooldown,          \* purchase_cooldown, in ticks
          MaxStatusHistory,  \* MAX_STATUS_HISTORY
          RotationAttempts,  \* ip_rotation_attempts
          Client, Nobody     \* holders of _recovery_lock besides the photos

ASSUME LimitAssumption ==
  /\ MaxRetries \in Nat
  /\ BlockThreshold \in Nat \ {0}
  /\ MaxStatusHistory \in Nat \ {0}
  /\ Cooldown \in Nat
  /\ RotationAttempts \in Nat \ {0}

\* The configuration requires a positive interval below the window.
ASSUME WindowAssumption ==
  /\ Interval \in Nat \ {0}
  /\ Window \in Nat
  /\ Interval < Window

ASSUME HolderAssumption ==
  /\ Client \notin Photos
  /\ Nobody \notin Photos
  /\ Client # Nobody

VARIABLES pc, buyer, attempt, recovery_retry, recovery_retry_used, block_attempts,
          suspended, left, timer, bad, cooldown, stale, lock, photo,
          worker, tries, process

call == <<attempt, recovery_retry, recovery_retry_used>>
clock == <<suspended, left, timer>>
cookies == <<bad, cooldown, stale>>
photos == <<lock, photo>>
rotation == <<worker, tries>>

vars == <<process, pc, buyer, call, block_attempts, clock, cookies, photos, rotation>>

Places == {"idle", "loop", "wait", "poll", "send", "rotate", "block", "unblock",
           "buy", "penalty", "reset", "dead"}

Least(a, b) == IF a < b THEN a ELSE b

TypeOK ==
  /\ pc \in Places
  /\ buyer \in {"poll", "block"}
  /\ attempt \in 0..(MaxRetries + 1)
  /\ recovery_retry \in BOOLEAN
  /\ recovery_retry_used \in BOOLEAN
  /\ block_attempts \in 0..BlockThreshold
  /\ suspended \in BOOLEAN
  /\ left \in 0..Window
  /\ timer \in 0..Interval
  /\ bad \in 0..MaxStatusHistory
  /\ cooldown \in 0..Cooldown
  /\ stale \in BOOLEAN
  /\ lock \in Photos \cup {Client, Nobody}
  /\ photo \in [Photos -> {"idle", "wait", "load"}]
  /\ worker \in BOOLEAN
  /\ tries \in 0..RotationAttempts
  /\ process \in {0, 1}

\* _load_from_disk takes the history and the purchase time it finds.
Init ==
  /\ pc = "idle"
  /\ buyer = "block"
  /\ attempt = 0
  /\ recovery_retry = FALSE
  /\ recovery_retry_used = FALSE
  /\ block_attempts = 0
  /\ suspended = FALSE
  /\ left = 0
  /\ timer = 0
  /\ bad \in 0..MaxStatusHistory
  /\ cooldown \in 0..Cooldown
  /\ stale = FALSE
  /\ lock = Nobody
  /\ photo = [p \in Photos |-> "idle"]
  /\ worker = FALSE
  /\ tries = 0
  /\ process = 0

Goto(place) == pc' = place

-----------------------------------------------------------------------------
\* The loop of request().

Call ==
  /\ pc = "idle"
  /\ Goto("loop")
  /\ attempt' = 0
  /\ recovery_retry' = FALSE
  /\ recovery_retry_used' = FALSE
  /\ UNCHANGED <<process, buyer, block_attempts, clock, cookies, photos, rotation>>

\* Fault: a cancelled change of IP leaves its process behind.
CancelLeavesWorker ==
  /\ pc \in {"loop", "wait", "send", "rotate", "reset"}
  /\ Goto("idle")
  /\ UNCHANGED <<process, buyer, call, block_attempts, clock, cookies, photos,
                 rotation>>

\* ParseCancelled at a checkpoint.  The places under _recovery_lock have none; the
\* process that changes the IP is killed on the way out.
Cancel ==
  /\ pc \in {"loop", "wait", "send", "rotate", "reset"}
  /\ Goto("idle")
  /\ worker' = FALSE
  /\ UNCHANGED <<process, buyer, call, block_attempts, clock, cookies, photos, tries>>

AwaitRecovery ==
  /\ pc = "loop"
  /\ suspended
  /\ left > 0
  /\ timer' = Least(Interval, left)
  /\ Goto("wait")
  /\ UNCHANGED <<process, buyer, call, block_attempts, suspended, left, cookies,
                 photos, rotation>>

\* Fault: the next call may send with the cookies that were being recovered.
ExpireReopens ==
  /\ \/ pc = "loop" /\ suspended
     \/ pc = "wait" /\ timer = 0
  /\ left = 0
  /\ suspended' = FALSE
  /\ left' = 0
  /\ block_attempts' = 0
  /\ Goto("idle")
  /\ UNCHANGED <<process, buyer, call, timer, cookies, photos, rotation>>

\* expire_unblock() opens the next window and UnblockTimeoutError ends the call.
Expire ==
  /\ \/ pc = "loop" /\ suspended
     \/ pc = "wait" /\ timer = 0
  /\ left = 0
  /\ left' = Window
  /\ block_attempts' = 0
  /\ Goto("idle")
  /\ UNCHANGED <<process, buyer, call, suspended, timer, cookies, photos, rotation>>

Poll ==
  /\ pc = "wait"
  /\ timer = 0
  /\ left > 0
  /\ lock = Nobody
  /\ lock' = Client
  /\ Goto("poll")
  /\ UNCHANGED <<process, buyer, call, block_attempts, clock, cookies, photo,
                 rotation>>

\* Fault: one more attempt for every recovery.
MaySendPerRecovery == attempt < MaxRetries \/ recovery_retry

\* An ordinary attempt, or the one that follows a recovery waited for.
MaySend ==
  \/ attempt < MaxRetries
  \/ recovery_retry /\ ~recovery_retry_used

\* Fault: the session is not rebuilt for cookies it has not seen.
SendAsIs ==
  /\ pc = "loop"
  /\ ~suspended
  /\ MaySend
  /\ recovery_retry_used' = (recovery_retry_used \/ attempt >= MaxRetries)
  /\ attempt' = attempt + 1
  /\ Goto("send")
  /\ UNCHANGED <<process, buyer, recovery_retry, block_attempts, clock, cookies,
                 photos, rotation>>

\* HttpClient._send first rebuilds a session made from other cookies.
Send ==
  /\ pc = "loop"
  /\ ~suspended
  /\ MaySend
  /\ recovery_retry_used' = (recovery_retry_used \/ attempt >= MaxRetries)
  /\ attempt' = attempt + 1
  /\ stale' = FALSE
  /\ Goto("send")
  /\ UNCHANGED <<process, buyer, recovery_retry, block_attempts, clock, bad, cooldown,
                 photos, rotation>>

GiveUp ==
  /\ pc = "loop"
  /\ ~suspended
  /\ ~MaySend
  /\ Goto("idle")
  /\ UNCHANGED <<process, buyer, call, block_attempts, clock, cookies, photos,
                 rotation>>

\* An answer that is no block: the call returns it, or raise_for_status() retries.
Answered ==
  /\ pc = "send"
  /\ bad' = 0
  /\ block_attempts' = 0
  /\ \E place \in {"idle", "loop"} : Goto(place)
  /\ UNCHANGED <<process, buyer, call, clock, cooldown, stale, photos, rotation>>

NetworkError ==
  /\ pc = "send"
  /\ block_attempts' = 0
  /\ Goto("loop")
  /\ UNCHANGED <<process, buyer, call, clock, cookies, photos, rotation>>

\* 403, 429 or 439.
Blocked ==
  /\ pc = "send"
  /\ bad' = Least(bad + 1, MaxStatusHistory)
  /\ block_attempts' = Least(block_attempts + 1, BlockThreshold)
  /\ Goto(IF block_attempts + 1 >= BlockThreshold THEN "rotate" ELSE "loop")
  /\ tries' = 0
  /\ UNCHANGED <<process, buyer, call, clock, cooldown, stale, photos, worker>>

-----------------------------------------------------------------------------
\* _rotate().  It starts after a send, so no recovery is open: the early
\* returns of _rotate and of handle_block for an open one are never taken.

Rotating == pc \in {"rotate", "penalty"}

RotationStarts ==
  /\ Rotating
  /\ ~worker
  /\ tries < RotationAttempts
  /\ worker' = TRUE
  /\ tries' = tries + 1
  /\ UNCHANGED <<process, pc, buyer, call, block_attempts, clock, cookies, photos>>

\* The process answers False, fails, dies or runs out of time, and is killed.
RotationMisses ==
  /\ Rotating
  /\ worker
  /\ worker' = FALSE
  /\ UNCHANGED <<process, pc, buyer, call, block_attempts, clock, cookies, photos,
                 tries>>

\* A new IP after a block.
Rotated ==
  /\ pc = "rotate"
  /\ worker
  /\ worker' = FALSE
  /\ Goto("block")
  /\ UNCHANGED <<process, buyer, call, block_attempts, clock, cookies, photos, tries>>

\* ProxyRotationError, here or on the way out of a failed purchase.
RotationFails ==
  /\ Rotating
  /\ ~worker
  /\ tries = RotationAttempts
  /\ Goto("dead")
  /\ lock' = IF lock = Client THEN Nobody ELSE lock
  /\ UNCHANGED <<process, buyer, call, block_attempts, clock, cookies, photo,
                 rotation>>

\* Fault: a photo that is being loaded is not waited for.
HandleBlockUnlocked ==
  /\ pc = "block"
  /\ lock' = Client
  /\ suspended' = TRUE
  /\ left' = Window
  /\ buyer' = "block"
  /\ Goto(IF cooldown = 0 /\ bad = MaxStatusHistory THEN "buy" ELSE "unblock")
  /\ UNCHANGED <<process, call, block_attempts, timer, cookies, photo, rotation>>

HandleBlock ==
  /\ pc = "block"
  /\ lock = Nobody
  /\ lock' = Client
  /\ suspended' = TRUE
  /\ left' = Window
  /\ buyer' = "block"
  /\ Goto(IF cooldown = 0 /\ bad = MaxStatusHistory THEN "buy" ELSE "unblock")
  /\ UNCHANGED <<process, call, block_attempts, timer, cookies, photo, rotation>>

\* handle_block has returned: a new session, and a cancellation while
\* get_current_ip() asks for the new address leaves the count of blocks.
Reset ==
  /\ pc = "reset"
  /\ stale' = FALSE
  /\ \/ Goto("loop") /\ block_attempts' = 0
     \/ Goto("idle") /\ UNCHANGED block_attempts
  /\ UNCHANGED <<process, buyer, call, clock, bad, cooldown, photos, rotation>>

-----------------------------------------------------------------------------
\* The answers of SPFA.

\* Leave _recovery_lock for the caller of poll_unblock or of handle_block.
LeaveFor(caller) ==
  /\ lock' = Nobody
  /\ Goto(IF caller = "poll" THEN "loop" ELSE "reset")

\* The confirmed cookies are in use from now on; poll_unblock's caller rebuilds
\* its session at once and may try once more.
Resume(caller) ==
  /\ suspended' = FALSE
  /\ left' = 0
  /\ bad' = 0
  /\ stale' = (caller = "block")
  /\ recovery_retry' = (recovery_retry \/ caller = "poll")
  /\ LeaveFor(caller)

Asker == IF pc = "poll" THEN "poll" ELSE "block"

\* 200 or 202 with success, the same id and cookies.
Accepted ==
  /\ pc \in {"poll", "unblock"}
  /\ Resume(Asker)
  /\ UNCHANGED <<process, buyer, attempt, recovery_retry_used, block_attempts, timer,
                 cooldown, photo, rotation>>

\* Fault: an intermediate answer starts the window again.
PendingExtends ==
  /\ pc \in {"poll", "unblock"}
  /\ LeaveFor(Asker)
  /\ left' = Window
  /\ UNCHANGED <<process, buyer, call, block_attempts, suspended, timer, cookies,
                 photo, rotation>>

\* 409, 503, an unconfirmed 200 or 202, another status; no answer at all to a poll.
Pending ==
  /\ pc \in {"poll", "unblock"}
  /\ LeaveFor(Asker)
  /\ UNCHANGED <<process, buyer, call, block_attempts, clock, cookies, photo,
                 rotation>>

\* 404 or 410; from handle_block also 403.
Refused ==
  /\ pc \in {"poll", "unblock"}
  /\ buyer' = Asker
  /\ Goto("buy")
  /\ UNCHANGED <<process, call, block_attempts, clock, cookies, photos, rotation>>

\* handle_block takes a network error as a refusal.
UnblockUnreachable ==
  /\ pc = "unblock"
  /\ buyer' = "block"
  /\ Goto("buy")
  /\ UNCHANGED <<process, call, block_attempts, clock, cookies, photos, rotation>>

\* A whole set of cookies: the recovery ends as after a confirmed unblocking.
Bought ==
  /\ pc = "buy"
  /\ cooldown' = Cooldown
  /\ Resume(buyer)
  /\ UNCHANGED <<process, buyer, attempt, recovery_retry_used, block_attempts, timer,
                 photo, rotation>>

\* A network error, a bad status or an incomplete set: another IP first.
PurchaseFails ==
  /\ pc = "buy"
  /\ Goto("penalty")
  /\ tries' = 0
  /\ UNCHANGED <<process, buyer, call, block_attempts, clock, cookies, photos,
                 worker>>

\* Fault: the purchase is repeated for as long as it fails.
PurchaseRepeats ==
  /\ \/ pc = "buy"
     \/ pc = "penalty" /\ worker
  /\ worker' = FALSE
  /\ Goto("buy")
  /\ UNCHANGED <<process, buyer, call, block_attempts, clock, cookies, photos, tries>>

\* With the new IP the error leaves request(): curl's errors are retried, those of
\* SPFA are not.  A result that is no object raises without a new IP.
PurchaseRaises ==
  /\ \/ pc = "buy"
     \/ pc = "penalty" /\ worker
  /\ worker' = FALSE
  /\ lock' = Nobody
  /\ Goto("idle")
  /\ UNCHANGED <<process, buyer, call, block_attempts, clock, cookies, photo, tries>>

-----------------------------------------------------------------------------
\* photo_access().

PhotoAsks(p) ==
  /\ photo[p] = "idle"
  /\ pc # "dead"
  /\ photo' = [photo EXCEPT ![p] = "wait"]
  /\ UNCHANGED <<process, pc, buyer, call, block_attempts, clock, cookies, lock,
                 rotation>>

\* With a recovery open the lock is given back and asked for again.
PhotoLoads(p) ==
  /\ photo[p] = "wait"
  /\ lock = Nobody
  /\ ~suspended
  /\ lock' = p
  /\ photo' = [photo EXCEPT ![p] = "load"]
  /\ UNCHANGED <<process, pc, buyer, call, block_attempts, clock, cookies, rotation>>

\* The download ends, well or not.
PhotoLoaded(p) ==
  /\ photo[p] = "load"
  /\ lock' = Nobody
  /\ photo' = [photo EXCEPT ![p] = "idle"]
  /\ UNCHANGED <<process, pc, buyer, call, block_attempts, clock, cookies, rotation>>

\* The parser is stopped while the photo waits.
PhotoCancelled(p) ==
  /\ photo[p] = "wait"
  /\ photo' = [photo EXCEPT ![p] = "idle"]
  /\ UNCHANGED <<process, pc, buyer, call, block_attempts, clock, cookies, lock,
                 rotation>>

-----------------------------------------------------------------------------
\* Fault: a deadline may pass below zero.
LessUnbounded(n) == n - 1

Less(n) == IF n = 0 THEN 0 ELSE n - 1

Tick ==
  /\ left + timer + cooldown > 0
  /\ left' = Less(left)
  /\ timer' = Less(timer)
  /\ cooldown' = Less(cooldown)
  /\ UNCHANGED <<process, pc, buyer, call, block_attempts, suspended, bad, stale,
                 photos, rotation>>

\* A new process: the cookies, their history and the purchase time are on disk,
\* the recovery is not.
Restart ==
  /\ Goto("idle")
  /\ block_attempts' = 0
  /\ suspended' = FALSE
  /\ left' = 0
  /\ timer' = 0
  /\ stale' = FALSE
  /\ lock' = Nobody
  /\ photo' = [p \in Photos |-> "idle"]
  /\ worker' = FALSE
  /\ process' = 1 - process
  /\ UNCHANGED <<buyer, call, bad, cooldown, tries>>

ClientStep ==
  \/ AwaitRecovery \/ Expire \/ Poll \/ Send \/ GiveUp
  \/ Answered \/ NetworkError \/ Blocked
  \/ RotationStarts \/ RotationMisses \/ Rotated \/ RotationFails
  \/ HandleBlock \/ Reset
  \/ Accepted \/ Pending \/ Refused \/ UnblockUnreachable
  \/ Bought \/ PurchaseFails \/ PurchaseRaises

PhotoStep(p) ==
  \/ PhotoAsks(p) \/ PhotoLoads(p) \/ PhotoLoaded(p) \/ PhotoCancelled(p)

Next ==
  \/ Call \/ Cancel \/ ClientStep
  \/ \E p \in Photos : PhotoStep(p)
  \/ Tick
  \/ Restart

Spec == Init /\ [][Next]_vars

(***************************************************************************)
(* Every request has a time limit, so an answer or an error always comes;  *)
(* a download has one too.  A photo may take _recovery_lock again and      *)
(* again while handle_block waits for it, hence strong fairness: the one   *)
(* notification thread works between two downloads, with the lock free.    *)
(***************************************************************************)
FairSpec ==
  /\ Spec
  /\ WF_vars(ClientStep)
  /\ SF_vars(HandleBlock)
  /\ WF_vars(Tick)
  /\ \A p \in Photos : WF_vars(PhotoLoaded(p))

-----------------------------------------------------------------------------
\* No page and no photo is being requested from Avito while a recovery is open,
\* and the lock is never held against its owner (external_api.py:176-184).
AvitoQuiet ==
  /\ suspended => pc # "send" /\ \A p \in Photos : photo[p] # "load"
  /\ pc \in {"poll", "unblock", "buy", "penalty"} => suspended /\ lock = Client
  /\ \A p \in Photos : photo[p] = "load" => lock = p

\* The IP is changed only between two requests, to Avito or to SPFA: no process that
\* changes it outlives its rotation (rotation.py:54-87, 90-111).
WorkerConfined == worker => Rotating

\* A call never sends with a session built from cookies that SPFA has replaced,
\* wherever a cancellation interrupted the replacement (client.py:78-82).
FreshSession == pc = "send" => ~stale

\* One call sends max_count_of_retry times at most, and once more only with cookies
\* whose recovery it waited for (base.py:172-177).
SendBudget ==
  attempt > MaxRetries =>
    attempt = MaxRetries + 1 /\ recovery_retry /\ recovery_retry_used

\* Answers and errors of SPFA do not prolong the window of a recovery; only a call
\* that fails at its end opens the next one (base.py:158-165, external_api.py:132-134).
WindowNotExtended ==
  [][suspended /\ suspended' /\ left' > left => left = 0 /\ pc' = "idle"]_vars

\* A call of request() returns or raises, whatever Avito and SPFA answer.
CallReturns == pc = "loop" ~> pc \in {"idle", "dead"}

Access == INSTANCE AvitoAccess
  WITH asking <- pc \in {"poll", "unblock", "buy"},
       sending <- pc = "send",
       loading <- {p \in Photos : photo[p] = "load"}

\* The client, the provider and the photos keep the promise of AvitoAccess.
ImplementsAccess == Access!Spec

\* docs/ANTIBLOCK.md says that new cookies are bought no more often than configured.
PurchasesSpaced == [][Bought => cooldown = 0]_vars
=============================================================================
