---------------------------- MODULE RequestQueue ----------------------------
(***************************************************************************)
(* engine/request_queue.py (class RequestThrottle) with its two kinds of   *)
(* callers: the link workers of the scheduler, which call run() inside     *)
(* "with throttle.foreground()", and the card refresher, which calls       *)
(* run(..., background=True).                                              *)
(*                                                                         *)
(* Each caller is a thread and pc[c] is its place inside run():            *)
(*   idle     outside (a refresher between calls, a link outside its scope)*)
(*   work     a link inside its foreground scope, between two requests     *)
(*   check    top of the outer loop, before checkpoint() and _ready()      *)
(*   acquire  _ready() was true, in _lock.acquire(timeout=0.1)             *)
(*   held     _lock taken, before the _ready() of the inner loop           *)
(*   pace     _ready() was true again, before checkpoint() and _next_at    *)
(*   sleep    in cancellation.wait(): the pause is not over                *)
(*   run      fn is running                                                *)
(*   unlock   on the way out through the finally that frees _lock          *)
(*   yield    the inner loop ended not ready: free _lock and start again   *)
(*   leave    _lock free, before _queue.remove(ticket)                     *)
(* A block under "with self._state" is one step.  _foreground counts the   *)
(* open "with foreground()" blocks and is kept as the set of their owners. *)
(* Time is in ticks; cancelled is the set of callers whose Cancellation    *)
(* currently answers yes.                                                  *)
(***************************************************************************)
EXTENDS Integers

CONSTANTS Links, Refreshers, Round,
          MinDelay, MaxDelay,  \* bounds of the random pause, in ticks
          MaxTickets,          \* bound on the calls of run() in one behaviour
          Nobody               \* _lock is free

ASSUME DelayAssumption ==
  /\ MinDelay \in Nat
  /\ MaxDelay \in Nat
  /\ MinDelay <= MaxDelay
  /\ MaxTickets \in Nat

ASSUME CallerAssumption ==
  /\ Links \cap Refreshers = {}
  /\ Round \notin Links \cup Refreshers
  /\ Nobody \notin Links \cup Refreshers

Callers == Links \cup Refreshers
Holders == Links \cup {Round}

VARIABLES pc, queue, number, sequence, foreground, lock, delay, cancelled, stopped,
          since, late

vars == <<pc, queue, number, sequence, foreground, lock, delay, cancelled, stopped,
          since, late>>

Places == {"idle", "work", "check", "acquire", "held", "pace", "sleep", "run",
           "unlock", "yield", "leave"}

TypeOK ==
  /\ pc \in [Callers -> Places]
  /\ queue \in SUBSET Callers
  /\ number \in [Callers -> Nat]
  /\ sequence \in Nat
  /\ foreground \in SUBSET Holders
  /\ lock \in Callers \cup {Nobody}
  /\ delay \in 0..MaxDelay
  /\ cancelled \in SUBSET Callers
  /\ stopped \in BOOLEAN
  /\ since \in 0..MinDelay
  /\ late \in Nat

Init ==
  /\ pc = [c \in Callers |-> "idle"]
  /\ queue = {}
  /\ number = [c \in Callers |-> 0]
  /\ sequence = 0
  /\ foreground = {}
  /\ lock = Nobody
  /\ delay = 0
  /\ cancelled = {}
  /\ stopped = FALSE
  /\ since = MinDelay   \* no request has ended yet
  /\ late = 0

Goto(c, place) == pc' = [pc EXCEPT ![c] = place]

-----------------------------------------------------------------------------
\* The foreground scopes.

\* A ticket (background?, number) is smaller than another.
Precedes(c, d) ==
  \/ c \in Links /\ d \in Refreshers
  \/ (c \in Links <=> d \in Links) /\ number[c] < number[d]

\* Fault: the foreground is forgotten, only the order of tickets counts.
ReadyByTicketOnly(c) == \A d \in queue \ {c} : Precedes(c, d)

\* _ready(): the ticket is the smallest, and a background one finds no scope open.
Ready(c) ==
  /\ \A d \in queue \ {c} : Precedes(c, d)
  /\ c \in Links \/ foreground = {}

Enter(h) ==
  /\ foreground' = foreground \cup {h}
  /\ late' = IF foreground = {} THEN 0 ELSE late

Exit(h) ==
  /\ foreground' = foreground \ {h}
  /\ UNCHANGED late

\* A link worker opens its scope; it has just read its target afresh.
OpenScope(l) ==
  /\ pc[l] = "idle"
  /\ ~stopped
  /\ Goto(l, "work")
  /\ Enter(l)
  /\ cancelled' = cancelled \ {l}
  /\ UNCHANGED <<queue, number, sequence, lock, delay, stopped, since>>

\* The scan ends, by its last page, an exception or a cancellation.
CloseScope(l) ==
  /\ pc[l] = "work"
  /\ Goto(l, "idle")
  /\ Exit(l)
  /\ UNCHANGED <<queue, number, sequence, lock, delay, cancelled, stopped, since>>

OpenRound ==
  /\ Round \notin foreground
  /\ ~stopped
  /\ Enter(Round)
  /\ UNCHANGED <<pc, queue, number, sequence, lock, delay, cancelled, stopped, since>>

\* The scheduler closes the round once no link is being scanned, or on its way out.
CloseRound ==
  /\ Round \in foreground
  /\ stopped \/ \A l \in Links : pc[l] = "idle"
  /\ Exit(Round)
  /\ UNCHANGED <<pc, queue, number, sequence, lock, delay, cancelled, stopped, since>>

-----------------------------------------------------------------------------
\* run(): one action per step of a caller.

Home(c) == IF c \in Links THEN "work" ELSE "idle"

\* A caller passes the checkpoint before its request and draws a ticket.
Join(c) ==
  /\ pc[c] = Home(c)
  /\ c \notin cancelled
  /\ sequence < MaxTickets
  /\ Goto(c, "check")
  /\ number' = [number EXCEPT ![c] = sequence]
  /\ sequence' = sequence + 1
  /\ queue' = queue \cup {c}
  /\ UNCHANGED <<foreground, lock, delay, cancelled, stopped, since, late>>

Check(c) ==
  /\ pc[c] = "check"
  /\ \/ c \in cancelled /\ Goto(c, "leave")
     \/ c \notin cancelled /\ Ready(c) /\ Goto(c, "acquire")
  /\ UNCHANGED <<queue, number, sequence, foreground, lock, delay, cancelled, stopped, since, late>>

\* Fault: the result of acquire(timeout=0.1) is not looked at.
AcquireUnchecked(c) ==
  /\ pc[c] = "acquire"
  /\ lock' = c
  /\ Goto(c, "held")
  /\ UNCHANGED <<queue, number, sequence, foreground, delay, cancelled, stopped, since, late>>

\* _lock.acquire: takes a free lock, or times out on a held one.
Acquire(c) ==
  /\ pc[c] = "acquire"
  /\ \/ lock = Nobody /\ lock' = c /\ Goto(c, "held")
     \/ lock # Nobody /\ Goto(c, "check") /\ UNCHANGED lock
  /\ UNCHANGED <<queue, number, sequence, foreground, delay, cancelled, stopped, since, late>>

\* "while self._ready(ticket)": the priority is looked at again under the lock.
Recheck(c) ==
  /\ pc[c] = "held"
  /\ Goto(c, IF Ready(c) THEN "pace" ELSE "yield")
  /\ UNCHANGED <<queue, number, sequence, foreground, lock, delay, cancelled, stopped, since, late>>

\* Fault: a cancellation during the pause skips the finally that frees _lock.
PauseKeepsLock(c) ==
  /\ pc[c] = "pace"
  /\ \/ c \in cancelled /\ Goto(c, "leave")
     \/ c \notin cancelled /\ delay > 0 /\ Goto(c, "sleep")
  /\ UNCHANGED <<queue, number, sequence, foreground, lock, delay, cancelled, stopped, since, late>>

\* checkpoint() and _next_at: cancelled, or the pause is not over and has to be waited.
Pause(c) ==
  /\ pc[c] = "pace"
  /\ \/ c \in cancelled /\ Goto(c, "unlock")
     \/ c \notin cancelled /\ delay > 0 /\ Goto(c, "sleep")
  /\ UNCHANGED <<queue, number, sequence, foreground, lock, delay, cancelled, stopped, since, late>>

\* cancellation.wait(): cancelled, or back to the head of the inner loop.
Wake(c) ==
  /\ pc[c] = "sleep"
  /\ \/ c \in cancelled /\ Goto(c, "unlock")
     \/ c \notin cancelled /\ Goto(c, "held")
  /\ UNCHANGED <<queue, number, sequence, foreground, lock, delay, cancelled, stopped, since, late>>

Start(c) ==
  /\ pc[c] = "pace"
  /\ c \notin cancelled
  /\ delay = 0
  /\ Goto(c, "run")
  /\ late' = IF c \in Refreshers /\ foreground # {} THEN late + 1 ELSE late
  /\ UNCHANGED <<queue, number, sequence, foreground, lock, delay, cancelled, stopped, since>>

\* Fault: _next_at moves only when fn returns, not when it raises.
FinishUnpaced(c) ==
  /\ pc[c] = "run"
  /\ delay' \in (MinDelay..MaxDelay) \cup {delay}
  /\ since' = 0
  /\ Goto(c, "unlock")
  /\ UNCHANGED <<queue, number, sequence, foreground, lock, cancelled, stopped, late>>

\* Fault: the pause is drawn on top of MinDelay.
FinishLong(c) ==
  /\ pc[c] = "run"
  /\ \E pause \in MinDelay..MaxDelay : delay' = MinDelay + pause
  /\ since' = 0
  /\ Goto(c, "unlock")
  /\ UNCHANGED <<queue, number, sequence, foreground, lock, cancelled, stopped, late>>

\* fn returns or raises; either way the next request waits a random delay.
Finish(c) ==
  /\ pc[c] = "run"
  /\ delay' \in MinDelay..MaxDelay
  /\ since' = 0
  /\ Goto(c, "unlock")
  /\ UNCHANGED <<queue, number, sequence, foreground, lock, cancelled, stopped, late>>

Unlock(c) ==
  /\ pc[c] \in {"unlock", "yield"}
  /\ lock' = Nobody
  /\ Goto(c, IF pc[c] = "unlock" THEN "leave" ELSE "check")
  /\ UNCHANGED <<queue, number, sequence, foreground, delay, cancelled, stopped, since, late>>

\* Fault: the ticket is removed only when the call was served.
LeaveKeepsTicket(c) ==
  /\ pc[c] = "leave"
  /\ queue' = IF c \in cancelled THEN queue ELSE queue \ {c}
  /\ Goto(c, Home(c))
  /\ UNCHANGED <<number, sequence, foreground, lock, delay, cancelled, stopped, since, late>>

Leave(c) ==
  /\ pc[c] = "leave"
  /\ queue' = queue \ {c}
  /\ Goto(c, Home(c))
  /\ UNCHANGED <<number, sequence, foreground, lock, delay, cancelled, stopped, since, late>>

-----------------------------------------------------------------------------
\* The surroundings: time, edits of a link, the stop of the parser.

Tick ==
  /\ delay > 0 \/ since < MinDelay
  /\ delay' = IF delay > 0 THEN delay - 1 ELSE 0
  /\ since' = IF since < MinDelay THEN since + 1 ELSE since
  /\ UNCHANGED <<pc, queue, number, sequence, foreground, lock, cancelled, stopped, late>>

\* A link is edited or removed, or edited back while its scan is under way.
Edit(l) ==
  /\ ~stopped
  /\ cancelled' = IF l \in cancelled THEN cancelled \ {l} ELSE cancelled \cup {l}
  /\ UNCHANGED <<pc, queue, number, sequence, foreground, lock, delay, stopped, since, late>>

Stop ==
  /\ ~stopped
  /\ stopped' = TRUE
  /\ cancelled' = Callers
  /\ UNCHANGED <<pc, queue, number, sequence, foreground, lock, delay, since, late>>

-----------------------------------------------------------------------------
Step(c) ==
  \/ Check(c) \/ Acquire(c) \/ Recheck(c) \/ Pause(c) \/ Wake(c)
  \/ Start(c) \/ Finish(c) \/ Unlock(c) \/ Leave(c)

Next ==
  \/ \E l \in Links : OpenScope(l) \/ CloseScope(l) \/ Edit(l)
  \/ \E c \in Callers : Join(c) \/ Step(c)
  \/ OpenRound \/ CloseRound
  \/ Tick
  \/ Stop

Spec == Init /\ [][Next]_vars

\* A thread inside run() keeps moving (its waits and fn are timed), time passes, a
\* cancelled scan unwinds, and the scheduler closes the round on its way out.
Fairness ==
  /\ \A c \in Callers : WF_vars(Step(c))
  /\ WF_vars(Tick)
  /\ \A l \in Links : WF_vars(l \in cancelled /\ CloseScope(l))
  /\ WF_vars(stopped /\ CloseRound)

FairSpec == Spec /\ Fairness

-----------------------------------------------------------------------------
\* Properties.

\* Two requests to Avito are never under way at once: the site sees one browser, and
\* a refresh (request and database write in one fn) never meets a page request.
SlotExclusive ==
  \A c, d \in Callers : pc[c] = "run" /\ pc[d] = "run" => c = d

\* The recheck under the lock and during the pause bounds what slips through: between
\* the moment somebody takes the foreground and the moment the last holder lets go,
\* at most one card refresh begins.
OneLateRefresh == late <= 1

\* The queue implements the slot: first come first served among links, a pause of at
\* least MinDelay after every request, no refresh in the foreground but the late one.
Waiting == {"check", "acquire", "held", "pace", "sleep", "yield"}
InLine == {c \in queue : pc[c] \in Waiting}
Serving == IF lock # Nobody /\ pc[lock] = "run" THEN lock ELSE Nobody

Slot == INSTANCE RequestSlot WITH
  waiting <- InLine,
  arrival <- number,
  slot <- Serving,
  open <- foreground,
  rested <- since

ImplementsSlot == Slot!Spec

\* Nobody starves a link: whatever refreshes, other links, edits and pauses do, a link
\* that asked for the slot gets back from run(), served or cancelled.
LinkReturns == \A l \in Links : pc[l] = "check" ~> pc[l] = "work"

\* The join() of the shutdown ends: after a stop every caller leaves the queue, the
\* lock is free and no foreground scope stays open.
StopDrains == stopped ~> (queue = {} /\ lock = Nobody /\ foreground = {})
=============================================================================
