------------------------- MODULE RequestQueueProofs -------------------------
(***************************************************************************)
(* Theorems about RequestQueue for any number of links and refreshers and  *)
(* any delays: type correctness, exclusive use of the slot, at most one    *)
(* late refresh, and the refinement of RequestSlot.                        *)
(***************************************************************************)
EXTENDS RequestQueue, TLAPS

Locked == {"held", "pace", "sleep", "run", "unlock", "yield"}

\* The lock belongs to the one caller that is between acquire and release.
LockInv == \A c \in Callers : pc[c] \in Locked <=> lock = c

\* A ticket is in the queue exactly while its caller is inside run().
QueueInv == \A c \in Callers : c \in queue <=> pc[c] \notin {"idle", "work"}

\* A link is inside its scope unless idle; a refresher has no scope.
PlaceInv ==
  /\ \A l \in Links : l \in foreground <=> pc[l] # "idle"
  /\ \A r \in Refreshers : pc[r] # "work"

\* Tickets in the queue were drawn, and no two are the same.
NumberInv ==
  /\ \A c \in queue : number[c] < sequence
  /\ \A c, d \in queue : number[c] = number[d] => c = d

\* A link past its recheck has the oldest ticket of all links.
OrderInv ==
  \A l \in Links : pc[l] = "pace" =>
    \A d \in (queue \cap Links) \ {l} : number[l] < number[d]

\* What remains of the pause and what has passed of it make up MinDelay.
PaceInv == since + delay >= MinDelay

\* Once the late refresh has begun, no other refresh is past its recheck.
LateInv ==
  /\ late <= 1
  /\ foreground # {} /\ late = 1 => \A r \in Refreshers : pc[r] # "pace"

IInv ==
  /\ TypeOK
  /\ LockInv
  /\ QueueInv
  /\ PlaceInv
  /\ NumberInv
  /\ OrderInv
  /\ PaceInv
  /\ LateInv

-----------------------------------------------------------------------------
LEMMA InitIInv == Init => IInv
<1> SUFFICES ASSUME Init
             PROVE  IInv
  OBVIOUS
<1> USE DelayAssumption, CallerAssumption DEF Init, Callers, Holders
<1>1. TypeOK
  <2>1. pc \in [Callers -> Places] /\ number \in [Callers -> Nat]
    BY DEF Places
  <2>2. delay \in 0..MaxDelay /\ since \in 0..MinDelay
    OBVIOUS
  <2>3. stopped \in BOOLEAN /\ lock \in Callers \cup {Nobody}
    OBVIOUS
  <2> QED
    BY <2>1, <2>2, <2>3 DEF TypeOK
<1>2. LockInv /\ QueueInv /\ PlaceInv
  BY DEF LockInv, QueueInv, PlaceInv, Locked
<1>3. NumberInv /\ OrderInv
  BY DEF NumberInv, OrderInv
<1>4. PaceInv /\ LateInv
  BY DEF PaceInv, LateInv
<1> QED
  BY <1>1, <1>2, <1>3, <1>4 DEF IInv

LEMMA TypeStep == TypeOK /\ [Next]_vars => TypeOK'
<1> SUFFICES ASSUME TypeOK, [Next]_vars
             PROVE  TypeOK'
  OBVIOUS
<1> USE DelayAssumption, CallerAssumption
<1> USE DEF TypeOK, Callers, Holders, Places, Goto
<1>1. ASSUME NEW l \in Links, OpenScope(l) PROVE TypeOK'
  BY <1>1 DEF OpenScope, Enter
<1>2. ASSUME NEW l \in Links, CloseScope(l) PROVE TypeOK'
  BY <1>2 DEF CloseScope, Exit
<1>3. ASSUME NEW l \in Links, Edit(l) PROVE TypeOK'
  BY <1>3 DEF Edit
<1>4. ASSUME NEW c \in Callers, Join(c) PROVE TypeOK'
  BY <1>4 DEF Join, Home
<1>5. ASSUME NEW c \in Callers, Step(c) PROVE TypeOK'
  BY <1>5 DEF Step, Check, Acquire, Recheck, Pause, Wake, Start, Finish, Unlock, Leave, Home
<1>6. CASE OpenRound \/ CloseRound
  BY <1>6 DEF OpenRound, CloseRound, Enter, Exit
<1>7. CASE Tick
  BY <1>7 DEF Tick
<1>8. CASE Stop
  BY <1>8 DEF Stop
<1>9. CASE UNCHANGED vars
  BY <1>9 DEF vars
<1> QED
  BY <1>1, <1>2, <1>3, <1>4, <1>5, <1>6, <1>7, <1>8, <1>9 DEF Next

\* Who holds the lock.
LEMMA LockStep == TypeOK /\ LockInv /\ [Next]_vars => LockInv'
<1> SUFFICES ASSUME TypeOK, LockInv, [Next]_vars
             PROVE  LockInv'
  OBVIOUS
<1> USE CallerAssumption
<1> USE DEF TypeOK, LockInv, Locked, Callers, Goto
<1>1. ASSUME NEW l \in Links, OpenScope(l) \/ CloseScope(l) \/ Edit(l) PROVE LockInv'
  BY <1>1 DEF OpenScope, CloseScope, Edit
<1>2. ASSUME NEW c \in Callers, Join(c) PROVE LockInv'
  BY <1>2 DEF Join, Home
<1>3. ASSUME NEW c \in Callers, Step(c) PROVE LockInv'
  BY <1>3 DEF Step, Check, Acquire, Recheck, Pause, Wake, Start, Finish, Unlock, Leave, Home
<1>4. CASE OpenRound \/ CloseRound \/ Tick \/ Stop
  BY <1>4 DEF OpenRound, CloseRound, Tick, Stop
<1>5. CASE UNCHANGED vars
  BY <1>5 DEF vars
<1> QED
  BY <1>1, <1>2, <1>3, <1>4, <1>5 DEF Next

\* Which tickets are in the queue, and whose scopes are open.
LEMMA QueueStep ==
  TypeOK /\ QueueInv /\ PlaceInv /\ [Next]_vars => QueueInv' /\ PlaceInv'
<1> SUFFICES ASSUME TypeOK, QueueInv, PlaceInv, [Next]_vars
             PROVE  QueueInv' /\ PlaceInv'
  OBVIOUS
<1> USE CallerAssumption
<1> USE DEF TypeOK, QueueInv, PlaceInv, Callers, Goto
<1>1. ASSUME NEW l \in Links, OpenScope(l) \/ CloseScope(l) \/ Edit(l)
      PROVE  QueueInv' /\ PlaceInv'
  BY <1>1 DEF OpenScope, CloseScope, Edit, Enter, Exit
<1>2. ASSUME NEW c \in Callers, Join(c) PROVE QueueInv' /\ PlaceInv'
  BY <1>2 DEF Join, Home
<1>3. ASSUME NEW c \in Callers, Step(c) PROVE QueueInv' /\ PlaceInv'
  BY <1>3 DEF Step, Check, Acquire, Recheck, Pause, Wake, Start, Finish, Unlock, Leave, Home
<1>4. CASE OpenRound \/ CloseRound
  BY <1>4 DEF OpenRound, CloseRound, Enter, Exit
<1>5. CASE Tick \/ Stop
  BY <1>5 DEF Tick, Stop
<1>6. CASE UNCHANGED vars
  BY <1>6 DEF vars
<1> QED
  BY <1>1, <1>2, <1>3, <1>4, <1>5, <1>6 DEF Next

\* The order of the tickets.
LEMMA OrderStep ==
  TypeOK /\ QueueInv /\ NumberInv /\ OrderInv /\ [Next]_vars => NumberInv' /\ OrderInv'
<1> SUFFICES ASSUME TypeOK, QueueInv, NumberInv, OrderInv, [Next]_vars
             PROVE  NumberInv' /\ OrderInv'
  OBVIOUS
<1> USE CallerAssumption
<1> USE DEF TypeOK, NumberInv, OrderInv, Callers, Goto
<1>1. ASSUME NEW l \in Links, OpenScope(l) \/ CloseScope(l) \/ Edit(l)
      PROVE  NumberInv' /\ OrderInv'
  BY <1>1 DEF OpenScope, CloseScope, Edit
<1>2. ASSUME NEW c \in Callers, Join(c) PROVE NumberInv' /\ OrderInv'
  <2>1. c \notin queue
    BY <1>2 DEF Join, Home, QueueInv
  <2>2. number'[c] = sequence /\ \A d \in queue : number'[d] = number[d]
    BY <1>2, <2>1 DEF Join
  <2>3. NumberInv'
    BY <1>2, <2>1, <2>2 DEF Join
  <2>4. OrderInv'
    BY <1>2, <2>1, <2>2 DEF Join, QueueInv
  <2> QED
    BY <2>3, <2>4
<1>3. ASSUME NEW c \in Callers, Recheck(c) PROVE NumberInv' /\ OrderInv'
  <2>1. CASE Ready(c)
    BY <1>3, <2>1 DEF Recheck, Ready, Precedes
  <2>2. CASE ~Ready(c)
    BY <1>3, <2>2 DEF Recheck
  <2> QED
    BY <2>1, <2>2
<1>4. ASSUME NEW c \in Callers,
             Check(c) \/ Acquire(c) \/ Pause(c) \/ Wake(c) \/ Start(c)
      PROVE  NumberInv' /\ OrderInv'
  BY <1>4 DEF Check, Acquire, Pause, Wake, Start
<1>5. ASSUME NEW c \in Callers, Finish(c) \/ Unlock(c) \/ Leave(c)
      PROVE  NumberInv' /\ OrderInv'
  BY <1>5 DEF Finish, Unlock, Leave, Home
<1>6. CASE OpenRound \/ CloseRound \/ Tick \/ Stop
  BY <1>6 DEF OpenRound, CloseRound, Tick, Stop
<1>7. CASE UNCHANGED vars
  BY <1>7 DEF vars
<1> QED
  BY <1>1, <1>2, <1>3, <1>4, <1>5, <1>6, <1>7 DEF Next, Step

LEMMA PaceStep == TypeOK /\ PaceInv /\ [Next]_vars => PaceInv'
<1> SUFFICES ASSUME TypeOK, PaceInv, [Next]_vars
             PROVE  PaceInv'
  OBVIOUS
<1> USE DelayAssumption
<1> USE DEF TypeOK, PaceInv
<1>1. CASE \E l \in Links : OpenScope(l) \/ CloseScope(l) \/ Edit(l)
  BY <1>1 DEF OpenScope, CloseScope, Edit
<1>2. CASE \E c \in Callers : Join(c) \/ Step(c)
  BY <1>2 DEF Join, Step, Check, Acquire, Recheck, Pause, Wake, Start, Finish, Unlock, Leave
<1>3. CASE OpenRound \/ CloseRound \/ Stop
  BY <1>3 DEF OpenRound, CloseRound, Stop
<1>4. CASE Tick
  BY <1>4 DEF Tick
<1>5. CASE UNCHANGED vars
  BY <1>5 DEF vars
<1> QED
  BY <1>1, <1>2, <1>3, <1>4, <1>5 DEF Next

\* The bound on late refreshes: entering "pace" as a refresher needs the foreground
\* free, opening a free foreground starts the count again, and only the holder of the
\* lock can be in "pace".
LEMMA LateStep == TypeOK /\ LockInv /\ LateInv /\ [Next]_vars => LateInv'
<1> SUFFICES ASSUME TypeOK, LockInv, LateInv, [Next]_vars
             PROVE  LateInv'
  OBVIOUS
<1> USE CallerAssumption
<1> USE DEF TypeOK, LateInv, Callers, Goto
<1>1. ASSUME NEW l \in Links, OpenScope(l) PROVE LateInv'
  BY <1>1 DEF OpenScope, Enter
<1>2. ASSUME NEW l \in Links, CloseScope(l) \/ Edit(l) PROVE LateInv'
  BY <1>2 DEF CloseScope, Edit, Exit
<1>3. ASSUME NEW c \in Callers, Join(c) PROVE LateInv'
  BY <1>3 DEF Join
<1>4. ASSUME NEW c \in Callers, Recheck(c) PROVE LateInv'
  BY <1>4 DEF Recheck, Ready
<1>5. ASSUME NEW c \in Callers, Start(c) PROVE LateInv'
  <2>1. \A d \in Callers : d # c => pc[d] # "pace"
    BY <1>5 DEF Start, LockInv, Locked
  <2>2. \A d \in Callers : pc'[d] # "pace"
    BY <1>5, <2>1 DEF Start
  <2>3. late' <= 1
    BY <1>5 DEF Start
  <2> QED
    BY <2>2, <2>3
<1>6. ASSUME NEW c \in Callers,
             Check(c) \/ Acquire(c) \/ Pause(c) \/ Wake(c) \/ Finish(c) \/ Unlock(c) \/ Leave(c)
      PROVE  LateInv'
  BY <1>6 DEF Check, Acquire, Pause, Wake, Finish, Unlock, Leave, Home
<1>7. CASE OpenRound \/ CloseRound
  BY <1>7 DEF OpenRound, CloseRound, Enter, Exit
<1>8. CASE Tick \/ Stop
  BY <1>8 DEF Tick, Stop
<1>9. CASE UNCHANGED vars
  BY <1>9 DEF vars
<1> QED
  BY <1>1, <1>2, <1>3, <1>4, <1>5, <1>6, <1>7, <1>8, <1>9 DEF Next, Step

LEMMA IInvStep == IInv /\ [Next]_vars => IInv'
  BY TypeStep, LockStep, QueueStep, OrderStep, PaceStep, LateStep DEF IInv

LEMMA Invariance == Spec => []IInv
  BY InitIInv, IInvStep, PTL DEF Spec

-----------------------------------------------------------------------------
\* Every variable of the queue stays in its type.
THEOREM TypeCorrect == Spec => []TypeOK
<1>1. IInv => TypeOK
  BY DEF IInv
<1> QED
  BY <1>1, Invariance, PTL

\* Two requests are never under way at once (RequestThrottle.run holds _lock around fn).
THEOREM Exclusive == Spec => []SlotExclusive
<1>1. IInv => SlotExclusive
  BY DEF IInv, LockInv, Locked, SlotExclusive
<1> QED
  BY <1>1, Invariance, PTL

\* At most one card refresh begins while the foreground stays held, however many
\* refreshers there are (the _ready() recheck under _lock and after each pause).
THEOREM LateRefreshBound == Spec => []OneLateRefresh
<1>1. IInv => OneLateRefresh
  BY DEF IInv, LateInv, OneLateRefresh
<1> QED
  BY <1>1, Invariance, PTL

-----------------------------------------------------------------------------
\* Refinement of RequestSlot.

LEMMA InitSlot == Init => Slot!Init
<1> SUFFICES ASSUME Init PROVE Slot!Init
  OBVIOUS
<1>1. InLine = {} /\ Serving = Nobody
  BY DEF InLine, Waiting, Serving, Init
<1> QED
  BY <1>1 DEF Init, Slot!Init, Callers, Slot!Callers, InLine, Waiting, Serving

\* A step of a caller that neither asks, withdraws, starts nor finishes is invisible.
LEMMA QuietStep ==
  ASSUME IInv, NEW c \in Callers,
         \/ pc[c] = "check" /\ Check(c) /\ pc'[c] = "acquire"
         \/ Pause(c) /\ pc'[c] = "sleep"
         \/ Wake(c) /\ pc'[c] = "held"
         \/ Acquire(c) \/ Recheck(c) \/ Unlock(c) \/ Leave(c)
  PROVE  UNCHANGED Slot!vars
<1> USE CallerAssumption DEF Callers, Goto
<1>1. TypeOK /\ LockInv /\ QueueInv
  BY DEF IInv
<1>2. UNCHANGED <<number, foreground, since, late>>
  BY DEF Check, Acquire, Recheck, Wake, Pause, Unlock, Leave
<1>3. \A d \in Callers : d # c => pc'[d] = pc[d]
  BY <1>1 DEF TypeOK, Check, Acquire, Recheck, Wake, Pause, Unlock, Leave
<1>4. \A d \in Callers : d # c => (d \in queue' <=> d \in queue)
  BY DEF Check, Acquire, Recheck, Wake, Pause, Unlock, Leave
<1>5. c \in queue' /\ pc'[c] \in Waiting <=> c \in queue /\ pc[c] \in Waiting
  BY <1>1 DEF TypeOK, QueueInv, Waiting, Home, Check, Acquire, Recheck, Wake, Pause, Unlock, Leave
<1>6. queue \subseteq Callers /\ queue' \subseteq Callers
  BY <1>1 DEF TypeOK, Check, Acquire, Recheck, Wake, Pause, Unlock, Leave
<1>7. InLine' = InLine
  BY <1>3, <1>4, <1>5, <1>6 DEF InLine, Waiting
<1>8. pc[c] # "run" /\ pc'[c] # "run"
  BY <1>1 DEF TypeOK, Home, Check, Acquire, Recheck, Wake, Pause, Unlock, Leave
<1>9. Serving' = Serving
  <2>1. CASE lock' = lock
    BY <2>1, <1>1, <1>3, <1>8 DEF Serving, TypeOK
  <2>2. CASE lock' # lock
    <3>1. (lock = Nobody /\ lock' = c) \/ (lock = c /\ lock' = Nobody)
      BY <2>2, <1>1 DEF Check, Acquire, Recheck, Wake, Pause, Unlock, Leave, LockInv, Locked
    <3> QED
      BY <3>1, <1>8 DEF Serving
  <2> QED
    BY <2>1, <2>2
<1> QED
  BY <1>2, <1>7, <1>9 DEF Slot!vars, InLine, Waiting, Serving

\* A cancelled caller withdraws.
LEMMA WithdrawStep ==
  ASSUME IInv, NEW c \in Callers, c \in cancelled,
         \/ Check(c) /\ pc'[c] = "leave"
         \/ Pause(c) /\ pc'[c] = "unlock"
         \/ Wake(c) /\ pc'[c] = "unlock"
  PROVE  Slot!Withdraw(c)
<1> USE CallerAssumption DEF Callers, Goto
<1>1. TypeOK /\ QueueInv
  BY DEF IInv
<1>2. UNCHANGED <<number, foreground, since, late, queue, lock>>
  BY DEF Check, Pause, Wake
<1>3. pc' = [pc EXCEPT ![c] = pc'[c]] /\ pc[c] \in Waiting /\ pc'[c] \in {"leave", "unlock"}
  BY <1>1 DEF TypeOK, Waiting, Check, Pause, Wake
<1>4. c \in InLine
  BY <1>1, <1>3 DEF InLine, Waiting, QueueInv
<1>5. InLine' = InLine \ {c}
  BY <1>1, <1>2, <1>3 DEF TypeOK, InLine, Waiting
<1>6. Serving' = Serving
  BY <1>1, <1>2, <1>3 DEF TypeOK, Serving, Waiting
<1> QED
  BY <1>2, <1>4, <1>5, <1>6 DEF Slot!Withdraw, InLine, Waiting, Serving

LEMMA JoinStep ==
  ASSUME IInv, NEW c \in Callers, Join(c)
  PROVE  Slot!Ask(c)
<1> USE CallerAssumption DEF Callers, Goto
<1>1. TypeOK /\ QueueInv /\ NumberInv /\ LockInv
  BY DEF IInv
<1>2. c \notin queue /\ queue' = queue \cup {c}
  BY <1>1 DEF Join, Home, QueueInv
<1>3. pc' = [pc EXCEPT ![c] = "check"] /\ pc[c] \in {"idle", "work"}
  BY <1>1 DEF Join, Home
<1>4. InLine' = InLine \cup {c} /\ c \notin InLine
  BY <1>1, <1>2, <1>3 DEF TypeOK, InLine, Waiting
<1>5. Serving' = Serving
  BY <1>1, <1>3 DEF Serving, Join, TypeOK
<1>6. /\ number' = [number EXCEPT ![c] = number'[c]]
      /\ \A d \in InLine : number[d] < number'[c]
  BY <1>1 DEF Join, TypeOK, NumberInv, InLine, Waiting
<1> QED
  BY <1>4, <1>5, <1>6 DEF Join, Slot!Ask, InLine, Waiting, Serving

\* The start of fn takes the slot: the pause is over, the order is kept, and a late
\* refresh is the only one.
LEMMA StartStep ==
  ASSUME IInv, NEW c \in Callers, Start(c)
  PROVE  Slot!ServeLink(c) \/ Slot!ServeRefresh(c)
<1> USE CallerAssumption, DelayAssumption DEF Callers, Goto
<1>1. TypeOK /\ QueueInv /\ LockInv /\ OrderInv /\ PaceInv /\ LateInv
  BY DEF IInv
<1>2. UNCHANGED <<number, foreground, since, queue, lock>>
  BY DEF Start
<1>3. pc' = [pc EXCEPT ![c] = "run"] /\ pc[c] = "pace" /\ lock = c
  BY <1>1 DEF Start, LockInv, Locked
<1>4. c \in InLine /\ InLine' = InLine \ {c}
  BY <1>1, <1>2, <1>3 DEF TypeOK, InLine, Waiting, QueueInv
<1>5. Serving = Nobody /\ Serving' = c
  BY <1>1, <1>2, <1>3 DEF Serving, TypeOK
<1>6. since = MinDelay
  BY <1>1 DEF Start, PaceInv, TypeOK
<1>7. Slot!TakeSlot(c)
  BY <1>2, <1>4, <1>5, <1>6 DEF Slot!TakeSlot, InLine, Waiting, Serving
<1>8. CASE c \in Links
  <2>1. \A d \in (InLine \cap Links) \ {c} : number[c] < number[d]
    BY <1>1, <1>3, <1>8 DEF OrderInv, InLine, Waiting
  <2>2. late' = late
    BY <1>8 DEF Start
  <2> QED
    BY <1>7, <1>8, <2>1, <2>2 DEF Slot!ServeLink, InLine, Waiting
<1>9. CASE c \in Refreshers
  <2>1. \/ foreground = {} /\ late' = late
        \/ foreground # {} /\ late = 0 /\ late' = 1
    BY <1>1, <1>3, <1>9 DEF Start, LateInv, TypeOK
  <2> QED
    BY <1>7, <1>9, <2>1 DEF Slot!ServeRefresh, Slot!TakeSlot
<1> QED
  BY <1>8, <1>9

LEMMA FinishStep ==
  ASSUME IInv, NEW c \in Callers, Finish(c)
  PROVE  Slot!Done
<1> USE CallerAssumption DEF Callers, Goto
<1>1. TypeOK /\ LockInv
  BY DEF IInv
<1>2. lock = c /\ lock' = c /\ pc[c] = "run" /\ pc' = [pc EXCEPT ![c] = "unlock"]
  BY <1>1 DEF Finish, LockInv, Locked
<1>3. Serving = c /\ Serving' = Nobody
  BY <1>1, <1>2 DEF Serving, TypeOK
<1>4. InLine' = InLine
  BY <1>1, <1>2 DEF InLine, Waiting, Finish, TypeOK
<1> QED
  BY <1>3, <1>4 DEF Finish, Slot!Done, InLine, Waiting, Serving

\* The steps of the surroundings.
LEMMA OuterStep ==
  ASSUME IInv,
         \/ \E l \in Links : OpenScope(l) \/ CloseScope(l) \/ Edit(l)
         \/ OpenRound \/ CloseRound \/ Tick \/ Stop
  PROVE  [Slot!Next]_(Slot!vars)
<1> USE CallerAssumption DEF Callers, Goto
<1>1. TypeOK /\ LockInv /\ QueueInv
  BY DEF IInv
<1>2. ASSUME NEW l \in Links, OpenScope(l) \/ CloseScope(l)
      PROVE  Slot!OpenForeground(l) \/ Slot!CloseForeground(l)
  <2>1. /\ queue' = queue /\ lock' = lock
        /\ pc' = [pc EXCEPT ![l] = pc'[l]]
        /\ pc[l] \in {"idle", "work"} /\ pc'[l] \in {"idle", "work"}
    BY <1>1, <1>2 DEF OpenScope, CloseScope, TypeOK
  <2>2. InLine' = InLine
    BY <1>1, <2>1 DEF InLine, Waiting, TypeOK
  <2>3. Serving' = Serving
    BY <1>1, <2>1 DEF Serving, TypeOK
  <2> QED
    BY <1>2, <2>2, <2>3 DEF OpenScope, CloseScope, Enter, Exit, Slot!OpenForeground,
       Slot!CloseForeground, InLine, Waiting, Serving
<1>3. CASE OpenRound \/ CloseRound
  <2>1. Slot!OpenForeground(Round) \/ Slot!CloseForeground(Round)
    BY <1>3 DEF OpenRound, CloseRound, Enter, Exit, Slot!OpenForeground, Slot!CloseForeground, InLine, Serving
  <2> QED
    BY <2>1 DEF Slot!Next
<1>4. CASE Tick
  <2>1. CASE since < MinDelay
    BY <1>4, <2>1 DEF Tick, Slot!Rest, Slot!Next, InLine, Serving
  <2>2. CASE ~(since < MinDelay)
    BY <1>4, <2>2 DEF Tick, Slot!vars, InLine, Serving
  <2> QED
    BY <2>1, <2>2
<1>5. CASE Stop \/ \E l \in Links : Edit(l)
  BY <1>5 DEF Stop, Edit, Slot!vars, InLine, Serving
<1> QED
  BY <1>2, <1>3, <1>4, <1>5 DEF Slot!Next

LEMMA SlotStep == IInv /\ [Next]_vars => [Slot!Next]_(Slot!vars)
<1> SUFFICES ASSUME IInv, [Next]_vars
             PROVE  [Slot!Next]_(Slot!vars)
  OBVIOUS
<1>1. ASSUME NEW c \in Callers, Join(c)
      PROVE  Slot!Next
  BY <1>1, JoinStep DEF Slot!Next, Slot!Callers, Callers
<1>2. ASSUME NEW c \in Callers, Step(c)
      PROVE  [Slot!Next]_(Slot!vars)
  <2>0. pc \in [Callers -> Places]
    BY DEF IInv, TypeOK
  <2>1. CASE Start(c)
    BY <2>1, StartStep DEF Slot!Next, Slot!Callers, Callers
  <2>2. CASE Finish(c)
    BY <2>2, FinishStep DEF Slot!Next
  <2>3. CASE Check(c)
    <3>1. CASE c \in cancelled /\ pc'[c] = "leave"
      BY <2>3, <3>1, WithdrawStep DEF Slot!Next, Slot!Callers, Callers
    <3>2. CASE pc[c] = "check" /\ pc'[c] = "acquire"
      BY <2>3, <3>2, QuietStep
    <3> QED
      BY <2>0, <2>3, <3>1, <3>2 DEF Check, Goto
  <2>4. CASE Pause(c)
    <3>1. CASE c \in cancelled /\ pc'[c] = "unlock"
      BY <2>4, <3>1, WithdrawStep DEF Slot!Next, Slot!Callers, Callers
    <3>2. CASE pc'[c] = "sleep"
      BY <2>4, <3>2, QuietStep
    <3> QED
      BY <2>0, <2>4, <3>1, <3>2 DEF Pause, Goto
  <2>5. CASE Wake(c)
    <3>1. CASE c \in cancelled /\ pc'[c] = "unlock"
      BY <2>5, <3>1, WithdrawStep DEF Slot!Next, Slot!Callers, Callers
    <3>2. CASE pc'[c] = "held"
      BY <2>5, <3>2, QuietStep
    <3> QED
      BY <2>0, <2>5, <3>1, <3>2 DEF Wake, Goto
  <2>6. CASE Acquire(c) \/ Recheck(c) \/ Unlock(c) \/ Leave(c)
    BY <2>6, QuietStep
  <2> QED
    BY <1>2, <2>1, <2>2, <2>3, <2>4, <2>5, <2>6 DEF Step
<1>3. CASE \/ \E l \in Links : OpenScope(l) \/ CloseScope(l) \/ Edit(l)
           \/ OpenRound \/ CloseRound \/ Tick \/ Stop
  BY <1>3, OuterStep
<1>4. CASE UNCHANGED vars
  BY <1>4 DEF vars, Slot!vars, InLine, Serving
<1> QED
  BY <1>1, <1>2, <1>3, <1>4 DEF Next

\* The request queue keeps the promise of RequestSlot: order among links, the pause
\* between requests, one request at a time, one late refresh.
THEOREM Refinement == Spec => ImplementsSlot
  BY InitSlot, SlotStep, Invariance, PTL DEF Spec, ImplementsSlot, Slot!Spec
=============================================================================
