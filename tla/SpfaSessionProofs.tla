------------------------- MODULE SpfaSessionProofs -------------------------
(***************************************************************************)
(* What SpfaSession keeps for every limit, window and number of photos.    *)
(* IInv strengthens AvitoQuiet with what each place of the client knows of *)
(* the recovery and of the lock; with it every step preserves IInv, and    *)
(* every step is a step of AvitoAccess or leaves its state alone.          *)
(***************************************************************************)
EXTENDS SpfaSession, TLAPS

UnderLock == {"poll", "unblock", "buy", "penalty"}

\* The lock and the photos: a photo loads exactly while it holds the lock, and the
\* client holds it exactly at the places under it.
LockInv ==
  /\ \A p \in Photos : photo[p] = "load" <=> lock = p
  /\ lock = Client <=> pc \in UnderLock

\* The recovery: no photo loads in it, and it is closed from a send to the moment
\* handle_block opens it, open from the wait for a poll to its answer.
RecoveryInv ==
  /\ suspended => lock \notin Photos
  /\ pc \in {"send", "rotate", "block"} => ~suspended
  /\ pc \in UnderLock \cup {"wait"} => suspended

IInv == TypeOK /\ LockInv /\ RecoveryInv /\ WorkerConfined /\ FreshSession /\ SendBudget

USE LimitAssumption, WindowAssumption, HolderAssumption

-----------------------------------------------------------------------------
LEMMA CappedType ==
  ASSUME NEW n \in Nat, NEW a \in 0..n
  PROVE  Least(a + 1, n) \in 0..n
  BY DEF Least

LEMMA LessType ==
  ASSUME NEW n \in Nat, NEW a \in 0..n
  PROVE  Less(a) \in 0..n /\ Less(a) <= a
  BY DEF Less

\* The Boolean half of TypeOK, for the provers.
Flags ==
  /\ recovery_retry \in BOOLEAN
  /\ recovery_retry_used \in BOOLEAN
  /\ suspended \in BOOLEAN
  /\ stale \in BOOLEAN
  /\ worker \in BOOLEAN

LEMMA InitIInv == Init => IInv
  <1> SUFFICES ASSUME Init PROVE IInv
    OBVIOUS
  <1>1. TypeOK
    <2>1. Flags
      BY Zenon DEF Init, Flags
    <2>2. photo \in [Photos -> {"idle", "wait", "load"}]
      BY DEF Init
    <2> QED
      BY <2>1, <2>2 DEF Init, TypeOK, Places, Flags
  <1>2. LockInv /\ RecoveryInv
    BY DEF Init, LockInv, RecoveryInv, UnderLock
  <1>3. WorkerConfined /\ FreshSession /\ SendBudget
    BY DEF Init, WorkerConfined, FreshSession, SendBudget
  <1> QED
    BY <1>1, <1>2, <1>3 DEF IInv

LEMMA NextIInv == IInv /\ [Next]_vars => IInv'
  <1> SUFFICES ASSUME IInv, [Next]_vars PROVE IInv'
    OBVIOUS
  <1> USE DEF IInv, call, clock, cookies, photos, rotation, Goto
  <1>1. CASE Call
    <2>1. Flags'
      BY <1>1, Zenon DEF Call, TypeOK, Flags
    <2> QED
      BY <1>1, <2>1 DEF Call, Flags, TypeOK, Places, LockInv,
        RecoveryInv, UnderLock, WorkerConfined, Rotating, FreshSession, SendBudget
  <1>2. CASE Cancel
    BY <1>2 DEF Cancel, TypeOK, Places, LockInv, RecoveryInv, UnderLock, WorkerConfined,
                Rotating, FreshSession, SendBudget
  <1>3. CASE AwaitRecovery
    <2>1. Least(Interval, left) \in 0..Interval
      BY DEF Least, TypeOK
    <2> QED
      BY <1>3, <2>1 DEF AwaitRecovery, TypeOK, Places, LockInv, RecoveryInv, UnderLock,
                        WorkerConfined, Rotating, FreshSession, SendBudget
  <1>4. CASE Expire
    BY <1>4 DEF Expire, TypeOK, Places, LockInv, RecoveryInv, UnderLock, WorkerConfined,
                Rotating, FreshSession, SendBudget
  <1>5. CASE Poll
    BY <1>5 DEF Poll, TypeOK, Places, LockInv, RecoveryInv, UnderLock, WorkerConfined,
                Rotating, FreshSession, SendBudget
  <1>6. CASE Send
    <2>1. attempt \in 0..MaxRetries
      BY <1>6 DEF Send, MaySend, TypeOK, SendBudget
    <2>2. SendBudget'
      BY <1>6, <2>1 DEF Send, MaySend, TypeOK, SendBudget
    <2>3. Flags'
      BY <1>6, Zenon DEF Send, TypeOK, Flags
    <2> QED
      BY <1>6, <2>1, <2>2, <2>3 DEF Send, Flags, TypeOK, Places, LockInv, RecoveryInv,
        UnderLock, WorkerConfined, Rotating, FreshSession
  <1>7. CASE GiveUp
    BY <1>7 DEF GiveUp, TypeOK, Places, LockInv, RecoveryInv, UnderLock, WorkerConfined,
                Rotating, FreshSession, SendBudget
  <1>8. CASE Answered
    BY <1>8 DEF Answered, TypeOK, Places, LockInv, RecoveryInv, UnderLock, WorkerConfined,
                Rotating, FreshSession, SendBudget
  <1>9. CASE NetworkError
    BY <1>9 DEF NetworkError, TypeOK, Places, LockInv, RecoveryInv, UnderLock,
                WorkerConfined, Rotating, FreshSession, SendBudget
  <1>10. CASE Blocked
    <2>1. bad' \in 0..MaxStatusHistory /\ block_attempts' \in 0..BlockThreshold
      BY <1>10, CappedType DEF Blocked, TypeOK
    <2> QED
      BY <1>10, <2>1 DEF Blocked, TypeOK, Places, LockInv, RecoveryInv, UnderLock,
                         WorkerConfined, Rotating, FreshSession, SendBudget
  <1>11. CASE RotationStarts
    BY <1>11 DEF RotationStarts, TypeOK, Places, LockInv, RecoveryInv, UnderLock,
                 WorkerConfined, Rotating, FreshSession, SendBudget
  <1>12. CASE RotationMisses
    BY <1>12 DEF RotationMisses, TypeOK, Places, LockInv, RecoveryInv, UnderLock,
                 WorkerConfined, Rotating, FreshSession, SendBudget
  <1>13. CASE Rotated
    BY <1>13 DEF Rotated, TypeOK, Places, LockInv, RecoveryInv, UnderLock,
                 WorkerConfined, Rotating, FreshSession, SendBudget
  <1>14. CASE RotationFails
    BY <1>14 DEF RotationFails, TypeOK, Places, LockInv, RecoveryInv, UnderLock,
                 WorkerConfined, Rotating, FreshSession, SendBudget
  <1>15. CASE HandleBlock
    BY <1>15 DEF HandleBlock, TypeOK, Places, LockInv, RecoveryInv, UnderLock,
                 WorkerConfined, Rotating, FreshSession, SendBudget
  <1>16. CASE Reset
    <2>1. Flags'
      BY <1>16, Zenon DEF Reset, TypeOK, Flags
    <2> QED
      BY <1>16, <2>1 DEF Reset, Flags, TypeOK, Places, LockInv,
        RecoveryInv, UnderLock, WorkerConfined, Rotating, FreshSession, SendBudget
  <1>17. CASE Accepted
    <2>1. Flags'
      BY <1>17, Zenon DEF Accepted, Resume, LeaveFor, Asker, TypeOK, Flags
    <2> QED
      BY <1>17, <2>1 DEF Accepted, Resume, LeaveFor, Asker, Flags, TypeOK, Places, LockInv,
        RecoveryInv, UnderLock, WorkerConfined, Rotating, FreshSession, SendBudget
  <1>18. CASE Pending
    BY <1>18 DEF Pending, LeaveFor, Asker, TypeOK, Places, LockInv, RecoveryInv,
                 UnderLock, WorkerConfined, Rotating, FreshSession, SendBudget
  <1>19. CASE Refused
    BY <1>19 DEF Refused, Asker, TypeOK, Places, LockInv, RecoveryInv, UnderLock,
                 WorkerConfined, Rotating, FreshSession, SendBudget
  <1>20. CASE UnblockUnreachable
    BY <1>20 DEF UnblockUnreachable, TypeOK, Places, LockInv, RecoveryInv, UnderLock,
                 WorkerConfined, Rotating, FreshSession, SendBudget
  <1>21. CASE Bought
    <2>1. Flags'
      BY <1>21, Zenon DEF Bought, Resume, LeaveFor, TypeOK, Flags
    <2> QED
      BY <1>21, <2>1 DEF Bought, Resume, LeaveFor, Flags, TypeOK, Places, LockInv,
        RecoveryInv, UnderLock, WorkerConfined, Rotating, FreshSession, SendBudget
  <1>22. CASE PurchaseFails
    BY <1>22 DEF PurchaseFails, TypeOK, Places, LockInv, RecoveryInv, UnderLock,
                 WorkerConfined, Rotating, FreshSession, SendBudget
  <1>23. CASE PurchaseRaises
    BY <1>23 DEF PurchaseRaises, TypeOK, Places, LockInv, RecoveryInv, UnderLock,
                 WorkerConfined, Rotating, FreshSession, SendBudget
  <1>24. ASSUME NEW p \in Photos, PhotoStep(p) PROVE IInv'
    <2> USE DEF TypeOK, LockInv, RecoveryInv, UnderLock, WorkerConfined, Rotating,
                FreshSession, SendBudget
    <2>1. CASE PhotoAsks(p)
      BY <2>1 DEF PhotoAsks
    <2>2. CASE PhotoLoads(p)
      BY <2>2 DEF PhotoLoads
    <2>3. CASE PhotoLoaded(p)
      BY <2>3 DEF PhotoLoaded
    <2>4. CASE PhotoCancelled(p)
      BY <2>4 DEF PhotoCancelled
    <2> QED
      BY <1>24, <2>1, <2>2, <2>3, <2>4 DEF PhotoStep
  <1>25. CASE Tick
    <2>1. left' \in 0..Window /\ timer' \in 0..Interval /\ cooldown' \in 0..Cooldown
      BY <1>25, LessType DEF Tick, TypeOK
    <2> QED
      BY <1>25, <2>1 DEF Tick, TypeOK, LockInv, RecoveryInv, UnderLock, WorkerConfined,
                         Rotating, FreshSession, SendBudget
  <1>26. CASE Restart
    <2>1. Flags'
      BY <1>26, Zenon DEF Restart, TypeOK, Flags
    <2> QED
      BY <1>26, <2>1 DEF Restart, Flags, TypeOK, Places, LockInv,
        RecoveryInv, UnderLock, WorkerConfined, Rotating, FreshSession, SendBudget
  <1>27. CASE UNCHANGED vars
    BY <1>27 DEF vars, TypeOK, LockInv, RecoveryInv, UnderLock, WorkerConfined, Rotating,
                 FreshSession, SendBudget
  <1> QED
    BY <1>1, <1>2, <1>3, <1>4, <1>5, <1>6, <1>7, <1>8, <1>9, <1>10, <1>11, <1>12, <1>13,
       <1>14, <1>15, <1>16, <1>17, <1>18, <1>19, <1>20, <1>21, <1>22, <1>23, <1>24,
       <1>25, <1>26, <1>27 DEF Next, ClientStep

LEMMA Inductive == Spec => []IInv
  BY InitIInv, NextIInv, PTL DEF Spec

-----------------------------------------------------------------------------
\* Every reachable state of the session is well typed, for any limits.
THEOREM TypeCorrect == Spec => []TypeOK
  <1>1. IInv => TypeOK
    BY DEF IInv
  <1> QED
    BY <1>1, Inductive, PTL

\* Avito is left alone while a recovery is open, with any number of photos
\* (photo_access and _recovery_lock of external_api.py).
THEOREM Quiet == Spec => []AvitoQuiet
  <1>1. IInv => AvitoQuiet
    BY DEF IInv, LockInv, RecoveryInv, UnderLock, AvitoQuiet
  <1> QED
    BY <1>1, Inductive, PTL

\* No process that changes the IP outlives the call of rotate_with_retries.
THEOREM WorkerEnds == Spec => []WorkerConfined
  <1>1. IInv => WorkerConfined
    BY DEF IInv
  <1> QED
    BY <1>1, Inductive, PTL

\* No request is sent with a session built from replaced cookies.
THEOREM SessionFresh == Spec => []FreshSession
  <1>1. IInv => FreshSession
    BY DEF IInv
  <1> QED
    BY <1>1, Inductive, PTL

\* A call sends max_count_of_retry times and once more, for every value of the limit.
THEOREM SendsBounded == Spec => []SendBudget
  <1>1. IInv => SendBudget
    BY DEF IInv
  <1> QED
    BY <1>1, Inductive, PTL

-----------------------------------------------------------------------------
LEMMA WindowStep ==
  IInv /\ [Next]_vars =>
    [suspended /\ suspended' /\ left' > left => left = 0 /\ pc' = "idle"]_vars
  <1> SUFFICES ASSUME IInv, Next, suspended, suspended', left' > left
               PROVE  left = 0 /\ pc' = "idle"
    OBVIOUS
  <1> USE DEF call, clock, cookies, photos, rotation, Goto
  <1>1. left \in 0..Window /\ (pc = "block" => ~suspended)
    BY DEF IInv, TypeOK, RecoveryInv
  <1>2. CASE Expire
    BY <1>2 DEF Expire
  <1>3. CASE HandleBlock
    BY <1>1, <1>3 DEF HandleBlock
  <1>4. CASE Tick
    BY <1>1, <1>4, LessType DEF Tick
  <1>5. CASE Accepted \/ Bought
    BY <1>5 DEF Accepted, Bought, Resume
  <1>6. CASE Restart
    BY <1>6 DEF Restart
  <1>7. CASE Call \/ Cancel \/ AwaitRecovery \/ Poll \/ Send \/ GiveUp \/ Answered
             \/ NetworkError \/ Blocked
    BY <1>1, <1>7 DEF Call, Cancel, AwaitRecovery, Poll, Send, GiveUp, Answered,
                      NetworkError, Blocked
  <1>8. CASE RotationStarts \/ RotationMisses \/ Rotated \/ RotationFails \/ Reset
             \/ Pending \/ Refused \/ UnblockUnreachable \/ PurchaseFails
             \/ PurchaseRaises
    BY <1>1, <1>8 DEF RotationStarts, RotationMisses, Rotated, RotationFails, Reset,
                      Pending, Refused, UnblockUnreachable, PurchaseFails, PurchaseRaises
  <1>9. ASSUME NEW p \in Photos, PhotoStep(p) PROVE FALSE
    BY <1>1, <1>9 DEF PhotoStep, PhotoAsks, PhotoLoads, PhotoLoaded, PhotoCancelled
  <1> QED
    BY <1>2, <1>3, <1>4, <1>5, <1>6, <1>7, <1>8, <1>9 DEF Next, ClientStep

\* Whatever SPFA answers, only a call that fails at the end of a window opens the next
\* one, for windows and intervals of any length.
THEOREM WindowKept == Spec => WindowNotExtended
  BY Inductive, WindowStep, PTL DEF Spec, WindowNotExtended

-----------------------------------------------------------------------------
LEMMA InitAccess == Init => Access!Init
  BY DEF Init, Access!Init

Loading == {p \in Photos : photo[p] = "load"}

LEMMA NextAccess == IInv /\ [Next]_vars => [Access!Next]_(Access!vars)
  <1> SUFFICES ASSUME IInv, [Next]_vars PROVE [Access!Next]_(Access!vars)
    OBVIOUS
  <1> USE DEF call, clock, cookies, photos, rotation, Goto
  <1>0. /\ LockInv /\ RecoveryInv
        /\ suspended \in BOOLEAN
        /\ pc \in UnderLock => suspended
        /\ pc \in {"send", "rotate", "block"} => ~suspended
    BY DEF IInv, TypeOK, RecoveryInv
  <1>1. CASE Call \/ AwaitRecovery \/ Expire \/ GiveUp \/ RotationStarts
             \/ RotationMisses \/ Rotated \/ Reset \/ Tick
    BY <1>1 DEF Call, AwaitRecovery, Expire, GiveUp, RotationStarts, RotationMisses,
                Rotated, Reset, Tick, Rotating, Access!vars
  <1>2. CASE Cancel \/ Answered \/ NetworkError \/ Blocked
    BY <1>2 DEF Cancel, Answered, NetworkError, Blocked, Access!Sent, Access!Next,
                Access!vars
  <1>3. CASE Poll
    BY <1>0, <1>3 DEF Poll, RecoveryInv, UnderLock, Access!Ask, Access!Next
  <1>4. CASE Send
    BY <1>0, <1>4 DEF Send, Access!Send, Access!Next
  <1>5. CASE HandleBlock
    <2>1. Loading = {}
      BY <1>0, <1>5 DEF HandleBlock, LockInv, Loading
    <2> QED
      BY <1>0, <1>5, <2>1 DEF HandleBlock, Loading, Access!Suspend, Access!Next
  <1>6. CASE Accepted \/ Pending
    <2>1. suspended' \in BOOLEAN
      BY <1>0, <1>6, Zenon DEF Accepted, Pending, Resume
    <2>2. pc \in {"poll", "unblock"} /\ pc' \in {"loop", "reset"}
      BY <1>6 DEF Accepted, Pending, Resume, LeaveFor, Asker
    <2> QED
      BY <1>6, <2>1, <2>2 DEF Accepted, Pending, Resume, LeaveFor, Access!Answer,
                              Access!Next
  <1>7. CASE Bought
    <2>1. suspended' \in BOOLEAN
      BY <1>7, Zenon DEF Bought, Resume
    <2>2. pc = "buy" /\ pc' \in {"loop", "reset"}
      BY <1>7 DEF Bought, Resume, LeaveFor
    <2> QED
      BY <1>7, <2>1, <2>2 DEF Bought, Resume, LeaveFor, Access!Answer, Access!Next
  <1>8. CASE Refused \/ UnblockUnreachable
    BY <1>8 DEF Refused, UnblockUnreachable, Access!vars
  <1>9. CASE PurchaseFails \/ PurchaseRaises \/ RotationFails
    BY <1>0, <1>9 DEF PurchaseFails, PurchaseRaises, RotationFails, Rotating,
                      Access!Answer, Access!Next, Access!vars
  <1>10. ASSUME NEW p \in Photos, PhotoStep(p) PROVE [Access!Next]_(Access!vars)
    <2>0. photo \in [Photos -> {"idle", "wait", "load"}]
      BY DEF IInv, TypeOK
    <2>1. CASE PhotoAsks(p) \/ PhotoCancelled(p)
      <3>1. Loading' = Loading
        BY <2>0, <2>1 DEF PhotoAsks, PhotoCancelled, Loading
      <3> QED
        BY <2>1, <3>1 DEF PhotoAsks, PhotoCancelled, Loading, Access!vars
    <2>2. CASE PhotoLoads(p)
      <3>1. Loading' = Loading \cup {p}
        BY <2>0, <2>2 DEF PhotoLoads, Loading
      <3> QED
        BY <2>2, <3>1 DEF PhotoLoads, Loading, Access!Load, Access!Next
    <2>3. CASE PhotoLoaded(p)
      <3>1. Loading' = Loading \ {p}
        BY <2>0, <2>3 DEF PhotoLoaded, Loading
      <3> QED
        BY <2>3, <3>1 DEF PhotoLoaded, Loading, Access!Loaded, Access!Next
    <2> QED
      BY <1>10, <2>1, <2>2, <2>3 DEF PhotoStep
  <1>11. CASE Restart
    BY <1>11 DEF Restart, Access!Restart, Access!Next
  <1>12. CASE UNCHANGED vars
    BY <1>12 DEF vars, Access!vars
  <1> QED
    BY <1>1, <1>2, <1>3, <1>4, <1>5, <1>6, <1>7, <1>8, <1>9, <1>10, <1>11, <1>12
       DEF Next, ClientStep

\* The retry loop, the provider and the photos implement the promise of AvitoAccess.
THEOREM Refinement == Spec => ImplementsAccess
  BY InitAccess, Inductive, NextAccess, PTL DEF Spec, ImplementsAccess, Access!Spec
=============================================================================
