------------------------ MODULE RoundSchedulerProofs ------------------------
(***************************************************************************)
(* Theorems about RoundScheduler for any set of links, any number of       *)
(* pages, edits and failed reads: type correctness, what a return of       *)
(* parse() leaves, what a round has scanned, and how many pages a scan can *)
(* save under a target that is no longer in the store.                     *)
(***************************************************************************)
EXTENDS RoundScheduler, FiniteSetTheorems, TLAPS

InScan == {"page", "request", "save", "export", "last"}

\* A revision in the store, in the copy or in an answer on its way was drawn before, and
\* the edits bound it.
RevisionInv ==
  \A k \in Keys :
    /\ revision[k] <= edits + 1
    /\ links[k] <= revision[k] /\ copy[k] <= revision[k] /\ target[k] <= revision[k]
    /\ \A t \in Threads : answer[t][k] <= revision[k]

\* A scan has saved no more stale pages than it has passed, the one it exports included.
PageInv ==
  \A k \in Keys :
    stale[k] <= IF place[k] \in {"export", "last"} THEN page[k] ELSE page[k] - 1

\* Who can run: only a key of workers has a thread, a scan has a target, only a scan holds
\* the foreground, and the finally of the scheduler has given back the one of the round.
WorkerInv ==
  /\ \A k \in Keys \ workers : place[k] = "none"
  /\ \A k \in Keys : k \in foreground => place[k] \in InScan
  /\ \A k \in Keys : place[k] \in InScan => target[k] # 0
  /\ sched \in {"join", "done"} => Round \notin foreground
  /\ sched = "done" => \A k \in workers : place[k] = "dead"
  /\ sched = "done" => refresher = "exit"

\* What the dict completed says of a link without a worker was scanned to the end since
\* the last pause began, as was the target a dead thread has left behind.
ScanInv ==
  /\ \A k \in Keys : place[k] = "dead" => scanned[k] = target[k]
  /\ ~pausing => \A k \in Keys \ workers : completed[k] # 0 => scanned[k] = completed[k]

\* The other threads with an older answer: it holds the target the store has no more.
Older(k) == {t \in Threads \ {k} : reading[t] = "fetched" /\ answer[t][k] = target[k]}

\* Checkpoints of the page at hand that are behind the scan, and the one that will be.
Passed(k) == IF place[k] = "request" THEN 1 ELSE IF place[k] = "save" THEN 2 ELSE 0
Misled(k) == IF reading[k] = "ready" /\ copy[k] = target[k] THEN 1 ELSE 0

\* A scan with a stale page: its target never comes back into the store, so each
\* checkpoint it has passed since was paid with a failed read or with an older answer.
StaleInv ==
  \A k \in Keys : stale[k] # 0 =>
    /\ place[k] \in InScan
    /\ links[k] # target[k]
    /\ reading[k] = "fetched" => answer[k][k] # target[k]
    /\ 3 * (stale[k] - 1) + Passed(k) + Misled(k) + Cardinality(Older(k))
         <= failures + Cardinality(Keys)

IInv ==
  /\ TypeOK
  /\ RevisionInv
  /\ PageInv
  /\ WorkerInv
  /\ ScanInv
  /\ StaleInv
-----------------------------------------------------------------------------
LEMMA InitIInv == Init => IInv
<1> SUFFICES ASSUME Init
             PROVE  IInv
  OBVIOUS
<1> USE SchedulerAssumption DEF Init, Nothing, Threads
<1>1. TypeOK
  <2>1. links \in [Keys -> Targets] /\ Nothing \in [Keys -> Targets]
    BY DEF Targets
  <2>2. page \in [Keys -> 1..Pages] /\ stale \in [Keys -> 0..Pages]
    OBVIOUS
  <2>3. place \in [Keys -> WorkerPlaces] /\ edits \in 0..MaxEdits /\ failures \in 0..MaxFailures
    BY DEF WorkerPlaces
  <2>4. answer \in [Threads -> [Keys -> Targets]]
    BY <2>1
  <2>5. reading \in [Threads -> {"no", "fetched", "ready"}]
    OBVIOUS
  <2> QED
    BY <2>1, <2>2, <2>3, <2>4, <2>5 DEF TypeOK
<1>2. RevisionInv
  BY DEF RevisionInv, Targets
<1>3. PageInv /\ StaleInv
  BY DEF PageInv, StaleInv
<1>4. WorkerInv /\ ScanInv
  BY DEF WorkerInv, ScanInv, InScan
<1> QED
  BY <1>1, <1>2, <1>3, <1>4 DEF IInv

-----------------------------------------------------------------------------
(* Type correctness. *)

LEMMA StoreType ==
  ASSUME TypeOK, RevisionInv, NEW k \in Keys, EditLink(k)
  PROVE  TypeOK'
<1> USE SchedulerAssumption DEF EditLink, store, reads, loop, scans, results
<1>1. revision[k] + 1 \in Targets /\ edits + 1 \in 0..MaxEdits
  BY DEF TypeOK, RevisionInv, Targets
<1>2. links' \in [Keys -> Targets] /\ revision' \in [Keys -> Targets]
  BY <1>1 DEF TypeOK, Targets
<1> QED
  BY <1>1, <1>2 DEF TypeOK

LEMMA ReadType ==
  ASSUME TypeOK, NEW t \in Threads, Fetch(t) \/ Keep(t)
  PROVE  TypeOK'
<1> USE SchedulerAssumption DEF Fetch, Keep, store, reads, loop, scans, results
<1>1. Nothing \in [Keys -> Targets]
  BY DEF Nothing, Targets
<1>2. reading' \in [Threads -> {"no", "fetched", "ready"}]
  BY DEF TypeOK
<1>3. answer' \in [Threads -> [Keys -> Targets]] /\ copy' \in [Keys -> Targets]
  BY <1>1 DEF TypeOK
<1>4. failures' \in 0..MaxFailures
  BY DEF TypeOK
<1> QED
  BY <1>2, <1>3, <1>4 DEF TypeOK

LEMMA SchedulerType ==
  ASSUME TypeOK, Reap \/ BeginRound \/ Launch \/ PauseOver \/ Close \/ Join
  PROVE  TypeOK'
<1> USE SchedulerAssumption DEF store, reads, loop, scans, results
<1>1. CASE Reap
  BY <1>1 DEF Reap, TypeOK, WorkerPlaces
<1>2. CASE BeginRound
  <2>1. Nothing \in [Keys -> Targets]
    BY DEF Nothing, Targets
  <2> QED
    BY <1>2, <2>1 DEF BeginRound, TypeOK
<1>3. CASE Launch
  <2> USE <1>3 DEF Launch, Looked, Pending
  <2>1. Nothing \in [Keys -> Targets]
    BY DEF Nothing, Targets
  <2>2. workers' \in SUBSET Keys /\ place' \in [Keys -> WorkerPlaces]
    BY DEF TypeOK, WorkerPlaces
  <2>3. target' \in [Keys -> Targets]
    BY DEF TypeOK
  <2>4. reading' \in [Threads -> {"no", "fetched", "ready"}]
    BY DEF TypeOK
  <2>5. /\ pausing' \in BOOLEAN /\ window' \in BOOLEAN
        /\ foreground' \in SUBSET (Keys \cup {Round}) /\ scanned' \in [Keys -> Targets]
    BY <2>1 DEF TypeOK
  <2>6. sched' = "reap" /\ UNCHANGED <<failures, copy, answer>>
    OBVIOUS
  <2>7. UNCHANGED <<links, revision, edits, completed, due, page, stale, refresher, stopped,
                    viewed, exported>>
    OBVIOUS
  <2> QED
    BY <2>2, <2>3, <2>4, <2>5, <2>6, <2>7 DEF TypeOK
<1>4. CASE PauseOver \/ Close \/ Join
  BY <1>4 DEF PauseOver, Close, Join, TypeOK
<1> QED
  BY <1>1, <1>2, <1>3, <1>4

\* What each step of a worker does to the variables that describe the workers.
LEMMA LeaveType ==
  ASSUME TypeOK, NEW k \in Keys, NEW where \in WorkerPlaces, Leave(k, where)
  PROVE  /\ place' \in [Keys -> WorkerPlaces] /\ page' \in [Keys -> 1..Pages]
         /\ stale' \in [Keys -> 0..Pages] /\ foreground' \in SUBSET (Keys \cup {Round})
BY SchedulerAssumption DEF Leave, Goto, TypeOK

LEMMA ReturnType ==
  ASSUME TypeOK, NEW k \in Keys, NEW outcome \in Targets, Return(k, outcome)
  PROVE  /\ place' \in [Keys -> WorkerPlaces] /\ page' \in [Keys -> 1..Pages]
         /\ stale' \in [Keys -> 0..Pages] /\ foreground' \in SUBSET (Keys \cup {Round})
         /\ target' \in [Keys -> Targets] /\ scanned' \in [Keys -> Targets]
<1>1. "dead" \in WorkerPlaces /\ Leave(k, "dead")
  BY DEF WorkerPlaces, Return
<1> QED
  BY <1>1, LeaveType DEF Return, TypeOK

LEMMA NextPageType ==
  ASSUME TypeOK, NEW k \in Keys, NextPage(k)
  PROVE  place' \in [Keys -> WorkerPlaces] /\ page' \in [Keys -> 1..Pages]
BY SchedulerAssumption DEF NextPage, Goto, TypeOK, WorkerPlaces

LEMMA LookedType ==
  ASSUME TypeOK, NEW t \in Threads, Looked(t)
  PROVE  /\ reading' \in [Threads -> {"no", "fetched", "ready"}]
         /\ UNCHANGED <<failures, copy, answer>>
BY DEF Looked, TypeOK

LEMMA WorkerType ==
  ASSUME TypeOK, PageInv, NEW k \in Keys,
         \/ Take(k) \/ Cancel(k) \/ AskPage(k) \/ RequestFatal(k)
         \/ Answer(k) \/ Save(k) \/ Export(k) \/ Fail(k) \/ Handle(k) \/ End(k)
  PROVE  TypeOK'
<1> USE SchedulerAssumption DEF store, reads, loop, scans, results
<1>1. /\ 0 \in Targets /\ target[k] \in Targets /\ copy[k] \in Targets /\ k \in Threads
      /\ {"top", "page", "request", "save", "export", "error", "last", "dead"}
           \subseteq WorkerPlaces
  BY DEF TypeOK, Targets, Threads, WorkerPlaces
<1>2. CASE Take(k)
  <2>1. CASE stopped \/ copy[k] = 0
    <3>1. Return(k, 0)
      BY <1>2, <2>1 DEF Take
    <3> QED
      BY <1>1, <1>2, <3>1, ReturnType, LookedType DEF Take, TypeOK
  <2>2. CASE ~(stopped \/ copy[k] = 0)
    BY <1>1, <1>2, <2>2, LookedType DEF Take, Goto, TypeOK
  <2> QED
    BY <2>1, <2>2
<1>3. CASE Cancel(k)
  BY <1>1, <1>3, LeaveType, LookedType DEF Cancel, TypeOK
<1>4. CASE AskPage(k)
  BY <1>1, <1>4, LookedType DEF AskPage, Goto, TypeOK
<1>5. CASE RequestFatal(k)
  BY <1>1, <1>5, ReturnType DEF RequestFatal, TypeOK
<1>6. CASE Answer(k)
  <2>1. place' \in [Keys -> WorkerPlaces] /\ page' \in [Keys -> 1..Pages]
    BY <1>1, <1>6, NextPageType DEF Answer, Goto, TypeOK
  <2> QED
    BY <1>1, <1>6, <2>1, LookedType DEF Answer, TypeOK
<1>7. CASE Save(k)
  <2>1. stale[k] + 1 \in 0..Pages
    BY <1>7 DEF Save, PageInv, TypeOK
  <2>2. stale' \in [Keys -> 0..Pages]
    BY <1>7, <2>1 DEF Save, TypeOK
  <2>3. viewed' \in SUBSET (Keys \X (1..Pages))
    BY <1>7 DEF Save, TypeOK
  <2>4. place' \in [Keys -> WorkerPlaces]
    BY <1>1, <1>7 DEF Save, Goto, TypeOK
  <2> QED
    BY <1>1, <1>7, <2>2, <2>3, <2>4, LookedType DEF Save, TypeOK
<1>8. CASE Export(k)
  <2>1. exported' \in SUBSET (Keys \X (1..Pages))
    BY <1>8 DEF Export, TypeOK
  <2> QED
    BY <1>8, <2>1, NextPageType DEF Export, TypeOK
<1>9. CASE Fail(k)
  BY <1>1, <1>9, LeaveType DEF Fail, TypeOK
<1>10. CASE Handle(k)
  <2>1. CASE Continues(k)
    BY <1>1, <1>10, <2>1, ReturnType, LookedType DEF Handle, TypeOK
  <2>2. CASE ~Continues(k)
    BY <1>1, <1>10, <2>2, LeaveType, LookedType DEF Handle, TypeOK
  <2> QED
    BY <2>1, <2>2
<1>11. CASE End(k)
  BY <1>1, <1>11, ReturnType, LookedType DEF End, TypeOK
<1> QED
  BY <1>2, <1>3, <1>4, <1>5, <1>6, <1>7, <1>8, <1>9, <1>10, <1>11

LEMMA TypeKept ==
  ASSUME TypeOK, RevisionInv, PageInv, [Next]_vars
  PROVE  TypeOK'
<1>1. ASSUME NEW k \in Keys, EditLink(k)
      PROVE  TypeOK'
  BY <1>1, StoreType
<1>2. ASSUME NEW t \in Threads, Fetch(t) \/ Keep(t)
      PROVE  TypeOK'
  BY <1>2, ReadType
<1>3. CASE RefreshStep \/ Stop
  BY <1>3 DEF RefreshStep, RefreshAsk, RefreshStart, RefreshEnd, RefreshFatal, RefreshExit,
              RefreshGoto, Stop, TypeOK, store, reads, loop, scans, results
<1>4. CASE UNCHANGED vars
  BY <1>4 DEF vars, store, reads, loop, scans, results, TypeOK
<1> QED
  BY <1>1, <1>2, <1>3, <1>4, SchedulerType, WorkerType
  DEF Next, SchedulerStep, WorkerStep, Threads

-----------------------------------------------------------------------------
(* Revisions and pages. *)

\* Every target a worker takes, keeps or returns is one the copy or the worker had, or 0.
LEMMA TargetStep ==
  ASSUME TypeOK, NEW k \in Keys,
         \/ Take(k) \/ Cancel(k) \/ AskPage(k) \/ RequestFatal(k)
         \/ Answer(k) \/ Save(k) \/ Export(k) \/ Fail(k) \/ Handle(k) \/ End(k)
  PROVE  /\ \A j \in Keys : target'[j] = target[j] \/ (j = k /\ target'[j] \in {0, copy[j]})
         /\ UNCHANGED <<links, revision, edits, copy, answer>>
BY DEF Take, Cancel, AskPage, RequestFatal, Answer, Save, Export, Fail, Handle, End,
       Return, Leave, Looked, TypeOK, store, reads

LEMMA RevisionKept ==
  ASSUME TypeOK, RevisionInv, [Next]_vars
  PROVE  RevisionInv'
<1> USE SchedulerAssumption DEF RevisionInv
<1>1. ASSUME NEW k \in Keys, EditLink(k)
      PROVE  RevisionInv'
  BY <1>1 DEF EditLink, TypeOK, Targets, reads, scans
<1>2. ASSUME NEW t \in Threads, Fetch(t)
      PROVE  RevisionInv'
  BY <1>2 DEF Fetch, TypeOK, store, scans
<1>3. ASSUME NEW t \in Threads, Keep(t)
      PROVE  RevisionInv'
  <2>1. \A k \in Keys : Nothing[k] <= revision[k]
    BY DEF Nothing, TypeOK, Targets
  <2> QED
    BY <1>3, <2>1 DEF Keep, TypeOK, store, scans
<1>4. CASE Launch
  BY <1>4 DEF Launch, Looked, Pending, TypeOK, store
<1>5. ASSUME NEW k \in Keys,
             \/ Take(k) \/ Cancel(k) \/ AskPage(k) \/ RequestFatal(k)
             \/ Answer(k) \/ Save(k) \/ Export(k) \/ Fail(k) \/ Handle(k) \/ End(k)
      PROVE  RevisionInv'
  BY <1>5, TargetStep DEF TypeOK, Targets
<1>6. CASE Reap \/ BeginRound \/ PauseOver \/ Close \/ Join \/ Stop \/ UNCHANGED vars
  BY <1>6 DEF Reap, BeginRound, PauseOver, Close, Join, Stop, vars, store, reads, scans
<1>7. CASE RefreshStep
  BY <1>7 DEF RefreshStep, RefreshAsk, RefreshStart, RefreshEnd, RefreshFatal, RefreshExit,
              RefreshGoto, store, reads, scans
<1> QED
  BY <1>1, <1>2, <1>3, <1>4, <1>5, <1>6, <1>7
  DEF Next, SchedulerStep, WorkerStep, Threads

LEMMA PageKept ==
  ASSUME TypeOK, PageInv, WorkerInv, [Next]_vars
  PROVE  PageInv'
<1> USE SchedulerAssumption DEF PageInv
<1>1. \A k \in Keys : stale[k] \in 0..Pages /\ page[k] \in 1..Pages
  BY DEF TypeOK
<1>2. CASE Reap \/ Launch
  BY <1>1, <1>2 DEF Reap, Launch, Pending, TypeOK, WorkerInv
<1>3. ASSUME NEW k \in Keys, Take(k) \/ Cancel(k) \/ RequestFatal(k) \/ Fail(k)
                             \/ Handle(k) \/ End(k)
      PROVE  PageInv'
  BY <1>1, <1>3 DEF Take, Cancel, RequestFatal, Fail, Handle, End, Return, Leave, Goto, TypeOK
<1>4. ASSUME NEW k \in Keys, AskPage(k) \/ Answer(k) \/ Save(k) \/ Export(k)
      PROVE  PageInv'
  BY <1>1, <1>4 DEF AskPage, Answer, Save, Export, NextPage, Goto, TypeOK
<1>5. ASSUME NEW t \in Threads, Fetch(t) \/ Keep(t)
      PROVE  PageInv'
  BY <1>5 DEF Fetch, Keep, scans
<1>6. ASSUME NEW k \in Keys, EditLink(k)
      PROVE  PageInv'
  BY <1>6 DEF EditLink, scans
<1>7. CASE BeginRound \/ PauseOver \/ Close \/ Join \/ Stop \/ UNCHANGED vars
  BY <1>7 DEF BeginRound, PauseOver, Close, Join, Stop, vars, scans
<1>8. CASE RefreshStep
  BY <1>8 DEF RefreshStep, RefreshAsk, RefreshStart, RefreshEnd, RefreshFatal, RefreshExit,
              RefreshGoto, scans
<1> QED
  BY <1>2, <1>3, <1>4, <1>5, <1>6, <1>7, <1>8
  DEF Next, SchedulerStep, WorkerStep, Threads

-----------------------------------------------------------------------------
(* The threads, and what a round has scanned. *)

LEMMA WorkerKept ==
  ASSUME TypeOK, WorkerInv, [Next]_vars
  PROVE  WorkerInv'
<1> USE SchedulerAssumption DEF WorkerInv, InScan
<1>1. foreground \subseteq Keys \cup {Round} /\ workers \subseteq Keys
  BY DEF TypeOK
<1>2. CASE Reap
  BY <1>1, <1>2 DEF Reap, TypeOK
<1>3. CASE BeginRound
  BY <1>1, <1>3 DEF BeginRound, scans
<1>4. CASE Launch
  BY <1>1, <1>4 DEF Launch, Pending, TypeOK
<1>5. CASE Close \/ Join
  BY <1>1, <1>5 DEF Close, Join, scans
<1>6. ASSUME NEW k \in Keys,
             \/ Take(k) \/ Cancel(k) \/ AskPage(k) \/ RequestFatal(k)
             \/ Answer(k) \/ Save(k) \/ Export(k) \/ Fail(k) \/ Handle(k) \/ End(k)
      PROVE  WorkerInv'
  <2>1. k \in workers /\ place[k] \notin {"none", "dead"}
    BY <1>6 DEF Take, Cancel, AskPage, RequestFatal, Answer, Save, Export, Fail, Handle, End
  <2>2. /\ \A j \in Keys \ {k} : place'[j] = place[j]
        /\ foreground' \in {foreground, foreground \cup {k}, foreground \ {k}}
        /\ k \in foreground' => place'[k] \in InScan
        /\ \A j \in Keys \ {k} : target'[j] = target[j]
        /\ place'[k] \in InScan => target'[k] # 0
        /\ UNCHANGED <<sched, workers, refresher>>
    BY <1>1, <1>6 DEF Take, Cancel, AskPage, RequestFatal, Answer, Save, Export, Fail, Handle,
       End, Return, Leave, Goto, NextPage, TypeOK, loop
  <2> QED
    BY <2>1, <2>2
<1>7. CASE RefreshStep
  BY <1>7 DEF RefreshStep, RefreshAsk, RefreshStart, RefreshEnd, RefreshFatal, RefreshExit,
              RefreshGoto, loop, scans
<1>8. ASSUME NEW t \in Threads, Fetch(t) \/ Keep(t)
      PROVE  WorkerInv'
  BY <1>8 DEF Fetch, Keep, loop, scans
<1>9. ASSUME NEW k \in Keys, EditLink(k)
      PROVE  WorkerInv'
  BY <1>9 DEF EditLink, loop, scans
<1>10. CASE PauseOver \/ Stop \/ UNCHANGED vars
  BY <1>10 DEF PauseOver, Stop, vars, loop, scans
<1> QED
  BY <1>2, <1>3, <1>4, <1>5, <1>6, <1>7, <1>8, <1>9, <1>10
  DEF Next, SchedulerStep, WorkerStep, Threads

LEMMA ScanKept ==
  ASSUME TypeOK, WorkerInv, ScanInv, [Next]_vars
  PROVE  ScanInv'
<1> USE SchedulerAssumption DEF ScanInv
<1>1. workers \subseteq Keys
  BY DEF TypeOK
<1>2. CASE Reap
  BY <1>1, <1>2 DEF Reap, TypeOK, WorkerInv
<1>3. CASE BeginRound
  BY <1>3 DEF BeginRound, Nothing, scans
<1>4. CASE Launch
  BY <1>1, <1>4 DEF Launch, Pending, TypeOK, WorkerInv
<1>5. ASSUME NEW k \in Keys,
             \/ Take(k) \/ Cancel(k) \/ AskPage(k) \/ RequestFatal(k)
             \/ Answer(k) \/ Save(k) \/ Export(k) \/ Fail(k) \/ Handle(k) \/ End(k)
      PROVE  ScanInv'
  <2>1. k \in workers
    BY <1>5 DEF Take, Cancel, AskPage, RequestFatal, Answer, Save, Export, Fail, Handle, End,
                WorkerInv
  <2>2. /\ \A j \in Keys \ {k} : UNCHANGED <<place[j], target[j], scanned[j]>>
        /\ place'[k] = "dead" => scanned'[k] = target'[k]
        /\ UNCHANGED <<workers, completed, pausing>>
    BY <1>5 DEF Take, Cancel, AskPage, RequestFatal, Answer, Save, Export, Fail, Handle,
       End, Return, Leave, Goto, NextPage, TypeOK, loop
  <2> QED
    BY <2>1, <2>2
<1>6. CASE RefreshStep
  BY <1>6 DEF RefreshStep, RefreshAsk, RefreshStart, RefreshEnd, RefreshFatal, RefreshExit,
              RefreshGoto, loop, scans
<1>7. ASSUME NEW t \in Threads, Fetch(t) \/ Keep(t)
      PROVE  ScanInv'
  BY <1>7 DEF Fetch, Keep, loop, scans
<1>8. ASSUME NEW k \in Keys, EditLink(k)
      PROVE  ScanInv'
  BY <1>8 DEF EditLink, loop, scans
<1>9. CASE PauseOver \/ Close \/ Join \/ Stop \/ UNCHANGED vars
  BY <1>9 DEF PauseOver, Close, Join, Stop, vars, loop, scans
<1> QED
  BY <1>2, <1>3, <1>4, <1>5, <1>6, <1>7, <1>8, <1>9
  DEF Next, SchedulerStep, WorkerStep, Threads

-----------------------------------------------------------------------------
(* What the stale pages of a scan were paid with. *)

LEMMA OtherThreads ==
  ASSUME NEW k \in Keys, NEW S \in SUBSET (Threads \ {k})
  PROVE  /\ IsFiniteSet(S) /\ Cardinality(S) \in Nat
         /\ Cardinality(S) <= Cardinality(Keys) /\ Cardinality(Keys) \in Nat
<1> USE SchedulerAssumption
<1>1. IsFiniteSet(Threads) /\ Cardinality(Threads) = Cardinality(Keys) + 1
  BY FS_AddElement DEF Threads
<1>2. IsFiniteSet(Threads \ {k}) /\ Cardinality(Threads \ {k}) = Cardinality(Threads) - 1
  BY <1>1, FS_RemoveElement DEF Threads
<1>3. Cardinality(Keys) \in Nat
  BY FS_CardinalityType
<1>4. IsFiniteSet(S) /\ Cardinality(S) <= Cardinality(Threads \ {k})
  BY <1>2, FS_Subset
<1> QED
  BY <1>1, <1>2, <1>3, <1>4, FS_CardinalityType

LEMMA FewerThreads ==
  ASSUME NEW k \in Keys, NEW T \in SUBSET (Threads \ {k}), NEW S \in SUBSET T
  PROVE  /\ Cardinality(S) \in Nat /\ Cardinality(T) \in Nat
         /\ Cardinality(S) <= Cardinality(T)
         /\ \A t \in T \ S : Cardinality(S) + 1 <= Cardinality(T)
<1>1. IsFiniteSet(T) /\ Cardinality(T) \in Nat /\ Cardinality(S) \in Nat
  BY OtherThreads
<1>2. Cardinality(S) <= Cardinality(T)
  BY <1>1, FS_Subset
<1>3. ASSUME NEW t \in T \ S
      PROVE  Cardinality(S) + 1 <= Cardinality(T)
  <2>1. IsFiniteSet(T \ {t}) /\ Cardinality(T \ {t}) = Cardinality(T) - 1
    BY <1>1, FS_RemoveElement
  <2>2. Cardinality(S) <= Cardinality(T \ {t})
    BY <2>1, FS_Subset
  <2> QED
    BY <1>1, <2>1, <2>2
<1> QED
  BY <1>1, <1>2, <1>3

\* StaleInv of one link, and the price of its stale pages without the older answers.
StaleAt(k) ==
  stale[k] # 0 =>
    /\ place[k] \in InScan
    /\ links[k] # target[k]
    /\ reading[k] = "fetched" => answer[k][k] # target[k]
    /\ 3 * (stale[k] - 1) + Passed(k) + Misled(k) + Cardinality(Older(k))
         <= failures + Cardinality(Keys)

Spent(k) == 3 * stale[k] + Passed(k) + Misled(k)

\* No new older answer, and what the scan has spent more was a failed read or an older
\* answer that is one no longer.
LEMMA StaleStep ==
  ASSUME TypeOK, TypeOK', NEW k \in Keys, StaleAt(k), stale[k] # 0,
         place'[k] \in InScan, links'[k] # target'[k],
         reading'[k] = "fetched" => answer'[k][k] # target'[k],
         Older(k)' \subseteq Older(k),
         \/ Spent(k)' <= Spent(k) + (failures' - failures)
         \/ /\ Older(k)' # Older(k)
            /\ Spent(k)' <= Spent(k) + 1 /\ failures' = failures
  PROVE  StaleAt(k)'
<1> DEFINE c == Cardinality(Older(k))
           d == Cardinality(Older(k)')
<1>1. /\ c \in Nat /\ d \in Nat /\ d <= c
      /\ Older(k)' # Older(k) => d + 1 <= c
  <2>1. Older(k) \in SUBSET (Threads \ {k}) /\ Older(k)' \in SUBSET Older(k)
    BY DEF Older
  <2>2. Older(k)' # Older(k) => \E t \in Older(k) \ Older(k)' : TRUE
    OBVIOUS
  <2> HIDE DEF c, d
  <2> QED
    BY <2>1, <2>2, FewerThreads DEF c, d
<1>2. /\ stale[k] \in Nat /\ stale'[k] \in Nat /\ failures \in Nat /\ failures' \in Nat
      /\ Cardinality(Keys) \in Nat
  BY SchedulerAssumption, FS_CardinalityType DEF TypeOK
<1>3. /\ Passed(k) \in Nat /\ Misled(k) \in Nat /\ Passed(k)' \in Nat /\ Misled(k)' \in Nat
  BY DEF Passed, Misled
<1>4. 3 * (stale[k] - 1) + Passed(k) + Misled(k) + c <= failures + Cardinality(Keys)
  BY DEF StaleAt
<1>5. 3 * (stale'[k] - 1) + Passed(k)' + Misled(k)' + d <= failures' + Cardinality(Keys)
  <2> HIDE DEF c, d
  <2> QED
    BY <1>1, <1>2, <1>3, <1>4 DEF Spent
<1> QED
  BY <1>5 DEF StaleAt

LEMMA StaleReads ==
  ASSUME TypeOK, TypeOK', StaleInv, NEW t \in Threads, Fetch(t) \/ Keep(t), NEW k \in Keys
  PROVE  StaleAt(k)'
<1> SUFFICES ASSUME stale[k] # 0
             PROVE  StaleAt(k)'
  BY DEF Fetch, Keep, scans, StaleAt
<1>1. /\ StaleAt(k) /\ UNCHANGED <<place[k], links[k], target[k], stale[k]>>
      /\ Passed(k)' = Passed(k) /\ Passed(k) \in Nat /\ stale[k] \in Nat /\ failures \in Nat
      /\ place'[k] \in InScan /\ links'[k] # target'[k] /\ k \in Threads
  BY DEF Fetch, Keep, store, scans, StaleInv, StaleAt, Passed, TypeOK, Threads
<1>2. CASE Fetch(t)
  <2>1. Older(k)' \subseteq Older(k)
    BY <1>1, <1>2 DEF Older, Fetch, TypeOK
  <2>2. reading'[k] = "fetched" => answer'[k][k] # target'[k]
    BY <1>1, <1>2 DEF Fetch, TypeOK, StaleAt
  <2>3. Misled(k)' <= Misled(k) + (failures' - failures)
    <3>1. Misled(k) \in {0, 1} /\ Misled(k)' \in {0, 1} /\ failures' \in {failures, failures + 1}
      BY <1>1, <1>2 DEF Misled, Fetch
    <3>2. UNCHANGED <<reading[k], copy[k]>> => Misled(k)' = Misled(k)
      BY <1>1 DEF Misled
    <3>3. \/ UNCHANGED <<reading[k], copy[k]>>
          \/ reading'[k] = "fetched"
          \/ failures' = failures + 1 /\ reading[k] = "no"
      BY <1>1, <1>2 DEF Fetch, TypeOK
    <3>4. /\ reading'[k] = "fetched" => Misled(k)' = 0
          /\ reading[k] = "no" => Misled(k) = 0
      BY DEF Misled
    <3> QED
      BY <1>1, <3>1, <3>2, <3>3, <3>4
  <2>4. Misled(k) \in Nat /\ Misled(k)' \in Nat /\ failures' \in Nat
    BY <1>1, <1>2 DEF Misled, Fetch
  <2>5. Spent(k)' <= Spent(k) + (failures' - failures)
    BY <1>1, <2>3, <2>4 DEF Spent
  <2> QED
    BY <1>1, <2>1, <2>2, <2>5, StaleStep
<1>3. CASE Keep(t)
  <2>1. /\ Older(k)' = Older(k) \ {t} /\ failures' = failures
        /\ reading'[k] = "fetched" => answer'[k][k] # target'[k]
    BY <1>1, <1>3 DEF Older, Keep, TypeOK, StaleAt
  <2>2. Misled(k) \in {0, 1} /\ Misled(k)' \in {0, 1}
    BY DEF Misled
  <2>3. t \notin Older(k) => Misled(k)' = 0
    <3>1. t \notin Older(k) => copy'[k] # target'[k]
      BY <1>1, <1>3 DEF Older, Keep, TypeOK, StaleAt
    <3> QED
      BY <3>1 DEF Misled
  <2>4. CASE t \in Older(k)
    <3>1. Spent(k)' <= Spent(k) + 1 /\ Older(k)' # Older(k)
      BY <1>1, <2>1, <2>2, <2>4 DEF Spent
    <3> QED
      BY <1>1, <2>1, <3>1, StaleStep
  <2>5. CASE t \notin Older(k)
    <3>1. Spent(k)' <= Spent(k) + (failures' - failures)
      BY <1>1, <2>1, <2>2, <2>3, <2>5 DEF Spent
    <3> QED
      BY <1>1, <2>1, <3>1, StaleStep
  <2> QED
    BY <2>4, <2>5
<1> QED
  BY <1>2, <1>3

LEMMA StaleScan ==
  ASSUME TypeOK, TypeOK', WorkerInv, StaleInv, NEW k \in Keys,
         \/ Take(k) \/ Cancel(k) \/ AskPage(k) \/ RequestFatal(k)
         \/ Answer(k) \/ Save(k) \/ Export(k) \/ Fail(k) \/ Handle(k) \/ End(k)
  PROVE  StaleAt(k)'
<1>1. /\ StaleAt(k) /\ stale[k] \in Nat /\ stale'[k] \in Nat /\ failures \in Nat /\ k \in Threads
      /\ Misled(k) \in {0, 1} /\ Misled(k)' \in {0, 1} /\ failures' = failures
  BY DEF TypeOK, StaleInv, StaleAt, Misled, Threads, Take, Cancel, AskPage, RequestFatal, Answer,
         Save, Export, Fail, Handle, End, Looked, reads
<1>2. CASE Take(k) \/ Cancel(k) \/ RequestFatal(k) \/ Fail(k) \/ Handle(k) \/ End(k)
  <2>1. stale'[k] = 0
    BY <1>1, <1>2 DEF Take, Cancel, RequestFatal, Fail, Handle, End, Return, Leave, TypeOK,
       StaleAt, InScan
  <2> QED
    BY <2>1 DEF StaleAt
<1>3. CASE AskPage(k) \/ Answer(k) \/ Save(k)
  <2>1. /\ UNCHANGED <<links, target, copy, answer>>
        /\ reading' = [reading EXCEPT ![k] = "no"]
        /\ reading[k] = "ready" /\ copy[k] = target[k]
    BY <1>3 DEF AskPage, Answer, Save, Looked, Continues, store, reads
  <2>2. Older(k)' = Older(k) /\ reading'[k] # "fetched"
    BY <1>1, <2>1 DEF Older, TypeOK
  <2>3. Misled(k) = 1 /\ Misled(k)' = 0
    BY <1>1, <2>1 DEF Misled, TypeOK
  <2>4. place'[k] \in InScan
    BY <1>3 DEF AskPage, Answer, Save, NextPage, Goto, TypeOK, InScan
  <2>5. CASE AskPage(k) \/ Answer(k)
    <3>1. Passed(k)' <= Passed(k) + 1 /\ Passed(k) \in Nat /\ Passed(k)' \in Nat
      BY <2>5 DEF AskPage, Answer, NextPage, Goto, TypeOK, Passed
    <3>2. stale'[k] = stale[k]
      BY <2>5 DEF AskPage, Answer
    <3>3. Spent(k)' <= Spent(k) + (failures' - failures)
      BY <1>1, <2>3, <3>1, <3>2 DEF Spent
    <3>4. stale[k] # 0 => links'[k] # target'[k]
      BY <1>1, <2>1 DEF StaleAt
    <3>5. CASE stale[k] # 0
      BY <1>1, <2>2, <2>4, <3>3, <3>4, <3>5, StaleStep
    <3>6. CASE stale[k] = 0
      BY <3>2, <3>6 DEF StaleAt
    <3> QED
      BY <3>5, <3>6
  <2>6. CASE Save(k)
    <3>1. Passed(k) = 2 /\ Passed(k)' = 0
      BY <2>6 DEF Save, Goto, Passed, TypeOK
    <3>2. stale'[k] = IF links[k] # target[k] THEN stale[k] + 1 ELSE stale[k]
      BY <2>6 DEF Save, TypeOK
    <3>3. CASE links[k] = target[k]
      BY <1>1, <3>2, <3>3 DEF StaleAt
    <3>4. CASE links[k] # target[k] /\ stale[k] # 0
      <4>1. Spent(k)' <= Spent(k) + (failures' - failures)
        BY <1>1, <2>3, <3>1, <3>2, <3>4 DEF Spent
      <4> QED
        BY <1>1, <2>1, <2>2, <2>4, <3>4, <4>1, StaleStep
    <3>5. CASE links[k] # target[k] /\ stale[k] = 0
      <4>1. /\ Cardinality(Older(k)') \in Nat /\ Cardinality(Keys) \in Nat
            /\ Cardinality(Older(k)') <= Cardinality(Keys)
        <5>1. Older(k)' \in SUBSET (Threads \ {k})
          BY DEF Older
        <5> QED
          BY <5>1, OtherThreads
      <4>2. 3 * (stale'[k] - 1) + Passed(k)' + Misled(k)' + Cardinality(Older(k)')
              <= failures' + Cardinality(Keys)
        BY <1>1, <2>3, <3>1, <3>2, <3>5, <4>1
      <4> QED
        BY <2>1, <2>2, <2>4, <3>5, <4>2 DEF StaleAt
    <3> QED
      BY <3>3, <3>4, <3>5
  <2> QED
    BY <1>3, <2>5, <2>6
<1>4. CASE Export(k)
  <2>1. UNCHANGED <<links, target, copy, answer, reading, stale>>
    BY <1>4 DEF Export, store, reads
  <2>2. Older(k)' = Older(k) /\ Misled(k)' = Misled(k)
    BY <2>1 DEF Older, Misled
  <2>3. Passed(k)' = 0 /\ Passed(k) = 0 /\ place'[k] \in InScan
    BY <1>4 DEF Export, NextPage, Goto, TypeOK, Passed, InScan
  <2>4. Spent(k)' <= Spent(k) + (failures' - failures)
    BY <1>1, <2>1, <2>2, <2>3 DEF Spent
  <2>5. stale[k] # 0 => /\ links'[k] # target'[k]
                        /\ reading'[k] = "fetched" => answer'[k][k] # target'[k]
    BY <1>1, <2>1 DEF StaleAt
  <2>6. CASE stale[k] # 0
    BY <1>1, <2>2, <2>3, <2>4, <2>5, <2>6, StaleStep
  <2>7. CASE stale[k] = 0
    BY <2>1, <2>7 DEF StaleAt
  <2> QED
    BY <2>6, <2>7
<1> QED
  BY <1>2, <1>3, <1>4

\* A step that leaves this scan, its answer and the store of its link alone, and lets other
\* threads only end their reads.
LEMMA StaleFrame ==
  ASSUME TypeOK, TypeOK', StaleInv, NEW k \in Keys,
         UNCHANGED <<place[k], target[k], stale[k], reading[k], copy, answer, failures>>,
         links'[k] = links[k] \/ (stale[k] # 0 => links'[k] # target[k]),
         \A t \in Threads : reading'[t] \in {reading[t], "no"}
  PROVE  StaleAt(k)'
<1>1. CASE stale[k] = 0
  BY <1>1 DEF StaleAt
<1>2. CASE stale[k] # 0
  <2>1. StaleAt(k) /\ stale[k] \in Nat /\ failures \in Nat /\ k \in Threads
    BY DEF StaleInv, StaleAt, TypeOK, Threads
  <2>2. Older(k)' \subseteq Older(k)
    BY DEF Older
  <2>3. Passed(k)' = Passed(k) /\ Misled(k)' = Misled(k)
    BY DEF Passed, Misled
  <2>4. Passed(k) \in Nat /\ Misled(k) \in Nat
    BY DEF Passed, Misled
  <2>5. Spent(k)' <= Spent(k) + (failures' - failures)
    BY <2>1, <2>3, <2>4 DEF Spent
  <2>6. /\ place'[k] \in InScan /\ links'[k] # target'[k]
        /\ reading'[k] = "fetched" => answer'[k][k] # target'[k]
    BY <1>2, <2>1 DEF StaleAt
  <2> QED
    BY <1>2, <2>1, <2>2, <2>5, <2>6, StaleStep
<1> QED
  BY <1>1, <1>2

LEMMA StaleKept ==
  ASSUME TypeOK, TypeOK', RevisionInv, WorkerInv, StaleInv, [Next]_vars
  PROVE  StaleInv'
<1> SUFFICES ASSUME NEW k \in Keys
             PROVE  StaleAt(k)'
  BY DEF StaleInv, StaleAt
<1> USE SchedulerAssumption
<1>1. ASSUME NEW t \in Threads, Fetch(t) \/ Keep(t)
      PROVE  StaleAt(k)'
  BY <1>1, StaleReads
<1>2. ASSUME NEW j \in Keys, EditLink(j)
      PROVE  StaleAt(k)'
  <2>1. links'[k] = links[k] \/ (stale[k] # 0 => links'[k] # target[k])
    <3>1. target[k] <= revision[k] /\ revision[k] \in Int /\ target[k] \in Int
      BY DEF RevisionInv, TypeOK, Targets
    <3>2. stale[k] # 0 => target[k] # 0
      BY DEF StaleInv, WorkerInv
    <3>3. links'[k] \in {links[k], revision[k] + 1, 0}
      BY <1>2 DEF EditLink, TypeOK
    <3> QED
      BY <3>1, <3>2, <3>3
  <2>2. UNCHANGED <<place, target, stale, reading, copy, answer, failures>>
    BY <1>2 DEF EditLink, reads, scans
  <2> QED
    BY <2>1, <2>2, StaleFrame
<1>3. CASE Launch
  <2>1. UNCHANGED <<links, stale, copy, answer, failures>>
    BY <1>3 DEF Launch, Looked, store
  <2>2. \A t \in Threads : reading'[t] \in {reading[t], "no"}
    BY <1>3 DEF Launch, Looked, TypeOK
  <2>3. reading'[k] = reading[k]
    BY <1>3 DEF Launch, Looked, TypeOK
  <2>4. CASE k \in workers
    <3>1. UNCHANGED <<place[k], target[k]>>
      BY <1>3, <2>4 DEF Launch, Pending
    <3> QED
      BY <2>1, <2>2, <2>3, <3>1, StaleFrame
  <2>5. CASE k \notin workers
    <3>1. stale[k] = 0
      BY <2>5 DEF StaleInv, WorkerInv, InScan
    <3> QED
      BY <2>1, <3>1 DEF StaleAt
  <2> QED
    BY <2>4, <2>5
<1>4. CASE Reap
  <2>1. UNCHANGED <<links, target, stale, reading, copy, answer, failures>>
    BY <1>4 DEF Reap, store, reads
  <2>2. CASE place[k] = "dead"
    BY <2>1, <2>2 DEF StaleInv, StaleAt, InScan
  <2>3. CASE place[k] # "dead"
    <3>1. place'[k] = place[k]
      BY <1>4, <2>3 DEF Reap
    <3> QED
      BY <2>1, <3>1, StaleFrame
  <2> QED
    BY <2>2, <2>3
<1>5. ASSUME NEW j \in Keys,
             \/ Take(j) \/ Cancel(j) \/ AskPage(j) \/ RequestFatal(j)
             \/ Answer(j) \/ Save(j) \/ Export(j) \/ Fail(j) \/ Handle(j) \/ End(j)
      PROVE  StaleAt(k)'
  <2>1. CASE j = k
    BY <1>5, <2>1, StaleScan
  <2>2. CASE j # k
    <3>1. UNCHANGED <<links, copy, answer, failures>>
      BY <1>5 DEF Take, Cancel, AskPage, RequestFatal, Answer, Save, Export, Fail, Handle, End,
         Looked, store, reads
    <3>2. UNCHANGED <<place[k], target[k], stale[k]>>
      BY <1>5, <2>2 DEF Take, Cancel, AskPage, RequestFatal, Answer, Save, Export, Fail, Handle,
         End, Return, Leave, Goto, NextPage, TypeOK
    <3>3. reading' = reading \/ reading' = [reading EXCEPT ![j] = "no"]
      BY <1>5 DEF Take, Cancel, AskPage, RequestFatal, Answer, Save, Export, Fail, Handle, End,
         Looked, reads
    <3>4. /\ reading'[k] = reading[k]
          /\ \A t \in Threads : reading'[t] \in {reading[t], "no"}
      BY <2>2, <3>3 DEF TypeOK, Threads
    <3> QED
      BY <3>1, <3>2, <3>4, StaleFrame
  <2> QED
    BY <2>1, <2>2
<1>6. CASE \/ BeginRound \/ PauseOver \/ Close \/ Join \/ Stop \/ RefreshStep
           \/ UNCHANGED vars
  <2>1. UNCHANGED <<links, place, target, stale, reading, copy, answer, failures>>
    BY <1>6 DEF BeginRound, PauseOver, Close, Join, Stop, RefreshStep, RefreshAsk, RefreshStart,
       RefreshEnd, RefreshFatal, RefreshExit, RefreshGoto, vars, store, reads, scans
  <2> QED
    BY <2>1, StaleFrame
<1> QED
  BY <1>1, <1>2, <1>3, <1>4, <1>5, <1>6
  DEF Next, SchedulerStep, WorkerStep, Threads

-----------------------------------------------------------------------------
LEMMA NextKeeps == IInv /\ [Next]_vars => IInv'
BY TypeKept, RevisionKept, PageKept, WorkerKept, ScanKept, StaleKept DEF IInv

LEMMA Invariant == Spec => []IInv
BY InitIInv, NextKeeps, PTL DEF Spec

\* No step of a thread, of a user or of a stop takes a variable out of its type: no revision
\* beyond the edits, no page beyond config.count, no more stale pages than pages.
THEOREM TypeCorrect == Spec => []TypeOK
<1>1. IInv => TypeOK
  BY DEF IInv
<1> QED
  BY <1>1, Invariant, PTL

\* When parse() returns, _run_scheduler has joined every link worker and the refresher, and
\* each scan and the round have left the foreground, however they ended.
THEOREM NothingLeft == Spec => []ReturnLeavesNothing
<1>1. IInv => ReturnLeavesNothing
  BY DEF IInv, TypeOK, WorkerInv, ReturnLeavesNothing, InScan
<1> QED
  BY <1>1, Invariant, PTL

\* _run_scheduler begins the pause only when every link it knows was scanned to the end
\* under its present target since the last pause began, whatever was edited, cancelled or
\* returned None meanwhile.
THEOREM RoundIsWhole == Spec => RoundCovers
<1>1. IInv /\ [Next]_vars =>
        [pausing' /\ ~pausing => \A k \in Keys : copy[k] # 0 => scanned[k] = copy[k]]_vars
  <2> SUFFICES ASSUME IInv, Next, pausing', ~pausing, NEW k \in Keys, copy[k] # 0
               PROVE  scanned[k] = copy[k]
    OBVIOUS
  <2>1. Launch
    BY DEF Next, EditLink, WorkerStep, SchedulerStep, RefreshStep, PauseOver, Stop, Fetch, Keep,
       Take, Cancel, AskPage, RequestFatal, Answer, Save, Export, Fail, Handle, End,
       Reap, BeginRound, Close, Join, RefreshAsk, RefreshStart, RefreshEnd, RefreshFatal,
       RefreshExit, RefreshGoto, loop, IInv, TypeOK
  <2>2. workers = {} /\ Pending = {}
    BY <2>1 DEF Launch
  <2>3. completed[k] = copy[k]
    BY <2>2 DEF Pending
  <2> QED
    BY <2>2, <2>3 DEF IInv, ScanInv
<1> QED
  BY <1>1, Invariant, PTL DEF Spec, RoundCovers

\* A scan whose link was edited or removed meanwhile saves one page more; each further one
\* takes three failed reads of the store or older answers of other threads that are put
\* into _provider_links after it (the checkpoints of _process_link, with _current_links).
THEOREM StalePagesPaid == Spec => []StaleSaves
<1>1. IInv => StaleSaves
  <2> SUFFICES ASSUME IInv, NEW k \in Keys
               PROVE  3 * (stale[k] - 1) <= failures + Cardinality(Keys)
    BY DEF StaleSaves
  <2>1. stale[k] \in Nat /\ failures \in Nat /\ Cardinality(Keys) \in Nat
    BY SchedulerAssumption, FS_CardinalityType DEF IInv, TypeOK
  <2>2. CASE stale[k] = 0
    BY <2>1, <2>2
  <2>3. CASE stale[k] # 0
    <3>1. 3 * (stale[k] - 1) + Passed(k) + Misled(k) + Cardinality(Older(k))
            <= failures + Cardinality(Keys)
      BY <2>3 DEF IInv, StaleInv
    <3>2. Passed(k) \in Nat /\ Misled(k) \in Nat
      BY DEF Passed, Misled
    <3>3. Cardinality(Older(k)) \in Nat
      <4>1. Older(k) \in SUBSET (Threads \ {k})
        BY DEF Older
      <4> QED
        BY <4>1, OtherThreads
    <3> QED
      BY <2>1, <3>1, <3>2, <3>3
  <2> QED
    BY <2>2, <2>3
<1> QED
  BY <1>1, Invariant, PTL
=============================================================================
