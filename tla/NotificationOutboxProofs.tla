----------------------- MODULE NotificationOutboxProofs -----------------------
(***************************************************************************)
(* Theorems about NotificationOutbox for any number of ads, recipients and *)
(* senders, any lease, retry pause and attempt limit, and any number of    *)
(* rows: type correctness, the attempt budget, what a sent row means, one  *)
(* sender per job within its lease, and no open row without its ad.        *)
(***************************************************************************)
EXTENDS NotificationOutbox, FiniteSetTheorems, TLAPS

Busy(s) == place[s] # "idle"

\* A job number marks one row, was drawn, and stays at the id its sender claimed.
NumberInv ==
  /\ \A i, k \in DOMAIN outbox : outbox[i].number = outbox[k].number => i = k
  /\ \A i \in DOMAIN outbox : outbox[i].number <= posted
  /\ \A s \in Senders : Busy(s) => job[s].number \in Jobs /\ job[s].number <= posted
  /\ \A s \in Senders, i \in DOMAIN outbox :
       Busy(s) /\ outbox[i].number = job[s].number => i = job[s].id

\* The column attempts counts the deliveries begun.
CountInv ==
  /\ \A i \in DOMAIN outbox : starts[outbox[i].number] = outbox[i].attempts
  /\ \A n \in Jobs : posted < n => starts[n] = 0
  /\ AttemptBudget

\* A success that is still to be written was one.
AnswerInv == \A s \in Senders : job[s].result = "ok" => job[s].number \in accepted

\* A sender within its lease holds an open row whose retry_at is not before the lease.
LeaseInv ==
  \/ overrun
  \/ misfired
  \/ \A s \in Senders : Busy(s) =>
       /\ job[s].left >= 1
       /\ \A i \in DOMAIN outbox : outbox[i].number = job[s].number =>
            Open(outbox[i]) /\ outbox[i].wait >= job[s].left

IInv ==
  /\ TypeOK
  /\ NumberInv
  /\ CountInv
  /\ AnswerInv
  /\ SentUnlessMisfired
  /\ LeaseInv
  /\ OneSenderWithinLease
  /\ OpenRowHasAd

-----------------------------------------------------------------------------
\* What the insertion of a page does to the table: old rows stay, new rows are fresh.
LEMMA PageRows ==
  ASSUME TypeOK, NEW page \in SUBSET Events, SavePage(page)
  PROVE  /\ posted' \in posted..MaxJobs
         /\ DOMAIN outbox \subseteq DOMAIN outbox'
         /\ DOMAIN outbox' \subseteq Nat \ {0}
         /\ \A i \in DOMAIN outbox : outbox'[i] = outbox[i]
         /\ \A i \in DOMAIN outbox' \ DOMAIN outbox :
              \E key \in page \X Recipients, n \in (posted + 1)..posted' :
                outbox'[i] = NewRow(key, n)
         /\ \A i, k \in DOMAIN outbox' \ DOMAIN outbox :
              outbox'[i].number = outbox'[k].number => i = k
<1> DEFINE new == {key \in page \X Recipients : ~HasRow(key)}
           count == Cardinality(new)
           ids(first) == first..(first + count - 1)
<1>1. count \in Nat
  <2>1. new \subseteq Keys
    BY DEF Keys
  <2> QED
    BY <2>1, OutboxAssumption, FS_Subset, FS_CardinalityType
<1>2. posted \in Nat /\ DOMAIN outbox \subseteq Nat \ {0}
  BY OutboxAssumption DEF TypeOK
<1>3. posted' = posted + count /\ posted + count <= MaxJobs
  BY DEF SavePage
<1>4. PICK first \in 1..(posted + 1) :
        /\ Above(first)
        /\ \E at \in Bijection(ids(first), new) :
             outbox' = [i \in DOMAIN outbox \cup ids(first) |->
                          IF i \in DOMAIN outbox THEN outbox[i]
                          ELSE NewRow(at[i], posted + 1 + i - first)]
  BY DEF SavePage
<1>5. PICK at \in Bijection(ids(first), new) :
        outbox' = [i \in DOMAIN outbox \cup ids(first) |->
                     IF i \in DOMAIN outbox THEN outbox[i]
                     ELSE NewRow(at[i], posted + 1 + i - first)]
  BY <1>4
<1>6. at \in [ids(first) -> new]
  BY <1>5 DEF Bijection, Injection
<1>7. first \in Nat \ {0}
  BY <1>2
<1>8. /\ DOMAIN outbox' = DOMAIN outbox \cup ids(first)
      /\ \A i \in DOMAIN outbox : outbox'[i] = outbox[i]
      /\ \A i \in ids(first) \ DOMAIN outbox :
           outbox'[i] = NewRow(at[i], posted + 1 + i - first)
  BY <1>5
<1>9. \A i \in ids(first) : posted + 1 + i - first \in (posted + 1)..posted'
  BY <1>1, <1>2, <1>3, <1>7
<1>10. \A i \in DOMAIN outbox' \ DOMAIN outbox :
         \E key \in page \X Recipients, n \in (posted + 1)..posted' :
           outbox'[i] = NewRow(key, n)
  BY <1>6, <1>8, <1>9
<1>11. \A i, k \in DOMAIN outbox' \ DOMAIN outbox :
         outbox'[i].number = outbox'[k].number => i = k
  <2>1. \A i \in ids(first) \ DOMAIN outbox : outbox'[i].number = posted + 1 + i - first
    <3>1. \A key, n : NewRow(key, n).number = n
      BY DEF NewRow
    <3> QED
      BY <1>8, <3>1
  <2> QED
    BY <1>1, <1>2, <1>7, <1>8, <2>1
<1>12. ids(first) \subseteq Nat \ {0}
  BY <1>1, <1>7
<1>13. posted' \in posted..MaxJobs
  BY <1>1, <1>2, <1>3, OutboxAssumption
<1>14. DOMAIN outbox \subseteq DOMAIN outbox' /\ DOMAIN outbox' \subseteq Nat \ {0}
  BY <1>2, <1>8, <1>12
<1>15. \A i \in DOMAIN outbox : outbox'[i] = outbox[i]
  BY <1>8
<1> QED
  BY ONLY <1>10, <1>11, <1>13, <1>14, <1>15

LEMMA NewRowFields ==
  ASSUME NEW key \in Keys, NEW n \in Jobs
  PROVE  /\ NewRow(key, n) \in Row
         /\ NewRow(key, n).key = key
         /\ NewRow(key, n).number = n
         /\ ~NewRow(key, n).sent
         /\ NewRow(key, n).attempts = 0
  BY OutboxAssumption DEF NewRow, Row

LEMMA FailedRow ==
  ASSUME NEW row \in Row
  PROVE  [row EXCEPT !.failed = TRUE] \in Row
  BY DEF Row

LEMMA LeasedRow ==
  ASSUME NEW row \in Row, row.attempts < MaxAttempts
  PROVE  [row EXCEPT !.wait = Lease, !.attempts = row.attempts + 1] \in Row
<1>1. Lease \in 0..Lease /\ row.attempts + 1 \in 0..MaxAttempts
  BY OutboxAssumption DEF Row
<1> QED
  BY <1>1 DEF Row

\* The sweep closes rows that nobody may be sending and changes nothing else.
LEMMA SweptRows ==
  ASSUME TypeOK
  PROVE  /\ DOMAIN Swept = DOMAIN outbox
         /\ \A i \in DOMAIN outbox :
              /\ Swept[i] \in Row
              /\ Swept[i].key = outbox[i].key
              /\ Swept[i].number = outbox[i].number
              /\ Swept[i].sent = outbox[i].sent
              /\ Swept[i].wait = outbox[i].wait
              /\ Swept[i].attempts = outbox[i].attempts
              /\ Open(Swept[i]) => Open(outbox[i])
              /\ outbox[i].wait > 0 => Swept[i] = outbox[i]
              /\ Due(outbox[i]) => Swept[i] = outbox[i]
<1>1. DOMAIN Swept = DOMAIN outbox
  BY DEF Swept
<1> SUFFICES ASSUME NEW i \in DOMAIN outbox
             PROVE  /\ Swept[i] \in Row
                    /\ Swept[i].key = outbox[i].key
                    /\ Swept[i].number = outbox[i].number
                    /\ Swept[i].sent = outbox[i].sent
                    /\ Swept[i].wait = outbox[i].wait
                    /\ Swept[i].attempts = outbox[i].attempts
                    /\ Open(Swept[i]) => Open(outbox[i])
                    /\ outbox[i].wait > 0 => Swept[i] = outbox[i]
                    /\ Due(outbox[i]) => Swept[i] = outbox[i]
  BY <1>1
<1>2. outbox[i] \in Row
  BY DEF TypeOK
<1>3. CASE Exhausted(outbox[i])
  <2>1. Swept[i] = [outbox[i] EXCEPT !.failed = TRUE]
    BY <1>3 DEF Swept
  <2>2. Swept[i] \in Row
    BY <1>2, <2>1, FailedRow
  <2>3. ~Due(outbox[i]) /\ ~Open(Swept[i]) /\ outbox[i].wait = 0
    BY <1>2, <1>3, <2>1, OutboxAssumption DEF Row, Open, Due, Exhausted
  <2>4. /\ Swept[i].key = outbox[i].key
        /\ Swept[i].number = outbox[i].number
        /\ Swept[i].sent = outbox[i].sent
        /\ Swept[i].wait = outbox[i].wait
        /\ Swept[i].attempts = outbox[i].attempts
    BY <1>2, <2>1 DEF Row
  <2> QED
    BY <2>2, <2>3, <2>4
<1>4. CASE ~Exhausted(outbox[i])
  BY <1>2, <1>4 DEF Swept
<1> QED
  BY <1>3, <1>4

\* What writing a result does to the row it hits.
LEMMA FinishedRow ==
  ASSUME NEW row \in Row, NEW j \in Job
  PROVE  /\ Finished(row, j) \in Row
         /\ Finished(row, j).key = row.key
         /\ Finished(row, j).number = row.number
         /\ Finished(row, j).attempts = row.attempts
         /\ Finished(row, j).sent <=> j.result = "ok"
<1> DEFINE success == j.result = "ok"
           failed == ~success /\ (j.result = "permanent" \/ j.read >= MaxAttempts)
<1>1. success \in BOOLEAN /\ failed \in BOOLEAN
  OBVIOUS
<1>2. Finished(row, j) = [row EXCEPT !.sent = success, !.failed = failed,
                                     !.wait = IF success \/ failed THEN 0 ELSE Retry]
  BY DEF Finished
<1>3. (IF success \/ failed THEN 0 ELSE Retry) \in 0..Lease
  BY OutboxAssumption
<1> HIDE DEF failed
<1> QED
  BY <1>1, <1>2, <1>3 DEF Row

\* What a claim does: the row it takes is due, and only that row gets a lease.
LEMMA ClaimRow ==
  ASSUME TypeOK, NEW s \in Senders, Claim(s)
  PROVE  \E i \in DOMAIN outbox :
           /\ Due(outbox[i])
           /\ DOMAIN outbox' = DOMAIN outbox
           /\ outbox'[i] = [outbox[i] EXCEPT !.wait = Lease, !.attempts = outbox[i].attempts + 1]
           /\ outbox'[i] \in Row
           /\ \A k \in DOMAIN outbox : k # i => outbox'[k] = Swept[k]
           /\ job' = [job EXCEPT ![s] = ClaimedJob(i, outbox[i].number)]
           /\ starts' = [starts EXCEPT ![outbox[i].number] = starts[outbox[i].number] + 1]
<1>1. PICK i \in DOMAIN outbox :
        /\ Due(outbox[i])
        /\ outbox' = [Swept EXCEPT ![i].wait = Lease, ![i].attempts = @ + 1]
        /\ job' = [job EXCEPT ![s] = ClaimedJob(i, outbox[i].number)]
        /\ starts' = [starts EXCEPT ![outbox[i].number] = @ + 1]
  BY DEF Claim
<1>2. DOMAIN Swept = DOMAIN outbox /\ Swept[i] = outbox[i]
  BY <1>1, SweptRows
<1>3. outbox[i] \in Row /\ outbox[i].attempts < MaxAttempts
  BY <1>1 DEF TypeOK, Due
<1>4. outbox'[i] = [outbox[i] EXCEPT !.wait = Lease, !.attempts = outbox[i].attempts + 1]
  BY <1>1, <1>2, <1>3 DEF Row
<1>5. [outbox[i] EXCEPT !.wait = Lease, !.attempts = outbox[i].attempts + 1] \in Row
  BY <1>3, LeasedRow
<1>6. DOMAIN outbox' = DOMAIN outbox /\ \A k \in DOMAIN outbox : k # i => outbox'[k] = Swept[k]
  BY <1>1, <1>2
<1> QED
  BY <1>1, <1>4, <1>5, <1>6

\* What the passing of time does to a row.
LEMMA TickRow ==
  ASSUME NEW row \in Row
  PROVE  /\ [row EXCEPT !.wait = Less(row.wait)] \in Row
         /\ Less(row.wait) = IF row.wait > 0 THEN row.wait - 1 ELSE 0
<1>1. Less(row.wait) \in 0..Lease
  BY OutboxAssumption DEF Row, Less
<1> QED
  BY <1>1 DEF Row, Less

LEMMA TickJob ==
  ASSUME NEW j \in Job
  PROVE  [j EXCEPT !.left = Less(j.left)] \in Job
<1>1. Less(j.left) \in 0..Lease
  BY OutboxAssumption DEF Job, Less
<1> QED
  BY <1>1 DEF Job

LEMMA NoJobTyped == NoJob \in Job
  BY OutboxAssumption DEF NoJob, Job, Results

LEMMA ClaimJob ==
  ASSUME NEW i \in Nat, NEW n \in Jobs
  PROVE  ClaimedJob(i, n) \in Job
<1>1. n \in 0..MaxJobs /\ Lease \in 0..Lease /\ 0 \in 0..MaxAttempts
  BY OutboxAssumption DEF Jobs
<1> QED
  BY <1>1 DEF ClaimedJob, Job, Results

LEMMA InitIInv == Init => IInv
<1> SUFFICES ASSUME Init
             PROVE  IInv
  OBVIOUS
<1> USE DEF Init
<1>1. DOMAIN outbox = {}
  OBVIOUS
<1>2. TypeOK
  <2>1. viewed \in SUBSET Events /\ accepted \in SUBSET Jobs
    OBVIOUS
  <2>2. place \in [Senders -> Places]
    BY DEF Places
  <2>3. job \in [Senders -> Job]
    BY NoJobTyped
  <2>4. posted \in 0..MaxJobs /\ starts \in [Jobs -> Nat]
    BY OutboxAssumption
  <2>5. overrun \in BOOLEAN /\ misfired \in BOOLEAN
    OBVIOUS
  <2> QED
    BY <1>1, <2>1, <2>2, <2>3, <2>4, <2>5 DEF TypeOK
<1>3. NumberInv
  BY <1>1 DEF NumberInv, Busy
<1>4. CountInv
  BY <1>1, OutboxAssumption DEF CountInv, AttemptBudget, Jobs
<1>5. AnswerInv /\ SentUnlessMisfired
  BY <1>1 DEF AnswerInv, SentUnlessMisfired, NoJob
<1>6. LeaseInv /\ OneSenderWithinLease /\ OpenRowHasAd
  BY <1>1 DEF LeaseInv, OneSenderWithinLease, OpenRowHasAd, Busy
<1> QED
  BY <1>2, <1>3, <1>4, <1>5, <1>6 DEF IInv

LEMMA TypeStep == TypeOK /\ NumberInv /\ [Next]_vars => TypeOK'
<1> SUFFICES ASSUME TypeOK, NumberInv, [Next]_vars
             PROVE  TypeOK'
  OBVIOUS
<1>1. ASSUME NEW page \in SUBSET Events, SavePage(page) PROVE TypeOK'
  <2>1. viewed' \in SUBSET Events
    BY <1>1 DEF SavePage, TypeOK
  <2>2. DOMAIN outbox' \in SUBSET (Nat \ {0}) /\ posted' \in 0..MaxJobs
    BY <1>1, PageRows, OutboxAssumption DEF TypeOK
  <2>3. ASSUME NEW i \in DOMAIN outbox' PROVE outbox'[i] \in Row
    <3>1. CASE i \in DOMAIN outbox
      BY <1>1, <3>1, PageRows DEF TypeOK
    <3>2. CASE i \notin DOMAIN outbox
      <4>1. PICK key \in page \X Recipients, n \in (posted + 1)..posted' :
              outbox'[i] = NewRow(key, n)
        BY <1>1, <2>3, <3>2, PageRows
      <4>2. key \in Keys /\ n \in Jobs
        BY <1>1, <2>2, OutboxAssumption DEF Keys, Jobs, TypeOK
      <4> QED
        BY <4>1, <4>2, NewRowFields
    <3> QED
      BY <3>1, <3>2
  <2>4. UNCHANGED <<place, job, accepted, starts, overrun, misfired>>
    BY <1>1 DEF SavePage
  <2> QED
    BY <2>1, <2>2, <2>3, <2>4 DEF TypeOK
<1>2. ASSUME NEW ad \in Ads, DeleteAd(ad) PROVE TypeOK'
  BY <1>2 DEF DeleteAd, TypeOK
<1>3. ASSUME NEW ad \in Ads, NEW price \in Prices, UpdateAd(ad, price) PROVE TypeOK'
  <2>1. viewed' \in SUBSET Events
    BY <1>3 DEF UpdateAd, TypeOK, Events
  <2> QED
    BY <1>3, <2>1 DEF UpdateAd, TypeOK
<1>4. ASSUME NEW s \in Senders, Claim(s) PROVE TypeOK'
  <2>1. PICK i \in DOMAIN outbox :
          /\ DOMAIN outbox' = DOMAIN outbox
          /\ outbox'[i] \in Row
          /\ \A k \in DOMAIN outbox : k # i => outbox'[k] = Swept[k]
          /\ job' = [job EXCEPT ![s] = ClaimedJob(i, outbox[i].number)]
          /\ starts' = [starts EXCEPT ![outbox[i].number] = starts[outbox[i].number] + 1]
    BY <1>4, ClaimRow
  <2>2. \A k \in DOMAIN outbox' : outbox'[k] \in Row
    BY <2>1, SweptRows
  <2>3. outbox[i].number \in Jobs /\ i \in Nat
    BY DEF TypeOK, Row
  <2>4. ClaimedJob(i, outbox[i].number) \in Job
    BY <2>3, ClaimJob
  <2>5. job' \in [Senders -> Job] /\ starts' \in [Jobs -> Nat]
    BY <2>1, <2>3, <2>4 DEF TypeOK
  <2>6. place' \in [Senders -> Places]
    BY <1>4 DEF Claim, TypeOK, Places
  <2> QED
    BY <1>4, <2>1, <2>2, <2>5, <2>6 DEF Claim, TypeOK
<1>5. ASSUME NEW s \in Senders, ClaimNothing(s) PROVE TypeOK'
  BY <1>5, SweptRows DEF ClaimNothing, TypeOK
<1>6. ASSUME NEW s \in Senders, Notify(s) PROVE TypeOK'
  <2>1. place' \in [Senders -> Places]
    BY <1>6 DEF Notify, TypeOK, Places
  <2>2. job' \in [Senders -> Job]
    BY <1>6 DEF Notify, TypeOK, Job
  <2>3. accepted' \in SUBSET Jobs
    BY <1>6 DEF Notify, TypeOK, NumberInv, Busy
  <2> QED
    BY <1>6, <2>1, <2>2, <2>3 DEF Notify, TypeOK
<1>7. ASSUME NEW s \in Senders, FinishRead(s) PROVE TypeOK'
  <2>1. place' \in [Senders -> Places]
    BY <1>7 DEF FinishRead, TypeOK, Places
  <2>2. job' \in [Senders -> Job]
    <3>1. CASE job[s].id \in DOMAIN outbox
      <4>1. outbox[job[s].id].attempts \in 0..MaxAttempts
        BY <3>1 DEF TypeOK, Row
      <4> QED
        BY <1>7, <3>1, <4>1 DEF FinishRead, TypeOK, Job
    <3>2. CASE job[s].id \notin DOMAIN outbox
      BY <1>7, <3>2, NoJobTyped DEF FinishRead, TypeOK
    <3> QED
      BY <3>1, <3>2
  <2> QED
    BY <1>7, <2>1, <2>2 DEF FinishRead, TypeOK
<1>8. ASSUME NEW s \in Senders, FinishWrite(s) PROVE TypeOK'
  <2>1. DOMAIN outbox' = DOMAIN outbox
    BY <1>8 DEF FinishWrite
  <2>2. \A k \in DOMAIN outbox : outbox'[k] \in Row
    BY <1>8, FinishedRow DEF FinishWrite, TypeOK
  <2>3. place' \in [Senders -> Places] /\ job' \in [Senders -> Job]
    BY <1>8, NoJobTyped DEF FinishWrite, TypeOK, Places
  <2>4. misfired' \in BOOLEAN
    BY <1>8 DEF FinishWrite, TypeOK
  <2> QED
    BY <1>8, <2>1, <2>2, <2>3, <2>4 DEF FinishWrite, TypeOK
<1>9. ASSUME NEW s \in Senders, Abort(s) PROVE TypeOK'
  BY <1>9, NoJobTyped DEF Abort, TypeOK, Places
<1>10. CASE Tick
  <2>1. DOMAIN outbox' = DOMAIN outbox /\ \A k \in DOMAIN outbox' : outbox'[k] \in Row
    BY <1>10, TickRow DEF Tick, TypeOK
  <2>2. job' \in [Senders -> Job]
    BY <1>10, TickJob DEF Tick, TypeOK
  <2>3. overrun' \in BOOLEAN
    BY <1>10 DEF Tick, TypeOK
  <2> QED
    BY <1>10, <2>1, <2>2, <2>3 DEF Tick, TypeOK
<1>11. CASE UNCHANGED vars
  BY <1>11 DEF vars, TypeOK
<1>12. \A link \in Links : SUBSET (Ads \X {link} \X Prices) \subseteq SUBSET Events
  BY DEF Events
<1> QED
  BY <1>1, <1>2, <1>3, <1>4, <1>5, <1>6, <1>7, <1>8, <1>9, <1>10, <1>11, <1>12 DEF Next

\* Job numbers.
LEMMA NumberStep == TypeOK /\ NumberInv /\ [Next]_vars => NumberInv'
<1> SUFFICES ASSUME TypeOK, NumberInv, [Next]_vars
             PROVE  NumberInv'
  OBVIOUS
<1>1. ASSUME NEW page \in SUBSET Events, SavePage(page) PROVE NumberInv'
  <2>1. posted' \in Nat /\ posted \in Nat /\ posted <= posted'
    BY <1>1, PageRows, OutboxAssumption DEF TypeOK
  <2>2. ASSUME NEW i \in DOMAIN outbox' \ DOMAIN outbox
        PROVE  outbox'[i].number \in (posted + 1)..posted'
    <3>1. PICK key \in page \X Recipients, n \in (posted + 1)..posted' :
            outbox'[i] = NewRow(key, n)
      BY <1>1, PageRows
    <3> QED
      BY <3>1 DEF NewRow
  <2>3. \A i \in DOMAIN outbox :
          outbox'[i] = outbox[i] /\ outbox[i].number \in Nat /\ outbox[i].number <= posted
    <3>1. \A i \in DOMAIN outbox : outbox'[i] = outbox[i]
      BY <1>1, PageRows
    <3>2. \A i \in DOMAIN outbox : outbox[i].number \in Nat
      BY OutboxAssumption DEF TypeOK, Row, Jobs
    <3> QED
      BY <3>1, <3>2 DEF NumberInv
  <2>4. \A i, k \in DOMAIN outbox' : outbox'[i].number = outbox'[k].number => i = k
    BY <1>1, <2>1, <2>2, <2>3, PageRows DEF NumberInv
  <2>5. \A i \in DOMAIN outbox' : outbox'[i].number <= posted'
    BY <2>1, <2>2, <2>3
  <2>6. UNCHANGED <<place, job>>
    BY <1>1 DEF SavePage
  <2>7. \A s \in Senders : Busy(s) =>
          job[s].number \in Jobs /\ job[s].number <= posted /\ job[s].number <= posted'
    BY <2>1, OutboxAssumption DEF NumberInv, Jobs
  <2>8. \A s \in Senders, i \in DOMAIN outbox' :
          Busy(s) /\ outbox'[i].number = job[s].number => i = job[s].id
    BY <2>1, <2>2, <2>3, <2>7, OutboxAssumption DEF NumberInv, Jobs
  <2> QED
    BY <2>4, <2>5, <2>6, <2>7, <2>8 DEF NumberInv, Busy
<1>2. ASSUME NEW ad \in Ads, DeleteAd(ad) PROVE NumberInv'
  BY <1>2 DEF DeleteAd, NumberInv, Busy
<1>3. ASSUME NEW ad \in Ads, NEW price \in Prices, UpdateAd(ad, price) PROVE NumberInv'
  BY <1>3 DEF UpdateAd, NumberInv, Busy
<1>4. ASSUME NEW s \in Senders, Claim(s) PROVE NumberInv'
  <2>1. PICK i \in DOMAIN outbox :
          /\ DOMAIN outbox' = DOMAIN outbox
          /\ outbox'[i] = [outbox[i] EXCEPT !.wait = Lease, !.attempts = outbox[i].attempts + 1]
          /\ \A k \in DOMAIN outbox : k # i => outbox'[k] = Swept[k]
          /\ job' = [job EXCEPT ![s] = ClaimedJob(i, outbox[i].number)]
    BY <1>4, ClaimRow
  <2>2. outbox[i] \in Row /\ outbox[i].number \in Jobs /\ i \in Nat
    BY DEF TypeOK, Row
  <2>3. \A k \in DOMAIN outbox : outbox'[k].number = outbox[k].number
    BY <2>1, <2>2, SweptRows DEF Row
  <2>4. job'[s].number = outbox[i].number /\ job'[s].id = i
    BY <2>1 DEF TypeOK, ClaimedJob
  <2>5. \A t \in Senders : t # s => job'[t] = job[t] /\ place'[t] = place[t]
    BY <1>4, <2>1 DEF Claim, TypeOK
  <2>6. posted' = posted
    BY <1>4 DEF Claim
  <2> QED
    BY <2>1, <2>2, <2>3, <2>4, <2>5, <2>6 DEF NumberInv, Busy
<1>5. ASSUME NEW s \in Senders, ClaimNothing(s) PROVE NumberInv'
  BY <1>5, SweptRows DEF ClaimNothing, NumberInv, Busy
<1>6. ASSUME NEW s \in Senders, Notify(s) PROVE NumberInv'
  BY <1>6 DEF Notify, NumberInv, Busy, TypeOK, Job
<1>7. ASSUME NEW s \in Senders, FinishRead(s) PROVE NumberInv'
  <2>1. \A t \in Senders : Busy(t)' =>
          Busy(t) /\ job'[t].number = job[t].number /\ job'[t].id = job[t].id
    BY <1>7 DEF FinishRead, Busy, TypeOK, Job
  <2> QED
    BY <1>7, <2>1 DEF FinishRead, NumberInv
<1>8. ASSUME NEW s \in Senders, FinishWrite(s) PROVE NumberInv'
  <2>1. DOMAIN outbox' = DOMAIN outbox /\ posted' = posted
    BY <1>8 DEF FinishWrite
  <2>2. \A k \in DOMAIN outbox : outbox'[k].number = outbox[k].number
    BY <1>8, FinishedRow DEF FinishWrite, TypeOK
  <2>3. \A t \in Senders : Busy(t)' => Busy(t) /\ job'[t] = job[t]
    BY <1>8 DEF FinishWrite, Busy, TypeOK
  <2> QED
    BY <2>1, <2>2, <2>3 DEF NumberInv
<1>9. ASSUME NEW s \in Senders, Abort(s) PROVE NumberInv'
  <2>1. \A t \in Senders : Busy(t)' => Busy(t) /\ job'[t] = job[t]
    BY <1>9 DEF Abort, Busy, TypeOK
  <2> QED
    BY <1>9, <2>1 DEF Abort, NumberInv
<1>10. CASE Tick
  <2>1. DOMAIN outbox' = DOMAIN outbox /\ posted' = posted
    BY <1>10 DEF Tick
  <2>2. \A k \in DOMAIN outbox : outbox'[k].number = outbox[k].number
    BY <1>10 DEF Tick, TypeOK, Row
  <2>3. \A t \in Senders : /\ Busy(t)' <=> Busy(t)
                           /\ job'[t].number = job[t].number
                           /\ job'[t].id = job[t].id
    BY <1>10 DEF Tick, Busy, TypeOK, Job
  <2> QED
    BY <2>1, <2>2, <2>3 DEF NumberInv
<1>11. CASE UNCHANGED vars
  BY <1>11 DEF vars, NumberInv, Busy
<1>12. \A link \in Links : SUBSET (Ads \X {link} \X Prices) \subseteq SUBSET Events
  BY DEF Events
<1> QED
  BY <1>1, <1>2, <1>3, <1>4, <1>5, <1>6, <1>7, <1>8, <1>9, <1>10, <1>11, <1>12 DEF Next

\* Attempts.
LEMMA CountStep == TypeOK /\ NumberInv /\ CountInv /\ [Next]_vars => CountInv'
<1> SUFFICES ASSUME TypeOK, NumberInv, CountInv, [Next]_vars
             PROVE  CountInv'
  OBVIOUS
<1>1. ASSUME NEW page \in SUBSET Events, SavePage(page) PROVE CountInv'
  <2>1. posted' \in posted..MaxJobs /\ posted \in Nat
    BY <1>1, PageRows, OutboxAssumption DEF TypeOK
  <2>2. starts' = starts
    BY <1>1 DEF SavePage
  <2>3. ASSUME NEW i \in DOMAIN outbox'
        PROVE  starts[outbox'[i].number] = outbox'[i].attempts
    <3>1. CASE i \in DOMAIN outbox
      <4>1. outbox'[i] = outbox[i]
        BY <1>1, <3>1, PageRows
      <4> QED
        BY <3>1, <4>1 DEF CountInv
    <3>2. CASE i \notin DOMAIN outbox
      <4>1. PICK key \in page \X Recipients, n \in (posted + 1)..posted' :
              outbox'[i] = NewRow(key, n)
        BY <1>1, <2>3, <3>2, PageRows
      <4>2. key \in Keys /\ n \in Jobs /\ posted < n
        BY <2>1, OutboxAssumption DEF Keys, Jobs
      <4> QED
        BY <4>1, <4>2, NewRowFields DEF CountInv
    <3> QED
      BY <3>1, <3>2
  <2>4. \A n \in Jobs : posted' < n => starts[n] = 0
    BY <2>1, OutboxAssumption DEF CountInv, Jobs
  <2> QED
    BY <2>2, <2>3, <2>4 DEF CountInv, AttemptBudget
<1>2. ASSUME NEW ad \in Ads, DeleteAd(ad) PROVE CountInv'
  BY <1>2 DEF DeleteAd, CountInv, AttemptBudget
<1>3. ASSUME NEW ad \in Ads, NEW price \in Prices, UpdateAd(ad, price) PROVE CountInv'
  BY <1>3 DEF UpdateAd, CountInv, AttemptBudget
<1>4. ASSUME NEW s \in Senders, Claim(s) PROVE CountInv'
  <2>1. PICK i \in DOMAIN outbox :
          /\ Due(outbox[i])
          /\ DOMAIN outbox' = DOMAIN outbox
          /\ outbox'[i] = [outbox[i] EXCEPT !.wait = Lease, !.attempts = outbox[i].attempts + 1]
          /\ \A k \in DOMAIN outbox : k # i => outbox'[k] = Swept[k]
          /\ starts' = [starts EXCEPT ![outbox[i].number] = starts[outbox[i].number] + 1]
    BY <1>4, ClaimRow
  <2> DEFINE n == outbox[i].number
  <2>2. outbox[i] \in Row /\ n \in Jobs /\ outbox[i].attempts \in Nat
    BY OutboxAssumption DEF TypeOK, Row
  <2>3. starts[n] = outbox[i].attempts /\ outbox[i].attempts < MaxAttempts
    BY <2>1 DEF CountInv, Due
  <2>4. starts'[n] = outbox[i].attempts + 1 /\ \A m \in Jobs : m # n => starts'[m] = starts[m]
    BY <2>1, <2>2, <2>3 DEF TypeOK
  <2>5. outbox'[i].number = n /\ outbox'[i].attempts = outbox[i].attempts + 1
    BY <2>1, <2>2 DEF Row
  <2>6. \A k \in DOMAIN outbox : k # i =>
          /\ outbox'[k].number = outbox[k].number
          /\ outbox'[k].attempts = outbox[k].attempts
          /\ outbox[k].number \in Jobs
          /\ outbox[k].number # n
    BY <2>1, SweptRows DEF NumberInv, TypeOK, Row
  <2>7. \A k \in DOMAIN outbox' : starts'[outbox'[k].number] = outbox'[k].attempts
    <3>1. \A k \in DOMAIN outbox : k # i => starts'[outbox'[k].number] = outbox'[k].attempts
      BY <2>4, <2>6 DEF CountInv
    <3>2. starts'[outbox'[i].number] = outbox'[i].attempts
      BY <2>4, <2>5
    <3> QED
      BY <2>1, <3>1, <3>2
  <2>8. \A m \in Jobs : posted < m => m # n
    BY <2>2, OutboxAssumption DEF NumberInv, TypeOK, Jobs
  <2>9. posted' = posted
    BY <1>4 DEF Claim
  <2>10. \A m \in Jobs : posted' < m => starts'[m] = 0
    BY <2>4, <2>8, <2>9 DEF CountInv
  <2>11. AttemptBudget'
    BY <2>2, <2>3, <2>4, OutboxAssumption DEF CountInv, AttemptBudget
  <2> QED
    BY <2>7, <2>10, <2>11 DEF CountInv
<1>5. ASSUME NEW s \in Senders, ClaimNothing(s) PROVE CountInv'
  BY <1>5, SweptRows DEF ClaimNothing, CountInv, AttemptBudget
<1>6. ASSUME NEW s \in Senders, Notify(s) \/ FinishRead(s) \/ Abort(s) PROVE CountInv'
  BY <1>6 DEF Notify, FinishRead, Abort, CountInv, AttemptBudget
<1>7. ASSUME NEW s \in Senders, FinishWrite(s) PROVE CountInv'
  <2>1. DOMAIN outbox' = DOMAIN outbox /\ UNCHANGED <<posted, starts>>
    BY <1>7 DEF FinishWrite
  <2>2. \A k \in DOMAIN outbox :
          outbox'[k].number = outbox[k].number /\ outbox'[k].attempts = outbox[k].attempts
    BY <1>7, FinishedRow DEF FinishWrite, TypeOK
  <2> QED
    BY <2>1, <2>2 DEF CountInv, AttemptBudget
<1>8. CASE Tick
  <2>1. DOMAIN outbox' = DOMAIN outbox /\ UNCHANGED <<posted, starts>>
    BY <1>8 DEF Tick
  <2>2. \A k \in DOMAIN outbox :
          outbox'[k].number = outbox[k].number /\ outbox'[k].attempts = outbox[k].attempts
    BY <1>8 DEF Tick, TypeOK, Row
  <2> QED
    BY <2>1, <2>2 DEF CountInv, AttemptBudget
<1>9. CASE UNCHANGED vars
  BY <1>9 DEF vars, CountInv, AttemptBudget
<1>10. \A link \in Links : SUBSET (Ads \X {link} \X Prices) \subseteq SUBSET Events
  BY DEF Events
<1> QED
  BY <1>1, <1>2, <1>3, <1>4, <1>5, <1>6, <1>7, <1>8, <1>9, <1>10 DEF Next

\* Results.
LEMMA AnswerStep ==
  /\ TypeOK /\ NumberInv /\ AnswerInv /\ SentUnlessMisfired
  /\ [Next]_vars
  => AnswerInv' /\ SentUnlessMisfired'
<1> SUFFICES ASSUME TypeOK, NumberInv, AnswerInv, SentUnlessMisfired, [Next]_vars
             PROVE  AnswerInv' /\ SentUnlessMisfired'
  OBVIOUS
<1>1. ASSUME NEW page \in SUBSET Events, SavePage(page) PROVE AnswerInv' /\ SentUnlessMisfired'
  <2>1. UNCHANGED <<job, accepted, misfired>>
    BY <1>1 DEF SavePage
  <2>2. ASSUME NEW i \in DOMAIN outbox', outbox'[i].sent
        PROVE  i \in DOMAIN outbox /\ outbox'[i] = outbox[i]
    <3>1. CASE i \in DOMAIN outbox
      BY <1>1, <3>1, PageRows
    <3>2. CASE i \notin DOMAIN outbox
      <4>1. PICK key \in page \X Recipients, n \in (posted + 1)..posted' :
              outbox'[i] = NewRow(key, n)
        BY <1>1, <2>2, <3>2, PageRows
      <4>2. key \in Keys /\ n \in Jobs
        BY <1>1, PageRows, OutboxAssumption DEF Keys, Jobs, TypeOK
      <4> QED
        BY <2>2, <4>1, <4>2, NewRowFields
    <3> QED
      BY <3>1, <3>2
  <2> QED
    BY <2>1, <2>2 DEF AnswerInv, SentUnlessMisfired
<1>2. ASSUME NEW ad \in Ads, DeleteAd(ad) PROVE AnswerInv' /\ SentUnlessMisfired'
  BY <1>2 DEF DeleteAd, AnswerInv, SentUnlessMisfired
<1>3. ASSUME NEW ad \in Ads, NEW price \in Prices, UpdateAd(ad, price)
      PROVE  AnswerInv' /\ SentUnlessMisfired'
  BY <1>3 DEF UpdateAd, AnswerInv, SentUnlessMisfired
<1>4. ASSUME NEW s \in Senders, Claim(s) PROVE AnswerInv' /\ SentUnlessMisfired'
  <2>1. PICK i \in DOMAIN outbox :
          /\ DOMAIN outbox' = DOMAIN outbox
          /\ outbox'[i] = [outbox[i] EXCEPT !.wait = Lease, !.attempts = outbox[i].attempts + 1]
          /\ \A k \in DOMAIN outbox : k # i => outbox'[k] = Swept[k]
          /\ job' = [job EXCEPT ![s] = ClaimedJob(i, outbox[i].number)]
    BY <1>4, ClaimRow
  <2>2. outbox[i] \in Row
    BY DEF TypeOK
  <2>3. \A k \in DOMAIN outbox :
          outbox'[k].number = outbox[k].number /\ outbox'[k].sent = outbox[k].sent
    BY <2>1, <2>2, SweptRows DEF Row
  <2>4. UNCHANGED <<accepted, misfired>>
    BY <1>4 DEF Claim
  <2>5. job'[s].result = "none" /\ \A t \in Senders : t # s => job'[t] = job[t]
    BY <2>1 DEF TypeOK, ClaimedJob
  <2>6. AnswerInv'
    BY <2>4, <2>5 DEF AnswerInv
  <2> QED
    BY <2>1, <2>3, <2>4, <2>6 DEF SentUnlessMisfired
<1>5. ASSUME NEW s \in Senders, ClaimNothing(s) PROVE AnswerInv' /\ SentUnlessMisfired'
  BY <1>5, SweptRows DEF ClaimNothing, AnswerInv, SentUnlessMisfired
<1>6. ASSUME NEW s \in Senders, Notify(s) PROVE AnswerInv' /\ SentUnlessMisfired'
  <2>1. accepted \subseteq accepted' /\ UNCHANGED <<outbox, misfired>>
    BY <1>6 DEF Notify
  <2>2. \A t \in Senders : t # s => job'[t] = job[t]
    BY <1>6 DEF Notify, TypeOK
  <2>3. job'[s].number = job[s].number /\ (job'[s].result = "ok" => job[s].number \in accepted')
    BY <1>6 DEF Notify, TypeOK, Job
  <2> QED
    BY <2>1, <2>2, <2>3 DEF AnswerInv, SentUnlessMisfired
<1>7. ASSUME NEW s \in Senders, FinishRead(s) PROVE AnswerInv' /\ SentUnlessMisfired'
  <2>1. \A t \in Senders : job'[t].result = "ok" =>
          job[t].result = "ok" /\ job'[t].number = job[t].number
    BY <1>7 DEF FinishRead, TypeOK, Job, NoJob
  <2> QED
    BY <1>7, <2>1 DEF FinishRead, AnswerInv, SentUnlessMisfired
<1>8. ASSUME NEW s \in Senders, FinishWrite(s) PROVE AnswerInv' /\ SentUnlessMisfired'
  <2>1. \A t \in Senders : job'[t].result = "ok" => job'[t] = job[t]
    BY <1>8 DEF FinishWrite, TypeOK, NoJob
  <2>2. accepted' = accepted
    BY <1>8 DEF FinishWrite
  <2>3. AnswerInv'
    BY <2>1, <2>2 DEF AnswerInv
  <2>4. ASSUME ~misfired', NEW k \in DOMAIN outbox', outbox'[k].sent
        PROVE  outbox'[k].number \in accepted
    <3>1. k \in DOMAIN outbox /\ ~misfired
      BY <1>8, <2>4 DEF FinishWrite
    <3>2. CASE k # job[s].id
      BY <1>8, <2>4, <3>1, <3>2 DEF FinishWrite, SentUnlessMisfired
    <3>3. CASE k = job[s].id
      <4>1. outbox'[k] = Finished(outbox[k], job[s])
        BY <1>8, <3>1, <3>3 DEF FinishWrite
      <4>2. outbox'[k].number = outbox[k].number /\ job[s].result = "ok"
        BY <2>4, <3>1, <4>1, FinishedRow DEF TypeOK
      <4>3. outbox[k].number = job[s].number
        BY <1>8, <2>4, <3>1, <3>3 DEF FinishWrite
      <4> QED
        BY <4>2, <4>3 DEF AnswerInv
    <3> QED
      BY <3>2, <3>3
  <2> QED
    BY <2>2, <2>3, <2>4 DEF SentUnlessMisfired
<1>9. ASSUME NEW s \in Senders, Abort(s) PROVE AnswerInv' /\ SentUnlessMisfired'
  BY <1>9 DEF Abort, TypeOK, NoJob, AnswerInv, SentUnlessMisfired
<1>10. CASE Tick
  <2>1. \A t \in Senders : job'[t].result = job[t].result /\ job'[t].number = job[t].number
    BY <1>10 DEF Tick, TypeOK, Job
  <2>2. \A k \in DOMAIN outbox :
          outbox'[k].number = outbox[k].number /\ outbox'[k].sent = outbox[k].sent
    BY <1>10 DEF Tick, TypeOK, Row
  <2>3. DOMAIN outbox' = DOMAIN outbox /\ UNCHANGED <<accepted, misfired>>
    BY <1>10 DEF Tick
  <2>4. AnswerInv'
    BY <2>1, <2>3 DEF AnswerInv
  <2> QED
    BY <2>2, <2>3, <2>4 DEF SentUnlessMisfired
<1>11. CASE UNCHANGED vars
  BY <1>11 DEF vars, AnswerInv, SentUnlessMisfired
<1>12. \A link \in Links : SUBSET (Ads \X {link} \X Prices) \subseteq SUBSET Events
  BY DEF Events
<1> QED
  BY <1>1, <1>2, <1>3, <1>4, <1>5, <1>6, <1>7, <1>8, <1>9, <1>10, <1>11, <1>12 DEF Next

LEMMA Sticky == [Next]_vars => (overrun => overrun') /\ (misfired => misfired')
<1> SUFFICES ASSUME [Next]_vars
             PROVE  (overrun => overrun') /\ (misfired => misfired')
  OBVIOUS
<1>1. ASSUME NEW page, SavePage(page) PROVE UNCHANGED <<overrun, misfired>>
  BY <1>1 DEF SavePage
<1>2. ASSUME NEW ad, NEW price, DeleteAd(ad) \/ UpdateAd(ad, price)
      PROVE  UNCHANGED <<overrun, misfired>>
  BY <1>2 DEF DeleteAd, UpdateAd
<1>3. ASSUME NEW s, Claim(s) \/ ClaimNothing(s) \/ Notify(s) \/ FinishRead(s) \/ Abort(s)
      PROVE  UNCHANGED <<overrun, misfired>>
  BY <1>3 DEF Claim, ClaimNothing, Notify, FinishRead, Abort
<1>4. ASSUME NEW s, FinishWrite(s) PROVE UNCHANGED overrun /\ (misfired => misfired')
  BY <1>4 DEF FinishWrite
<1>5. CASE Tick
  BY <1>5 DEF Tick
<1>6. CASE UNCHANGED vars
  BY <1>6 DEF vars
<1> QED
  BY <1>1, <1>2, <1>3, <1>4, <1>5, <1>6 DEF Next

\* Leases: while no sender outlives its lease and no result goes astray, a sender's row
\* is open and nobody else can claim it.
LEMMA LeaseStep ==
  TypeOK /\ NumberInv /\ LeaseInv /\ OneSenderWithinLease /\ [Next]_vars
    => LeaseInv' /\ OneSenderWithinLease'
<1> SUFFICES ASSUME TypeOK, NumberInv, LeaseInv, OneSenderWithinLease, [Next]_vars,
                    ~overrun', ~misfired'
             PROVE  /\ \A t \in Senders : Busy(t)' =>
                         /\ job'[t].left >= 1
                         /\ \A k \in DOMAIN outbox' : outbox'[k].number = job'[t].number =>
                              Open(outbox'[k]) /\ outbox'[k].wait >= job'[t].left
                    /\ \A t, u \in Senders :
                         Busy(t)' /\ Busy(u)' /\ job'[t].number = job'[u].number => t = u
  BY DEF LeaseInv, OneSenderWithinLease, Busy
<1> DEFINE Held(t) == /\ job[t].left >= 1
                      /\ \A k \in DOMAIN outbox : outbox[k].number = job[t].number =>
                           Open(outbox[k]) /\ outbox[k].wait >= job[t].left
           HeldNext(t) == /\ job'[t].left >= 1
                          /\ \A k \in DOMAIN outbox' : outbox'[k].number = job'[t].number =>
                               Open(outbox'[k]) /\ outbox'[k].wait >= job'[t].left
           Alone == \A t, u \in Senders :
                      Busy(t) /\ Busy(u) /\ job[t].number = job[u].number => t = u
           Goal == /\ \A t \in Senders : Busy(t)' => HeldNext(t)
                   /\ \A t, u \in Senders :
                        Busy(t)' /\ Busy(u)' /\ job'[t].number = job'[u].number => t = u
<1> SUFFICES Goal
  OBVIOUS
<1>0. /\ \A t \in Senders : Busy(t) => Held(t)
      /\ Alone
  <2>1. ~overrun /\ ~misfired
    BY Sticky
  <2> QED
    BY <2>1 DEF LeaseInv, OneSenderWithinLease, Busy
\* A sender that keeps its place and its job keeps its row when the rows keep theirs.
<1>a. ASSUME \A t \in Senders : Busy(t)' =>
               Busy(t) /\ job'[t].number = job[t].number /\ job'[t].left = job[t].left,
             \A t \in Senders, k \in DOMAIN outbox' :
               Busy(t) /\ Busy(t)' /\ outbox'[k].number = job[t].number =>
                 k \in DOMAIN outbox /\ outbox'[k] = outbox[k]
      PROVE  Goal
  BY <1>0, <1>a
<1>1. ASSUME NEW page \in SUBSET Events, SavePage(page) PROVE Goal
  <2>1. UNCHANGED <<place, job>>
    BY <1>1 DEF SavePage
  <2>2. \A t \in Senders : Busy(t)' <=> Busy(t)
    BY <2>1 DEF Busy
  <2>3. ASSUME NEW t \in Senders, NEW k \in DOMAIN outbox', Busy(t),
               outbox'[k].number = job[t].number
        PROVE  k \in DOMAIN outbox /\ outbox'[k] = outbox[k]
    <3>1. CASE k \in DOMAIN outbox
      BY <1>1, <3>1, PageRows
    <3>2. CASE k \notin DOMAIN outbox
      <4>1. PICK key \in page \X Recipients, n \in (posted + 1)..posted' :
              outbox'[k] = NewRow(key, n)
        BY <1>1, <2>3, <3>2, PageRows
      <4>2. job[t].number = n
        BY <2>3, <4>1 DEF NewRow
      <4>3. job[t].number \in Jobs /\ job[t].number <= posted
        BY <2>3 DEF NumberInv
      <4> QED
        BY <4>2, <4>3, OutboxAssumption DEF TypeOK, Jobs
    <3> QED
      BY <3>1, <3>2
  <2> QED
    BY <1>a, <2>1, <2>2, <2>3
<1>2. ASSUME NEW ad \in Ads, DeleteAd(ad) PROVE Goal
  <2>1. UNCHANGED <<place, job>> /\ \A t \in Senders : Busy(t)' <=> Busy(t)
    BY <1>2 DEF DeleteAd, Busy
  <2>2. \A k \in DOMAIN outbox' : k \in DOMAIN outbox /\ outbox'[k] = outbox[k]
    BY <1>2 DEF DeleteAd
  <2> QED
    BY <1>a, <2>1, <2>2
<1>3. ASSUME NEW ad \in Ads, NEW price \in Prices, UpdateAd(ad, price) PROVE Goal
  <2>1. UNCHANGED <<place, job, outbox>> /\ \A t \in Senders : Busy(t)' <=> Busy(t)
    BY <1>3 DEF UpdateAd, Busy
  <2> QED
    BY <1>a, <2>1
<1>4. ASSUME NEW s \in Senders, Claim(s) PROVE Goal
  <2>1. PICK i \in DOMAIN outbox :
          /\ Due(outbox[i])
          /\ DOMAIN outbox' = DOMAIN outbox
          /\ outbox'[i] = [outbox[i] EXCEPT !.wait = Lease, !.attempts = outbox[i].attempts + 1]
          /\ \A k \in DOMAIN outbox : k # i => outbox'[k] = Swept[k]
          /\ job' = [job EXCEPT ![s] = ClaimedJob(i, outbox[i].number)]
    BY <1>4, ClaimRow
  <2>2. outbox[i] \in Row /\ outbox[i].wait = 0 /\ Open(outbox[i])
    BY <2>1 DEF TypeOK, Due
  <2>3. /\ outbox'[i].number = outbox[i].number
        /\ outbox'[i].wait = Lease
        /\ Open(outbox'[i])
    BY <2>1, <2>2 DEF Row, Open
  <2>4. \A t \in Senders : Busy(t) => job[t].number # outbox[i].number
    <3>1. \A t \in Senders : Busy(t) => job[t].left \in Nat /\ job[t].left >= 1
      BY <1>0, OutboxAssumption DEF TypeOK, Job
    <3> QED
      BY <1>0, <2>2, <3>1
  <2>5. \A t \in Senders : t # s => job'[t] = job[t] /\ (Busy(t)' <=> Busy(t))
    BY <1>4, <2>1 DEF Claim, TypeOK, Busy
  <2>6. job'[s].number = outbox[i].number /\ job'[s].left = Lease
    BY <2>1 DEF TypeOK, ClaimedJob
  <2>7. \A k \in DOMAIN outbox : k # i =>
          outbox'[k].number = outbox[k].number /\ (outbox[k].wait > 0 => outbox'[k] = outbox[k])
    BY <2>1, SweptRows
  <2>8. HeldNext(s)
    <3>1. \A k \in DOMAIN outbox' : outbox'[k].number = outbox[i].number => k = i
      BY <2>1, <2>3, <2>7 DEF NumberInv
    <3> QED
      BY <2>3, <2>6, <3>1, OutboxAssumption
  <2>9. ASSUME NEW t \in Senders, t # s, Busy(t) PROVE HeldNext(t)
    <3>1. Held(t) /\ job'[t] = job[t] /\ job[t].left \in Nat
      BY <1>0, <2>5, <2>9, OutboxAssumption DEF TypeOK, Job
    <3>2. ASSUME NEW k \in DOMAIN outbox', outbox'[k].number = job[t].number
          PROVE  Open(outbox'[k]) /\ outbox'[k].wait >= job[t].left
      <4>1. k # i /\ k \in DOMAIN outbox
        BY <2>1, <2>3, <2>4, <2>9, <3>2
      <4>2. outbox[k].number = job[t].number /\ Open(outbox[k]) /\ outbox[k].wait >= job[t].left
        BY <2>7, <3>1, <3>2, <4>1
      <4>3. outbox[k].wait > 0
        BY <3>1, <4>1, <4>2, OutboxAssumption DEF TypeOK, Row
      <4> QED
        BY <2>7, <4>1, <4>2, <4>3
    <3> QED
      BY <3>1, <3>2
  <2>10. \A t \in Senders : Busy(t)' => t = s \/ Busy(t)
    BY <2>5
  <2> QED
    BY <1>0, <2>4, <2>5, <2>6, <2>8, <2>9, <2>10
<1>5. ASSUME NEW s \in Senders, ClaimNothing(s) PROVE Goal
  <2>1. UNCHANGED <<place, job>> /\ \A t \in Senders : Busy(t)' <=> Busy(t)
    BY <1>5 DEF ClaimNothing, Busy
  <2>2. outbox' = Swept
    BY <1>5 DEF ClaimNothing
  <2>3. ASSUME NEW t \in Senders, NEW k \in DOMAIN outbox', Busy(t),
               outbox'[k].number = job[t].number
        PROVE  k \in DOMAIN outbox /\ outbox'[k] = outbox[k]
    <3>1. k \in DOMAIN outbox /\ outbox[k].number = job[t].number
      BY <2>2, <2>3, SweptRows
    <3>2. outbox[k].wait > 0
      BY <1>0, <2>3, <3>1, OutboxAssumption DEF TypeOK, Row, Job
    <3> QED
      BY <2>2, <3>1, <3>2, SweptRows
  <2> QED
    BY <1>a, <2>1, <2>3
<1>6. ASSUME NEW s \in Senders, Notify(s) \/ FinishRead(s) \/ Abort(s) PROVE Goal
  <2>1. \A t \in Senders : Busy(t)' =>
          Busy(t) /\ job'[t].number = job[t].number /\ job'[t].left = job[t].left
    BY <1>6 DEF Notify, FinishRead, Abort, Busy, TypeOK, Job
  <2>2. outbox' = outbox
    BY <1>6 DEF Notify, FinishRead, Abort
  <2> QED
    BY <1>a, <2>1, <2>2
<1>7. ASSUME NEW s \in Senders, FinishWrite(s) PROVE Goal
  <2>1. ~Busy(s)' /\ Busy(s) /\ \A t \in Senders : Busy(t)' => Busy(t) /\ job'[t] = job[t]
    BY <1>7 DEF FinishWrite, Busy, TypeOK
  <2>2. ASSUME NEW t \in Senders, NEW k \in DOMAIN outbox', Busy(t), Busy(t)',
               outbox'[k].number = job[t].number
        PROVE  k \in DOMAIN outbox /\ outbox'[k] = outbox[k]
    <3>1. k \in DOMAIN outbox
      BY <1>7 DEF FinishWrite
    <3>2. CASE k # job[s].id
      BY <1>7, <3>1, <3>2 DEF FinishWrite
    <3>3. CASE k = job[s].id
      <4>1. outbox'[k].number = outbox[k].number
        BY <1>7, <3>1, <3>3, FinishedRow DEF FinishWrite, TypeOK
      <4>2. outbox[k].number = job[s].number
        BY <1>7, <3>1, <3>3 DEF FinishWrite
      <4> QED
        BY <1>0, <2>1, <2>2, <4>1, <4>2
    <3> QED
      BY <3>2, <3>3
  <2> QED
    BY <1>a, <2>1, <2>2
<1>8. CASE Tick
  <2>1. \A t \in Senders : (Busy(t)' <=> Busy(t)) /\ job'[t].number = job[t].number
    BY <1>8 DEF Tick, Busy, TypeOK, Job
  <2>2. \A t \in Senders : Busy(t) => job[t].left \in Nat /\ job[t].left > 1
    <3>1. \A t \in Senders : job[t].left \in Nat
      BY OutboxAssumption DEF TypeOK, Job
    <3>2. \A t \in Senders : Busy(t) => ~(job[t].left <= 1)
      BY <1>8 DEF Tick, Busy
    <3> QED
      BY <3>1, <3>2
  <2>3. \A t \in Senders : job'[t].left = Less(job[t].left)
    BY <1>8 DEF Tick, TypeOK, Job
  <2>4. DOMAIN outbox' = DOMAIN outbox
    BY <1>8 DEF Tick
  <2>5. \A k \in DOMAIN outbox :
          /\ outbox'[k].number = outbox[k].number
          /\ outbox'[k].wait = Less(outbox[k].wait)
          /\ outbox[k].wait \in Nat
          /\ Open(outbox'[k]) <=> Open(outbox[k])
    BY <1>8, OutboxAssumption DEF Tick, TypeOK, Row, Open
  <2>6. ASSUME NEW t \in Senders, Busy(t) PROVE HeldNext(t)
    <3>1. job'[t].left = job[t].left - 1 /\ job'[t].left >= 1
      BY <2>2, <2>3, <2>6 DEF Less
    <3>2. ASSUME NEW k \in DOMAIN outbox', outbox'[k].number = job'[t].number
          PROVE  Open(outbox'[k]) /\ outbox'[k].wait >= job'[t].left
      <4>1. Open(outbox[k]) /\ outbox[k].wait >= job[t].left
        BY <1>0, <2>1, <2>4, <2>5, <2>6, <3>2
      <4> QED
        BY <2>2, <2>4, <2>5, <2>6, <3>1, <4>1 DEF Less
    <3> QED
      BY <3>1, <3>2
  <2> QED
    BY <1>0, <2>1, <2>6
<1>9. CASE UNCHANGED vars
  <2>1. UNCHANGED <<place, job, outbox>> /\ \A t \in Senders : Busy(t)' <=> Busy(t)
    BY <1>9 DEF vars, Busy
  <2> QED
    BY <1>a, <2>1
<1>10. \A link \in Links : SUBSET (Ads \X {link} \X Prices) \subseteq SUBSET Events
  BY DEF Events
<1> HIDE DEF Goal
<1> QED
  BY <1>1, <1>2, <1>3, <1>4, <1>5, <1>6, <1>7, <1>8, <1>9, <1>10 DEF Next

\* Rows and ads: only finish_notification can reopen a row, and within the leases it
\* only writes to rows that are open.
LEMMA AdStep ==
  TypeOK /\ LeaseInv /\ OpenRowHasAd /\ [Next]_vars => OpenRowHasAd'
<1> SUFFICES ASSUME TypeOK, LeaseInv, OpenRowHasAd, [Next]_vars, ~overrun', ~misfired',
                    NEW i \in DOMAIN outbox', Open(outbox'[i])
             PROVE  \E e \in viewed' : e[1] = AdOf(outbox'[i].key)
  BY DEF OpenRowHasAd
<1>0. /\ \A k \in DOMAIN outbox : Open(outbox[k]) =>
           \E e \in viewed : e[1] = AdOf(outbox[k].key)
      /\ \A s \in Senders, k \in DOMAIN outbox :
           Busy(s) /\ outbox[k].number = job[s].number => Open(outbox[k])
  <2>1. ~overrun /\ ~misfired
    BY Sticky
  <2> QED
    BY <2>1 DEF LeaseInv, OpenRowHasAd
<1>a. ASSUME viewed' = viewed, i \in DOMAIN outbox, Open(outbox[i]),
             outbox'[i].key = outbox[i].key
      PROVE  \E e \in viewed' : e[1] = AdOf(outbox'[i].key)
  BY <1>0, <1>a
<1>1. ASSUME NEW page \in SUBSET Events, SavePage(page)
      PROVE  \E e \in viewed' : e[1] = AdOf(outbox'[i].key)
  <2>1. viewed' = viewed \cup page
    BY <1>1 DEF SavePage
  <2>2. CASE i \in DOMAIN outbox
    <3>1. outbox'[i] = outbox[i]
      BY <1>1, <2>2, PageRows
    <3> QED
      BY <1>0, <2>1, <2>2, <3>1
  <2>3. CASE i \notin DOMAIN outbox
    <3>1. PICK key \in page \X Recipients, n \in (posted + 1)..posted' :
            outbox'[i] = NewRow(key, n)
      BY <1>1, <2>3, PageRows
    <3>2. outbox'[i].key = key /\ key[1] \in page
      BY <3>1 DEF NewRow
    <3> QED
      BY <2>1, <3>2 DEF AdOf
  <2> QED
    BY <2>2, <2>3
<1>2. ASSUME NEW ad \in Ads, DeleteAd(ad)
      PROVE  \E e \in viewed' : e[1] = AdOf(outbox'[i].key)
  <2>1. /\ i \in DOMAIN outbox /\ outbox'[i] = outbox[i]
        /\ AdOf(outbox[i].key) # ad \/ outbox[i].sent
        /\ viewed' = {e \in viewed : e[1] # ad}
    BY <1>2 DEF DeleteAd
  <2>2. AdOf(outbox[i].key) # ad
    BY <2>1 DEF Open
  <2> QED
    BY <1>0, <2>1, <2>2
<1>3. ASSUME NEW ad \in Ads, NEW price \in Prices, UpdateAd(ad, price)
      PROVE  \E e \in viewed' : e[1] = AdOf(outbox'[i].key)
  <2>1. /\ outbox' = outbox
        /\ viewed' = {IF e[1] = ad THEN <<ad, e[2], price>> ELSE e : e \in viewed}
    BY <1>3 DEF UpdateAd
  <2>2. PICK e \in viewed : e[1] = AdOf(outbox[i].key)
    BY <1>0, <2>1
  <2>3. (IF e[1] = ad THEN <<ad, e[2], price>> ELSE e) \in viewed'
    BY <2>1
  <2>4. (IF e[1] = ad THEN <<ad, e[2], price>> ELSE e)[1] = e[1]
    OBVIOUS
  <2> QED
    BY <2>1, <2>2, <2>3, <2>4
<1>4. ASSUME NEW s \in Senders, Claim(s)
      PROVE  \E e \in viewed' : e[1] = AdOf(outbox'[i].key)
  <2>1. PICK k \in DOMAIN outbox :
          /\ Due(outbox[k])
          /\ DOMAIN outbox' = DOMAIN outbox
          /\ outbox'[k] = [outbox[k] EXCEPT !.wait = Lease, !.attempts = outbox[k].attempts + 1]
          /\ \A m \in DOMAIN outbox : m # k => outbox'[m] = Swept[m]
    BY <1>4, ClaimRow
  <2>2. outbox'[k].key = outbox[k].key /\ Open(outbox[k])
    BY <2>1 DEF TypeOK, Row, Due
  <2>3. Open(outbox[i]) /\ outbox'[i].key = outbox[i].key
    BY <2>1, <2>2, SweptRows
  <2> QED
    BY <1>4, <1>a, <2>1, <2>3 DEF Claim
<1>5. ASSUME NEW s \in Senders, ClaimNothing(s)
      PROVE  \E e \in viewed' : e[1] = AdOf(outbox'[i].key)
  BY <1>5, <1>a, SweptRows DEF ClaimNothing
<1>6. ASSUME NEW s \in Senders, Notify(s) \/ FinishRead(s) \/ Abort(s)
      PROVE  \E e \in viewed' : e[1] = AdOf(outbox'[i].key)
  BY <1>6, <1>a DEF Notify, FinishRead, Abort
<1>7. ASSUME NEW s \in Senders, FinishWrite(s)
      PROVE  \E e \in viewed' : e[1] = AdOf(outbox'[i].key)
  <2>1. DOMAIN outbox' = DOMAIN outbox /\ viewed' = viewed
    BY <1>7 DEF FinishWrite
  <2>2. CASE i # job[s].id
    BY <1>7, <1>a, <2>1, <2>2 DEF FinishWrite
  <2>3. CASE i = job[s].id
    <3>1. outbox[i].number = job[s].number /\ Busy(s)
      BY <1>7, <2>1, <2>3 DEF FinishWrite, Busy
    <3>2. outbox'[i].key = outbox[i].key
      BY <1>7, <2>1, <2>3, FinishedRow DEF FinishWrite, TypeOK
    <3> QED
      BY <1>0, <1>a, <2>1, <3>1, <3>2
  <2> QED
    BY <2>2, <2>3
<1>8. CASE Tick
  <2>1. DOMAIN outbox' = DOMAIN outbox /\ viewed' = viewed
    BY <1>8 DEF Tick
  <2>2. outbox'[i].key = outbox[i].key /\ Open(outbox[i])
    BY <1>8, <2>1 DEF Tick, TypeOK, Row, Open
  <2> QED
    BY <1>a, <2>1, <2>2
<1>9. CASE UNCHANGED vars
  BY <1>9, <1>a DEF vars
<1>10. \A link \in Links : SUBSET (Ads \X {link} \X Prices) \subseteq SUBSET Events
  BY DEF Events
<1> QED
  BY <1>1, <1>2, <1>3, <1>4, <1>5, <1>6, <1>7, <1>8, <1>9, <1>10 DEF Next

LEMMA IInvStep == IInv /\ [Next]_vars => IInv'
  BY TypeStep, NumberStep, CountStep, AnswerStep, LeaseStep, AdStep DEF IInv

LEMMA Invariance == Spec => []IInv
  BY InitIInv, IInvStep, PTL DEF Spec

-----------------------------------------------------------------------------
\* Every variable of the outbox stays in its type.
THEOREM TypeCorrect == Spec => []TypeOK
<1>1. IInv => TypeOK
  BY DEF IInv
<1> QED
  BY <1>1, Invariance, PTL

\* However many processes, crashes and restarts there are, no row is handed to the
\* messenger more than MaxAttempts times (claim_notification counts before the send).
THEOREM AttemptsBounded == Spec => []AttemptBudget
<1>1. IInv => AttemptBudget
  BY DEF IInv, CountInv
<1> QED
  BY <1>1, Invariance, PTL

\* A row marked as sent was taken by the messenger, as long as finish_notification never
\* hit a row that had been given the id of a deleted one.
THEOREM SentIsAccepted == Spec => []SentUnlessMisfired
<1>1. IInv => SentUnlessMisfired
  BY DEF IInv
<1> QED
  BY <1>1, Invariance, PTL

\* Any number of senders share the queue without two of them holding one row, as long
\* as each finishes within the lease it took.
THEOREM SenderAlone == Spec => []OneSenderWithinLease
<1>1. IInv => OneSenderWithinLease
  BY DEF IInv
<1> QED
  BY <1>1, Invariance, PTL

\* Under the same condition no row waits for an ad that delete_ad has removed.
THEOREM RowsFollowAds == Spec => []OpenRowHasAd
<1>1. IInv => OpenRowHasAd
  BY DEF IInv
<1> QED
  BY <1>1, Invariance, PTL
===============================================================================
