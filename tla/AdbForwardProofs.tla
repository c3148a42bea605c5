-------------------------- MODULE AdbForwardProofs --------------------------
(***************************************************************************)
(* ForwardKept and StrangersSafe for any commands, pids and ports and any  *)
(* number of faults.                                                       *)
(*                                                                         *)
(* ForwardKept is not inductive: that some monitor runs does not say who   *)
(* will have the port on record when it ends.  KeptInv names the keepers:  *)
(* the record, the monitors at "made", and unclaimed.  WatchInv says that  *)
(* a monitor in its loop is on record or its port is unclaimed; RemovedInv *)
(* and ErasedInv that whoever is about to remove a record has seen its     *)
(* port freed, and whatever forwards it again is a keeper.                 *)
(***************************************************************************)
EXTENDS AdbForward, TLAPS

Young == {"free", "start", "made"}
Made(port) == \E q \in Pids : monitor[q].pc = "made" /\ monitor[q].port = port
Kept(port) == port \in unclaimed \/ Made(port)

\* Only the command with the lock is past it.
LockInv == \A c \in Commands : command[c].pc \notin {"idle", "lock"} => lock = c

\* A state, on record or read from there, is of a monitor that has been at "made"; the
\* command that cleans after a monitor has seen its end.
Grown(state) ==
  monitor[state.pid].pc \notin Young /\ monitor[state.pid].port = state.port

RecordInv ==
  /\ record # None => Grown(record)
  /\ \A c \in Commands : command[c].pc \in {"signal", "grace", "clean", "erase"} =>
       Grown(command[c].target)
  /\ \A c \in Commands : command[c].pc \in {"clean", "erase"} =>
       monitor[command[c].target.pid].pc \in {"gone", "other"}

WatchInv ==
  \A q \in Pids : monitor[q].pc \in {"watch", "remove"} =>
    Mine(q) \/ monitor[q].port \in unclaimed

RemovedInv ==
  \A q \in Pids : monitor[q].pc \in {"read", "unlink"} /\ Mine(q) =>
    (record.port \in forward => Kept(record.port))

ErasedInv ==
  \A c \in Commands : command[c].pc = "erase" /\ record = command[c].target =>
    (record.port \in forward => Kept(record.port))

KeptInv ==
  \A port \in forward : (record # None /\ record.port = port) \/ Kept(port)

\* Who waits for the end of a pid that another program has taken was waiting before.
WaitingInv ==
  \A q \in Pids, c \in Commands :
    monitor[q].pc = "other" /\ command[c].pc = "grace" /\ command[c].target.pid = q =>
      c \in waiting[q]

IInv ==
  /\ ForwardTypeOK /\ LockInv /\ RecordInv /\ WatchInv /\ RemovedInv /\ ErasedInv /\ KeptInv
  /\ WaitingInv

USE ForwardAssumption

-----------------------------------------------------------------------------
Monitors == [pc : Running \cup {"free", "gone", "other"}, port : Ports, term : BOOLEAN]
CommandStates == [pc : Stages, op : {"ensure", "stop"}, port : Ports, target : States]

LEMMA SomeState == APort \in Ports /\ AState \in States /\ Outside \in CommandStates
  <1>1. PICK q \in Pids, port \in Ports : TRUE
    BY DEF ForwardAssumption
  <1>2. [pid |-> q, port |-> port] \in States
    BY DEF States
  <1>3. APort \in Ports /\ AState \in States
    BY <1>2 DEF APort, AState
  <1>. QED
    BY <1>3 DEF Outside, CommandStates, Stages

LEMMA InitIInv == ForwardInit => IInv
  <1>. SUFFICES ASSUME ForwardInit PROVE IInv
    OBVIOUS
  <1>1. ForwardTypeOK
    <2>1. monitor \in [Pids -> Monitors]
      BY SomeState DEF ForwardInit, Monitors, Running
    <2>2. command \in [Commands -> CommandStates]
      BY SomeState DEF ForwardInit
    <2>. QED
      BY <2>1, <2>2 DEF ForwardInit, ForwardTypeOK, Monitors, CommandStates
  <1>2. LockInv /\ RecordInv /\ WatchInv /\ RemovedInv /\ ErasedInv /\ KeptInv /\ WaitingInv
    BY DEF ForwardInit, LockInv, RecordInv, WatchInv, RemovedInv, ErasedInv, KeptInv,
       WaitingInv,
       Outside, Mine
  <1>. QED
    BY <1>1, <1>2 DEF IInv

-----------------------------------------------------------------------------
(* The parts of a step. *)

\* Monitor q is at pc with this port from now on, the others stay as they are.
Becomes(q, pc, port) ==
  /\ monitor' \in [Pids -> Monitors]
  /\ monitor'[q].pc = pc /\ monitor'[q].port = port
  /\ \A r \in Pids : r # q => monitor'[r] = monitor[r]

\* Command c is at pc with this target from now on.
Turns(c, pc, target) ==
  /\ command' \in [Commands -> CommandStates]
  /\ command'[c].pc = pc /\ command'[c].target = target
  /\ \A d \in Commands : d # c => command'[d] = command[d]

LEMMA TypeParts ==
  /\ ForwardTypeOK => /\ forward \subseteq Ports /\ record \in States \cup {None}
                      /\ lock \in Commands \cup {None}
                      /\ monitor \in [Pids -> Monitors]
                      /\ command \in [Commands -> CommandStates]
                      /\ unclaimed \subseteq Ports /\ waiting \in [Pids -> SUBSET Commands]
                      /\ faults \in 0..MaxFaults
  /\ None \notin States /\ None \notin Commands
  BY DEF ForwardTypeOK, Monitors, CommandStates, ForwardAssumption, States

LEMMA TypeWhole ==
  ASSUME forward' \subseteq Ports, record' \in States \cup {None},
         lock' \in Commands \cup {None}, monitor' \in [Pids -> Monitors],
         command' \in [Commands -> CommandStates], unclaimed' \subseteq Ports,
         waiting' \in [Pids -> SUBSET Commands], faults' \in 0..MaxFaults
  PROVE  ForwardTypeOK'
  BY DEF ForwardTypeOK, Monitors, CommandStates

LEMMA MonitorPc ==
  ASSUME monitor \in [Pids -> Monitors], NEW q \in Pids,
         NEW pc \in Running \cup {"free", "gone", "other"},
         monitor' = [monitor EXCEPT ![q].pc = pc]
  PROVE  Becomes(q, pc, monitor[q].port)
  BY DEF Becomes, Monitors

LEMMA MonitorTerm ==
  ASSUME monitor \in [Pids -> Monitors], NEW q \in Pids, NEW term \in BOOLEAN,
         monitor' = [monitor EXCEPT ![q].term = term]
  PROVE  Becomes(q, monitor[q].pc, monitor[q].port)
  BY DEF Becomes, Monitors

LEMMA MonitorPcTerm ==
  ASSUME monitor \in [Pids -> Monitors], NEW q \in Pids, NEW term \in BOOLEAN,
         NEW pc \in Running \cup {"free", "gone", "other"},
         monitor' = [monitor EXCEPT ![q].pc = pc, ![q].term = term]
  PROVE  Becomes(q, pc, monitor[q].port)
  BY DEF Becomes, Monitors

LEMMA MonitorTermPc ==
  ASSUME monitor \in [Pids -> Monitors], NEW q \in Pids, NEW term \in BOOLEAN,
         NEW pc \in Running \cup {"free", "gone", "other"},
         monitor' = [monitor EXCEPT ![q].term = term, ![q].pc = pc]
  PROVE  Becomes(q, pc, monitor[q].port)
  BY DEF Becomes, Monitors

LEMMA MonitorStarts ==
  ASSUME monitor \in [Pids -> Monitors], NEW q \in Pids, NEW port \in Ports,
         monitor' = [monitor EXCEPT ![q].pc = "start", ![q].port = port]
  PROVE  Becomes(q, "start", port)
  BY DEF Becomes, Monitors, Running

LEMMA CommandTo ==
  ASSUME command \in [Commands -> CommandStates], NEW c \in Commands, NEW pc \in Stages,
         To(c, pc)
  PROVE  Turns(c, pc, command[c].target)
  BY DEF Turns, CommandStates, To

LEMMA CommandEnds ==
  ASSUME command \in [Commands -> CommandStates], NEW c \in Commands, Ends(c)
  PROVE  Turns(c, "idle", AState) /\ lock' = None
  BY SomeState DEF Turns, Ends, Outside

LEMMA CommandCalls ==
  ASSUME command \in [Commands -> CommandStates], NEW c \in Commands,
         NEW op \in {"ensure", "stop"}, NEW port \in Ports, Call(c, op, port)
  PROVE  Turns(c, "lock", AState)
  BY SomeState DEF Turns, CommandStates, Stages, Call

LEMMA CommandTarget ==
  ASSUME command \in [Commands -> CommandStates], NEW c \in Commands, NEW pc \in Stages,
         NEW target \in States,
         command' = [command EXCEPT ![c].pc = pc, ![c].target = target]
  PROVE  Turns(c, pc, target)
  BY DEF Turns, CommandStates

-----------------------------------------------------------------------------
(* The steps of a monitor. *)

\* What every one of them leaves alone.
LEMMA MonitorFrame ==
  ASSUME IInv, NEW q \in Pids, NEW pc \in Running \cup {"gone"},
         monitor[q].pc \in Running, pc \in Young => monitor[q].pc \in Young,
         Becomes(q, pc, monitor[q].port),
         UNCHANGED <<lock, command, waiting>>, faults' \in 0..MaxFaults,
         forward' \subseteq Ports, unclaimed' \subseteq Ports,
         record' \in {record, None} \/ (record' \in States /\ record'.pid = q
                                       /\ record'.port = monitor[q].port /\ pc \notin Young)
  PROVE  ForwardTypeOK' /\ LockInv' /\ WaitingInv' /\ RecordInv'
  <1>. USE TypeParts DEF IInv
  <1>1. ForwardTypeOK'
    BY TypeWhole DEF Becomes
  <1>2. LockInv'
    BY DEF LockInv
  <1>3. WaitingInv'
    BY DEF WaitingInv, Becomes, Running
  <1>4. \A state \in States : Grown(state) => Grown(state)'
    BY DEF Grown, Becomes, Young, States
  <1>5. record' # None => Grown(record)'
    BY <1>4 DEF RecordInv, Grown, Becomes
  <1>6. \A c \in Commands : command[c].target \in States
    BY DEF CommandStates
  <1>7. \A c \in Commands : command'[c].pc \in {"signal", "grace", "clean", "erase"} =>
          Grown(command[c].target)'
    BY <1>4, <1>6 DEF RecordInv
  <1>8. \A c \in Commands : command'[c].pc \in {"clean", "erase"} =>
          monitor'[command[c].target.pid].pc \in {"gone", "other"}
    BY <1>6 DEF RecordInv, Becomes, Running, States
  <1>. QED
    BY <1>1, <1>2, <1>3, <1>5, <1>7, <1>8 DEF RecordInv, Grown

LEMMA KeptMoves ==
  ASSUME NEW q \in Pids, NEW pc, NEW port, Becomes(q, pc, monitor[q].port),
         unclaimed \subseteq unclaimed',
         monitor[q].pc = "made" => pc = "made" \/ monitor[q].port \in unclaimed',
         Kept(port)
  PROVE  Kept(port)'
  BY DEF Kept, Made, Becomes

LEMMA FirstForwardKeeps == ASSUME IInv, NEW q \in Pids, FirstForward(q) PROVE IInv'
  <1>. USE TypeParts DEF IInv
  <1>. DEFINE port == monitor[q].port
  <1>0. port \in Ports /\ monitor[q] \in Monitors
    BY DEF Monitors
  <1>1. UNCHANGED <<record, lock, command, waiting, faults>>
    BY DEF FirstForward
  <1>2. monitor[q].pc = "start"
    BY DEF FirstForward, Moves
  <1>3. CASE Moves(q, "start", "made") /\ Forwards(port) /\ UNCHANGED unclaimed
    <2>1. Becomes(q, "made", port)
      BY <1>3, MonitorPc DEF Moves, Running
    <2>2. forward' = forward \cup {port} /\ unclaimed' = unclaimed
      BY <1>3 DEF Forwards
    <2>11. ForwardTypeOK' /\ LockInv' /\ WaitingInv' /\ RecordInv'
      BY <1>0, <1>1, <1>2, <2>1, <2>2, MonitorFrame DEF Running, Young, States
    <2>12. \A p : Kept(p) => Kept(p)'
      BY <1>0, <1>1, <1>2, <2>1, <2>2, KeptMoves
    <2>13. WatchInv'
      BY <1>0, <1>1, <1>2, <2>1, <2>2 DEF WatchInv, RecordInv, Grown, Young, Mine, Becomes,
         States
    <2>14. RemovedInv'
      BY <2>12, <1>0, <1>1, <1>2, <2>1, <2>2 DEF RemovedInv, WatchInv, RecordInv, Grown,
         Young, Mine, Becomes, States, Kept, Made
    <2>15. ErasedInv'
      BY <2>12, <1>0, <1>1, <1>2, <2>1, <2>2 DEF ErasedInv, WatchInv, RecordInv,
         CommandStates, Grown, Young, Mine, Becomes, States, Kept, Made
    <2>16. KeptInv'
      BY <2>12, <1>0, <1>1, <1>2, <2>1, <2>2 DEF KeptInv, WatchInv, RemovedInv, Grown,
         Young, Mine, Becomes, States, Kept, Made
    <2>. QED
      BY <2>11, <2>13, <2>14, <2>15, <2>16
  <1>4. CASE /\ Moves(q, "start", "read") /\ MaybeForwards(port)
            /\ unclaimed' = unclaimed \cup (forward' \ forward)
    <2>1. Becomes(q, "read", port)
      BY <1>4, MonitorPc DEF Moves, Running
    <2>2. /\ forward' \subseteq forward \cup {port}
          /\ unclaimed' = unclaimed \cup (forward' \ forward)
      BY <1>4 DEF Forwards, MaybeForwards
    <2>11. ForwardTypeOK' /\ LockInv' /\ WaitingInv' /\ RecordInv'
      BY <1>0, <1>1, <1>2, <2>1, <2>2, MonitorFrame DEF Running, Young, States
    <2>12. \A p : Kept(p) => Kept(p)'
      BY <1>0, <1>1, <1>2, <2>1, <2>2, KeptMoves
    <2>13. WatchInv'
      BY <1>0, <1>1, <1>2, <2>1, <2>2 DEF WatchInv, RecordInv, Grown, Young, Mine, Becomes,
         States
    <2>14. RemovedInv'
      BY <2>12, <1>0, <1>1, <1>2, <2>1, <2>2 DEF RemovedInv, WatchInv, RecordInv, Grown,
         Young, Mine, Becomes, States, Kept, Made
    <2>15. ErasedInv'
      BY <2>12, <1>0, <1>1, <1>2, <2>1, <2>2 DEF ErasedInv, WatchInv, RecordInv,
         CommandStates, Grown, Young, Mine, Becomes, States, Kept, Made
    <2>16. KeptInv'
      BY <2>12, <1>0, <1>1, <1>2, <2>1, <2>2 DEF KeptInv, WatchInv, RemovedInv, Grown,
         Young, Mine, Becomes, States, Kept, Made
    <2>. QED
      BY <2>11, <2>13, <2>14, <2>15, <2>16
  <1>. QED
    BY <1>3, <1>4 DEF FirstForward

LEMMA WriteRecordKeeps == ASSUME IInv, NEW q \in Pids, WriteRecord(q) PROVE IInv'
  <1>. USE TypeParts DEF IInv
  <1>. DEFINE port == monitor[q].port
  <1>0. port \in Ports /\ monitor[q] \in Monitors
    BY DEF Monitors
  <1>1. UNCHANGED <<forward, lock, command, waiting, faults>>
    BY DEF WriteRecord
  <1>2. monitor[q].pc = "made" /\ Becomes(q, "watch", port)
    BY MonitorPc DEF WriteRecord, Moves, Running
  <1>3. record' = [pid |-> q, port |-> port] /\ record' \in States
    BY <1>0 DEF WriteRecord, States
  <1>4. record # None => /\ record \in States /\ record.pid # q
                         /\ record.port \in Ports /\ record.port \in unclaimed'
    BY <1>2, <1>3 DEF WriteRecord, RecordInv, Grown, Young, States
  <1>5. unclaimed \subseteq unclaimed' /\ unclaimed' \subseteq Ports
    BY <1>4 DEF WriteRecord, States
  <1>6. record'.pid = q /\ record'.port = port /\ record' # None
    BY <1>3
  <1>7. \A p : Kept(p) => Kept(p)' \/ p = port
    BY <1>2, <1>5 DEF Kept, Made, Becomes
  <1>11. ForwardTypeOK' /\ LockInv' /\ WaitingInv' /\ RecordInv'
    BY <1>0, <1>1, <1>2, <1>3, <1>5, <1>6, MonitorFrame DEF Running, Young, States
  <1>13. WatchInv'
    BY <1>0, <1>1, <1>2, <1>4, <1>5, <1>6, <1>7 DEF WatchInv, RecordInv, Grown, Young, Mine,
       Becomes, States
  <1>14. RemovedInv'
    BY <1>0, <1>1, <1>2, <1>4, <1>5, <1>6, <1>7 DEF RemovedInv, WatchInv, RecordInv, Grown,
       Young, Mine, Becomes, States
  <1>15. ErasedInv'
    BY <1>0, <1>1, <1>2, <1>4, <1>5, <1>6, <1>7 DEF ErasedInv, WatchInv, RecordInv,
       CommandStates, Grown, Young, Mine, Becomes, States
  <1>16. KeptInv'
    BY <1>0, <1>1, <1>2, <1>4, <1>5, <1>6, <1>7 DEF KeptInv, WatchInv, RemovedInv, Grown,
       Young, Mine, Becomes, States, Kept
  <1>. QED
    BY <1>11, <1>13, <1>14, <1>15, <1>16

LEMMA RestoreKeeps == ASSUME IInv, NEW q \in Pids, Restore(q) PROVE IInv'
  <1>. USE TypeParts DEF IInv
  <1>. DEFINE port == monitor[q].port
  <1>0. port \in Ports /\ monitor[q] \in Monitors
    BY DEF Monitors
  <1>1. UNCHANGED <<record, lock, monitor, command, unclaimed, waiting, faults>>
    BY DEF Restore
  <1>2. monitor[q].pc = "watch" /\ Becomes(q, "watch", port)
    BY <1>1 DEF Restore, Becomes
  <1>3. forward' = forward \cup {port}
    BY DEF Restore, Forwards
  <1>11. ForwardTypeOK' /\ LockInv' /\ WaitingInv' /\ RecordInv'
    BY <1>0, <1>1, <1>2, <1>3, MonitorFrame DEF Running, Young, States
  <1>12. \A p : Kept(p) => Kept(p)'
    BY <1>0, <1>1, <1>2, <1>3, KeptMoves
  <1>13. WatchInv'
    BY <1>0, <1>1, <1>2, <1>3 DEF WatchInv, RecordInv, Grown, Young, Mine, Becomes, States
  <1>14. RemovedInv'
    BY <1>12, <1>0, <1>1, <1>2, <1>3 DEF RemovedInv, WatchInv, RecordInv, Grown, Young,
       Mine, Becomes, States, Kept
  <1>15. ErasedInv'
    BY <1>12, <1>0, <1>1, <1>2, <1>3 DEF ErasedInv, WatchInv, RecordInv, CommandStates,
       Grown, Young, Mine, Becomes, States, Kept
  <1>16. KeptInv'
    BY <1>12, <1>0, <1>1, <1>2, <1>3 DEF KeptInv, WatchInv, RemovedInv, Grown, Young, Mine,
       Becomes, States, RecordInv, Kept
  <1>. QED
    BY <1>11, <1>13, <1>14, <1>15, <1>16

LEMMA SeeTermKeeps == ASSUME IInv, NEW q \in Pids, SeeTerm(q) PROVE IInv'
  <1>. USE TypeParts DEF IInv
  <1>. DEFINE port == monitor[q].port
  <1>0. port \in Ports /\ monitor[q] \in Monitors
    BY DEF Monitors
  <1>. DEFINE pc == CASE monitor[q].pc \in {"start", "made"} -> "read"
                    [] monitor[q].pc = "watch" -> "remove"
                    [] OTHER -> "gone"
  <1>1. UNCHANGED <<record, lock, command, waiting, faults>> /\ monitor[q].pc \in Running
    BY DEF SeeTerm
  <1>2. monitor' = [monitor EXCEPT ![q].term = FALSE, ![q].pc = pc]
    BY DEF SeeTerm, Monitors
  <1>3. Becomes(q, pc, port)
    BY <1>2, MonitorTermPc, <1>1 DEF Running
  <1>4. /\ monitor[q].pc \in {"start", "made"} => pc = "read"
        /\ monitor[q].pc = "watch" => pc = "remove"
        /\ monitor[q].pc \notin {"start", "made", "watch"} => pc = "gone"
    OBVIOUS
  <1>. HIDE DEF pc
  <1>5. unclaimed' = unclaimed \cup
          (IF monitor[q].pc \in {"start", "made"} THEN {port} ELSE {})
    BY DEF SeeTerm
  <1>6. forward' \subseteq forward \cup (IF monitor[q].pc = "start" THEN {port} ELSE {})
    BY DEF SeeTerm, MaybeForwards, Forwards
  <1>11. ForwardTypeOK' /\ LockInv' /\ WaitingInv' /\ RecordInv'
    BY <1>0, <1>1, <1>3, <1>4, <1>5, <1>6, MonitorFrame DEF Running, Young, States
  <1>12. \A p : Kept(p) => Kept(p)'
    BY <1>0, <1>1, <1>3, <1>4, <1>5, <1>6, KeptMoves
  <1>13. WatchInv'
    BY <1>0, <1>1, <1>3, <1>4, <1>5, <1>6 DEF WatchInv, RecordInv, Grown, Young, Mine,
       Becomes, States, Running
  <1>14. RemovedInv'
    BY <1>12, <1>0, <1>1, <1>3, <1>4, <1>5, <1>6 DEF RemovedInv, WatchInv, RecordInv, Grown,
       Young, Mine, Becomes, States, Kept, Running
  <1>15. ErasedInv'
    BY <1>12, <1>0, <1>1, <1>3, <1>4, <1>5, <1>6 DEF ErasedInv, WatchInv, RecordInv,
       CommandStates, Grown, Young, Mine, Becomes, States, Kept, Running
  <1>16. KeptInv'
    BY <1>12, <1>0, <1>1, <1>3, <1>4, <1>5, <1>6 DEF KeptInv, WatchInv, RemovedInv, Grown,
       Young, Mine, Becomes, States, Kept, Running
  <1>. QED
    BY <1>11, <1>13, <1>14, <1>15, <1>16

LEMMA RemoveOwnKeeps == ASSUME IInv, NEW q \in Pids, RemoveOwn(q) PROVE IInv'
  <1>. USE TypeParts DEF IInv
  <1>. DEFINE port == monitor[q].port
  <1>0. port \in Ports /\ monitor[q] \in Monitors
    BY DEF Monitors
  <1>1. UNCHANGED <<record, lock, command, unclaimed, waiting, faults>>
    BY DEF RemoveOwn
  <1>2. monitor[q].pc = "remove"
    BY DEF RemoveOwn, Moves
  <1>3. PICK pc \in {"read", "gone"} :
          Becomes(q, pc, port) /\ (pc = "read" => forward' = forward \ {port})
    BY MonitorPc DEF RemoveOwn, Moves, Running
  <1>4. forward' \subseteq forward
    BY DEF RemoveOwn, MaybeRemoves
  <1>11. ForwardTypeOK' /\ LockInv' /\ WaitingInv' /\ RecordInv'
    BY <1>0, <1>1, <1>2, <1>3, <1>4, MonitorFrame DEF Running, Young, States
  <1>12. \A p : Kept(p) => Kept(p)'
    BY <1>0, <1>1, <1>2, <1>3, <1>4, KeptMoves
  <1>13. WatchInv'
    BY <1>0, <1>1, <1>2, <1>3, <1>4 DEF WatchInv, RecordInv, Grown, Young, Mine, Becomes,
       States
  <1>14. RemovedInv'
    BY <1>12, <1>0, <1>1, <1>2, <1>3, <1>4 DEF RemovedInv, WatchInv, RecordInv, Grown,
       Young, Mine, Becomes, States
  <1>15. ErasedInv'
    BY <1>12, <1>0, <1>1, <1>2, <1>3, <1>4 DEF ErasedInv, WatchInv, RecordInv,
       CommandStates, Grown, Young, Mine, Becomes, States
  <1>16. KeptInv'
    BY <1>12, <1>0, <1>1, <1>2, <1>3, <1>4 DEF KeptInv, WatchInv, RemovedInv, Grown, Young,
       Mine, Becomes, States
  <1>. QED
    BY <1>11, <1>13, <1>14, <1>15, <1>16

LEMMA CompareRecordKeeps == ASSUME IInv, NEW q \in Pids, CompareRecord(q) PROVE IInv'
  <1>. USE TypeParts DEF IInv
  <1>. DEFINE port == monitor[q].port
  <1>0. port \in Ports /\ monitor[q] \in Monitors
    BY DEF Monitors
  <1>1. UNCHANGED <<forward, record, lock, command, unclaimed, waiting, faults>>
    BY DEF CompareRecord
  <1>2. monitor[q].pc = "read"
    BY DEF CompareRecord, Moves
  <1>3. PICK pc \in {"unlink", "gone"} : Becomes(q, pc, port)
    BY MonitorPc DEF CompareRecord, Moves, Running
  <1>11. ForwardTypeOK' /\ LockInv' /\ WaitingInv' /\ RecordInv'
    BY <1>0, <1>1, <1>2, <1>3, MonitorFrame DEF Running, Young, States
  <1>12. \A p : Kept(p) => Kept(p)'
    BY <1>0, <1>1, <1>2, <1>3, KeptMoves
  <1>13. WatchInv'
    BY <1>0, <1>1, <1>2, <1>3 DEF WatchInv, RecordInv, Grown, Young, Mine, Becomes, States
  <1>14. RemovedInv'
    BY <1>12, <1>0, <1>1, <1>2, <1>3 DEF RemovedInv, WatchInv, RecordInv, Grown, Young,
       Mine, Becomes, States
  <1>15. ErasedInv'
    BY <1>12, <1>0, <1>1, <1>2, <1>3 DEF ErasedInv, WatchInv, RecordInv, CommandStates,
       Grown, Young, Mine, Becomes, States
  <1>16. KeptInv'
    BY <1>12, <1>0, <1>1, <1>2, <1>3 DEF KeptInv, WatchInv, RemovedInv, Grown, Young, Mine,
       Becomes, States
  <1>. QED
    BY <1>11, <1>13, <1>14, <1>15, <1>16

LEMMA UnlinkRecordKeeps == ASSUME IInv, NEW q \in Pids, UnlinkRecord(q) PROVE IInv'
  <1>. USE TypeParts DEF IInv
  <1>. DEFINE port == monitor[q].port
  <1>0. port \in Ports /\ monitor[q] \in Monitors
    BY DEF Monitors
  <1>1. UNCHANGED <<forward, lock, command, waiting, faults>> /\ record' = None
    BY DEF UnlinkRecord
  <1>2. monitor[q].pc = "unlink" /\ Becomes(q, "gone", port)
    BY MonitorPc DEF UnlinkRecord, Moves, Running
  <1>3. record # None /\ record.pid # q => record.port \in unclaimed'
    BY DEF UnlinkRecord, Mine
  <1>4. unclaimed \subseteq unclaimed' /\ unclaimed' \subseteq Ports
    BY DEF UnlinkRecord, States
  <1>5. \A c \in Commands : command[c].target # None
    BY DEF CommandStates
  <1>11. ForwardTypeOK' /\ LockInv' /\ WaitingInv' /\ RecordInv'
    BY <1>0, <1>1, <1>2, <1>3, <1>4, <1>5, MonitorFrame DEF Running, Young, States
  <1>12. \A p : Kept(p) => Kept(p)'
    BY <1>0, <1>1, <1>2, <1>3, <1>4, <1>5, KeptMoves
  <1>13. WatchInv'
    BY <1>0, <1>1, <1>2, <1>3, <1>4, <1>5 DEF WatchInv, RecordInv, Grown, Young, Mine,
       Becomes, States
  <1>14. RemovedInv'
    BY <1>12, <1>0, <1>1, <1>2, <1>3, <1>4, <1>5 DEF RemovedInv, WatchInv, RecordInv, Grown,
       Young, Mine, Becomes, States
  <1>15. ErasedInv'
    BY <1>12, <1>0, <1>1, <1>2, <1>3, <1>4, <1>5 DEF ErasedInv, WatchInv, RecordInv,
       CommandStates, Grown, Young, Mine, Becomes, States
  <1>16. KeptInv'
    BY <1>12, <1>0, <1>1, <1>2, <1>3, <1>4, <1>5 DEF KeptInv, WatchInv, RemovedInv, Grown,
       Young, Mine, Becomes, States, Kept
  <1>. QED
    BY <1>11, <1>13, <1>14, <1>15, <1>16

-----------------------------------------------------------------------------
(* The steps of a command. *)

\* What those that leave the monitors and the record alone keep.
LEMMA CommandFrame ==
  ASSUME IInv, NEW c \in Commands, NEW pc \in Stages, NEW target, Turns(c, pc, target),
         UNCHANGED <<record, monitor, waiting, faults>>,
         forward' \subseteq Ports, unclaimed' \subseteq Ports,
         lock' \in Commands \cup {None},
         \A d \in Commands : d # c /\ command[d].pc \notin {"idle", "lock"} => lock' = d,
         pc \notin {"idle", "lock"} => lock' = c,
         pc \in {"signal", "grace", "clean", "erase"} => Grown(target),
         pc \in {"clean", "erase"} => monitor[target.pid].pc \in {"gone", "other"},
         pc = "grace" => monitor[target.pid].pc # "other"
  PROVE  ForwardTypeOK' /\ LockInv' /\ RecordInv' /\ WaitingInv'
  <1>. USE TypeParts DEF IInv
  <1>1. ForwardTypeOK'
    BY TypeWhole DEF Turns
  <1>2. LockInv'
    BY DEF LockInv, Turns
  <1>3. WaitingInv'
    BY DEF WaitingInv, Turns
  <1>4. RecordInv'
    BY DEF RecordInv, Turns, Grown
  <1>. QED
    BY <1>1, <1>2, <1>3, <1>4

\* The rest, when the ports stay as they are and c is not about to erase.
LEMMA PortsFrame ==
  ASSUME IInv, NEW c \in Commands, NEW pc \in Stages \ {"erase"}, NEW target,
         Turns(c, pc, target), UNCHANGED <<forward, record, monitor, unclaimed>>
  PROVE  WatchInv' /\ RemovedInv' /\ ErasedInv' /\ KeptInv'
  <1>1. \A p : Kept(p) => Kept(p)'
    BY DEF Kept, Made
  <1>2. WatchInv'
    BY DEF IInv, WatchInv, Mine
  <1>3. RemovedInv'
    BY <1>1 DEF IInv, RemovedInv, Mine
  <1>4. ErasedInv'
    BY <1>1 DEF IInv, ErasedInv, Turns
  <1>5. KeptInv'
    BY <1>1 DEF IInv, KeptInv
  <1>. QED
    BY <1>2, <1>3, <1>4, <1>5

LEMMA CallKeeps == ASSUME IInv, NEW c \in Commands, 
                           NEW op \in {"ensure", "stop"}, NEW port \in Ports,
                           Call(c, op, port) PROVE IInv'
  <1>. USE TypeParts DEF IInv
  <1>0. command[c] \in CommandStates /\ command[c].target \in States
    BY DEF CommandStates
  <1>1. command[c].pc = "idle"
    BY DEF Call
  <1>4. UNCHANGED <<forward, record, lock, monitor, unclaimed, waiting, faults>>
    BY DEF Call
  <1>3. Turns(c, "lock", AState)
    BY CommandCalls
  <1>8. ForwardTypeOK' /\ LockInv' /\ RecordInv' /\ WaitingInv'
    BY <1>0, <1>1, <1>3, <1>4, CommandFrame DEF LockInv, RecordInv, Stages
  <1>9. WatchInv' /\ RemovedInv' /\ ErasedInv' /\ KeptInv'
    BY <1>0, <1>1, <1>3, <1>4, PortsFrame DEF Stages
  <1>. QED
    BY <1>8, <1>9

LEMMA AcquireKeeps == ASSUME IInv, NEW c \in Commands, Acquire(c) PROVE IInv'
  <1>. USE TypeParts DEF IInv
  <1>0. command[c] \in CommandStates /\ command[c].target \in States
    BY DEF CommandStates
  <1>1. command[c].pc = "lock" /\ lock = None
    BY DEF Acquire
  <1>2. UNCHANGED <<forward, record, monitor, unclaimed, waiting, faults>>
    BY DEF Acquire
  <1>3. CASE lock' = c /\ (To(c, "again") \/ To(c, "spawn"))
    <2>1. PICK pc \in {"again", "spawn"} : Turns(c, pc, command[c].target)
      BY <1>3, CommandTo DEF Stages
    <2>8. ForwardTypeOK' /\ LockInv' /\ RecordInv' /\ WaitingInv'
      BY <1>0, <1>1, <1>2, <1>3, <2>1, CommandFrame DEF LockInv, RecordInv, Stages
    <2>9. WatchInv' /\ RemovedInv' /\ ErasedInv' /\ KeptInv'
      BY <1>0, <1>1, <1>2, <1>3, <2>1, PortsFrame DEF Stages
    <2>. QED
      BY <2>8, <2>9
  <1>4. CASE /\ record # None /\ lock' = c
            /\ command' = [command EXCEPT ![c].pc = "signal", ![c].target = record]
    <2>1. Turns(c, "signal", record)
      BY <1>4, CommandTarget DEF Stages
    <2>8. ForwardTypeOK' /\ LockInv' /\ RecordInv' /\ WaitingInv'
      BY <1>0, <1>1, <1>2, <1>4, <2>1, CommandFrame DEF LockInv, RecordInv, Stages
    <2>9. WatchInv' /\ RemovedInv' /\ ErasedInv' /\ KeptInv'
      BY <1>0, <1>1, <1>2, <1>4, <2>1, PortsFrame DEF Stages
    <2>. QED
      BY <2>8, <2>9
  <1>5. CASE Ends(c)
    <2>1. Turns(c, "idle", AState) /\ lock' = None
      BY <1>5, CommandEnds
    <2>8. ForwardTypeOK' /\ LockInv' /\ RecordInv' /\ WaitingInv'
      BY <1>0, <1>1, <1>2, <2>1, CommandFrame DEF LockInv, RecordInv, Stages
    <2>9. WatchInv' /\ RemovedInv' /\ ErasedInv' /\ KeptInv'
      BY <1>0, <1>1, <1>2, <2>1, PortsFrame DEF Stages
    <2>. QED
      BY <2>8, <2>9
  <1>. QED
    BY <1>3, <1>4, <1>5 DEF Acquire

LEMMA ForwardAgainKeeps == ASSUME IInv, NEW c \in Commands, ForwardAgain(c) PROVE IInv'
  <1>. USE TypeParts DEF IInv
  <1>0. command[c] \in CommandStates /\ command[c].target \in States
    BY DEF CommandStates
  <1>1. command[c].pc = "again" /\ UNCHANGED <<record, monitor, waiting, faults>>
    BY DEF ForwardAgain
  <1>2. Turns(c, "idle", AState) /\ lock' = None
    BY CommandEnds DEF ForwardAgain
  <1>3. CASE UNCHANGED <<forward, unclaimed>>
    <2>8. ForwardTypeOK' /\ LockInv' /\ RecordInv' /\ WaitingInv'
      BY <1>0, <1>1, <1>2, <1>3, CommandFrame DEF LockInv, RecordInv, Stages
    <2>9. WatchInv' /\ RemovedInv' /\ ErasedInv' /\ KeptInv'
      BY <1>0, <1>1, <1>2, <1>3, PortsFrame DEF Stages
    <2>. QED
      BY <2>8, <2>9
  <1>4. CASE forward' # forward \/ unclaimed' # unclaimed
    <2>. DEFINE port == command[c].port
    <2>1. forward' = forward \cup {port} /\ port \in Ports
      BY <1>0, <1>4 DEF ForwardAgain, Forwards, CommandStates
    <2>2. unclaimed' = unclaimed \cup
            (IF /\ record # None /\ record.port = port
                /\ monitor[record.pid].pc \notin {"read", "unlink"} THEN {} ELSE {port})
      BY <1>4 DEF ForwardAgain
    <2>3. \A p : Kept(p) => Kept(p)'
      BY <1>1, <2>2 DEF Kept, Made
    <2>4. \A d \in Commands : d # c => command'[d].pc \in {"idle", "lock"}
      BY <1>1, <1>2 DEF LockInv, Turns
    <2>5. ForwardTypeOK' /\ LockInv' /\ RecordInv' /\ WaitingInv'
      BY <1>0, <1>1, <1>2, <2>1, <2>2, CommandFrame DEF LockInv, Stages
    <2>6. WatchInv'
      BY <1>1, <2>2 DEF WatchInv, Mine
    <2>7. RemovedInv'
      BY <1>1, <2>1, <2>2, <2>3 DEF RemovedInv, Mine, Kept
    <2>8. ErasedInv'
      BY <1>2, <2>4 DEF ErasedInv, Turns
    <2>9. KeptInv'
      BY <1>1, <2>1, <2>2, <2>3 DEF KeptInv, Kept
    <2>. QED
      BY <2>5, <2>6, <2>7, <2>8, <2>9
  <1>. QED
    BY <1>3, <1>4

\* The monitors change as well: Signal, KillGroup, Spawn, Await and Reap.
LEMMA BothFrame ==
  ASSUME IInv, NEW c \in Commands, NEW pc \in Stages \ {"erase"}, NEW target,
         Turns(c, pc, target),
         NEW q \in Pids, NEW to \in Running \cup {"gone", "other"}, NEW port \in Ports,
         Becomes(q, to, port),
         \/ to \in {monitor[q].pc, "gone"} /\ port = monitor[q].port
         \/ monitor[q].pc = "free" /\ to = "start",
         unclaimed \subseteq unclaimed' /\ unclaimed' \subseteq Ports,
         monitor[q].pc = "made" /\ to = "gone" => port \in unclaimed',
         UNCHANGED <<forward, record, waiting, faults>>,
         command[c].pc \notin {"idle", "lock"}, lock' \in {c, None},
         pc \notin {"idle", "lock"} => lock' = c,
         pc \in {"signal", "grace", "clean"} => target = command[c].target
           /\ command[c].pc \in {"signal", "grace", "clean", "erase"},
         pc = "clean" => monitor'[target.pid].pc \in {"gone", "other"},
         pc = "grace" => monitor'[target.pid].pc # "other"
  PROVE  IInv'
  <1>. USE TypeParts DEF IInv
  <1>0. \A d \in Commands : command[d].target \in States
    BY DEF CommandStates
  <1>1. \A d \in Commands : d # c => command'[d].pc \in {"idle", "lock"}
    BY DEF LockInv, Turns
  <1>2. ForwardTypeOK'
    BY TypeWhole DEF Turns, Becomes
  <1>3. LockInv'
    BY <1>1 DEF LockInv, Turns
  <1>4. WaitingInv'
    BY <1>1 DEF WaitingInv, Becomes, Turns
  <1>5. \A state \in States : Grown(state) => Grown(state)'
    BY DEF Grown, Becomes, Young, States
  <1>6. RecordInv'
    <2>1. record' # None => Grown(record)'
      BY <1>5 DEF RecordInv, Grown
    <2>2. pc \in {"signal", "grace", "clean"} => Grown(target)'
      BY <1>0, <1>5 DEF RecordInv
    <2>3. \A d \in Commands : command'[d].pc \in {"signal", "grace", "clean", "erase"} =>
            d = c /\ command'[d].pc = pc /\ command'[d].target = target
      BY <1>1 DEF Turns
    <2>. QED
      BY <2>1, <2>2, <2>3 DEF RecordInv, Grown
  <1>7. \A p : Kept(p) => Kept(p)'
    BY DEF Kept, Made, Becomes
  <1>8. WatchInv'
    BY DEF WatchInv, Mine, Becomes
  <1>9. RemovedInv'
    BY <1>7 DEF RemovedInv, Mine, Becomes
  <1>10. ErasedInv'
    BY <1>1 DEF ErasedInv, Turns
  <1>11. KeptInv'
    BY <1>7 DEF KeptInv
  <1>. QED
    BY <1>2, <1>3, <1>4, <1>6, <1>8, <1>9, <1>10, <1>11

LEMMA SignalKeeps == ASSUME IInv, NEW c \in Commands, Signal(c) PROVE IInv'
  <1>. USE TypeParts DEF IInv
  <1>0. command[c] \in CommandStates /\ command[c].target \in States
    BY DEF CommandStates
  <1>. DEFINE q == command[c].target.pid
  <1>q. q \in Pids /\ monitor[q] \in Monitors /\ monitor[q].port \in Ports
    BY <1>0 DEF States, Monitors
  <1>1. command[c].pc = "signal" /\ UNCHANGED <<forward, record, unclaimed, waiting, faults>>
    BY DEF Signal
  <1>2. CASE monitor[q].pc = "other" /\ Ends(c) /\ UNCHANGED monitor
    <2>1. Turns(c, "idle", AState) /\ lock' = None
      BY <1>2, CommandEnds
    <2>8. ForwardTypeOK' /\ LockInv' /\ RecordInv' /\ WaitingInv'
      BY <1>0, <1>1, <1>2, <2>1, CommandFrame DEF LockInv, RecordInv, Stages
    <2>9. WatchInv' /\ RemovedInv' /\ ErasedInv' /\ KeptInv'
      BY <1>0, <1>1, <1>2, <2>1, PortsFrame DEF Stages
    <2>. QED
      BY <2>8, <2>9
  <1>3. CASE /\ monitor[q].pc # "other" /\ To(c, "grace") /\ UNCHANGED lock
            /\ monitor' = Signalled(q)
    <2>1. Turns(c, "grace", command[c].target)
      BY <1>3, CommandTo DEF Stages
    <2>2. PICK to : to = monitor[q].pc /\ Becomes(q, to, monitor[q].port)
      <3>1. CASE monitor[q].pc \in Running
        BY <1>q, <1>3, <3>1, MonitorTerm DEF Signalled
      <3>2. CASE monitor[q].pc \notin Running
        BY <1>q, <1>3, <3>2 DEF Signalled, Becomes
      <3>. QED
        BY <3>1, <3>2
    <2>3. to \in Running \cup {"gone", "other"} /\ lock' = c
      BY <1>1, <1>3, <1>q, <2>2 DEF RecordInv, Grown, Young, LockInv, Monitors
    <2>4. monitor'[q].pc # "other"
      BY <1>3, <2>2 DEF Becomes
    <2>. QED
      BY <1>q, <1>1, <2>1, <2>2, <2>3, <2>4, BothFrame DEF Stages
  <1>. QED
    BY <1>2, <1>3 DEF Signal

LEMMA KillGroupKeeps == ASSUME IInv, NEW c \in Commands, KillGroup(c) PROVE IInv'
  <1>. USE TypeParts DEF IInv
  <1>0. command[c] \in CommandStates /\ command[c].target \in States
    BY DEF CommandStates
  <1>. DEFINE q == command[c].target.pid
  <1>q. q \in Pids /\ monitor[q] \in Monitors /\ monitor[q].port \in Ports
    BY <1>0 DEF States, Monitors
  <1>1. command[c].pc = "grace" /\ UNCHANGED <<forward, record, waiting, faults>>
    BY DEF KillGroup
  <1>2. CASE monitor[q].pc = "other" /\ Ends(c) /\ UNCHANGED <<monitor, unclaimed>>
    <2>1. Turns(c, "idle", AState) /\ lock' = None
      BY <1>2, CommandEnds
    <2>8. ForwardTypeOK' /\ LockInv' /\ RecordInv' /\ WaitingInv'
      BY <1>0, <1>1, <1>2, <2>1, CommandFrame DEF LockInv, RecordInv, Stages
    <2>9. WatchInv' /\ RemovedInv' /\ ErasedInv' /\ KeptInv'
      BY <1>0, <1>1, <1>2, <2>1, PortsFrame DEF Stages
    <2>. QED
      BY <2>8, <2>9
  <1>3. CASE /\ monitor' = Killed(q) /\ To(c, "clean") /\ UNCHANGED lock
            /\ unclaimed' = unclaimed \cup Cut(q)
    <2>1. Turns(c, "clean", command[c].target)
      BY <1>3, CommandTo DEF Stages
    <2>2. Becomes(q, "gone", monitor[q].port)
      BY <1>q, <1>3, MonitorPcTerm DEF Killed
    <2>3. lock' = c
      BY <1>1, <1>3 DEF LockInv
    <2>4. monitor'[q].pc = "gone"
      BY <2>2 DEF Becomes
    <2>. QED
      BY <1>q, <1>1, <1>3, <2>1, <2>2, <2>3, <2>4, BothFrame DEF Stages, Cut
  <1>. QED
    BY <1>2, <1>3 DEF KillGroup

LEMMA SpawnKeeps == ASSUME IInv, NEW c \in Commands, Spawn(c) PROVE IInv'
  <1>. USE TypeParts DEF IInv
  <1>0. command[c] \in CommandStates /\ command[c].target \in States
    BY DEF CommandStates
  <1>1. command[c].pc = "spawn"
        /\ UNCHANGED <<forward, record, lock, unclaimed, waiting, faults>>
    BY DEF Spawn
  <1>. DEFINE port == command[c].port
  <1>2. port \in Ports
    BY <1>0 DEF CommandStates
  <1>3. PICK q \in Pids :
          /\ monitor[q].pc = "free"
          /\ monitor' = [monitor EXCEPT ![q].pc = "start", ![q].port = port]
          /\ command' = [command EXCEPT ![c].pc = "await",
                           ![c].target = [pid |-> q, port |-> port]]
    BY DEF Spawn
  <1>4. Turns(c, "await", [pid |-> q, port |-> port])
    BY <1>2, <1>3, CommandTarget DEF Stages, States
  <1>5. Becomes(q, "start", port)
    BY <1>2, <1>3, MonitorStarts
  <1>6. lock' = c
    BY <1>1 DEF LockInv
  <1>. QED
    BY <1>1, <1>2, <1>3, <1>4, <1>5, <1>6, BothFrame DEF Stages, Running

LEMMA AwaitKeeps == ASSUME IInv, NEW c \in Commands, Await(c) PROVE IInv'
  <1>. USE TypeParts DEF IInv
  <1>0. command[c] \in CommandStates /\ command[c].target \in States
    BY DEF CommandStates
  <1>. DEFINE q == command[c].target.pid
  <1>q. q \in Pids /\ monitor[q] \in Monitors /\ monitor[q].port \in Ports
    BY <1>0 DEF States, Monitors
  <1>1. command[c].pc = "await" /\ UNCHANGED <<forward, record, unclaimed, waiting, faults>>
    BY DEF Await
  <1>2. CASE Ends(c) /\ UNCHANGED monitor
    <2>1. Turns(c, "idle", AState) /\ lock' = None
      BY <1>2, CommandEnds
    <2>8. ForwardTypeOK' /\ LockInv' /\ RecordInv' /\ WaitingInv'
      BY <1>0, <1>1, <1>2, <2>1, CommandFrame DEF LockInv, RecordInv, Stages
    <2>9. WatchInv' /\ RemovedInv' /\ ErasedInv' /\ KeptInv'
      BY <1>0, <1>1, <1>2, <2>1, PortsFrame DEF Stages
    <2>. QED
      BY <2>8, <2>9
  <1>3. CASE /\ monitor[q].pc \in Running /\ To(c, "reap") /\ UNCHANGED lock
            /\ monitor' = [monitor EXCEPT ![q].term = TRUE]
    <2>1. Turns(c, "reap", command[c].target)
      BY <1>3, CommandTo DEF Stages
    <2>2. PICK to : to = monitor[q].pc /\ Becomes(q, to, monitor[q].port)
      BY <1>q, <1>3, MonitorTerm
    <2>3. lock' = c
      BY <1>1, <1>3 DEF LockInv
    <2>4. to \in Running
      BY <1>3, <2>2
    <2>. QED
      BY <1>q, <1>1, <2>1, <2>2, <2>3, <2>4, BothFrame DEF Stages
  <1>. QED
    BY <1>2, <1>3 DEF Await

LEMMA ReapKeeps == ASSUME IInv, NEW c \in Commands, Reap(c) PROVE IInv'
  <1>. USE TypeParts DEF IInv
  <1>0. command[c] \in CommandStates /\ command[c].target \in States
    BY DEF CommandStates
  <1>. DEFINE q == command[c].target.pid
  <1>q. q \in Pids /\ monitor[q] \in Monitors /\ monitor[q].port \in Ports
    BY <1>0 DEF States, Monitors
  <1>1. command[c].pc = "reap" /\ UNCHANGED <<forward, record, waiting, faults>>
    BY DEF Reap
  <1>2. Turns(c, "idle", AState) /\ lock' = None
    BY CommandEnds DEF Reap
  <1>3. CASE UNCHANGED <<monitor, unclaimed>>
    <2>8. ForwardTypeOK' /\ LockInv' /\ RecordInv' /\ WaitingInv'
      BY <1>0, <1>1, <1>2, <1>3, CommandFrame DEF LockInv, RecordInv, Stages
    <2>9. WatchInv' /\ RemovedInv' /\ ErasedInv' /\ KeptInv'
      BY <1>0, <1>1, <1>2, <1>3, PortsFrame DEF Stages
    <2>. QED
      BY <2>8, <2>9
  <1>4. CASE /\ monitor[q].pc \in Running /\ monitor' = Killed(q)
            /\ unclaimed' = unclaimed \cup Cut(q)
    <2>1. Becomes(q, "gone", monitor[q].port)
      BY <1>q, <1>4, MonitorPcTerm DEF Killed
    <2>. QED
      BY <1>q, <1>1, <1>2, <1>4, <2>1, BothFrame DEF Stages, Cut
  <1>. QED
    BY <1>3, <1>4 DEF Reap

LEMMA CleanForwardKeeps == ASSUME IInv, NEW c \in Commands, CleanForward(c) PROVE IInv'
  <1>. USE TypeParts DEF IInv
  <1>0. command[c] \in CommandStates /\ command[c].target \in States
    BY DEF CommandStates
  <1>. DEFINE q == command[c].target.pid
  <1>q. q \in Pids /\ monitor[q] \in Monitors /\ monitor[q].port \in Ports
    BY <1>0 DEF States, Monitors
  <1>. DEFINE target == command[c].target
  <1>1. command[c].pc = "clean" /\ UNCHANGED <<monitor, unclaimed, waiting, faults>>
    BY DEF CleanForward
  <1>2. lock = c /\ Grown(target) /\ monitor[q].pc \in {"gone", "other"}
    BY <1>1 DEF LockInv, RecordInv
  <1>3. \A d \in Commands : d # c => command[d].pc \in {"idle", "lock"}
    BY <1>2 DEF LockInv
  <1>4. \A p : Kept(p) => Kept(p)'
    BY <1>1 DEF Kept, Made
  <1>5. CASE To(c, "erase") /\ UNCHANGED <<record, lock>>
    <2>1. Turns(c, "erase", target)
      BY <1>5, CommandTo DEF Stages
    <2>2. forward' \subseteq forward /\ (record = target => target.port \notin forward')
      BY <1>2, <1>5 DEF CleanForward, Ends
    <2>3. ForwardTypeOK' /\ LockInv' /\ RecordInv' /\ WaitingInv'
      BY <1>0, <1>1, <1>2, <1>3, <1>5, <2>1, <2>2, CommandFrame DEF Stages
    <2>4. WatchInv'
      BY <1>1, <1>5 DEF WatchInv, Mine
    <2>5. RemovedInv'
      BY <1>1, <1>4, <1>5, <2>2 DEF RemovedInv, Mine
    <2>6. ErasedInv'
      BY <1>3, <1>5, <2>1, <2>2 DEF ErasedInv, Turns
    <2>7. KeptInv'
      BY <1>4, <1>5, <2>2 DEF KeptInv
    <2>. QED
      BY <2>3, <2>4, <2>5, <2>6, <2>7
  <1>6. CASE /\ record \in {None, target} /\ MaybeRemoves(target.port)
            /\ record' = target /\ Ends(c)
    <2>1. Turns(c, "idle", AState) /\ lock' = None
      BY <1>6, CommandEnds
    <2>2. forward' \subseteq forward
      BY <1>6 DEF MaybeRemoves
    <2>3. \A d \in Commands : command'[d].pc \in {"idle", "lock"}
      BY <1>3, <2>1 DEF Turns
    <2>4. ForwardTypeOK'
      BY <1>0, <1>1, <1>6, <2>1, <2>2, TypeWhole DEF Turns
    <2>5. LockInv' /\ WaitingInv' /\ ErasedInv'
      BY <2>3 DEF LockInv, WaitingInv, ErasedInv
    <2>6. RecordInv'
      BY <1>1, <1>2, <1>6, <2>3 DEF RecordInv, Grown
    <2>7. WatchInv'
      BY <1>1, <1>2, <1>6 DEF WatchInv, Mine
    <2>8. RemovedInv'
      BY <1>1, <1>2, <1>6 DEF RemovedInv, Mine
    <2>9. KeptInv'
      BY <1>0, <1>4, <1>6, <2>2 DEF KeptInv
    <2>. QED
      BY <2>4, <2>5, <2>6, <2>7, <2>8, <2>9
  <1>. QED
    BY <1>5, <1>6 DEF CleanForward

LEMMA EraseRecordKeeps == ASSUME IInv, NEW c \in Commands, EraseRecord(c) PROVE IInv'
  <1>. USE TypeParts DEF IInv
  <1>0. command[c] \in CommandStates /\ command[c].target \in States
    BY DEF CommandStates
  <1>. DEFINE q == command[c].target.pid
  <1>q. q \in Pids /\ monitor[q] \in Monitors /\ monitor[q].port \in Ports
    BY <1>0 DEF States, Monitors
  <1>. DEFINE target == command[c].target
  <1>1. command[c].pc = "erase" /\ UNCHANGED <<forward, monitor, unclaimed, waiting, faults>>
    BY DEF EraseRecord
  <1>2. record' = IF record = target THEN None ELSE record
    BY DEF EraseRecord
  <1>3. lock = c /\ monitor[q].pc \in {"gone", "other"}
    BY <1>1 DEF LockInv, RecordInv
  <1>4. PICK pc \in {"spawn", "idle"}, state \in States :
          Turns(c, pc, state) /\ lock' = IF pc = "spawn" THEN c ELSE None
    BY <1>3, CommandTo, CommandEnds, SomeState, <1>0 DEF EraseRecord, Stages
  <1>5. \A d \in Commands :
          command'[d].pc \in {"idle", "lock"} \/ (d = c /\ command'[d].pc = pc)
    BY <1>3, <1>4 DEF LockInv, Turns
  <1>6. \A p : Kept(p) => Kept(p)'
    BY <1>1 DEF Kept, Made
  <1>7. ForwardTypeOK'
    BY <1>1, <1>2, <1>4, TypeWhole DEF Turns
  <1>8. LockInv' /\ WaitingInv' /\ ErasedInv'
    BY <1>4, <1>5 DEF LockInv, WaitingInv, ErasedInv
  <1>9. RecordInv'
    BY <1>1, <1>2, <1>5 DEF RecordInv, Grown
  <1>10. WatchInv'
    BY <1>1, <1>2, <1>3 DEF WatchInv, Mine
  <1>11. RemovedInv'
    BY <1>1, <1>2, <1>6 DEF RemovedInv, Mine
  <1>12. KeptInv'
    BY <1>1, <1>2, <1>6 DEF KeptInv, ErasedInv
  <1>. QED
    BY <1>7, <1>8, <1>9, <1>10, <1>11, <1>12

-----------------------------------------------------------------------------
(* The environment, and the theorems. *)

LEMMA LoseForwardKeeps == ASSUME IInv, NEW port \in Ports, LoseForward(port) PROVE IInv'
  <1>1. /\ forward' \subseteq forward
        /\ UNCHANGED <<record, lock, monitor, command, unclaimed, waiting, faults>>
    BY DEF LoseForward
  <1>2. \A p : Kept(p) => Kept(p)'
    BY <1>1 DEF Kept, Made
  <1>3. ForwardTypeOK'
    BY <1>1 DEF IInv, ForwardTypeOK
  <1>4. LockInv' /\ WaitingInv' /\ WatchInv' /\ RecordInv'
    BY <1>1 DEF IInv, LockInv, WaitingInv, WatchInv, RecordInv, Mine, Grown
  <1>5. RemovedInv' /\ ErasedInv' /\ KeptInv'
    BY <1>1, <1>2 DEF IInv, RemovedInv, ErasedInv, KeptInv, Mine
  <1>. QED
    BY <1>3, <1>4, <1>5 DEF IInv

LEMMA FaultType == IInv /\ Fault => faults' \in 0..MaxFaults
  BY TypeParts DEF IInv, Fault, ForwardAssumption

LEMMA KillMonitorKeeps == ASSUME IInv, NEW q \in Pids, KillMonitor(q) PROVE IInv'
  <1>. USE TypeParts DEF IInv
  <1>. DEFINE port == monitor[q].port
  <1>0. port \in Ports /\ monitor[q] \in Monitors
    BY DEF Monitors
  <1>1. /\ UNCHANGED <<forward, record, lock, command, waiting>>
        /\ monitor[q].pc \in Running /\ faults' \in 0..MaxFaults
    BY FaultType DEF KillMonitor
  <1>2. Becomes(q, "gone", port)
    BY MonitorPcTerm DEF KillMonitor, Killed
  <1>3. /\ unclaimed \subseteq unclaimed' /\ unclaimed' \subseteq Ports
        /\ monitor[q].pc = "made" => port \in unclaimed'
    BY <1>0 DEF KillMonitor, Cut
  <1>4. ForwardTypeOK' /\ LockInv' /\ WaitingInv' /\ RecordInv'
    BY <1>0, <1>1, <1>2, <1>3, MonitorFrame DEF Running, Young
  <1>5. \A p : Kept(p) => Kept(p)'
    BY <1>0, <1>1, <1>2, <1>3, KeptMoves
  <1>6. WatchInv'
    BY <1>1, <1>2, <1>3 DEF WatchInv, Mine, Becomes
  <1>7. RemovedInv'
    BY <1>1, <1>2, <1>5 DEF RemovedInv, Mine, Becomes
  <1>8. ErasedInv'
    BY <1>1, <1>5 DEF ErasedInv
  <1>9. KeptInv'
    BY <1>1, <1>5 DEF KeptInv
  <1>. QED
    BY <1>4, <1>6, <1>7, <1>8, <1>9

LEMMA KillCommandKeeps == ASSUME IInv, NEW c \in Commands, KillCommand(c) PROVE IInv'
  <1>. USE TypeParts DEF IInv
  <1>1. /\ UNCHANGED <<forward, record, monitor, unclaimed, waiting>>
        /\ faults' \in 0..MaxFaults /\ lock' = IF lock = c THEN None ELSE lock
    BY FaultType DEF KillCommand
  <1>2. Turns(c, "idle", AState)
    BY SomeState DEF KillCommand, Turns, Outside
  <1>3. ForwardTypeOK'
    BY <1>1, <1>2, TypeWhole DEF Turns
  <1>4. LockInv' /\ WaitingInv'
    BY <1>1, <1>2 DEF LockInv, WaitingInv, Turns
  <1>5. RecordInv'
    BY <1>1, <1>2 DEF RecordInv, Turns, Grown
  <1>6. WatchInv' /\ RemovedInv' /\ ErasedInv' /\ KeptInv'
    BY <1>1, <1>2, PortsFrame DEF Stages
  <1>. QED
    BY <1>3, <1>4, <1>5, <1>6

LEMMA TakePidKeeps == ASSUME IInv, NEW q \in Pids, TakePid(q) PROVE IInv'
  <1>. USE TypeParts DEF IInv
  <1>1. /\ UNCHANGED <<forward, record, lock, command, unclaimed>>
        /\ monitor[q].pc = "gone" /\ faults' \in 0..MaxFaults
    BY FaultType DEF TakePid
  <1>2. Becomes(q, "other", monitor[q].port)
    BY MonitorPc DEF TakePid
  <1>3. \A state \in States : Grown(state) => Grown(state)'
    BY <1>1, <1>2 DEF Grown, Becomes, Young, States
  <1>4. \A c \in Commands : command[c].target \in States
    BY DEF CommandStates
  <1>5. \A p : Kept(p) => Kept(p)'
    BY <1>1, <1>2, KeptMoves
  <1>6. waiting' \in [Pids -> SUBSET Commands]
    BY DEF TakePid
  <1>7. ForwardTypeOK'
    BY <1>1, <1>2, <1>6, TypeWhole DEF Becomes
  <1>8. LockInv'
    BY <1>1 DEF LockInv
  <1>9. WaitingInv'
    <2>1. \A c \in Commands :
            command[c].pc = "grace" /\ command[c].target.pid = q => c \in waiting'[q]
      BY DEF TakePid
    <2>2. \A r \in Pids : r # q => waiting'[r] = waiting[r]
      BY DEF TakePid
    <2>. QED
      BY <1>1, <1>2, <2>1, <2>2 DEF WaitingInv, Becomes
  <1>10. RecordInv'
    <2>1. record' # None => Grown(record)'
      BY <1>1, <1>3 DEF RecordInv, Grown
    <2>2. \A c \in Commands : command'[c].pc \in {"signal", "grace", "clean", "erase"} =>
            Grown(command[c].target)'
      BY <1>1, <1>3, <1>4 DEF RecordInv
    <2>3. \A c \in Commands : command'[c].pc \in {"clean", "erase"} =>
            monitor'[command[c].target.pid].pc \in {"gone", "other"}
      BY <1>1, <1>2, <1>4 DEF RecordInv, Becomes, States
    <2>. QED
      BY <1>1, <2>1, <2>2, <2>3 DEF RecordInv, Grown
  <1>11. WatchInv'
    BY <1>1, <1>2 DEF WatchInv, Mine, Becomes
  <1>12. RemovedInv'
    BY <1>1, <1>2, <1>5 DEF RemovedInv, Mine, Becomes
  <1>13. ErasedInv' /\ KeptInv'
    BY <1>1, <1>5 DEF ErasedInv, KeptInv
  <1>. QED
    BY <1>7, <1>8, <1>9, <1>10, <1>11, <1>12, <1>13

LEMMA NextKeeps == IInv /\ [ForwardNext]_forwardVars => IInv'
  <1>. SUFFICES ASSUME IInv, [ForwardNext]_forwardVars PROVE IInv'
    OBVIOUS
  <1>1. ASSUME NEW q \in Pids, Monitor(q) PROVE IInv'
    BY <1>1, FirstForwardKeeps, WriteRecordKeeps, RestoreKeeps, SeeTermKeeps, RemoveOwnKeeps,
       CompareRecordKeeps, UnlinkRecordKeeps, Zenon DEF Monitor
  <1>2. ASSUME NEW c \in Commands, Command(c) PROVE IInv'
    BY <1>2, AcquireKeeps, ForwardAgainKeeps, SignalKeeps, KillGroupKeeps, CleanForwardKeeps,
       EraseRecordKeeps, SpawnKeeps, AwaitKeeps, ReapKeeps, Zenon DEF Command
  <1>3. ASSUME NEW c \in Commands, Call(c, "stop", APort) PROVE IInv'
    BY <1>3, SomeState, CallKeeps
  <1>4. ASSUME NEW c \in Commands, NEW port \in Ports, Call(c, "ensure", port) PROVE IInv'
    BY <1>4, CallKeeps
  <1>5. CASE UNCHANGED forwardVars
    <2>1. UNCHANGED <<forward, record, lock, monitor, command, unclaimed, waiting, faults>>
      BY <1>5 DEF forwardVars
    <2>2. \A p : Kept(p) => Kept(p)'
      BY <2>1 DEF Kept, Made
    <2>3. ForwardTypeOK'
      BY <2>1 DEF IInv, ForwardTypeOK
    <2>4. LockInv' /\ WaitingInv' /\ WatchInv' /\ RecordInv'
      BY <2>1 DEF IInv, LockInv, WaitingInv, WatchInv, RecordInv, Mine, Grown
    <2>5. RemovedInv' /\ ErasedInv' /\ KeptInv'
      BY <2>1, <2>2 DEF IInv, RemovedInv, ErasedInv, KeptInv, Mine
    <2>. QED
      BY <2>3, <2>4, <2>5 DEF IInv
  <1>. QED
    BY <1>1, <1>2, <1>3, <1>4, <1>5, KillMonitorKeeps, TakePidKeeps, KillCommandKeeps,
       LoseForwardKeeps, Zenon DEF ForwardNext

LEMMA Invariant == ForwardSpec => []IInv
  BY InitIInv, NextKeeps, PTL DEF ForwardSpec

\* The types, for any commands, pids and ports.
THEOREM TypeCorrect == ForwardSpec => []ForwardTypeOK
  <1>1. IInv => ForwardTypeOK
    BY DEF IInv
  <1>. QED
    BY <1>1, Invariant, PTL

\* watch_forward and _stop never forget a forward that ADB keeps, whatever is killed.
THEOREM Keeps == ForwardSpec => []ForwardKept
  <1>1. IInv => ForwardKept
    BY DEF IInv, KeptInv, ForwardKept, Kept, Made, Running
  <1>. QED
    BY <1>1, Invariant, PTL

\* stop kills the new owner of a pid only from a wait that had begun before.
THEOREM Spares == ForwardSpec => StrangersSafe
  <1>. DEFINE Spared ==
         \A q \in Pids : monitor[q].pc = "other" /\ monitor'[q].pc # "other" =>
           \E c \in waiting[q] : command[c].pc = "grace" /\ command'[c].pc = "clean"
  <1>1. IInv /\ [ForwardNext]_forwardVars => [Spared]_forwardVars
    <2>. SUFFICES ASSUME IInv, ForwardNext, NEW q \in Pids,
                         monitor[q].pc = "other", monitor'[q].pc # "other"
                  PROVE  \E c \in waiting[q] :
                           command[c].pc = "grace" /\ command'[c].pc = "clean"
      OBVIOUS
    <2>. USE TypeParts DEF IInv
    <2>0. "other" \notin Running
      BY DEF Running
    <2>1. ASSUME NEW r \in Pids, Monitor(r) \/ KillMonitor(r) \/ TakePid(r) PROVE FALSE
      <3>1. /\ monitor[r].pc \in Running \cup {"gone"}
            /\ \A p \in Pids : p # r => monitor'[p] = monitor[p]
        <4>1. Monitor(r) => /\ monitor[r].pc \in Running
                            /\ \A p \in Pids : p # r => monitor'[p] = monitor[p]
          BY DEF Monitor, FirstForward, WriteRecord, Restore, SeeTerm, RemoveOwn,
             CompareRecord, UnlinkRecord, Moves, Running
        <4>2. KillMonitor(r) \/ TakePid(r) =>
                /\ monitor[r].pc \in Running \cup {"gone"}
                /\ \A p \in Pids : p # r => monitor'[p] = monitor[p]
          BY DEF KillMonitor, TakePid, Killed
        <4>. QED
          BY <2>1, <4>1, <4>2
      <3>. QED
        BY <2>0, <3>1
    <2>2. ASSUME NEW c \in Commands, Command(c)
          PROVE  /\ command[c].pc = "grace" /\ command'[c].pc = "clean"
                 /\ command[c].target.pid = q
      <3>1. ~Signal(c)
        BY <2>0 DEF Signal, Signalled
      <3>2. ~Spawn(c)
        BY DEF Spawn
      <3>3. ~(Await(c) \/ Reap(c))
        BY <2>0 DEF Await, Reap, Killed
      <3>4. ~(Acquire(c) \/ ForwardAgain(c) \/ CleanForward(c) \/ EraseRecord(c))
        BY DEF Acquire, ForwardAgain, CleanForward, EraseRecord
      <3>5. KillGroup(c)
        BY <2>2, <3>1, <3>2, <3>3, <3>4 DEF Command
      <3>6. monitor' = Killed(command[c].target.pid) /\ To(c, "clean")
        BY <3>5 DEF KillGroup
      <3>7. command'[c].pc = "clean"
        BY <3>6, CommandTo DEF Turns, Stages
      <3>. QED
        BY <3>5, <3>6, <3>7 DEF KillGroup, Killed
    <2>3. ASSUME NEW c \in Commands,
                 \/ KillCommand(c)
                 \/ \E op \in {"ensure", "stop"}, port \in Ports : Call(c, op, port)
          PROVE  FALSE
      BY <2>3 DEF KillCommand, Call
    <2>4. ASSUME NEW port \in Ports, LoseForward(port) PROVE FALSE
      BY <2>4 DEF LoseForward
    <2>5. PICK c \in Commands : Command(c)
      BY <2>1, <2>3, <2>4, SomeState DEF ForwardNext
    <2>. QED
      BY <2>2, <2>5 DEF WaitingInv
  <1>. QED
    BY <1>1, Invariant, PTL DEF ForwardSpec, StrangersSafe
=============================================================================
