----------------------------- MODULE AdbForward -----------------------------
(***************************************************************************)
(* The ADB port forward of the own mobile proxy: ensure_forward and        *)
(* stop_forward (mobile_proxy/tinyproxy_forward.py), which hold a file     *)
(* lock, the monitor process watch_forward, which does not, and the end of *)
(* a background process (stop, mobile_proxy/background_process.py).        *)
(*                                                                         *)
(* forward is the set of local ports the ADB server forwards, record the   *)
(* state file.  A monitor is its pid:                                      *)
(*   free    not used yet                                                  *)
(*   start   before the first _forward has answered                        *)
(*   made    _forward has answered, created is not set                     *)
(*   watch   the loop of watch_forward, the state file is written          *)
(*   remove  in finally, _remove_forward                                   *)
(*   read    in finally, before the comparison with the state file         *)
(*   unlink  in finally, the state file was found to be its own            *)
(*   gone    ended                                                         *)
(*   other   the pid belongs to another program by now                     *)
(* term says that a SIGTERM waits to be seen.  A command (a start, a       *)
(* change of IP, a stop) goes through                                      *)
(*   idle, lock      outside, waiting for the file lock                    *)
(*   again           _forward for the monitor that runs already            *)
(*   signal, grace   _stop_process: the check and SIGTERM, then the wait   *)
(*   clean, erase    _stop: the forward and the state file of target       *)
(*   spawn, await    Popen and the wait for its state file                 *)
(*   reap            the child did not come up in time and was signalled   *)
(*                                                                         *)
(* Two histories serve the properties.  unclaimed holds the ports whose    *)
(* start was cut between the forward and the record of it, whose record    *)
(* another monitor wrote over, or which ensure_forward forwarded again for *)
(* a monitor that had just removed its record; waiting says who was        *)
(* already waiting for the end of a pid when another program took it.      *)
(***************************************************************************)
EXTENDS Integers

CONSTANTS Commands, Pids, Ports,
          None,       \* no state file, nobody at the lock
          MaxFaults   \* bound: processes killed from outside, pids taken over

ASSUME ForwardAssumption ==
  /\ Pids # {} /\ Ports # {}
  /\ None \notin Commands \cup [pid : Pids, port : Ports]
  /\ MaxFaults \in Nat

VARIABLES forward, record, lock, monitor, command, unclaimed, waiting, faults

forwardVars == <<forward, record, lock, monitor, command, unclaimed, waiting, faults>>

States == [pid : Pids, port : Ports]
Running == {"start", "made", "watch", "remove", "read", "unlink"}
Stages == {"idle", "lock", "again", "signal", "grace", "clean", "erase", "spawn",
           "await", "reap"}

ForwardTypeOK ==
  /\ forward \subseteq Ports
  /\ record \in States \cup {None}
  /\ lock \in Commands \cup {None}
  /\ monitor \in [Pids -> [pc : Running \cup {"free", "gone", "other"},
                           port : Ports, term : BOOLEAN]]
  /\ command \in [Commands -> [pc : Stages, op : {"ensure", "stop"},
                               port : Ports, target : States]]
  /\ unclaimed \subseteq Ports
  /\ waiting \in [Pids -> SUBSET Commands]
  /\ faults \in 0..MaxFaults

\* What a field holds before its first use.
APort == CHOOSE port \in Ports : TRUE
AState == CHOOSE state \in States : TRUE
Outside == [pc |-> "idle", op |-> "stop", port |-> APort, target |-> AState]

ForwardInit ==
  /\ forward = {}
  /\ record = None
  /\ lock = None
  /\ monitor = [q \in Pids |-> [pc |-> "free", port |-> APort, term |-> FALSE]]
  /\ command = [c \in Commands |-> Outside]
  /\ unclaimed = {}
  /\ waiting = [q \in Pids |-> {}]
  /\ faults = 0

\* alive: some process has the pid.
Alive(q) == monitor[q].pc \in Running \cup {"other"}
Mine(q) == record # None /\ record.pid = q

Forwards(port) == forward' = forward \cup {port}
\* run_adb: a timeout or an error, after which it may have been done all the same.
MaybeForwards(port) == forward' = forward \/ Forwards(port)
\* _remove_forward, when neither the answer nor the list confirms it.
MaybeRemoves(port) == forward' \in {forward, forward \ {port}}

---------------------------------------------------------------------------
(* watch_forward. *)

Moves(q, from, to) ==
  /\ monitor[q].pc = from
  /\ monitor' = [monitor EXCEPT ![q].pc = to]

\* The first _forward answers or raises.
FirstForward(q) ==
  /\ ~monitor[q].term
  /\ \/ Moves(q, "start", "made") /\ Forwards(monitor[q].port) /\ UNCHANGED unclaimed
     \/ /\ Moves(q, "start", "read") /\ MaybeForwards(monitor[q].port)
        /\ unclaimed' = unclaimed \cup (forward' \ forward)
  /\ UNCHANGED <<record, lock, command, waiting, faults>>

\* created = True and the state file takes its place.
WriteRecord(q) ==
  /\ ~monitor[q].term
  /\ Moves(q, "made", "watch")
  /\ record' = [pid |-> q, port |-> monitor[q].port]
  /\ unclaimed' = unclaimed \cup
       (IF record = None \/ record = record' THEN {} ELSE {record.port})
  /\ UNCHANGED <<forward, lock, command, waiting, faults>>

\* One turn of the loop that restores the forward.
Restore(q) ==
  /\ monitor[q].pc = "watch" /\ ~monitor[q].term
  /\ Forwards(monitor[q].port)
  /\ UNCHANGED <<record, lock, monitor, command, unclaimed, waiting, faults>>

\* terminate raises SystemExit where the monitor is.  finally removes the
\* forward only when created is set; in finally it cuts the cleaning short.
SeeTerm(q) ==
  /\ monitor[q].term /\ monitor[q].pc \in Running
  /\ monitor' = [monitor EXCEPT ![q].term = FALSE,
       ![q].pc = CASE @ \in {"start", "made"} -> "read"
                   [] @ = "watch" -> "remove"
                   [] OTHER -> "gone"]
  /\ \/ monitor[q].pc # "start" /\ UNCHANGED forward
     \/ monitor[q].pc = "start" /\ MaybeForwards(monitor[q].port)
  /\ unclaimed' = unclaimed \cup
       (IF monitor[q].pc \in {"start", "made"} THEN {monitor[q].port} ELSE {})
  /\ UNCHANGED <<record, lock, command, waiting, faults>>

\* Mutant: an error of ADB is caught and the cleaning goes on.
RemoveOwnAnyway(q) ==
  /\ ~monitor[q].term
  /\ Moves(q, "remove", "read")
  /\ MaybeRemoves(monitor[q].port)
  /\ UNCHANGED <<record, lock, command, unclaimed, waiting, faults>>

\* _remove_forward: an error leaves finally before the state file is touched.
RemoveOwn(q) ==
  /\ ~monitor[q].term
  /\ \/ /\ Moves(q, "remove", "read")
        /\ forward' = forward \ {monitor[q].port}
     \/ Moves(q, "remove", "gone") /\ MaybeRemoves(monitor[q].port)
  /\ UNCHANGED <<record, lock, command, unclaimed, waiting, faults>>

CompareRecord(q) ==
  /\ ~monitor[q].term
  /\ Moves(q, "read", IF Mine(q) THEN "unlink" ELSE "gone")
  /\ UNCHANGED <<forward, record, lock, command, unclaimed, waiting, faults>>

\* STATE.unlink takes whatever file is there by then.
UnlinkRecord(q) ==
  /\ ~monitor[q].term
  /\ Moves(q, "unlink", "gone")
  /\ record' = None
  /\ unclaimed' = unclaimed \cup (IF record = None \/ Mine(q) THEN {} ELSE {record.port})
  /\ UNCHANGED <<forward, lock, command, waiting, faults>>

Monitor(q) ==
  \/ FirstForward(q) \/ WriteRecord(q) \/ Restore(q) \/ SeeTerm(q)
  \/ RemoveOwn(q) \/ CompareRecord(q) \/ UnlinkRecord(q)

---------------------------------------------------------------------------
(* ensure_forward and stop_forward. *)

To(c, pc) == command' = [command EXCEPT ![c].pc = pc]
\* A return or an exception leaves the with block and gives the lock back.
Ends(c) == command' = [command EXCEPT ![c] = Outside] /\ lock' = None

Call(c, op, port) ==
  /\ command[c].pc = "idle"
  /\ command' = [command EXCEPT ![c] =
                   [pc |-> "lock", op |-> op, port |-> port, target |-> AState]]
  /\ UNCHANGED <<forward, record, lock, monitor, unclaimed, waiting, faults>>

\* The lock, and what the state file tells to do.
Acquire(c) ==
  LET here == command[c] IN
  /\ here.pc = "lock" /\ lock = None
  /\ \/ /\ record # None /\ here.op = "ensure"
        /\ Alive(record.pid) /\ record.port = here.port
        /\ lock' = c /\ To(c, "again")
     \/ /\ record # None
        /\ ~(here.op = "ensure" /\ Alive(record.pid) /\ record.port = here.port)
        /\ lock' = c
        /\ command' = [command EXCEPT ![c].pc = "signal", ![c].target = record]
     \/ record = None /\ here.op = "ensure" /\ lock' = c /\ To(c, "spawn")
     \/ record = None /\ here.op = "stop" /\ Ends(c)
  /\ UNCHANGED <<forward, record, monitor, unclaimed, waiting, faults>>

\* The monitor found alive under the lock may have ended without it.
ForwardAgain(c) ==
  /\ command[c].pc = "again"
  /\ \/ /\ Forwards(command[c].port) /\ Ends(c)
        /\ unclaimed' = unclaimed \cup
             (IF /\ record # None /\ record.port = command[c].port
                 /\ monitor[record.pid].pc \notin {"read", "unlink"}
              THEN {} ELSE {command[c].port})
     \/ UNCHANGED <<forward, unclaimed>> /\ Ends(c)
  /\ UNCHANGED <<record, monitor, waiting, faults>>

\* SIGTERM reaches a monitor that still runs.
Signalled(q) ==
  IF monitor[q].pc \in Running THEN [monitor EXCEPT ![q].term = TRUE] ELSE monitor

\* Mutant: the command line of the process is not looked at.
SignalUnchecked(c) ==
  LET q == command[c].target.pid IN
  /\ command[c].pc = "signal"
  /\ To(c, "grace")
  /\ monitor' = Signalled(q)
  /\ UNCHANGED <<forward, record, lock, unclaimed, waiting, faults>>

\* stop: a living process that is not the script is an error.
Signal(c) ==
  LET q == command[c].target.pid IN
  /\ command[c].pc = "signal"
  /\ \/ /\ monitor[q].pc = "other" /\ Ends(c)
        /\ UNCHANGED monitor
     \/ /\ monitor[q].pc # "other" /\ To(c, "grace")
        /\ monitor' = Signalled(q)
        /\ UNCHANGED lock
  /\ UNCHANGED <<forward, record, unclaimed, waiting, faults>>

\* A monitor ended by SIGKILL, wherever it was.
Killed(q) == [monitor EXCEPT ![q].pc = "gone", ![q].term = FALSE]
Cut(q) == IF monitor[q].pc \in {"start", "made"} THEN {monitor[q].port} ELSE {}

\* The end of the wait, early or at the deadline: SIGKILL to the group,
\* whoever has the pid by now.  Another program that leads no group is not
\* found there, and the call raises for the pid that still lives.
KillGroup(c) ==
  LET q == command[c].target.pid IN
  /\ command[c].pc = "grace"
  /\ \/ /\ monitor' = Killed(q) /\ To(c, "clean")
        /\ unclaimed' = unclaimed \cup Cut(q)
        /\ UNCHANGED lock
     \/ monitor[q].pc = "other" /\ Ends(c) /\ UNCHANGED <<monitor, unclaimed>>
  /\ UNCHANGED <<forward, record, waiting, faults>>

\* _stop: the port of the ended monitor, unless the file is another's by
\* now.  When ADB fails, the state file is written back and the call raises.
CleanForward(c) ==
  LET target == command[c].target IN
  /\ command[c].pc = "clean"
  /\ \/ /\ record \in {None, target}
        /\ forward' = forward \ {target.port} /\ To(c, "erase")
        /\ UNCHANGED <<record, lock>>
     \/ /\ record \in {None, target}
        /\ MaybeRemoves(target.port)
        /\ record' = target /\ Ends(c)
     \/ record \notin {None, target} /\ To(c, "erase") /\ UNCHANGED <<forward, record, lock>>
  /\ UNCHANGED <<monitor, unclaimed, waiting, faults>>

EraseRecord(c) ==
  /\ command[c].pc = "erase"
  /\ record' = IF record = command[c].target THEN None ELSE record
  /\ \/ command[c].op = "ensure" /\ To(c, "spawn") /\ UNCHANGED lock
     \/ command[c].op = "stop" /\ Ends(c)
  /\ UNCHANGED <<forward, monitor, unclaimed, waiting, faults>>

Spawn(c) ==
  /\ command[c].pc = "spawn"
  /\ \E q \in Pids :
       /\ monitor[q].pc = "free"
       /\ monitor' = [monitor EXCEPT ![q].pc = "start", ![q].port = command[c].port]
       /\ command' = [command EXCEPT ![c].pc = "await",
                        ![c].target = [pid |-> q, port |-> command[c].port]]
  /\ UNCHANGED <<forward, record, lock, unclaimed, waiting, faults>>

\* The child is up, has ended, or is given SIGTERM at the deadline.
Await(c) ==
  LET q == command[c].target.pid IN
  /\ command[c].pc = "await"
  /\ \/ Mine(q) /\ monitor[q].pc \in Running /\ Ends(c) /\ UNCHANGED monitor
     \/ monitor[q].pc \notin Running /\ Ends(c) /\ UNCHANGED monitor
     \/ /\ monitor[q].pc \in Running /\ To(c, "reap")
        /\ monitor' = [monitor EXCEPT ![q].term = TRUE]
        /\ UNCHANGED lock
  /\ UNCHANGED <<forward, record, unclaimed, waiting, faults>>

\* wait(12), then kill.
Reap(c) ==
  LET q == command[c].target.pid IN
  /\ command[c].pc = "reap"
  /\ \/ monitor[q].pc = "gone" /\ UNCHANGED <<monitor, unclaimed>>
     \/ /\ monitor[q].pc \in Running
        /\ monitor' = Killed(q) /\ unclaimed' = unclaimed \cup Cut(q)
  /\ Ends(c)
  /\ UNCHANGED <<forward, record, waiting, faults>>

Command(c) ==
  \/ Acquire(c) \/ ForwardAgain(c) \/ Signal(c) \/ KillGroup(c) \/ CleanForward(c)
  \/ EraseRecord(c) \/ Spawn(c) \/ Await(c) \/ Reap(c)

---------------------------------------------------------------------------
(* The environment. *)

\* The phone went away, or the ADB server was restarted.
LoseForward(port) ==
  /\ port \in forward
  /\ forward' = forward \ {port}
  /\ UNCHANGED <<record, lock, monitor, command, unclaimed, waiting, faults>>

Fault == faults < MaxFaults /\ faults' = faults + 1

KillMonitor(q) ==
  /\ Fault /\ monitor[q].pc \in Running
  /\ monitor' = Killed(q)
  /\ unclaimed' = unclaimed \cup Cut(q)
  /\ UNCHANGED <<forward, record, lock, command, waiting>>

\* The rotation worker at its deadline, a command interrupted by hand: the
\* system takes the file lock back.
KillCommand(c) ==
  /\ Fault /\ command[c].pc # "idle"
  /\ command' = [command EXCEPT ![c] = Outside]
  /\ lock' = IF lock = c THEN None ELSE lock
  /\ UNCHANGED <<forward, record, monitor, unclaimed, waiting>>

TakePid(q) ==
  /\ Fault /\ monitor[q].pc = "gone"
  /\ monitor' = [monitor EXCEPT ![q].pc = "other"]
  /\ waiting' = [waiting EXCEPT ![q] = {c \in Commands :
                   command[c].pc = "grace" /\ command[c].target.pid = q}]
  /\ UNCHANGED <<forward, record, lock, command, unclaimed>>

ForwardNext ==
  \/ \E q \in Pids : Monitor(q) \/ KillMonitor(q) \/ TakePid(q)
  \/ \E c \in Commands :
       \/ Command(c) \/ KillCommand(c)
       \/ Call(c, "stop", APort)
       \/ \E port \in Ports : Call(c, "ensure", port)
  \/ \E port \in Ports : LoseForward(port)

ForwardSpec == ForwardInit /\ [][ForwardNext]_forwardVars

---------------------------------------------------------------------------
(* Properties. *)

\* A forward that ADB keeps is never forgotten: the state file names its
\* port, or its monitor still runs, or the start of its monitor was cut
\* short.  _stop and the finally of watch_forward give the record up only
\* after ADB has confirmed that the port is free, whatever dies in between.
ForwardKept ==
  \A port \in forward :
    \/ record # None /\ record.port = port
    \/ \E q \in Pids : monitor[q].pc \in Running /\ monitor[q].port = port
    \/ port \in unclaimed

\* A program that has taken the pid of an ended monitor is killed only by a
\* command that was already waiting for the end of that monitor: the check of
\* the command line in stop protects it from every later one.
StrangersSafe ==
  [][\A q \in Pids : monitor[q].pc = "other" /\ monitor'[q].pc # "other" =>
       \E c \in waiting[q] : command[c].pc = "grace" /\ command'[c].pc = "clean"]_forwardVars
=============================================================================
