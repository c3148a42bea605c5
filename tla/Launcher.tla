------------------------------ MODULE Launcher ------------------------------
(***************************************************************************)
(* run.py, which stops what an earlier run left and starts the services,   *)
(* and scripts/stop.py, over the pid files of logs/, the processes and the *)
(* tmux sessions of the machine.                                           *)
(*                                                                         *)
(* A process is free, gone, alien (another program has the pid) or the     *)
(* service that runs in it.  A tmux session is there, or kept: tmux would  *)
(* not end it, which is no error of a command.  A shell runs a command,    *)
(* which is at                                                             *)
(*   out              not running                                          *)
(*   detached, wait   stop_detached: the file and SIGTERM, then the wait   *)
(*   tmux             stop_tmux                                            *)
(*   launch, file     launch: the check and Popen, then the pid file       *)
(* and todo has the services it has still to go through there.             *)
(*                                                                         *)
(* Two histories serve the properties: stray has the processes whose       *)
(* command was killed between Popen and the pid file, overlap says that    *)
(* two commands ran at a time.                                             *)
(***************************************************************************)
EXTENDS Integers, Sequences, FiniteSets

CONSTANTS Shells, MachinePids,
          StopOrder, StartOrder,  \* PID_NAMES, and the order of main
          NoPid,                  \* no pid file
          MaxCuts                 \* bound: commands killed, pids taken over

Services == {StopOrder[i] : i \in DOMAIN StopOrder}

ASSUME LauncherAssumption ==
  /\ StopOrder \in Seq(Services) /\ StartOrder \in Seq(Services)
  /\ Services \cap {"free", "gone", "alien"} = {}
  /\ NoPid \notin MachinePids /\ MaxCuts \in Nat

VARIABLES process, pidFile, session, shell, stray, overlap, cuts

launcherVars == <<process, pidFile, session, shell, stray, overlap, cuts>>

LauncherTypeOK ==
  /\ process \in [MachinePids -> Services \cup {"free", "gone", "alien"}]
  /\ pidFile \in [Services -> MachinePids \cup {NoPid}]
  /\ session \in [Services -> {"none", "there", "kept"}]
  /\ shell \in [Shells -> [pc : {"out", "detached", "wait", "tmux", "launch", "file"},
                           starts : BOOLEAN, mode : {"detached", "tmux"},
                           todo : Seq(Services), target : MachinePids \cup {NoPid}]]
  /\ stray \subseteq MachinePids
  /\ overlap \in BOOLEAN
  /\ cuts \in 0..MaxCuts

NotRunning == [pc |-> "out", starts |-> FALSE, mode |-> "tmux", todo |-> <<>>,
               target |-> NoPid]

LauncherInit ==
  /\ process = [p \in MachinePids |-> "free"]
  /\ pidFile = [s \in Services |-> NoPid]
  /\ session = [s \in Services |-> "none"]
  /\ shell = [c \in Shells |-> NotRunning]
  /\ stray = {} /\ overlap = FALSE /\ cuts = 0

Lives(p) == p # NoPid /\ process[p] \notin {"free", "gone"}
Copies(service) == {p \in MachinePids : process[p] = service}

\* The command is at the service that is first in todo.
Handles(c, pc, service) ==
  shell[c].pc = pc /\ shell[c].todo # <<>> /\ service = Head(shell[c].todo)
GoesOn(c, pc, todo, target) ==
  shell' = [shell EXCEPT ![c] = [pc |-> pc, starts |-> shell[c].starts, mode |-> shell[c].mode,
                                 todo |-> todo, target |-> target]]
Ahead(c, pc) == GoesOn(c, pc, Tail(shell[c].todo), NoPid)
Exits(c) == shell' = [shell EXCEPT ![c] = NotRunning]

\* run.py or stop.py, with detached_mode as config.toml has it now.
RunCommand(c, starts, mode) ==
  /\ shell[c].pc = "out"
  /\ shell' = [shell EXCEPT ![c] = [pc |-> "detached", starts |-> starts, mode |-> mode,
                                    todo |-> StopOrder, target |-> NoPid]]
  /\ overlap' = (overlap \/ \E d \in Shells \ {c} : shell[d].pc # "out")
  /\ UNCHANGED <<process, pidFile, session, stray, cuts>>

\* From one loop of the command to the next.
NextLoop(c) ==
  /\ shell[c].pc # "out" /\ shell[c].todo = <<>>
  /\ \/ shell[c].pc = "detached" /\ GoesOn(c, "tmux", StopOrder, NoPid)
     \/ /\ shell[c].pc = "tmux" /\ shell[c].starts
        /\ GoesOn(c, "launch", StartOrder, NoPid)
     \/ shell[c].pc = "tmux" /\ ~shell[c].starts /\ Exits(c)
     \/ shell[c].pc = "launch" /\ Exits(c)
  /\ UNCHANGED <<process, pidFile, session, stray, overlap, cuts>>

---------------------------------------------------------------------------
(* stop_detached and stop_tmux. *)

\* No file; a file of a dead process; a living one whose command line has
\* none of the markers, which is left alone with the file.
PassService(c, service) ==
  LET p == pidFile[service] IN
  /\ Handles(c, "detached", service)
  /\ Lives(p) => process[p] # service
  /\ pidFile' = [pidFile EXCEPT ![service] = IF Lives(p) THEN p ELSE NoPid]
  /\ Ahead(c, "detached")
  /\ UNCHANGED <<process, session, stray, overlap, cuts>>

TerminateService(c, service) ==
  LET p == pidFile[service] IN
  /\ Handles(c, "detached", service)
  /\ Lives(p) /\ process[p] = service
  /\ process' \in {process, [process EXCEPT ![p] = "gone"]}
  /\ GoesOn(c, "wait", shell[c].todo, p)
  /\ UNCHANGED <<pidFile, session, stray, overlap, cuts>>

\* After the wait: SIGKILL for whoever has the pid, and the file is removed.
EndService(c, service) ==
  LET p == shell[c].target IN
  /\ Handles(c, "wait", service)
  /\ process' = IF Lives(p) THEN [process EXCEPT ![p] = "gone"] ELSE process
  /\ pidFile' = [pidFile EXCEPT ![service] = NoPid]
  /\ Ahead(c, "detached")
  /\ UNCHANGED <<session, stray, overlap, cuts>>

\* has-session, then kill-session, whose result is not looked at.
KillSession(service) ==
  IF session[service] = "none" THEN {session}
  ELSE {[session EXCEPT ![service] = left] : left \in {"none", "kept"}}

\* Mutant: only what the present mode would start is stopped.
StopTmuxOfMode(c, service) ==
  /\ Handles(c, "tmux", service)
  /\ session' \in IF shell[c].mode = "tmux" THEN KillSession(service) ELSE {session}
  /\ Ahead(c, "tmux")
  /\ UNCHANGED <<process, pidFile, stray, overlap, cuts>>

StopTmux(c, service) ==
  /\ Handles(c, "tmux", service)
  /\ session' \in KillSession(service)
  /\ Ahead(c, "tmux")
  /\ UNCHANGED <<process, pidFile, stray, overlap, cuts>>

---------------------------------------------------------------------------
(* launch. *)

\* "already running": a living process of the pid file, whatever it is.
FindRunning(c, service) ==
  /\ Handles(c, "launch", service) /\ shell[c].mode = "detached"
  /\ Lives(pidFile[service])
  /\ Ahead(c, "launch")
  /\ UNCHANGED <<process, pidFile, session, stray, overlap, cuts>>

LaunchDetached(c, service) ==
  /\ Handles(c, "launch", service) /\ shell[c].mode = "detached"
  /\ ~Lives(pidFile[service])
  /\ \E p \in MachinePids :
       /\ process[p] = "free"
       /\ process' = [process EXCEPT ![p] = service]
       /\ GoesOn(c, "file", shell[c].todo, p)
  /\ UNCHANGED <<pidFile, session, stray, overlap, cuts>>

WritePidFile(c, service) ==
  /\ Handles(c, "file", service)
  /\ pidFile' = [pidFile EXCEPT ![service] = shell[c].target]
  /\ Ahead(c, "launch")
  /\ UNCHANGED <<process, session, stray, overlap, cuts>>

\* A session of that name is kept; tmux may fail, and main goes on.
LaunchTmux(c, service) ==
  /\ Handles(c, "launch", service) /\ shell[c].mode = "tmux"
  /\ \/ session[service] = "none" /\ session' = [session EXCEPT ![service] = "there"]
     \/ UNCHANGED session
  /\ Ahead(c, "launch")
  /\ UNCHANGED <<process, pidFile, stray, overlap, cuts>>

\* Popen or ensure_own_mobile_proxy raises between two services.
Abort(c) ==
  /\ shell[c].pc = "launch"
  /\ Exits(c)
  /\ UNCHANGED <<process, pidFile, session, stray, overlap, cuts>>

---------------------------------------------------------------------------
(* The machine. *)

ServiceEnds(p) ==
  /\ process[p] \in Services
  /\ process' = [process EXCEPT ![p] = "gone"]
  /\ UNCHANGED <<pidFile, session, shell, stray, overlap, cuts>>

SessionEnds(service) ==
  /\ session[service] # "none"
  /\ session' = [session EXCEPT ![service] = "none"]
  /\ UNCHANGED <<process, pidFile, shell, stray, overlap, cuts>>

CutCommand(c) ==
  /\ shell[c].pc # "out" /\ cuts < MaxCuts
  /\ cuts' = cuts + 1
  /\ stray' = IF shell[c].pc = "file" THEN stray \cup {shell[c].target} ELSE stray
  /\ Exits(c)
  /\ UNCHANGED <<process, pidFile, session, overlap>>

PidTaken(p) ==
  /\ process[p] = "gone" /\ cuts < MaxCuts
  /\ cuts' = cuts + 1
  /\ process' = [process EXCEPT ![p] = "alien"]
  /\ UNCHANGED <<pidFile, session, shell, stray, overlap>>

LauncherNext ==
  \/ \E c \in Shells :
       \/ \E starts \in BOOLEAN, mode \in {"detached", "tmux"} : RunCommand(c, starts, mode)
       \/ NextLoop(c) \/ Abort(c) \/ CutCommand(c)
       \/ \E service \in Services :
            \/ PassService(c, service) \/ TerminateService(c, service) \/ EndService(c, service)
            \/ StopTmux(c, service) \/ FindRunning(c, service)
            \/ LaunchDetached(c, service) \/ WritePidFile(c, service)
            \/ LaunchTmux(c, service)
  \/ \E p \in MachinePids : ServiceEnds(p) \/ PidTaken(p)
  \/ \E service \in Services : SessionEnds(service)

LauncherSpec == LauncherInit /\ [][LauncherNext]_launcherVars

---------------------------------------------------------------------------
(* Properties. *)

\* Run after run, in one mode or the other, interrupted or not, a service is
\* never there twice as long as the commands do not overlap.  What a run does
\* not end is left out: the processes whose pid file was never written, and the
\* sessions that tmux refused to end.
OneOfEach ==
  ~overlap =>
    \A s \in Services :
      Cardinality(Copies(s) \ stray) + (IF session[s] = "there" THEN 1 ELSE 0) <= 1
=============================================================================
