----------------------------- MODULE PhoneProxy -----------------------------
(***************************************************************************)
(* tinyproxy on the phone (mobile_proxy/own_mobile_proxy.py): rotate_ip,   *)
(* start_proxy, stop_proxy and ensure_own_mobile_proxy as commands of      *)
(* several processes that share no lock, the follower of the log, and the  *)
(* phone.  ensure_forward and stop_forward, the subject of AdbForward, are *)
(* one step here, which succeeds or raises.                                *)
(*                                                                         *)
(* A command is at                                                         *)
(*   idle                        outside                                   *)
(*   enable, sleep               _rotate_airplane, transport adb           *)
(*   launch, sleep               _rotate_airplane_ssh: the phone's job     *)
(*                               toggles, the marker holds its result      *)
(*   term, kill                  _open_control and _stop_tinyproxy         *)
(*   fix, run, status            the rest of _restart_tinyproxy            *)
(*   forward, follow, pidfile    ensure_forward, _start_log_follower       *)
(*   cleanup, tails              stop_proxy before _stop_tinyproxy         *)
(*   service                     service_running                           *)
(* alone says that no other command ran since it began (of a rotation and  *)
(* a stop), clean that no cleanup_error is set.                            *)
(*                                                                         *)
(* tiny is off, or says whether the Bind that tinyproxy was started with   *)
(* is of the interface the phone has now; bind is what the configuration   *)
(* file says.  job is the background job of the phone and its marker.      *)
(* tails are the followers whose tail runs on the phone, leaked says that  *)
(* a tail without a follower does.  Over ssh no command is given to a      *)
(* phone in airplane mode.                                                 *)
(***************************************************************************)
EXTENDS Integers

CONSTANTS Workers, Followers,
          NoFollower,   \* FOLLOW_PID does not exist
          FixScript,    \* FIX_INTERFACES_SCRIPT exists
          MaxKills      \* bound: commands killed at any place

ASSUME PhoneAssumption ==
  NoFollower \notin Followers /\ FixScript \in BOOLEAN /\ MaxKills \in Nat

VARIABLES transport, airplane, job, tiny, bind, up, step, log, pid, newborn, tails,
          leaked, refused, orphans, kills

phone == <<airplane, job, tiny, bind>>
follower == <<log, pid, newborn, tails, leaked, orphans>>
phoneVars == <<transport, phone, up, step, follower, refused, kills>>

Network == {"current", "stale"}
Places == {"idle", "enable", "launch", "sleep", "term", "kill", "fix",
           "run", "status", "forward", "follow", "pidfile", "cleanup", "tails", "service"}

PhoneTypeOK ==
  /\ transport \in {"adb", "ssh"}
  /\ airplane \in BOOLEAN
  /\ job \in {"none", "begun", "on", "ok", "bad"}
  /\ tiny \in Network \cup {"off"}
  /\ bind \in Network
  /\ up \in BOOLEAN
  /\ step \in [Workers -> [pc : Places, op : {"rotate", "start", "stop"},
                           alone : BOOLEAN, clean : BOOLEAN]]
  /\ log \in [Followers -> {"free", "open", "tail", "clean", "gone"}]
  /\ pid \in Followers \cup {NoFollower}
  /\ newborn \in Followers \cup {NoFollower}
  /\ tails \subseteq Followers
  /\ leaked \in BOOLEAN
  /\ refused \in BOOLEAN
  /\ orphans \subseteq Followers
  /\ kills \in 0..MaxKills

Away == [pc |-> "idle", op |-> "stop", alone |-> FALSE, clean |-> TRUE]

PhoneInit ==
  /\ transport \in {"adb", "ssh"}
  /\ airplane = FALSE /\ job = "none"
  /\ tiny \in {"off", "stale"} /\ bind = "stale"
  /\ up = FALSE
  /\ step = [w \in Workers |-> Away]
  /\ log = [f \in Followers |-> "free"]
  /\ pid = NoFollower /\ newborn = NoFollower /\ tails = {} /\ leaked = FALSE
  /\ refused = FALSE /\ orphans = {} /\ kills = 0

At(w, pc) == step[w].pc = pc
Goto(w, pc) == step' = [step EXCEPT ![w].pc = pc]
Return(w) == step' = [step EXCEPT ![w] = Away]
Op(w) == step[w].op
\* Over ssh the phone is reached through the network it has.
Reachable == transport = "adb" \/ ~airplane

Begin(w, op, pc) ==
  /\ At(w, "idle")
  /\ step' = [v \in Workers |->
       IF v = w THEN [pc |-> pc, op |-> op, clean |-> TRUE,
                      alone |-> op # "start" /\ \A u \in Workers \ {w} : At(u, "idle")]
       ELSE [step[v] EXCEPT !.alone = FALSE]]
  /\ UNCHANGED <<transport, phone, up, follower, refused, kills>>

\* rotate_ip runs in the rotation worker, one at a time; a job of the phone
\* that outlived its worker has ended before the next (rotation_retry_delay).
CallRotate(w) ==
  /\ \A v \in Workers : Op(v) # "rotate"
  /\ job \notin {"begun", "on"}
  /\ Begin(w, "rotate", IF transport = "adb" THEN "enable" ELSE "launch")
CallStart(w) == Begin(w, "start", "term")
CallEnsure(w) == Begin(w, "start", "service")
CallStop(w) == Begin(w, "stop", "cleanup")

---------------------------------------------------------------------------
(* The airplane mode. *)

\* A new network is up after the mode: what was bound before is stale.
Toggled(on) ==
  /\ airplane' = on
  /\ bind' = "stale"
  /\ tiny' = IF tiny = "off" THEN "off" ELSE "stale"

\* set_airplane_adb(True): an error, or a timeout after the mode was set.
EnableAdb(w) ==
  /\ At(w, "enable")
  /\ \/ Toggled(TRUE) /\ Goto(w, "sleep") /\ UNCHANGED refused
     \/ Toggled(TRUE) /\ Return(w) /\ refused' = TRUE
     \/ UNCHANGED <<airplane, bind, tiny, refused>> /\ Return(w)
  /\ UNCHANGED <<transport, job, up, follower, kills>>

\* finally: set_airplane_adb(False).
DisableAdb(w) ==
  /\ At(w, "sleep") /\ transport = "adb"
  /\ \/ Toggled(FALSE) /\ (Goto(w, "term") \/ Return(w)) /\ refused' = FALSE
     \/ UNCHANGED <<airplane, bind, tiny>> /\ Return(w) /\ refused' = airplane
  /\ UNCHANGED <<transport, job, up, follower, kills>>

\* The job is started, or not, or the answer was lost after either.
LaunchJob(w) ==
  /\ At(w, "launch")
  /\ job' \in {"none", "begun"}
  /\ Goto(w, "sleep") \/ Return(w)
  /\ UNCHANGED <<transport, airplane, tiny, bind, up, follower, refused, kills>>

\* disable runs whether or not enable failed; test makes the result of both.
JobEnable ==
  /\ job = "begun"
  /\ job' = "on"
  /\ \/ Toggled(TRUE)
     \/ UNCHANGED <<airplane, bind, tiny>>
  /\ UNCHANGED <<transport, up, step, follower, refused, kills>>

\* Mutant: the job lives only as long as the connection that started it.
JobDisableConnected ==
  /\ job = "on" /\ \E w \in Workers : At(w, "sleep")
  /\ Toggled(FALSE) /\ job' = "ok" /\ refused' = FALSE
  /\ UNCHANGED <<transport, up, step, follower, kills>>

JobDisable ==
  /\ job = "on"
  /\ \/ Toggled(FALSE) /\ job' \in {"ok", "bad"} /\ refused' = FALSE
     \/ UNCHANGED <<airplane, bind, tiny>> /\ job' = "bad" /\ refused' = airplane
  /\ job' = "ok" => airplane
  /\ UNCHANGED <<transport, up, step, follower, kills>>

\* A second connection reads the marker: no marker yet is a failure.
ReadMarker(w) ==
  /\ At(w, "sleep") /\ transport = "ssh"
  /\ \/ Reachable /\ job = "ok" /\ Goto(w, "term")
     \/ Return(w)
  /\ UNCHANGED <<transport, phone, up, follower, refused, kills>>

---------------------------------------------------------------------------
(* tinyproxy. *)

\* _open_control fails, or the connection is lost in any call on the phone.
Disconnect(w) ==
  /\ step[w].pc \in {"term", "kill", "fix", "run", "status"}
  /\ Return(w)
  /\ UNCHANGED <<transport, phone, up, follower, refused, kills>>

\* Mutant: a restart leaves the interfaces as they are.
StoppedUnfixed(w) == IF Op(w) = "stop" THEN Return(w) ELSE Goto(w, "run")

\* stop_proxy returns here, a restart goes on.
Stopped(w) ==
  IF Op(w) = "stop" THEN Return(w)
  ELSE Goto(w, IF transport = "ssh" THEN "fix" ELSE "run")

Terminate(w) ==
  /\ At(w, "term") /\ Reachable
  /\ \/ tiny' = "off" /\ Stopped(w)
     \/ tiny # "off" /\ UNCHANGED tiny /\ Goto(w, "kill")
  /\ UNCHANGED <<transport, airplane, job, bind, up, follower, refused, kills>>

Kill(w) ==
  /\ At(w, "kill") /\ Reachable
  /\ tiny' = "off" /\ Stopped(w)
  /\ UNCHANGED <<transport, airplane, job, bind, up, follower, refused, kills>>

\* The LogFile of tinyproxy.conf.
EnsureLogfile(w) == Goto(w, "run") \/ Return(w)

\* fix_interfaces_via_ssh.sh; where it fails is Disconnect.  Without the script the network
\* is left as it is and the start goes on.
Fix(w) ==
  /\ At(w, "fix") /\ Reachable
  /\ bind' = (IF FixScript THEN "current" ELSE bind) /\ EnsureLogfile(w)
  /\ UNCHANGED <<transport, airplane, job, tiny, up, follower, refused, kills>>

\* A second tinyproxy finds its port taken and ends.  Over adb no interface
\* is bound and a start is enough.
Run(w) ==
  /\ At(w, "run") /\ Reachable
  /\ Goto(w, "status")
  /\ \/ tiny = "off" /\ tiny' = (IF transport = "adb" THEN "current" ELSE bind)
     \/ UNCHANGED tiny
  /\ UNCHANGED <<transport, airplane, job, bind, up, follower, refused, kills>>

Status(w) ==
  /\ At(w, "status") /\ Reachable
  /\ IF tiny = "off" THEN Return(w) ELSE Goto(w, "forward")
  /\ UNCHANGED <<transport, phone, up, follower, refused, kills>>

Service(w) ==
  /\ At(w, "service")
  /\ \/ Reachable /\ tiny # "off" /\ Goto(w, "forward")
     \/ Goto(w, "term")
  /\ UNCHANGED <<transport, phone, up, follower, refused, kills>>

Forward(w) ==
  /\ At(w, "forward")
  /\ \/ up' = TRUE /\ IF Op(w) = "rotate" THEN Return(w) ELSE Goto(w, "follow")
     \/ up' \in BOOLEAN /\ Return(w)
  /\ UNCHANGED <<transport, phone, follower, refused, kills>>

---------------------------------------------------------------------------
(* The follower of the log.  FOLLOW_LOCK is held from Popen to the file. *)

Follows(f) == log[f] \in {"open", "tail", "clean"}
\* _pid_alive of the pid in FOLLOW_PID.
Followed == pid # NoFollower /\ Follows(pid)

Follow(w) ==
  /\ At(w, "follow") /\ newborn = NoFollower
  /\ \/ /\ Followed
        /\ Return(w) /\ UNCHANGED <<log, newborn>>
     \/ /\ ~Followed
        /\ \E f \in Followers :
             /\ log[f] = "free"
             /\ log' = [log EXCEPT ![f] = "open"] /\ newborn' = f
        /\ Goto(w, "pidfile")
  /\ UNCHANGED <<transport, phone, up, pid, tails, leaked, orphans, refused, kills>>

WritePid(w) ==
  /\ At(w, "pidfile")
  /\ pid' = newborn /\ newborn' = NoFollower
  /\ Return(w)
  /\ UNCHANGED <<transport, phone, up, log, tails, leaked, orphans, refused, kills>>

OpenTail(f) ==
  /\ log[f] = "open" /\ Reachable
  /\ log' = [log EXCEPT ![f] = "tail"] /\ tails' = tails \cup {f}
  /\ UNCHANGED <<transport, phone, up, step, pid, newborn, leaked, orphans, refused, kills>>

LoseTail(f) ==
  /\ log[f] = "tail"
  /\ log' = [log EXCEPT ![f] = "clean"]
  /\ UNCHANGED <<transport, phone, up, step, pid, newborn, tails, leaked, orphans,
                 refused, kills>>

\* finally ends the tail by its pid file, if the phone answers.
LeavesTail(f) ==
  /\ tails' = tails \ {f}
  /\ leaked' \in {leaked, leaked \/ f \in tails}

CleanTail(f) ==
  /\ log[f] = "clean"
  /\ log' = [log EXCEPT ![f] = "open"] /\ LeavesTail(f)
  /\ UNCHANGED <<transport, phone, up, step, pid, newborn, orphans, refused, kills>>

\* Killed from outside.
FollowerDies(f) ==
  /\ Follows(f)
  /\ log' = [log EXCEPT ![f] = "gone"]
  /\ tails' = tails \ {f} /\ leaked' = (leaked \/ f \in tails)
  /\ UNCHANGED <<transport, phone, up, step, pid, newborn, orphans, refused, kills>>

---------------------------------------------------------------------------
(* stop_proxy before _stop_tinyproxy: each cleanup is tried, an error is   *)
(* remembered.                                                             *)

Passes(w, pc, ok) ==
  step' = [step EXCEPT ![w].pc = pc, ![w].clean = @ /\ ok]

\* _stop_log_follower: FOLLOW_PID is removed once the process has ended.
Unfollow(ok) ==
  \/ ok /\ ~Followed /\ pid' = NoFollower /\ UNCHANGED <<log, tails, leaked>>
  \/ /\ ok /\ Followed
     /\ pid' = NoFollower
     /\ log' = [log EXCEPT ![pid] = "gone"] /\ LeavesTail(pid)
  \/ ~ok /\ pid # NoFollower /\ UNCHANGED <<pid, log, tails, leaked>>

\* Mutant: an error of the first cleanup is forgotten by the second.
CleanupForgets(w) ==
  /\ At(w, "cleanup") /\ newborn = NoFollower
  /\ \E unfollowed, unforwarded \in BOOLEAN :
       /\ Unfollow(unfollowed)
       /\ up' = (up /\ ~unforwarded)
       /\ Passes(w, "tails", unforwarded)
  /\ UNCHANGED <<transport, phone, newborn, orphans, refused, kills>>

Cleanup(w) ==
  /\ At(w, "cleanup") /\ newborn = NoFollower
  /\ \E unfollowed, unforwarded \in BOOLEAN :
       /\ Unfollow(unfollowed)
       /\ up' = (up /\ ~unforwarded)
       /\ Passes(w, "tails", unfollowed /\ unforwarded)
  /\ UNCHANGED <<transport, phone, newborn, orphans, refused, kills>>

\* The tails of every pid file, after the connection that may fail.
Tails(w) ==
  /\ At(w, "tails")
  /\ \/ Return(w) /\ UNCHANGED <<tails, leaked>>
     \/ /\ Reachable /\ Passes(w, "term", TRUE)
        /\ tails' = {} /\ leaked' = FALSE
     \/ Reachable /\ Passes(w, "term", FALSE) /\ UNCHANGED <<tails, leaked>>
  /\ UNCHANGED <<transport, phone, up, log, pid, newborn, orphans, refused, kills>>

---------------------------------------------------------------------------

\* The rotation worker at its deadline, or a command stopped by hand.
KillWorker(w) ==
  /\ ~At(w, "idle") /\ kills < MaxKills
  /\ kills' = kills + 1
  /\ Return(w)
  /\ refused' = (refused \/ (At(w, "sleep") /\ transport = "adb" /\ airplane))
  /\ orphans' = orphans \cup (IF At(w, "pidfile") THEN {newborn} ELSE {})
  /\ newborn' = IF At(w, "pidfile") THEN NoFollower ELSE newborn
  /\ UNCHANGED <<transport, phone, up, log, pid, tails, leaked>>

Toggle(w) == EnableAdb(w) \/ DisableAdb(w) \/ LaunchJob(w) \/ ReadMarker(w)
Restart(w) ==
  \/ Disconnect(w) \/ Terminate(w) \/ Kill(w) \/ Fix(w) \/ Run(w)
  \/ Status(w) \/ Service(w) \/ Forward(w) \/ Follow(w) \/ WritePid(w)

PhoneNext ==
  \/ \E w \in Workers :
       \/ CallRotate(w) \/ CallStart(w) \/ CallEnsure(w) \/ CallStop(w)
       \/ Toggle(w) \/ Restart(w) \/ Cleanup(w) \/ Tails(w) \/ KillWorker(w)
  \/ JobEnable \/ JobDisable
  \/ \E f \in Followers : OpenTail(f) \/ LoseTail(f) \/ CleanTail(f) \/ FollowerDies(f)

PhoneSpec == PhoneInit /\ [][PhoneNext]_phoneVars

\* The phone runs its job; a worker that lives goes on.
PhoneFairness ==
  /\ WF_phoneVars(JobEnable) /\ WF_phoneVars(JobDisable)
  /\ \A w \in Workers : WF_phoneVars(DisableAdb(w))

---------------------------------------------------------------------------
(* Properties. *)

Unfixed == transport = "ssh" /\ ~FixScript

\* A change of IP comes to its last step only with the phone out of the
\* airplane mode and tinyproxy started anew, on the network it has now unless
\* the script that names it is missing over ssh, when no other command ran
\* meanwhile.
RotationWhole ==
  \A w \in Workers :
    At(w, "forward") /\ Op(w) = "rotate" /\ step[w].alone =>
      ~airplane /\ (tiny = "current" \/ Unfixed)

\* A stop that reports success leaves nothing behind when it ran alone: no
\* follower but one whose start was killed before FOLLOW_PID named it, no
\* tail on the phone but that one's, no tinyproxy and no forward.
StopClears ==
  [][\A w \in Workers :
       step[w].pc \in {"term", "kill"} /\ Op(w) = "stop" /\ step[w].alone
         /\ step[w].clean /\ step'[w].pc = "idle" /\ tiny' = "off" =>
           /\ \A f \in Followers : Follows(f) => f \in orphans
           /\ tails \subseteq orphans
           /\ leaked => orphans # {}
           /\ ~up]_phoneVars

\* The airplane mode ends: over ssh the job of the phone switches it off
\* whatever becomes of the connection and of the worker; over adb the worker
\* does, unless it was killed.  Only a refused command leaves it on.
AirplaneEnds == airplane ~> (~airplane \/ refused)
=============================================================================
