------------------------ MODULE PhoneAndCardsProofs ------------------------
(***************************************************************************)
(* What PhoneProxy promises of a rotation and of a stop, and what          *)
(* ViewedStore promises of the viewed ads and of their schedule, for any   *)
(* number of commands, followers, ads, subscriptions and prices.           *)
(***************************************************************************)
EXTENDS PhoneProxy, ViewedStore, FiniteSetTheorems, SequenceTheorems, TLAPS

---------------------------------------------------------------------------
(* The phone. *)

PlacesOf(op) ==
  CASE op = "rotate" -> {"enable", "launch", "sleep", "term", "kill", "fix", "run", "status",
                         "forward"}
    [] op = "start" -> {"service", "term", "kill", "fix", "run", "status", "forward", "follow",
                        "pidfile"}
    [] op = "stop" -> {"idle", "cleanup", "tails", "term", "kill"}

\* A command is where its operation comes to.
PlaceInv == \A w \in Workers : step[w].pc \in PlacesOf(step[w].op)

\* Nothing runs beside a command that is alone.
AloneInv ==
  \A w \in Workers : step[w].alone =>
    ~At(w, "idle") /\ \A u \in Workers \ {w} : At(u, "idle")

\* Only a rotation over ssh has a job; one that ended well left the mode off.
JobInv ==
  /\ transport = "adb" => job = "none"
  /\ transport = "ssh" /\ job = "ok" => ~airplane
  /\ \A w \in Workers : /\ At(w, "enable") => transport = "adb"
                        /\ At(w, "launch") => transport = "ssh"

\* What a rotation has done of its way, if it was alone.
RotationAt(w) ==
  /\ ~airplane
  /\ transport = "ssh" => job = "ok"
  /\ At(w, "fix") => tiny = "off"
  /\ At(w, "run") => tiny = "off" /\ (transport = "ssh" => bind = "current" \/ Unfixed)
  /\ At(w, "status") => tiny # "stale" \/ Unfixed
  /\ At(w, "forward") => tiny = "current" \/ Unfixed

RotationGood(w) ==
  Op(w) = "rotate" /\ step[w].alone
    /\ step[w].pc \in {"term", "kill", "fix", "run", "status", "forward"} => RotationAt(w)

\* What a stop has done of its way, if it was alone and met no error.
StopGood(w) ==
  Op(w) = "stop" /\ step[w].alone /\ step[w].clean =>
    /\ step[w].pc \in {"tails", "term", "kill"} => pid = NoFollower /\ ~up
    /\ step[w].pc \in {"term", "kill"} => (leaked => orphans # {})

WayInv == \A w \in Workers : RotationGood(w) /\ StopGood(w)

\* One command at a time is between Popen and FOLLOW_PID, and only where the
\* follower of FOLLOW_PID is dead.
NewbornInv ==
  /\ \A w, u \in Workers : At(w, "pidfile") /\ At(u, "pidfile") => w = u
  /\ newborn # NoFollower <=> \E w \in Workers : At(w, "pidfile")
  /\ newborn # NoFollower => ~Followed /\ log[newborn] # "free"
  /\ pid # NoFollower => log[pid] # "free"

\* A follower nobody knows of was orphaned between the two.
KnownInv ==
  /\ \A f \in Followers : Follows(f) => f \in orphans \cup {pid, newborn}
  /\ \A f \in tails : log[f] \in {"tail", "clean"}

PhoneInv == PhoneTypeOK /\ PlaceInv /\ AloneInv /\ JobInv /\ WayInv /\ NewbornInv /\ KnownInv

Commands == [pc : Places, op : {"rotate", "start", "stop"}, alone : BOOLEAN, clean : BOOLEAN]

\* The command w goes to pc, or returns; the others stay where they are.
Moves(w, pc) ==
  /\ step' \in [Workers -> Commands]
  /\ step'[w].pc = pc /\ step'[w].op = step[w].op /\ step'[w].alone = step[w].alone
  /\ step'[w].clean => step[w].clean
  /\ \A u \in Workers \ {w} : step'[u] = step[u]

Returned(w) ==
  /\ step' \in [Workers -> Commands]
  /\ step'[w].pc = "idle" /\ step'[w].op = "stop" /\ ~step'[w].alone
  /\ \A u \in Workers \ {w} : step'[u] = step[u]

Stepped(w) ==
  Returned(w) \/ \E pc \in PlacesOf(step[w].op) \ {"idle"} : Moves(w, pc)

LEMMA GotoMoves ==
  ASSUME PhoneTypeOK, NEW w \in Workers, NEW pc \in Places, Goto(w, pc)
  PROVE  Moves(w, pc)
  <1>1. step \in [Workers -> Commands]
    BY DEF PhoneTypeOK, Commands
  <1>2. step' = [step EXCEPT ![w] = [step[w] EXCEPT !.pc = pc]]
    BY <1>1 DEF Goto
  <1>3. step[w] \in Commands
    BY <1>1
  <1>4. [step[w] EXCEPT !.pc = pc] \in Commands
    BY <1>3 DEF Commands
  <1>5. step' \in [Workers -> Commands]
    BY <1>1, <1>2, <1>4
  <1>. QED
    BY <1>1, <1>2, <1>3, <1>5 DEF Moves, Commands

LEMMA ReturnReturned ==
  ASSUME PhoneTypeOK, NEW w \in Workers, Return(w)
  PROVE  Returned(w)
  <1>1. step \in [Workers -> Commands]
    BY DEF PhoneTypeOK, Commands
  <1>2. Away \in Commands
    BY DEF Away, Commands, Places
  <1>3. step' \in [Workers -> Commands]
    BY <1>1, <1>2 DEF Return
  <1>. QED
    BY <1>1, <1>3 DEF Return, Returned, Away

LEMMA PassesMoves ==
  ASSUME PhoneTypeOK, NEW w \in Workers, NEW pc \in Places, NEW ok \in BOOLEAN,
         Passes(w, pc, ok)
  PROVE  Moves(w, pc) /\ (step'[w].clean => ok)
  <1>1. step \in [Workers -> Commands]
    BY DEF PhoneTypeOK, Commands
  <1>. DEFINE gone == [step[w] EXCEPT !.pc = pc]
              cleaned == [gone EXCEPT !.clean = step[w].clean /\ ok]
  <1>2. step' = [step EXCEPT ![w] = cleaned]
    BY <1>1, Zenon DEF Passes
  <1>3. step[w] \in Commands
    BY <1>1
  <1>4. gone \in Commands /\ gone.pc = pc /\ gone.op = step[w].op
        /\ gone.alone = step[w].alone
    BY <1>3 DEF Commands
  <1>5. (step[w].clean /\ ok) \in BOOLEAN
    OBVIOUS
  <1>6. cleaned \in Commands /\ cleaned.pc = pc /\ cleaned.op = step[w].op
        /\ cleaned.alone = step[w].alone /\ (cleaned.clean => step[w].clean /\ ok)
    BY <1>4, <1>5 DEF Commands
  <1>7. step' \in [Workers -> Commands] /\ step'[w] = cleaned
    BY <1>1, <1>2, <1>6
  <1>. QED
    BY <1>1, <1>2, <1>6, <1>7 DEF Moves

\* Where a command begins, no command is alone but it.
Begun(w, op, pc) ==
  /\ step' \in [Workers -> Commands]
  /\ step'[w].pc = pc /\ step'[w].op = op
  /\ step'[w].alone => \A u \in Workers \ {w} : At(u, "idle")
  /\ \A u \in Workers \ {w} :
       step'[u].pc = step[u].pc /\ step'[u].op = step[u].op /\ ~step'[u].alone

LEMMA BeginBegun ==
  ASSUME PhoneTypeOK, NEW w \in Workers, NEW pc \in Places,
         NEW op \in {"rotate", "start", "stop"}, Begin(w, op, pc)
  PROVE  Begun(w, op, pc)
  <1>1. step \in [Workers -> Commands]
    BY DEF PhoneTypeOK, Commands
  <1>. DEFINE quiet == op # "start" /\ \A u \in Workers \ {w} : At(u, "idle")
              new == [pc |-> pc, op |-> op, clean |-> TRUE, alone |-> quiet]
              old(v) == [step[v] EXCEPT !.alone = FALSE]
  <1>2. step' = [v \in Workers |-> IF v = w THEN new ELSE old(v)]
    BY Zenon DEF Begin
  <1>3. quiet \in BOOLEAN
    OBVIOUS
  <1>. HIDE DEF quiet
  <1>4. new \in Commands /\ new.pc = pc /\ new.op = op /\ new.alone = quiet
    BY <1>3 DEF Commands
  <1>5. \A v \in Workers : /\ old(v) \in Commands /\ old(v).pc = step[v].pc
                           /\ old(v).op = step[v].op /\ ~old(v).alone
    BY <1>1 DEF Commands
  <1>. HIDE DEF new, old
  <1>6. step' \in [Workers -> Commands] /\ step'[w] = new
        /\ \A u \in Workers \ {w} : step'[u] = old(u)
    BY <1>2, <1>4, <1>5
  <1>7. step'[w].alone => \A u \in Workers \ {w} : At(u, "idle")
    BY <1>4, <1>6 DEF quiet
  <1>. QED
    BY <1>4, <1>5, <1>6, <1>7 DEF Begun

LEMMA PhoneInitInv == PhoneInit => PhoneInv
  <1>. SUFFICES ASSUME PhoneInit PROVE PhoneInv
    OBVIOUS
  <1>1. \A w \in Workers : step[w].pc = "idle" /\ step[w].op = "stop" /\ step[w].alone = FALSE
    BY DEF PhoneInit, Away
  <1>2. PhoneTypeOK
    <2>1. Away \in Commands
      BY DEF Away, Commands, Places
    <2>2. step \in [Workers -> Commands]
      BY <2>1 DEF PhoneInit
    <2>3. log \in [Followers -> {"free", "open", "tail", "clean", "gone"}]
      BY DEF PhoneInit
    <2>4. airplane \in BOOLEAN /\ up \in BOOLEAN /\ leaked \in BOOLEAN /\ refused \in BOOLEAN
      BY Zenon DEF PhoneInit
    <2>5. kills \in 0..MaxKills
      BY PhoneAssumption DEF PhoneInit
    <2>6. tails \subseteq Followers /\ orphans \subseteq Followers
      BY Zenon DEF PhoneInit
    <2>. QED
      BY <2>2, <2>3, <2>4, <2>5, <2>6 DEF PhoneInit, PhoneTypeOK, Commands, Network
  <1>3. PlaceInv /\ AloneInv
    BY <1>1 DEF PlaceInv, PlacesOf, AloneInv
  <1>4. JobInv
    BY <1>1 DEF JobInv, At, PhoneInit
  <1>5. WayInv
    BY <1>1 DEF WayInv, RotationGood, StopGood
  <1>6. NewbornInv /\ KnownInv
    BY <1>1 DEF NewbornInv, KnownInv, At, Follows, PhoneInit
  <1>. QED
    BY <1>2, <1>3, <1>4, <1>5, <1>6 DEF PhoneInv

LEMMA PlaceType == \A op \in {"rotate", "start", "stop"} : PlacesOf(op) \subseteq Places
  BY DEF PlacesOf, Places

\* A step of a command that was somewhere: the others are as good as they were.
LEMMA SteppedKeeps ==
  ASSUME PhoneTypeOK, PlaceInv, AloneInv, NEW w \in Workers, ~At(w, "idle"), Stepped(w)
  PROVE  /\ PlaceInv' /\ AloneInv' /\ step' \in [Workers -> Commands]
         /\ \A u \in Workers \ {w} : RotationGood(u)' /\ StopGood(u)'
         /\ Returned(w) => RotationGood(w)' /\ StopGood(w)'
  <1>1. \A u \in Workers \ {w} : ~step[u].alone
    BY DEF AloneInv
  <1>2. \A u \in Workers \ {w} : step'[u] = step[u]
    BY DEF Stepped, Moves, Returned
  <1>3. \A u \in Workers \ {w} : RotationGood(u)' /\ StopGood(u)'
    BY <1>1, <1>2 DEF RotationGood, StopGood
  <1>4. PlaceInv'
    <2>1. step'[w].pc \in PlacesOf(step'[w].op)
      BY DEF Stepped, Moves, Returned, PlacesOf
    <2>. QED
      BY <1>2, <2>1 DEF PlaceInv
  <1>5. AloneInv'
    <2>1. step'[w].alone => step[w].alone /\ step'[w].pc # "idle"
      BY DEF Stepped, Moves, Returned
    <2>. QED
      BY <1>1, <1>2, <2>1 DEF AloneInv, At
  <1>6. Returned(w) => RotationGood(w)' /\ StopGood(w)'
    BY DEF Returned, RotationGood, StopGood
  <1>. QED
    BY <1>3, <1>4, <1>5, <1>6 DEF Stepped, Moves, Returned

\* Nobody goes to or from FOLLOW_PID and the followers stay what they are.
LEMMA FollowersRest ==
  ASSUME NewbornInv, KnownInv, UNCHANGED <<log, pid, newborn, orphans>>,
         tails' \subseteq tails,
         \A u \in Workers : At(u, "pidfile")' <=> At(u, "pidfile")
  PROVE  NewbornInv' /\ KnownInv'
  <1>1. Followed' = Followed /\ \A f \in Followers : Follows(f)' = Follows(f)
    BY DEF Followed, Follows
  <1>2. NewbornInv'
    <2>1. \A w, u \in Workers : At(w, "pidfile")' /\ At(u, "pidfile")' => w = u
      BY DEF NewbornInv
    <2>2. newborn' # NoFollower <=> \E w \in Workers : At(w, "pidfile")'
      BY DEF NewbornInv
    <2>3. /\ newborn' # NoFollower => ~Followed' /\ log'[newborn'] # "free"
          /\ pid' # NoFollower => log'[pid'] # "free"
      BY <1>1 DEF NewbornInv
    <2>. QED
      BY <2>1, <2>2, <2>3 DEF NewbornInv
  <1>3. KnownInv'
    BY <1>1 DEF KnownInv
  <1>. QED
    BY <1>2, <1>3

\* A step of a command keeps the invariant if its own part of it is kept.
LEMMA CommandStep ==
  ASSUME PhoneInv, NEW w \in Workers, ~At(w, "idle"), Stepped(w),
         ~At(w, "pidfile"), ~At(w, "pidfile")',
         UNCHANGED <<log, pid, newborn, orphans>>, tails' \subseteq tails,
         UNCHANGED <<transport, kills>>,
         airplane' \in BOOLEAN, up' \in BOOLEAN, leaked' \in BOOLEAN, refused' \in BOOLEAN,
         job' \in {"none", "begun", "on", "ok", "bad"},
         tiny' \in Network \cup {"off"}, bind' \in Network,
         transport = "adb" => job' = "none",
         transport = "ssh" /\ job' = "ok" => ~airplane',
         step'[w].pc \notin {"enable", "launch"},
         Returned(w) \/ (RotationGood(w)' /\ StopGood(w)')
  PROVE  PhoneInv'
  <1>. USE DEF PhoneInv
  <1>1. /\ PlaceInv' /\ AloneInv' /\ step' \in [Workers -> Commands]
        /\ \A u \in Workers \ {w} : RotationGood(u)' /\ StopGood(u)'
        /\ Returned(w) => RotationGood(w)' /\ StopGood(w)'
    BY SteppedKeeps
  <1>2. \A u \in Workers \ {w} : step'[u] = step[u]
    BY DEF Stepped, Moves, Returned
  <1>3. PhoneTypeOK'
    BY <1>1 DEF PhoneTypeOK, Commands
  <1>4. JobInv'
    BY <1>2 DEF JobInv, At
  <1>5. WayInv'
    BY <1>1 DEF WayInv
  <1>6. \A u \in Workers : At(u, "pidfile")' <=> At(u, "pidfile")
    BY <1>2 DEF At
  <1>7. NewbornInv' /\ KnownInv'
    BY <1>6, FollowersRest
  <1>. QED
    BY <1>1, <1>3, <1>4, <1>5, <1>7

LEMMA BeginStep ==
  ASSUME PhoneInv, NEW w \in Workers, NEW pc \in Places, NEW op \in {"rotate", "start", "stop"},
         Begin(w, op, pc), pc \in PlacesOf(op),
         pc \in {"enable", "launch", "sleep", "term", "cleanup", "service"},
         op # "start" => pc # "term",
         pc = "enable" => transport = "adb", pc = "launch" => transport = "ssh"
  PROVE  PhoneInv'
  <1>. USE DEF PhoneInv
  <1>1. Begun(w, op, pc)
    BY BeginBegun
  <1>2. step' \in [Workers -> Commands] /\ At(w, "idle")
    BY <1>1 DEF Begun, Begin
  <1>3. UNCHANGED <<transport, airplane, job, tiny, bind, up, log, pid, newborn, tails, leaked,
                    orphans, refused, kills>>
    BY DEF Begin, phone, follower
  <1>4. PhoneTypeOK'
    BY <1>2, <1>3 DEF PhoneTypeOK, Commands
  <1>5. PlaceInv'
    BY <1>1 DEF PlaceInv, Begun
  <1>6. AloneInv'
    <2>1. step'[w].alone =>
            step'[w].pc # "idle" /\ \A u \in Workers \ {w} : step'[u].pc = "idle"
      BY <1>1 DEF Begun, At
    <2>2. \A u \in Workers \ {w} : ~step'[u].alone
      BY <1>1 DEF Begun
    <2>. QED
      BY <2>1, <2>2 DEF AloneInv, At
  <1>7. JobInv'
    BY <1>1, <1>3 DEF JobInv, At, Begun
  <1>8. WayInv'
    <2>1. \A u \in Workers \ {w} : RotationGood(u)' /\ StopGood(u)'
      BY <1>1 DEF RotationGood, StopGood, Begun
    <2>2. RotationGood(w)' /\ StopGood(w)'
      BY <1>1 DEF RotationGood, StopGood, Begun, Op
    <2>. QED
      BY <2>1, <2>2 DEF WayInv
  <1>9. \A u \in Workers : At(u, "pidfile")' <=> At(u, "pidfile")
    BY <1>1, <1>2 DEF At, Begun
  <1>10. NewbornInv' /\ KnownInv'
    BY <1>3, <1>9, FollowersRest
  <1>. QED
    BY <1>4, <1>5, <1>6, <1>7, <1>8, <1>10

LEMMA ToggleStep == ASSUME PhoneInv, NEW w \in Workers, Toggle(w) PROVE PhoneInv'
  <1>. USE DEF PhoneInv
  <1>1. /\ step[w].pc \in {"enable", "launch", "sleep"}
        /\ Returned(w) \/ (Moves(w, "sleep") /\ ~At(w, "sleep"))
                       \/ (Moves(w, "term") /\ At(w, "sleep"))
    <2>1. "sleep" \in Places /\ "term" \in Places
      BY DEF Places
    <2>2. CASE EnableAdb(w)
      BY <2>1, <2>2, GotoMoves, ReturnReturned DEF EnableAdb, At
    <2>3. CASE DisableAdb(w)
      BY <2>1, <2>3, GotoMoves, ReturnReturned DEF DisableAdb, At
    <2>4. CASE LaunchJob(w)
      BY <2>1, <2>4, GotoMoves, ReturnReturned DEF LaunchJob, At
    <2>5. CASE ReadMarker(w)
      BY <2>1, <2>5, GotoMoves, ReturnReturned DEF ReadMarker, At
    <2>. QED
      BY <2>2, <2>3, <2>4, <2>5 DEF Toggle
  <1>2. step[w].op = "rotate"
    BY <1>1 DEF PlaceInv, PlacesOf, PhoneTypeOK
  <1>3. Stepped(w) /\ ~At(w, "idle") /\ ~At(w, "pidfile") /\ ~At(w, "pidfile")'
        /\ step'[w].pc \notin {"enable", "launch"}
    BY <1>1, <1>2 DEF Stepped, At, Moves, Returned, PlacesOf
  <1>4. UNCHANGED <<log, pid, newborn, tails, leaked, orphans, transport, up, kills>>
    BY DEF Toggle, EnableAdb, DisableAdb, LaunchJob, ReadMarker, follower, phone
  <1>5. /\ airplane' \in BOOLEAN /\ refused' \in BOOLEAN
        /\ tiny' \in Network \cup {"off"} /\ bind' \in Network
    <2>1. CASE UNCHANGED <<airplane, tiny, bind>>
      <3>1. refused' \in {refused, TRUE, FALSE, airplane}
        BY Zenon DEF Toggle, EnableAdb, DisableAdb, LaunchJob, ReadMarker, phone
      <3>. QED
        BY <2>1, <3>1 DEF PhoneTypeOK
    <2>2. CASE \E on \in BOOLEAN : Toggled(on)
      <3>1. refused' \in {refused, TRUE, FALSE, airplane}
        BY Zenon DEF Toggle, EnableAdb, DisableAdb, LaunchJob, ReadMarker, phone
      <3>. QED
        BY <2>2, <3>1 DEF PhoneTypeOK, Toggled, Network
    <2>. QED
      BY <2>1, <2>2 DEF Toggle, EnableAdb, DisableAdb, LaunchJob, ReadMarker, phone
  <1>6. /\ job' \in {"none", "begun", "on", "ok", "bad"}
        /\ transport = "adb" => job' = "none"
        /\ transport = "ssh" /\ job' = "ok" => ~airplane'
    <2>1. CASE EnableAdb(w) \/ DisableAdb(w)
      <3>1. transport = "adb" /\ job' = job
        BY <2>1 DEF EnableAdb, DisableAdb, JobInv
      <3>. QED
        BY <3>1 DEF JobInv
    <2>2. CASE LaunchJob(w)
      <3>1. transport = "ssh" /\ job' \in {"none", "begun"}
        BY <2>2 DEF LaunchJob, JobInv
      <3>. QED
        BY <3>1
    <2>3. CASE ReadMarker(w)
      BY <2>3 DEF ReadMarker, phone, JobInv, PhoneTypeOK
    <2>. QED
      BY <2>1, <2>2, <2>3 DEF Toggle
  <1>7. ASSUME Moves(w, "term"), At(w, "sleep")
        PROVE  ~airplane' /\ (transport = "ssh" => job' = "ok")
    <2>1. ~Moves(w, "sleep") /\ ~Returned(w)
      BY <1>7 DEF Moves, Returned
    <2>2. ~Return(w) /\ ~Goto(w, "sleep")
      BY <2>1, GotoMoves, ReturnReturned DEF Places
    <2>3. CASE DisableAdb(w)
      BY <2>2, <2>3 DEF DisableAdb, Toggled
    <2>4. CASE ReadMarker(w)
      BY <2>2, <2>4 DEF ReadMarker, JobInv, phone
    <2>. QED
      BY <1>7, <2>3, <2>4 DEF Toggle, EnableAdb, LaunchJob, At
  <1>8. Returned(w) \/ (RotationGood(w)' /\ StopGood(w)')
    <2>1. CASE Moves(w, "sleep")
      BY <1>2, <2>1 DEF Moves, RotationGood, StopGood, Op
    <2>2. CASE Moves(w, "term") /\ At(w, "sleep")
      BY <1>2, <1>4, <1>7, <2>2 DEF Moves, RotationGood, StopGood, Op, RotationAt, At
    <2>. QED
      BY <1>1, <2>1, <2>2
  <1>9. up' \in BOOLEAN /\ leaked' \in BOOLEAN /\ tails' \subseteq tails
    BY <1>4 DEF PhoneTypeOK
  <1>. QED
    BY <1>3, <1>4, <1>5, <1>6, <1>8, <1>9, CommandStep

\* The rest of a restart changes neither the mode nor its job.
LEMMA PlainStep ==
  ASSUME PhoneInv, NEW w \in Workers, ~At(w, "idle"), Stepped(w),
         ~At(w, "pidfile"), ~At(w, "pidfile")',
         UNCHANGED <<transport, airplane, job, log, pid, newborn, orphans, refused, kills>>,
         tails' \subseteq tails, up' \in BOOLEAN, leaked' \in BOOLEAN,
         tiny' \in Network \cup {"off"}, bind' \in Network,
         step'[w].pc \notin {"enable", "launch"},
         Returned(w) \/ (RotationGood(w)' /\ StopGood(w)')
  PROVE  PhoneInv'
  <1>1. /\ airplane' \in BOOLEAN /\ refused' \in BOOLEAN
        /\ job' \in {"none", "begun", "on", "ok", "bad"}
        /\ transport = "adb" => job' = "none"
        /\ transport = "ssh" /\ job' = "ok" => ~airplane'
    BY DEF PhoneInv, PhoneTypeOK, JobInv
  <1>. QED
    BY <1>1, CommandStep

LEMMA DisconnectStep == ASSUME PhoneInv, NEW w \in Workers, Disconnect(w) PROVE PhoneInv'
  <1>. USE DEF PhoneInv
  <1>1. Returned(w)
    BY ReturnReturned DEF Disconnect
  <1>2. /\ ~At(w, "idle") /\ ~At(w, "pidfile") /\ ~At(w, "pidfile")'
        /\ step'[w].pc \notin {"enable", "launch"}
    BY <1>1 DEF Disconnect, At, Returned
  <1>3. UNCHANGED <<transport, airplane, job, tiny, bind, up, log, pid, newborn, tails, leaked,
                    orphans, refused, kills>>
    BY DEF Disconnect, phone, follower
  <1>4. tiny' \in Network \cup {"off"} /\ bind' \in Network /\ up' \in BOOLEAN
        /\ leaked' \in BOOLEAN /\ tails' \subseteq tails
    BY <1>3 DEF PhoneTypeOK
  <1>. QED
    BY <1>1, <1>2, <1>3, <1>4, PlainStep DEF Stepped

\* tinyproxy is off, or about to be killed.
LEMMA StoppingStep ==
  ASSUME PhoneInv, NEW w \in Workers, Terminate(w) \/ Kill(w) PROVE PhoneInv'
  <1>. USE DEF PhoneInv
  <1>1. /\ step[w].pc \in {"term", "kill"}
        /\ UNCHANGED <<transport, airplane, job, bind, up, log, pid, newborn, tails, leaked,
                       orphans, refused, kills>>
    BY DEF Terminate, Kill, At, follower
  <1>2. \/ Returned(w)
        \/ Moves(w, "kill") /\ At(w, "term") /\ UNCHANGED tiny
        \/ /\ tiny' = "off" /\ Op(w) # "stop"
           /\ Moves(w, IF transport = "ssh" THEN "fix" ELSE "run")
    <2>1. "kill" \in Places /\ (IF transport = "ssh" THEN "fix" ELSE "run") \in Places
      BY DEF Places
    <2>. QED
      BY <2>1, GotoMoves, ReturnReturned DEF Terminate, Kill, Stopped
  <1>3. step[w].op \in {"rotate", "start", "stop"}
    BY DEF PhoneTypeOK
  <1>4. /\ Stepped(w) /\ ~At(w, "idle") /\ ~At(w, "pidfile") /\ ~At(w, "pidfile")'
        /\ step'[w].pc \notin {"enable", "launch"}
    <2>1. CASE Returned(w)
      BY <1>1, <2>1 DEF Stepped, Returned, At
    <2>2. CASE Moves(w, "kill")
      BY <1>1, <1>3, <2>2 DEF Stepped, Moves, At, PlacesOf
    <2>3. CASE Op(w) # "stop" /\ Moves(w, IF transport = "ssh" THEN "fix" ELSE "run")
      <3>1. (IF transport = "ssh" THEN "fix" ELSE "run") \in PlacesOf(step[w].op) \ {"idle"}
        BY <1>3, <2>3 DEF PlacesOf, Op
      <3>. QED
        BY <1>1, <2>3, <3>1 DEF Stepped, Moves, At
    <2>. QED
      BY <1>2, <2>1, <2>2, <2>3
  <1>5. Returned(w) \/ (RotationGood(w)' /\ StopGood(w)')
    <2>1. RotationGood(w) /\ StopGood(w)
      BY DEF WayInv
    <2>2. CASE Moves(w, "kill") /\ At(w, "term") /\ UNCHANGED tiny
      BY <1>1, <2>1, <2>2 DEF Moves, RotationGood, StopGood, Op, RotationAt, At
    <2>3. CASE /\ tiny' = "off" /\ Op(w) # "stop"
               /\ Moves(w, IF transport = "ssh" THEN "fix" ELSE "run")
      BY <1>1, <2>1, <2>3 DEF Moves, RotationGood, StopGood, Op, RotationAt, At
    <2>. QED
      BY <1>2, <2>2, <2>3
  <1>6. tiny' \in Network \cup {"off"} /\ bind' \in Network /\ up' \in BOOLEAN
        /\ leaked' \in BOOLEAN /\ tails' \subseteq tails
    BY <1>1 DEF PhoneTypeOK, Terminate, Kill
  <1>. QED
    BY <1>1, <1>4, <1>5, <1>6, PlainStep

\* The restart goes on from one place to the next.
LEMMA StartingStep ==
  ASSUME PhoneInv, NEW w \in Workers, Fix(w) \/ Run(w) \/ Status(w) \/ Service(w) \/ Forward(w)
  PROVE  PhoneInv'
  <1>. USE DEF PhoneInv
  <1>1. /\ step[w].pc \in {"fix", "run", "status", "service", "forward"}
        /\ UNCHANGED <<transport, airplane, job, log, pid, newborn, tails, leaked,
                       orphans, refused, kills>>
    BY DEF Fix, Run, Status, Service, Forward, At, follower, phone
  <1>2. step[w].op \in {"rotate", "start"}
    BY <1>1 DEF PlaceInv, PlacesOf, PhoneTypeOK
  <1>3. \/ Returned(w)
        \/ /\ At(w, "fix") /\ Moves(w, "run") /\ UNCHANGED tiny
           /\ bind' = (IF FixScript THEN "current" ELSE bind)
        \/ /\ At(w, "run") /\ Moves(w, "status") /\ UNCHANGED bind
           /\ \/ tiny = "off" /\ tiny' = (IF transport = "adb" THEN "current" ELSE bind)
              \/ UNCHANGED tiny
        \/ At(w, "status") /\ Moves(w, "forward") /\ tiny # "off" /\ UNCHANGED <<tiny, bind>>
        \/ At(w, "service") /\ (Moves(w, "forward") \/ Moves(w, "term"))
        \/ At(w, "forward") /\ Op(w) # "rotate" /\ Moves(w, "follow")
    <2>1. {"run", "status", "forward", "follow", "term"} \subseteq Places
      BY DEF Places
    <2>2. CASE Fix(w)
      BY <2>1, <2>2, GotoMoves, ReturnReturned DEF Fix, EnsureLogfile
    <2>3. CASE Run(w)
      BY <2>1, <2>3, GotoMoves, ReturnReturned DEF Run
    <2>4. CASE Status(w)
      BY <2>1, <2>4, GotoMoves, ReturnReturned DEF Status, phone
    <2>5. CASE Service(w)
      BY <2>1, <2>5, GotoMoves, ReturnReturned DEF Service
    <2>6. CASE Forward(w)
      BY <2>1, <2>6, GotoMoves, ReturnReturned DEF Forward
    <2>. QED
      BY <2>2, <2>3, <2>4, <2>5, <2>6
  <1>4. At(w, "service") => step[w].op = "start"
    BY DEF PlaceInv, PlacesOf, At, PhoneTypeOK
  <1>5. tiny' \in Network \cup {"off"} /\ bind' \in Network /\ up' \in BOOLEAN
        /\ leaked' \in BOOLEAN /\ tails' \subseteq tails
    <2>1. up' \in BOOLEAN
      BY Zenon DEF PhoneTypeOK, Fix, Run, Status, Service, Forward
    <2>2. tiny' \in Network \cup {"off"} /\ bind' \in Network
      BY DEF PhoneTypeOK, Fix, Run, Status, Service, Forward, phone, Network
    <2>. QED
      BY <1>1, <2>1, <2>2 DEF PhoneTypeOK
  <1>6. /\ Stepped(w) /\ ~At(w, "idle") /\ ~At(w, "pidfile") /\ ~At(w, "pidfile")'
        /\ step'[w].pc \notin {"enable", "launch"}
    <2>1. CASE Returned(w)
      BY <1>1, <2>1 DEF Stepped, Returned, At
    <2>2. ASSUME NEW pc \in {"run", "status", "forward", "term"}, Moves(w, pc)
          PROVE  /\ Stepped(w) /\ ~At(w, "idle") /\ ~At(w, "pidfile") /\ ~At(w, "pidfile")'
                 /\ step'[w].pc \notin {"enable", "launch"}
      BY <1>1, <1>2, <2>2 DEF Stepped, Moves, At, PlacesOf
    <2>3. CASE Op(w) # "rotate" /\ Moves(w, "follow")
      BY <1>1, <1>2, <2>3 DEF Stepped, Moves, At, PlacesOf, Op
    <2>. QED
      BY <1>3, <2>1, <2>2, <2>3
  <1>7. Returned(w) \/ (RotationGood(w)' /\ StopGood(w)')
    <2>1. RotationGood(w)
      BY DEF WayInv
    <2>2. tiny \in Network \cup {"off"} /\ transport \in {"adb", "ssh"}
      BY DEF PhoneTypeOK
    <2>3. ~Returned(w) => StopGood(w)'
      BY <1>2, <1>3 DEF StopGood, Op, Moves
    <2>4. ~Returned(w) => RotationGood(w)'
      BY <1>1, <1>2, <1>3, <1>4, <2>1, <2>2
         DEF RotationGood, RotationAt, Unfixed, Op, Moves, At, Network
    <2>. QED
      BY <2>3, <2>4
  <1>. QED
    BY <1>1, <1>5, <1>6, <1>7, PlainStep

\* Only one command at a time can be between Popen and FOLLOW_PID.
LEMMA FollowStep == ASSUME PhoneInv, NEW w \in Workers, Follow(w) PROVE PhoneInv'
  <1>. USE DEF PhoneInv
  <1>1. CASE Return(w) /\ UNCHANGED <<log, newborn>>
    <2>1. Returned(w)
      BY <1>1, ReturnReturned
    <2>2. /\ UNCHANGED <<transport, airplane, job, tiny, bind, up, log, pid, newborn, tails,
                         leaked, orphans, refused, kills>>
          /\ ~At(w, "idle") /\ ~At(w, "pidfile") /\ ~At(w, "pidfile")'
          /\ step'[w].pc \notin {"enable", "launch"}
      BY <1>1, <2>1 DEF Follow, phone, At, Returned
    <2>3. tiny' \in Network \cup {"off"} /\ bind' \in Network /\ up' \in BOOLEAN
          /\ leaked' \in BOOLEAN /\ tails' \subseteq tails
      BY <2>2 DEF PhoneTypeOK
    <2>. QED
      BY <2>1, <2>2, <2>3, PlainStep DEF Stepped
  <1>2. ASSUME NEW f \in Followers, ~Followed, log[f] = "free",
               log' = [log EXCEPT ![f] = "open"], newborn' = f, Goto(w, "pidfile")
        PROVE  PhoneInv'
    <2>1. Moves(w, "pidfile") /\ At(w, "follow") /\ newborn = NoFollower
      BY <1>2, GotoMoves DEF Follow, Places
    <2>2. UNCHANGED <<transport, airplane, job, tiny, bind, up, pid, tails, leaked, orphans,
                      refused, kills>>
      BY DEF Follow, phone
    <2>3. step[w].op = "start"
      BY <2>1 DEF PlaceInv, PlacesOf, At, PhoneTypeOK
    <2>4. Stepped(w) /\ ~At(w, "idle")
      BY <2>1, <2>3 DEF Stepped, PlacesOf, At
    <2>5. /\ PlaceInv' /\ AloneInv' /\ step' \in [Workers -> Commands]
          /\ \A u \in Workers \ {w} : RotationGood(u)' /\ StopGood(u)'
      BY <2>4, SteppedKeeps
    <2>6. WayInv'
      BY <2>1, <2>3, <2>5 DEF WayInv, Moves, RotationGood, StopGood, Op
    <2>7. JobInv'
      BY <2>1, <2>2 DEF JobInv, At, Moves
    <2>8. log' \in [Followers -> {"free", "open", "tail", "clean", "gone"}]
      BY <1>2 DEF PhoneTypeOK
    <2>9. PhoneTypeOK'
      BY <1>2, <2>2, <2>5, <2>8 DEF PhoneTypeOK, Commands
    <2>10. /\ log[f] = "free" /\ log'[f] = "open" /\ f # NoFollower
           /\ \A g \in Followers \ {f} : log'[g] = log[g]
      BY <1>2, PhoneAssumption DEF PhoneTypeOK
    <2>11. pid # f
      BY <2>10 DEF NewbornInv
    <2>12. NewbornInv'
      <3>1. \A u \in Workers : ~At(u, "pidfile")
        BY <2>1 DEF NewbornInv
      <3>2. \A u \in Workers : At(u, "pidfile")' <=> u = w
        BY <2>1, <3>1 DEF At, Moves
      <3>3. ~Followed'
        BY <1>2, <2>2, <2>10, <2>11 DEF Followed, Follows, PhoneTypeOK
      <3>4. pid' # NoFollower => log'[pid'] # "free"
        BY <2>2, <2>10, <2>11 DEF NewbornInv, PhoneTypeOK
      <3>. QED
        BY <1>2, <2>10, <3>2, <3>3, <3>4 DEF NewbornInv
    <2>13. KnownInv'
      <3>1. ASSUME NEW g \in Followers, Follows(g)' PROVE g \in (orphans \cup {pid, newborn})'
        <4>1. CASE g # f
          <5>1. Follows(g) /\ g # NoFollower
            BY <2>10, <3>1, <4>1, PhoneAssumption DEF Follows
          <5>. QED
            BY <2>1, <2>2, <5>1 DEF KnownInv
        <4>. QED
          BY <1>2, <4>1
      <3>2. \A g \in tails' : log'[g] \in {"tail", "clean"}
        BY <2>2, <2>10 DEF KnownInv, PhoneTypeOK
      <3>. QED
        BY <3>1, <3>2 DEF KnownInv
    <2>. QED
      BY <2>5, <2>6, <2>7, <2>9, <2>12, <2>13
  <1>. QED
    BY <1>1, <1>2 DEF Follow

LEMMA WritePidStep == ASSUME PhoneInv, NEW w \in Workers, WritePid(w) PROVE PhoneInv'
  <1>. USE DEF PhoneInv
  <1>1. Returned(w) /\ At(w, "pidfile")
    BY ReturnReturned DEF WritePid
  <1>2. pid' = newborn /\ newborn' = NoFollower
    BY DEF WritePid
  <1>3. UNCHANGED <<transport, airplane, job, tiny, bind, up, log, tails, leaked, orphans,
                    refused, kills>>
    BY DEF WritePid, phone
  <1>4. Stepped(w) /\ ~At(w, "idle")
    BY <1>1 DEF Stepped, At
  <1>5. /\ PlaceInv' /\ AloneInv' /\ step' \in [Workers -> Commands]
        /\ \A u \in Workers \ {w} : RotationGood(u)' /\ StopGood(u)'
        /\ RotationGood(w)' /\ StopGood(w)'
    BY <1>1, <1>4, SteppedKeeps
  <1>6. WayInv'
    BY <1>5 DEF WayInv
  <1>7. JobInv'
    BY <1>1, <1>3 DEF JobInv, At, Returned
  <1>8. PhoneTypeOK'
    BY <1>2, <1>3, <1>5 DEF PhoneTypeOK, Commands
  <1>9. newborn # NoFollower /\ ~Followed /\ log[newborn] # "free"
    BY <1>1 DEF NewbornInv
  <1>10. NewbornInv'
    <2>1. \A u \in Workers : ~At(u, "pidfile")'
      BY <1>1 DEF NewbornInv, At, Returned
    <2>. QED
      BY <1>2, <1>3, <1>9, <2>1 DEF NewbornInv
  <1>11. KnownInv'
    <2>1. ASSUME NEW f \in Followers, Follows(f)' PROVE f \in (orphans \cup {pid, newborn})'
      <3>1. Follows(f)
        BY <1>3, <2>1 DEF Follows
      <3>2. f # pid
        BY <1>9, <3>1, PhoneAssumption DEF Followed
      <3>. QED
        BY <1>2, <1>3, <3>1, <3>2 DEF KnownInv
    <2>. QED
      BY <1>3, <2>1 DEF KnownInv
  <1>. QED
    BY <1>5, <1>6, <1>7, <1>8, <1>10, <1>11

\* The cleanup of the follower and of the forward: what it left is an error.
LEMMA CleanupStep == ASSUME PhoneInv, NEW w \in Workers, Cleanup(w) PROVE PhoneInv'
  <1>. USE DEF PhoneInv
  <1>1. PICK unfollowed, unforwarded \in BOOLEAN :
          /\ Unfollow(unfollowed)
          /\ up' = (up /\ ~unforwarded)
          /\ Passes(w, "tails", unfollowed /\ unforwarded)
    BY Zenon DEF Cleanup
  <1>2. Moves(w, "tails") /\ (step'[w].clean => unfollowed /\ unforwarded)
    <2>1. (unfollowed /\ unforwarded) \in BOOLEAN /\ "tails" \in Places
      BY DEF Places
    <2>. QED
      BY <1>1, <2>1, PassesMoves
  <1>3. At(w, "cleanup") /\ newborn = NoFollower
        /\ UNCHANGED <<transport, airplane, job, tiny, bind, newborn, orphans, refused, kills>>
    BY DEF Cleanup, phone
  <1>4. step[w].op = "stop"
    BY <1>3 DEF PlaceInv, PlacesOf, At, PhoneTypeOK
  <1>5. Stepped(w) /\ ~At(w, "idle")
    BY <1>2, <1>3, <1>4 DEF Stepped, PlacesOf, At
  <1>6. /\ PlaceInv' /\ AloneInv' /\ step' \in [Workers -> Commands]
        /\ \A u \in Workers \ {w} : RotationGood(u)' /\ StopGood(u)'
    BY <1>5, SteppedKeeps
  <1>7. /\ pid' \in {pid, NoFollower} /\ (unfollowed => pid' = NoFollower)
        /\ tails' \subseteq tails /\ leaked' \in BOOLEAN
    BY <1>1 DEF Unfollow, LeavesTail, PhoneTypeOK
  <1>8. \/ ~Followed /\ pid' = NoFollower /\ UNCHANGED <<log, tails>>
        \/ /\ Followed /\ pid' = NoFollower
           /\ log' = [log EXCEPT ![pid] = "gone"] /\ tails' = tails \ {pid}
        \/ pid' = pid /\ UNCHANGED <<log, tails>>
    BY <1>1 DEF Unfollow, LeavesTail
  <1>9. up' \in BOOLEAN /\ (unforwarded => ~up')
    BY <1>1, Zenon
  <1>10. WayInv'
    <2>1. RotationGood(w)'
      BY <1>2, <1>4 DEF RotationGood, Moves, Op
    <2>2. StopGood(w)'
      BY <1>2, <1>7, <1>9 DEF StopGood, Moves, Op
    <2>. QED
      BY <1>6, <2>1, <2>2 DEF WayInv
  <1>11. JobInv'
    BY <1>2, <1>3 DEF JobInv, At, Moves
  <1>12. log' \in [Followers -> {"free", "open", "tail", "clean", "gone"}]
    BY <1>8 DEF PhoneTypeOK
  <1>13. PhoneTypeOK'
    BY <1>3, <1>6, <1>7, <1>9, <1>12 DEF PhoneTypeOK, Commands
  <1>14. NewbornInv'
    <2>1. \A u \in Workers : ~At(u, "pidfile")'
      BY <1>2, <1>3 DEF NewbornInv, At, Moves
    <2>2. pid' # NoFollower => log'[pid'] # "free"
      BY <1>8 DEF NewbornInv
    <2>. QED
      BY <1>3, <2>1, <2>2 DEF NewbornInv
  <1>15. KnownInv'
    <2>1. ASSUME NEW f \in Followers, Follows(f)' PROVE f \in (orphans \cup {pid, newborn})'
      <3>1. Follows(f) /\ f # NoFollower
        BY <1>8, <2>1, PhoneAssumption DEF Follows, PhoneTypeOK
      <3>2. f \in orphans \cup {pid}
        BY <1>3, <3>1 DEF KnownInv
      <3>3. pid' = NoFollower => f # pid
        BY <1>8, <2>1, <3>1 DEF Followed, Follows, PhoneTypeOK
      <3>4. pid' = pid \/ pid' = NoFollower
        BY <1>7
      <3>. QED
        BY <1>3, <3>2, <3>3, <3>4
    <2>2. \A f \in tails' : log'[f] \in {"tail", "clean"}
      BY <1>8 DEF KnownInv, PhoneTypeOK
    <2>. QED
      BY <2>1, <2>2 DEF KnownInv
  <1>. QED
    BY <1>6, <1>10, <1>11, <1>13, <1>14, <1>15

\* The tails are ended, or the error is remembered.
LEMMA TailsStep == ASSUME PhoneInv, NEW w \in Workers, Tails(w) PROVE PhoneInv'
  <1>. USE DEF PhoneInv
  <1>1. /\ At(w, "tails")
        /\ UNCHANGED <<transport, airplane, job, tiny, bind, up, log, pid, newborn, orphans,
                       refused, kills>>
    BY DEF Tails, phone
  <1>2. step[w].op = "stop"
    BY <1>1 DEF PlaceInv, PlacesOf, At, PhoneTypeOK
  <1>3. \/ Returned(w) /\ UNCHANGED <<tails, leaked>>
        \/ Moves(w, "term") /\ tails' = {} /\ leaked' = FALSE
        \/ Moves(w, "term") /\ ~step'[w].clean /\ UNCHANGED <<tails, leaked>>
    BY ReturnReturned, PassesMoves DEF Tails, Places
  <1>4. /\ Stepped(w) /\ ~At(w, "idle") /\ ~At(w, "pidfile") /\ ~At(w, "pidfile")'
        /\ step'[w].pc \notin {"enable", "launch"}
    BY <1>1, <1>2, <1>3 DEF Stepped, At, PlacesOf, Moves, Returned
  <1>5. Returned(w) \/ (RotationGood(w)' /\ StopGood(w)')
    <2>1. StopGood(w)
      BY DEF WayInv
    <2>2. Returned(w) \/ RotationGood(w)'
      BY <1>2, <1>3 DEF RotationGood, Moves, Op
    <2>3. Returned(w) \/ StopGood(w)'
      BY <1>1, <1>2, <1>3, <2>1 DEF StopGood, Moves, Op, At
    <2>. QED
      BY <2>2, <2>3
  <1>6. leaked' \in BOOLEAN /\ tails' \subseteq tails
    BY <1>3 DEF PhoneTypeOK
  <1>7. tiny' \in Network \cup {"off"} /\ bind' \in Network /\ up' \in BOOLEAN
    BY <1>1 DEF PhoneTypeOK
  <1>. QED
    BY <1>1, <1>4, <1>5, <1>6, <1>7, PlainStep

\* A killed command leaves its follower an orphan.
LEMMA KillStep == ASSUME PhoneInv, NEW w \in Workers, KillWorker(w) PROVE PhoneInv'
  <1>. USE DEF PhoneInv
  <1>1. Returned(w) /\ ~At(w, "idle")
    BY ReturnReturned DEF KillWorker
  <1>2. /\ UNCHANGED <<transport, airplane, job, tiny, bind, up, log, pid, tails, leaked>>
        /\ orphans' = orphans \cup (IF At(w, "pidfile") THEN {newborn} ELSE {})
        /\ newborn' = IF At(w, "pidfile") THEN NoFollower ELSE newborn
    BY DEF KillWorker, phone
  <1>3. /\ PlaceInv' /\ AloneInv' /\ step' \in [Workers -> Commands] /\ WayInv'
    BY <1>1, SteppedKeeps DEF Stepped, WayInv
  <1>4. At(w, "pidfile") => newborn \in Followers
    BY DEF NewbornInv, PhoneTypeOK
  <1>5. PhoneTypeOK'
    <2>1. kills' \in 0..MaxKills
      BY PhoneAssumption DEF KillWorker, PhoneTypeOK
    <2>2. refused' \in BOOLEAN
      BY Zenon DEF KillWorker
    <2>3. orphans' \subseteq Followers /\ newborn' \in Followers \cup {NoFollower}
      BY <1>2, <1>4 DEF PhoneTypeOK
    <2>. QED
      BY <1>2, <1>3, <2>1, <2>2, <2>3 DEF PhoneTypeOK, Commands
  <1>6. JobInv'
    BY <1>1, <1>2 DEF JobInv, At, Returned
  <1>7. NewbornInv' /\ KnownInv'
    <2>1. CASE At(w, "pidfile")
      <3>1. \A u \in Workers : ~At(u, "pidfile")'
        BY <1>1, <2>1 DEF NewbornInv, At, Returned
      <3>2. NewbornInv'
        BY <1>2, <2>1, <3>1 DEF NewbornInv
      <3>3. KnownInv'
        BY <1>2, <2>1 DEF KnownInv, Follows
      <3>. QED
        BY <3>2, <3>3
    <2>2. CASE ~At(w, "pidfile")
      <3>1. \A u \in Workers : At(u, "pidfile")' <=> At(u, "pidfile")
        BY <1>1, <2>2 DEF At, Returned
      <3>. QED
        BY <1>2, <2>2, <3>1, FollowersRest
    <2>. QED
      BY <2>1, <2>2
  <1>. QED
    BY <1>3, <1>5, <1>6, <1>7

\* The phone runs its job only while no rotation is past its own.
LEMMA JobStep == ASSUME PhoneInv, JobEnable \/ JobDisable PROVE PhoneInv'
  <1>. USE DEF PhoneInv
  <1>1. /\ UNCHANGED <<transport, up, step, log, pid, newborn, tails, leaked, orphans, kills>>
        /\ job \in {"begun", "on"}
    BY DEF JobEnable, JobDisable, follower
  <1>2. /\ job' \in {"on", "ok", "bad"} /\ (job' = "ok" => ~airplane')
        /\ airplane' \in BOOLEAN /\ tiny' \in Network \cup {"off"} /\ bind' \in Network
    BY DEF JobEnable, JobDisable, Toggled, PhoneTypeOK, Network
  <1>3. refused' \in BOOLEAN
    BY Zenon DEF JobEnable, JobDisable, PhoneTypeOK
  <1>4. PhoneTypeOK'
    BY <1>1, <1>2, <1>3 DEF PhoneTypeOK
  <1>5. PlaceInv' /\ AloneInv'
    BY <1>1 DEF PlaceInv, AloneInv, At
  <1>6. transport = "ssh"
    BY <1>1 DEF JobInv, PhoneTypeOK
  <1>7. JobInv'
    BY <1>1, <1>2, <1>6 DEF JobInv, At
  <1>8. WayInv'
    <2>1. \A w \in Workers : RotationGood(w) /\ ~RotationAt(w)
      BY <1>1, <1>6 DEF WayInv, RotationAt
    <2>2. \A w \in Workers : RotationGood(w)'
      BY <1>1, <2>1 DEF RotationGood, Op
    <2>3. \A w \in Workers : StopGood(w)'
      BY <1>1 DEF WayInv, StopGood, Op
    <2>. QED
      BY <2>2, <2>3 DEF WayInv
  <1>9. NewbornInv' /\ KnownInv'
    BY <1>1, FollowersRest DEF At
  <1>. QED
    BY <1>4, <1>5, <1>7, <1>8, <1>9

\* A follower goes on, ends or is ended; none begins here.
LEMMA FollowerStep ==
  ASSUME PhoneInv, NEW f \in Followers,
         OpenTail(f) \/ LoseTail(f) \/ CleanTail(f) \/ FollowerDies(f)
  PROVE  PhoneInv'
  <1>. USE DEF PhoneInv
  <1>1. UNCHANGED <<transport, airplane, job, tiny, bind, up, step, pid, newborn, orphans,
                    refused, kills>>
    BY DEF OpenTail, LoseTail, CleanTail, FollowerDies, phone
  <1>2. /\ Follows(f) /\ tails' \subseteq tails \cup {f}
        /\ \E place \in {"open", "tail", "clean", "gone"} :
             /\ log' = [log EXCEPT ![f] = place]
             /\ f \in tails' => place \in {"tail", "clean"}
    <2>1. CASE OpenTail(f)
      BY <2>1 DEF OpenTail, Follows
    <2>2. CASE LoseTail(f)
      BY <2>2 DEF LoseTail, Follows
    <2>3. CASE CleanTail(f)
      BY <2>3 DEF CleanTail, Follows, LeavesTail
    <2>4. CASE FollowerDies(f)
      BY <2>4 DEF FollowerDies
    <2>. QED
      BY <2>1, <2>2, <2>3, <2>4
  <1>3. leaked' \in BOOLEAN /\ (leaked' => leaked \/ f \in tails)
    <2>. DEFINE both == leaked \/ f \in tails
    <2>1. both \in BOOLEAN /\ leaked \in BOOLEAN /\ (both => leaked \/ f \in tails)
      BY Zenon DEF PhoneTypeOK
    <2>2. leaked' = leaked \/ leaked' = both
      BY Zenon DEF OpenTail, LoseTail, CleanTail, FollowerDies, LeavesTail
    <2>. HIDE DEF both
    <2>. QED
      BY <2>1, <2>2
  <1>4. /\ log' \in [Followers -> {"free", "open", "tail", "clean", "gone"}]
        /\ log'[f] # "free" /\ (f \in tails' => log'[f] \in {"tail", "clean"})
        /\ \A g \in Followers \ {f} : log'[g] = log[g]
    BY <1>2 DEF PhoneTypeOK
  <1>5. tails' \subseteq Followers
    BY <1>2 DEF PhoneTypeOK
  <1>6. PhoneTypeOK'
    BY <1>1, <1>3, <1>4, <1>5 DEF PhoneTypeOK
  <1>7. PlaceInv' /\ AloneInv' /\ JobInv'
    BY <1>1 DEF PlaceInv, AloneInv, JobInv, At
  <1>8. \A g \in Followers : Follows(g)' => Follows(g)
    BY <1>2, <1>4 DEF Follows
  <1>9. NewbornInv'
    <2>1. \A w, u \in Workers : At(w, "pidfile")' /\ At(u, "pidfile")' => w = u
      BY <1>1 DEF NewbornInv, At
    <2>2. newborn' # NoFollower <=> \E w \in Workers : At(w, "pidfile")'
      BY <1>1 DEF NewbornInv, At
    <2>3. Followed' => Followed
      BY <1>1, <1>8 DEF Followed, PhoneTypeOK
    <2>4. \A g \in Followers : log[g] # "free" => log'[g] # "free"
      BY <1>4
    <2>5. /\ newborn' # NoFollower => ~Followed' /\ log'[newborn'] # "free"
          /\ pid' # NoFollower => log'[pid'] # "free"
      BY <1>1, <2>3, <2>4 DEF NewbornInv, PhoneTypeOK
    <2>. QED
      BY <2>1, <2>2, <2>5 DEF NewbornInv
  <1>10. KnownInv'
    <2>1. \A g \in Followers : Follows(g)' => g \in (orphans \cup {pid, newborn})'
      BY <1>1, <1>8 DEF KnownInv
    <2>2. \A g \in tails' : log'[g] \in {"tail", "clean"}
      BY <1>2, <1>4 DEF KnownInv, PhoneTypeOK
    <2>. QED
      BY <2>1, <2>2 DEF KnownInv
  <1>11. ASSUME NEW w \in Workers PROVE RotationGood(w)' /\ StopGood(w)'
    <2>1. RotationGood(w) /\ StopGood(w)
      BY DEF WayInv
    <2>2. RotationGood(w)'
      BY <1>1, <2>1 DEF RotationGood, RotationAt, Unfixed, Op, At
    <2>3. step[w].alone /\ step[w].pc \in {"term", "kill"} => newborn = NoFollower
      BY DEF AloneInv, NewbornInv, At
    <2>4. pid = NoFollower /\ newborn = NoFollower => f \in orphans
      BY <1>2, PhoneAssumption DEF KnownInv
    <2>5. StopGood(w)'
      BY <1>1, <1>3, <2>1, <2>3, <2>4 DEF StopGood, Op
    <2>. QED
      BY <2>2, <2>5
  <1>12. WayInv'
    BY <1>11 DEF WayInv
  <1>. QED
    BY <1>6, <1>7, <1>9, <1>10, <1>12

LEMMA PhoneStep == PhoneInv /\ [PhoneNext]_phoneVars => PhoneInv'
  <1>. SUFFICES ASSUME PhoneInv, [PhoneNext]_phoneVars PROVE PhoneInv'
    OBVIOUS
  <1>1. ASSUME NEW w \in Workers, CallRotate(w) \/ CallStart(w) \/ CallEnsure(w) \/ CallStop(w)
        PROVE  PhoneInv'
    <2>1. CASE CallRotate(w)
      <3>1. transport \in {"adb", "ssh"}
        BY DEF PhoneInv, PhoneTypeOK
      <3>. QED
        BY <2>1, <3>1, BeginStep DEF CallRotate, Places, PlacesOf
    <2>2. CASE CallStart(w)
      BY <2>2, BeginStep DEF CallStart, Places, PlacesOf
    <2>3. CASE CallEnsure(w)
      BY <2>3, BeginStep DEF CallEnsure, Places, PlacesOf
    <2>4. CASE CallStop(w)
      BY <2>4, BeginStep DEF CallStop, Places, PlacesOf
    <2>. QED
      BY <1>1, <2>1, <2>2, <2>3, <2>4
  <1>2. ASSUME NEW w \in Workers, Restart(w) PROVE PhoneInv'
    BY <1>2, DisconnectStep, StoppingStep, StartingStep, FollowStep, WritePidStep DEF Restart
  <1>3. ASSUME NEW w \in Workers, Toggle(w) \/ Cleanup(w) \/ Tails(w) \/ KillWorker(w)
        PROVE  PhoneInv'
    BY <1>3, ToggleStep, CleanupStep, TailsStep, KillStep
  <1>4. CASE UNCHANGED phoneVars
    BY <1>4 DEF phoneVars, phone, follower, PhoneInv, PhoneTypeOK, PlaceInv, AloneInv, JobInv,
       WayInv, RotationGood, RotationAt, Unfixed, StopGood, NewbornInv, KnownInv, Follows, Followed,
       At, Op
  <1>. QED
    BY <1>1, <1>2, <1>3, <1>4, JobStep, FollowerStep DEF PhoneNext

LEMMA PhoneInvariant == PhoneSpec => []PhoneInv
  BY PhoneInitInv, PhoneStep, PTL DEF PhoneSpec

\* rotate_ip that nobody disturbed comes to its last step with the phone out of the airplane
\* mode, over adb and by the job of the phone, and with tinyproxy bound to the network of now.
THEOREM RotationIsWhole == PhoneSpec => []RotationWhole
  <1>1. PhoneInv => RotationWhole
    BY DEF PhoneInv, WayInv, RotationGood, RotationAt, Unfixed, RotationWhole, At
  <1>. QED
    BY <1>1, PhoneInvariant, PTL

\* stop_proxy that nobody disturbed and that reports success left no forward, and no follower
\* or tail but those of a start that was killed before it wrote FOLLOW_PID.
THEOREM StopLeavesNothing == PhoneSpec => StopClears
  <1>1. PhoneInv /\ [PhoneNext]_phoneVars =>
          [\A w \in Workers :
             step[w].pc \in {"term", "kill"} /\ Op(w) = "stop" /\ step[w].alone
               /\ step[w].clean /\ step'[w].pc = "idle" /\ tiny' = "off" =>
                 /\ \A f \in Followers : Follows(f) => f \in orphans
                 /\ tails \subseteq orphans
                 /\ leaked => orphans # {}
                 /\ ~up]_phoneVars
    <2>. SUFFICES ASSUME PhoneInv, NEW w \in Workers, step[w].pc \in {"term", "kill"},
                         Op(w) = "stop", step[w].alone, step[w].clean
                  PROVE  /\ \A f \in Followers : Follows(f) => f \in orphans
                         /\ tails \subseteq orphans
                         /\ leaked => orphans # {}
                         /\ ~up
      OBVIOUS
    <2>1. pid = NoFollower /\ ~up /\ (leaked => orphans # {})
      BY DEF PhoneInv, WayInv, StopGood
    <2>2. newborn = NoFollower
      BY DEF PhoneInv, AloneInv, NewbornInv, At
    <2>3. \A f \in Followers : Follows(f) => f \in orphans
      BY <2>1, <2>2, PhoneAssumption DEF PhoneInv, KnownInv
    <2>4. tails \subseteq orphans
      BY <2>3 DEF PhoneInv, PhoneTypeOK, KnownInv, Follows
    <2>. QED
      BY <2>1, <2>3, <2>4
  <1>. QED
    BY <1>1, PhoneInvariant, PTL DEF PhoneSpec, StopClears

---------------------------------------------------------------------------
(* The viewed ads. *)

Entries == [ad : Ads, due : BOOLEAN]
AdsIn(s) == {s[i].ad : i \in DOMAIN s}
Once(s) == \A i, j \in DOMAIN s : s[i].ad = s[j].ad => i = j

ViewedInv == ViewedTypeOK /\ EveryAdScheduled

\* A finite set as a sequence holds each of its members once.
LEMMA ListOfSet ==
  ASSUME NEW S, IsFiniteSet(S)
  PROVE  /\ SetToSeq(S) \in Seq(S)
         /\ \A x \in S : \E i \in DOMAIN SetToSeq(S) : SetToSeq(S)[i] = x
         /\ \A i, j \in DOMAIN SetToSeq(S) : SetToSeq(S)[i] = SetToSeq(S)[j] => i = j
  <1>. DEFINE n == Cardinality(S)
  <1>1. n \in Nat /\ \E f : f \in Bijection(1..n, S)
    BY FS_CardinalityType DEF ExistsBijection
  <1>2. \E f \in [1..n -> S] : IsInjective(f)
    BY <1>1 DEF Bijection, Injection
  <1>3. SetToSeq(S) \in [1..n -> S] /\ IsInjective(SetToSeq(S))
    BY <1>2 DEF SetToSeq
  <1>. DEFINE f == SetToSeq(S)
  <1>. HIDE DEF f
  <1>4. f \in Injection(1..n, S)
    BY <1>3 DEF Injection, f
  <1>5. Cardinality(1..n) = n
    BY <1>1, FS_Interval
  <1>6. f \in Surjection(1..n, S)
    BY <1>4, <1>5, FS_Injection
  <1>7. f \in Seq(S) /\ DOMAIN f = 1..n
    BY <1>1, <1>3 DEF f
  <1>. QED
    BY <1>3, <1>6, <1>7 DEF Surjection, IsInjective, f

\* The entries made for some ads are of each of them, once.
LEMMA NewList ==
  ASSUME NEW A \in SUBSET Ads
  PROVE  LET s == SetToSeq({[ad |-> a, due |-> FALSE] : a \in A})
         IN  s \in Seq(Entries) /\ AdsIn(s) = A /\ Once(s)
  <1>. DEFINE T == {[ad |-> a, due |-> FALSE] : a \in A}
              f == [a \in A |-> [ad |-> a, due |-> FALSE]]
              s == SetToSeq(T)
  <1>1. IsFiniteSet(A)
    BY ViewedAssumption, FS_Subset
  <1>2. f \in Surjection(A, T)
    BY DEF Surjection
  <1>3. IsFiniteSet(T)
    BY <1>1, <1>2, FS_Surjection
  <1>4. /\ s \in Seq(T) /\ \A x \in T : \E i \in DOMAIN s : s[i] = x
        /\ \A i, j \in DOMAIN s : s[i] = s[j] => i = j
    BY <1>3, ListOfSet
  <1>. HIDE DEF s
  <1>5. \A i \in DOMAIN s : s[i] \in T
    BY <1>4
  <1>6. T \subseteq Entries /\ \A x \in T : x.ad \in A /\ x = [ad |-> x.ad, due |-> FALSE]
    <2>1. \A a \in A : LET e == [ad |-> a, due |-> FALSE]
                     IN  e \in Entries /\ e.ad = a
      <3>1. A \subseteq Ads /\ FALSE \in BOOLEAN
        OBVIOUS
      <3>. QED
        BY <3>1 DEF Entries
    <2>2. ASSUME NEW x \in T
          PROVE  x \in Entries /\ x.ad \in A /\ x = [ad |-> x.ad, due |-> FALSE]
      <3>1. PICK a \in A : x = [ad |-> a, due |-> FALSE]
        OBVIOUS
      <3>. QED
        BY <2>1, <3>1
    <2>. QED
      BY <2>2
  <1>7. s \in Seq(Entries)
    BY <1>4, <1>5, <1>6
  <1>8. AdsIn(s) = A
    <2>1. AdsIn(s) \subseteq A
      BY <1>5, <1>6 DEF AdsIn
    <2>2. ASSUME NEW a \in A PROVE a \in AdsIn(s)
      <3>1. [ad |-> a, due |-> FALSE] \in T
        OBVIOUS
      <3>2. PICK i \in DOMAIN s : s[i] = [ad |-> a, due |-> FALSE]
        BY <1>4, <3>1
      <3>. QED
        BY <3>2 DEF AdsIn
    <2>. QED
      BY <2>1, <2>2
  <1>9. Once(s)
    <2>1. ASSUME NEW i \in DOMAIN s, NEW j \in DOMAIN s, s[i].ad = s[j].ad PROVE i = j
      <3>1. s[i] = s[j]
        BY <1>5, <1>6, <2>1
      <3>. QED
        BY <1>4, <3>1
    <2>. QED
      BY <2>1 DEF Once
  <1>. QED
    BY <1>7, <1>8, <1>9 DEF s

\* Two lists of different ads, one after the other.
LEMMA JoinedList ==
  ASSUME NEW s \in Seq(Entries), NEW t \in Seq(Entries), Once(s), Once(t),
         AdsIn(s) \cap AdsIn(t) = {}
  PROVE  s \o t \in Seq(Entries) /\ AdsIn(s \o t) = AdsIn(s) \cup AdsIn(t) /\ Once(s \o t)
  <1>. DEFINE r == s \o t
              m == Len(s)
              n == Len(t)
  <1>1. m \in Nat /\ n \in Nat /\ DOMAIN s = 1..m /\ DOMAIN t = 1..n
    OBVIOUS
  <1>2. /\ r \in Seq(Entries) /\ Len(r) = m + n
        /\ \A i \in 1..(m + n) : r[i] = IF i <= m THEN s[i] ELSE t[i - m]
    BY ConcatProperties
  <1>3. DOMAIN r = 1..(m + n)
    BY <1>2
  <1>. HIDE DEF r, m, n
  <1>4. \A i \in 1..m : r[i] = s[i]
    BY <1>1, <1>2
  <1>5. \A i \in 1..n : r[i + m] = t[i]
    BY <1>1, <1>2
  <1>6. \A i \in 1..(m + n) : i \in 1..m \/ (i - m \in 1..n /\ r[i] = t[i - m])
    BY <1>1, <1>2
  <1>7. AdsIn(r) = AdsIn(s) \cup AdsIn(t)
    <2>1. AdsIn(r) \subseteq AdsIn(s) \cup AdsIn(t)
      BY <1>1, <1>3, <1>4, <1>6 DEF AdsIn
    <2>2. AdsIn(s) \subseteq AdsIn(r)
      BY <1>1, <1>3, <1>4 DEF AdsIn
    <2>3. AdsIn(t) \subseteq AdsIn(r)
      <3>1. ASSUME NEW i \in 1..n PROVE t[i].ad \in AdsIn(r)
        <4>1. i + m \in 1..(m + n) /\ r[i + m] = t[i]
          BY <1>1, <1>5
        <4>. QED
          BY <1>3, <4>1 DEF AdsIn
      <3>. QED
        BY <1>1, <3>1 DEF AdsIn
    <2>. QED
      BY <2>1, <2>2, <2>3
  <1>8. Once(r)
    <2>1. ASSUME NEW i \in 1..(m + n), NEW j \in 1..(m + n), r[i].ad = r[j].ad PROVE i = j
      <3>1. CASE i \in 1..m /\ j \in 1..m
        BY <1>1, <1>4, <2>1, <3>1 DEF Once
      <3>2. CASE i \notin 1..m /\ j \notin 1..m
        <4>1. t[i - m].ad = t[j - m].ad /\ i - m \in 1..n /\ j - m \in 1..n
          BY <1>6, <2>1, <3>2
        <4>2. i - m = j - m
          BY <1>1, <4>1 DEF Once
        <4>. QED
          BY <1>1, <4>2
      <3>3. CASE i \in 1..m /\ j \notin 1..m
        <4>1. r[i].ad \in AdsIn(s) /\ r[j].ad \in AdsIn(t)
          BY <1>1, <1>4, <1>6, <3>3 DEF AdsIn
        <4>. QED
          BY <2>1, <4>1
      <3>4. CASE i \notin 1..m /\ j \in 1..m
        <4>1. r[j].ad \in AdsIn(s) /\ r[i].ad \in AdsIn(t)
          BY <1>1, <1>4, <1>6, <3>4 DEF AdsIn
        <4>. QED
          BY <2>1, <4>1
      <3>. QED
        BY <3>1, <3>2, <3>3, <3>4
    <2>. QED
      BY <1>3, <2>1 DEF Once
  <1>. QED
    BY <1>2, <1>7, <1>8 DEF r

\* The schedule without an ad is of all its other ads, once.
LEMMA WithoutList ==
  ASSUME schedule \in Seq(Entries), Once(schedule), NEW ad
  PROVE  Without(ad) \in Seq(Entries) /\ AdsIn(Without(ad)) = Scheduled \ {ad}
         /\ Once(Without(ad))
  <1>1. CASE ad \notin Scheduled
    BY <1>1 DEF Without, AdsIn, Scheduled
  <1>2. CASE ad \in Scheduled
    <2>. DEFINE k == CHOOSE i \in DOMAIN schedule : schedule[i].ad = ad
                n == Len(schedule)
                a == SubSeq(schedule, 1, k - 1)
                b == SubSeq(schedule, k + 1, n)
    <2>1. k \in DOMAIN schedule /\ schedule[k].ad = ad
      BY <1>2 DEF Scheduled
    <2>2. n \in Nat /\ DOMAIN schedule = 1..n
      OBVIOUS
    <2>3. Without(ad) = a \o b
      BY <1>2 DEF Without, RemoveAt
    <2>. HIDE DEF k, n
    <2>4. k \in 1..n
      BY <2>1, <2>2
    <2>5. \A i \in 1..n : schedule[i] \in Entries
      BY <2>2
    <2>6. /\ a \in Seq(Entries) /\ Len(a) = k - 1 /\ DOMAIN a = 1..(k - 1)
          /\ \A i \in 1..(k - 1) : a[i] = schedule[i]
      <3>1. \A i \in 1..(k - 1) : schedule[i] \in Entries
        BY <2>2, <2>4, <2>5
      <3>2. /\ a \in Seq(Entries) /\ Len(a) = (IF 1 <= k - 1 THEN k - 1 - 1 + 1 ELSE 0)
            /\ \A i \in 1..(k - 1 - 1 + 1) : a[i] = schedule[1 + i - 1]
        BY <2>2, <2>4, <3>1, SubSeqProperties
      <3>. HIDE DEF a
      <3>3. Len(a) = k - 1
        BY <2>2, <2>4, <3>2
      <3>4. DOMAIN a = 1..(k - 1)
        BY <3>2, <3>3
      <3>. QED
        BY <2>2, <2>4, <3>2, <3>3, <3>4
    <2>7. /\ b \in Seq(Entries) /\ Len(b) = n - k /\ DOMAIN b = 1..(n - k)
          /\ \A i \in 1..(n - k) : b[i] = schedule[k + i]
      <3>1. \A i \in (k + 1)..n : schedule[i] \in Entries
        BY <2>2, <2>4, <2>5
      <3>2. /\ b \in Seq(Entries)
            /\ Len(b) = (IF k + 1 <= n THEN n - (k + 1) + 1 ELSE 0)
            /\ \A i \in 1..(n - (k + 1) + 1) : b[i] = schedule[(k + 1) + i - 1]
        BY <2>2, <2>4, <3>1, SubSeqProperties
      <3>. HIDE DEF b
      <3>3. Len(b) = n - k
        BY <2>2, <2>4, <3>2
      <3>4. DOMAIN b = 1..(n - k)
        BY <3>2, <3>3
      <3>. QED
        BY <2>2, <2>4, <3>2, <3>3, <3>4
    <2>. HIDE DEF a, b
    <2>8. Once(a) /\ Once(b)
      <3>1. Once(a)
        BY <2>2, <2>4, <2>6 DEF Once
      <3>2. ASSUME NEW i \in 1..(n - k), NEW j \in 1..(n - k), b[i].ad = b[j].ad PROVE i = j
        <4>1. schedule[k + i].ad = schedule[k + j].ad /\ k + i \in 1..n /\ k + j \in 1..n
          BY <2>2, <2>4, <2>7, <3>2
        <4>2. k + i = k + j
          BY <2>2, <4>1 DEF Once
        <4>. QED
          BY <2>2, <2>4, <4>2
      <3>. QED
        BY <2>7, <3>1, <3>2 DEF Once
    <2>9. AdsIn(a) \cap AdsIn(b) = {}
      <3>1. ASSUME NEW i \in 1..(k - 1), NEW j \in 1..(n - k), a[i].ad = b[j].ad PROVE FALSE
        <4>1. schedule[i].ad = schedule[k + j].ad /\ i \in 1..n /\ k + j \in 1..n
              /\ i # k + j
          BY <2>2, <2>4, <2>6, <2>7, <3>1
        <4>. QED
          BY <2>2, <4>1 DEF Once
      <3>. QED
        BY <2>6, <2>7, <3>1 DEF AdsIn
    <2>10. AdsIn(a) \cup AdsIn(b) = Scheduled \ {ad}
      <3>1. ASSUME NEW i \in 1..n, i # k PROVE schedule[i].ad \in AdsIn(a) \cup AdsIn(b)
        <4>1. CASE i < k
          <5>1. i \in 1..(k - 1)
            BY <2>2, <2>4, <4>1
          <5>. QED
            BY <2>6, <5>1 DEF AdsIn
        <4>2. CASE i > k
          <5>1. i - k \in 1..(n - k) /\ k + (i - k) = i
            BY <2>2, <2>4, <4>2
          <5>2. b[i - k] = schedule[i]
            BY <2>7, <5>1
          <5>. QED
            BY <2>7, <5>1, <5>2 DEF AdsIn
        <4>. QED
          BY <2>2, <2>4, <3>1, <4>1, <4>2
      <3>2. ASSUME NEW i \in 1..n, i # k PROVE schedule[i].ad # ad
        BY <2>1, <2>2, <3>2 DEF Once
      <3>3. \A i \in 1..(k - 1) : i \in 1..n /\ i # k
        BY <2>2, <2>4
      <3>4. \A i \in 1..(n - k) : k + i \in 1..n /\ k + i # k
        BY <2>2, <2>4
      <3>5. AdsIn(a) \cup AdsIn(b) \subseteq Scheduled \ {ad}
        BY <2>2, <2>6, <2>7, <3>2, <3>3, <3>4 DEF AdsIn, Scheduled
      <3>6. Scheduled \ {ad} \subseteq AdsIn(a) \cup AdsIn(b)
        BY <2>1, <2>2, <3>1 DEF Scheduled
      <3>. QED
        BY <3>5, <3>6
    <2>. QED
      BY <2>3, <2>6, <2>7, <2>8, <2>9, <2>10, JoinedList
  <1>. QED
    BY <1>1, <1>2

MigrationOK == migration \subseteq 1..MaxRowid /\ reused \subseteq 1..MaxRowid

\* The schedule is a list of ads, each once, of all that have rows.
LEMMA ScheduleList ==
  ViewedInv <=>
    /\ viewed \subseteq Rows /\ scan \in [Links -> Pages]
    /\ refresher \in Ads \cup {NoAd} /\ script \in SUBSET Ads /\ MigrationOK
    /\ schedule \in Seq(Entries) /\ Once(schedule)
    /\ \A row \in viewed : row.ad \in AdsIn(schedule)
  BY DEF ViewedInv, ViewedTypeOK, MigrationOK, EveryAdScheduled, Entries, Once, AdsIn, Scheduled

\* The same of the next state.
LEMMA ScheduleListNext ==
  ASSUME viewed' \subseteq Rows, scan' \in [Links -> Pages],
         refresher' \in Ads \cup {NoAd}, script' \in SUBSET Ads, MigrationOK',
         schedule' \in Seq(Entries), Once(schedule'),
         \A row \in viewed' : row.ad \in AdsIn(schedule')
  PROVE  ViewedInv'
  BY DEF ViewedInv, ViewedTypeOK, MigrationOK, EveryAdScheduled, Entries, Once, AdsIn, Scheduled

AllEvents == [ad : Ads, price : Prices, key : Keys]

\* A row is its event with the rowid it was given.
LEMMA RowedRows ==
  ASSUME NEW E \in SUBSET AllEvents, NEW number \in [E -> 1..MaxRowid]
  PROVE  /\ Rowed(E, number) \subseteq Rows
         /\ \A row \in Rowed(E, number) : \E e \in E :
              row = [rowid |-> number[e], ad |-> e.ad, price |-> e.price, key |-> e.key]
  <1>1. \A row \in Rowed(E, number) : \E e \in E :
          row = [rowid |-> number[e], ad |-> e.ad, price |-> e.price, key |-> e.key]
    BY DEF Rowed
  <1>2. ASSUME NEW e \in E
        PROVE  [rowid |-> number[e], ad |-> e.ad, price |-> e.price, key |-> e.key] \in Rows
    <2>1. e.ad \in Ads /\ e.price \in Prices /\ e.key \in Keys
      BY DEF AllEvents
    <2>2. number[e] \in 1..MaxRowid
      OBVIOUS
    <2>. QED
      BY <2>1, <2>2 DEF Rows
  <1>. QED
    BY <1>1, <1>2

LEMMA ViewedInitInv == ViewedInit => ViewedInv
  <1>. SUFFICES ASSUME ViewedInit PROVE ViewedInv
    OBVIOUS
  <1>. DEFINE A == {row.ad : row \in viewed}
  <1>0. PICK old \in SUBSET [ad : Ads, price : Prices, key : {Unassigned}] :
               \E number \in [old -> 1..MaxRowid] : viewed = Rowed(old, number)
    BY DEF ViewedInit
  <1>1. PICK number \in [old -> 1..MaxRowid] : viewed = Rowed(old, number)
    BY <1>0
  <1>2. A \in SUBSET Ads /\ viewed \subseteq Rows
    <2>1. old \in SUBSET AllEvents
      BY DEF AllEvents, Keys
    <2>2. viewed \subseteq Rows
      BY <1>1, <2>1, RowedRows
    <2>. QED
      BY <2>2 DEF Rows
  <1>3. schedule = SetToSeq({[ad |-> a, due |-> FALSE] : a \in A})
    <2>1. {[ad |-> row.ad, due |-> FALSE] : row \in viewed} =
            {[ad |-> a, due |-> FALSE] : a \in A}
      OBVIOUS
    <2>. QED
      BY <2>1 DEF ViewedInit
  <1>4. schedule \in Seq(Entries) /\ AdsIn(schedule) = A /\ Once(schedule)
    BY <1>2, <1>3, NewList
  <1>5. {} \in Pages
    BY DEF Pages
  <1>6. /\ scan \in [Links -> Pages] /\ refresher \in Ads \cup {NoAd} /\ script \in SUBSET Ads
        /\ MigrationOK
    BY <1>5 DEF ViewedInit, MigrationOK
  <1>. QED
    BY <1>2, <1>4, <1>6, ScheduleList

\* The page of a scan has events of its link.
LEMMA UnknownEvents ==
  ASSUME scan \in [Links -> Pages], NEW link \in Links
  PROVE  /\ Unknown(link) \in SUBSET AllEvents
         /\ \A e \in Unknown(link) : e.ad \in {f.ad : f \in scan[link]} /\ e.key = link
  <1>1. \A f \in scan[link] : f.ad \in Ads /\ f.price \in Prices
    BY DEF Pages
  <1>2. \A f \in scan[link] : [ad |-> f.ad, price |-> f.price, key |-> link] \in AllEvents
    BY <1>1 DEF AllEvents, Keys
  <1>. QED
    BY <1>2 DEF Unknown

LEMMA SaveInv == ASSUME ViewedInv, NEW link \in Links, Save(link) PROVE ViewedInv'
  <1>. DEFINE ads == {f.ad : f \in scan[link]}
              new == NewEntries(ads)
  <1>1. /\ viewed \subseteq Rows /\ scan \in [Links -> Pages]
        /\ schedule \in Seq(Entries) /\ Once(schedule)
        /\ \A row \in viewed : row.ad \in AdsIn(schedule)
    BY ScheduleList
  <1>2. \A f \in scan[link] : f \in [ad : Ads, price : Prices]
    BY <1>1 DEF Pages
  <1>3. ads \ Scheduled \in SUBSET Ads
    BY <1>2
  <1>4. new \in Seq(Entries) /\ AdsIn(new) = ads \ Scheduled /\ Once(new)
    BY <1>3, NewList DEF NewEntries
  <1>5. AdsIn(schedule) = Scheduled
    BY DEF AdsIn, Scheduled
  <1>6. /\ schedule' \in Seq(Entries) /\ Once(schedule')
        /\ AdsIn(schedule') = Scheduled \cup ads
    <2>. HIDE DEF new, ads
    <2>1. AdsIn(schedule) \cap AdsIn(new) = {}
      BY <1>4, <1>5
    <2>2. schedule' = schedule \o new
      BY DEF Save, new, ads
    <2>. QED
      BY <1>1, <1>4, <1>5, <2>1, <2>2, JoinedList
  <1>7. PICK number \in Numberings(Unknown(link)) :
          /\ viewed' = viewed \cup Rowed(Unknown(link), number)
          /\ reused' = reused \cup (migration \cap {number[e] : e \in Unknown(link)})
    BY DEF Save
  <1>8. /\ number \in [Unknown(link) -> 1..MaxRowid] /\ Unknown(link) \in SUBSET AllEvents
        /\ \A e \in Unknown(link) : e.ad \in ads
    <2>1. number \in [Unknown(link) -> 1..MaxRowid]
      BY <1>7 DEF Numberings
    <2>. QED
      BY <1>1, <2>1, UnknownEvents
  <1>9. {} \in Pages
    BY DEF Pages
  <1>10. /\ scan' \in [Links -> Pages] /\ refresher' \in Ads \cup {NoAd} /\ script' \in SUBSET Ads
         /\ MigrationOK'
    BY <1>1, <1>7, <1>8, <1>9 DEF Save, MigrationOK, ViewedInv, ViewedTypeOK
  <1>11. viewed' \subseteq Rows /\ \A row \in viewed' : row.ad \in AdsIn(schedule')
    <2>1. Rowed(Unknown(link), number) \subseteq Rows
          /\ \A row \in Rowed(Unknown(link), number) : row.ad \in ads
      BY <1>8, RowedRows
    <2>. QED
      BY <1>1, <1>5, <1>6, <1>7, <2>1
  <1>. QED
    BY <1>6, <1>10, <1>11, ScheduleListNext

\* An ad whose card was answered keeps its rows and goes to the end.
LEMMA UpdateAdList ==
  ASSUME ViewedInv, NEW ad \in Ads, UpdateAd(ad)
  PROVE  /\ viewed' \subseteq Rows /\ schedule' \in Seq(Entries) /\ Once(schedule')
         /\ \A row \in viewed' : row.ad \in AdsIn(schedule')
  <1>1. /\ viewed \subseteq Rows /\ schedule \in Seq(Entries) /\ Once(schedule)
        /\ \A row \in viewed : row.ad \in AdsIn(schedule)
    BY ScheduleList
  <1>2. AdsIn(schedule) = Scheduled
    BY DEF AdsIn, Scheduled
  <1>3. viewed' \subseteq Rows /\ \A row \in viewed' : \E old \in viewed : old.ad = row.ad
    <2>1. CASE UNCHANGED viewed
      BY <1>1, <2>1
    <2>2. ASSUME NEW price \in Prices, Reprice(ad, price)
          PROVE  viewed' \subseteq Rows
                 /\ \A row \in viewed' : \E old \in viewed : old.ad = row.ad
      <3>1. \A row \in Of(ad) : LET new == [row EXCEPT !.price = price]
                                IN  new \in Rows /\ new.ad = row.ad
        BY <1>1 DEF Of, Rows
      <3>. QED
        BY <1>1, <2>2, <3>1 DEF Reprice, Survivors, Of
    <2>. QED
      BY <2>1, <2>2 DEF UpdateAd
  <1>4. schedule' \in Seq(Entries) /\ Once(schedule') /\ AdsIn(schedule') = Scheduled
    <2>1. CASE schedule' = schedule
      BY <1>1, <1>2, <2>1
    <2>2. CASE ad \in Scheduled /\ schedule' = Append(Without(ad), [ad |-> ad, due |-> FALSE])
      <3>. DEFINE last == [ad |-> ad, due |-> FALSE]
                  rest == Without(ad)
      <3>1. rest \in Seq(Entries) /\ AdsIn(rest) = Scheduled \ {ad} /\ Once(rest)
        BY <1>1, WithoutList
      <3>2. last \in Entries /\ last.ad = ad
        BY DEF Entries
      <3>. HIDE DEF last, rest
      <3>3. <<last>> \in Seq(Entries) /\ DOMAIN <<last>> = {1} /\ <<last>>[1] = last
        BY <3>2
      <3>4. AdsIn(<<last>>) = {ad} /\ Once(<<last>>)
        BY <3>2, <3>3 DEF AdsIn, Once
      <3>5. schedule' = rest \o <<last>>
        <4>1. Append(rest, last) = rest \o <<last>>
          BY <3>1, <3>2, <3>3, AppendIsConcat
        <4>. QED
          BY <2>2, <4>1 DEF last, rest
      <3>6. AdsIn(rest) \cap AdsIn(<<last>>) = {}
        BY <3>1, <3>4
      <3>. QED
        <4>1. LET all == rest \o <<last>>
              IN  all \in Seq(Entries) /\ AdsIn(all) = AdsIn(rest) \cup {ad} /\ Once(all)
          BY <3>1, <3>3, <3>4, <3>6, JoinedList
        <4>2. (Scheduled \ {ad}) \cup {ad} = Scheduled
          BY <2>2
        <4>. QED
          BY <3>1, <3>5, <4>1, <4>2
    <2>. QED
      BY <2>1, <2>2 DEF UpdateAd
  <1>. QED
    BY <1>1, <1>2, <1>3, <1>4

LEMMA DeleteAdList ==
  ASSUME ViewedInv, NEW ad \in Ads, DeleteAd(ad)
  PROVE  /\ viewed' \subseteq Rows /\ schedule' \in Seq(Entries) /\ Once(schedule')
         /\ \A row \in viewed' : row.ad \in AdsIn(schedule')
  <1>1. /\ viewed \subseteq Rows /\ schedule \in Seq(Entries) /\ Once(schedule)
        /\ \A row \in viewed : row.ad \in AdsIn(schedule)
    BY ScheduleList
  <1>2. AdsIn(schedule) = Scheduled
    BY DEF AdsIn, Scheduled
  <1>3. /\ schedule' \in Seq(Entries) /\ Once(schedule')
        /\ AdsIn(schedule') = Scheduled \ {ad}
    BY <1>1, WithoutList DEF DeleteAd
  <1>4. viewed' \subseteq viewed /\ \A row \in viewed' : row.ad # ad
    BY DEF DeleteAd, Of
  <1>. QED
    BY <1>1, <1>2, <1>3, <1>4

LEMMA ComeDueInv == ASSUME ViewedInv, ComeDue PROVE ViewedInv'
  <1>1. PICK i \in DOMAIN schedule :
          schedule' = [schedule EXCEPT ![i] = [ad |-> schedule[i].ad, due |-> TRUE]]
    BY DEF ComeDue
  <1>2. UNCHANGED <<viewed, scan, refresher, script>> /\ MigrationOK'
    BY ScheduleList DEF ComeDue, migrating, MigrationOK
  <1>3. /\ viewed \subseteq Rows /\ scan \in [Links -> Pages]
        /\ refresher \in Ads \cup {NoAd} /\ script \in SUBSET Ads
        /\ schedule \in Seq(Entries) /\ Once(schedule)
        /\ \A row \in viewed : row.ad \in AdsIn(schedule)
    BY ScheduleList
  <1>. DEFINE new == [ad |-> schedule[i].ad, due |-> TRUE]
  <1>4. schedule[i] \in Entries
    BY <1>1, <1>3
  <1>5. new \in Entries /\ new.ad = schedule[i].ad
    BY <1>4 DEF Entries
  <1>. HIDE DEF new
  <1>6. schedule' = [schedule EXCEPT ![i] = new]
    BY <1>1 DEF new
  <1>7. schedule' \in Seq(Entries) /\ DOMAIN schedule' = DOMAIN schedule
    <2>1. schedule \in [1..Len(schedule) -> Entries] /\ Len(schedule) \in Nat
      BY <1>3
    <2>2. schedule' \in [1..Len(schedule) -> Entries]
      BY <1>5, <1>6, <2>1
    <2>. QED
      BY <2>1, <2>2
  <1>8. \A j \in DOMAIN schedule : schedule'[j].ad = schedule[j].ad
    BY <1>1, <1>5, <1>6
  <1>9. Once(schedule') /\ AdsIn(schedule') = AdsIn(schedule)
    BY <1>3, <1>7, <1>8 DEF Once, AdsIn
  <1>. QED
    BY <1>2, <1>3, <1>7, <1>9, ScheduleListNext

\* assign_row changes the key of at most one row; a row of another rowid that it replaces has
\* the same event.
LEMMA AssignedRows ==
  ASSUME viewed \subseteq Rows, NEW rowid, NEW link \in Links, Assign(rowid, link)
  PROVE  /\ viewed' \subseteq Rows
         /\ \A row \in viewed' : \E old \in viewed : old.ad = row.ad /\ old.rowid = row.rowid
         /\ \A row \in viewed' :
              \/ row \in viewed /\ row.rowid # rowid
              \/ \E old \in viewed : old.rowid = rowid /\ row = [old EXCEPT !.key = link]
         /\ \A row \in viewed : row.rowid = rowid => [row EXCEPT !.key = link] \in viewed'
         /\ \A row \in viewed : row.rowid # rowid =>
              row \in viewed' \/ \E new \in viewed' : new.ad = row.ad /\ new.key = row.key
  <1>. DEFINE moved == {[row EXCEPT !.key = link] : row \in {r \in viewed : r.rowid = rowid}}
              left == {row \in viewed : /\ row.rowid # rowid
                                        /\ \A new \in moved : Event(new) # Event(row)}
  <1>1. viewed' = left \cup moved
    BY DEF Assign
  <1>2. \A row \in viewed : LET new == [row EXCEPT !.key = link]
                            IN  /\ new \in Rows /\ new.ad = row.ad /\ new.rowid = row.rowid
                                /\ new.key = link
    BY DEF Rows, Keys
  <1>3. \A new, row : Event(new) = Event(row) => new.ad = row.ad /\ new.key = row.key
    BY DEF Event
  <1>4. \A new \in moved : \E old \in viewed : old.rowid = rowid /\ new = [old EXCEPT !.key = link]
    OBVIOUS
  <1>5. \A row \in viewed : row.rowid = rowid => [row EXCEPT !.key = link] \in moved
    OBVIOUS
  <1>6. \A row \in left : row \in viewed /\ row.rowid # rowid
    OBVIOUS
  <1>7. \A row \in viewed : row.rowid # rowid =>
          row \in left \/ \E new \in moved : Event(new) = Event(row)
    OBVIOUS
  <1>. HIDE DEF moved, left
  <1>8. ASSUME NEW new \in moved
        PROVE  /\ new \in Rows /\ new.key = link
               /\ \E old \in viewed : old.ad = new.ad /\ old.rowid = new.rowid
    <2>1. PICK old \in viewed : new = [old EXCEPT !.key = link]
      BY <1>4
    <2>. QED
      BY <1>2, <2>1
  <1>9. viewed' \subseteq Rows
    BY <1>1, <1>6, <1>8
  <1>10. \A row \in viewed' : \E old \in viewed : old.ad = row.ad /\ old.rowid = row.rowid
    BY <1>1, <1>6, <1>8
  <1>11. \A row \in viewed' :
           \/ row \in viewed /\ row.rowid # rowid
           \/ \E old \in viewed : old.rowid = rowid /\ row = [old EXCEPT !.key = link]
    BY <1>1, <1>4, <1>6
  <1>12. \A row \in viewed : row.rowid # rowid =>
           row \in viewed' \/ \E new \in viewed' : new.ad = row.ad /\ new.key = row.key
    BY <1>1, <1>3, <1>7
  <1>. QED
    BY <1>1, <1>5, <1>9, <1>10, <1>11, <1>12

LEMMA ViewedStep == ViewedInv /\ [ViewedNext]_viewedVars => ViewedInv'
  <1>. SUFFICES ASSUME ViewedInv, [ViewedNext]_viewedVars PROVE ViewedInv'
    OBVIOUS
  <1>1. /\ viewed \subseteq Rows /\ scan \in [Links -> Pages]
        /\ refresher \in Ads \cup {NoAd} /\ script \in SUBSET Ads /\ MigrationOK
        /\ schedule \in Seq(Entries) /\ Once(schedule)
        /\ \A row \in viewed : row.ad \in AdsIn(schedule)
    BY ScheduleList
  <1>2. {} \in Pages
    BY DEF Pages
  <1>3. ASSUME NEW link \in Links, NEW found \in Pages, Cancel(link) \/ Filter(link, found)
        PROVE  ViewedInv'
    <2>1. /\ UNCHANGED <<viewed, schedule, refresher, script>> /\ scan' \in [Links -> Pages]
          /\ MigrationOK'
      BY <1>1, <1>2, <1>3 DEF Cancel, Filter, migrating, MigrationOK
    <2>. QED
      BY <1>1, <2>1, ScheduleListNext
  <1>4. ASSUME NEW rowid \in migration, MigrationTakes(rowid) PROVE ViewedInv'
    <2>1. UNCHANGED <<schedule, scan, refresher, script>> /\ MigrationOK'
      BY <1>1, <1>4 DEF MigrationTakes, MigrationOK
    <2>2. viewed' \subseteq Rows /\ \A row \in viewed' : \E old \in viewed : old.ad = row.ad
      <3>1. CASE UNCHANGED viewed
        BY <1>1, <3>1
      <3>2. ASSUME NEW link \in Links, Assign(rowid, link)
            PROVE  viewed' \subseteq Rows
                   /\ \A row \in viewed' : \E old \in viewed : old.ad = row.ad
        <4>1. /\ viewed' \subseteq Rows
              /\ \A row \in viewed' : \E old \in viewed : old.ad = row.ad /\ old.rowid = row.rowid
          BY <1>1, <3>2, AssignedRows
        <4>. QED
          BY <4>1
      <3>. QED
        BY <1>4, <3>1, <3>2 DEF MigrationTakes
    <2>. QED
      BY <1>1, <2>1, <2>2, ScheduleListNext
  <1>5. ASSUME NEW ad \in Ads, Pick(ad) PROVE ViewedInv'
    <2>1. UNCHANGED <<viewed, schedule, scan, script>> /\ refresher' = ad /\ MigrationOK'
      BY <1>1, <1>5 DEF Pick, migrating, MigrationOK
    <2>. QED
      BY <1>1, <2>1, ScheduleListNext
  <1>6. ASSUME NEW ad \in Ads, ScriptTakes(ad) PROVE ViewedInv'
    <2>1. script' \in SUBSET Ads /\ UNCHANGED <<scan, refresher>> /\ MigrationOK'
      BY <1>1, <1>6 DEF ScriptTakes, migrating, MigrationOK
    <2>2. UpdateAd(ad) \/ DeleteAd(ad) \/ UNCHANGED <<viewed, schedule>>
      BY <1>6 DEF ScriptTakes
    <2>3. /\ viewed' \subseteq Rows /\ schedule' \in Seq(Entries) /\ Once(schedule')
          /\ \A row \in viewed' : row.ad \in AdsIn(schedule')
      BY <1>1, <2>2, UpdateAdList, DeleteAdList
    <2>. QED
      BY <1>1, <2>1, <2>3, ScheduleListNext
  <1>7. CASE Refreshed
    <2>1. refresher \in Ads
      BY <1>1, <1>7 DEF Refreshed
    <2>2. refresher' = NoAd /\ UNCHANGED <<scan, script>> /\ MigrationOK'
      BY <1>1, <1>7 DEF Refreshed, migrating, MigrationOK
    <2>3. /\ viewed' \subseteq Rows /\ schedule' \in Seq(Entries) /\ Once(schedule')
          /\ \A row \in viewed' : row.ad \in AdsIn(schedule')
      BY <1>7, <2>1, UpdateAdList, DeleteAdList DEF Refreshed
    <2>. QED
      BY <1>1, <2>2, <2>3, ScheduleListNext
  <1>8. CASE RefreshFails
    BY <1>1, <1>8, ScheduleListNext DEF RefreshFails, migrating, MigrationOK
  <1>9. CASE ScriptStarts
    <2>1. script' \in SUBSET Ads /\ MigrationOK'
      BY <1>1, <1>9 DEF ScriptStarts, Rows, migrating, MigrationOK
    <2>. QED
      BY <1>1, <1>9, <2>1, ScheduleListNext DEF ScriptStarts
  <1>10. CASE UNCHANGED viewedVars
    BY <1>1, <1>10, ScheduleListNext DEF viewedVars, migrating, MigrationOK
  <1>11. CASE MigrationStarts
    <2>1. MigrationOK'
      BY <1>1, <1>11 DEF MigrationStarts, MigrationOK, Rows
    <2>. QED
      BY <1>1, <1>11, <2>1, ScheduleListNext DEF MigrationStarts
  <1>. QED
    BY <1>3, <1>4, <1>5, <1>6, <1>7, <1>8, <1>9, <1>10, <1>11, SaveInv, ComeDueInv, <1>2
       DEF ViewedNext

LEMMA ViewedInvariant == ViewedSpec => []ViewedInv
  BY ViewedInitInv, ViewedStep, PTL DEF ViewedSpec

\* Whatever the scans save, the cards and the script update or delete and the migration
\* assigns, an ad with rows has exactly one entry in ad_refresh_state.
THEOREM Scheduling == ViewedSpec => []EveryAdScheduled
  <1>1. ViewedInv => EveryAdScheduled
    BY DEF ViewedInv
  <1>. QED
    BY <1>1, ViewedInvariant, PTL

\* No two rows have one rowid, and of the list of migrate_ads.py the rows whose rowid was not
\* given again belong to no subscription.
NumbersInv ==
  /\ \A r, s \in viewed : r.rowid = s.rowid => r = s
  /\ \A row \in viewed : row.rowid \in migration \ reused => row.key = Unassigned

LEMMA NumbersInit == ViewedInit => NumbersInv
  <1>. SUFFICES ASSUME ViewedInit PROVE NumbersInv
    OBVIOUS
  <1>1. PICK old \in SUBSET [ad : Ads, price : Prices, key : {Unassigned}] :
          \E number \in [old -> 1..MaxRowid] : IsInjective(number) /\ viewed = Rowed(old, number)
    BY DEF ViewedInit
  <1>2. PICK number \in [old -> 1..MaxRowid] : IsInjective(number) /\ viewed = Rowed(old, number)
    BY <1>1
  <1>3. old \in SUBSET AllEvents
    BY DEF AllEvents, Keys
  <1>4. ASSUME NEW r \in viewed, NEW s \in viewed, r.rowid = s.rowid PROVE r = s
    <2>1. PICK e \in old : r = [rowid |-> number[e], ad |-> e.ad, price |-> e.price, key |-> e.key]
      BY <1>2, <1>3, RowedRows
    <2>2. PICK f \in old : s = [rowid |-> number[f], ad |-> f.ad, price |-> f.price, key |-> f.key]
      BY <1>2, <1>3, RowedRows
    <2>3. e = f
      BY <1>2, <1>4, <2>1, <2>2 DEF IsInjective
    <2>. QED
      BY <2>1, <2>2, <2>3
  <1>. QED
    BY <1>4 DEF NumbersInv, ViewedInit

LEMMA SaveNumbers ==
  ASSUME ViewedInv, NumbersInv, NEW link \in Links, Save(link) PROVE NumbersInv'
  <1>. DEFINE E == Unknown(link)
  <1>1. PICK number \in Numberings(E) :
          /\ viewed' = viewed \cup Rowed(E, number)
          /\ reused' = reused \cup (migration \cap {number[e] : e \in E})
    BY DEF Save
  <1>2. scan \in [Links -> Pages] /\ viewed \subseteq Rows /\ migration' = migration
    BY ScheduleList DEF Save
  <1>3. E \in SUBSET AllEvents
    BY <1>2, UnknownEvents
  <1>4. /\ number \in [E -> 1..MaxRowid] /\ IsInjective(number)
        /\ \A e \in E, known \in Rowids : number[e] > known
    BY <1>1 DEF Numberings
  <1>. HIDE DEF E
  <1>5. ASSUME NEW row \in Rowed(E, number)
        PROVE  /\ row.rowid \in {number[e] : e \in E}
               /\ \A old \in viewed : old.rowid # row.rowid
               /\ \A other \in Rowed(E, number) : other.rowid = row.rowid => other = row
    <2>1. PICK e \in E : row = [rowid |-> number[e], ad |-> e.ad, price |-> e.price, key |-> e.key]
      BY <1>3, <1>4, RowedRows
    <2>2. number[e] \in 1..MaxRowid /\ row.rowid = number[e]
      BY <1>4, <2>1
    <2>3. ASSUME NEW old \in viewed PROVE old.rowid # row.rowid
      <3>1. old.rowid \in 1..MaxRowid /\ old.rowid \in Rowids
        BY <1>2 DEF Rows, Rowids
      <3>2. number[e] > old.rowid
        BY <1>4, <3>1
      <3>. QED
        BY <2>2, <3>1, <3>2
    <2>4. ASSUME NEW other \in Rowed(E, number), other.rowid = row.rowid PROVE other = row
      <3>1. PICK f \in E :
              other = [rowid |-> number[f], ad |-> f.ad, price |-> f.price, key |-> f.key]
        BY <1>3, <1>4, RowedRows
      <3>2. e = f
        BY <1>4, <2>1, <2>4, <3>1 DEF IsInjective
      <3>. QED
        BY <2>1, <3>1, <3>2
    <2>. QED
      BY <2>2, <2>3, <2>4
  <1>6. \A r, s \in viewed' : r.rowid = s.rowid => r = s
    BY <1>1, <1>5 DEF NumbersInv
  <1>7. \A row \in viewed' : row.rowid \in migration' \ reused' => row.key = Unassigned
    BY <1>1, <1>2, <1>5 DEF NumbersInv
  <1>. QED
    BY <1>6, <1>7 DEF NumbersInv

LEMMA CardNumbers ==
  ASSUME ViewedInv, NumbersInv, NEW ad \in Ads, UpdateAd(ad) \/ DeleteAd(ad), UNCHANGED migrating
  PROVE  NumbersInv'
  <1>1. UNCHANGED <<migration, reused>> /\ viewed \subseteq Rows
    BY ScheduleList DEF migrating
  <1>2. CASE viewed' \subseteq viewed
    BY <1>1, <1>2 DEF NumbersInv
  <1>3. ASSUME NEW price \in Prices, Reprice(ad, price) PROVE NumbersInv'
    <2>1. PICK stay \in Survivors(ad) :
            viewed' = (viewed \ Of(ad)) \cup {[row EXCEPT !.price = price] : row \in stay}
      BY <1>3 DEF Reprice
    <2>2. stay \subseteq Of(ad) /\ Of(ad) \subseteq viewed
      BY DEF Survivors, Of
    <2>3. ASSUME NEW row \in viewed'
          PROVE  \E old \in viewed : /\ old.rowid = row.rowid /\ old.key = row.key
                                     /\ \/ old \notin Of(ad) /\ row = old
                                        \/ old \in Of(ad) /\ row = [old EXCEPT !.price = price]
      <3>1. CASE row \in viewed \ Of(ad)
        BY <3>1
      <3>2. ASSUME NEW old \in stay, row = [old EXCEPT !.price = price]
            PROVE  old \in viewed /\ old.rowid = row.rowid /\ old.key = row.key /\ old \in Of(ad)
        <4>1. old \in Rows
          BY <1>1, <2>2
        <4>. QED
          BY <2>2, <3>2, <4>1 DEF Rows
      <3>. QED
        BY <2>1, <3>1, <3>2
    <2>4. \A r, s \in viewed' : r.rowid = s.rowid => r = s
      BY <2>3 DEF NumbersInv
    <2>5. \A row \in viewed' : row.rowid \in migration' \ reused' => row.key = Unassigned
      BY <1>1, <2>3 DEF NumbersInv
    <2>. QED
      BY <2>4, <2>5 DEF NumbersInv
  <1>. QED
    BY <1>2, <1>3 DEF UpdateAd, DeleteAd

LEMMA MigrationNumbers ==
  ASSUME ViewedInv, NumbersInv, NEW rowid \in migration, MigrationTakes(rowid)
  PROVE  NumbersInv'
  <1>1. viewed \subseteq Rows /\ migration' = migration \ {rowid} /\ reused' = reused
    BY ScheduleList DEF MigrationTakes
  <1>2. CASE UNCHANGED viewed
    BY <1>1, <1>2 DEF NumbersInv
  <1>3. ASSUME NEW link \in Links, Assign(rowid, link) PROVE NumbersInv'
    <2>1. ASSUME NEW row \in viewed'
          PROVE  \/ row \in viewed /\ row.rowid # rowid
                 \/ /\ row.rowid = rowid
                    /\ \E old \in viewed : old.rowid = rowid /\ row = [old EXCEPT !.key = link]
      <3>1. CASE row \in viewed /\ row.rowid # rowid
        BY <3>1
      <3>2. ASSUME NEW old \in viewed, old.rowid = rowid, row = [old EXCEPT !.key = link]
            PROVE  row.rowid = rowid
        BY <1>1, <3>2 DEF Rows
      <3>. QED
        BY <1>1, <1>3, <3>1, <3>2, AssignedRows
    <2>2. \A r, s \in viewed' : r.rowid = s.rowid => r = s
      BY <2>1 DEF NumbersInv
    <2>3. \A row \in viewed' : row.rowid \in migration' \ reused' => row.key = Unassigned
      BY <1>1, <2>1 DEF NumbersInv
    <2>. QED
      BY <2>2, <2>3 DEF NumbersInv
  <1>. QED
    BY <1>2, <1>3 DEF MigrationTakes

LEMMA NumbersStep == ViewedInv /\ NumbersInv /\ [ViewedNext]_viewedVars => NumbersInv'
  <1>. SUFFICES ASSUME ViewedInv, NumbersInv, [ViewedNext]_viewedVars PROVE NumbersInv'
    OBVIOUS
  <1>1. CASE UNCHANGED <<viewed, migrating>>
    BY <1>1 DEF NumbersInv, migrating
  <1>2. CASE Refreshed
    <2>1. refresher \in Ads
      BY <1>2, ScheduleList DEF Refreshed
    <2>. QED
      BY <1>2, <2>1, CardNumbers DEF Refreshed
  <1>3. ASSUME NEW ad \in Ads, ScriptTakes(ad) PROVE NumbersInv'
    BY <1>1, <1>3, CardNumbers DEF ScriptTakes
  <1>4. CASE MigrationStarts
    BY <1>4 DEF MigrationStarts, NumbersInv
  <1>5. CASE UNCHANGED viewedVars
    BY <1>1, <1>5 DEF viewedVars
  <1>6. ASSUME NEW link \in Links, NEW found \in Pages,
               Cancel(link) \/ Filter(link, found)
        PROVE  NumbersInv'
    BY <1>1, <1>6 DEF Cancel, Filter
  <1>7. (\E ad \in Ads : Pick(ad)) \/ RefreshFails \/ ScriptStarts \/ ComeDue => NumbersInv'
    BY <1>1 DEF Pick, RefreshFails, ScriptStarts, ComeDue
  <1>8. {} \in Pages
    BY DEF Pages
  <1>. QED
    BY <1>2, <1>3, <1>4, <1>5, <1>6, <1>7, <1>8, SaveNumbers, MigrationNumbers DEF ViewedNext

\* UPDATE OR REPLACE, the saves and the deletions leave an ad to every subscription that has
\* it; the migration moves a row from no subscription to one, or the row that was given a
\* rowid of its list after the list was read.
THEOREM Subscriptions == ViewedSpec => SubscriptionsKept
  <1>1. ViewedSpec => []NumbersInv
    BY NumbersInit, NumbersStep, ViewedInvariant, PTL DEF ViewedSpec
  <1>2. ViewedInv /\ NumbersInv /\ [ViewedNext]_viewedVars =>
          [\A ad \in Ads, key \in Keys :
             (\E row \in Of(ad) : row.key = key) =>
               \/ \E row \in Of(ad)' : row.key = key
               \/ Of(ad)' = {}
               \/ \E row \in Of(ad) :
                    /\ row.key = key /\ row.rowid \in migration \ migration'
                    /\ key = Unassigned \/ row.rowid \in reused]_viewedVars
    <2>. SUFFICES ASSUME ViewedInv, NumbersInv, ViewedNext, NEW ad \in Ads, NEW key \in Keys,
                         NEW row \in Of(ad), row.key = key
                  PROVE  \/ \E new \in Of(ad)' : new.key = key
                         \/ Of(ad)' = {}
                         \/ /\ row.rowid \in migration \ migration'
                            /\ key = Unassigned \/ row.rowid \in reused
      OBVIOUS
    <2>1. row \in viewed /\ row.ad = ad /\ row \in Rows /\ viewed \subseteq Rows
      BY ScheduleList DEF Of
    <2>2. row \in viewed' => \E new \in Of(ad)' : new.key = key
      BY <2>1 DEF Of
    <2>3. ASSUME NEW a \in Ads, UpdateAd(a) \/ DeleteAd(a)
          PROVE  (\E new \in Of(ad)' : new.key = key) \/ Of(ad)' = {}
      <3>1. CASE a # ad
        <4>1. row \notin Of(a)
          BY <2>1, <3>1 DEF Of
        <4>. QED
          BY <2>1, <2>2, <2>3, <4>1 DEF UpdateAd, DeleteAd, Reprice
      <3>2. CASE a = ad /\ DeleteAd(a)
        BY <3>2 DEF DeleteAd, Of
      <3>3. CASE a = ad /\ UNCHANGED viewed
        BY <2>1, <2>2, <3>3
      <3>4. ASSUME a = ad, NEW price \in Prices, Reprice(a, price)
            PROVE  \E new \in Of(ad)' : new.key = key
        <4>1. PICK stay \in Survivors(ad) :
                viewed' = (viewed \ Of(ad)) \cup {[r EXCEPT !.price = price] : r \in stay}
          BY <3>4 DEF Reprice
        <4>2. PICK left \in stay : left.key = row.key
          BY <4>1 DEF Survivors
        <4>3. left \in Rows /\ left.ad = ad
          BY <2>1, <4>1 DEF Survivors, Of
        <4>. DEFINE new == [left EXCEPT !.price = price]
        <4>4. new.key = key /\ new.ad = ad
          BY <4>2, <4>3 DEF Rows
        <4>5. new \in viewed'
          BY <4>1
        <4>. QED
          BY <4>4, <4>5 DEF Of
      <3>. QED
        BY <2>3, <3>1, <3>2, <3>3, <3>4 DEF UpdateAd
    <2>4. ASSUME NEW rowid \in migration, NEW link \in Links, MigrationTakes(rowid),
                 Assign(rowid, link)
          PROVE  \/ \E new \in Of(ad)' : new.key = key
                 \/ /\ row.rowid \in migration \ migration'
                    /\ key = Unassigned \/ row.rowid \in reused
      <3>1. CASE row.rowid # rowid
        BY <2>1, <2>2, <2>4, <3>1, AssignedRows DEF Of
      <3>2. CASE row.rowid = rowid
        <4>1. rowid \notin migration'
          BY <2>4 DEF MigrationTakes
        <4>. QED
          BY <2>1, <3>2, <4>1 DEF NumbersInv
      <3>. QED
        BY <3>1, <3>2
    <2>5. ASSUME NEW link \in Links, Save(link) PROVE row \in viewed'
      BY <2>1, <2>5 DEF Save
    <2>6. Refreshed => refresher \in Ads /\ (UpdateAd(refresher) \/ DeleteAd(refresher))
      BY ScheduleList DEF Refreshed
    <2>7. \A a \in Ads : ScriptTakes(a) => UpdateAd(a) \/ DeleteAd(a) \/ UNCHANGED viewed
      BY DEF ScriptTakes
    <2>8. \A rowid \in migration : MigrationTakes(rowid) =>
            UNCHANGED viewed \/ \E link \in Links : Assign(rowid, link)
      BY DEF MigrationTakes
    <2>9. UNCHANGED viewed => \E new \in Of(ad)' : new.key = key
      BY <2>1, <2>2
    <2>10. \/ UNCHANGED viewed \/ Refreshed
           \/ \E link \in Links : Save(link)
           \/ \E a \in Ads : ScriptTakes(a)
           \/ \E rowid \in migration : MigrationTakes(rowid)
      BY DEF ViewedNext, Cancel, Filter, Pick, RefreshFails, ScriptStarts, ComeDue,
         MigrationStarts
    <2>. QED
      BY <2>2, <2>3, <2>4, <2>5, <2>6, <2>7, <2>8, <2>9, <2>10
  <1>. QED
    BY <1>1, <1>2, ViewedInvariant, PTL DEF ViewedSpec, SubscriptionsKept

=============================================================================
