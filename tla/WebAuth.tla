------------------------------ MODULE WebAuth ------------------------------
(***************************************************************************)
(* Registration, login and sessions of the web application: the handlers   *)
(* of server/routers/auth.py, which FastAPI runs in several threads, and   *)
(* the tables users and sessions of persistence/store.py.                  *)
(*                                                                         *)
(* A request is at                                                         *)
(*   away                 no request                                       *)
(*   read, assign, count  _auth_limited: now is read; the list is read and *)
(*                        filtered by it; the result takes its place and   *)
(*                        is counted                                       *)
(*   check                the password is hashed, the name is looked up    *)
(*   session              the user is known, the session is not inserted   *)
(*   fail                 _auth_fail, before it looks the list up          *)
(*   append, lost         it has the list of now, or one that was replaced *)
(* The failures of a key have numbers in the order of their times: made of *)
(* them happened, the first ranOut of them are older than the window, and  *)
(* a clock that is read is the number of those that ran out by then.       *)
(* attempts is the list of a key.  stored is users.token of an old         *)
(* database.  Two histories: over has the tokens that were logged out or   *)
(* whose session ran out; since[t] is the earliest clock of those that     *)
(* were in _auth_limited when t came to it, itself included.               *)
(***************************************************************************)
EXTENDS Integers, FiniteSets

CONSTANTS Threads, Names, Tokens,
          Admin,          \* the actor with the password of config.toml
          Passwords,      \* what server.admin_password may be
          Limit,          \* _AUTH_MAX
          MaxMade         \* bound: failures of one kind until a restart

ASSUME AuthAssumption ==
  Admin \notin Names /\ Limit \in Nat \ {0} /\ MaxMade \in Nat

VARIABLES users, stored, sessions, adminPassword, attempts, made, ranOut, request, since, over

accounts == <<users, stored, sessions, adminPassword, over>>
failures == <<attempts, made, ranOut>>
authVars == <<accounts, failures, request, since>>

AuthKeys == {"reg", "login"}
Sessions == [token : Tokens, owner : Names \cup {Admin}, verifier : Passwords, live : BOOLEAN]

AuthTypeOK ==
  /\ users \subseteq Names
  /\ stored \subseteq Tokens \X Names
  /\ sessions \subseteq Sessions
  /\ adminPassword \in Passwords
  /\ attempts \in [AuthKeys -> SUBSET Nat]
  /\ made \in [AuthKeys -> Nat] /\ ranOut \in [AuthKeys -> Nat]
  /\ request \in [Threads -> [pc : {"away", "read", "assign", "count", "check", "session",
                                    "fail", "append", "lost"},
                              key : AuthKeys, name : Names \cup {Admin},
                              now : Nat, seen : SUBSET Nat]]
  /\ since \in [Threads -> Nat]
  /\ over \subseteq Tokens

Idle == [pc |-> "away", key |-> "login", name |-> Admin, now |-> 0, seen |-> {}]

AuthInit ==
  /\ users \in SUBSET Names
  /\ stored \in SUBSET (Tokens \X users)
  /\ \A e, f \in stored : (e[1] = f[1]) = (e[2] = f[2])
  /\ sessions = {}
  /\ adminPassword \in Passwords
  /\ attempts = [k \in AuthKeys |-> {}]
  /\ made = [k \in AuthKeys |-> 0] /\ ranOut = [k \in AuthKeys |-> 0]
  /\ request = [t \in Threads |-> Idle]
  /\ since = [t \in Threads |-> 0]
  /\ over = {}

Pass(t, pc) == request' = [request EXCEPT ![t].pc = pc]
Answer(t) == request' = [request EXCEPT ![t] = Idle]

---------------------------------------------------------------------------
(* The limit of failed attempts: no lock is held from the clock to the     *)
(* count, and none from the list to the append.                            *)

\* The clocks of those who may still put a list in its place.
Clocks(key) == {request[u].now : u \in {v \in Threads :
                  request[v].pc \in {"read", "assign"} /\ request[v].key = key}}

Ask(t, key, name) ==
  /\ request[t].pc = "away"
  /\ request' = [request EXCEPT ![t] =
       [pc |-> "read", key |-> key, name |-> name, now |-> ranOut[key], seen |-> {}]]
  /\ \E clock \in Clocks(key) \cup {ranOut[key]} :
       /\ \A other \in Clocks(key) \cup {ranOut[key]} : clock <= other
       /\ since' = [since EXCEPT ![t] = clock]
  /\ UNCHANGED <<accounts, failures>>

\* The oldest failure of the window is older than the window now.
WindowPasses(key) ==
  /\ ranOut[key] < made[key]
  /\ ranOut' = [ranOut EXCEPT ![key] = @ + 1]
  /\ UNCHANGED <<accounts, attempts, made, request, since>>

ReadAttempts(t) ==
  LET here == request[t] IN
  /\ here.pc = "read"
  /\ request' = [request EXCEPT ![t] =
       [pc |-> "assign", key |-> here.key, name |-> here.name, now |-> here.now,
        seen |-> {n \in attempts[here.key] : n > here.now}]]
  /\ UNCHANGED <<accounts, failures, since>>

\* The list is another object now: what goes to the former one is lost.
Assigned(t) ==
  request' = [u \in Threads |->
    IF u = t THEN [pc |-> "count", key |-> request[t].key, name |-> request[t].name,
                   now |-> 0, seen |-> {}]
    ELSE IF request[u].pc = "append" /\ request[u].key = request[t].key
         THEN [request[u] EXCEPT !.pc = "lost"] ELSE request[u]]

\* Mutant: what was read is joined with the list, so that no failure is lost.
AssignAttemptsJoined(t) ==
  /\ request[t].pc = "assign"
  /\ attempts' = [attempts EXCEPT ![request[t].key] = @ \cup request[t].seen]
  /\ Assigned(t)
  /\ UNCHANGED <<accounts, made, ranOut, since>>

\* What was appended to the list meanwhile is lost.
AssignAttempts(t) ==
  /\ request[t].pc = "assign"
  /\ attempts' = [attempts EXCEPT ![request[t].key] = request[t].seen]
  /\ Assigned(t)
  /\ UNCHANGED <<accounts, made, ranOut, since>>

CountAttempts(t) ==
  /\ request[t].pc = "count"
  /\ IF Cardinality(attempts[request[t].key]) >= Limit THEN Answer(t) ELSE Pass(t, "check")
  /\ since' = [since EXCEPT ![t] = 0]
  /\ UNCHANGED <<accounts, failures>>

\* _auth_fail after a wrong password or a name that is taken.
LookUpAttempts(t) ==
  /\ request[t].pc = "fail"
  /\ Pass(t, "append")
  /\ UNCHANGED <<accounts, failures, since>>

CountFailure(t) ==
  LET key == request[t].key IN
  /\ request[t].pc \in {"append", "lost"} /\ made[key] < MaxMade
  /\ made' = [made EXCEPT ![key] = @ + 1]
  /\ attempts' = IF request[t].pc = "lost" THEN attempts
                 ELSE [attempts EXCEPT ![key] = @ \cup {made[key] + 1}]
  /\ Answer(t)
  /\ UNCHANGED <<accounts, ranOut, since>>

---------------------------------------------------------------------------

\* store.register: the unique name decides.  The name admin is refused.
RegisterUser(t) ==
  LET here == request[t] IN
  /\ here.pc = "check" /\ here.key = "reg"
  /\ \/ here.name \in users \cup {Admin} /\ Pass(t, "fail") /\ UNCHANGED users
     \/ /\ here.name \in Names \ users
        /\ users' = users \cup {here.name} /\ Pass(t, "session")
  /\ UNCHANGED <<stored, sessions, adminPassword, over, failures, since>>

\* login: without an admin password the admin is a name nobody has.
CheckPassword(t) ==
  LET here == request[t] IN
  /\ here.pc = "check" /\ here.key = "login"
  /\ \/ Pass(t, "fail")
     \/ here.name \in users \cup {Admin} /\ Pass(t, "session")
  /\ UNCHANGED <<accounts, failures, since>>

Live == {s \in sessions : s.live}

\* _insert_session, with a purge of what ran out.
InsertSession(t) ==
  /\ request[t].pc = "session"
  /\ \E token \in Tokens :
       /\ token \notin over /\ \A s \in sessions : s.token # token
       /\ \A entry \in stored : entry[1] # token
       /\ sessions' = Live \cup {[token |-> token, owner |-> request[t].name,
                                  verifier |-> adminPassword, live |-> TRUE]}
  /\ Answer(t)
  /\ UNCHANGED <<users, stored, adminPassword, over, failures, since>>

\* session_actor: who a request with this token is.
Accepted(token) ==
  \E s \in sessions :
    /\ s.token = token /\ s.live
    /\ s.owner = Admin => s.verifier = adminPassword
    /\ s.owner # Admin => s.owner \in users

RevokeSession(token) ==
  /\ \E s \in sessions : s.token = token
  /\ sessions' = {s \in sessions : s.token # token}
  /\ over' = over \cup {token}
  /\ UNCHANGED <<users, stored, adminPassword, failures, request, since>>

RunOut(token) ==
  /\ \E s \in sessions : s.token = token /\ s.live
  /\ sessions' = {IF s.token = token THEN [s EXCEPT !.live = FALSE] ELSE s : s \in sessions}
  /\ over' = over \cup {token}
  /\ UNCHANGED <<users, stored, adminPassword, failures, request, since>>

\* init_db: INSERT OR IGNORE of the old tokens, which are erased at once.
Migrated(old) ==
  {s \in {[token |-> entry[1], owner |-> entry[2], verifier |-> adminPassword,
           live |-> TRUE] : entry \in old} : \A r \in sessions : r.token # s.token}

\* What a process has in memory.
Forgets ==
  /\ attempts' = [k \in AuthKeys |-> {}]
  /\ made' = [k \in AuthKeys |-> 0] /\ ranOut' = [k \in AuthKeys |-> 0]
  /\ request' = [t \in Threads |-> Idle] /\ since' = [t \in Threads |-> 0]

\* Mutant: the old tokens stay in their column.
RestartKeepsOld ==
  /\ Forgets
  /\ adminPassword' \in Passwords
  /\ sessions' = Live \cup Migrated(stored)
  /\ UNCHANGED <<users, stored, over>>

\* A restart: requests and attempts are lost, config.toml is read anew.
RestartServer ==
  /\ Forgets
  /\ adminPassword' \in Passwords
  /\ sessions' = Live \cup Migrated(stored)
  /\ stored' = {}
  /\ UNCHANGED <<users, over>>

AuthNext ==
  \/ \E t \in Threads :
       \/ \E key \in AuthKeys, name \in Names \cup {Admin} : Ask(t, key, name)
       \/ ReadAttempts(t) \/ AssignAttempts(t) \/ CountAttempts(t)
       \/ LookUpAttempts(t) \/ CountFailure(t)
       \/ RegisterUser(t) \/ CheckPassword(t) \/ InsertSession(t)
  \/ \E token \in Tokens : RevokeSession(token) \/ RunOut(token)
  \/ \E key \in AuthKeys : WindowPasses(key)
  \/ RestartServer

AuthSpec == AuthInit /\ [][AuthNext]_authVars

---------------------------------------------------------------------------
(* Properties. *)

\* A session that ended by a logout or by its time is never accepted again,
\* also not by the next start of the server with its move of old tokens.
EndedStaysEnded == \A token \in over : ~Accepted(token)

\* Whatever the threads write over each other's lists, a request is refused
\* only for Limit failures of its own kind which were in the window, or still
\* to come, when it read the clock, or when another did that was still in
\* _auth_limited then: a list that was read earlier may come back, with
\* failures that ran out since, but none of an earlier time and none twice.
RefusedByFailures ==
  \A t \in Threads :
    LET key == request[t].key IN
    request[t].pc = "count" /\ Cardinality(attempts[key]) >= Limit
      => made[key] - since[t] >= Limit
=============================================================================
