----------------------------- MODULE WebProofs ------------------------------
(***************************************************************************)
(* Theorems about the two stores of the web application, for any number of *)
(* requests, threads, names and tokens: WebLinks and WebAuth.              *)
(***************************************************************************)
EXTENDS WebLinks, WebAuth, FiniteSetTheorems, TLAPS

-----------------------------------------------------------------------------
(* WebAuth.                                                                *)
(* EndedStaysEnded and RefusedByFailures for any threads, names, tokens    *)
(* and any limit.                                                          *)
(*                                                                         *)
(* OverInv: no live session has a token that is over, and the old tokens   *)
(* that the next start would move into the sessions are neither over nor   *)
(* in use.  CountInv: what a list of attempts holds, and what a thread has *)
(* read of it and may put back, are failures that happened and that ran    *)
(* out after the clock it was filtered by; and since[t] is no later than   *)
(* the clock of anybody who may still put a list where t counts.           *)

OverInv ==
  /\ \A s \in sessions : s.live => s.token \notin over
  /\ \A entry \in stored : entry[1] \notin over /\ \A s \in sessions : s.token # entry[1]

Listing == {"read", "assign"}
Limiting == Listing \cup {"count"}

\* The clock of a thread, and since, against the failures.
ClockInv ==
  /\ \A key \in AuthKeys : ranOut[key] <= made[key]
  /\ \A t \in Threads : request[t].pc \in Listing => request[t].now <= ranOut[request[t].key]
  /\ \A t \in Threads : request[t].pc \in Limiting => since[t] <= ranOut[request[t].key]
  /\ \A t, u \in Threads :
       request[t].pc \in Limiting /\ request[u].pc \in Listing /\ request[t].key = request[u].key
         => since[t] <= request[u].now

ListInv ==
  /\ \A key \in AuthKeys : \A n \in attempts[key] : n <= made[key]
  /\ \A t \in Threads : request[t].pc = "assign" =>
       \A n \in request[t].seen : request[t].now < n /\ n <= made[request[t].key]
  /\ \A t \in Threads : request[t].pc = "count" =>
       \A n \in attempts[request[t].key] : since[t] < n

CountInv == ClockInv /\ ListInv

AuthInv == AuthTypeOK /\ OverInv /\ CountInv

USE AuthAssumption

-----------------------------------------------------------------------------
LEMMA AuthInitInv == AuthInit => AuthInv
  <1>. SUFFICES ASSUME AuthInit PROVE AuthInv
    OBVIOUS
  <1>1. AuthTypeOK
    BY DEF AuthInit, AuthTypeOK, Idle, AuthKeys
  <1>2. OverInv
    BY DEF AuthInit, OverInv
  <1>3. CountInv
    BY DEF AuthInit, CountInv, ClockInv, ListInv, Listing, Limiting, Idle, AuthKeys
  <1>. QED
    BY <1>1, <1>2, <1>3 DEF AuthInv

AuthRequests == [pc : {"away", "read", "assign", "count", "check", "session", "fail", "append",
                       "lost"},
                 key : AuthKeys, name : Names \cup {Admin}, now : Nat, seen : SUBSET Nat]

LEMMA PassType ==
  ASSUME AuthTypeOK, NEW t \in Threads, NEW pc \in {"check", "session", "fail", "append"},
         Pass(t, pc)
  PROVE  request' \in [Threads -> AuthRequests]
  BY DEF AuthTypeOK, Pass, AuthRequests

LEMMA AnswerType ==
  ASSUME AuthTypeOK, NEW t \in Threads, Answer(t)
  PROVE  request' \in [Threads -> AuthRequests]
  BY DEF AuthTypeOK, Answer, Idle, AuthRequests, AuthKeys

LEMMA AssignedType ==
  ASSUME AuthTypeOK, NEW t \in Threads, Assigned(t)
  PROVE  request' \in [Threads -> AuthRequests]
  <1>1. ASSUME NEW u \in Threads PROVE [request[u] EXCEPT !.pc = "lost"] \in AuthRequests
    BY DEF AuthTypeOK, AuthRequests
  <1>. QED
    BY <1>1 DEF AuthTypeOK, Assigned, AuthRequests

LEMMA SessionType ==
  ASSUME NEW token \in Tokens, NEW owner \in Names \cup {Admin}, NEW verifier \in Passwords
  PROVE  [token |-> token, owner |-> owner, verifier |-> verifier, live |-> TRUE] \in Sessions
  BY DEF Sessions

\* What RunOut makes of the session of a token.
Ended(s) == [s EXCEPT !.live = FALSE]

LEMMA EndedType ==
  ASSUME NEW s \in Sessions
  PROVE  Ended(s) \in Sessions /\ Ended(s).live = FALSE /\ Ended(s).token = s.token
  BY DEF Sessions, Ended

\* The sessions after RunOut are those before, one of them ended.
LEMMA RunOutSessions ==
  ASSUME AuthTypeOK, NEW token, RunOut(token), NEW r \in sessions'
  PROVE  \/ r \in sessions /\ r.token # token
         \/ \E s \in sessions : r = Ended(s) /\ s.token = token
  BY Zenon DEF RunOut, Ended

LEMMA RunOutFacts ==
  ASSUME AuthTypeOK, NEW token, RunOut(token), NEW r \in sessions'
  PROVE  /\ r \in Sessions
         /\ \E s \in sessions : s.token = r.token
         /\ r.token = token => r.live = FALSE
         /\ r.token # token => r \in sessions
  <1>1. CASE r \in sessions /\ r.token # token
    BY <1>1 DEF AuthTypeOK
  <1>2. CASE \E s \in sessions : r = Ended(s) /\ s.token = token
    <2>1. PICK s \in sessions : r = Ended(s) /\ s.token = token
      BY <1>2
    <2>2. s \in Sessions
      BY DEF AuthTypeOK
    <2>3. r \in Sessions /\ r.live = FALSE /\ r.token = token
      BY <2>1, <2>2, EndedType, Zenon
    <2>. QED
      BY <2>1, <2>3
  <1>. QED
    BY <1>1, <1>2, RunOutSessions, Zenon

LEMMA AuthTypeStep == AuthTypeOK /\ [AuthNext]_authVars => AuthTypeOK'
  <1>. SUFFICES ASSUME AuthTypeOK, [AuthNext]_authVars PROVE AuthTypeOK'
    OBVIOUS
  <1>. USE DEF AuthTypeOK, AuthRequests, accounts, failures
  <1>1. ASSUME NEW t \in Threads, NEW key \in AuthKeys, NEW name \in Names \cup {Admin},
               Ask(t, key, name)
        PROVE  AuthTypeOK'
    <2>1. ranOut[key] \in Nat /\ Clocks(key) \subseteq Nat
      BY DEF Clocks
    <2>2. since' \in [Threads -> Nat]
      BY <1>1, <2>1 DEF Ask
    <2>3. request' \in [Threads -> AuthRequests]
      BY <1>1, <2>1 DEF Ask
    <2>. QED
      BY <1>1, <2>2, <2>3 DEF Ask
  <1>2. ASSUME NEW t \in Threads, ReadAttempts(t) PROVE AuthTypeOK'
    BY <1>2 DEF ReadAttempts
  <1>3. ASSUME NEW t \in Threads, AssignAttempts(t) PROVE AuthTypeOK'
    BY <1>3, AssignedType DEF AssignAttempts
  <1>4. ASSUME NEW t \in Threads, CountAttempts(t) PROVE AuthTypeOK'
    BY <1>4, PassType, AnswerType DEF CountAttempts
  <1>5. ASSUME NEW t \in Threads, LookUpAttempts(t) PROVE AuthTypeOK'
    BY <1>5, PassType DEF LookUpAttempts
  <1>6. ASSUME NEW t \in Threads, CountFailure(t) PROVE AuthTypeOK'
    BY <1>6, AnswerType DEF CountFailure
  <1>7. ASSUME NEW t \in Threads, RegisterUser(t) PROVE AuthTypeOK'
    BY <1>7, PassType DEF RegisterUser
  <1>8. ASSUME NEW t \in Threads, CheckPassword(t) PROVE AuthTypeOK'
    BY <1>8, PassType DEF CheckPassword
  <1>9. ASSUME NEW t \in Threads, InsertSession(t) PROVE AuthTypeOK'
    <2>1. PICK token \in Tokens :
            sessions' = Live \cup {[token |-> token, owner |-> request[t].name,
                                    verifier |-> adminPassword, live |-> TRUE]}
      BY <1>9, Zenon DEF InsertSession
    <2>2. request[t].name \in Names \cup {Admin}
      OBVIOUS
    <2>3. sessions' \subseteq Sessions
      BY <2>1, <2>2, SessionType, Zenon DEF Live
    <2>. QED
      BY <1>9, <2>3, AnswerType DEF InsertSession
  <1>10. ASSUME NEW token \in Tokens, RevokeSession(token) PROVE AuthTypeOK'
    BY <1>10 DEF RevokeSession
  <1>11. ASSUME NEW token \in Tokens, RunOut(token) PROVE AuthTypeOK'
    <2>1. sessions' \subseteq Sessions
      BY <1>11, RunOutFacts, Zenon
    <2>. QED
      BY <1>11, <2>1 DEF RunOut
  <1>12. ASSUME NEW key \in AuthKeys, WindowPasses(key) PROVE AuthTypeOK'
    BY <1>12 DEF WindowPasses
  <1>13. CASE RestartServer
    <2>1. Migrated(stored) \subseteq Sessions
      <3>1. \A entry \in stored : entry[1] \in Tokens /\ entry[2] \in Names \cup {Admin}
        OBVIOUS
      <3>2. \A entry \in stored :
              [token |-> entry[1], owner |-> entry[2], verifier |-> adminPassword,
               live |-> TRUE] \in Sessions
        BY <3>1, SessionType, Zenon
      <3>. QED
        BY <3>2, Zenon DEF Migrated
    <2>2. sessions' \subseteq Sessions
      BY <1>13, <2>1 DEF RestartServer, Live
    <2>3. request' \in [Threads -> AuthRequests]
      BY <1>13 DEF RestartServer, Forgets, Idle, AuthKeys
    <2>. QED
      BY <1>13, <2>2, <2>3 DEF RestartServer, Forgets
  <1>14. CASE UNCHANGED authVars
    BY <1>14 DEF authVars
  <1>. QED
    BY <1>1, <1>2, <1>3, <1>4, <1>5, <1>6, <1>7, <1>8, <1>9, <1>10, <1>11, <1>12,
       <1>13, <1>14 DEF AuthNext

-----------------------------------------------------------------------------
\* Tokens only leave: to over, out of the old column, out of the sessions.
LEMMA OverStep == AuthInv /\ [AuthNext]_authVars => OverInv'
  <1>. SUFFICES ASSUME AuthInv, [AuthNext]_authVars PROVE OverInv'
    OBVIOUS
  <1>. USE DEF AuthInv, OverInv
  <1>1. ASSUME UNCHANGED <<stored, sessions, over>> PROVE OverInv'
    BY <1>1
  <1>2. ASSUME NEW t \in Threads, InsertSession(t) PROVE OverInv'
    BY <1>2 DEF InsertSession, Live
  <1>3. ASSUME NEW token \in Tokens, RevokeSession(token) PROVE OverInv'
    BY <1>3 DEF RevokeSession
  <1>4. ASSUME NEW token \in Tokens, RunOut(token) PROVE OverInv'
    <2>1. over' = over \cup {token} /\ stored' = stored
      BY <1>4, Zenon DEF RunOut
    <2>2. ASSUME NEW r \in sessions' PROVE r.live => r.token \notin over'
      <3>1. (r.token = token => r.live = FALSE) /\ (r.token # token => r \in sessions)
        BY <1>4, RunOutFacts
      <3>. QED
        BY <2>1, <3>1
    <2>3. ASSUME NEW r \in sessions', NEW entry \in stored PROVE r.token # entry[1]
      <3>1. PICK s \in sessions : s.token = r.token
        BY <1>4, RunOutFacts
      <3>. QED
        BY <3>1
    <2>4. \A entry \in stored : entry[1] # token
      BY <1>4 DEF RunOut
    <2>. QED
      BY <2>1, <2>2, <2>3, <2>4
  <1>5. CASE RestartServer
    BY <1>5 DEF RestartServer, Live, Migrated
  <1>. QED
    BY <1>1, <1>2, <1>3, <1>4, <1>5 DEF AuthNext, authVars, accounts, Ask, ReadAttempts,
       AssignAttempts, CountAttempts, LookUpAttempts, CountFailure, RegisterUser,
       CheckPassword, WindowPasses

\* A thread that is not in _auth_limited has no part in the lists.
LEMMA CountOutside ==
  ASSUME AuthInv, UNCHANGED failures, NEW t \in Threads, request'[t].pc \notin Limiting,
         \A u \in Threads \ {t} : request'[u] = request[u] /\ since'[u] = since[u]
  PROVE  CountInv'
  BY DEF AuthInv, CountInv, ClockInv, ListInv, Listing, Limiting, failures

LEMMA CountPasses ==
  ASSUME AuthInv, UNCHANGED <<failures, since>>, NEW t \in Threads,
         Answer(t) \/ \E pc \in {"check", "session", "fail", "append"} : Pass(t, pc)
  PROVE  CountInv'
  <1>1. request'[t].pc \notin Limiting
    BY DEF AuthInv, AuthTypeOK, Answer, Pass, Idle, Listing, Limiting
  <1>2. \A u \in Threads \ {t} : request'[u] = request[u] /\ since'[u] = since[u]
    BY DEF AuthInv, AuthTypeOK, Answer, Pass
  <1>. QED
    BY <1>1, <1>2, CountOutside

\* The clocks before and after the steps of _auth_limited.
LEMMA AskInv ==
  ASSUME AuthInv, NEW t \in Threads, NEW key \in AuthKeys, NEW name \in Names \cup {Admin},
         Ask(t, key, name)
  PROVE  CountInv'
  <1>. USE DEF AuthInv, AuthTypeOK, CountInv, Listing, Limiting
  <1>1. PICK clock \in Clocks(key) \cup {ranOut[key]} :
          /\ \A other \in Clocks(key) \cup {ranOut[key]} : clock <= other
          /\ since' = [since EXCEPT ![t] = clock]
    BY DEF Ask
  <1>2. /\ request'[t] = [pc |-> "read", key |-> key, name |-> name, now |-> ranOut[key],
                          seen |-> {}]
        /\ \A u \in Threads \ {t} : request'[u] = request[u]
        /\ attempts' = attempts /\ made' = made /\ ranOut' = ranOut
    BY DEF Ask, failures
  <1>3. /\ since'[t] = clock /\ clock <= ranOut[key]
        /\ \A u \in Threads \ {t} : since'[u] = since[u]
    BY <1>1
  <1>4. ASSUME NEW u \in Threads, u # t, request[u].pc \in Listing, request[u].key = key
        PROVE  clock <= request[u].now
    BY <1>1, <1>4 DEF Clocks
  <1>5. request'[t].pc = "read" /\ request'[t].key = key /\ request'[t].now = ranOut[key]
    BY <1>2
  <1>6. \A u \in Threads : request'[u].pc \in Limiting => since'[u] <= ranOut[request'[u].key]
    BY <1>2, <1>3, <1>5 DEF ClockInv
  <1>7. \A u \in Threads : request'[u].pc \in Listing =>
          request'[u].now <= ranOut[request'[u].key]
    <2>1. ranOut[key] <= ranOut[key]
      OBVIOUS
    <2>. QED
      BY <1>2, <1>5, <2>1 DEF ClockInv
  <1>8. ASSUME NEW u \in Threads, NEW v \in Threads, request'[u].pc \in Limiting,
               request'[v].pc \in Listing, request'[u].key = request'[v].key
        PROVE  since'[u] <= request'[v].now
    <2>1. CASE v = t
      BY <1>5, <1>6, <1>8, <2>1
    <2>2. CASE v # t /\ u = t
      BY <1>2, <1>3, <1>4, <1>5, <1>8, <2>2
    <2>3. CASE v # t /\ u # t
      BY <1>2, <1>3, <1>8, <2>3 DEF ClockInv
    <2>. QED
      BY <2>1, <2>2, <2>3
  <1>9. ClockInv'
    BY <1>2, <1>6, <1>7, <1>8, Zenon DEF ClockInv
  <1>10. \A u \in Threads : request'[u].pc \in {"assign", "count"} =>
           request'[u] = request[u] /\ since'[u] = since[u]
    BY <1>2, <1>3, <1>5
  <1>11. ListInv'
    BY <1>2, <1>10 DEF ListInv
  <1>. QED
    BY <1>9, <1>11

LEMMA ReadInv ==
  ASSUME AuthInv, NEW t \in Threads, ReadAttempts(t)
  PROVE  CountInv'
  <1>. USE DEF AuthInv, AuthTypeOK, CountInv, Listing, Limiting
  <1>. DEFINE key == request[t].key
  <1>1. /\ request'[t].pc = "assign" /\ request'[t].key = key
        /\ request'[t].now = request[t].now
        /\ request'[t].seen = {n \in attempts[key] : n > request[t].now}
        /\ \A u \in Threads \ {t} : request'[u] = request[u]
    BY DEF ReadAttempts
  <1>2. /\ attempts' = attempts /\ made' = made /\ ranOut' = ranOut /\ since' = since
        /\ request[t].pc = "read"
    BY DEF ReadAttempts, failures
  <1>3. \A u \in Threads : /\ request'[u].key = request[u].key /\ request'[u].now = request[u].now
                           /\ request'[u].pc \in Listing <=> request[u].pc \in Listing
                           /\ request'[u].pc \in Limiting <=> request[u].pc \in Limiting
                           /\ request'[u].pc = "count" <=> request[u].pc = "count"
    BY <1>1, <1>2
  <1>4. ClockInv'
    BY <1>2, <1>3, Zenon DEF ClockInv
  <1>5. ASSUME NEW n \in request'[t].seen
        PROVE  request[t].now < n /\ n <= made[key]
    BY <1>1, <1>5 DEF ListInv
  <1>6. ListInv'
    BY <1>1, <1>2, <1>3, <1>5 DEF ListInv
  <1>. QED
    BY <1>4, <1>6

LEMMA AssignInv ==
  ASSUME AuthInv, NEW t \in Threads, AssignAttempts(t)
  PROVE  CountInv'
  <1>. USE DEF AuthInv, AuthTypeOK, CountInv, Listing, Limiting
  <1>. DEFINE key == request[t].key
  <1>1. request[t].pc = "assign" /\ key \in AuthKeys
    BY DEF AssignAttempts
  <1>2. /\ made' = made /\ ranOut' = ranOut /\ since' = since
        /\ attempts'[key] = request[t].seen
        /\ \A k \in AuthKeys \ {key} : attempts'[k] = attempts[k]
    BY <1>1 DEF AssignAttempts
  <1>3. request'[t].pc = "count" /\ request'[t].key = key
    BY DEF AssignAttempts, Assigned
  <1>4. ASSUME NEW u \in Threads, u # t
        PROVE  \/ request'[u] = request[u]
               \/ request'[u].pc = "lost"
    BY <1>4 DEF AssignAttempts, Assigned
  <1>5. ASSUME NEW u \in Threads, request'[u].pc \in Limiting
         PROVE  /\ request[u].pc \in Limiting /\ request[u].key = request'[u].key
                /\ request'[u].pc \in Listing =>
                     request[u].pc \in Listing /\ request[u].now = request'[u].now
    BY <1>1, <1>3, <1>4, <1>5
  <1>6. ClockInv'
    BY <1>2, <1>5 DEF ClockInv
  <1>7. ASSUME NEW u \in Threads, request'[u].pc = "count", NEW n \in attempts'[request'[u].key]
        PROVE  since[u] < n
    <2>1. CASE request'[u].key = key
      <3>1. n \in request[t].seen /\ request[t].now < n /\ request[t].now \in Nat /\ n \in Nat
        BY <1>1, <1>2, <1>7, <2>1 DEF ListInv
      <3>2. request[u].pc \in Limiting /\ request[u].key = key
        BY <1>1, <1>3, <1>4, <1>7, <2>1
      <3>3. since[u] <= request[t].now /\ since[u] \in Nat
        BY <1>1, <3>2 DEF ClockInv
      <3>. QED
        BY <3>1, <3>3
    <2>2. CASE request'[u].key # key
      <3>1. u # t /\ request'[u] = request[u]
        BY <1>3, <1>4, <1>7, <2>2
      <3>. QED
        BY <1>2, <1>7, <2>2, <3>1 DEF ListInv
    <2>. QED
      BY <2>1, <2>2
  <1>8. \A k \in AuthKeys : \A n \in attempts'[k] : n <= made[k]
    BY <1>1, <1>2 DEF ListInv
  <1>9. ASSUME NEW u \in Threads, request'[u].pc = "assign" PROVE request'[u] = request[u]
    BY <1>3, <1>4, <1>9
  <1>10. ListInv'
    BY <1>2, <1>7, <1>8, <1>9 DEF ListInv
  <1>. QED
    BY <1>6, <1>10

\* One more failure is later than every clock.
LEMMA FailureInv ==
  ASSUME AuthInv, NEW t \in Threads, CountFailure(t)
  PROVE  CountInv'
  <1>. USE DEF AuthInv, AuthTypeOK, CountInv, Listing, Limiting
  <1>. DEFINE key == request[t].key
  <1>1. key \in AuthKeys /\ made[key] \in Nat
    OBVIOUS
  <1>2. /\ made'[key] = made[key] + 1
        /\ \A k \in AuthKeys \ {key} : made'[k] = made[k]
        /\ ranOut' = ranOut /\ since' = since
    BY <1>1 DEF CountFailure
  <1>3. ASSUME NEW k \in AuthKeys, NEW n \in attempts'[k]
        PROVE  n \in attempts[k] \/ (k = key /\ n = made[key] + 1)
    BY <1>1, <1>3 DEF CountFailure
  <1>4. /\ request'[t].pc = "away"
        /\ \A u \in Threads \ {t} : request'[u] = request[u]
    BY DEF CountFailure, Answer, Idle
  <1>5. \A k \in AuthKeys : made[k] <= made'[k] /\ made'[k] \in Nat
    BY <1>1, <1>2
  <1>6. ClockInv'
    BY <1>2, <1>4, <1>5 DEF ClockInv
  <1>7. \A k \in AuthKeys : \A n \in attempts'[k] : n <= made'[k]
    BY <1>1, <1>2, <1>3 DEF ListInv
  <1>8. ASSUME NEW u \in Threads, request'[u].pc = "count", NEW n \in attempts'[request'[u].key]
        PROVE  since[u] < n
    <2>1. u # t /\ request'[u] = request[u] /\ request[u].key \in AuthKeys
      BY <1>4, <1>8
    <2>2. since[u] <= ranOut[request[u].key] /\ ranOut[request[u].key] <= made[request[u].key]
      BY <1>8, <2>1 DEF ClockInv
    <2>3. CASE n \in attempts[request[u].key]
      BY <1>8, <2>1, <2>3 DEF ListInv
    <2>4. CASE request[u].key = key /\ n = made[key] + 1
      BY <1>1, <2>2, <2>4
    <2>. QED
      BY <1>3, <1>8, <2>1, <2>3, <2>4
  <1>9. ASSUME NEW u \in Threads, request'[u].pc = "assign", NEW n \in request'[u].seen
        PROVE  request'[u].now < n /\ n <= made'[request'[u].key]
    <2>1. u # t /\ request'[u] = request[u] /\ request[u].key \in AuthKeys /\ n \in Nat
      BY <1>4, <1>9
    <2>2. request[u].now < n /\ n <= made[request[u].key]
      BY <1>9, <2>1 DEF ListInv
    <2>. QED
      BY <1>5, <2>1, <2>2
  <1>10. ListInv'
    BY <1>2, <1>7, <1>8, <1>9 DEF ListInv
  <1>. QED
    BY <1>6, <1>10

\* The lists and the failures.
LEMMA CountStep == AuthInv /\ [AuthNext]_authVars => CountInv'
  <1>. SUFFICES ASSUME AuthInv, [AuthNext]_authVars PROVE CountInv'
    OBVIOUS
  <1>1. ASSUME UNCHANGED <<request, since, failures>> PROVE CountInv'
    BY <1>1 DEF AuthInv, CountInv, ClockInv, ListInv, failures
  <1>2. ASSUME NEW t \in Threads,
               RegisterUser(t) \/ CheckPassword(t) \/ InsertSession(t) \/ LookUpAttempts(t)
        PROVE  CountInv'
    <2>1. /\ UNCHANGED <<failures, since>>
          /\ Answer(t) \/ \E pc \in {"check", "session", "fail", "append"} : Pass(t, pc)
      BY <1>2, Zenon DEF RegisterUser, CheckPassword, InsertSession, LookUpAttempts
    <2>. QED
      BY <2>1, CountPasses
  <1>3. ASSUME NEW t \in Threads, CountAttempts(t) PROVE CountInv'
    <2>1. request'[t].pc \notin Limiting
      BY <1>3 DEF CountAttempts, AuthInv, AuthTypeOK, Answer, Pass, Idle, Listing, Limiting
    <2>2. \A u \in Threads \ {t} : request'[u] = request[u] /\ since'[u] = since[u]
      BY <1>3 DEF CountAttempts, AuthInv, AuthTypeOK, Answer, Pass
    <2>. QED
      BY <1>3, <2>1, <2>2, CountOutside DEF CountAttempts
  <1>4. ASSUME NEW key \in AuthKeys, WindowPasses(key) PROVE CountInv'
    <2>1. /\ UNCHANGED <<request, since, attempts, made>>
          /\ \A k \in AuthKeys : ranOut[k] <= ranOut'[k] /\ ranOut'[k] <= made[k]
      BY <1>4 DEF WindowPasses, AuthInv, AuthTypeOK, CountInv, ClockInv
    <2>2. ranOut' \in [AuthKeys -> Nat]
      BY <1>4 DEF WindowPasses, AuthInv, AuthTypeOK
    <2>3. ClockInv'
      BY <2>1, <2>2 DEF AuthInv, AuthTypeOK, CountInv, ClockInv, Listing, Limiting
    <2>4. ListInv'
      BY <2>1 DEF AuthInv, CountInv, ListInv
    <2>. QED
      BY <2>3, <2>4 DEF CountInv
  <1>5. CASE RestartServer
    BY <1>5 DEF RestartServer, Forgets, Idle, CountInv, ClockInv, ListInv, Listing, Limiting,
       AuthInv, AuthTypeOK
  <1>6. ASSUME NEW token \in Tokens, RevokeSession(token) \/ RunOut(token) PROVE CountInv'
    <2>1. UNCHANGED <<request, since, failures>>
      BY <1>6, Zenon DEF RevokeSession, RunOut
    <2>. QED
      BY <1>1, <2>1
  <1>7. CASE UNCHANGED authVars
    BY <1>1, <1>7 DEF authVars
  <1>. QED
    BY <1>2, <1>3, <1>4, <1>5, <1>6, <1>7, AskInv, ReadInv, AssignInv, FailureInv DEF AuthNext

LEMMA AuthInvariant == AuthSpec => []AuthInv
  <1>1. AuthInv /\ [AuthNext]_authVars => AuthInv'
    BY AuthTypeStep, OverStep, CountStep DEF AuthInv
  <1>. QED
    BY AuthInitInv, <1>1, PTL DEF AuthSpec

\* session_actor never accepts a token again that revoke_session has removed or whose time
\* is over, whatever is inserted, purged or moved by init_db afterwards.
THEOREM SessionsEnd == AuthSpec => []EndedStaysEnded
  <1>1. AuthInv => EndedStaysEnded
    BY DEF AuthInv, OverInv, EndedStaysEnded, Accepted
  <1>. QED
    BY <1>1, AuthInvariant, PTL

\* _auth_limited refuses only for as many failures of the kind that were in the window, or
\* still to come, at the earliest clock of those who were in _auth_limited when the request
\* came to it, however the threads overwrite each other's lists.
THEOREM Refused == AuthSpec => []RefusedByFailures
  <1>1. AuthInv => RefusedByFailures
    <2>. SUFFICES ASSUME AuthInv, NEW t \in Threads, request[t].pc = "count",
                         Cardinality(attempts[request[t].key]) >= Limit
                  PROVE  made[request[t].key] - since[t] >= Limit
      BY DEF RefusedByFailures
    <2>. DEFINE key == request[t].key
    <2>1. /\ since[t] \in Nat /\ made[key] \in Nat /\ attempts[key] \subseteq Nat
          /\ key \in AuthKeys
      BY DEF AuthInv, AuthTypeOK
    <2>2. \A n \in attempts[key] : since[t] < n /\ n <= made[key]
      BY <2>1 DEF AuthInv, CountInv, ListInv
    <2>3. attempts[key] \subseteq (since[t] + 1)..made[key]
      BY <2>1, <2>2
    <2>4. /\ IsFiniteSet((since[t] + 1)..made[key])
          /\ Cardinality((since[t] + 1)..made[key]) =
               IF since[t] + 1 > made[key] THEN 0 ELSE made[key] - (since[t] + 1) + 1
      <3>1. since[t] + 1 \in Int /\ made[key] \in Int
        BY <2>1
      <3>. HIDE DEF key
      <3>. QED
        BY <3>1, FS_Interval, Zenon
    <2>5. Cardinality(attempts[key]) <= Cardinality((since[t] + 1)..made[key])
      BY <2>3, <2>4, FS_Subset
    <2>6. Cardinality(attempts[key]) \in Nat
      BY <2>3, <2>4, FS_Subset, FS_CardinalityType
    <2>7. Cardinality((since[t] + 1)..made[key]) >= Limit /\ Limit >= 1
      BY <2>1, <2>4, <2>5, <2>6
    <2>. QED
      BY <2>1, <2>4, <2>7
  <1>. QED
    BY <1>1, AuthInvariant, PTL

-----------------------------------------------------------------------------
(* WebLinks.                                                               *)
(* SameRevisionSameLink for any requests, owners and data, and any numbers *)
(* of links and edits.  Ids are given once (RowsInv), so what the parser   *)
(* has seen of an id is the past of the link that has it now, or of one    *)
(* that is gone for good (SeenInv): not newer, and the same where the      *)
(* revision is the same.                                                   *)

Seen(link) == [id |-> link.id, data |-> link.data, revision |-> link.revision]

RowsInv ==
  /\ links \subseteq [id : Nat, owner : Owners, data : Data, revision : Nat]
  /\ lastId \in Nat
  /\ \A link \in links : link.id <= lastId
  /\ \A k, l \in links : k.id = l.id => k = l

SeenInv ==
  /\ seen \subseteq [id : Nat, data : Data, revision : Nat]
  /\ \A s \in seen : s.id <= lastId
  /\ \A s, t \in seen : s.id = t.id /\ s.revision = t.revision => s.data = t.data
  /\ \A s \in seen, link \in links : s.id = link.id =>
       s.revision <= link.revision /\ (s.revision = link.revision => s.data = link.data)

Requested == [pc : {"away", "write", "answer", "owner", "insert"},
              actor : Owners \cup {WebAdmin}, owner : Owners, id : Nat, data : Data]

\* A request that writes carries data and an owner of the right kind; users are owners.
EditInv == owners \subseteq Owners /\ edit \in [Requests -> Requested]

LinksInv == RowsInv /\ SeenInv /\ EditInv

USE LinksAssumption

-----------------------------------------------------------------------------
LEMMA Somebody == SomeOwner \in Owners /\ SomeData \in Data
  <1>1. PICK url \in Urls, filter \in Filters : TRUE
    OBVIOUS
  <1>2. [url |-> url, filter |-> filter] \in Data
    BY DEF Data
  <1>. QED
    BY <1>2 DEF SomeOwner, SomeData

LEMMA NobodyAsks == NoRequest \in Requested
  BY Somebody DEF NoRequest, Requested

\* A new link has an id the parser has never seen.
LEMMA InsertedKeeps ==
  ASSUME LinksInv, NEW owner \in Owners, NEW data \in Data, Inserted(owner, data), UNCHANGED seen
  PROVE  RowsInv' /\ SeenInv'
  <1>. DEFINE new == [id |-> lastId + 1, owner |-> owner, data |-> data, revision |-> 0]
  <1>1. lastId' = lastId + 1 /\ links' = links \cup {new}
    BY DEF Inserted
  <1>2. RowsInv'
    BY <1>1 DEF LinksInv, RowsInv
  <1>3. SeenInv'
    BY <1>1 DEF LinksInv, RowsInv, SeenInv
  <1>. QED
    BY <1>2, <1>3

LEMMA EditedRow ==
  ASSUME NEW link \in [id : Nat, owner : Owners, data : Data, revision : Nat], NEW data \in Data
  PROVE  LET edited == [link EXCEPT !.data = data, !.revision = link.revision + 1]
         IN  /\ edited \in [id : Nat, owner : Owners, data : Data, revision : Nat]
             /\ edited.id = link.id /\ edited.revision = link.revision + 1
  <1>. DEFINE other == [link EXCEPT !.data = data]
  <1>1. /\ other \in [id : Nat, owner : Owners, data : Data, revision : Nat]
        /\ other.id = link.id /\ link.revision + 1 \in Nat
    OBVIOUS
  <1>2. /\ [other EXCEPT !.revision = link.revision + 1]
             \in [id : Nat, owner : Owners, data : Data, revision : Nat]
        /\ [other EXCEPT !.revision = link.revision + 1].id = link.id
        /\ [other EXCEPT !.revision = link.revision + 1].revision = link.revision + 1
    <2>. HIDE DEF other
    <2>. QED
      BY <1>1
  <1>. QED
    BY <1>2, Zenon

\* An edit is the next revision of the one link it finds.
LEMMA UpdateKeeps ==
  ASSUME LinksInv, NEW r \in Requests, UpdateLink(r)
  PROVE  RowsInv' /\ SeenInv'
  <1>. DEFINE found == Reaches(edit[r].actor, edit[r].id)
              Edited(link) == [link EXCEPT !.data = edit[r].data, !.revision = link.revision + 1]
  <1>1. /\ links' = (links \ found) \cup {Edited(link) : link \in found}
        /\ UNCHANGED <<lastId, seen>>
    BY Zenon DEF UpdateLink
  <1>2. found \subseteq links
    BY DEF Reaches
  <1>3. ASSUME NEW link \in links
        PROVE  /\ Edited(link) \in [id : Nat, owner : Owners, data : Data, revision : Nat]
               /\ Edited(link).id = link.id /\ Edited(link).revision = link.revision + 1
    <2>1. /\ link \in [id : Nat, owner : Owners, data : Data, revision : Nat]
          /\ edit[r].data \in Data
      BY DEF LinksInv, RowsInv, EditInv, Requested
    <2>. QED
      BY <2>1, EditedRow
  <1>. HIDE DEF Edited, found
  <1>4. \A l \in links' : \/ l \in links \ found
                          \/ \E link \in found : l = Edited(link)
    BY <1>1, Zenon
  <1>5. RowsInv'
    <2>1. ASSUME NEW l \in links'
          PROVE  /\ l \in [id : Nat, owner : Owners, data : Data, revision : Nat]
                 /\ l.id <= lastId
      BY <1>2, <1>3, <1>4 DEF LinksInv, RowsInv
    <2>2. ASSUME NEW k \in links', NEW l \in links', k.id = l.id PROVE k = l
      BY <1>2, <1>3, <1>4, <2>2 DEF LinksInv, RowsInv
    <2>. QED
      BY <1>1, <2>1, <2>2 DEF LinksInv, RowsInv
  <1>6. SeenInv'
    <2>1. ASSUME NEW s \in seen, NEW l \in links', s.id = l.id
          PROVE  s.revision <= l.revision /\ (s.revision = l.revision => s.data = l.data)
      <3>1. CASE l \in links
        BY <2>1, <3>1 DEF LinksInv, SeenInv
      <3>2. CASE l \notin links
        <4>1. PICK link \in found : l = Edited(link)
          BY <1>4, <3>2
        <4>2. s.id = link.id /\ l.revision = link.revision + 1
          BY <1>2, <1>3, <2>1, <4>1
        <4>3. s.revision <= link.revision /\ s.revision \in Nat /\ link.revision \in Nat
          BY <1>2, <4>2 DEF LinksInv, RowsInv, SeenInv
        <4>. QED
          BY <4>2, <4>3
      <3>. QED
        BY <3>1, <3>2
    <2>. QED
      BY <1>1, <2>1 DEF LinksInv, SeenInv
  <1>. QED
    BY <1>5, <1>6

\* The parser sees the links as they are.
LEMMA ReadKeeps ==
  ASSUME LinksInv, ReadAll
  PROVE  RowsInv' /\ SeenInv'
  <1>1. seen' = seen \cup {Seen(link) : link \in links} /\ UNCHANGED <<links, lastId>>
    BY Zenon DEF ReadAll, Seen
  <1>2. ASSUME NEW link \in links
        PROVE  /\ Seen(link) \in [id : Nat, data : Data, revision : Nat]
               /\ Seen(link).id = link.id /\ Seen(link).data = link.data
               /\ Seen(link).revision = link.revision
    BY DEF LinksInv, RowsInv, Seen
  <1>3. \A s \in seen' : s \in seen \/ \E link \in links : s = Seen(link)
    BY <1>1, Zenon
  <1>4. RowsInv'
    BY <1>1 DEF LinksInv, RowsInv
  <1>5. SeenInv'
    <2>1. ASSUME NEW s \in seen'
          PROVE  s \in [id : Nat, data : Data, revision : Nat] /\ s.id <= lastId
      BY <1>2, <1>3 DEF LinksInv, RowsInv, SeenInv
    <2>2. ASSUME NEW s \in seen', NEW link \in links, s.id = link.id
          PROVE  s.revision <= link.revision /\ (s.revision = link.revision => s.data = link.data)
      BY <1>2, <1>3, <2>2 DEF LinksInv, RowsInv, SeenInv
    <2>3. ASSUME NEW s \in seen', NEW t \in seen', s.id = t.id, s.revision = t.revision
          PROVE  s.data = t.data
      BY <1>2, <1>3, <2>3 DEF LinksInv, RowsInv, SeenInv
    <2>. QED
      BY <1>1, <2>1, <2>2, <2>3 DEF LinksInv, SeenInv
  <1>. QED
    BY <1>4, <1>5

-----------------------------------------------------------------------------
LEMMA RowsStep == LinksInv /\ [LinksNext]_linksVars => RowsInv' /\ SeenInv'
  <1>. SUFFICES ASSUME LinksInv, [LinksNext]_linksVars PROVE RowsInv' /\ SeenInv'
    OBVIOUS
  <1>1. ASSUME UNCHANGED <<links, lastId, seen>> PROVE RowsInv' /\ SeenInv'
    BY <1>1 DEF LinksInv, RowsInv, SeenInv
  <1>2. ASSUME NEW r \in Requests, CreateOwner(r) PROVE RowsInv' /\ SeenInv'
    BY <1>1, <1>2, InsertedKeeps DEF CreateOwner, LinksInv, EditInv, Requested
  <1>3. ASSUME NEW r \in Requests, CreateLink(r) PROVE RowsInv' /\ SeenInv'
    BY <1>3, InsertedKeeps DEF CreateLink, LinksInv, EditInv, Requested
  <1>4. ASSUME NEW actor \in Actors, NEW id \in 1..lastId, DeleteLink(actor, id)
        PROVE  RowsInv' /\ SeenInv'
    <2>1. links' \subseteq links /\ UNCHANGED <<lastId, seen>>
      BY <1>4 DEF DeleteLink
    <2>. QED
      BY <2>1 DEF LinksInv, RowsInv, SeenInv
  <1>. QED
    BY <1>1, <1>2, <1>3, <1>4, UpdateKeeps, ReadKeeps
    DEF LinksNext, linksVars, Register, AskCreate, AskUpdate, AnswerUpdate

LEMMA EditStep == LinksInv /\ [LinksNext]_linksVars => EditInv'
  <1>. SUFFICES ASSUME LinksInv, [LinksNext]_linksVars PROVE EditInv'
    OBVIOUS
  <1>. USE DEF LinksInv, EditInv
  <1>1. owners' \subseteq Owners
    BY DEF LinksNext, linksVars, Register, CreateOwner, Requested, AskCreate, CreateLink,
       AskUpdate, UpdateLink, AnswerUpdate, DeleteLink, ReadAll
  <1>. SUFFICES edit' \in [Requests -> Requested]
    BY <1>1
  <1>2. ASSUME NEW r \in Requests, NEW actor \in Actors, NEW owner \in Owners, NEW data \in Data,
               AskCreate(r, actor, owner, data)
        PROVE  edit' \in [Requests -> Requested]
    <2>1. /\ actor \in Owners \cup {WebAdmin}
          /\ (IF owner \in owners THEN "insert" ELSE "owner") \in {"owner", "insert"}
      BY DEF Actors
    <2>. QED
      BY <1>2, <2>1, Somebody DEF AskCreate, NoRequest, Requested
  <1>3. ASSUME NEW r \in Requests, NEW actor \in Actors, NEW id \in 1..lastId, NEW data \in Data,
               AskUpdate(r, actor, id, data)
        PROVE  edit' \in [Requests -> Requested]
    <2>1. actor \in Owners \cup {WebAdmin} /\ id \in Nat
      BY DEF Actors, RowsInv
    <2>. QED
      BY <1>3, <2>1, Somebody DEF AskUpdate, NoRequest, Requested
  <1>4. ASSUME NEW r \in Requests, Closes(r) PROVE edit' \in [Requests -> Requested]
    BY <1>4, NobodyAsks DEF Closes
  <1>5. ASSUME NEW r \in Requests, UpdateLink(r) PROVE edit' \in [Requests -> Requested]
    BY <1>5 DEF UpdateLink, Proceeds, Requested
  <1>. QED
    BY <1>2, <1>3, <1>4, <1>5 DEF LinksNext, linksVars, Register, CreateOwner, CreateLink,
       AnswerUpdate, DeleteLink, ReadAll

\* get_all_links never shows the parser an edited, deleted or new link under a key and a
\* revision it has read with other data: what is taken for unchanged is unchanged.
THEOREM RevisionsTell == LinksSpec => []SameRevisionSameLink
  <1>1. LinksInit => LinksInv
    BY NobodyAsks DEF LinksInit, LinksInv, RowsInv, SeenInv, EditInv
  <1>2. LinksInv /\ [LinksNext]_linksVars => LinksInv'
    BY RowsStep, EditStep DEF LinksInv
  <1>3. LinksInv => SameRevisionSameLink
    BY DEF LinksInv, RowsInv, SeenInv, SameRevisionSameLink, Key
  <1>. QED
    BY <1>1, <1>2, <1>3, PTL DEF LinksSpec
=============================================================================
