--------------------------- MODULE ServicesProofs ---------------------------
(***************************************************************************)
(* Theorems about what runs beside the scan, for any numbers of threads,   *)
(* processes, links and edits: UrlConverter, DbDiagnostics, DesktopGui and *)
(* Launcher.                                                               *)
(***************************************************************************)
EXTENDS UrlConverter, DbDiagnostics, DesktopGui, Launcher, FiniteSetTheorems, TLAPS

-----------------------------------------------------------------------------
(* UrlConverter.                                                           *)
(* RequestJustified for any callers, converters and processes.  LockInv    *)
(* says that the places past the lock hold it, so a process has one caller *)
(* there, which alone changes the cache of its converter and lets SPFA     *)
(* rest; CacheInv that the look into the cache after the lock was taken    *)
(* stays true up to the request.                                           *)

PastLock == {"load", "rest", "sent", "open", "fill", "replace"}

LockInv == \A t \in Callers : caller[t].pc \in PastLock => holder[Home(t)] = t

CacheInv ==
  /\ \A t \in Callers : caller[t].pc \in {"rest", "sent"} => caller[t].url \notin cache[Own(t)]
  /\ \A c \in Converters, url \in LinkUrls : <<c, url>> \in asked => url \in cache[c]

RestInv == \A t \in Callers : caller[t].pc = "sent" => ~fresh[Home(t)]

ConverterInv == ConverterTypeOK /\ LockInv /\ CacheInv /\ RestInv

USE ConverterAssumption

LEMMA ConverterPlaces ==
  ASSUME NEW t \in Callers
  PROVE  Own(t) \in Converters /\ Home(t) \in Processes
  BY DEF Own, Home

-----------------------------------------------------------------------------
LEMMA ConverterInitInv == ConverterInit => ConverterInv
  <1>. SUFFICES ASSUME ConverterInit PROVE ConverterInv
    OBVIOUS
  <1>. USE DEF ConverterInit, NotAsking
  <1>0. (CHOOSE url \in LinkUrls : TRUE) \in LinkUrls
    OBVIOUS
  <1>1. ConverterTypeOK
    <2>1. file \in Texts /\ temp \in [there : BOOLEAN, text : Texts]
      <3>1. Json({}) \in Texts /\ Torn \in Texts
        BY DEF Texts, Json, Torn
      <3>2. Gone \in [there : BOOLEAN, text : Texts]
        BY <3>1 DEF Gone
      <3>. QED
        BY <3>1, <3>2
    <2>2. fresh \in [Processes -> BOOLEAN] /\ cache \in [Converters -> SUBSET LinkUrls]
      OBVIOUS
    <2>. QED
      BY <1>0, <2>1, <2>2 DEF ConverterTypeOK
  <1>2. LockInv /\ CacheInv /\ RestInv
    BY DEF LockInv, CacheInv, RestInv, PastLock
  <1>. QED
    BY <1>1, <1>2 DEF ConverterInv

Asking == [pc : PastLock \cup {"out", "lock"}, url : LinkUrls, moved : BOOLEAN]
CallerStates == [Callers -> Asking]

LEMMA MovedType ==
  ASSUME NEW r \in Asking, NEW moved \in BOOLEAN
  PROVE  [r EXCEPT !.moved = moved] \in Asking
  BY DEF Asking

LEMMA StepType ==
  ASSUME ConverterTypeOK, NEW t \in Callers, NEW pc \in PastLock, Step(t, pc)
  PROVE  caller' \in CallerStates
  BY DEF Step, ConverterTypeOK, PastLock, Asking, CallerStates

LEMMA GiveUpType ==
  ASSUME ConverterTypeOK, NEW t \in Callers, GiveUp(t)
  PROVE  /\ caller' \in CallerStates
         /\ holder' \in [Processes -> Callers \cup {Nobody}]
  BY DEF GiveUp, NotAsking, ConverterTypeOK, CallerStates, Asking, PastLock

\* The types: what is written to the two files is always a text.
LEMMA ConverterTypeStep == ConverterTypeOK /\ [ConverterNext]_converterVars => ConverterTypeOK'
  <1>. SUFFICES ASSUME ConverterTypeOK, [ConverterNext]_converterVars PROVE ConverterTypeOK'
    OBVIOUS
  <1>. USE ConverterPlaces DEF ConverterTypeOK, PastLock, CallerStates, Asking
  <1>1. ASSUME NEW t \in Callers, NEW url \in LinkUrls, Convert(t, url) PROVE ConverterTypeOK'
    BY <1>1 DEF Convert
  <1>2. ASSUME NEW t \in Callers, TakeLock(t) PROVE ConverterTypeOK'
    BY <1>2 DEF TakeLock, Step
  <1>3. ASSUME NEW t \in Callers, LoadCache(t) PROVE ConverterTypeOK'
    <2>1. cache' \in [Converters -> SUBSET LinkUrls]
      BY <1>3 DEF LoadCache, Texts
    <2>2. (Step(t, "rest") /\ UNCHANGED holder) \/ GiveUp(t)
      BY <1>3, Zenon DEF LoadCache
    <2>. QED
      BY <1>3, <2>1, <2>2, StepType, GiveUpType DEF LoadCache
  <1>4. ASSUME NEW t \in Callers, SendRequest(t) PROVE ConverterTypeOK'
    BY <1>4 DEF SendRequest, Step
  <1>5. ASSUME NEW t \in Callers, CancelWait(t) \/ RaiseRequest(t) \/ SaveFails(t)
        PROVE  ConverterTypeOK'
    <2>1. GiveUp(t) /\ UNCHANGED <<file, temp, cache, fresh, asked>>
      BY <1>5, Zenon DEF CancelWait, RaiseRequest, SaveFails
    <2>. QED
      BY <2>1, GiveUpType
  <1>6. ASSUME NEW t \in Callers, Answered(t) PROVE ConverterTypeOK'
    <2>1. fresh' \in [Processes -> BOOLEAN]
      BY <1>6, Zenon DEF Answered
    <2>2. CASE GiveUp(t) /\ UNCHANGED <<cache, asked>>
      BY <1>6, <2>1, <2>2, GiveUpType DEF Answered
    <2>3. CASE ~(GiveUp(t) /\ UNCHANGED <<cache, asked>>)
      <3>1. /\ cache' = [cache EXCEPT ![Own(t)] = @ \cup {caller[t].url}]
            /\ asked' = asked \cup {<<Own(t), caller[t].url>>}
            /\ Step(t, "open") /\ UNCHANGED <<holder, file, temp>>
        BY <1>6, <2>3, Zenon DEF Answered
      <3>. QED
        BY <2>1, <3>1, StepType
    <2>. QED
      BY <2>2, <2>3
  <1>7. ASSUME NEW t \in Callers, OpenTemp(t) PROVE ConverterTypeOK'
    <2>1. temp' \in [there : BOOLEAN, text : Texts]
      BY <1>7 DEF OpenTemp, Texts, Torn
    <2>. QED
      BY <1>7, <2>1, StepType DEF OpenTemp
  <1>8. ASSUME NEW t \in Callers, FillTemp(t) PROVE ConverterTypeOK'
    <2>1. Json(cache[Own(t)]) \in Texts /\ Torn \in Texts
      BY DEF Texts, Json, Torn
    <2>2. \A old : Written(old, cache[Own(t)]) \subseteq Texts
      BY <2>1, Zenon DEF Written
    <2>3. file' \in Texts /\ temp' \in [there : BOOLEAN, text : Texts]
      <3>1. CASE caller[t].moved
        BY <1>8, <2>2, <3>1, Zenon DEF FillTemp
      <3>2. CASE ~caller[t].moved
        <4>1. PICK text \in Written(temp.text, cache[Own(t)]) :
                temp' = [temp EXCEPT !.text = text]
          BY <1>8, <3>2, Zenon DEF FillTemp
        <4>2. text \in Texts /\ UNCHANGED file
          BY <1>8, <2>2, <3>2, Zenon DEF FillTemp
        <4>. QED
          BY <4>1, <4>2
      <3>. QED
        BY <3>1, <3>2
    <2>. QED
      BY <1>8, <2>3, StepType DEF FillTemp
  <1>9. ASSUME NEW t \in Callers, ReplaceFile(t) PROVE ConverterTypeOK'
    <2>1. file' \in Texts /\ temp' \in [there : BOOLEAN, text : Texts]
      <3>1. Gone \in [there : BOOLEAN, text : Texts]
        BY DEF Gone, Texts, Torn
      <3>2. \/ file' = temp.text /\ temp' = Gone
            \/ UNCHANGED <<file, temp>>
        BY <1>9, Zenon DEF ReplaceFile
      <3>. QED
        BY <3>1, <3>2
    <2>2. caller' \in CallerStates
      <3>1. ASSUME NEW u \in Callers
            PROVE  [caller[u] EXCEPT !.moved = caller[u].moved \/ caller[u].pc = "fill"] \in Asking
        <4>1. (caller[u].moved \/ caller[u].pc = "fill") \in BOOLEAN
          BY Zenon
        <4>2. caller[u] \in Asking
          BY DEF Asking
        <4>. QED
          BY <4>1, <4>2, MovedType, Zenon
      <3>2. NotAsking(caller[t].url) \in Asking
        BY DEF NotAsking, Asking
      <3>3. caller' = [u \in Callers |->
              IF u = t THEN NotAsking(caller[t].url)
              ELSE [caller[u] EXCEPT !.moved = caller[u].moved \/ caller[u].pc = "fill"]]
        BY <1>9, Zenon DEF ReplaceFile
      <3>. QED
        BY <3>1, <3>2, <3>3, Zenon DEF CallerStates
    <2>. QED
      BY <1>9, <2>1, <2>2 DEF ReplaceFile, CallerStates
  <1>10. ASSUME NEW p \in Processes, IntervalPasses(p) PROVE ConverterTypeOK'
    BY <1>10 DEF IntervalPasses
  <1>11. CASE UNCHANGED converterVars
    BY <1>11 DEF converterVars
  <1>. QED
    BY <1>1, <1>2, <1>3, <1>4, <1>5, <1>6, <1>7, <1>8, <1>9, <1>10, <1>11 DEF ConverterNext

-----------------------------------------------------------------------------
LEMMA StepFacts ==
  ASSUME ConverterTypeOK, NEW t \in Callers, NEW pc \in PastLock, Step(t, pc)
  PROVE  /\ caller'[t].pc = pc /\ caller'[t].url = caller[t].url
         /\ \A u \in Callers \ {t} : caller'[u] = caller[u]
  BY DEF Step, ConverterTypeOK

LEMMA GiveUpFacts ==
  ASSUME ConverterTypeOK, NEW t \in Callers, GiveUp(t)
  PROVE  /\ caller'[t].pc = "out"
         /\ \A u \in Callers \ {t} : caller'[u] = caller[u]
         /\ \A u \in Callers \ {t} : holder[Home(u)] = u => holder'[Home(u)] = u
  BY ConverterPlaces DEF GiveUp, NotAsking, ConverterTypeOK

\* Whoever gives up asks no more and changes nothing for the others.
LEMMA GiveUpKeeps ==
  ASSUME ConverterInv, NEW t \in Callers, GiveUp(t), UNCHANGED <<cache, asked, fresh>>
  PROVE  LockInv' /\ CacheInv' /\ RestInv'
  BY GiveUpFacts, ConverterPlaces DEF ConverterInv, LockInv, CacheInv, RestInv, PastLock, Own, Home

\* The lock, the cache and the rest together.
LEMMA SafetyStep == ConverterInv /\ [ConverterNext]_converterVars => LockInv' /\ CacheInv' /\ RestInv'
  <1>. SUFFICES ASSUME ConverterInv, [ConverterNext]_converterVars
                PROVE  LockInv' /\ CacheInv' /\ RestInv'
    OBVIOUS
  <1>. USE ConverterPlaces DEF ConverterInv, ConverterTypeOK, LockInv, CacheInv, RestInv, PastLock
  <1>1. ASSUME NEW t \in Callers, NEW url \in LinkUrls, Convert(t, url)
        PROVE  LockInv' /\ CacheInv' /\ RestInv'
    BY <1>1 DEF Convert
  <1>2. ASSUME NEW t \in Callers, TakeLock(t) PROVE LockInv' /\ CacheInv' /\ RestInv'
    BY <1>2 DEF TakeLock, Step
  <1>3. ASSUME NEW t \in Callers, LoadCache(t) PROVE LockInv' /\ CacheInv' /\ RestInv'
    <2>. DEFINE known == cache[Own(t)] \cup file.urls
    <2>1. cache' = [cache EXCEPT ![Own(t)] = known] /\ UNCHANGED <<asked, fresh>>
      BY <1>3, Zenon DEF LoadCache
    <2>2. \A u \in Callers \ {t} : Own(u) = Own(t) => caller[u].pc \notin PastLock
      BY <1>3 DEF LoadCache, Home, Own
    <2>3. CASE GiveUp(t)
      <3>1. LockInv'
        BY <2>3, GiveUpFacts DEF Home
      <3>2. CacheInv'
        BY <2>1, <2>2, <2>3, GiveUpFacts DEF Own
      <3>3. RestInv'
        BY <2>1, <2>3, GiveUpFacts DEF Home
      <3>. QED
        BY <3>1, <3>2, <3>3
    <2>4. CASE ~GiveUp(t)
      <3>1. caller[t].url \notin known /\ Step(t, "rest") /\ UNCHANGED holder
        BY <1>3, <2>4, Zenon DEF LoadCache
      <3>2. caller[t].pc = "load"
        BY <1>3, Zenon DEF LoadCache
      <3>3. LockInv'
        BY <3>1, <3>2, StepFacts DEF Home
      <3>4. CacheInv'
        BY <2>1, <2>2, <3>1, StepFacts DEF Own
      <3>5. RestInv'
        BY <2>1, <3>1, StepFacts DEF Home
      <3>. QED
        BY <3>3, <3>4, <3>5
    <2>. QED
      BY <2>3, <2>4
  <1>4. ASSUME NEW t \in Callers, SendRequest(t) PROVE LockInv' /\ CacheInv' /\ RestInv'
    BY <1>4 DEF SendRequest, Step
  <1>5. ASSUME NEW t \in Callers, CancelWait(t) \/ RaiseRequest(t) \/ SaveFails(t)
        PROVE  LockInv' /\ CacheInv' /\ RestInv'
    <2>1. GiveUp(t) /\ UNCHANGED <<cache, asked, fresh>>
      BY <1>5, Zenon DEF CancelWait, RaiseRequest, SaveFails
    <2>. QED
      BY <2>1, GiveUpKeeps
  <1>6. ASSUME NEW t \in Callers, Answered(t) PROVE LockInv' /\ CacheInv' /\ RestInv'
    <2>1. /\ caller[t].pc = "sent" /\ holder[Home(t)] = t
          /\ fresh' = [fresh EXCEPT ![Home(t)] = TRUE]
      BY <1>6 DEF Answered
    <2>2. \A u \in Callers \ {t} : Home(u) = Home(t) => caller[u].pc \notin PastLock
      BY <2>1
    <2>3. \A u \in Callers \ {t} : caller[u].pc = "sent" => ~fresh'[Home(u)]
      BY <2>1, <2>2
    <2>4. CASE GiveUp(t) /\ UNCHANGED <<cache, asked>>
      <3>1. LockInv'
        <4>1. \A u \in Callers \ {t} : holder[Home(u)] = u => holder'[Home(u)] = u
          BY <2>4, GiveUpFacts
        <4>2. caller'[t].pc = "out" /\ \A u \in Callers \ {t} : caller'[u] = caller[u]
          BY <2>4, GiveUpFacts
        <4>. QED
          BY <4>1, <4>2 DEF Home
      <3>2. CacheInv'
        BY <2>4, GiveUpFacts DEF Own
      <3>3. RestInv'
        BY <2>3, <2>4, GiveUpFacts DEF Home
      <3>. QED
        BY <3>1, <3>2, <3>3
    <2>5. CASE ~(GiveUp(t) /\ UNCHANGED <<cache, asked>>)
      <3>1. /\ cache' = [cache EXCEPT ![Own(t)] = @ \cup {caller[t].url}]
            /\ asked' = asked \cup {<<Own(t), caller[t].url>>}
            /\ Step(t, "open") /\ UNCHANGED holder
        BY <1>6, <2>5, Zenon DEF Answered
      <3>2. \A u \in Callers \ {t} : Own(u) = Own(t) => caller[u].pc \notin PastLock
        BY <2>2 DEF Own, Home
      <3>3. LockInv'
        BY <2>1, <3>1, StepFacts DEF Home
      <3>4. CacheInv'
        BY <3>1, <3>2, StepFacts DEF Own
      <3>5. RestInv'
        BY <2>3, <3>1, StepFacts DEF Home
      <3>. QED
        BY <3>3, <3>4, <3>5
    <2>. QED
      BY <2>4, <2>5
  <1>7. ASSUME NEW t \in Callers, OpenTemp(t) \/ FillTemp(t)
        PROVE  LockInv' /\ CacheInv' /\ RestInv'
    <2>1. \E pc \in {"fill", "replace"} : Step(t, pc)
      BY <1>7, Zenon DEF OpenTemp, FillTemp
    <2>2. caller[t].pc \in PastLock /\ UNCHANGED <<cache, holder, fresh, asked>>
      BY <1>7, Zenon DEF OpenTemp, FillTemp
    <2>3. PICK pc \in {"fill", "replace"} : Step(t, pc)
      BY <2>1
    <2>4. LockInv'
      BY <2>2, <2>3, StepFacts DEF Home
    <2>5. CacheInv' /\ RestInv'
      BY <2>2, <2>3, StepFacts DEF Own, Home
    <2>. QED
      BY <2>4, <2>5
  <1>8. ASSUME NEW t \in Callers, ReplaceFile(t) PROVE LockInv' /\ CacheInv' /\ RestInv'
    BY <1>8 DEF ReplaceFile, NotAsking
  <1>9. ASSUME NEW p \in Processes, IntervalPasses(p) PROVE LockInv' /\ CacheInv' /\ RestInv'
    BY <1>9 DEF IntervalPasses
  <1>10. CASE UNCHANGED converterVars
    BY <1>10 DEF converterVars, Own, Home
  <1>. QED
    BY <1>1, <1>2, <1>3, <1>4, <1>5, <1>6, <1>7, <1>8, <1>9, <1>10 DEF ConverterNext

LEMMA ConverterInvariant == ConverterSpec => []ConverterInv
  <1>1. ConverterInit => ConverterInv
    BY ConverterInitInv
  <1>2. ConverterInv /\ [ConverterNext]_converterVars => ConverterInv'
    BY ConverterTypeStep, SafetyStep DEF ConverterInv
  <1>. QED
    BY <1>1, <1>2, PTL DEF ConverterSpec

\* However many workers and processes share the cache file, and whatever becomes of it,
\* convert asks SPFA only for links its converter has no answer for, one at a time in a
\* process and not before the interval has passed.
THEOREM Justified == ConverterSpec => []RequestJustified
  <1>1. ConverterInv => RequestJustified
    BY ConverterPlaces DEF ConverterInv, ConverterTypeOK, LockInv, CacheInv, RestInv, RequestJustified, PastLock
  <1>. QED
    BY <1>1, ConverterInvariant, PTL

-----------------------------------------------------------------------------
(* DbDiagnostics.                                                          *)
(* FailuresAccounted for any threads, errors and lengths of an outage.     *)
(* Beside the types the invariant needs no strengthening: the lock makes   *)
(* every change of the state one step, and the numbers move together.      *)

Outages == [ready : BOOLEAN, failures : Nat, suppressed : Nat,
            signature : Errors \cup {NoError}, recent : BOOLEAN]

\* The numbers of a state and of its histories.
CountsInv ==
  /\ outage \in Outages
  /\ outage.failures \in Nat /\ outage.suppressed \in Nat
  /\ told \in Nat /\ counted \in Nat

\* A field of its own type leaves a state a state.
LEMMA FieldsKept ==
  ASSUME NEW state \in Outages, NEW n \in Nat, NEW error \in Errors, NEW flag \in BOOLEAN
  PROVE  /\ [state EXCEPT !.failures = n] \in Outages
         /\ [state EXCEPT !.suppressed = n] \in Outages
         /\ [state EXCEPT !.signature = error] \in Outages
         /\ [state EXCEPT !.recent = flag] \in Outages
  BY DEF Outages

\* DatabaseDiagnostics tells of an outage with its first failure and drops no failure from
\* its numbers, however many threads report, and however long it lasts.
THEOREM Accounted == DiagnosticsSpec => []FailuresAccounted
<1>. DEFINE Inv == CountsInv /\ FailuresAccounted
<1>1. DiagnosticsInit => Inv
  BY DEF DiagnosticsInit, CountsInv, FailuresAccounted, Fresh, Outages
<1>2. Inv /\ [DiagnosticsNext]_diagnosticsVars => Inv'
  <2>. SUFFICES ASSUME Inv, [DiagnosticsNext]_diagnosticsVars PROVE Inv'
    OBVIOUS
  <2>. USE DEF CountsInv, FailuresAccounted
  <2>1. ASSUME NEW r \in Reporters, NEW error \in Errors, Suppress(r, error) PROVE Inv'
    <3>1. outage.failures > 0
      BY <2>1, Zenon DEF Suppress, Known
    <3>2. /\ outage' = [outage EXCEPT !.failures = @ + 1, !.suppressed = @ + 1]
          /\ told' = told /\ counted' = counted
      BY <2>1, Zenon DEF Suppress
    <3>3. outage'.failures = outage.failures + 1 /\ outage'.suppressed = outage.suppressed + 1
      BY <3>2
    <3>4. outage' \in Outages
      <4>. DEFINE counting == [outage EXCEPT !.failures = outage.failures + 1]
      <4>0. /\ outage \in Outages
            /\ outage.failures + 1 \in Nat /\ outage.suppressed + 1 \in Nat
        OBVIOUS
      <4>1. counting \in Outages
        BY <4>0, FieldsKept, Zenon
      <4>2. outage' = [counting EXCEPT !.suppressed = outage.suppressed + 1]
        BY <3>2
      <4>. QED
        BY <4>0, <4>1, <4>2, FieldsKept, Zenon
    <3>. QED
      BY <3>1, <3>2, <3>3, <3>4
  <2>2. ASSUME NEW r \in Reporters, NEW error \in Errors, ReportFailure(r, error) PROVE Inv'
    <3>1. /\ outage' = [outage EXCEPT !.failures = @ + 1, !.suppressed = 0,
                                      !.signature = error, !.recent = TRUE]
          /\ told' = told + 1 /\ counted' = counted + outage.suppressed
      BY <2>2, Zenon DEF ReportFailure
    <3>2. outage'.failures = outage.failures + 1 /\ outage'.suppressed = 0
      BY <3>1
    <3>3. outage' \in Outages
      <4>. DEFINE counting == [outage EXCEPT !.failures = outage.failures + 1]
                  silent == [counting EXCEPT !.suppressed = 0]
                  signed == [silent EXCEPT !.signature = error]
      <4>0. outage \in Outages /\ outage.failures + 1 \in Nat
        OBVIOUS
      <4>1. counting \in Outages
        BY <4>0, FieldsKept, Zenon
      <4>2. silent \in Outages
        BY <4>1, FieldsKept
      <4>3. signed \in Outages
        BY <4>2, FieldsKept
      <4>4. outage' = [signed EXCEPT !.recent = TRUE]
        BY <3>1, Zenon
      <4>. QED
        BY <4>3, <4>4, FieldsKept
    <3>. QED
      BY <3>1, <3>2, <3>3
  <2>3. ASSUME NEW r \in Reporters, ReportSuccess(r) PROVE Inv'
    BY <2>3 DEF ReportSuccess, Fresh, Outages
  <2>4. ASSUME NEW r \in Reporters, LogMessage(r) PROVE Inv'
    BY <2>4 DEF LogMessage, Outages
  <2>5. CASE IntervalOver
    BY <2>5 DEF IntervalOver, Outages
  <2>6. CASE UNCHANGED diagnosticsVars
    BY <2>6 DEF diagnosticsVars
  <2>. QED
    BY <2>1, <2>2, <2>3, <2>4, <2>5, <2>6 DEF DiagnosticsNext
<1>3. QED
  BY <1>1, <1>2, PTL DEF DiagnosticsSpec

-----------------------------------------------------------------------------
(* DesktopGui.                                                             *)
(* FiltersSurvive for any links, filters and number of edits.  FormInv:    *)
(* the open form has the links it was filled from, and the parser runs     *)
(* only under an open form whose Start button is hidden.  FileInv: what a  *)
(* Start has written and the parser has still to load agrees with that.    *)

\* The links of both have the same filters.
SameFilters(some, others) ==
  \A url \in DOMAIN some \cap DOMAIN others : some[url] = others[url]

FormInv ==
  /\ gui = "open" => prevLinks = read.links
  /\ parser # "none" => gui = "open" /\ button # "ready"

FileInv ==
  parser = "loading" /\ ~edited /\ config.whole =>
    config.urls = {} /\ SameFilters(config.links, read.links)

GuiInv == FormInv /\ FileInv /\ FiltersSurvive

LEMMA GuiInitInv == GuiInit => GuiInv
  BY DEF GuiInit, GuiInv, FormInv, FileInv, FiltersSurvive

\* A step that leaves the form, the file and the parser alone.
LEMMA GuiFrame ==
  ASSUME GuiInv, UNCHANGED <<config, gui, prevLinks, parser, loaded, read, edited>>,
         parser # "none" => button' # "ready"
  PROVE  GuiInv'
  BY DEF GuiInv, FormInv, FileInv, FiltersSurvive, SameFilters

LEMMA GuiStep == GuiInv /\ [GuiNext]_guiVars => GuiInv'
  <1>. SUFFICES ASSUME GuiInv, [GuiNext]_guiVars PROVE GuiInv'
    OBVIOUS
  <1>. USE DEF GuiInv
  <1>1. CASE OpenGui
    <2>1. parser = "none"
      BY <1>1 DEF OpenGui, FormInv
    <2>. QED
      BY <1>1, <2>1 DEF OpenGui, FormInv, FileInv, FiltersSurvive
  <1>2. CASE Start
    <2>1. prevLinks = read.links
      BY <1>2 DEF Start, FormInv
    <2>2. config'.urls = {} /\ config'.links = Collected
      BY <1>2 DEF Start, Saved
    <2>3. SameFilters(Collected, read.links)
      BY <2>1 DEF SameFilters, Collected
    <2>4. FormInv' /\ FileInv' /\ FiltersSurvive'
      BY <1>2, <2>1, <2>2, <2>3 DEF Start, FormInv, FileInv, FiltersSurvive
    <2>. QED
      BY <2>4
  <1>3. CASE Load
    <2>1. FormInv' /\ FileInv'
      BY <1>3 DEF Load, FormInv, FileInv
    <2>2. ASSUME parser' = "running", ~edited PROVE SameFilters(loaded'.links, read.links)
      <3>1. /\ loaded' = Loaded(config)
            /\ config.urls = {} /\ SameFilters(config.links, read.links)
        BY <1>3, <2>2 DEF Load, FileInv
      <3>2. loaded'.links = IF DOMAIN config.links = {} THEN Plain({}) ELSE config.links
        BY <3>1 DEF Loaded
      <3>. QED
        BY <3>1, <3>2 DEF SameFilters, Plain
    <2>. QED
      BY <1>3, <2>1, <2>2 DEF Load, FiltersSurvive, SameFilters
  <1>4. CASE EditByHand
    BY <1>4 DEF EditByHand, FormInv, FileInv, FiltersSurvive
  <1>5. CASE StartCut \/ ParserEnds \/ ParserFails \/ Leave
    BY <1>5 DEF StartCut, ParserEnds, ParserFails, Leave, FormInv, FileInv, FiltersSurvive
  <1>6. CASE Fill \/ StartRefused \/ Stop \/ StopShown \/ UNCHANGED guiVars
    BY <1>6, GuiFrame DEF Fill, StartRefused, Stop, StopShown, guiVars, FormInv
  <1>. QED
    BY <1>1, <1>2, <1>3, <1>4, <1>5, <1>6 DEF GuiNext

\* set_up, save_config, save_avito_config and load_avito_config never change the filters of
\* a link between the file the form was filled from and the parser it starts.
THEOREM FiltersCarried == GuiSpec => []FiltersSurvive
  <1>1. GuiSpec => []GuiInv
    BY GuiInitInv, GuiStep, PTL DEF GuiSpec
  <1>2. GuiInv => FiltersSurvive
    BY DEF GuiInv
  <1>. QED
    BY <1>1, <1>2, PTL

-----------------------------------------------------------------------------
(* Launcher.                                                               *)
(* OneOfEach for any services in any order, any numbers of shells and      *)
(* pids.  As long as commands do not overlap one shell is at work          *)
(* (AloneInv); a process that counts is the one of the pid file, or was    *)
(* started just now, and a session excludes it (FoundInv); and each loop   *)
(* of the command has done its work for what is not in todo (LoopInv).     *)

USE LauncherAssumption

\* The processes of a service but those whose pid file was never written.
Found(s) == Copies(s) \ stray

Busy(c) == shell[c].pc # "out"
InTodo(c) == {shell[c].todo[i] : i \in DOMAIN shell[c].todo}

AloneInv == \A c, d \in Shells : Busy(c) /\ Busy(d) => c = d

FoundInv ==
  \A s \in Services :
    /\ \A p \in Found(s) :
         p = pidFile[s] \/ \E c \in Shells : Handles(c, "file", s) /\ shell[c].target = p
    /\ session[s] = "there" => Found(s) = {}

LoopAt(c) ==
  /\ shell[c].pc \in {"detached", "wait"} => \A s \in Services \ InTodo(c) : Found(s) = {}
  /\ shell[c].pc = "wait" =>
       shell[c].todo # <<>> /\ shell[c].target = pidFile[Head(shell[c].todo)]
  /\ shell[c].pc = "tmux" => /\ \A s \in Services : Found(s) = {}
                             /\ \A s \in Services \ InTodo(c) : session[s] # "there"
  /\ shell[c].pc \in {"launch", "file"} =>
       \A s \in Services :
         IF shell[c].mode = "detached" THEN session[s] # "there" ELSE Found(s) = {}
  /\ shell[c].pc = "file" => /\ shell[c].mode = "detached" /\ shell[c].todo # <<>>
                             /\ Found(Head(shell[c].todo)) \subseteq {shell[c].target}

LoopInv == \A c \in Shells : LoopAt(c)

Safe == AloneInv /\ FoundInv /\ LoopInv

\* Between Popen and the pid file the command has a process.
StartedInv == \A c \in Shells : shell[c].pc = "file" => shell[c].target \in MachinePids

LauncherInv ==
  LauncherTypeOK /\ StartedInv /\ (~overlap => Safe)

Commands == [pc : {"out", "detached", "wait", "tmux", "launch", "file"},
             starts : BOOLEAN, mode : {"detached", "tmux"},
             todo : Seq(Services), target : MachinePids \cup {NoPid}]

LEMMA LauncherInitInv == LauncherInit => LauncherInv
  <1>. SUFFICES ASSUME LauncherInit PROVE LauncherInv
    OBVIOUS
  <1>1. <<>> \in Seq(Services)
    OBVIOUS
  <1>2. NotRunning \in Commands
    BY <1>1 DEF NotRunning, Commands
  <1>3. shell \in [Shells -> Commands]
    BY <1>2 DEF LauncherInit
  <1>4. LauncherTypeOK
    <2>1. process \in [MachinePids -> Services \cup {"free", "gone", "alien"}]
      BY DEF LauncherInit
    <2>2. /\ pidFile \in [Services -> MachinePids \cup {NoPid}]
          /\ session \in [Services -> {"none", "there", "kept"}]
      BY Zenon DEF LauncherInit
    <2>3. stray \subseteq MachinePids /\ overlap \in BOOLEAN
      BY Zenon DEF LauncherInit
    <2>4. cuts \in 0..MaxCuts
      BY DEF LauncherInit
    <2>. QED
      BY <1>3, <2>1, <2>2, <2>3, <2>4, Zenon DEF LauncherTypeOK, Commands
  <1>5. \A c \in Shells : shell[c].pc = "out"
    BY DEF LauncherInit, NotRunning
  <1>6. \A s \in Services : Found(s) = {}
    BY DEF LauncherInit, Found, Copies
  <1>. QED
    BY <1>4, <1>5, <1>6 DEF LauncherInv, Safe, StartedInv, AloneInv, FoundInv,
       LoopInv, LoopAt, Busy

\* A command after a step, field by field; the other shells stay as they are.
Becomes(c, pc, mode, todo, target) ==
  /\ shell' \in [Shells -> Commands]
  /\ shell'[c].pc = pc /\ shell'[c].mode = mode
  /\ shell'[c].todo = todo /\ shell'[c].target = target
  /\ \A d \in Shells \ {c} : shell'[d] = shell[d]

LEMMA GoesOnFields ==
  ASSUME LauncherTypeOK, NEW c \in Shells, NEW todo \in Seq(Services),
         NEW pc \in {"out", "detached", "wait", "tmux", "launch", "file"},
         NEW target \in MachinePids \cup {NoPid}, GoesOn(c, pc, todo, target)
  PROVE  Becomes(c, pc, shell[c].mode, todo, target)
  <1>1. shell \in [Shells -> Commands] /\ shell[c] \in Commands
    BY DEF LauncherTypeOK, Commands
  <1>. DEFINE new == [pc |-> pc, starts |-> shell[c].starts, mode |-> shell[c].mode,
                      todo |-> todo, target |-> target]
  <1>2. new \in Commands
    BY <1>1 DEF Commands
  <1>3. shell' = [shell EXCEPT ![c] = new]
    BY DEF GoesOn
  <1>4. shell'[c] = new
    BY <1>1, <1>3
  <1>. QED
    BY <1>1, <1>2, <1>3, <1>4 DEF Becomes

LEMMA AheadFields ==
  ASSUME LauncherTypeOK, NEW c \in Shells, shell[c].todo # <<>>,
         NEW pc \in {"out", "detached", "wait", "tmux", "launch", "file"}, Ahead(c, pc)
  PROVE  Becomes(c, pc, shell[c].mode, Tail(shell[c].todo), NoPid)
  <1>1. Tail(shell[c].todo) \in Seq(Services)
    BY DEF LauncherTypeOK
  <1>. QED
    BY <1>1, GoesOnFields DEF Ahead

LEMMA ExitsFields ==
  ASSUME LauncherTypeOK, NEW c \in Shells, Exits(c)
  PROVE  Becomes(c, "out", "tmux", <<>>, NoPid)
  <1>1. <<>> \in Seq(Services)
    OBVIOUS
  <1>2. NotRunning \in Commands /\ shell \in [Shells -> Commands]
    BY <1>1 DEF NotRunning, Commands, LauncherTypeOK
  <1>3. shell'[c] = NotRunning
    BY <1>2 DEF Exits
  <1>. QED
    BY <1>2, <1>3 DEF Exits, Becomes, NotRunning

LEMMA RunFields ==
  ASSUME LauncherTypeOK, NEW c \in Shells, NEW starts \in BOOLEAN,
         NEW mode \in {"detached", "tmux"}, RunCommand(c, starts, mode)
  PROVE  Becomes(c, "detached", mode, StopOrder, NoPid)
  <1>. DEFINE new == [pc |-> "detached", starts |-> starts, mode |-> mode,
                      todo |-> StopOrder, target |-> NoPid]
  <1>1. shell \in [Shells -> Commands] /\ new \in Commands
    BY DEF LauncherTypeOK, Commands
  <1>2. shell' = [shell EXCEPT ![c] = new]
    BY DEF RunCommand
  <1>3. shell'[c] = new
    BY <1>1, <1>2
  <1>. QED
    BY <1>1, <1>2, <1>3 DEF Becomes

\* What a step makes of the shells, in every case within their type.
LEMMA ShellStep ==
  ASSUME LauncherTypeOK, NEW c \in Shells, NEW s \in Services
  PROVE  /\ PassService(c, s) \/ EndService(c, s) =>
              Becomes(c, "detached", shell[c].mode, Tail(shell[c].todo), NoPid)
         /\ TerminateService(c, s) =>
              Becomes(c, "wait", shell[c].mode, shell[c].todo, pidFile[s])
         /\ StopTmux(c, s) => Becomes(c, "tmux", shell[c].mode, Tail(shell[c].todo), NoPid)
         /\ FindRunning(c, s) \/ WritePidFile(c, s) \/ LaunchTmux(c, s) =>
              Becomes(c, "launch", shell[c].mode, Tail(shell[c].todo), NoPid)
         /\ LaunchDetached(c, s) => \E p \in MachinePids :
              /\ process[p] = "free" /\ process' = [process EXCEPT ![p] = s]
              /\ Becomes(c, "file", shell[c].mode, shell[c].todo, p)
  <1>1. PassService(c, s) \/ EndService(c, s) =>
          Becomes(c, "detached", shell[c].mode, Tail(shell[c].todo), NoPid)
    BY AheadFields, Zenon DEF PassService, EndService, Handles
  <1>2. TerminateService(c, s) => Becomes(c, "wait", shell[c].mode, shell[c].todo, pidFile[s])
    <2>1. shell[c].todo \in Seq(Services) /\ pidFile[s] \in MachinePids \cup {NoPid}
      BY DEF LauncherTypeOK
    <2>. QED
      BY <2>1, GoesOnFields DEF TerminateService
  <1>3. StopTmux(c, s) => Becomes(c, "tmux", shell[c].mode, Tail(shell[c].todo), NoPid)
    BY AheadFields, Zenon DEF StopTmux, Handles
  <1>4. FindRunning(c, s) \/ WritePidFile(c, s) \/ LaunchTmux(c, s) =>
          Becomes(c, "launch", shell[c].mode, Tail(shell[c].todo), NoPid)
    BY AheadFields, Zenon DEF FindRunning, WritePidFile, LaunchTmux, Handles
  <1>5. LaunchDetached(c, s) => \E p \in MachinePids :
          /\ process[p] = "free" /\ process' = [process EXCEPT ![p] = s]
          /\ Becomes(c, "file", shell[c].mode, shell[c].todo, p)
    <2>1. shell[c].todo \in Seq(Services)
      BY DEF LauncherTypeOK
    <2>. QED
      BY <2>1, GoesOnFields DEF LaunchDetached
  <1>. QED
    BY <1>1, <1>2, <1>3, <1>4, <1>5

LEMMA LoopStep ==
  ASSUME LauncherTypeOK, NEW c \in Shells, NextLoop(c)
  PROVE  \/ /\ shell[c].pc = "detached"
            /\ Becomes(c, "tmux", shell[c].mode, StopOrder, NoPid)
         \/ /\ shell[c].pc = "tmux"
            /\ Becomes(c, "launch", shell[c].mode, StartOrder, NoPid)
         \/ Becomes(c, "out", "tmux", <<>>, NoPid)
  BY GoesOnFields, ExitsFields DEF NextLoop

LEMMA LauncherTypeStep ==
  LauncherTypeOK /\ StartedInv /\ [LauncherNext]_launcherVars => LauncherTypeOK' /\ StartedInv'
  <1>. SUFFICES ASSUME LauncherTypeOK, StartedInv, [LauncherNext]_launcherVars
               PROVE  LauncherTypeOK' /\ StartedInv'
    OBVIOUS
  <1>1. ASSUME NEW c \in Shells, NEW s \in Services,
               \/ PassService(c, s) \/ TerminateService(c, s) \/ EndService(c, s)
               \/ StopTmux(c, s) \/ FindRunning(c, s) \/ LaunchDetached(c, s)
               \/ WritePidFile(c, s) \/ LaunchTmux(c, s)
        PROVE  LauncherTypeOK' /\ StartedInv'
    <2>1. shell' \in [Shells -> Commands]
      BY <1>1, ShellStep DEF Becomes
    <2>2. process' \in [MachinePids -> Services \cup {"free", "gone", "alien"}]
      BY <1>1 DEF PassService, TerminateService, EndService, StopTmux, FindRunning,
         LaunchDetached, WritePidFile, LaunchTmux, LauncherTypeOK
    <2>3. pidFile' \in [Services -> MachinePids \cup {NoPid}]
      BY <1>1 DEF PassService, TerminateService, EndService, StopTmux, FindRunning,
         LaunchDetached, WritePidFile, LaunchTmux, LauncherTypeOK
    <2>4. session' \in [Services -> {"none", "there", "kept"}]
      <3>1. session \in [Services -> {"none", "there", "kept"}]
        BY <1>1 DEF LauncherTypeOK
      <3>2. \/ UNCHANGED session
            \/ \E v \in {"none", "there", "kept"} : session' = [session EXCEPT ![s] = v]
        <4>1. CASE StopTmux(c, s)
          BY <4>1 DEF StopTmux, KillSession
        <4>2. CASE LaunchTmux(c, s)
          BY <4>2 DEF LaunchTmux
        <4>. QED
          BY <1>1, <4>1, <4>2 DEF PassService, TerminateService, EndService, FindRunning,
             LaunchDetached, WritePidFile
      <3>. QED
        BY <3>1, <3>2
    <2>5. UNCHANGED <<stray, overlap, cuts>>
      BY <1>1 DEF PassService, TerminateService, EndService, StopTmux, FindRunning,
         LaunchDetached, WritePidFile, LaunchTmux
    <2>6. StartedInv'
      BY <1>1, ShellStep DEF Becomes, StartedInv
    <2>. QED
      BY <2>1, <2>2, <2>3, <2>4, <2>5, <2>6 DEF LauncherTypeOK, Commands
  <1>2. ASSUME NEW c \in Shells, NEW starts \in BOOLEAN, NEW mode \in {"detached", "tmux"},
               RunCommand(c, starts, mode)
        PROVE  LauncherTypeOK' /\ StartedInv'
    <2>1. shell' \in [Shells -> Commands]
      BY <1>2, RunFields DEF Becomes
    <2>2. StartedInv'
      BY <1>2, RunFields DEF Becomes, StartedInv
    <2>. QED
      BY <1>2, <2>1, <2>2 DEF RunCommand, LauncherTypeOK, Commands
  <1>3. ASSUME NEW c \in Shells, NextLoop(c) \/ Abort(c) \/ CutCommand(c)
        PROVE  LauncherTypeOK' /\ StartedInv'
    <2>1. shell' \in [Shells -> Commands]
      BY <1>3, LoopStep, ExitsFields DEF Abort, CutCommand, Becomes
    <2>2. stray' \subseteq MachinePids /\ cuts' \in 0..MaxCuts
      <3>1. CASE NextLoop(c) \/ Abort(c)
        BY <3>1 DEF NextLoop, Abort, LauncherTypeOK
      <3>2. CASE CutCommand(c)
        BY <3>2 DEF CutCommand, LauncherTypeOK, StartedInv
      <3>. QED
        BY <1>3, <3>1, <3>2
    <2>3. UNCHANGED <<process, pidFile, session, overlap>>
      BY <1>3 DEF NextLoop, Abort, CutCommand
    <2>4. StartedInv'
      BY <1>3, LoopStep, ExitsFields DEF Abort, CutCommand, Becomes, StartedInv
    <2>. QED
      BY <2>1, <2>2, <2>3, <2>4 DEF LauncherTypeOK, Commands
  <1>4. ASSUME NEW p \in MachinePids, ServiceEnds(p) \/ PidTaken(p) PROVE LauncherTypeOK' /\ StartedInv'
    BY <1>4 DEF ServiceEnds, PidTaken, LauncherTypeOK, StartedInv
  <1>5. ASSUME NEW s \in Services, SessionEnds(s) PROVE LauncherTypeOK' /\ StartedInv'
    BY <1>5 DEF SessionEnds, LauncherTypeOK, StartedInv
  <1>6. CASE UNCHANGED launcherVars
    BY <1>6 DEF launcherVars, LauncherTypeOK, StartedInv
  <1>. QED
    BY <1>1, <1>2, <1>3, <1>4, <1>5, <1>6 DEF LauncherNext

LEMMA TodoTail ==
  ASSUME NEW todo \in Seq(Services), todo # <<>>, NEW i \in DOMAIN todo
  PROVE  todo[i] = Head(todo) \/ \E j \in DOMAIN Tail(todo) : Tail(todo)[j] = todo[i]
  <1>1. /\ DOMAIN todo = 1..Len(todo) /\ Len(todo) \in Nat
        /\ DOMAIN Tail(todo) = 1..(Len(todo) - 1)
        /\ \A j \in 1..(Len(todo) - 1) : Tail(todo)[j] = todo[j + 1]
    OBVIOUS
  <1>2. CASE i = 1
    BY <1>2
  <1>3. CASE i # 1
    <2>1. i - 1 \in 1..(Len(todo) - 1) /\ (i - 1) + 1 = i
      BY <1>1, <1>3
    <2>. QED
      BY <1>1, <2>1
  <1>. QED
    BY <1>2, <1>3

\* The service at the head is the only one a loop has done with a step.
LEMMA TodoDone ==
  ASSUME LauncherTypeOK, NEW c \in Shells, shell[c].todo # <<>>,
         shell'[c].todo = Tail(shell[c].todo)
  PROVE  \A s \in Services \ InTodo(c)' : s = Head(shell[c].todo) \/ s \in Services \ InTodo(c)
  <1>1. shell[c].todo \in Seq(Services)
    BY DEF LauncherTypeOK
  <1>. QED
    BY <1>1, TodoTail DEF InTodo

\* Every service is to be stopped, and an empty todo is none.
LEMMA TodoAll ==
  ASSUME NEW c \in Shells
  PROVE  /\ shell'[c].todo = StopOrder => Services \ InTodo(c)' = {}
         /\ shell[c].todo = <<>> => Services \ InTodo(c) = Services
  BY DEF InTodo, Services

\* As long as commands do not overlap, a step is one of the only command at work.
LEMMA OneAtWork ==
  ASSUME LauncherTypeOK, AloneInv, NEW c \in Shells, Busy(c),
         NEW pc, NEW mode, NEW todo, NEW target, Becomes(c, pc, mode, todo, target)
  PROVE  AloneInv' /\ \A d \in Shells \ {c} : shell[d].pc = "out" /\ shell'[d].pc = "out"
  BY DEF AloneInv, Busy, Becomes

\* Fewer processes and sessions, and the commands as they were.
LEMMA FewerFound ==
  ASSUME LauncherTypeOK, Safe, UNCHANGED <<pidFile, shell>>,
         \A s \in Services : /\ Found(s)' \subseteq Found(s)
                             /\ (session'[s] = "there" => session[s] = "there")
  PROVE  Safe'
  <1>1. AloneInv'
    BY DEF Safe, AloneInv, Busy
  <1>2. FoundInv'
    BY DEF Safe, FoundInv, Handles
  <1>3. ASSUME NEW c \in Shells PROVE LoopAt(c)'
    <2>1. InTodo(c)' = InTodo(c)
      BY DEF InTodo
    <2>2. shell[c].todo # <<>> => Head(shell[c].todo) \in Services
      BY DEF LauncherTypeOK
    <2>. QED
      BY <2>1, <2>2 DEF Safe, LoopInv, LoopAt
  <1>. QED
    BY <1>1, <1>2, <1>3 DEF Safe, LoopInv

\* After a step of the only command at work nobody but it can be in a loop.
LEMMA OneLoop ==
  ASSUME LauncherTypeOK, Safe, NEW c \in Shells, Busy(c),
         NEW pc, NEW mode, NEW todo, NEW target, Becomes(c, pc, mode, todo, target),
         FoundInv', LoopAt(c)'
  PROVE  Safe'
  <1>1. AloneInv' /\ \A d \in Shells \ {c} : shell'[d].pc = "out"
    BY OneAtWork DEF Safe
  <1>2. \A d \in Shells \ {c} : LoopAt(d)'
    BY <1>1 DEF LoopAt
  <1>. QED
    BY <1>1, <1>2 DEF Safe, LoopInv

\* Outside of "file" the pid files name every process that counts.
LEMMA FoundByFile ==
  ASSUME LauncherTypeOK, Safe, NEW c \in Shells, Busy(c), shell[c].pc # "file",
         NEW s \in Services, NEW p \in Found(s)
  PROVE  p = pidFile[s] /\ p \in MachinePids /\ process[p] = s /\ Lives(p)
  <1>1. p \in MachinePids /\ process[p] = s
    BY DEF Found, Copies
  <1>2. Lives(p)
    BY <1>1 DEF Lives
  <1>3. \A d \in Shells : shell[d].pc # "file"
    BY DEF Safe, AloneInv, Busy
  <1>4. p = pidFile[s]
    BY <1>3 DEF Safe, FoundInv, Handles
  <1>. QED
    BY <1>1, <1>2, <1>4

LEMMA PassSafe ==
  ASSUME LauncherTypeOK, Safe, NEW c \in Shells, NEW s \in Services, PassService(c, s)
  PROVE  Safe'
  <1>1. Becomes(c, "detached", shell[c].mode, Tail(shell[c].todo), NoPid)
    BY ShellStep
  <1>2. Busy(c) /\ shell[c].pc = "detached" /\ s = Head(shell[c].todo) /\ shell[c].todo # <<>>
    BY DEF PassService, Handles, Busy
  <1>3. \A r \in Services : Found(r)' = Found(r)
    BY DEF PassService, Found, Copies
  <1>4. Found(s) = {}
    <2>1. ASSUME NEW p \in Found(s) PROVE FALSE
      BY <1>2, <2>1, FoundByFile DEF PassService
    <2>. QED
      BY <2>1
  <1>5. \A r \in Services \ {s} : pidFile'[r] = pidFile[r]
    BY DEF PassService, LauncherTypeOK
  <1>6. FoundInv'
    BY <1>2, <1>3, <1>4, <1>5, FoundByFile DEF PassService, FoundInv, Safe
  <1>7. LoopAt(c)'
    <2>1. \A r \in Services \ InTodo(c)' : Found(r) = {}
      BY <1>1, <1>2, <1>4, TodoDone DEF Becomes, Safe, LoopInv, LoopAt
    <2>. QED
      BY <1>1, <1>3, <2>1 DEF Becomes, LoopAt
  <1>. QED
    BY <1>1, <1>2, <1>6, <1>7, OneLoop

LEMMA TerminateSafe ==
  ASSUME LauncherTypeOK, Safe, NEW c \in Shells, NEW s \in Services, TerminateService(c, s)
  PROVE  Safe'
  <1>1. Becomes(c, "wait", shell[c].mode, shell[c].todo, pidFile[s])
    BY ShellStep
  <1>2. Busy(c) /\ shell[c].pc = "detached" /\ s = Head(shell[c].todo) /\ shell[c].todo # <<>>
    BY DEF TerminateService, Handles, Busy
  <1>3. \A r \in Services : Found(r)' \subseteq Found(r)
    BY DEF TerminateService, Found, Copies, LauncherTypeOK
  <1>4. UNCHANGED <<pidFile, session>>
    BY DEF TerminateService
  <1>5. FoundInv'
    BY <1>2, <1>3, <1>4, FoundByFile DEF FoundInv, Safe
  <1>6. LoopAt(c)'
    <2>1. InTodo(c)' = InTodo(c)
      BY <1>1 DEF Becomes, InTodo
    <2>. QED
      BY <1>1, <1>2, <1>3, <1>4, <2>1 DEF Becomes, Safe, LoopInv, LoopAt
  <1>. QED
    BY <1>1, <1>2, <1>5, <1>6, OneLoop

LEMMA EndSafe ==
  ASSUME LauncherTypeOK, Safe, NEW c \in Shells, NEW s \in Services, EndService(c, s)
  PROVE  Safe'
  <1>1. Becomes(c, "detached", shell[c].mode, Tail(shell[c].todo), NoPid)
    BY ShellStep
  <1>2. Busy(c) /\ shell[c].pc = "wait" /\ s = Head(shell[c].todo) /\ shell[c].todo # <<>>
    BY DEF EndService, Handles, Busy
  <1>3. shell[c].target = pidFile[s]
    BY <1>2 DEF Safe, LoopInv, LoopAt
  <1>4. \A r \in Services : Found(r)' \subseteq Found(r)
    BY DEF EndService, Found, Copies, LauncherTypeOK, Lives
  <1>5. Found(s)' = {}
    <2>1. ASSUME NEW p \in Found(s)' PROVE FALSE
      <3>1. p \in Found(s) /\ process'[p] = s
        BY <1>4, <2>1 DEF Found, Copies
      <3>2. p = pidFile[s] /\ p \in MachinePids /\ Lives(p)
        BY <1>2, <3>1, FoundByFile
      <3>3. process'[p] = "gone"
        BY <1>3, <3>2 DEF EndService, LauncherTypeOK
      <3>. QED
        BY <3>1, <3>3
    <2>. QED
      BY <2>1
  <1>6. session' = session /\ \A r \in Services \ {s} : pidFile'[r] = pidFile[r]
    BY DEF EndService, LauncherTypeOK
  <1>7. FoundInv'
    BY <1>2, <1>4, <1>5, <1>6, FoundByFile DEF FoundInv, Safe
  <1>8. LoopAt(c)'
    <2>1. \A r \in Services \ InTodo(c)' : Found(r)' = {}
      BY <1>1, <1>2, <1>4, <1>5, TodoDone DEF Becomes, Safe, LoopInv, LoopAt
    <2>. QED
      BY <1>1, <2>1 DEF Becomes, LoopAt
  <1>. QED
    BY <1>1, <1>2, <1>7, <1>8, OneLoop

LEMMA StopTmuxSafe ==
  ASSUME LauncherTypeOK, Safe, NEW c \in Shells, NEW s \in Services, StopTmux(c, s)
  PROVE  Safe'
  <1>1. Becomes(c, "tmux", shell[c].mode, Tail(shell[c].todo), NoPid)
    BY ShellStep
  <1>2. Busy(c) /\ shell[c].pc = "tmux" /\ s = Head(shell[c].todo) /\ shell[c].todo # <<>>
    BY DEF StopTmux, Handles, Busy
  <1>3. \A r \in Services : Found(r)' = Found(r)
    BY DEF StopTmux, Found, Copies
  <1>4. \A r \in Services : Found(r) = {}
    BY <1>2 DEF Safe, LoopInv, LoopAt
  <1>5. session'[s] # "there" /\ \A r \in Services \ {s} : session'[r] = session[r]
    BY DEF StopTmux, KillSession, LauncherTypeOK
  <1>6. FoundInv'
    BY <1>3, <1>4 DEF FoundInv
  <1>7. LoopAt(c)'
    <2>1. \A r \in Services \ InTodo(c)' : session'[r] # "there"
      BY <1>1, <1>2, <1>5, TodoDone DEF Becomes, Safe, LoopInv, LoopAt
    <2>. QED
      BY <1>1, <1>3, <1>4, <2>1 DEF Becomes, LoopAt
  <1>. QED
    BY <1>1, <1>2, <1>6, <1>7, OneLoop

LEMMA FindRunningSafe ==
  ASSUME LauncherTypeOK, Safe, NEW c \in Shells, NEW s \in Services, FindRunning(c, s)
  PROVE  Safe'
  <1>1. Becomes(c, "launch", shell[c].mode, Tail(shell[c].todo), NoPid)
    BY ShellStep
  <1>2. Busy(c) /\ shell[c].pc = "launch"
    BY DEF FindRunning, Handles, Busy
  <1>3. UNCHANGED <<pidFile, session>> /\ \A r \in Services : Found(r)' = Found(r)
    BY DEF FindRunning, Found, Copies
  <1>4. FoundInv'
    BY <1>2, <1>3, FoundByFile DEF FoundInv, Safe
  <1>5. LoopAt(c)'
    BY <1>1, <1>2, <1>3 DEF Becomes, Safe, LoopInv, LoopAt
  <1>. QED
    BY <1>1, <1>2, <1>4, <1>5, OneLoop

LEMMA LaunchDetachedSafe ==
  ASSUME LauncherTypeOK, Safe, NEW c \in Shells, NEW s \in Services, LaunchDetached(c, s)
  PROVE  Safe'
  <1>1. PICK p \in MachinePids :
          /\ process[p] = "free" /\ process' = [process EXCEPT ![p] = s]
          /\ Becomes(c, "file", shell[c].mode, shell[c].todo, p)
    BY ShellStep
  <1>2. /\ Busy(c) /\ shell[c].pc = "launch" /\ shell[c].mode = "detached"
        /\ s = Head(shell[c].todo) /\ shell[c].todo # <<>> /\ ~Lives(pidFile[s])
    BY DEF LaunchDetached, Handles, Busy
  <1>3. UNCHANGED <<pidFile, session, stray>>
    BY DEF LaunchDetached
  <1>4. Found(s)' \subseteq {p}
    <2>1. Found(s) = {}
      BY <1>2, FoundByFile
    <2>. QED
      BY <1>1, <1>3, <2>1 DEF Found, Copies, LauncherTypeOK
  <1>5. \A r \in Services \ {s} : Found(r)' \subseteq Found(r)
    BY <1>1, <1>3 DEF Found, Copies, LauncherTypeOK
  <1>6. \A r \in Services : session[r] # "there"
    BY <1>2 DEF Safe, LoopInv, LoopAt
  <1>7. FoundInv'
    <2>1. Handles(c, "file", s)' /\ shell'[c].target = p
      BY <1>1, <1>2 DEF Handles, Becomes
    <2>2. \A q \in Found(s)' : \E d \in Shells : Handles(d, "file", s)' /\ shell'[d].target = q
      BY <1>4, <2>1
    <2>3. \A r \in Services \ {s} : \A q \in Found(r)' : q = pidFile'[r]
      BY <1>2, <1>3, <1>5, FoundByFile
    <2>. QED
      BY <1>3, <1>6, <2>2, <2>3 DEF FoundInv
  <1>8. LoopAt(c)'
    BY <1>1, <1>2, <1>3, <1>4, <1>6 DEF Becomes, LoopAt
  <1>. QED
    BY <1>1, <1>2, <1>7, <1>8, OneLoop

LEMMA WritePidSafe ==
  ASSUME LauncherTypeOK, Safe, NEW c \in Shells, NEW s \in Services, WritePidFile(c, s)
  PROVE  Safe'
  <1>1. Becomes(c, "launch", shell[c].mode, Tail(shell[c].todo), NoPid)
    BY ShellStep
  <1>2. /\ Busy(c) /\ shell[c].pc = "file" /\ shell[c].mode = "detached"
        /\ s = Head(shell[c].todo) /\ shell[c].todo # <<>>
        /\ Found(s) \subseteq {shell[c].target}
    BY DEF WritePidFile, Handles, Busy, Safe, LoopInv, LoopAt
  <1>3. /\ session' = session /\ \A r \in Services : Found(r)' = Found(r)
        /\ pidFile'[s] = shell[c].target
        /\ \A r \in Services \ {s} : pidFile'[r] = pidFile[r]
    BY DEF WritePidFile, Found, Copies, LauncherTypeOK
  <1>4. \A r \in Services : session[r] # "there"
    BY <1>2 DEF Safe, LoopInv, LoopAt
  <1>5. FoundInv'
    <2>1. \A d \in Shells : shell[d].pc = "file" => d = c
      BY <1>2 DEF Safe, AloneInv, Busy
    <2>2. \A r \in Services \ {s} : \A q \in Found(r) : q = pidFile[r]
      BY <1>2, <2>1 DEF Safe, FoundInv, Handles
    <2>. QED
      BY <1>2, <1>3, <1>4, <2>2 DEF FoundInv
  <1>6. LoopAt(c)'
    BY <1>1, <1>2, <1>3, <1>4 DEF Becomes, LoopAt
  <1>. QED
    BY <1>1, <1>2, <1>5, <1>6, OneLoop

LEMMA LaunchTmuxSafe ==
  ASSUME LauncherTypeOK, Safe, NEW c \in Shells, NEW s \in Services, LaunchTmux(c, s)
  PROVE  Safe'
  <1>1. Becomes(c, "launch", shell[c].mode, Tail(shell[c].todo), NoPid)
    BY ShellStep
  <1>2. Busy(c) /\ shell[c].pc = "launch" /\ shell[c].mode = "tmux"
    BY DEF LaunchTmux, Handles, Busy
  <1>3. \A r \in Services : Found(r)' = Found(r)
    BY DEF LaunchTmux, Found, Copies
  <1>4. \A r \in Services : Found(r) = {}
    BY <1>2 DEF Safe, LoopInv, LoopAt
  <1>5. FoundInv'
    BY <1>3, <1>4 DEF FoundInv
  <1>6. LoopAt(c)'
    BY <1>1, <1>2, <1>3, <1>4 DEF Becomes, LoopAt
  <1>. QED
    BY <1>1, <1>2, <1>5, <1>6, OneLoop

LEMMA NextLoopSafe ==
  ASSUME LauncherTypeOK, Safe, NEW c \in Shells, NextLoop(c)
  PROVE  Safe'
  <1>1. Busy(c) /\ shell[c].pc \in {"detached", "tmux", "launch"} /\ shell[c].todo = <<>>
    BY DEF NextLoop, Busy
  <1>2. UNCHANGED <<pidFile, session>> /\ \A r \in Services : Found(r)' = Found(r)
    BY DEF NextLoop, Found, Copies
  <1>3. FoundInv'
    BY <1>1, <1>2, FoundByFile DEF FoundInv, Safe
  <1>4. CASE shell[c].pc = "detached" /\ Becomes(c, "tmux", shell[c].mode, StopOrder, NoPid)
    <2>1. \A r \in Services : Found(r) = {}
      BY <1>1, <1>4, TodoAll DEF Safe, LoopInv, LoopAt
    <2>2. Services \ InTodo(c)' = {}
      BY <1>4, TodoAll DEF Becomes
    <2>3. LoopAt(c)'
      BY <1>2, <1>4, <2>1, <2>2 DEF Becomes, LoopAt
    <2>. QED
      BY <1>1, <1>3, <1>4, <2>3, OneLoop
  <1>5. CASE shell[c].pc = "tmux" /\ Becomes(c, "launch", shell[c].mode, StartOrder, NoPid)
    <2>1. \A r \in Services : Found(r) = {} /\ session[r] # "there"
      BY <1>1, <1>5, TodoAll DEF Safe, LoopInv, LoopAt
    <2>2. LoopAt(c)'
      BY <1>2, <1>5, <2>1 DEF Becomes, LoopAt
    <2>. QED
      BY <1>1, <1>3, <1>5, <2>2, OneLoop
  <1>6. CASE Becomes(c, "out", "tmux", <<>>, NoPid)
    <2>1. LoopAt(c)'
      BY <1>6 DEF Becomes, LoopAt
    <2>. QED
      BY <1>1, <1>3, <1>6, <2>1, OneLoop
  <1>. QED
    BY <1>4, <1>5, <1>6, LoopStep

\* A command ends, of itself or killed: what it had started without a pid file is stray.
LEMMA ExitSafe ==
  ASSUME LauncherTypeOK, Safe, NEW c \in Shells, Abort(c) \/ CutCommand(c)
  PROVE  Safe'
  <1>1. Becomes(c, "out", "tmux", <<>>, NoPid)
    BY ExitsFields DEF Abort, CutCommand
  <1>2. Busy(c)
    BY DEF Abort, CutCommand, Busy
  <1>3. UNCHANGED <<process, pidFile, session>>
    BY DEF Abort, CutCommand
  <1>4. CASE shell[c].pc # "file"
    <2>1. stray' = stray
      BY <1>4 DEF Abort, CutCommand
    <2>2. \A r \in Services : Found(r)' = Found(r)
      BY <1>3, <2>1 DEF Found, Copies
    <2>3. FoundInv'
      BY <1>2, <1>3, <1>4, <2>2, FoundByFile DEF FoundInv, Safe
    <2>. QED
      BY <1>1, <1>2, <2>3, OneLoop DEF Becomes, LoopAt
  <1>5. CASE shell[c].pc = "file"
    <2>1. stray' = stray \cup {shell[c].target}
      BY <1>5 DEF Abort, CutCommand
    <2>2. \A r \in Services : Found(r)' = Found(r) \ {shell[c].target}
      BY <1>3, <2>1 DEF Found, Copies
    <2>3. \A r \in Services : session[r] # "there"
      BY <1>5 DEF Safe, LoopInv, LoopAt
    <2>4. \A d \in Shells : shell[d].pc = "file" => d = c
      BY <1>5 DEF Safe, AloneInv, Busy
    <2>5. \A r \in Services : \A q \in Found(r)' : q = pidFile[r]
      BY <2>2, <2>4 DEF Safe, FoundInv, Handles
    <2>6. FoundInv'
      BY <1>3, <2>3, <2>5 DEF FoundInv
    <2>. QED
      BY <1>1, <1>2, <2>6, OneLoop DEF Becomes, LoopAt
  <1>. QED
    BY <1>4, <1>5

LEMMA RunSafe ==
  ASSUME LauncherTypeOK, Safe, NEW c \in Shells, NEW starts \in BOOLEAN,
         NEW mode \in {"detached", "tmux"}, RunCommand(c, starts, mode), ~overlap'
  PROVE  Safe'
  <1>1. Becomes(c, "detached", mode, StopOrder, NoPid)
    BY RunFields
  <1>2. \A d \in Shells : shell[d].pc = "out"
    BY DEF RunCommand
  <1>3. \A d \in Shells \ {c} : shell'[d].pc = "out"
    BY <1>1, <1>2 DEF Becomes
  <1>4. UNCHANGED <<pidFile, session>> /\ \A r \in Services : Found(r)' = Found(r)
    BY DEF RunCommand, Found, Copies
  <1>5. FoundInv'
    BY <1>2, <1>4 DEF FoundInv, Safe, Handles
  <1>6. Services \ InTodo(c)' = {}
    BY <1>1, TodoAll DEF Becomes
  <1>7. LoopAt(c)' /\ \A d \in Shells \ {c} : LoopAt(d)'
    BY <1>1, <1>3, <1>6 DEF Becomes, LoopAt
  <1>8. AloneInv'
    BY <1>3 DEF AloneInv, Busy
  <1>. QED
    BY <1>5, <1>7, <1>8 DEF Safe, LoopInv

LEMMA LauncherStep == LauncherInv /\ [LauncherNext]_launcherVars => LauncherInv'
  <1>. SUFFICES ASSUME LauncherInv, [LauncherNext]_launcherVars PROVE LauncherInv'
    OBVIOUS
  <1>1. LauncherTypeOK /\ StartedInv /\ LauncherTypeOK' /\ StartedInv'
    BY LauncherTypeStep DEF LauncherInv
  <1>2. ASSUME ~overlap' PROVE Safe'
    <2>1. ASSUME NEW c \in Shells, NEW s \in Services,
                 \/ PassService(c, s) \/ TerminateService(c, s) \/ EndService(c, s)
                 \/ StopTmux(c, s) \/ FindRunning(c, s) \/ LaunchDetached(c, s)
                 \/ WritePidFile(c, s) \/ LaunchTmux(c, s)
          PROVE  Safe'
      <3>1. Safe
        BY <1>2, <2>1 DEF LauncherInv, PassService, TerminateService, EndService, StopTmux,
           FindRunning, LaunchDetached, WritePidFile, LaunchTmux
      <3>. QED
        BY <1>1, <2>1, <3>1, PassSafe, TerminateSafe, EndSafe, StopTmuxSafe, FindRunningSafe,
           LaunchDetachedSafe, WritePidSafe, LaunchTmuxSafe
    <2>2. ASSUME NEW c \in Shells, NEW starts \in BOOLEAN, NEW mode \in {"detached", "tmux"},
                 RunCommand(c, starts, mode)
          PROVE  Safe'
      BY <1>1, <1>2, <2>2, RunSafe DEF LauncherInv, RunCommand
    <2>3. ASSUME NEW c \in Shells, NextLoop(c) \/ Abort(c) \/ CutCommand(c) PROVE Safe'
      <3>1. Safe
        BY <1>2, <2>3 DEF LauncherInv, NextLoop, Abort, CutCommand
      <3>. QED
        BY <1>1, <2>3, <3>1, NextLoopSafe, ExitSafe
    <2>4. ASSUME NEW p \in MachinePids, ServiceEnds(p) \/ PidTaken(p) PROVE Safe'
      <3>1. Safe /\ UNCHANGED <<pidFile, shell, session>>
        BY <1>2, <2>4 DEF LauncherInv, ServiceEnds, PidTaken
      <3>2. \A s \in Services : Found(s)' \subseteq Found(s)
        BY <1>1, <2>4 DEF ServiceEnds, PidTaken, Found, Copies, LauncherTypeOK
      <3>. QED
        BY <1>1, <3>1, <3>2, FewerFound
    <2>5. ASSUME NEW r \in Services, SessionEnds(r) PROVE Safe'
      <3>1. Safe /\ UNCHANGED <<pidFile, shell>> /\ \A s \in Services : Found(s)' = Found(s)
        BY <1>2, <2>5 DEF LauncherInv, SessionEnds, Found, Copies
      <3>2. \A s \in Services : session'[s] = "there" => session[s] = "there"
        BY <1>1, <2>5 DEF SessionEnds, LauncherTypeOK
      <3>. QED
        BY <1>1, <3>1, <3>2, FewerFound
    <2>6. CASE UNCHANGED launcherVars
      <3>1. /\ Safe /\ UNCHANGED <<pidFile, shell, session>>
            /\ \A s \in Services : Found(s)' = Found(s)
        BY <1>2, <2>6 DEF LauncherInv, launcherVars, Found, Copies
      <3>. QED
        BY <1>1, <3>1, FewerFound
    <2>. QED
      BY <2>1, <2>2, <2>3, <2>4, <2>5, <2>6 DEF LauncherNext
  <1>. QED
    BY <1>1, <1>2 DEF LauncherInv

\* run.py and scripts/stop.py leave no second parser or API process behind, in either mode,
\* however often they are interrupted between two services, as long as only one of them
\* runs at a time; only a process whose pid file was never written escapes them.
THEOREM NothingTwice == LauncherSpec => []OneOfEach
  <1>1. LauncherSpec => []LauncherInv
    BY LauncherInitInv, LauncherStep, PTL DEF LauncherSpec
  <1>2. LauncherInv => OneOfEach
    <2>. SUFFICES ASSUME LauncherInv, ~overlap, NEW s \in Services
                  PROVE  Cardinality(Copies(s) \ stray)
                           + (IF session[s] = "there" THEN 1 ELSE 0) <= 1
      BY DEF OneOfEach
    <2>1. \A p, q \in Found(s) : p = q
      <3>1. CASE \E c \in Shells : shell[c].pc = "file" /\ Head(shell[c].todo) = s
        <4>1. PICK c \in Shells : shell[c].pc = "file" /\ Head(shell[c].todo) = s
          BY <3>1
        <4>2. LoopAt(c)
          BY DEF LauncherInv, Safe, LoopInv
        <4>3. Found(Head(shell[c].todo)) \subseteq {shell[c].target}
          BY <4>1, <4>2 DEF LoopAt
        <4>4. Found(s) \subseteq {shell[c].target}
          BY <4>1, <4>3
        <4>. QED
          BY <4>4
      <3>2. CASE ~\E c \in Shells : shell[c].pc = "file" /\ Head(shell[c].todo) = s
        BY <3>2 DEF LauncherInv, Safe, FoundInv, Handles
      <3>. QED
        BY <3>1, <3>2
    <2>2. session[s] = "there" => Found(s) = {}
      BY DEF LauncherInv, Safe, FoundInv
    <2>3. Found(s) = {} \/ \E p : Found(s) = {p}
      <3>1. CASE Found(s) # {}
        <4>1. PICK p : p \in Found(s)
          BY <3>1
        <4>2. Found(s) = {p}
          BY <2>1, <4>1
        <4>. QED
          BY <4>2
      <3>. QED
        BY <3>1
    <2>4. Cardinality(Found(s)) = 0 \/ Cardinality(Found(s)) = 1
      BY <2>3, FS_EmptySet, FS_Singleton
    <2>5. Found(s) = {} => Cardinality(Found(s)) = 0
      BY FS_EmptySet
    <2>. QED
      BY <2>2, <2>4, <2>5 DEF Found
  <1>. QED
    BY <1>1, <1>2, PTL

=============================================================================
