---------------------------- MODULE UrlConverter ----------------------------
(***************************************************************************)
(* AvitoUrlConverter (engine/url_converter.py): the converter that the     *)
(* link workers of a parser share (engine/app.py), with others of its      *)
(* process or of another over the same cache file.                         *)
(*                                                                         *)
(* A caller is at                                                          *)
(*   out         outside                                                   *)
(*   lock        waiting for _request_lock                                 *)
(*   load        it has the lock, the cache file is to be read             *)
(*   rest, sent  the wait for the limit of SPFA, the request               *)
(*   open, fill  write_text: the temporary file is emptied, then written   *)
(*   replace     the temporary file takes the place of the cache file      *)
(* fresh[p] says that less than min_request_interval has passed since      *)
(* _last_request_at of the process.  asked is a history: what a converter  *)
(* has an answer for.                                                      *)
(***************************************************************************)
EXTENDS Integers

CONSTANTS Callers, Converters, Processes, LinkUrls,
          ConverterOf,  \* the converter a caller uses
          ProcessOf,    \* the process of a converter
          Nobody        \* the lock is free

ASSUME ConverterAssumption ==
  /\ ConverterOf \in [Callers -> Converters] /\ ProcessOf \in [Converters -> Processes]
  /\ Nobody \notin Callers /\ LinkUrls # {}

VARIABLES file, temp, cache, holder, fresh, caller, asked

converterVars == <<file, temp, cache, holder, fresh, caller, asked>>

\* A file as _load_cache reads it: one that is no JSON object counts as empty.
Texts == [torn : BOOLEAN, urls : SUBSET LinkUrls]
Json(urls) == [torn |-> FALSE, urls |-> urls]
Torn == [torn |-> TRUE, urls |-> {}]

ConverterTypeOK ==
  /\ file \in Texts
  /\ temp \in [there : BOOLEAN, text : Texts]
  /\ cache \in [Converters -> SUBSET LinkUrls]
  /\ holder \in [Processes -> Callers \cup {Nobody}]
  /\ fresh \in [Processes -> BOOLEAN]
  /\ caller \in [Callers -> [pc : {"out", "lock", "load", "rest", "sent", "open", "fill",
                                   "replace"},
                             url : LinkUrls, moved : BOOLEAN]]
  /\ asked \subseteq Converters \X LinkUrls

Own(t) == ConverterOf[t]
Home(t) == ProcessOf[ConverterOf[t]]
Gone == [there |-> FALSE, text |-> Torn]
NotAsking(url) == [pc |-> "out", url |-> url, moved |-> FALSE]

\* A converter reads the file when it is made; a missing one is empty.
ConverterInit ==
  /\ file \in {Json({}), Torn}
  /\ temp = Gone
  /\ cache = [c \in Converters |-> {}]
  /\ holder = [p \in Processes |-> Nobody]
  /\ fresh = [p \in Processes |-> FALSE]
  /\ caller = [t \in Callers |-> NotAsking(CHOOSE url \in LinkUrls : TRUE)]
  /\ asked = {}

Step(t, pc) == caller' = [caller EXCEPT ![t].pc = pc]
\* A return, an error or a cancellation gives the lock back.
GiveUp(t) ==
  /\ caller' = [caller EXCEPT ![t] = NotAsking(@.url)]
  /\ holder' = [p \in Processes |-> IF holder[p] = t THEN Nobody ELSE holder[p]]

\* convert, past the look into its own cache.
Convert(t, url) ==
  /\ caller[t].pc = "out"
  /\ url \notin cache[Own(t)]
  /\ caller' = [caller EXCEPT ![t].pc = "lock", ![t].url = url]
  /\ UNCHANGED <<file, temp, cache, holder, fresh, asked>>

TakeLock(t) ==
  /\ caller[t].pc = "lock" /\ holder[Home(t)] = Nobody
  /\ holder' = [holder EXCEPT ![Home(t)] = t]
  /\ Step(t, "load")
  /\ UNCHANGED <<file, temp, cache, fresh, asked>>

\* Mutant: no second look after the wait for the lock.
LoadCacheUnchecked(t) ==
  /\ caller[t].pc = "load"
  /\ cache' = [cache EXCEPT ![Own(t)] = @ \cup file.urls]
  /\ Step(t, "rest")
  /\ UNCHANGED <<file, temp, holder, fresh, asked>>

\* Another caller may have got the answer while this one waited.
LoadCache(t) ==
  LET known == cache[Own(t)] \cup file.urls IN
  /\ caller[t].pc = "load"
  /\ cache' = [cache EXCEPT ![Own(t)] = known]
  /\ \/ caller[t].url \in known /\ GiveUp(t)
     \/ caller[t].url \notin known /\ Step(t, "rest") /\ UNCHANGED holder
  /\ UNCHANGED <<file, temp, fresh, asked>>

SendRequest(t) ==
  /\ caller[t].pc = "rest" /\ ~fresh[Home(t)]
  /\ Step(t, "sent")
  /\ UNCHANGED <<file, temp, cache, holder, fresh, asked>>

\* cancellation.wait or a checkpoint raises.
CancelWait(t) ==
  /\ caller[t].pc \in {"lock", "rest"}
  /\ GiveUp(t)
  /\ UNCHANGED <<file, temp, cache, fresh, asked>>

\* requests.post raises: _last_request_at is not reached.
RaiseRequest(t) ==
  /\ caller[t].pc = "sent"
  /\ GiveUp(t)
  /\ UNCHANGED <<file, temp, cache, fresh, asked>>

Answered(t) ==
  /\ caller[t].pc = "sent"
  /\ fresh' = [fresh EXCEPT ![Home(t)] = TRUE]
  /\ \/ GiveUp(t) /\ UNCHANGED <<cache, asked>>
     \/ /\ cache' = [cache EXCEPT ![Own(t)] = @ \cup {caller[t].url}]
        /\ asked' = asked \cup {<<Own(t), caller[t].url>>}
        /\ Step(t, "open") /\ UNCHANGED holder
  /\ UNCHANGED <<file, temp>>

IntervalPasses(p) ==
  /\ fresh[p]
  /\ fresh' = [fresh EXCEPT ![p] = FALSE]
  /\ UNCHANGED <<file, temp, cache, holder, caller, asked>>

---------------------------------------------------------------------------
(* _save_cache: the processes share the name of the temporary file. *)

OpenTemp(t) ==
  /\ caller[t].pc = "open"
  /\ temp' = [there |-> TRUE, text |-> Torn]
  /\ Step(t, "fill")
  /\ UNCHANGED <<file, cache, holder, fresh, asked>>

\* What is written over another text leaves its end behind.
Written(old, new) == IF old = Torn THEN {Json(new)} ELSE {Json(new), Torn}

\* Into the file that was opened, also when it has the other name by now.
FillTemp(t) ==
  /\ caller[t].pc = "fill"
  /\ \/ /\ ~caller[t].moved
        /\ \E text \in Written(temp.text, cache[Own(t)]) : temp' = [temp EXCEPT !.text = text]
        /\ UNCHANGED file
     \/ /\ caller[t].moved
        /\ file' \in Written(file, cache[Own(t)]) \cup {file}
        /\ UNCHANGED temp
  /\ Step(t, "replace")
  /\ UNCHANGED <<cache, holder, fresh, asked>>

\* An OSError of mkdir, write_text or replace leaves convert; the converter
\* keeps the answer.
SaveFails(t) ==
  /\ caller[t].pc \in {"open", "fill", "replace"}
  /\ GiveUp(t)
  /\ UNCHANGED <<file, temp, cache, fresh, asked>>

ReplaceFile(t) ==
  /\ caller[t].pc = "replace"
  /\ \/ temp.there /\ file' = temp.text /\ temp' = Gone
     \/ ~temp.there /\ UNCHANGED <<file, temp>>
  /\ caller' = [u \in Callers |->
       IF u = t THEN NotAsking(caller[t].url)
       ELSE [caller[u] EXCEPT !.moved = @ \/ caller[u].pc = "fill"]]
  /\ holder' = [holder EXCEPT ![Home(t)] = Nobody]
  /\ UNCHANGED <<cache, fresh, asked>>

ConverterNext ==
  \/ \E t \in Callers :
       \/ \E url \in LinkUrls : Convert(t, url)
       \/ TakeLock(t) \/ LoadCache(t) \/ SendRequest(t) \/ CancelWait(t) \/ RaiseRequest(t)
       \/ Answered(t) \/ OpenTemp(t) \/ FillTemp(t) \/ ReplaceFile(t) \/ SaveFails(t)
  \/ \E p \in Processes : IntervalPasses(p)

ConverterSpec == ConverterInit /\ [][ConverterNext]_converterVars

---------------------------------------------------------------------------
(* Properties. *)

\* Whatever happens to the file and whoever waits, a converter asks SPFA for
\* a link only until it got an answer, also where several of its callers came
\* for the same link before that; one request of a process runs at a time,
\* and never sooner than the interval after the last answer to any of its
\* converters.
RequestJustified ==
  /\ \A t, u \in Callers :
       caller[t].pc = "sent" /\ caller[u].pc = "sent" /\ Home(t) = Home(u) => t = u
  /\ \A t \in Callers : caller[t].pc = "sent" =>
       ~fresh[Home(t)] /\ <<Own(t), caller[t].url>> \notin asked
=============================================================================
