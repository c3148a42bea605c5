----------------------------- MODULE RequestSlot -----------------------------
(***************************************************************************)
(* What the request queue of the parser promises to its callers, without   *)
(* saying how: one request slot, handed to link workers in the order in    *)
(* which they asked, rested for at least MinDelay between two requests,    *)
(* and closed to card refreshes while somebody holds the foreground,       *)
(* except for at most one refresh that had been admitted before.           *)
(*                                                                         *)
(* RequestQueue is the implementation; it is shown to refine this module.  *)
(***************************************************************************)
EXTENDS Naturals

CONSTANTS Links,       \* the workers that scan a link (foreground callers)
          Refreshers,  \* the workers that refresh a card (background callers)
          Round,       \* the scheduler's own hold on the foreground
          MinDelay,    \* the shortest pause between two requests, in ticks
          Nobody       \* the slot is free

Callers == Links \cup Refreshers

VARIABLES waiting,  \* callers that asked for the slot and were not served yet
          arrival,  \* the number each caller drew when it last asked
          slot,     \* the caller whose request is under way
          open,     \* who holds the foreground: links being scanned, the round
          rested,   \* ticks since the last request ended, up to MinDelay
          late      \* a refresh began since the foreground was last opened

vars == <<waiting, arrival, slot, open, rested, late>>

Init ==
  /\ waiting = {}
  /\ arrival = [c \in Callers |-> 0]
  /\ slot = Nobody
  /\ open = {}
  /\ rested = MinDelay
  /\ late = 0

\* A caller asks for the slot and draws a number above every waiting one.
Ask(c) ==
  /\ c \notin waiting
  /\ waiting' = waiting \cup {c}
  /\ arrival' = [arrival EXCEPT ![c] = arrival'[c]]
  /\ \A d \in waiting : arrival[d] < arrival'[c]
  /\ UNCHANGED <<slot, open, rested, late>>

\* A cancelled caller gives up its place.
Withdraw(c) ==
  /\ c \in waiting
  /\ waiting' = waiting \ {c}
  /\ UNCHANGED <<arrival, slot, open, rested, late>>

TakeSlot(c) ==
  /\ c \in waiting
  /\ slot = Nobody
  /\ rested = MinDelay
  /\ slot' = c
  /\ waiting' = waiting \ {c}
  /\ UNCHANGED <<arrival, open, rested>>

\* Links are served first come, first served.
ServeLink(c) ==
  /\ c \in Links
  /\ \A d \in (waiting \cap Links) \ {c} : arrival[c] < arrival[d]
  /\ TakeSlot(c)
  /\ UNCHANGED late

\* A refresh runs while the foreground is free, or is the one late refresh.
ServeRefresh(c) ==
  /\ c \in Refreshers
  /\ TakeSlot(c)
  /\ \/ open = {} /\ UNCHANGED late
     \/ open # {} /\ late = 0 /\ late' = 1

Done ==
  /\ slot # Nobody
  /\ slot' = Nobody
  /\ rested' = 0
  /\ UNCHANGED <<waiting, arrival, open, late>>

OpenForeground(h) ==
  /\ open' = open \cup {h}
  /\ late' = IF open = {} THEN 0 ELSE late
  /\ UNCHANGED <<waiting, arrival, slot, rested>>

CloseForeground(h) ==
  /\ open' = open \ {h}
  /\ UNCHANGED <<waiting, arrival, slot, rested, late>>

Rest ==
  /\ rested < MinDelay
  /\ rested' = rested + 1
  /\ UNCHANGED <<waiting, arrival, slot, open, late>>

Next ==
  \/ \E c \in Callers : Ask(c) \/ Withdraw(c) \/ ServeLink(c) \/ ServeRefresh(c)
  \/ Done
  \/ \E h \in Links \cup {Round} : OpenForeground(h) \/ CloseForeground(h)
  \/ Rest

Spec == Init /\ [][Next]_vars
==============================================================================
