--------------------------- MODULE CircuitPromise ---------------------------
(***************************************************************************)
(* What the breaker promises its callers, without clocks or counters of    *)
(* probes: it serves until Threshold calls in a row have failed, then      *)
(* blocks, and after a rest it lets at most MaxProbes trial calls through. *)
(* A trial's own verdict decides what follows, and verdicts of calls let   *)
(* through before the breaker last blocked decide nothing.                 *)
(***************************************************************************)
EXTENDS Naturals, FiniteSets

CONSTANTS Callers, Threshold, MaxProbes

VARIABLES
  mode,      \* "serving", "blocked" or "probing"
  streak,    \* failures in a row while serving
  rested,    \* blocked for long enough to try again
  pending,   \* callers with a call in flight
  trials     \* those of them whose verdict decides the probing

vars == <<mode, streak, rested, pending, trials>>

Init ==
  /\ mode = "serving"
  /\ streak = 0
  /\ rested = FALSE
  /\ pending = {}
  /\ trials = {}

Serve(c) ==
  /\ mode = "serving"
  /\ c \notin pending
  /\ pending' = pending \cup {c}
  /\ UNCHANGED <<mode, streak, rested, trials>>

Try(c) ==
  /\ mode = "probing" \/ (mode = "blocked" /\ rested)
  /\ c \notin pending
  /\ Cardinality(trials) < MaxProbes
  /\ mode' = "probing"
  /\ rested' = FALSE
  /\ pending' = pending \cup {c}
  /\ trials' = trials \cup {c}
  /\ UNCHANGED streak

Block ==
  /\ mode' = "blocked"
  /\ streak' = 0
  /\ rested' = FALSE
  /\ trials' = {}

(* A call ends in a success. *)
Good(c) ==
  /\ c \in pending
  /\ pending' = pending \ {c}
  /\ streak' = 0
  /\ IF c \in trials
       THEN mode' = "serving" /\ trials' = {}
       ELSE UNCHANGED <<mode, trials>>
  /\ UNCHANGED rested

(* A call ends in a failure. *)
Bad(c) ==
  /\ c \in pending
  /\ pending' = pending \ {c}
  /\ \/ /\ c \in trials \/ (mode = "serving" /\ streak + 1 >= Threshold)
        /\ Block
     \/ /\ mode = "serving"
        /\ streak + 1 < Threshold
        /\ streak' = streak + 1
        /\ UNCHANGED <<mode, rested, trials>>
     \/ /\ mode # "serving"
        /\ c \notin trials
        /\ UNCHANGED <<mode, streak, rested, trials>>

Rest ==
  /\ mode = "blocked"
  /\ rested' = TRUE
  /\ UNCHANGED <<mode, streak, pending, trials>>

Next ==
  \/ \E c \in Callers : Serve(c) \/ Try(c) \/ Good(c) \/ Bad(c)
  \/ Rest

Spec == Init /\ [][Next]_vars
=============================================================================
