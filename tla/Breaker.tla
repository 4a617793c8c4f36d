------------------------------- MODULE Breaker -------------------------------
(***************************************************************************)
(* The circuit breaker of internal/breaker/breaker.go and the calls it     *)
(* guards.  Every method runs under b.mu, so each is one action.  Callers  *)
(* keep the protocol stated above Allow: an Allow that returned true is    *)
(* followed by exactly one Success or Failure.                             *)
(*                                                                         *)
(* The clock is read only to compare now - openedAt with the cooldown, so  *)
(* openFor keeps that difference, saturating at Cooldown.  Likewise age[c] *)
(* is how long the call of c has been in flight; the limiter call returns  *)
(* at its deadline at the latest, and CallTimeout bounds the time from     *)
(* Allow to the verdict.                                                   *)
(***************************************************************************)
EXTENDS Integers, FiniteSets

CONSTANTS
  Callers,      \* handlers that call Allow, each with one call at a time
  Threshold,    \* b.threshold
  MaxProbes,    \* b.maxProbes
  Cooldown,     \* b.cooldown, in ticks
  CallTimeout   \* longest time from Allow to the verdict, in ticks

(* New clamps the threshold to at least 1 and WithMaxProbes ignores values *)
(* below 1; nothing bounds the cooldown from below.                        *)
ASSUME BreakerAssumption ==
  /\ IsFiniteSet(Callers)
  /\ Threshold \in Nat \ {0}
  /\ MaxProbes \in Nat \ {0}
  /\ Cooldown \in Nat
  /\ CallTimeout \in Nat

VARIABLES
  state,      \* b.state
  failures,   \* b.failures
  probes,     \* b.probes
  openFor,    \* time since b.openedAt, saturating at Cooldown
  calls,      \* callers whose Allow returned true and that owe a verdict
  age,        \* how long each call has been in flight
  fresh,      \* ghost: the calls admitted since state last changed
  wasted      \* ghost: failed calls since the last success recorded or the
              \* last start of probing, whichever is later

vars == <<state, failures, probes, openFor, calls, age, fresh, wasted>>

States == {"closed", "open", "half_open"}

TypeOK ==
  /\ state \in States
  /\ failures \in 0..Threshold
  /\ probes \in 0..MaxProbes
  /\ openFor \in 0..Cooldown
  /\ calls \subseteq Callers
  /\ age \in [Callers -> 0..CallTimeout]
  /\ fresh \subseteq calls
  /\ wasted \in Nat

Init ==
  /\ state = "closed"
  /\ failures = 0
  /\ probes = 0
  /\ openFor = Cooldown      \* openedAt is the zero time
  /\ calls = {}
  /\ age = [c \in Callers |-> 0]
  /\ fresh = {}
  /\ wasted = 0

-------------------------------------------------------------------------------
(* Allow *)

CooledDown == openFor >= Cooldown

(* What State() reports, and the position Allow acts on after its first if. *)
Position == IF state = "open" /\ CooledDown THEN "half_open" ELSE state

(* Allow clears the probe counter as it leaves the open state. *)
ProbesUsed == IF state = "open" THEN 0 ELSE probes

(* Mutant: the last probe slot is never given out. *)
AdmitsOneTooFew ==
  \/ Position = "closed"
  \/ Position = "half_open" /\ ProbesUsed + 1 < MaxProbes

(* Mutant: one probe too many. *)
AdmitsOneTooMany ==
  \/ Position = "closed"
  \/ Position = "half_open" /\ ProbesUsed <= MaxProbes

Admits ==
  \/ Position = "closed"
  \/ Position = "half_open" /\ ProbesUsed < MaxProbes

(* Mutant: Allow returns at once from the open state, uncounted. *)
AllowUncounted(c) ==
  /\ c \notin calls
  /\ Admits
  /\ state' = Position
  /\ probes' = IF state = "half_open" THEN probes + 1 ELSE probes
  /\ calls' = calls \cup {c}
  /\ fresh' = (IF Position = state THEN fresh ELSE {}) \cup {c}
  /\ wasted' = IF Position = state THEN wasted ELSE 0
  /\ UNCHANGED <<failures, openFor, age>>

(* Allow returns true to caller c. *)
Allow(c) ==
  /\ c \notin calls
  /\ Admits
  /\ state' = Position
  /\ probes' = IF Position = "half_open" THEN ProbesUsed + 1 ELSE probes
  /\ calls' = calls \cup {c}
  /\ fresh' = (IF Position = state THEN fresh ELSE {}) \cup {c}
  /\ wasted' = IF Position = state THEN wasted ELSE 0
  /\ UNCHANGED <<failures, openFor, age>>

(* Allow returns false to caller c. *)
Reject(c) ==
  /\ c \notin calls
  /\ ~Admits
  /\ UNCHANGED vars

-------------------------------------------------------------------------------
(* Success and Failure *)

(* The call of c is over; every other fresh call is stale if state moved. *)
Return(c) ==
  /\ calls' = calls \ {c}
  /\ age' = [age EXCEPT ![c] = 0]
  /\ fresh' = IF state' = state THEN fresh \ {c} ELSE {}

(* Mutant: a closing breaker keeps the count that tripped it. *)
SuccessKeepsCount(c) ==
  /\ c \in calls
  /\ state' = IF state = "half_open" THEN "closed" ELSE state
  /\ failures' = IF state = "closed" THEN 0 ELSE failures
  /\ probes' = IF state = "half_open" THEN 0 ELSE probes
  /\ wasted' = IF state = "open" THEN wasted ELSE 0
  /\ Return(c)
  /\ UNCHANGED openFor

(* Mutant: any success closes, a stale one that finds it open as well. *)
SuccessAlwaysCloses(c) ==
  /\ c \in calls
  /\ state' = "closed"
  /\ failures' = 0
  /\ probes' = 0
  /\ wasted' = 0
  /\ Return(c)
  /\ UNCHANGED openFor

Success(c) ==
  /\ c \in calls
  /\ state' = IF state = "half_open" THEN "closed" ELSE state
  /\ failures' = IF state = "open" THEN failures ELSE 0
  /\ probes' = IF state = "half_open" THEN 0 ELSE probes
  /\ wasted' = IF state = "open" THEN wasted ELSE 0
  /\ Return(c)
  /\ UNCHANGED openFor

(* Mutant: trips one failure late. *)
TripsLate ==
  \/ state = "half_open"
  \/ state = "closed" /\ failures + 1 > Threshold

Trips ==
  \/ state = "half_open"
  \/ state = "closed" /\ failures + 1 >= Threshold

(* Mutant: failures are counted in every state. *)
FailureCountsOn(c) ==
  /\ c \in calls
  /\ failures' = failures + 1
  /\ state' = IF Trips THEN "open" ELSE state
  /\ openFor' = IF Trips THEN 0 ELSE openFor
  /\ probes' = IF Trips THEN 0 ELSE probes
  /\ wasted' = wasted + 1
  /\ Return(c)

Failure(c) ==
  /\ c \in calls
  /\ failures' = IF state = "closed" THEN failures + 1 ELSE failures
  /\ state' = IF Trips THEN "open" ELSE state
  /\ openFor' = IF Trips THEN 0 ELSE openFor
  /\ probes' = IF Trips THEN 0 ELSE probes
  /\ wasted' = wasted + 1
  /\ Return(c)

-------------------------------------------------------------------------------
(* Time passes; no call outlives its deadline. *)
Tick ==
  /\ \A c \in calls : age[c] < CallTimeout
  /\ age' = [c \in Callers |-> IF c \in calls THEN age[c] + 1 ELSE age[c]]
  /\ openFor' = IF CooledDown THEN openFor ELSE openFor + 1
  /\ UNCHANGED <<state, failures, probes, calls, fresh, wasted>>

Next ==
  \/ \E c \in Callers : Allow(c) \/ Reject(c) \/ Success(c) \/ Failure(c)
  \/ Tick

Spec == Init /\ [][Next]_vars

(* The clock runs, a call returns by its deadline, and traffic never dries *)
(* up: only an arriving request moves the breaker out of the open state.   *)
Fairness ==
  /\ WF_vars(Tick)
  /\ \A c \in Callers : WF_vars(Success(c) \/ Failure(c))
  /\ \A c \in Callers : WF_vars(Allow(c))

FairSpec == Spec /\ Fairness

-------------------------------------------------------------------------------
(* Properties *)

(* The half-open state has no timer: only a verdict leaves it.  So whenever *)
(* the breaker is half-open, a call admitted in this very half-open period  *)
(* still owes its verdict, and the probe counter counts exactly those calls *)
(* (breaker.go 104-109, 120-135).                                           *)
ProbeOutstanding ==
  state = "half_open" => fresh # {} /\ probes = Cardinality(fresh)

(* The failure count survives a trip, so it tells the position: below the  *)
(* threshold exactly while closed (breaker.go 135-155 never clears it on a *)
(* trip, and only a success does).                                         *)
CountTellsPosition == (state = "closed") <=> (failures < Threshold)

(* What it costs to discover that Redis is dead: the threshold's worth of  *)
(* failed calls, and whatever else was in flight when the last of them     *)
(* tripped the breaker (breaker.go 135-151).  ADR-0003 counts only the     *)
(* threshold.                                                              *)
DiscoveryCost == wasted <= Threshold + Cardinality(Callers) - 1

(* If calls fail only finitely often, the breaker ends up closed for good: *)
(* it is never stuck half-open with its probes spent (breaker.go 92-130).  *)
Recovers ==
  <>[][\A c \in Callers : ~Failure(c)]_vars => <>[](state = "closed")

(* The deadline of a call is shorter than the cooldown, as the defaults of *)
(* config.go are (50 ms against 5 s).  Nothing in the code enforces it.    *)
PromptCalls == CallTimeout < Cooldown

(* With prompt calls every call in flight in the half-open state is one of *)
(* its own probes, so at most MaxProbes reach the recovering Redis.        *)
OnlyProbesInFlight ==
  PromptCalls /\ state = "half_open" =>
    calls = fresh /\ Cardinality(calls) <= MaxProbes

(* With prompt calls the half-open state is left only on the verdict of a  *)
(* call admitted in it, never on one left over from before the trip.       *)
OnlyProbesJudge ==
  [][PromptCalls /\ state = "half_open" /\ state' # state =>
       \E c \in fresh : calls' = calls \ {c}]_vars

(* What a caller sees of the breaker, in the terms of CircuitPromise. *)
Promise == INSTANCE CircuitPromise WITH
  mode    <- IF state = "closed" THEN "serving"
             ELSE IF state = "open" THEN "blocked" ELSE "probing",
  streak  <- IF state = "closed" THEN failures ELSE 0,
  rested  <- state = "open" /\ CooledDown,
  pending <- calls,
  trials  <- IF state = "half_open" THEN fresh ELSE {}

(* With prompt calls the breaker, which counts probes and does not know    *)
(* which verdict belongs to which, implements the promise that each trial  *)
(* is judged by its own verdict and stale verdicts decide nothing.         *)
KeepsPromise == Promise!Spec
===============================================================================
