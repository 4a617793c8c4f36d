------------------------------- MODULE Gateway -------------------------------
(***************************************************************************)
(* One gateway replica: the request handlers that RateLimit.Wrap           *)
(* (internal/middleware/ratelimit.go 81-145) runs side by side, the        *)
(* breaker they share and the breaker gauges they publish, in front of a   *)
(* Redis that comes and goes.                                              *)
(*                                                                         *)
(* A handler publishes the breaker's position with one read and three      *)
(* separate gauge writes, asks the breaker, calls the limiter under a      *)
(* deadline and reports the outcome.  Resolving the tenant touches no      *)
(* shared state; the limiter's decision is whatever Redis says, so it is a *)
(* free choice here and the subject of the limiter modules.                *)
(*                                                                         *)
(* The module extends Breaker: its callers are the handlers, and every     *)
(* step of the gateway either is one of the breaker's actions or leaves    *)
(* its variables alone (BreakerProtocol).                                  *)
(***************************************************************************)
EXTENDS Breaker

CONSTANTS
  FailOpen,       \* rl.failOpen
  ClientsCancel,  \* whether clients may go away while the limiter is asked
  LimiterErrs     \* whether a call may fail although Redis would answer it

ASSUME GatewayAssumption ==
  /\ FailOpen \in BOOLEAN
  /\ ClientsCancel \in BOOLEAN
  /\ LimiterErrs \in BOOLEAN

VARIABLES
  pc,         \* where each handler is
  seen,       \* the breaker position each handler read for the gauges
  gauge,      \* metrics.BreakerState, one 0/1 gauge per position
  answer,     \* how each handler last answered
  redisUp,    \* whether Redis answers
  hurt        \* handlers whose call has met a Redis that did not answer

gatewayVars == <<vars, pc, seen, gauge, answer, redisUp, hurt>>

(* A handler's points of interleaving, in the order of Wrap. *)
Points == {"idle", "read", "closed", "open", "half_open", "ask", "calling",
           "decided", "undecided"}

(* "served" and "throttled" enforce a decision of the limiter; "degraded"  *)
(* and "unavailable" are the two failure policies.                         *)
Answers == {"none", "served", "throttled", "degraded", "unavailable"}

(* A handler owes the breaker a verdict while it is inside the limiter.    *)
GatewayTypeOK ==
  /\ pc \in [Callers -> Points]
  /\ seen \in [Callers -> States]
  /\ gauge \in [States -> {0, 1}]
  /\ answer \in [Callers -> Answers]
  /\ redisUp \in BOOLEAN
  /\ calls = {h \in Callers : pc[h] = "calling"}
  /\ hurt \subseteq calls

GatewayInit ==
  /\ Init
  /\ pc = [h \in Callers |-> "idle"]
  /\ seen = [h \in Callers |-> "closed"]
  /\ gauge = [p \in States |-> 0]
  /\ answer = [h \in Callers |-> "none"]
  /\ redisUp = TRUE
  /\ hurt = {}

-------------------------------------------------------------------------------
(* A handler's steps *)

Goto(h, point) == pc' = [pc EXCEPT ![h] = point]

(* A request arrives; its predecessor on this handler is gone. *)
Arrive(h) ==
  /\ pc[h] = "idle"
  /\ Goto(h, "read")
  /\ answer' = [answer EXCEPT ![h] = "none"]
  /\ UNCHANGED <<vars, seen, gauge, redisUp, hurt>>

(* recordBreakerState reads the position under the breaker's lock ... *)
ReadPosition(h) ==
  /\ pc[h] = "read"
  /\ seen' = [seen EXCEPT ![h] = Position]
  /\ Goto(h, "closed")
  /\ UNCHANGED <<vars, gauge, answer, redisUp, hurt>>

(* ... and writes one gauge after the other without it. *)
AfterGauge == [closed |-> "open", open |-> "half_open", half_open |-> "ask"]

(* Mutant: only the gauge of the position is written. *)
SetGaugeOfPosition(h) ==
  /\ pc[h] \in States
  /\ gauge' = [gauge EXCEPT ![seen[h]] = 1]
  /\ Goto(h, AfterGauge[pc[h]])
  /\ UNCHANGED <<vars, seen, answer, redisUp, hurt>>

(* Mutant: the gauges are incremented, not set. *)
IncrementGauge(h) ==
  /\ pc[h] \in States
  /\ gauge' = [gauge EXCEPT ![pc[h]] = IF pc[h] = seen[h] THEN @ + 1 ELSE 0]
  /\ Goto(h, AfterGauge[pc[h]])
  /\ UNCHANGED <<vars, seen, answer, redisUp, hurt>>

SetGauge(h) ==
  /\ pc[h] \in States
  /\ gauge' = [gauge EXCEPT ![pc[h]] = IF pc[h] = seen[h] THEN 1 ELSE 0]
  /\ Goto(h, AfterGauge[pc[h]])
  /\ UNCHANGED <<vars, seen, answer, redisUp, hurt>>

(* breaker.Allow lets the call through.  Redis may be down as it starts.   *)
Call(h) ==
  /\ pc[h] = "ask"
  /\ Goto(h, "calling")
  /\ Allow(h)
  /\ hurt' = IF redisUp THEN hurt ELSE hurt \cup {h}
  /\ UNCHANGED <<seen, gauge, answer, redisUp>>

(* Mutant: a refused request is dropped without an answer. *)
RefusedDropped(h) ==
  /\ pc[h] = "ask"
  /\ Goto(h, "idle")
  /\ Reject(h)
  /\ UNCHANGED <<seen, gauge, answer, redisUp, hurt>>

(* breaker.Allow refuses: no call, no verdict owed. *)
Refused(h) ==
  /\ pc[h] = "ask"
  /\ Goto(h, "undecided")
  /\ Reject(h)
  /\ UNCHANGED <<seen, gauge, answer, redisUp, hurt>>

(* Mutant: a probe's success is not reported. *)
CallDecidedSilently(h) ==
  /\ pc[h] = "calling"
  /\ redisUp
  /\ Goto(h, "decided")
  /\ IF state = "half_open"
       THEN /\ UNCHANGED <<state, failures, probes, openFor, wasted>>
            /\ Return(h)
       ELSE Success(h)
  /\ hurt' = hurt \ {h}
  /\ UNCHANGED <<seen, gauge, answer, redisUp>>

(* limiter.Allow returns a decision. *)
CallDecided(h) ==
  /\ pc[h] = "calling"
  /\ redisUp
  /\ Goto(h, "decided")
  /\ Success(h)
  /\ hurt' = hurt \ {h}
  /\ UNCHANGED <<seen, gauge, answer, redisUp>>

(* limiter.Allow returns an error.  Redis did not answer; or the client    *)
(* went away and took the request's context, from which the deadline is    *)
(* derived, with it; or Redis was never at fault: no random suffix for the *)
(* member, no free connection before the deadline, a reply of another      *)
(* form than the script's (redis.go 103-127).                              *)
CallFailed(h) ==
  /\ pc[h] = "calling"
  /\ h \in hurt \/ ClientsCancel \/ LimiterErrs
  /\ Goto(h, "undecided")
  /\ Failure(h)
  /\ hurt' = hurt \ {h}
  /\ UNCHANGED <<seen, gauge, answer, redisUp>>

(* The handler acts on the decision: next.ServeHTTP or a 429. *)
Enforce(h) ==
  /\ pc[h] = "decided"
  /\ \E a \in {"served", "throttled"} : answer' = [answer EXCEPT ![h] = a]
  /\ Goto(h, "idle")
  /\ UNCHANGED <<vars, seen, gauge, redisUp, hurt>>

(* applyFailurePolicy. *)
ApplyFailurePolicy(h) ==
  /\ pc[h] = "undecided"
  /\ answer' = [answer EXCEPT
                  ![h] = IF FailOpen THEN "degraded" ELSE "unavailable"]
  /\ Goto(h, "idle")
  /\ UNCHANGED <<vars, seen, gauge, redisUp, hurt>>

Step(h) ==
  \/ ReadPosition(h)
  \/ SetGauge(h)
  \/ Call(h)
  \/ Refused(h)
  \/ CallDecided(h)
  \/ CallFailed(h)
  \/ Enforce(h)
  \/ ApplyFailurePolicy(h)

-------------------------------------------------------------------------------
(* The surroundings *)

TimePasses == Tick /\ UNCHANGED <<pc, seen, gauge, answer, redisUp, hurt>>

(* Redis stops answering, which hurts every call in flight. *)
RedisFails ==
  /\ redisUp
  /\ redisUp' = FALSE
  /\ hurt' = calls
  /\ UNCHANGED <<vars, pc, seen, gauge, answer>>

RedisRecovers ==
  /\ ~redisUp
  /\ redisUp' = TRUE
  /\ UNCHANGED <<vars, pc, seen, gauge, answer, hurt>>

GatewayNext ==
  \/ \E h \in Callers : Arrive(h) \/ Step(h)
  \/ TimePasses
  \/ RedisFails
  \/ RedisRecovers

(* The scheduler runs every handler, the deadline ends every call, and     *)
(* requests keep arriving; nothing is assumed of Redis.                    *)
GatewayFairness ==
  /\ WF_gatewayVars(TimePasses)
  /\ \A h \in Callers : WF_gatewayVars(Step(h)) /\ WF_gatewayVars(Arrive(h))

GatewaySpec == GatewayInit /\ [][GatewayNext]_gatewayVars /\ GatewayFairness

-------------------------------------------------------------------------------
(* Properties *)

(* The handlers keep the breaker's protocol on every path: an Allow that   *)
(* returned true is followed by exactly one Success or Failure             *)
(* (breaker.go 90-91), so the replica's breaker behaves as Breaker, whose  *)
(* theorems then hold of the gateway.                                      *)
BreakerProtocol == Spec

(* Whatever Redis does, and for however long, a handler that took up a     *)
(* request answers: the limiter is no single point of failure (ADR-0002).  *)
Answered ==
  \A h \in Callers : pc[h] = "read" ~> answer[h] # "none"

(* A call fails for another reason than a Redis that does not answer. *)
FailsOtherwise(h) == CallFailed(h) /\ h \notin hurt

(* Enforcement resumes: if from some moment on Redis stays up and no call  *)
(* fails for another reason, then from some moment on no request goes      *)
(* unenforced, however long and for whatever reasons calls failed before.  *)
EnforcementResumes ==
  <>[]redisUp /\ <>[][\A h \in Callers : ~FailsOtherwise(h)]_gatewayVars =>
    <>[](\A h \in Callers : answer[h] \notin {"degraded", "unavailable"})

(* The gauges settle: recordBreakerState reads the position and writes     *)
(* three gauges without a lock (ratelimit.go 152-165), so a handler that   *)
(* was held up in between publishes an old position over a new one, gauge  *)
(* by gauge; but once the position stays what it is, so do the gauges, at  *)
(* 1 for it and at 0 for the others.                                       *)
GaugesSettle ==
  \A p \in States :
    <>[](Position = p) =>
      <>[](gauge = [q \in States |-> IF q = p THEN 1 ELSE 0])

(* "The breaker is open: Redis is known-bad" (ratelimit.go 86-87): a       *)
(* breaker that opens has seen a call that Redis did not answer.           *)
OpenMeansRedisFailed ==
  [][state # "open" /\ state' = "open" => hurt # {}]_gatewayVars
===============================================================================
