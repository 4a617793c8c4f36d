---------------------------- MODULE LimiterCalls ----------------------------
(***************************************************************************)
(* The calls that gateway replicas make to Redis for one key: the part of  *)
(* RedisLimiter.Allow (internal/limiter/redis.go 85-136) that all three    *)
(* algorithms share.  Allow reads the replica's clock, sends the script    *)
(* with that stamp, and Redis runs the script atomically some time later.  *)
(*                                                                         *)
(* now is a clock in milliseconds that Redis uses for durations only, so   *)
(* it stands for the fastest replica's clock as well.  A stamp may be      *)
(* behind it by up to MaxLag when the script runs: the spread of the       *)
(* replicas' clocks plus the delay of the network and of Redis's queue.    *)
(* Scripts of calls in flight run in any order.                            *)
(*                                                                         *)
(* The Redis client is external.  A reply may be lost after the script has *)
(* run; then Allow returns an error, or, if Resend, the client first sends *)
(* the script again with the same arguments, which the model lets it do    *)
(* once per call.                                                          *)
(***************************************************************************)
EXTENDS Naturals, FiniteSets

CONSTANTS
  Requests,   \* the calls of Allow; each is made at most once
  Resend,     \* whether the client resends a script whose reply is lost
  MaxLag,     \* how far a stamp may be behind Redis's clock, in ms
  MaxNow,     \* bound on the clock, for model checking
  Limit,      \* requests per window (q.Limit)
  Window,     \* window length in ms (q.Window)
  Burst,      \* q.burstCapacity: Burst if positive, else Limit; token bucket
  Slack       \* how much longer than needed a key lives, in ms (1000); token
              \* bucket and sliding window

ASSUME CallsAssumption ==
  /\ IsFiniteSet(Requests)
  /\ Resend \in BOOLEAN
  /\ MaxLag \in Nat
  /\ MaxNow \in Nat

(* Allow rejects quotas that are not positive (redis.go 86-88). *)
ASSUME QuotaAssumption ==
  /\ Limit \in Nat \ {0}
  /\ Window \in Nat \ {0}
  /\ Burst \in Nat \ {0}
  /\ Slack \in Nat

VARIABLES
  now,     \* Redis's clock
  phase,   \* where each call is
  stamp    \* nowMs of each call, meaningful once it is sent

callVars == <<now, phase, stamp>>

(* "resent": the script ran, its reply was lost, and it was sent again.    *)
InFlight == {"sent", "resent"}
Phases == {"idle", "allowed", "throttled", "failed"} \cup InFlight

CallsTypeOK ==
  /\ now \in 0..MaxNow
  /\ phase \in [Requests -> Phases]
  /\ stamp \in [Requests -> 0..MaxNow]

CallsInit ==
  /\ now = 0
  /\ phase = [r \in Requests |-> "idle"]
  /\ stamp = [r \in Requests |-> 0]

(* Allow stamps call r with the replica's clock and sends its script. *)
Send(r) ==
  /\ phase[r] = "idle"
  /\ \E s \in 0..now :
       /\ now <= s + MaxLag
       /\ stamp' = [stamp EXCEPT ![r] = s]
  /\ phase' = [phase EXCEPT ![r] = "sent"]
  /\ UNCHANGED now

(* The script of r ran and Allow returns its decision. *)
Answer(r, allowed) ==
  /\ phase[r] \in InFlight
  /\ phase' = [phase EXCEPT ![r] = IF allowed THEN "allowed" ELSE "throttled"]
  /\ UNCHANGED <<now, stamp>>

(* The script of r ran and its reply was lost. *)
ReplyLost(r) ==
  /\ phase[r] \in InFlight
  /\ phase' = [phase EXCEPT
                 ![r] = IF Resend /\ @ = "sent" THEN "resent" ELSE "failed"]
  /\ UNCHANGED <<now, stamp>>

(* Allow returns an error for r and its script does not run. *)
Fail(r) ==
  /\ phase[r] \in InFlight
  /\ phase' = [phase EXCEPT ![r] = "failed"]
  /\ UNCHANGED <<now, stamp>>

Tick ==
  /\ now < MaxNow
  /\ \A r \in Requests : phase[r] \in InFlight => now < stamp[r] + MaxLag
  /\ now' = now + 1
  /\ UNCHANGED <<phase, stamp>>
=============================================================================
