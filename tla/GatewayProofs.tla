---------------------------- MODULE GatewayProofs ----------------------------
(***************************************************************************)
(* Proofs about Breaker for every set of callers, threshold, probe limit,  *)
(* cooldown and call timeout, and about Gateway for every set of handlers  *)
(* and every setting.  The gateway keeps the breaker's protocol, so what   *)
(* is proved of every behaviour of Breaker carries over to it.             *)
(***************************************************************************)
EXTENDS Gateway, FiniteSetTheorems, TLAPS

(***************************************************************************)
(*                               The breaker                               *)
(***************************************************************************)

(* The calls that outlive a trip are at least as old as the trip, which is *)
(* why none of them is left when the cooldown has passed; and in the       *)
(* half-open state every call in flight is a probe.                        *)
StaleIsOld ==
  PromptCalls =>
    /\ state = "open" => \A c \in calls : age[c] >= openFor
    /\ state = "half_open" => calls = fresh

(* While closed the wasted calls are the ones the breaker counts; once it  *)
(* has tripped, each further one is a call that was in flight by then.     *)
WasteCounted ==
  /\ state = "closed" => wasted = failures
  /\ state = "half_open" => wasted = 0
  /\ state = "open" =>
       wasted + Cardinality(calls) <= Threshold + Cardinality(Callers) - 1

(* The inductive invariant. *)
IInv ==
  /\ TypeOK
  /\ CountTellsPosition
  /\ ProbeOutstanding
  /\ StaleIsOld
  /\ WasteCounted

-------------------------------------------------------------------------------
(* The initial state satisfies the inductive invariant. *)
LEMMA InitIInv == Init => IInv
  BY BreakerAssumption
     DEF Init, IInv, TypeOK, CountTellsPosition, ProbeOutstanding, StaleIsOld,
         WasteCounted, States

(* A returning call leaves room for as many failures as there are callers. *)
LEMMA ReturnCounts ==
  ASSUME TypeOK, NEW c \in Callers, c \in calls, calls' = calls \ {c}
  PROVE  /\ Cardinality(calls) \in Nat /\ Cardinality(Callers) \in Nat
         /\ Cardinality(calls') = Cardinality(calls) - 1
         /\ Cardinality(calls) <= Cardinality(Callers)
<1>1. IsFiniteSet(calls) /\ Cardinality(calls) <= Cardinality(Callers)
  BY BreakerAssumption, FS_Subset DEF TypeOK
<1>2. Cardinality(calls) \in Nat /\ Cardinality(Callers) \in Nat
  BY <1>1, BreakerAssumption, FS_CardinalityType
<1>3. Cardinality(calls \ {c}) = Cardinality(calls) - 1
  BY <1>1, FS_RemoveElement
<1> QED
  BY <1>1, <1>2, <1>3

(* Admitting a call preserves it: a probe is counted and is fresh. *)
LEMMA AllowIInv ==
  ASSUME IInv, NEW c \in Callers, Allow(c)
  PROVE  IInv'
<1> USE BreakerAssumption
<1>f. IsFiniteSet(fresh) /\ c \notin fresh
  BY FS_Subset DEF IInv, TypeOK, Allow
<1>1. TypeOK'
  BY DEF IInv, TypeOK, Allow, Admits, Position, ProbesUsed, States
<1>2. CountTellsPosition'
  BY DEF IInv, TypeOK, CountTellsPosition, Allow, Position, States
<1>3. ProbeOutstanding'
  <2>1. CASE state = "half_open"
    <3>1. fresh' = fresh \cup {c} /\ probes' = probes + 1
      BY <2>1 DEF Allow, Position, ProbesUsed
    <3>2. Cardinality(fresh') = Cardinality(fresh) + 1
      BY <1>f, <3>1, FS_AddElement
    <3> QED
      BY <2>1, <3>1, <3>2 DEF IInv, ProbeOutstanding
  <2>2. CASE state = "open"
    <3>1. fresh' = {c} /\ probes' = 1
      BY <2>2 DEF Allow, Admits, Position, ProbesUsed
    <3> QED
      BY <3>1, FS_Singleton DEF ProbeOutstanding
  <2>3. CASE state = "closed"
    BY <2>3 DEF Allow, Position, ProbeOutstanding
  <2> QED
    BY <2>1, <2>2, <2>3 DEF IInv, TypeOK, States
<1>4. StaleIsOld'
  <2> SUFFICES ASSUME PromptCalls
               PROVE  /\ state' = "open" =>
                           \A d \in calls' : age'[d] >= openFor'
                      /\ state' = "half_open" => calls' = fresh'
    BY DEF StaleIsOld, PromptCalls
  <2>1. CASE state = "half_open"
    BY <2>1 DEF IInv, StaleIsOld, Allow, Position
  <2>2. CASE state = "open"
    <3>1. openFor = Cooldown /\ state' = "half_open" /\ fresh' = {c}
      BY <2>2 DEF IInv, TypeOK, Allow, Admits, Position, CooledDown
    <3>2. calls = {}
      BY <2>2, <3>1 DEF IInv, TypeOK, StaleIsOld, PromptCalls
    <3> QED
      BY <3>1, <3>2 DEF Allow
  <2>3. CASE state = "closed"
    BY <2>3 DEF Allow, Position
  <2> QED
    BY <2>1, <2>2, <2>3 DEF IInv, TypeOK, States
<1>5. WasteCounted'
  BY DEF IInv, TypeOK, WasteCounted, Allow, Admits, Position, States
<1> QED
  BY <1>1, <1>2, <1>3, <1>4, <1>5 DEF IInv

(* A success preserves it: it closes a half-open breaker. *)
LEMMA SuccessIInv ==
  ASSUME IInv, NEW c \in Callers, Success(c)
  PROVE  IInv'
<1> USE BreakerAssumption
<1>1. TypeOK'
  BY DEF IInv, TypeOK, Success, Return, States
<1>2. CountTellsPosition'
  BY DEF IInv, TypeOK, CountTellsPosition, Success, States
<1>3. ProbeOutstanding'
  BY DEF ProbeOutstanding, Success
<1>4. StaleIsOld'
  BY DEF IInv, TypeOK, StaleIsOld, PromptCalls, Success, Return
<1>5. WasteCounted'
  <2>1. CASE state = "open"
    <3>1. Cardinality(calls') = Cardinality(calls) - 1
      BY ReturnCounts DEF IInv, Success, Return
    <3>2. Cardinality(calls) \in Nat /\ Cardinality(Callers) \in Nat
      BY ReturnCounts DEF IInv, Success, Return
    <3> QED
      BY <2>1, <3>1, <3>2 DEF IInv, TypeOK, WasteCounted, Success
  <2>2. CASE state # "open"
    BY <2>2 DEF IInv, TypeOK, WasteCounted, Success, States
  <2> QED
    BY <2>1, <2>2
<1> QED
  BY <1>1, <1>2, <1>3, <1>4, <1>5 DEF IInv

(* A failure preserves it: a trip starts the cooldown, and no call in      *)
(* flight is younger than that.                                            *)
LEMMA FailureIInv ==
  ASSUME IInv, NEW c \in Callers, Failure(c)
  PROVE  IInv'
<1> USE BreakerAssumption
<1>1. TypeOK'
  BY DEF IInv, TypeOK, CountTellsPosition, Failure, Return, Trips, States
<1>2. CountTellsPosition'
  BY DEF IInv, TypeOK, CountTellsPosition, Failure, Trips, States
<1>3. ProbeOutstanding'
  BY DEF ProbeOutstanding, Failure, Trips
<1>4. StaleIsOld'
  BY DEF IInv, TypeOK, StaleIsOld, PromptCalls, Failure, Return, Trips
<1>5. WasteCounted'
  <2>1. /\ Cardinality(calls) \in Nat /\ Cardinality(Callers) \in Nat
        /\ Cardinality(calls') = Cardinality(calls) - 1
        /\ Cardinality(calls) <= Cardinality(Callers)
    BY ReturnCounts DEF IInv, Failure, Return
  <2>2. /\ wasted' = wasted + 1 /\ wasted \in Nat
        /\ state # "open" => wasted + 1 <= Threshold
    BY DEF IInv, TypeOK, CountTellsPosition, WasteCounted, Failure, States
  <2>3. CASE state' = "open"
    BY <2>1, <2>2, <2>3 DEF IInv, WasteCounted
  <2>4. CASE state' # "open"
    BY <2>2, <2>4 DEF IInv, TypeOK, WasteCounted, Failure, Trips, States
  <2> QED
    BY <2>3, <2>4
<1> QED
  BY <1>1, <1>2, <1>3, <1>4, <1>5 DEF IInv

(* The passing of time preserves it: calls and the cooldown age together. *)
LEMMA TickIInv ==
  ASSUME IInv, Tick
  PROVE  IInv'
<1> USE BreakerAssumption
<1>1. TypeOK'
  BY DEF IInv, TypeOK, Tick, CooledDown
<1>2. CountTellsPosition' /\ ProbeOutstanding'
  BY DEF IInv, CountTellsPosition, ProbeOutstanding, Tick
<1>3. StaleIsOld'
  BY DEF IInv, TypeOK, StaleIsOld, PromptCalls, Tick, CooledDown
<1>4. WasteCounted'
  BY DEF IInv, WasteCounted, Tick
<1> QED
  BY <1>1, <1>2, <1>3, <1>4 DEF IInv

(* Every step preserves the inductive invariant. *)
LEMMA NextIInv == IInv /\ [Next]_vars => IInv'
<1> SUFFICES ASSUME IInv, [Next]_vars
             PROVE  IInv'
  OBVIOUS
<1>1. CASE UNCHANGED vars
  BY <1>1 DEF vars, IInv, TypeOK, CountTellsPosition, ProbeOutstanding,
              StaleIsOld, PromptCalls, WasteCounted
<1>2. ASSUME NEW c \in Callers, Allow(c) \/ Success(c) \/ Failure(c)
      PROVE  IInv'
  BY <1>2, AllowIInv, SuccessIInv, FailureIInv
<1>3. CASE Tick
  BY <1>3, TickIInv
<1> QED
  BY <1>1, <1>2, <1>3 DEF Next, Reject

-------------------------------------------------------------------------------
(* The inductive invariant holds in every reachable state. *)
THEOREM Inductive == Spec => []IInv
  BY InitIInv, NextIInv, PTL DEF Spec

(* Type correctness of the breaker (breaker.go 41-51). *)
THEOREM TypeCorrect == Spec => []TypeOK
<1>1. IInv => TypeOK
  BY DEF IInv
<1> QED
  BY <1>1, Inductive, PTL

(* The failure count is below the threshold exactly while closed. *)
THEOREM CountPosition == Spec => []CountTellsPosition
<1>1. IInv => CountTellsPosition
  BY DEF IInv
<1> QED
  BY <1>1, Inductive, PTL

(* A dead Redis costs a replica at most the threshold and one call less    *)
(* than it has callers.                                                    *)
THEOREM DiscoveryBounded == Spec => []DiscoveryCost
<1>1. IInv => DiscoveryCost
  <2> SUFFICES ASSUME IInv PROVE wasted <= Threshold + Cardinality(Callers) - 1
    BY DEF DiscoveryCost
  <2>1. /\ Cardinality(calls) \in Nat /\ Cardinality(Callers) \in Nat
        /\ wasted \in Nat /\ Threshold \in Nat /\ failures <= Threshold
        /\ failures \in Nat
    BY BreakerAssumption, FS_Subset, FS_CardinalityType DEF IInv, TypeOK
  <2>2. CASE state = "open"
    BY <2>1, <2>2 DEF IInv, WasteCounted
  <2>3. CASE state = "half_open"
    BY <2>1, <2>3, BreakerAssumption DEF IInv, WasteCounted
  <2>4. CASE state = "closed"
    BY <2>1, <2>4 DEF IInv, WasteCounted, CountTellsPosition
  <2> QED
    BY <2>2, <2>3, <2>4 DEF IInv, TypeOK, States
<1> QED
  BY <1>1, Inductive, PTL

(* A half-open breaker always has a probe that will decide its fate. *)
THEOREM NeverStuckHalfOpen == Spec => []ProbeOutstanding
<1>1. IInv => ProbeOutstanding
  BY DEF IInv
<1> QED
  BY <1>1, Inductive, PTL

(* With prompt calls at most MaxProbes calls, all of them probes, are in   *)
(* flight in the half-open state.                                          *)
THEOREM ProbesBounded == Spec => []OnlyProbesInFlight
<1>1. IInv => OnlyProbesInFlight
  BY BreakerAssumption
     DEF IInv, TypeOK, ProbeOutstanding, StaleIsOld, OnlyProbesInFlight
<1> QED
  BY <1>1, Inductive, PTL

(* With prompt calls only the verdict of a probe leaves the half-open      *)
(* state.                                                                  *)
THEOREM ProbesJudge == Spec => OnlyProbesJudge
<1>1. ASSUME IInv, [Next]_vars, PromptCalls, state = "half_open", state' # state
      PROVE  \E c \in fresh : calls' = calls \ {c}
  <2>1. PICK c \in Callers : Success(c) \/ Failure(c)
    BY <1>1 DEF Next, vars, Allow, Position, Reject, Tick
  <2>2. c \in fresh /\ calls' = calls \ {c}
    BY <1>1, <2>1 DEF IInv, StaleIsOld, Success, Failure, Return
  <2> QED
    BY <2>2
<1>2. IInv /\ [Next]_vars =>
        [PromptCalls /\ state = "half_open" /\ state' # state =>
           \E c \in fresh : calls' = calls \ {c}]_vars
  BY <1>1
<1> QED
  BY <1>2, Inductive, PTL DEF Spec, OnlyProbesJudge

-------------------------------------------------------------------------------
(* With prompt calls, every behaviour of Breaker is, through the mapping   *)
(* of Breaker!Promise, a behaviour of CircuitPromise.                      *)

(* The two modules count with the same operator. *)
LEMMA SameCardinality ==
  ASSUME NEW S
  PROVE  Promise!Cardinality(S) = Cardinality(S)
  BY DEF Cardinality, Promise!Cardinality

(* An admitted call is one that is served while serving, and a trial       *)
(* otherwise.                                                              *)
LEMMA AllowKeeps ==
  ASSUME IInv, PromptCalls, NEW c \in Callers, Allow(c)
  PROVE  Promise!Serve(c) \/ Promise!Try(c)
<1> USE BreakerAssumption
<1>1. CASE state = "closed"
  <2>1. Promise!Serve(c)
    BY <1>1 DEF Allow, Position, CooledDown, Promise!Serve
  <2> QED
    BY <2>1
<1>2. CASE state = "open"
  <2>1. state' = "half_open" /\ fresh' = {c} /\ CooledDown
    BY <1>2 DEF Allow, Admits, Position
  <2>2. Promise!Cardinality({}) < MaxProbes
    BY FS_EmptySet, SameCardinality
  <2>3. Promise!Try(c)
    BY <1>2, <2>1, <2>2 DEF Allow, CooledDown, Promise!Try
  <2> QED
    BY <2>3
<1>3. CASE state = "half_open"
  <2>1. state' = "half_open" /\ fresh' = fresh \cup {c} /\ probes < MaxProbes
    BY <1>3 DEF Allow, Admits, Position, ProbesUsed
  <2>2. Promise!Cardinality(fresh) < MaxProbes
    BY <1>3, <2>1, SameCardinality DEF IInv, ProbeOutstanding
  <2>3. Promise!Try(c)
    BY <1>3, <2>1, <2>2 DEF Allow, CooledDown, Promise!Try
  <2> QED
    BY <2>3
<1> QED
  BY <1>1, <1>2, <1>3 DEF IInv, TypeOK, States

(* In the half-open state every call in flight is a trial, so a success    *)
(* ends the probing exactly when the promise says so.                      *)
LEMMA SuccessKeeps ==
  ASSUME IInv, PromptCalls, NEW c \in Callers, Success(c)
  PROVE  Promise!Good(c)
<1> USE BreakerAssumption
<1>1. CASE state = "closed"
  BY <1>1 DEF Success, Return, CooledDown, Promise!Good
<1>2. CASE state = "open"
  BY <1>2 DEF Success, Return, CooledDown, Promise!Good
<1>3. CASE state = "half_open"
  <2>1. c \in fresh /\ state' = "closed" /\ failures' = 0
    BY <1>3 DEF IInv, StaleIsOld, Success
  <2> QED
    BY <1>3, <2>1 DEF Success, Return, CooledDown, Promise!Good
<1> QED
  BY <1>1, <1>2, <1>3 DEF IInv, TypeOK, States

(* A failure blocks exactly when the promise says so.                      *)
LEMMA FailureKeeps ==
  ASSUME IInv, PromptCalls, NEW c \in Callers, Failure(c)
  PROVE  Promise!Bad(c)
<1> USE BreakerAssumption
<1>0. Cooldown > 0
  BY DEF PromptCalls
<1>1. CASE state = "closed"
  <2>1. CASE failures + 1 >= Threshold
    <3>1. state' = "open" /\ openFor' = 0 /\ failures' = failures + 1
      BY <1>1, <2>1 DEF Failure, Trips
    <3> QED
      BY <1>0, <1>1, <2>1, <3>1
         DEF Failure, Return, CooledDown, Promise!Bad, Promise!Block
  <2>2. CASE ~(failures + 1 >= Threshold)
    <3>1. state' = "closed" /\ failures' = failures + 1
      BY <1>1, <2>2 DEF Failure, Trips
    <3>2. failures + 1 < Threshold
      BY <2>2 DEF IInv, TypeOK
    <3> QED
      BY <1>1, <3>1, <3>2 DEF Failure, Return, CooledDown, Promise!Bad
  <2> QED
    BY <2>1, <2>2
<1>2. CASE state = "open"
  BY <1>2 DEF Failure, Trips, Return, CooledDown, Promise!Bad
<1>3. CASE state = "half_open"
  <2>1. c \in fresh /\ state' = "open" /\ openFor' = 0
    BY <1>3 DEF IInv, StaleIsOld, Failure, Trips
  <2> QED
    BY <1>0, <1>3, <2>1
       DEF Failure, Return, CooledDown, Promise!Bad, Promise!Block
<1> QED
  BY <1>1, <1>2, <1>3 DEF IInv, TypeOK, States

(* The passing of time is invisible except when the cooldown ends. *)
LEMMA TickKeeps ==
  ASSUME IInv, PromptCalls, Tick
  PROVE  Promise!Rest \/ UNCHANGED Promise!vars
<1> USE BreakerAssumption
<1>1. UNCHANGED <<state, failures, probes, calls, fresh>>
  BY DEF Tick
<1>2. CASE state = "open" /\ CooledDown' /\ ~CooledDown
  BY <1>1, <1>2 DEF Promise!Rest
<1>3. CASE ~(state = "open" /\ CooledDown' /\ ~CooledDown)
  <2>1. CooledDown => CooledDown'
    BY DEF Tick, CooledDown, IInv, TypeOK
  <2>2. (state = "open" /\ CooledDown)' = (state = "open" /\ CooledDown)
    BY <1>1, <1>3, <2>1
  <2> QED
    BY <1>1, <2>2 DEF Promise!vars
<1> QED
  BY <1>2, <1>3

(* With prompt calls the breaker implements the promise.                   *)
THEOREM Refinement ==
  ASSUME PromptCalls
  PROVE  Spec => KeepsPromise
<1> USE BreakerAssumption
<1>1. Init => Promise!Init
  BY DEF Init, Promise!Init
<1>2. IInv /\ [Next]_vars => [Promise!Next]_(Promise!vars)
  <2> SUFFICES ASSUME IInv, [Next]_vars
               PROVE  Promise!Next \/ UNCHANGED Promise!vars
    OBVIOUS
  <2>1. CASE UNCHANGED vars
    BY <2>1 DEF vars, Promise!vars, CooledDown
  <2>2. ASSUME NEW c \in Callers, Allow(c) \/ Success(c) \/ Failure(c)
        PROVE  Promise!Next
    BY <2>2, AllowKeeps, SuccessKeeps, FailureKeeps DEF Promise!Next
  <2>3. CASE Tick
    BY <2>3, TickKeeps DEF Promise!Next
  <2> QED
    BY <2>1, <2>2, <2>3 DEF Next, Reject
<1> QED
  BY <1>1, <1>2, Inductive, PTL DEF Spec, KeepsPromise, Promise!Spec

(***************************************************************************)
(*                               The gateway                               *)
(***************************************************************************)

(* The inductive invariant: what the handlers read of the breaker is one   *)
(* of its positions.                                                       *)
GatewayIInv == GatewayTypeOK /\ state \in States

(* The handlers inside the limiter, by the points they are at. *)
Inside == {h \in Callers : pc[h] = "calling"}

-------------------------------------------------------------------------------
(* A handler that moves between points outside the limiter leaves the set  *)
(* of those inside alone.                                                  *)
LEMMA MovesOutside ==
  ASSUME GatewayTypeOK, NEW h \in Callers, NEW point \in Points \ {"calling"},
         pc[h] # "calling", Goto(h, point)
  PROVE  Inside' = Inside /\ pc' \in [Callers -> Points]
  BY DEF GatewayTypeOK, Inside, Goto

LEMMA GatewayInitIInv == GatewayInit => GatewayIInv
  BY DEF GatewayInit, Init, GatewayIInv, GatewayTypeOK, Points, States, Answers

LEMMA GatewayNextIInv ==
  GatewayIInv /\ [GatewayNext]_gatewayVars => GatewayIInv'
<1> SUFFICES ASSUME GatewayIInv, [GatewayNext]_gatewayVars PROVE GatewayIInv'
  OBVIOUS
<1> USE DEF GatewayIInv
<1>0. calls = Inside
  BY DEF GatewayTypeOK, Inside
<1>1. ASSUME NEW h \in Callers, Arrive(h) PROVE GatewayIInv'
  <2>1. Inside' = Inside /\ pc' \in [Callers -> Points]
    BY <1>1, MovesOutside DEF Arrive, Points
  <2> QED
    BY <1>0, <1>1, <2>1 DEF Arrive, GatewayTypeOK, Inside, Answers, vars
<1>2. ASSUME NEW h \in Callers, ReadPosition(h) PROVE GatewayIInv'
  <2>1. Inside' = Inside /\ pc' \in [Callers -> Points]
    BY <1>2, MovesOutside DEF ReadPosition, Points
  <2>2. Position \in States
    BY DEF Position, States
  <2> QED
    BY <1>0, <1>2, <2>1, <2>2 DEF ReadPosition, GatewayTypeOK, Inside, vars
<1>3. ASSUME NEW h \in Callers, SetGauge(h) PROVE GatewayIInv'
  <2>1. Inside' = Inside /\ pc' \in [Callers -> Points]
    BY <1>3, MovesOutside DEF SetGauge, Points, States, AfterGauge
  <2> QED
    BY <1>0, <1>3, <2>1 DEF SetGauge, GatewayTypeOK, Inside, vars
<1>4. ASSUME NEW h \in Callers, Call(h) PROVE GatewayIInv'
  <2>1. Inside' = Inside \cup {h} /\ pc' \in [Callers -> Points]
    BY <1>4 DEF Call, Goto, Inside, GatewayTypeOK, Points
  <2>2. calls' = calls \cup {h} /\ state' \in States
    BY <1>4 DEF Call, Allow, Position, States
  <2> QED
    BY <1>0, <1>4, <2>1, <2>2 DEF Call, GatewayTypeOK, Inside
<1>5. ASSUME NEW h \in Callers, Refused(h) PROVE GatewayIInv'
  <2>1. Inside' = Inside /\ pc' \in [Callers -> Points]
    BY <1>5, MovesOutside DEF Refused, Points
  <2> QED
    BY <1>0, <1>5, <2>1 DEF Refused, GatewayTypeOK, Inside, Reject, vars
<1>6. ASSUME NEW h \in Callers, CallDecided(h) \/ CallFailed(h)
      PROVE  GatewayIInv'
  <2>1. Inside' = Inside \ {h} /\ pc' \in [Callers -> Points]
    BY <1>6 DEF CallDecided, CallFailed, Goto, Inside, GatewayTypeOK, Points
  <2>2. calls' = calls \ {h} /\ state' \in States
    BY <1>6 DEF CallDecided, CallFailed, Success, Failure, Return, States
  <2> QED
    BY <1>0, <1>6, <2>1, <2>2
       DEF CallDecided, CallFailed, GatewayTypeOK, Inside
<1>7. ASSUME NEW h \in Callers, Enforce(h) \/ ApplyFailurePolicy(h)
      PROVE  GatewayIInv'
  <2>1. Inside' = Inside /\ pc' \in [Callers -> Points]
    BY <1>7, MovesOutside DEF Enforce, ApplyFailurePolicy, Points
  <2> QED
    BY <1>0, <1>7, <2>1
       DEF Enforce, ApplyFailurePolicy, GatewayTypeOK, Inside, Answers, vars
<1>8. CASE TimePasses
  BY <1>8 DEF TimePasses, Tick, GatewayTypeOK
<1>9. CASE RedisFails \/ RedisRecovers
  BY <1>9 DEF RedisFails, RedisRecovers, GatewayTypeOK, vars
<1>10. CASE UNCHANGED gatewayVars
  BY <1>10 DEF gatewayVars, vars, GatewayTypeOK
<1> QED
  BY <1>1, <1>2, <1>3, <1>4, <1>5, <1>6, <1>7, <1>8, <1>9, <1>10
     DEF GatewayNext, Step

(* Every step of the gateway is a step of its breaker or leaves it alone.  *)
LEMMA KeepsProtocol == [GatewayNext]_gatewayVars => [Next]_vars
<1> SUFFICES ASSUME [GatewayNext]_gatewayVars PROVE Next \/ UNCHANGED vars
  OBVIOUS
<1>1. ASSUME NEW h \in Callers,
             Arrive(h) \/ ReadPosition(h) \/ SetGauge(h) \/ Enforce(h)
               \/ ApplyFailurePolicy(h)
      PROVE  UNCHANGED vars
  BY <1>1
     DEF Arrive, ReadPosition, SetGauge, Enforce, ApplyFailurePolicy, vars
<1>2. ASSUME NEW h \in Callers,
             Call(h) \/ Refused(h) \/ CallDecided(h) \/ CallFailed(h)
      PROVE  Next
  BY <1>2 DEF Call, Refused, CallDecided, CallFailed, Next
<1>3. CASE TimePasses
  BY <1>3 DEF TimePasses, Next
<1>4. CASE RedisFails \/ RedisRecovers \/ UNCHANGED gatewayVars
  BY <1>4 DEF RedisFails, RedisRecovers, gatewayVars, vars
<1> QED
  BY <1>1, <1>2, <1>3, <1>4 DEF GatewayNext, Step

-------------------------------------------------------------------------------
(* Type correctness of the gateway (ratelimit.go 40-78). *)
THEOREM GatewayTypeCorrect == GatewaySpec => []GatewayTypeOK
<1>1. GatewayIInv => GatewayTypeOK
  BY DEF GatewayIInv
<1> QED
  BY <1>1, GatewayInitIInv, GatewayNextIInv, PTL DEF GatewaySpec

(* On every path of Wrap the handlers keep the breaker's protocol: the     *)
(* gateway's breaker is a Breaker (ratelimit.go 83-98).                    *)
THEOREM Protocol == GatewaySpec => BreakerProtocol
<1>1. GatewayInit => Init
  BY DEF GatewayInit
<1> QED
  BY <1>1, KeepsProtocol, PTL DEF GatewaySpec, BreakerProtocol, Spec

(* In a gateway with prompt calls, whatever its handlers, its clients and  *)
(* Redis do, only probes, and at most MaxProbes of them, reach a           *)
(* recovering Redis (breaker.go 97-110 behind ratelimit.go 86-98).         *)
THEOREM GatewayProbes == GatewaySpec => []OnlyProbesInFlight
  BY Protocol, ProbesBounded, PTL DEF BreakerProtocol

(* Under any traffic and any failures of Redis, a gateway whose breaker is *)
(* half-open has a probe in flight that will decide its fate.              *)
THEOREM GatewayNeverStuck == GatewaySpec => []ProbeOutstanding
  BY Protocol, NeverStuckHalfOpen, PTL DEF BreakerProtocol

(* A dead Redis costs a gateway at most the threshold and one call less    *)
(* than it has handlers, each up to the limiter's deadline (ratelimit.go   *)
(* 86-103).                                                                *)
THEOREM GatewayDiscovery == GatewaySpec => []DiscoveryCost
  BY Protocol, DiscoveryBounded, PTL DEF BreakerProtocol

(* A gateway with prompt calls keeps the promise of CircuitPromise: trials *)
(* are judged by their own verdicts and stale ones decide nothing.         *)
THEOREM GatewayPromise ==
  ASSUME PromptCalls
  PROVE  GatewaySpec => KeepsPromise
<1>1. Spec => KeepsPromise
  BY Refinement
<1> QED
  BY <1>1, Protocol, PTL DEF BreakerProtocol
===============================================================================
