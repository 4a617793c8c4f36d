------------------------- MODULE SlidingWindowProofs -------------------------
(***************************************************************************)
(* Proofs about SlidingWindow for every limit, window, lag, slack, set of  *)
(* calls and clock bound, whatever the order in which scripts run.         *)
(***************************************************************************)
EXTENDS SlidingWindow, FiniteSetTheorems, WellFoundedInduction, TLAPS

(* Stamps are not in the future, and a call in flight is not older than    *)
(* the lag allows.                                                         *)
StampsPast ==
  /\ \A r \in Requests : stamp[r] <= now
  /\ \A r \in Requests : phase[r] \in InFlight => now <= stamp[r] + MaxLag
  /\ \A r \in counted : phase[r] # "idle"

(* The log forgets nothing that matters: an admitted call whose stamp is   *)
(* inside the window that ends now is in the log, and the key lives as     *)
(* long as that.                                                           *)
LogComplete ==
  \A q \in counted :
    /\ stamp[q] + Window <= expireAt
    /\ now < stamp[q] + Window => q \in log

(* The log remembers nothing that did not happen. *)
LogSound == log \subseteq counted

IInv == TypeOK /\ StampsPast /\ LogComplete /\ LogSound /\ AccurateUpToLag

-------------------------------------------------------------------------------
(* Sets of counted or surviving calls are finite. *)
LEMMA Finite ==
  ASSUME TypeOK, NEW S, S \subseteq counted \/ S \subseteq log
  PROVE  IsFiniteSet(S) /\ Cardinality(S) \in Nat
  BY FS_Subset, FS_CardinalityType, CallsAssumption DEF TypeOK

(* The initial state satisfies the inductive invariant. *)
LEMMA InitIInv == Init => IInv
<1> SUFFICES ASSUME Init PROVE IInv
  OBVIOUS
<1>1. TypeOK /\ StampsPast /\ LogComplete /\ LogSound
  BY CallsAssumption, QuotaAssumption
     DEF Init, CallsInit, TypeOK, CallsTypeOK, StampsPast, LogComplete,
         LogSound, Phases, InFlight, ExpiryTimes
<1>2. \A t : CountedIn(t, t + (Window - MaxLag)) = {}
  BY DEF Init, CountedIn
<1>3. AccurateUpToLag
  BY <1>2, FS_EmptySet, QuotaAssumption DEF AccurateUpToLag
<1> QED
  BY <1>1, <1>3 DEF IInv

(* A step that keeps the counted calls and their stamps keeps the bound.   *)
LEMMA AccuracyKept ==
  ASSUME AccurateUpToLag, UNCHANGED counted,
         \A r \in counted : stamp'[r] = stamp[r]
  PROVE  AccurateUpToLag'
<1>1. \A t : CountedIn(t, t + (Window - MaxLag))'
               = CountedIn(t, t + (Window - MaxLag))
  BY DEF CountedIn
<1> QED
  BY <1>1 DEF AccurateUpToLag

(* Admitted calls whose stamps lie within Window - MaxLag of the stamp of  *)
(* a call in flight are all still in the log when its script runs.         *)
LEMMA NearbySurvive ==
  ASSUME IInv, NEW r \in Requests, phase[r] \in InFlight,
         NEW q \in counted, stamp[r] < stamp[q] + (Window - MaxLag)
  PROVE  q \in Surviving(stamp[r])
<1>1. /\ stamp[r] \in Nat /\ stamp[q] \in Nat /\ now \in Nat
      /\ now <= stamp[r] + MaxLag
  BY DEF IInv, TypeOK, CallsTypeOK, StampsPast
<1>2. now < stamp[q] + Window
  BY <1>1, QuotaAssumption, CallsAssumption
<1>3. stamp[r] < stamp[q] + Window
  BY <1>1, QuotaAssumption, CallsAssumption
<1>4. now <= expireAt
  BY <1>1, <1>2, QuotaAssumption
     DEF IInv, TypeOK, LogComplete, ExpiryTimes
<1> QED
  BY <1>2, <1>3, <1>4 DEF IInv, LogComplete, Surviving, Live

(* Running a script preserves the invariant.                               *)
LEMMA ScriptIInv ==
  ASSUME IInv, NEW r \in Requests, phase[r] \in InFlight,
         Script(r), UNCHANGED <<now, stamp>>
  PROVE  /\ log' \subseteq Requests /\ expireAt' \in ExpiryTimes
         /\ counted' \subseteq Requests
         /\ LogComplete' /\ LogSound' /\ AccurateUpToLag'
<1> USE CallsAssumption, QuotaAssumption
<1> DEFINE s == stamp[r]
<1>1. /\ s \in 0..MaxNow /\ now \in 0..MaxNow /\ s <= now /\ now <= s + MaxLag
      /\ counted \subseteq Requests /\ log \subseteq Requests
      /\ \A q \in counted : stamp[q] \in Nat /\ stamp[q] <= now
  BY DEF IInv, TypeOK, CallsTypeOK, StampsPast
<1>2. Surviving(s) \subseteq log
  BY DEF Surviving, Live
<1>3. /\ log' \subseteq Requests /\ expireAt' \in ExpiryTimes
      /\ counted' \subseteq Requests
  BY <1>1, <1>2 DEF Script, ExpiryTimes
<1>4. LogSound'
  BY <1>2 DEF Script, IInv, LogSound
<1>5. LogComplete'
  <2> SUFFICES ASSUME NEW q \in counted'
               PROVE  /\ stamp[q] + Window <= expireAt'
                      /\ now < stamp[q] + Window => q \in log'
    BY DEF LogComplete
  <2>1. stamp[q] \in Nat /\ stamp[q] <= now
    BY <1>1 DEF Script
  <2>2. stamp[q] + Window <= expireAt'
    BY <1>1, <2>1 DEF Script
  <2>3. ASSUME now < stamp[q] + Window, q \in counted
        PROVE  q \in log'
    <3>1. s < stamp[q] + Window /\ now <= expireAt
      BY <1>1, <2>1, <2>3 DEF IInv, TypeOK, LogComplete, ExpiryTimes
    <3> QED
      BY <2>3, <3>1 DEF IInv, LogComplete, Surviving, Live, Script
  <2>4. ASSUME q \notin counted
        PROVE  q \in log'
    BY <2>4 DEF Script
  <2> QED
    BY <2>2, <2>3, <2>4
<1>6. AccurateUpToLag'
  <2> SUFFICES ASSUME NEW t \in 0..MaxNow
               PROVE  Cardinality(CountedIn(t, t + (Window - MaxLag))') <= Limit
    BY DEF AccurateUpToLag
  <2> DEFINE C == CountedIn(t, t + (Window - MaxLag))
             D == C \cup {r}
             S == Surviving(s)
  <2>1. /\ IsFiniteSet(C) /\ Cardinality(C) \in Nat /\ Cardinality(C) <= Limit
        /\ IsFiniteSet(S) /\ Cardinality(S) \in Nat
    BY <1>2, Finite DEF IInv, AccurateUpToLag, CountedIn
  <2>2. CASE counted' = counted \/ ~(t <= s /\ s < t + (Window - MaxLag))
    <3>1. CountedIn(t, t + (Window - MaxLag))' = C
      BY <2>2 DEF CountedIn, Script
    <3> HIDE DEF C
    <3> QED
      BY <2>1, <3>1
  <2>3. CASE counted' # counted /\ t <= s /\ s < t + (Window - MaxLag)
    <3>1. Allows(s) /\ counted' = counted \cup {r}
      BY <2>3 DEF Script
    <3>2. CountedIn(t, t + (Window - MaxLag))' = D
      BY <2>3, <3>1 DEF CountedIn
    <3>3. C \subseteq S
      <4> SUFFICES ASSUME NEW q \in C PROVE q \in S
        OBVIOUS
      <4>1. q \in counted /\ t <= stamp[q] /\ stamp[q] \in Nat
        BY <1>1 DEF CountedIn
      <4>2. s < stamp[q] + (Window - MaxLag)
        BY <1>1, <2>3, <4>1
      <4> QED
        BY <4>1, <4>2, NearbySurvive
    <3>4. Cardinality(S) < Limit
      BY <3>1 DEF Allows
    <3> HIDE DEF C, S
    <3>5. Cardinality(C) <= Cardinality(S)
      BY <2>1, <3>3, FS_Subset
    <3>6. Cardinality(D) <= Cardinality(C) + 1
      <4>1. Cardinality(D) = IF r \in C THEN Cardinality(C)
                                        ELSE Cardinality(C) + 1
        BY <2>1, FS_AddElement
      <4> QED
        BY <2>1, <4>1
    <3>7. Cardinality(D) \in Nat
      BY <2>1, FS_AddElement, FS_CardinalityType
    <3> HIDE DEF D
    <3>8. Cardinality(D) <= Limit
      BY <2>1, <3>4, <3>5, <3>6, <3>7
    <3> QED
      BY <3>2, <3>8
  <2> QED
    BY <2>2, <2>3
<1> QED
  BY <1>3, <1>4, <1>5, <1>6

(* Every step preserves the inductive invariant. *)
LEMMA NextIInv == IInv /\ [Next]_vars => IInv'
<1> SUFFICES ASSUME IInv, [Next]_vars
             PROVE  IInv'
  OBVIOUS
<1> USE CallsAssumption
<1>1. ASSUME NEW r \in Requests, Send(r), UNCHANGED <<log, expireAt, counted>>
      PROVE  IInv'
  <2>1. TypeOK' /\ StampsPast'
    BY <1>1 DEF IInv, TypeOK, CallsTypeOK, StampsPast, Send, Phases, InFlight
  <2>2. \A q \in counted : stamp'[q] = stamp[q]
    BY <1>1 DEF IInv, TypeOK, CallsTypeOK, StampsPast, Send
  <2>3. LogComplete' /\ LogSound'
    BY <1>1, <2>2 DEF IInv, LogComplete, LogSound, Send
  <2> QED
    BY <1>1, <2>1, <2>2, <2>3, AccuracyKept DEF IInv
<1>2. ASSUME NEW r \in Requests, Decide(r) \/ LoseReply(r)
      PROVE  IInv'
  <2>1. /\ phase[r] \in InFlight /\ Script(r) /\ UNCHANGED <<now, stamp>>
        /\ phase' \in [Requests -> Phases]
        /\ \A q \in Requests : phase'[q] \in InFlight => phase[q] \in InFlight
        /\ \A q \in Requests : phase'[q] = "idle" => phase[q] = "idle"
        /\ phase'[r] # "idle"
    BY <1>2 DEF IInv, TypeOK, CallsTypeOK, Decide, LoseReply, Answer,
                ReplyLost, Phases, InFlight
  <2>2. /\ log' \subseteq Requests /\ expireAt' \in ExpiryTimes
        /\ counted' \subseteq Requests
        /\ LogComplete' /\ LogSound' /\ AccurateUpToLag'
    BY <2>1, ScriptIInv
  <2>3. TypeOK'
    BY <2>1, <2>2 DEF IInv, TypeOK, CallsTypeOK
  <2>4. StampsPast'
    BY <2>1, <2>2 DEF IInv, TypeOK, StampsPast, Script
  <2> QED
    BY <2>2, <2>3, <2>4 DEF IInv
<1>3. ASSUME NEW r \in Requests, Fail(r), UNCHANGED <<log, expireAt, counted>>
      PROVE  IInv'
  <2>1. TypeOK' /\ StampsPast'
    BY <1>3 DEF IInv, TypeOK, CallsTypeOK, StampsPast, Fail, Phases, InFlight
  <2>2. LogComplete' /\ LogSound'
    BY <1>3 DEF IInv, LogComplete, LogSound, Fail
  <2> QED
    BY <1>3, <2>1, <2>2, AccuracyKept DEF IInv, Fail
<1>4. CASE Tick /\ UNCHANGED <<log, expireAt, counted>>
  <2>1. TypeOK' /\ StampsPast'
    BY <1>4 DEF IInv, TypeOK, CallsTypeOK, StampsPast, Tick
  <2>2. LogSound'
    BY <1>4 DEF IInv, LogSound
  <2>3. LogComplete'
    BY <1>4, QuotaAssumption DEF IInv, LogComplete, TypeOK, CallsTypeOK, Tick
  <2> QED
    BY <1>4, <2>1, <2>2, <2>3, AccuracyKept DEF IInv, Tick
<1>5. CASE Restart
  <2>1. TypeOK' /\ StampsPast' /\ LogComplete' /\ LogSound'
    BY <1>5, QuotaAssumption
       DEF IInv, TypeOK, CallsTypeOK, StampsPast, LogComplete, LogSound,
           Restart, callVars, ExpiryTimes
  <2>2. \A t : CountedIn(t, t + (Window - MaxLag))' = {}
    BY <1>5 DEF Restart, CountedIn
  <2>3. AccurateUpToLag'
    BY <2>2, FS_EmptySet, QuotaAssumption DEF AccurateUpToLag
  <2> QED
    BY <2>1, <2>3 DEF IInv
<1>6. CASE UNCHANGED vars
  <2>1. TypeOK' /\ StampsPast' /\ LogComplete' /\ LogSound'
    BY <1>6 DEF IInv, TypeOK, CallsTypeOK, StampsPast, LogComplete, LogSound,
                vars, callVars
  <2> QED
    BY <1>6, <2>1, AccuracyKept DEF IInv, vars, callVars
<1> QED
  BY <1>1, <1>2, <1>3, <1>4, <1>5, <1>6 DEF Next

-------------------------------------------------------------------------------
(* The inductive invariant holds in every reachable state. *)
THEOREM Inductive == Spec => []IInv
  BY InitIInv, NextIInv, PTL DEF Spec

(* No stretch shorter than the window by the stamps' lag admits more than  *)
(* the limit, whatever is reordered, lost, repeated or forgotten.          *)
THEOREM AccuracyUpToLag == Spec => []AccurateUpToLag
<1>1. IInv => AccurateUpToLag
  BY DEF IInv
<1> QED
  BY <1>1, Inductive, PTL

(* Of lagging stamps, as long as they lag by half a window at most, twice  *)
(* the limit is the worst a whole window sees: the fixed window's ordinary *)
(* worst case.                                                             *)
AtMostTwiceLimit ==
  \A t \in 0..MaxNow : Cardinality(CountedIn(t, t + Window)) <= 2 * Limit

THEOREM LagAtMostDoubles ==
  ASSUME 2 * MaxLag <= Window
  PROVE  Spec => []AtMostTwiceLimit
<1>1. ASSUME IInv, NEW t \in 0..MaxNow
      PROVE  Cardinality(CountedIn(t, t + Window)) <= 2 * Limit
  <2> DEFINE part == Window - MaxLag
             u == t + part
             A == CountedIn(t, u)
             B == CountedIn(u, u + part)
             C == CountedIn(t, t + Window)
  <2>1. /\ t \in Nat /\ MaxNow \in Nat /\ part \in Nat /\ u \in Nat
        /\ t + Window <= u + part /\ Limit \in Nat
    BY QuotaAssumption, CallsAssumption
  <2>2. \A r \in counted : stamp[r] \in 0..MaxNow
    BY <1>1 DEF IInv, TypeOK, CallsTypeOK
  <2>3. Cardinality(A) <= Limit
    BY <1>1 DEF IInv, AccurateUpToLag
  <2>4. Cardinality(B) <= Limit
    <3>1. CASE u \in 0..MaxNow
      <4>1. AccurateUpToLag
        BY <1>1 DEF IInv
      <4> HIDE DEF u
      <4> QED
        BY <3>1, <4>1 DEF AccurateUpToLag
    <3>2. CASE u \notin 0..MaxNow
      <4>1. B = {}
        BY <2>1, <2>2, <3>2 DEF CountedIn
      <4> HIDE DEF B
      <4> QED
        BY <2>1, <4>1, FS_EmptySet
    <3> QED
      BY <3>1, <3>2
  <2>5. C \subseteq A \cup B
    <3> SUFFICES ASSUME NEW r \in C PROVE r \in A \/ r \in B
      OBVIOUS
    <3>1. r \in counted /\ t <= stamp[r] /\ stamp[r] < t + Window
      BY DEF CountedIn
    <3>2. stamp[r] \in Nat /\ Window \in Nat
      BY <2>2, <3>1, QuotaAssumption
    <3> HIDE DEF u, part
    <3>3. CASE stamp[r] < u
      BY <3>1, <3>3 DEF CountedIn
    <3>4. CASE ~(stamp[r] < u)
      BY <2>1, <3>1, <3>2, <3>4 DEF CountedIn
    <3> QED
      BY <3>3, <3>4
  <2>6. /\ IsFiniteSet(A) /\ Cardinality(A) \in Nat
        /\ IsFiniteSet(B) /\ Cardinality(B) \in Nat
        /\ Cardinality(C) \in Nat
    BY <1>1, Finite DEF IInv, CountedIn
  <2> HIDE DEF A, B, C
  <2>7. /\ IsFiniteSet(A \cup B) /\ Cardinality(A \cap B) \in Nat
        /\ Cardinality(A \cup B) = Cardinality(A) + Cardinality(B)
                                     - Cardinality(A \cap B)
    BY <2>6, FS_Union, FS_Intersection, FS_CardinalityType
  <2>8. Cardinality(C) <= Cardinality(A \cup B)
    BY <2>5, <2>7, FS_Subset
  <2>9. Cardinality(C) <= 2 * Limit
    BY <2>1, <2>3, <2>4, <2>6, <2>7, <2>8
  <2> QED
    BY <2>9 DEF C
<1>2. IInv => AtMostTwiceLimit
  BY <1>1 DEF AtMostTwiceLimit
<1> QED
  BY <1>2, Inductive, PTL

(* A call is throttled only when the limit's worth of admitted calls is    *)
(* inside its window.                                                      *)
THEOREM NoPhantomThrottle == Spec => ThrottledOnlyWhenFull
<1>1. ASSUME IInv, [Next]_vars, NEW r \in Requests,
             phase[r] # "throttled", phase'[r] = "throttled"
      PROVE  Cardinality({q \in counted : stamp[r] < stamp[q] + Window})
               >= Limit
  <2> DEFINE F == {q \in counted : stamp[r] < stamp[q] + Window}
             S == Surviving(stamp[r])
  <2>1. ~Allows(stamp[r])
    BY <1>1 DEF IInv, TypeOK, CallsTypeOK, Next, vars, callVars, Send, Decide,
                Answer, LoseReply, ReplyLost, Fail, Tick, Restart
  <2>2. S \subseteq F
    BY <1>1 DEF IInv, LogSound, Surviving, Live
  <2>3. /\ IsFiniteSet(F) /\ Cardinality(F) \in Nat
        /\ Cardinality(S) \in Nat /\ Cardinality(S) >= Limit
    BY <1>1, <2>1, Finite, QuotaAssumption DEF IInv, Allows, Surviving, Live
  <2> HIDE DEF F, S
  <2>4. Cardinality(S) <= Cardinality(F)
    BY <2>2, <2>3, FS_Subset
  <2>5. Cardinality(F) >= Limit
    BY <2>3, <2>4, QuotaAssumption
  <2> QED
    BY <2>5 DEF F
<1>2. IInv /\ [Next]_vars => [ThrottledHasCause]_vars
  BY <1>1 DEF ThrottledHasCause
<1> QED
  BY <1>2, Inductive, PTL DEF Spec, ThrottledOnlyWhenFull

(* The key never outlives the window and its slack, and only calls are     *)
(* logged and counted.                                                     *)
THEOREM TypeCorrect == Spec => []TypeOK
<1>1. IInv => TypeOK
  BY DEF IInv
<1> QED
  BY <1>1, Inductive, PTL

-------------------------------------------------------------------------------
(* The retry hint *)

(* The log never holds more than the limit. *)
LogBounded == Cardinality(log) <= Limit

LEMMA SurvivingFinite ==
  ASSUME TypeOK, NEW s
  PROVE  /\ IsFiniteSet(Surviving(s)) /\ Cardinality(Surviving(s)) \in Nat
         /\ Surviving(s) \subseteq log
         /\ Cardinality(Surviving(s)) <= Cardinality(log)
<1>1. Surviving(s) \subseteq log
  BY DEF Surviving, Live
<1>2. IsFiniteSet(log)
  BY Finite
<1> QED
  BY <1>1, <1>2, Finite, FS_Subset

(* One more element makes a set at most one larger.                        *)
LEMMA OneMore ==
  ASSUME NEW S, IsFiniteSet(S), NEW x
  PROVE  /\ Cardinality(S \cup {x}) \in Nat
         /\ Cardinality(S \cup {x}) <= Cardinality(S) + 1
<1>1. IsFiniteSet(S \cup {x}) /\ Cardinality(S) \in Nat
  BY FS_AddElement, FS_CardinalityType
<1>2. Cardinality(S \cup {x}) \in Nat
  BY <1>1, FS_CardinalityType
<1>3. CASE x \in S
  <2>1. Cardinality(S \cup {x}) = Cardinality(S)
    BY <1>3, FS_AddElement
  <2> QED BY <1>1, <1>2, <2>1
<1>4. CASE x \notin S
  <2>1. Cardinality(S \cup {x}) = Cardinality(S) + 1
    BY <1>4, FS_AddElement
  <2> QED BY <1>1, <1>2, <2>1
<1> QED BY <1>3, <1>4

LEMMA InitLogBounded == Init => LogBounded
  BY FS_EmptySet, QuotaAssumption DEF Init, LogBounded

LEMMA NextLogBounded == TypeOK /\ LogBounded /\ [Next]_vars => LogBounded'
<1> SUFFICES ASSUME TypeOK, LogBounded, [Next]_vars
             PROVE  LogBounded'
  OBVIOUS
<1>1. ASSUME NEW r \in Requests, Script(r)
      PROVE  LogBounded'
  <2> DEFINE S == Surviving(stamp[r])
  <2>1. /\ IsFiniteSet(S) /\ Cardinality(S) \in Nat
        /\ IsFiniteSet(log) /\ Cardinality(log) \in Nat
        /\ Cardinality(S) <= Cardinality(log)
    BY SurvivingFinite, Finite
  <2>2. CASE Allows(stamp[r])
    <3>1. log' = S \cup {r} /\ Cardinality(S) < Limit
      BY <1>1, <2>2 DEF Script, Allows
    <3> HIDE DEF S
    <3>2. /\ Cardinality(S \cup {r}) \in Nat
          /\ Cardinality(S \cup {r}) <= Cardinality(S) + 1
      BY <2>1, OneMore
    <3> QED
      BY <2>1, <3>1, <3>2, QuotaAssumption DEF LogBounded
  <2>3. CASE ~Allows(stamp[r])
    <3>1. log' = S
      BY <1>1, <2>3 DEF Script
    <3> HIDE DEF S
    <3> QED
      BY <2>1, <3>1, QuotaAssumption DEF LogBounded
  <2> QED
    BY <2>2, <2>3
<1>2. CASE Restart
  BY <1>2, FS_EmptySet, QuotaAssumption DEF Restart, LogBounded
<1>3. CASE UNCHANGED log
  BY <1>3 DEF LogBounded
<1> QED
  BY <1>1, <1>2, <1>3 DEF Next, Decide, LoseReply, vars

(* A non-empty set of stamps has an oldest. *)
LEMMA Least ==
  ASSUME NEW S \in SUBSET Nat, S # {}
  PROVE  \E m \in S : \A k \in S : m <= k
<1> DEFINE R == OpToRel(<, Nat)
<1>1. IsWellFoundedOn(R, Nat)
  BY NatLessThanWellFounded
<1>2. \A x, y \in Nat : <<y, x>> \in R <=> y < x
  BY DEF OpToRel
<1> HIDE DEF R
<1>3. PICK x \in S : \A y \in S : ~ (<<y, x>> \in R)
  BY <1>1, WFMin
<1>4. ASSUME NEW k \in S
      PROVE  x <= k
  <2>1. x \in Nat /\ k \in Nat
    OBVIOUS
  <2>2. ~ (k < x)
    BY <1>2, <1>3, <2>1
  <2> QED
    BY <2>1, <2>2
<1> QED
  BY <1>4

(* A throttled caller that comes back after the hint finds a slot free:    *)
(* the log holds no more than the limit, and the oldest entry that counted *)
(* against it has aged out by then (sliding_window.lua 38-47).             *)
THEOREM HonestHint == Spec => []RetryAfterSuffices
<1>1. ASSUME IInv, LogBounded
      PROVE  RetryAfterSuffices
  <2> SUFFICES ASSUME NEW r \in Requests, ~Allows(stamp[r])
               PROVE  LET later == stamp[r] + RetryAfter(stamp[r])
                      IN  Cardinality({q \in Surviving(stamp[r]) :
                                         later < stamp[q] + Window}) < Limit
    BY DEF RetryAfterSuffices
  <2> DEFINE s == stamp[r]
             S == Surviving(s)
             later == s + RetryAfter(s)
             Rest == {q \in S : later < stamp[q] + Window}
  <2>1. /\ s \in Nat /\ \A q \in log : stamp[q] \in Nat
        /\ Window \in Nat /\ Limit \in Nat
    BY <1>1, QuotaAssumption DEF IInv, TypeOK, CallsTypeOK
  <2>2. /\ IsFiniteSet(S) /\ Cardinality(S) \in Nat /\ S \subseteq log
        /\ Cardinality(S) <= Cardinality(log)
        /\ Cardinality(log) \in Nat
    BY <1>1, SurvivingFinite, Finite DEF IInv
  <2>3. Cardinality(S) <= Limit /\ ~(Cardinality(S) < Limit)
    BY <1>1, <2>1, <2>2 DEF LogBounded, Allows
  <2>4. S # {}
    BY <2>3, FS_EmptySet, QuotaAssumption
  <2>5. PICK o \in S : Oldest(s) = stamp[o]
    <3> DEFINE T == {stamp[q] : q \in S}
    <3>1. T \in SUBSET Nat /\ T # {}
      BY <2>1, <2>2, <2>4
    <3>2. PICK m \in T : \A k \in T : m <= k
      BY <3>1, Least
    <3>3. Oldest(s) \in T
      BY <3>2 DEF Oldest
    <3> QED
      BY <3>3
  <2>6. o \notin Rest
    BY <2>1, <2>2, <2>5 DEF RetryAfter
  <2>7. Rest \subseteq S \ {o}
    BY <2>6
  <2> HIDE DEF S, Rest
  <2>8. IsFiniteSet(S \ {o}) /\ Cardinality(S \ {o}) = Cardinality(S) - 1
    BY <2>2, FS_RemoveElement
  <2>9. Cardinality(Rest) <= Cardinality(S \ {o}) /\ Cardinality(Rest) \in Nat
    BY <2>7, <2>8, FS_Subset, FS_CardinalityType
  <2>10. Cardinality(Rest) < Limit
    BY <2>1, <2>2, <2>3, <2>8, <2>9
  <2> QED
    BY <2>10 DEF Rest, S
<1>2. IInv => TypeOK
  BY DEF IInv
<1> QED
  BY <1>1, <1>2, InitLogBounded, NextLogBounded, Inductive, PTL DEF Spec

-------------------------------------------------------------------------------
(* What the newest stamp sees *)

(* Calls are admitted with a stamp that is not in the future, so the key   *)
(* outlives each one's window by the slack.                                *)
KeyOutlives == \A q \in counted : stamp[q] + Window + Slack <= expireAt

(* An admitted call leaves the log only when its window is over for some   *)
(* call already sent.                                                      *)
DroppedForNewer ==
  \A q \in counted :
    q \in log \/ \E p \in Requests :
                  phase[p] # "idle" /\ stamp[q] + Window <= stamp[p]

NewestInv == KeyOutlives /\ DroppedForNewer

(* The lag is at most the slack and a millisecond.  The slack is a second  *)
(* (sliding_window.lua 49); the lag is the spread of the replicas' clocks  *)
(* and what a call may wait before its deadline (ratelimit.go 94).         *)
KeyCoversLag == MaxLag <= Slack + 1

LEMMA InitNewestInv == Init => NewestInv
  BY DEF Init, NewestInv, KeyOutlives, DroppedForNewer

(* An admitted call whose window is not over for a call in flight is still *)
(* readable if it is in the log: the key has not expired.                  *)
LEMMA StillLive ==
  ASSUME IInv, NewestInv, KeyCoversLag,
         NEW r \in Requests, phase[r] \in InFlight,
         NEW q \in counted, q \in log, stamp[r] < stamp[q] + Window
  PROVE  q \in Surviving(stamp[r])
<1>1. /\ stamp[r] \in Nat /\ stamp[q] \in Nat /\ now \in Nat
      /\ now <= stamp[r] + MaxLag
      /\ stamp[q] + Window + Slack <= expireAt /\ expireAt \in Nat
  BY CallsAssumption, QuotaAssumption
     DEF IInv, TypeOK, CallsTypeOK, StampsPast, NewestInv, KeyOutlives,
         ExpiryTimes
<1>2. now <= expireAt
  BY <1>1, CallsAssumption, QuotaAssumption DEF KeyCoversLag
<1> QED
  BY <1>2 DEF Surviving, Live

LEMMA NextNewestInv ==
  ASSUME KeyCoversLag
  PROVE  IInv /\ NewestInv /\ [Next]_vars => NewestInv'
<1> SUFFICES ASSUME IInv, NewestInv, [Next]_vars
             PROVE  NewestInv'
  OBVIOUS
<1> USE CallsAssumption, QuotaAssumption
<1>1. ASSUME NEW r \in Requests, Send(r), UNCHANGED <<log, expireAt, counted>>
      PROVE  NewestInv'
  <2>1. /\ \A q \in Requests : phase[q] # "idle" => stamp'[q] = stamp[q]
        /\ \A q \in Requests : phase[q] # "idle" => phase'[q] # "idle"
        /\ counted \subseteq Requests
        /\ \A q \in counted : phase[q] # "idle"
    BY <1>1 DEF IInv, TypeOK, CallsTypeOK, StampsPast, Send
  <2> QED
    BY <1>1, <2>1 DEF NewestInv, KeyOutlives, DroppedForNewer
<1>2. ASSUME NEW r \in Requests, Decide(r) \/ LoseReply(r)
      PROVE  NewestInv'
  <2>1. /\ phase[r] \in InFlight /\ Script(r) /\ UNCHANGED <<now, stamp>>
        /\ \A q \in Requests : phase[q] # "idle" => phase'[q] # "idle"
        /\ phase[r] # "idle"
    BY <1>2 DEF IInv, TypeOK, CallsTypeOK, Decide, LoseReply, Answer,
                ReplyLost, InFlight
  <2>2. /\ now \in Nat /\ \A q \in Requests : stamp[q] \in Nat
        /\ \A q \in Requests : stamp[q] <= now
        /\ counted \subseteq Requests
    BY DEF IInv, TypeOK, CallsTypeOK, StampsPast
  <2>3. KeyOutlives'
    BY <2>1, <2>2 DEF Script, KeyOutlives
  <2>4. ASSUME NEW q \in counted', q \notin log'
        PROVE  \E p \in Requests :
                 phase'[p] # "idle" /\ stamp'[q] + Window <= stamp'[p]
    <3>1. q \in counted /\ q \notin Surviving(stamp[r])
      BY <2>1, <2>4 DEF Script
    <3>2. CASE q \in log
      <4>1. ~(stamp[r] < stamp[q] + Window)
        BY <2>1, <3>1, <3>2, StillLive
      <4>2. stamp[q] + Window <= stamp[r]
        BY <2>2, <3>1, <4>1
      <4> QED
        BY <2>1, <4>2
    <3>3. CASE q \notin log
      <4>1. PICK p \in Requests :
              phase[p] # "idle" /\ stamp[q] + Window <= stamp[p]
        BY <3>1, <3>3 DEF NewestInv, DroppedForNewer
      <4> QED
        BY <2>1, <4>1
    <3> QED
      BY <3>2, <3>3
  <2> QED
    BY <2>3, <2>4 DEF NewestInv, DroppedForNewer
<1>3. ASSUME NEW r \in Requests, Fail(r), UNCHANGED <<log, expireAt, counted>>
      PROVE  NewestInv'
  <2>1. \A q \in Requests : phase[q] # "idle" => phase'[q] # "idle"
    BY <1>3 DEF IInv, TypeOK, CallsTypeOK, Fail
  <2> QED
    BY <1>3, <2>1 DEF Fail, NewestInv, KeyOutlives, DroppedForNewer
<1>4. CASE Tick /\ UNCHANGED <<log, expireAt, counted>>
  BY <1>4 DEF Tick, NewestInv, KeyOutlives, DroppedForNewer
<1>5. CASE Restart
  BY <1>5 DEF Restart, NewestInv, KeyOutlives, DroppedForNewer
<1>6. CASE UNCHANGED vars
  BY <1>6 DEF vars, callVars, NewestInv, KeyOutlives, DroppedForNewer
<1> QED
  BY <1>1, <1>2, <1>3, <1>4, <1>5, <1>6 DEF Next

(* A call that is the newest when its script runs is held to the limit of  *)
(* its whole window, whatever late scripts have dropped before, as long as *)
(* the slack covers the lag (sliding_window.lua 23-35, 49).                *)
THEOREM ExactForNewest ==
  ASSUME KeyCoversLag
  PROVE  Spec => []NewestSeesLimit
<1>1. ASSUME IInv, NewestInv
      PROVE  NewestSeesLimit
  <2> SUFFICES ASSUME NEW r \in Requests, phase[r] \in InFlight, Newest(r),
                      Allows(stamp[r])
               PROVE  Cardinality({q \in counted :
                                     stamp[r] < stamp[q] + Window}) < Limit
    BY DEF NewestSeesLimit
  <2> DEFINE F == {q \in counted : stamp[r] < stamp[q] + Window}
             S == Surviving(stamp[r])
  <2>1. F \subseteq S
    <3> SUFFICES ASSUME NEW q \in counted, stamp[r] < stamp[q] + Window
                 PROVE  q \in S
      OBVIOUS
    <3>1. /\ stamp[r] \in Nat /\ stamp[q] \in Nat
          /\ \A p \in Requests : stamp[p] \in Nat
      BY <1>1 DEF IInv, TypeOK, CallsTypeOK
    <3>2. q \in log
      BY <1>1, <3>1, QuotaAssumption DEF NewestInv, DroppedForNewer, Newest
    <3> QED
      BY <1>1, <3>2, StillLive
  <2>2. /\ IsFiniteSet(S) /\ Cardinality(S) \in Nat /\ Cardinality(S) < Limit
    BY <1>1, SurvivingFinite DEF IInv, Allows
  <2>3. Cardinality(F) \in Nat
    BY <1>1, Finite DEF IInv
  <2> HIDE DEF F, S
  <2>4. Cardinality(F) <= Cardinality(S)
    BY <2>1, <2>2, FS_Subset
  <2>5. Cardinality(F) < Limit
    BY <2>2, <2>3, <2>4, QuotaAssumption
  <2> QED
    BY <2>5 DEF F
<1> QED
  BY <1>1, InitNewestInv, NextNewestInv, Inductive, PTL DEF Spec
===============================================================================
