-------------------------- MODULE FixedWindowProofs --------------------------
(***************************************************************************)
(* Proofs about FixedWindow for every limit, window, number of calls and   *)
(* clock bound, and for scripts as late as MaxLag allows.                  *)
(*                                                                         *)
(* A counter is made again if a script runs after it expired, and each     *)
(* counter admits up to the limit.  It lives a window and a millisecond    *)
(* from the moment it was made, so how often the counter of one window can *)
(* be made is bounded by how late the scripts may be.  Prompt scripts are  *)
(* the ones for which it is made once.                                     *)
(***************************************************************************)
EXTENDS FixedWindow, FiniteSetTheorems, TLAPS

(* The calls admitted into the aligned window w. *)
Admitted(w) == CountedIn(w * Window, (w + 1) * Window)

(* So many lives of a window's counter suffice for scripts as late as      *)
(* MaxLag: none runs after the last of them.                               *)
LivesSuffice(lives) == MaxLag <= (lives - 1) * Window + lives

(* The counter of window w has been made n times: those before the last    *)
(* admitted up to the limit each, and the last one, which covers what it   *)
(* admitted, began n - 1 lives after the window did.                       *)
MadeTimes(w, n) ==
  /\ n = 0 => counter[w].value = 0 /\ Admitted(w) = {}
  /\ n > 0 => /\ counter[w].value > 0
              /\ Cardinality(Admitted(w)) <= (n - 1) * Limit + counter[w].value
              /\ counter[w].expireAt >= (w + n) * Window + (n - 1)
  /\ Cardinality(Admitted(w)) <= n * Limit

CountersCover(lives) == \A w \in Windows : \E n \in 0..lives : MadeTimes(w, n)

(* Only calls that were sent are counted, with stamps not in the future.   *)
StampsPast ==
  /\ \A r \in Requests : stamp[r] <= now
  /\ \A r \in Requests : phase[r] \in InFlight => now <= stamp[r] + MaxLag
  /\ \A r \in counted : phase[r] # "idle"

IInv(lives) == TypeOK /\ StampsPast /\ CountersCover(lives)

-------------------------------------------------------------------------------
(* Windows are aligned: a stamp lies in the window of its index.           *)
LEMMA WindowBounds ==
  ASSUME NEW s \in Nat
  PROVE  /\ WindowOf(s) \in Nat
         /\ WindowOf(s) * Window <= s
         /\ s < (WindowOf(s) + 1) * Window
  BY QuotaAssumption DEF WindowOf

(* A stamp lies in no other window. *)
LEMMA WindowUnique ==
  ASSUME NEW s \in Nat, NEW w \in Nat, w * Window <= s, s < (w + 1) * Window
  PROVE  w = WindowOf(s)
<1> DEFINE v == WindowOf(s)
<1>1. v \in Nat /\ v * Window <= s /\ s < (v + 1) * Window
  BY WindowBounds
<1> HIDE DEF v
<1>2. ASSUME v < w PROVE FALSE
  <2>1. w = (v + 1) + (w - (v + 1)) /\ w - (v + 1) \in Nat
    BY <1>1, <1>2
  <2>2. PICK d \in Nat : w = (v + 1) + d
    BY <2>1
  <2>3. w * Window = (v + 1) * Window + d * Window
    BY <1>1, <2>2, QuotaAssumption
  <2>4. d * Window >= 0
    BY QuotaAssumption
  <2> QED
    BY <1>1, <2>3, <2>4, QuotaAssumption
<1>3. ASSUME w < v PROVE FALSE
  <2>1. v = (w + 1) + (v - (w + 1)) /\ v - (w + 1) \in Nat
    BY <1>1, <1>3
  <2>2. PICK d \in Nat : v = (w + 1) + d
    BY <2>1
  <2>3. v * Window = (w + 1) * Window + d * Window
    BY <1>1, <2>2, QuotaAssumption
  <2>4. d * Window >= 0
    BY QuotaAssumption
  <2> QED
    BY <1>1, <2>3, <2>4, QuotaAssumption
<1>4. w = v
  BY <1>1, <1>2, <1>3
<1> QED
  BY <1>4 DEF v

(* A stamp the clock can show has a window among the modelled ones.        *)
LEMMA WindowInRange ==
  ASSUME NEW s \in 0..MaxNow
  PROVE  WindowOf(s) \in Windows
<1> DEFINE v == WindowOf(s)
           m == WindowOf(MaxNow)
<1>1. /\ v \in Nat /\ v * Window <= s /\ s <= MaxNow
      /\ m \in Nat /\ MaxNow < (m + 1) * Window
  BY WindowBounds, CallsAssumption
<1> HIDE DEF v, m
<1>2. ASSUME m < v PROVE FALSE
  <2>1. v = (m + 1) + (v - (m + 1)) /\ v - (m + 1) \in Nat
    BY <1>1, <1>2
  <2>2. PICK d \in Nat : v = (m + 1) + d
    BY <2>1
  <2>3. v * Window = (m + 1) * Window + d * Window
    BY <1>1, <2>2, QuotaAssumption
  <2>4. d * Window >= 0
    BY QuotaAssumption
  <2> QED
    BY <1>1, <2>3, <2>4, QuotaAssumption, CallsAssumption
<1>3. v \in 0..m
  BY <1>1, <1>2
<1> QED
  BY <1>3 DEF v, m, Windows

(* Window indices are natural numbers. *)
LEMMA WindowsNat == Windows \subseteq Nat
  BY WindowBounds, CallsAssumption DEF Windows

(* Sets of counted calls are finite. *)
LEMMA CountedFinite ==
  ASSUME TypeOK, NEW first, NEW end
  PROVE  /\ IsFiniteSet(CountedIn(first, end))
         /\ Cardinality(CountedIn(first, end)) \in Nat
  BY FS_Subset, FS_CardinalityType, CallsAssumption DEF TypeOK, CountedIn

-------------------------------------------------------------------------------
(* A product grows with its first factor. *)
LEMMA ProductGrows ==
  ASSUME NEW a \in Nat, NEW b \in Nat, NEW k \in Nat, a <= b
  PROVE  a * k <= b * k /\ a * k \in Nat
<1>1. b = a + (b - a) /\ b - a \in Nat
  OBVIOUS
<1>2. PICK d \in Nat : b = a + d
  BY <1>1
<1>3. b * k = a * k + d * k /\ a * k \in Nat /\ d * k \in Nat
  BY <1>2
<1> QED
  BY <1>3

-------------------------------------------------------------------------------
(* The initial state satisfies the inductive invariant. *)
LEMMA InitIInv ==
  ASSUME NEW lives \in Nat \ {0}
  PROVE  Init => IInv(lives)
<1> SUFFICES ASSUME Init PROVE IInv(lives)
  OBVIOUS
<1>1. TypeOK /\ StampsPast
  BY CallsAssumption, QuotaAssumption
     DEF Init, CallsInit, TypeOK, CallsTypeOK, StampsPast, Phases, InFlight,
         Missing, ExpiryTimes
<1>2. ASSUME NEW w \in Windows PROVE MadeTimes(w, 0)
  <2>1. Admitted(w) = {} /\ counter[w].value = 0
    BY <1>2 DEF Init, Admitted, CountedIn, Missing
  <2>2. Cardinality(Admitted(w)) = 0
    BY <2>1, FS_EmptySet
  <2> QED
    BY <2>1, <2>2, QuotaAssumption DEF MadeTimes
<1>3. CountersCover(lives)
  <2>1. 0 \in 0..lives
    OBVIOUS
  <2> QED
    BY <1>2, <2>1 DEF CountersCover
<1> QED
  BY <1>1, <1>3 DEF IInv

(* A step that keeps the counters, the counted calls and their stamps      *)
(* keeps what the counters cover.                                          *)
LEMMA CoverageKept ==
  ASSUME NEW lives, CountersCover(lives), UNCHANGED <<counter, counted>>,
         \A r \in counted : stamp'[r] = stamp[r]
  PROVE  CountersCover(lives)'
<1>1. \A w : Admitted(w)' = Admitted(w)
  BY DEF Admitted, CountedIn
<1>2. \A w, n : MadeTimes(w, n)' = MadeTimes(w, n)
  BY <1>1 DEF MadeTimes
<1> QED
  BY <1>2 DEF CountersCover

(* A script that runs after its window's counter has expired n times is    *)
(* later than scripts are, unless n is below the number of lives.          *)
LEMMA TooLate ==
  ASSUME NEW lives \in Nat \ {0}, LivesSuffice(lives),
         NEW w \in Nat, NEW n \in 0..lives, NEW s \in Nat, NEW t \in Nat,
         s < (w + 1) * Window, t <= s + MaxLag, t >= (w + n) * Window + n
  PROVE  n < lives
<1> SUFFICES ASSUME n = lives PROVE FALSE
  OBVIOUS
<1>1. (w + lives) * Window = (w + 1) * Window + (lives - 1) * Window
  BY QuotaAssumption
<1>2. (w + 1) * Window \in Nat /\ (lives - 1) * Window \in Nat /\ MaxLag \in Nat
  BY QuotaAssumption, CallsAssumption
<1> QED
  BY <1>1, <1>2 DEF LivesSuffice

(* Running a script counts its call in the counter of its window, made     *)
(* once more if it had expired.                                            *)
LEMMA ScriptMakes ==
  ASSUME NEW lives \in Nat \ {0}, LivesSuffice(lives), IInv(lives),
         NEW r \in Requests, phase[r] \in InFlight,
         Script(r), UNCHANGED <<now, stamp>>
  PROVE  /\ counter' \in [Windows -> [value : Nat, expireAt : ExpiryTimes]]
         /\ counted' \subseteq Requests
         /\ CountersCover(lives)'
<1> DEFINE s == stamp[r]
           v == WindowOf(s)
           A == Admitted(v)
<1>1. /\ s \in 0..MaxNow /\ now \in 0..MaxNow /\ s <= now /\ now <= s + MaxLag
      /\ counted \subseteq Requests
      /\ counter \in [Windows -> [value : Nat, expireAt : ExpiryTimes]]
  BY DEF IInv, TypeOK, CallsTypeOK, StampsPast
<1>2. /\ v \in Windows /\ v \in Nat
      /\ v * Window <= s /\ s < (v + 1) * Window
  BY <1>1, WindowBounds, WindowInRange
<1>3. PICK n \in 0..lives : MadeTimes(v, n)
  BY <1>2 DEF IInv, CountersCover
<1>4. /\ counter[v].value \in Nat
      /\ counter[v].expireAt \in ExpiryTimes /\ counter[v].expireAt \in Nat
      /\ now \in Nat /\ now + Window \in ExpiryTimes
      /\ Limit \in Nat /\ Limit >= 1 /\ Window \in Nat
  BY <1>1, <1>2, CallsAssumption, QuotaAssumption DEF ExpiryTimes
<1>5. counter' = [counter EXCEPT ![v] = Incremented(s)]
  BY DEF Script
<1>6. /\ IsFiniteSet(A) /\ Cardinality(A) \in Nat
      /\ Admitted(v)' = IF Allows(s) THEN A \cup {r} ELSE A
  <2>1. IsFiniteSet(A) /\ Cardinality(A) \in Nat
    BY CountedFinite DEF IInv, Admitted
  <2>2. Admitted(v)' = IF Allows(s) THEN A \cup {r} ELSE A
    BY <1>2 DEF Admitted, CountedIn, Script
  <2> QED
    BY <2>1, <2>2
<1>7. /\ Cardinality(Admitted(v)') \in Nat
      /\ Cardinality(Admitted(v)') <= Cardinality(A) + IF Allows(s) THEN 1 ELSE 0
  <2> HIDE DEF A, s
  <2>1. Cardinality(A \cup {r}) = IF r \in A THEN Cardinality(A) ELSE Cardinality(A) + 1
    BY <1>6, FS_AddElement
  <2> QED
    BY <1>6, <2>1
<1> DEFINE alive == n > 0 /\ now <= counter[v].expireAt
(* A counter that is alive counts one more. *)
<1>8. ASSUME alive
      PROVE  /\ Incremented(s) \in [value : Nat, expireAt : ExpiryTimes]
             /\ \E m \in 0..lives : MadeTimes(v, m)'
  <2>1. /\ counter[v].value > 0
        /\ Cardinality(A) <= (n - 1) * Limit + counter[v].value
        /\ Cardinality(A) <= n * Limit
        /\ counter[v].expireAt >= (v + n) * Window + (n - 1)
    BY <1>3, <1>8 DEF MadeTimes
  <2>2. Count(s) = counter[v].value + 1 /\ Count(s) # 1 /\ Count(s) \in Nat
    BY <1>4, <1>8, <2>1 DEF Count, Live
  <2>3. /\ Incremented(s) = [value |-> counter[v].value + 1, expireAt |-> counter[v].expireAt]
        /\ Incremented(s) \in [value : Nat, expireAt : ExpiryTimes]
    BY <1>4, <2>2 DEF Incremented
  <2>4. counter'[v] = Incremented(s)
    BY <1>1, <1>2, <1>5
  <2>5. n * Limit = (n - 1) * Limit + Limit /\ (n - 1) * Limit \in Int
    BY <1>4
  <2>6. Cardinality(Admitted(v)') <= (n - 1) * Limit + (counter[v].value + 1)
    BY <1>4, <1>6, <1>7, <2>1, <2>5
  <2>7. Cardinality(Admitted(v)') <= n * Limit
    <3>1. CASE Allows(s)
      BY <1>4, <2>2, <2>5, <2>6, <1>7, <3>1 DEF Allows
    <3>2. CASE ~Allows(s)
      BY <1>6, <2>1, <3>2
    <3> QED
      BY <3>1, <3>2
  <2>8. MadeTimes(v, n)'
    BY <1>4, <1>8, <2>1, <2>3, <2>4, <2>6, <2>7 DEF MadeTimes
  <2> QED
    BY <1>3, <2>3, <2>8
(* One that is not is made again, later than the last time by a life. *)
<1>9. ASSUME ~alive
      PROVE  /\ Incremented(s) \in [value : Nat, expireAt : ExpiryTimes]
             /\ \E m \in 0..lives : MadeTimes(v, m)'
  <2>1. /\ Count(s) = 1
        /\ n < lives
        /\ now >= (v + n) * Window + n
    <3>1. CASE n = 0
      BY <1>1, <1>2, <1>3, <1>4, <3>1 DEF Count, Live, MadeTimes
    <3>2. CASE n # 0
      <4>1. ~(now <= counter[v].expireAt)
        BY <1>9, <3>2
      <4>2. counter[v].expireAt >= (v + n) * Window + (n - 1) /\ (v + n) * Window \in Nat
        BY <1>2, <1>3, <1>4, <3>2 DEF MadeTimes
      <4>3. now >= (v + n) * Window + n
        <5> DEFINE began == (v + n) * Window
        <5> HIDE DEF began
        <5>1. began \in Nat /\ counter[v].expireAt >= began + (n - 1)
          BY <4>2 DEF began
        <5>2. now >= began + n
          BY <1>4, <4>1, <5>1
        <5> QED
          BY <5>2 DEF began
      <4>4. s \in Nat /\ now \in Nat
        BY <1>1
      <4>5. n < lives
        BY <1>1, <1>2, <4>3, <4>4, TooLate
      <4> QED
        BY <4>1, <4>3, <4>5 DEF Count, Live
    <3> QED
      BY <3>1, <3>2
  <2>2. /\ Incremented(s) = [value |-> 1, expireAt |-> now + Window]
        /\ Incremented(s) \in [value : Nat, expireAt : ExpiryTimes]
    BY <1>4, <2>1 DEF Incremented
  <2>3. counter'[v] = Incremented(s)
    BY <1>1, <1>2, <1>5
  <2>4. Cardinality(A) <= n * Limit /\ n * Limit \in Nat
    BY <1>3, <1>4 DEF MadeTimes
  <2>5. Cardinality(Admitted(v)') <= n * Limit + 1
    BY <1>6, <1>7, <2>4
  <2>6. (n + 1) * Limit = n * Limit + Limit /\ ((n + 1) - 1) * Limit = n * Limit
    BY <1>4
  <2>7. now + Window >= (v + (n + 1)) * Window + ((n + 1) - 1)
    <3>1. (v + (n + 1)) * Window = (v + n) * Window + Window /\ (v + n) * Window \in Nat
      BY <1>2, <1>4
    <3> QED
      BY <1>1, <1>4, <2>1, <3>1
  <2>8. Cardinality(Admitted(v)') <= (n + 1) * Limit
    BY <1>4, <1>7, <2>4, <2>5, <2>6
  <2>9. MadeTimes(v, n + 1)'
    BY <2>2, <2>3, <2>5, <2>6, <2>7, <2>8 DEF MadeTimes
  <2>10. n + 1 \in 0..lives
    BY <2>1
  <2> QED
    BY <2>2, <2>9, <2>10
<1>10. /\ Incremented(s) \in [value : Nat, expireAt : ExpiryTimes]
       /\ \E m \in 0..lives : MadeTimes(v, m)'
  BY <1>8, <1>9
<1>11. counter' \in [Windows -> [value : Nat, expireAt : ExpiryTimes]]
  BY <1>1, <1>2, <1>5, <1>10
<1>12. counted' \subseteq Requests
  BY <1>1 DEF Script
(* The other windows and their counters are as before. *)
<1>13. ASSUME NEW w \in Windows, w # v, NEW m, MadeTimes(w, m)
       PROVE  MadeTimes(w, m)'
  <2>1. counter'[w] = counter[w]
    BY <1>1, <1>5, <1>13
  <2>2. ~(w * Window <= s /\ s < (w + 1) * Window)
    BY <1>1, <1>13, WindowUnique, WindowsNat
  <2>3. Admitted(w)' = Admitted(w)
    BY <2>2 DEF Admitted, CountedIn, Script
  <2> QED
    BY <1>13, <2>1, <2>3 DEF MadeTimes
<1>14. CountersCover(lives)'
  <2> SUFFICES ASSUME NEW w \in Windows PROVE \E m \in 0..lives : MadeTimes(w, m)'
    BY DEF CountersCover
  <2>1. CASE w = v
    BY <1>10, <2>1
  <2>2. CASE w # v
    BY <1>13, <2>2 DEF IInv, CountersCover
  <2> QED
    BY <2>1, <2>2
<1> QED
  BY <1>11, <1>12, <1>14

(* Every step preserves the inductive invariant. *)
LEMMA NextIInv ==
  ASSUME NEW lives \in Nat \ {0}, LivesSuffice(lives)
  PROVE  IInv(lives) /\ [Next]_vars => IInv(lives)'
<1> SUFFICES ASSUME IInv(lives), [Next]_vars
             PROVE  IInv(lives)'
  OBVIOUS
<1> USE CallsAssumption
<1>1. ASSUME NEW r \in Requests, Send(r), UNCHANGED <<counter, counted>>
      PROVE  IInv(lives)'
  <2>1. TypeOK' /\ StampsPast'
    BY <1>1 DEF IInv, TypeOK, CallsTypeOK, StampsPast, Send, Phases, InFlight
  <2>2. \A q \in counted : stamp'[q] = stamp[q]
    BY <1>1 DEF IInv, TypeOK, CallsTypeOK, StampsPast, Send
  <2> QED
    BY <1>1, <2>1, <2>2, CoverageKept DEF IInv
<1>2. ASSUME NEW r \in Requests, Decide(r) \/ LoseReply(r)
      PROVE  IInv(lives)'
  <2>1. /\ phase[r] \in InFlight /\ Script(r) /\ UNCHANGED <<now, stamp>>
        /\ phase' \in [Requests -> Phases]
        /\ \A q \in Requests : phase'[q] \in InFlight => phase[q] \in InFlight
        /\ \A q \in Requests : phase'[q] = "idle" => phase[q] = "idle"
        /\ phase'[r] # "idle"
    BY <1>2 DEF IInv, TypeOK, CallsTypeOK, Decide, LoseReply, Answer,
                ReplyLost, Phases, InFlight
  <2>2. /\ counter' \in [Windows -> [value : Nat, expireAt : ExpiryTimes]]
        /\ counted' \subseteq Requests
        /\ CountersCover(lives)'
    BY <2>1, ScriptMakes
  <2>3. TypeOK'
    BY <2>1, <2>2 DEF IInv, TypeOK, CallsTypeOK
  <2>4. StampsPast'
    BY <2>1, <2>2 DEF IInv, TypeOK, StampsPast, Script
  <2> QED
    BY <2>2, <2>3, <2>4 DEF IInv
<1>3. ASSUME NEW r \in Requests, Fail(r), UNCHANGED <<counter, counted>>
      PROVE  IInv(lives)'
  <2>1. TypeOK' /\ StampsPast'
    BY <1>3 DEF IInv, TypeOK, CallsTypeOK, StampsPast, Fail, Phases, InFlight
  <2> QED
    BY <1>3, <2>1, CoverageKept DEF IInv, Fail
<1>4. CASE Tick /\ UNCHANGED <<counter, counted>>
  <2>1. TypeOK' /\ StampsPast'
    BY <1>4 DEF IInv, TypeOK, CallsTypeOK, StampsPast, Tick
  <2> QED
    BY <1>4, <2>1, CoverageKept DEF IInv, Tick
<1>5. CASE Restart
  <2>1. TypeOK' /\ StampsPast'
    BY <1>5, QuotaAssumption
       DEF IInv, TypeOK, CallsTypeOK, StampsPast, Restart, callVars, Missing,
           ExpiryTimes
  <2>2. ASSUME NEW w \in Windows PROVE MadeTimes(w, 0)'
    <3>1. Admitted(w)' = {} /\ counter'[w].value = 0
      BY <1>5, <2>2 DEF Restart, Admitted, CountedIn, Missing
    <3>2. Cardinality(Admitted(w)') = 0
      BY <3>1, FS_EmptySet
    <3> QED
      BY <3>1, <3>2, QuotaAssumption DEF MadeTimes
  <2>3. 0 \in 0..lives
    OBVIOUS
  <2>4. CountersCover(lives)'
    BY <2>2, <2>3 DEF CountersCover
  <2> QED
    BY <2>1, <2>4 DEF IInv
<1>6. CASE UNCHANGED vars
  <2>1. TypeOK' /\ StampsPast'
    BY <1>6 DEF IInv, TypeOK, CallsTypeOK, StampsPast, vars, callVars
  <2> QED
    BY <1>6, <2>1, CoverageKept DEF IInv, vars, callVars
<1> QED
  BY <1>1, <1>2, <1>3, <1>4, <1>5, <1>6 DEF Next

-------------------------------------------------------------------------------
(* The inductive invariant holds in every reachable state. *)
THEOREM Inductive ==
  ASSUME NEW lives \in Nat \ {0}, LivesSuffice(lives)
  PROVE  Spec => []IInv(lives)
  BY InitIInv, NextIInv, PTL DEF Spec

(* A window admits up to the limit for every life of its counter, and a    *)
(* window the clock does not reach nothing.                                *)
LEMMA AdmittedBounded ==
  ASSUME NEW lives \in Nat \ {0}, IInv(lives), NEW w \in Nat
  PROVE  Cardinality(Admitted(w)) <= lives * Limit
<1>1. CASE w \in Windows
  <2>1. PICK n \in 0..lives : Cardinality(Admitted(w)) <= n * Limit
    BY <1>1 DEF IInv, CountersCover, MadeTimes
  <2>2. n * Limit <= lives * Limit /\ n * Limit \in Nat /\ lives * Limit \in Nat
    BY ProductGrows, QuotaAssumption
  <2>3. Cardinality(Admitted(w)) \in Nat
    BY CountedFinite DEF IInv, Admitted
  <2> QED
    BY <2>1, <2>2, <2>3
<1>2. CASE w \notin Windows
  <2>1. ASSUME NEW r \in Admitted(w) PROVE FALSE
    <3>1. /\ stamp[r] \in 0..MaxNow
          /\ w * Window <= stamp[r] /\ stamp[r] < (w + 1) * Window
      BY DEF Admitted, CountedIn, IInv, TypeOK, CallsTypeOK
    <3>2. w = WindowOf(stamp[r])
      BY <3>1, WindowUnique
    <3> QED
      BY <1>2, <3>1, <3>2, WindowInRange
  <2>2. Admitted(w) = {}
    BY <2>1
  <2>3. 0 <= lives * Limit
    BY QuotaAssumption
  <2> QED
    BY <2>2, <2>3, FS_EmptySet
<1> QED
  BY <1>1, <1>2

(* An aligned window never admits more than its limit for every counter    *)
(* that scripts as late as MaxLag can make for it, whatever the order,     *)
(* repetition or loss of calls.                                            *)
THEOREM LateWindowLimit ==
  ASSUME NEW lives \in Nat \ {0}, LivesSuffice(lives)
  PROVE  Spec => [](\A w \in Windows :
                      Cardinality(CountedIn(w * Window, (w + 1) * Window)) <= lives * Limit)
<1>1. IInv(lives) => \A w \in Windows :
        Cardinality(CountedIn(w * Window, (w + 1) * Window)) <= lives * Limit
  BY AdmittedBounded, WindowsNat DEF Admitted
<1> QED
  BY <1>1, Inductive, PTL

(* Prompt scripts are the ones for which one life suffices. *)
LEMMA PromptIsOneLife == PromptScripts <=> LivesSuffice(1)
  BY QuotaAssumption, CallsAssumption DEF PromptScripts, LivesSuffice

LEMMA PromptInductive ==
  ASSUME PromptScripts
  PROVE  Spec => []IInv(1)
<1>1. LivesSuffice(1) /\ 1 \in Nat \ {0}
  BY PromptIsOneLife
<1>2. Init => IInv(1)
  BY <1>1, InitIInv
<1>3. IInv(1) /\ [Next]_vars => IInv(1)'
  BY <1>1, NextIInv
<1> QED
  BY <1>2, <1>3, PTL DEF Spec

(* An aligned window never admits more than its limit, whatever the order, *)
(* repetition or loss of calls, if scripts are prompt.                     *)
THEOREM WindowLimit == Spec => []WindowRespectsLimit
<1>1. CASE PromptScripts
  <2>1. IInv(1) => WindowRespectsLimit
    <3>1. 1 * Limit = Limit /\ 1 \in Nat \ {0}
      BY QuotaAssumption
    <3> QED
      BY <3>1, AdmittedBounded, WindowsNat DEF Admitted, WindowRespectsLimit
  <2> QED
    BY <1>1, <2>1, PromptInductive, PTL
<1>2. CASE ~PromptScripts
  <2>1. TRUE => WindowRespectsLimit
    BY <1>2 DEF WindowRespectsLimit
  <2> QED
    BY <2>1, PTL
<1> QED
  BY <1>1, <1>2

(* Any stretch of one window's length meets two aligned windows at most.   *)
LEMMA TwoWindows ==
  ASSUME NEW lives \in Nat \ {0}, IInv(lives), NEW t \in 0..MaxNow
  PROVE  Cardinality(CountedIn(t, t + Window)) <= 2 * (lives * Limit)
<1> DEFINE v == WindowOf(t)
           A == Admitted(v)
           B == Admitted(v + 1)
           C == CountedIn(t, t + Window)
<1>1. /\ v \in Windows /\ v \in Nat
      /\ v * Window <= t /\ t < (v + 1) * Window
      /\ (v + 1) * Window + Window = (v + 2) * Window
      /\ (v + 1) * Window \in Nat
  BY WindowBounds, WindowInRange, QuotaAssumption
<1>2. \A r \in counted : stamp[r] \in 0..MaxNow
  BY DEF IInv, TypeOK, CallsTypeOK
<1>3. C \subseteq A \cup B
  <2> SUFFICES ASSUME NEW r \in C PROVE r \in A \/ r \in B
    OBVIOUS
  <2>1. r \in counted /\ t <= stamp[r] /\ stamp[r] < t + Window
    BY DEF CountedIn
  <2>2. stamp[r] \in Nat /\ stamp[r] < (v + 2) * Window
    BY <1>1, <1>2, <2>1, QuotaAssumption
  <2>3. (v + 1) + 1 = v + 2 /\ v * Window \in Nat
    BY <1>1, QuotaAssumption
  <2> HIDE DEF v
  <2>4. CASE stamp[r] < (v + 1) * Window
    BY <1>1, <2>1, <2>2, <2>3, <2>4 DEF Admitted, CountedIn
  <2>5. CASE ~(stamp[r] < (v + 1) * Window)
    BY <1>1, <2>1, <2>2, <2>3, <2>5 DEF Admitted, CountedIn
  <2> QED
    BY <2>4, <2>5
<1>4. /\ IsFiniteSet(A) /\ Cardinality(A) \in Nat
      /\ IsFiniteSet(B) /\ Cardinality(B) \in Nat
      /\ IsFiniteSet(C) /\ Cardinality(C) \in Nat
  BY CountedFinite DEF IInv, Admitted
<1>5. /\ Cardinality(A) <= lives * Limit /\ Cardinality(B) <= lives * Limit
      /\ lives * Limit \in Nat
  BY <1>1, AdmittedBounded, QuotaAssumption
<1> HIDE DEF A, B, C
<1>7. /\ IsFiniteSet(A \cup B) /\ Cardinality(A \cap B) \in Nat
      /\ Cardinality(A \cup B) = Cardinality(A) + Cardinality(B)
                                   - Cardinality(A \cap B)
  BY <1>4, FS_Union, FS_Intersection, FS_CardinalityType
<1>8. Cardinality(C) <= Cardinality(A \cup B)
  BY <1>3, <1>7, FS_Subset
<1>9. Cardinality(C) <= 2 * (lives * Limit)
  BY <1>4, <1>5, <1>7, <1>8
<1> QED
  BY <1>9 DEF C

(* No stretch of one window's length admits more than twice that: what     *)
(* lateness makes of the documented worst case.                            *)
THEOREM LateTwiceLimit ==
  ASSUME NEW lives \in Nat \ {0}, LivesSuffice(lives)
  PROVE  Spec => [](\A t \in 0..MaxNow :
                      Cardinality(CountedIn(t, t + Window)) <= 2 * (lives * Limit))
<1>1. IInv(lives) => \A t \in 0..MaxNow :
        Cardinality(CountedIn(t, t + Window)) <= 2 * (lives * Limit)
  BY TwoWindows
<1> QED
  BY <1>1, Inductive, PTL

(* With prompt scripts the documented worst case is right: no stretch of   *)
(* one window's length admits more than twice the limit.                   *)
THEOREM TwiceLimit ==
  ASSUME PromptScripts
  PROVE  Spec => []AtMostTwiceLimit
<1>1. IInv(1) => AtMostTwiceLimit
  <2>1. 1 * Limit = Limit /\ 1 \in Nat \ {0}
    BY QuotaAssumption
  <2> QED
    BY <2>1, TwoWindows DEF AtMostTwiceLimit
<1> QED
  BY <1>1, PromptInductive, PTL

(* Every counter stays a number with an expiry the clock can reach,        *)
(* however late the scripts: so many lives always suffice.                 *)
THEOREM TypeCorrect == Spec => []TypeOK
<1>1. LivesSuffice(MaxLag + 1) /\ MaxLag + 1 \in Nat \ {0}
  <2>1. MaxLag * Window >= 0 /\ (MaxLag + 1) - 1 = MaxLag /\ MaxLag \in Nat
    BY CallsAssumption, QuotaAssumption
  <2>2. MaxLag * Window \in Nat
    BY CallsAssumption, QuotaAssumption
  <2> QED
    BY <2>1, <2>2 DEF LivesSuffice
<1>2. /\ Init => IInv(MaxLag + 1)
      /\ IInv(MaxLag + 1) /\ [Next]_vars => IInv(MaxLag + 1)'
  BY <1>1, InitIInv, NextIInv
<1>3. IInv(MaxLag + 1) => TypeOK
  BY DEF IInv
<1> QED
  BY <1>2, <1>3, PTL DEF Spec
===============================================================================
