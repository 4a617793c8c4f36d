---------------------------- MODULE ConsoleProofs ----------------------------
(***************************************************************************)
(* Proofs of Console's safety properties for any number of flood loops,    *)
(* any bursts, identities and bounds of the dot grid and the log.          *)
(*                                                                         *)
(* The burst is in order because it has one request at most anywhere on    *)
(* its way.  The log mirrors the dots because both lose only what is       *)
(* oldest, and the log keeps no more rows than the grid keeps dots.        *)
(***************************************************************************)
EXTENDS Console, SequenceTheorems, TLAPS

OfBurst(r) == r.from = "burst"

(* Of a burst at most one request is on its way, and while its buttons are *)
(* enabled none; while disabled, some of it is left.                       *)
OneAtATime ==
  /\ disabled => left > 0
  /\ \A i, j \in 1..Len(decided) : OfBurst(decided[i]) /\ OfBurst(decided[j]) => i = j
  /\ \A r, q \in asked : OfBurst(r) /\ OfBurst(q) => r = q
  /\ \A r \in asked : OfBurst(r) => \A i \in 1..Len(decided) : ~OfBurst(decided[i])
  /\ ~disabled => /\ \A r \in asked : ~OfBurst(r)
                  /\ \A i \in 1..Len(decided) : ~OfBurst(decided[i])

IInv == TypeOK /\ OneAtATime

-------------------------------------------------------------------------------
LEMMA RemoveAtProperties ==
  ASSUME NEW S, NEW s \in Seq(S), NEW i \in 1..Len(s)
  PROVE  /\ RemoveAt(s, i) \in Seq(S)
         /\ Len(RemoveAt(s, i)) = Len(s) - 1
         /\ \A j \in 1..(Len(s) - 1) :
              RemoveAt(s, i)[j] = IF j < i THEN s[j] ELSE s[j + 1]
<1> DEFINE a == SubSeq(s, 1, i - 1)
           b == SubSeq(s, i + 1, Len(s))
           n == Len(s)
<1>1. n \in Nat /\ i \in 1..n /\ \A j \in 1..n : s[j] \in S
  OBVIOUS
<1>2. /\ a \in Seq(S) /\ Len(a) = i - 1
      /\ \A j \in 1..(i - 1) : a[j] = s[j]
  <2>1. \A j \in 1..(i - 1) : s[j] \in S
    BY <1>1
  <2>2. /\ a \in Seq(S)
        /\ Len(a) = IF 1 <= i - 1 THEN (i - 1) - 1 + 1 ELSE 0
        /\ \A j \in 1..((i - 1) - 1 + 1) : a[j] = s[1 + j - 1]
    BY <1>1, <2>1, SubSeqProperties
  <2> QED BY <1>1, <2>2
<1>3. /\ b \in Seq(S) /\ Len(b) = n - i
      /\ \A j \in 1..(n - i) : b[j] = s[i + j]
  <2>1. \A j \in (i + 1)..n : s[j] \in S
    BY <1>1
  <2>2. /\ b \in Seq(S)
        /\ Len(b) = IF i + 1 <= n THEN n - (i + 1) + 1 ELSE 0
        /\ \A j \in 1..(n - (i + 1) + 1) : b[j] = s[(i + 1) + j - 1]
    BY <1>1, <2>1, SubSeqProperties
  <2> QED BY <1>1, <2>2
<1> HIDE DEF a, b
<1>4. /\ a \o b \in Seq(S)
      /\ Len(a \o b) = Len(a) + Len(b)
      /\ \A j \in 1..(Len(a) + Len(b)) :
           (a \o b)[j] = IF j <= Len(a) THEN a[j] ELSE b[j - Len(a)]
  BY <1>2, <1>3, ConcatProperties
<1>5. RemoveAt(s, i) = a \o b
  BY DEF RemoveAt, a, b
<1>6. Len(a) + Len(b) = n - 1
  BY <1>1, <1>2, <1>3
<1>7. ASSUME NEW j \in 1..(n - 1)
      PROVE  (a \o b)[j] = IF j < i THEN s[j] ELSE s[j + 1]
  <2>1. CASE j < i
    BY <1>1, <1>2, <1>4, <1>6, <2>1
  <2>2. CASE ~(j < i)
    <3>1. j - (i - 1) \in 1..(n - i) /\ i + (j - (i - 1)) = j + 1
      BY <1>1, <2>2
    <3>2. (a \o b)[j] = b[j - (i - 1)]
      BY <1>1, <1>2, <1>4, <1>6, <2>2
    <3> QED BY <1>3, <2>2, <3>1, <3>2
  <2> QED BY <2>1, <2>2
<1> QED BY <1>4, <1>5, <1>6, <1>7

(* The longest burst is one of the buttons'. *)
LEMMA LongestBurst ==
  /\ Longest \in BurstSizes /\ Longest \in Nat \ {0}
  /\ \A k \in BurstSizes : k \in 1..Longest
<1>1. Longest \in BurstSizes /\ \A j \in BurstSizes : j <= Longest
  BY ButtonsAssumption, Zenon DEF Longest
<1> QED BY <1>1, ConsoleAssumption

LEMMA InitIInv == Init => IInv
<1> SUFFICES ASSUME Init PROVE IInv
  OBVIOUS
<1>1. /\ decided \in Seq(Requests) /\ Len(decided) = 0
      /\ dots \in Seq(Dots) /\ Len(dots) = 0
      /\ log \in Seq(Rows) /\ Len(log) = 0
  BY EmptySeq DEF Init
<1>2. left = 0 /\ asked = {}
  BY DEF Init
<1>3. identity \in Identities
  <2>1. "anonymous" \in Identities
    BY ConsoleAssumption
  <2> QED BY <2>1 DEF Init
<1>4. 0 <= MaxDots /\ 0 <= MaxRows /\ 0 \in 0..Longest
  BY ConsoleAssumption, LongestBurst
<1>5. /\ loop \in [Floods -> {"none", "asking", "paused"}]
      /\ flooding = FALSE /\ disabled = FALSE /\ status \in Statuses /\ badge \in Badges
  BY DEF Init, Statuses, Badges
<1>6. TypeOK
  BY <1>1, <1>2, <1>3, <1>4, <1>5 DEF TypeOK
<1>7. OneAtATime
  BY <1>1, <1>2, <1>5 DEF OneAtATime
<1> QED BY <1>6, <1>7 DEF IInv

(* A request that is sent is the visitor's at that time. *)
LEMMA RequestShape ==
  ASSUME TypeOK, NEW from \in Floods \cup {"burst"}, NEW n \in 0..Longest
  PROVE  Request(from, n) \in Requests /\ Request(from, n).from = from
  BY DEF TypeOK, Request, Requests

(* The grid and the log keep their shapes when an answer is recorded. *)
LEMMA RecordShapes ==
  ASSUME TypeOK, NEW outcome \in Outcomes, AppendDot(outcome), AppendLog(outcome)
  PROVE  /\ dots' \in Seq(Dots) /\ Len(dots') <= MaxDots
         /\ Len(dots') = IF Len(dots) < MaxDots THEN Len(dots) + 1 ELSE MaxDots
         /\ dots'[Len(dots')] = Dot(outcome)
         /\ \A k \in 1..(Len(dots') - 1) :
              dots'[Len(dots') - k] = dots[Len(dots) + 1 - k]
         /\ log' \in Seq(Rows) /\ Len(log') <= MaxRows
         /\ Len(log') = IF Len(log) < MaxRows THEN Len(log) + 1 ELSE MaxRows
         /\ log'[1].dot = Dot(outcome)
         /\ \A k \in 1..(Len(log') - 1) : log'[k + 1] = log[k]
<1> USE DEF TypeOK
<1>1. Dot(outcome) \in Dots /\ Detail(outcome) \in Details
  BY DEF Outcomes, Dots, Details, Dot, Detail
<1>2. MaxDots \in Nat /\ MaxRows \in Nat /\ MaxRows >= 1 /\ MaxDots >= 1
  BY ConsoleAssumption
<1>3. Len(dots) \in Nat /\ Len(log) \in Nat
  OBVIOUS
<1> DEFINE all == Append(dots, Dot(outcome))
<1>4. /\ all \in Seq(Dots) /\ all # <<>>
      /\ Len(all) = Len(dots) + 1
      /\ \A i \in 1..Len(dots) : all[i] = dots[i]
      /\ all[Len(dots) + 1] = Dot(outcome)
  BY <1>1, AppendProperties
<1>5. dots' = IF Len(all) > MaxDots THEN Tail(all) ELSE all
  BY DEF AppendDot
<1> HIDE DEF all
<1>6. /\ dots' \in Seq(Dots) /\ Len(dots') <= MaxDots
      /\ Len(dots') = IF Len(dots) < MaxDots THEN Len(dots) + 1 ELSE MaxDots
      /\ dots'[Len(dots')] = Dot(outcome)
      /\ \A k \in 1..(Len(dots') - 1) :
           dots'[Len(dots') - k] = dots[Len(dots) + 1 - k]
  <2>1. CASE Len(all) > MaxDots
    <3>1. Len(dots) = MaxDots
      BY <1>2, <1>3, <1>4, <2>1
    <3>2. /\ dots' \in Seq(Dots) /\ Len(dots') = Len(all) - 1
          /\ \A i \in 1..Len(dots') : dots'[i] = all[i + 1]
      BY <1>4, <1>5, <2>1, HeadTailProperties
    <3>3. Len(dots') = MaxDots
      BY <1>2, <1>4, <3>1, <3>2
    <3>4. dots'[MaxDots] = all[MaxDots + 1]
      BY <1>2, <3>2, <3>3
    <3>5. ASSUME NEW k \in 1..(MaxDots - 1)
          PROVE  dots'[MaxDots - k] = dots[MaxDots + 1 - k]
      <4>1. MaxDots - k \in 1..MaxDots /\ (MaxDots - k) + 1 = MaxDots + 1 - k
            /\ MaxDots + 1 - k \in 1..MaxDots
        BY <1>2
      <4>2. dots'[MaxDots - k] = all[(MaxDots - k) + 1]
        BY <3>2, <3>3, <4>1
      <4> QED BY <1>4, <3>1, <4>1, <4>2
    <3> QED BY <1>2, <1>4, <3>1, <3>2, <3>3, <3>4, <3>5
  <2>2. CASE ~(Len(all) > MaxDots)
    <3>1. dots' = all /\ Len(dots') = Len(dots) + 1 /\ Len(dots) < MaxDots
      BY <1>2, <1>3, <1>4, <1>5, <2>2
    <3>2. ASSUME NEW k \in 1..Len(dots)
          PROVE  all[(Len(dots) + 1) - k] = dots[Len(dots) + 1 - k]
      <4> DEFINE i == Len(dots) + 1 - k
      <4>1. i \in 1..Len(dots)
        BY <1>3
      <4>2. all[i] = dots[i]
        <5> HIDE DEF i
        <5> QED BY <1>4, <4>1
      <4> QED BY <4>2
    <3>3. \A k \in 1..(Len(dots') - 1) :
            dots'[Len(dots') - k] = dots[Len(dots) + 1 - k]
      BY <1>3, <3>1, <3>2
    <3>4. dots'[Len(dots')] = Dot(outcome)
      BY <1>4, <3>1
    <3> QED BY <1>2, <1>3, <1>4, <3>1, <3>3, <3>4
  <2> QED BY <2>1, <2>2
<1> DEFINE row == [dot |-> Dot(outcome), detail |-> Detail(outcome)]
           both == <<row>> \o log
           m == IF Len(log) < MaxRows THEN Len(log) + 1 ELSE MaxRows
<1>7. row \in Rows /\ row.dot = Dot(outcome)
  BY <1>1 DEF Rows
<1>8. log' = SubSeq(both, 1, m)
  BY DEF AppendLog
<1> HIDE DEF row
<1>9. <<row>> \in Seq(Rows) /\ Len(<<row>>) = 1 /\ <<row>>[1] = row
  BY <1>7
<1>10. /\ both \in Seq(Rows) /\ Len(both) = 1 + Len(log)
       /\ \A i \in 1..(1 + Len(log)) : both[i] = IF i <= 1 THEN <<row>>[i] ELSE log[i - 1]
  BY <1>9, ConcatProperties
<1> HIDE DEF both
<1>11. m \in 1..(1 + Len(log))
  BY <1>2, <1>3
<1> HIDE DEF m
<1>12. \A i \in 1..m : both[i] \in Rows
  BY <1>3, <1>10, <1>11
<1>13. /\ log' \in Seq(Rows) /\ Len(log') = m
       /\ \A i \in 1..m : log'[i] = both[i]
  <2>1. /\ SubSeq(both, 1, m) \in Seq(Rows)
        /\ Len(SubSeq(both, 1, m)) = IF 1 <= m THEN m - 1 + 1 ELSE 0
        /\ \A i \in 1..(m - 1 + 1) : SubSeq(both, 1, m)[i] = both[1 + i - 1]
    BY <1>3, <1>11, <1>12, SubSeqProperties
  <2> QED BY <1>3, <1>8, <1>11, <2>1
<1>14. log'[1] = row
  BY <1>3, <1>9, <1>10, <1>11, <1>13
<1>15. ASSUME NEW k \in 1..(m - 1)
       PROVE  log'[k + 1] = log[k]
  BY <1>3, <1>10, <1>11, <1>13
<1>16. m = IF Len(log) < MaxRows THEN Len(log) + 1 ELSE MaxRows
  BY DEF m
<1>17. Len(log') <= MaxRows
  BY <1>2, <1>3, <1>13, <1>16
<1> QED BY <1>6, <1>7, <1>13, <1>14, <1>15, <1>16, <1>17

-------------------------------------------------------------------------------
(* The burst keeps to one request at a time. *)

(* A step that sends what is not the burst's, or nothing. *)
LEMMA BesideBurst ==
  ASSUME IInv, TypeOK', UNCHANGED <<left, disabled, decided>>,
         \A r \in asked' : r \in asked \/ ~OfBurst(r)
  PROVE  OneAtATime'
  BY DEF IInv, OneAtATime, OfBurst

LEMMA SendBurstIInv ==
  ASSUME IInv, NEW k \in BurstSizes, SendBurst(k)
  PROVE  IInv'
<1>1. k \in 1..Longest /\ k \in 0..Longest /\ Request("burst", k) \in Requests
  <2>1. k \in 1..Longest /\ k \in 0..Longest
    BY LongestBurst
  <2> QED BY <2>1, RequestShape DEF IInv
<1>2. /\ asked' = asked \cup {Request("burst", k)} /\ left' = k
      /\ disabled' = TRUE /\ ~disabled
      /\ UNCHANGED <<identity, flooding, loop, decided, status, badge, dots, log>>
  BY DEF SendBurst, First, shown
<1>3. TypeOK'
  BY <1>1, <1>2 DEF IInv, TypeOK
<1>4. left' > 0
  <2>1. k > 0
    BY <1>1, LongestBurst
  <2> QED BY <1>2, <2>1
<1>5. OneAtATime'
  BY <1>2, <1>4 DEF IInv, OneAtATime
<1> QED BY <1>3, <1>5 DEF IInv

LEMMA AnswerIInv ==
  ASSUME IInv, NEW r, Answer(r)
  PROVE  IInv'
<1>1. /\ r \in asked /\ r \in Requests /\ asked' = asked \ {r}
      /\ decided' = Append(decided, r)
      /\ UNCHANGED <<identity, flooding, loop, left, disabled, status, badge, dots, log>>
  BY DEF Answer, shown, IInv, TypeOK
<1>2. /\ decided' \in Seq(Requests) /\ Len(decided') = Len(decided) + 1
      /\ \A i \in 1..Len(decided) : decided'[i] = decided[i]
      /\ decided'[Len(decided) + 1] = r
      /\ Len(decided) \in Nat
  BY <1>1, AppendProperties DEF IInv, TypeOK
<1>3. TypeOK'
  BY <1>1, <1>2 DEF IInv, TypeOK
<1>4. \A i \in 1..Len(decided') :
        \/ i \in 1..Len(decided) /\ decided'[i] = decided[i]
        \/ i = Len(decided) + 1 /\ decided'[i] = r
  BY <1>2
<1>5. OneAtATime'
  BY <1>1, <1>2, <1>4 DEF IInv, OneAtATime
<1> QED BY <1>3, <1>5 DEF IInv

LEMMA RecordIInv ==
  ASSUME IInv, NEW i \in 1..Len(decided), NEW outcome \in Outcomes,
         Record(i, outcome)
  PROVE  IInv'
<1> DEFINE r == decided[i]
<1>1. /\ decided' \in Seq(Requests) /\ Len(decided') = Len(decided) - 1
      /\ \A j \in 1..(Len(decided) - 1) :
           decided'[j] = IF j < i THEN decided[j] ELSE decided[j + 1]
      /\ Len(decided) \in Nat /\ r \in Requests
  <2>1. /\ decided \in Seq(Requests) /\ decided' = RemoveAt(decided, i)
        /\ Len(decided) \in Nat /\ r \in Requests
    BY DEF Record, IInv, TypeOK
  <2> QED BY <2>1, RemoveAtProperties
<1>2. /\ dots' \in Seq(Dots) /\ Len(dots') <= MaxDots
      /\ log' \in Seq(Rows) /\ Len(log') <= MaxRows
      /\ UNCHANGED <<identity, flooding>>
  BY RecordShapes DEF Record, IInv
<1>shown. status' \in Statuses /\ badge' \in Badges
  <2>1. UpdateMeter(r, outcome) /\ TypeOK
    BY DEF Record, IInv
  <2> HIDE DEF r
  <2>2. status \in Statuses /\ badge \in Badges
    BY <2>1 DEF TypeOK
  <2>3. DescribeTier(HeaderLimit(r.tier)) \in Badges
    BY DEF DescribeTier, Badges
  <2> QED BY <2>1, <2>2, <2>3 DEF UpdateMeter, Statuses
<1> DEFINE From(j) == IF j < i THEN j ELSE j + 1
<1>3. ASSUME NEW j \in 1..Len(decided')
      PROVE  /\ From(j) \in 1..Len(decided) /\ From(j) # i
             /\ decided'[j] = decided[From(j)]
  BY <1>1
<1>4. ASSUME NEW j \in 1..Len(decided'), NEW k \in 1..Len(decided'), From(j) = From(k)
      PROVE  j = k
  BY <1>1, <1>4
<1> HIDE DEF From
<1>5. \A j, k \in 1..Len(decided') :
        OfBurst(decided'[j]) /\ OfBurst(decided'[k]) => j = k
  BY <1>3, <1>4 DEF IInv, OneAtATime
<1>6. CASE r.from = "burst"
  <2>1. /\ left' = left - 1 /\ disabled' = (left' > 0)
        /\ asked' = IF left' > 0 THEN asked \cup {Request("burst", left')} ELSE asked
    BY <1>6 DEF Record, Continue
  <2>2. left \in 1..Longest
    <3>1. disabled
      BY <1>1, <1>6 DEF IInv, OneAtATime, OfBurst
    <3> QED BY <3>1, LongestBurst DEF IInv, TypeOK, OneAtATime
  <2>3. left' \in 0..Longest /\ Request("burst", left') \in Requests
    <3>1. left' \in 0..Longest /\ left - 1 \in 0..Longest
      BY <2>1, <2>2, LongestBurst
    <3>2. Request("burst", left - 1) \in Requests
      BY <3>1, RequestShape DEF IInv
    <3> QED BY <2>1, <3>1, <3>2
  <2>4. /\ \A q \in asked : ~OfBurst(q)
        /\ \A j \in 1..Len(decided') : ~OfBurst(decided'[j])
    BY <1>3, <1>6 DEF IInv, OneAtATime, OfBurst
  <2>5. loop' = loop
    BY <1>6 DEF Record, Continue
  <2>6. TypeOK'
    BY <1>1, <1>2, <1>shown, <2>1, <2>3, <2>5 DEF IInv, TypeOK
  <2>7. OneAtATime'
    BY <1>5, <2>1, <2>4 DEF OneAtATime
  <2> QED BY <2>6, <2>7 DEF IInv
<1>7. CASE r.from # "burst"
  <2>1. UNCHANGED <<left, disabled, asked>>
        /\ loop' = [loop EXCEPT ![r.from] = "paused"]
    BY <1>7 DEF Record, Continue
  <2>2. TypeOK'
    BY <1>1, <1>2, <1>shown, <2>1 DEF IInv, TypeOK
  <2>3. OneAtATime'
    BY <1>3, <1>5, <2>1 DEF IInv, OneAtATime
  <2> QED BY <2>2, <2>3 DEF IInv
<1> QED BY <1>6, <1>7

LEMMA StepIInv == IInv /\ [Next]_vars => IInv'
<1> SUFFICES ASSUME IInv, [Next]_vars PROVE IInv'
  OBVIOUS
<1>1. CASE \E i \in Identities : ChooseIdentity(i)
  <2>1. TypeOK' /\ UNCHANGED <<left, disabled, decided, asked>>
    BY <1>1 DEF IInv, TypeOK, ChooseIdentity, shown
  <2> QED BY <2>1, BesideBurst DEF IInv
<1>2. ASSUME NEW f \in Floods, StartFlood(f) \/ Wake(f)
      PROVE  IInv'
  <2>1. /\ asked' \subseteq asked \cup {Request(f, 0)}
        /\ flooding' \in BOOLEAN
        /\ \E w \in {"none", "asking"} : loop' = [loop EXCEPT ![f] = w]
        /\ UNCHANGED <<identity, left, disabled, decided, status, badge, dots, log>>
    BY <1>2 DEF StartFlood, Wake, shown, IInv, TypeOK
  <2>2. /\ Request(f, 0) \in Requests /\ Request(f, 0).from = f
        /\ f # "burst"
    <3>1. 0 \in 0..Longest
      BY LongestBurst
    <3> QED BY <3>1, RequestShape, ConsoleAssumption DEF IInv
  <2>3. TypeOK'
    BY <2>1, <2>2 DEF IInv, TypeOK
  <2>4. ~OfBurst(Request(f, 0))
    BY <2>2 DEF OfBurst
  <2> QED BY <2>1, <2>3, <2>4, BesideBurst DEF IInv
<1>3. CASE StopFlood \/ UNCHANGED vars
  <2>1. /\ flooding' \in BOOLEAN
        /\ UNCHANGED <<identity, loop, left, disabled, decided, asked,
                       status, badge, dots, log>>
    BY <1>3 DEF StopFlood, vars, shown, IInv, TypeOK
  <2> QED BY <2>1, BesideBurst DEF IInv, TypeOK
<1>4. CASE ClearLog
  <2>1. /\ UNCHANGED <<identity, flooding, loop, left, disabled, decided, asked,
                       status, badge>>
        /\ dots' \in Seq(Dots) /\ Len(dots') = 0 /\ log' \in Seq(Rows)
        /\ Len(log') = 0
    BY <1>4, EmptySeq DEF ClearLog
  <2>2. 0 <= MaxDots /\ 0 <= MaxRows
    BY ConsoleAssumption
  <2> QED BY <2>1, <2>2, BesideBurst DEF IInv, TypeOK
<1> QED
  BY <1>1, <1>2, <1>3, <1>4, SendBurstIInv, AnswerIInv, RecordIInv, LenProperties
     DEF Next, Visit, AnswerFrom, RecordFrom, IInv, TypeOK

THEOREM Inductive == Spec => []IInv
  BY InitIInv, StepIInv, PTL DEF Spec

(* A burst counts down from its button's number to 0 and never past it,    *)
(* and neither the grid nor the log grows past its bound (app.js 92-105,   *)
(* 206-246).                                                               *)
THEOREM TypeCorrect == Spec => []TypeOK
  BY Inductive, PTL DEF IInv

(* No answer of a burst overtakes another of the burst, whatever flood     *)
(* loops run beside it and whatever the order in which their answers come  *)
(* back (app.js 92-105): the page has at most one of them to record.       *)
THEOREM BurstInOrder == Spec => InLimiterOrder
<1>1. ASSUME IInv, NEW i \in DOMAIN decided, decided[i].from = "burst",
             NEW j \in 1..(i - 1)
      PROVE  decided[j].from # "burst"
  <2>1. /\ DOMAIN decided = 1..Len(decided) /\ Len(decided) \in Nat
    BY LenProperties DEF IInv, TypeOK
  <2>2. i \in 1..Len(decided) /\ j \in 1..Len(decided) /\ i # j
    BY <1>1, <2>1
  <2> QED BY <1>1, <2>2 DEF IInv, OneAtATime, OfBurst
<1>2. IInv => [\A i \in DOMAIN decided :
                 decided' = RemoveAt(decided, i) /\ decided[i].from = "burst" =>
                   \A j \in 1..(i - 1) : decided[j].from # "burst"]_vars
  BY <1>1
<1> QED BY <1>2, Inductive, PTL DEF InLimiterOrder

-------------------------------------------------------------------------------
LEMMA InitMirrors == Init => LogMirrorsDots
<1> SUFFICES ASSUME Init PROVE LogMirrorsDots
  OBVIOUS
<1>1. Len(log) = 0 /\ Len(dots) = 0
  BY EmptySeq DEF Init
<1>2. MaxRows \in Nat /\ MaxRows > 0
  BY ConsoleAssumption
<1> QED BY <1>1, <1>2 DEF LogMirrorsDots

LEMMA RecordMirrors ==
  ASSUME IInv, LogMirrorsDots, NEW outcome \in Outcomes,
         AppendDot(outcome), AppendLog(outcome)
  PROVE  LogMirrorsDots'
<1> DEFINE d == Len(dots)
           n == Len(log)
<1>1. /\ d \in Nat /\ n \in Nat /\ d <= MaxDots
      /\ MaxDots \in Nat /\ MaxRows \in Nat /\ 1 <= MaxRows /\ MaxRows <= MaxDots
  BY ConsoleAssumption DEF IInv, TypeOK
<1>2. /\ n = IF d < MaxRows THEN d ELSE MaxRows
      /\ \A k \in 1..n : log[k].dot = dots[d + 1 - k]
  BY DEF LogMirrorsDots
<1>3. /\ Len(dots') = IF d < MaxDots THEN d + 1 ELSE MaxDots
      /\ dots'[Len(dots')] = Dot(outcome)
      /\ \A k \in 1..(Len(dots') - 1) : dots'[Len(dots') - k] = dots[d + 1 - k]
      /\ Len(log') = IF n < MaxRows THEN n + 1 ELSE MaxRows
      /\ log'[1].dot = Dot(outcome)
      /\ \A k \in 1..(Len(log') - 1) : log'[k + 1] = log[k]
  BY RecordShapes DEF IInv
<1> DEFINE e == Len(dots')
           m == Len(log')
<1> HIDE DEF d, n
<1>4. m = IF e < MaxRows THEN e ELSE MaxRows
  BY <1>1, <1>2, <1>3
<1>5. e \in Nat /\ m \in Nat /\ m <= e /\ m - 1 <= n
  BY <1>1, <1>2, <1>3
<1>6. ASSUME NEW k \in 1..m
      PROVE  log'[k].dot = dots'[e + 1 - k]
  <2>1. CASE k = 1
    <3>1. e + 1 - k = e
      BY <1>5, <2>1
    <3> QED BY <1>3, <2>1, <3>1
  <2>2. CASE k # 1
    <3>1. PICK j \in 1..(m - 1) : k = j + 1
      <4>1. k - 1 \in 1..(m - 1) /\ k = (k - 1) + 1
        BY <1>5, <2>2
      <4> QED BY <4>1
    <3>2. j \in 1..n /\ j \in 1..(e - 1) /\ e + 1 - k = e - j
      BY <1>1, <1>2, <1>3, <1>5, <3>1
    <3>3. log'[k] = log[j] /\ dots'[e - j] = dots[d + 1 - j]
      BY <1>3, <3>1, <3>2
    <3> QED BY <1>2, <3>2, <3>3
  <2> QED BY <2>1, <2>2
<1> QED BY <1>4, <1>6 DEF LogMirrorsDots

LEMMA StepMirrors == IInv /\ LogMirrorsDots /\ [Next]_vars => LogMirrorsDots'
<1> SUFFICES ASSUME IInv, LogMirrorsDots, [Next]_vars PROVE LogMirrorsDots'
  OBVIOUS
<1>1. CASE UNCHANGED <<dots, log>>
  BY <1>1 DEF LogMirrorsDots
<1>2. CASE ClearLog
  <2>1. Len(log') = 0 /\ Len(dots') = 0
    BY <1>2, EmptySeq DEF ClearLog
  <2>2. MaxRows \in Nat /\ MaxRows > 0
    BY ConsoleAssumption
  <2> QED BY <2>1, <2>2 DEF LogMirrorsDots
<1>3. ASSUME NEW i, NEW outcome \in Outcomes, Record(i, outcome)
      PROVE  LogMirrorsDots'
  BY <1>3, RecordMirrors DEF Record
<1> QED
  BY <1>1, <1>2, <1>3
     DEF Next, Visit, ChooseIdentity, SendBurst, StartFlood, StopFlood, AnswerFrom,
         Answer, RecordFrom, Wake, vars, shown

(* The log's rows are the newest dots, however both were trimmed and       *)
(* cleared (app.js 206-246, 260-263).                                      *)
THEOREM OneStory == Spec => []LogMirrorsDots
  BY InitMirrors, StepMirrors, Inductive, PTL DEF Spec
===============================================================================
