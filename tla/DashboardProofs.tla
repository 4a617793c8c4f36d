--------------------------- MODULE DashboardProofs ---------------------------
(***************************************************************************)
(* Proofs of Dashboard's invariants for any number of overlapping polls,   *)
(* any lag between the two readings of handleStats and any traffic.        *)
(*                                                                         *)
(* Statistics say when their uptime was read, not when their counters      *)
(* were.  The inductive invariant looks at every statistics of the present *)
(* process that are still about as a count taken somewhere in a stretch of *)
(* time, and bounds what lies between any two of them.                     *)
(***************************************************************************)
EXTENDS Dashboard, TLAPS

(* What a process can decide in d ticks. *)
AtMost(d) == PerTick * AtLeast0(d)

LEMMA AtMostFacts ==
  /\ \A d \in Int : AtMost(d) \in Nat
  /\ \A d, e \in Int : d <= e => AtMost(d) <= AtMost(e)
  /\ \A d \in Nat : AtMost(d + 1) = AtMost(d) + PerTick
  /\ \A d \in Int : d > 0 => AtMost(d) = PerTick * d
<1>1. PerTick \in Nat
  BY DashboardAssumption
<1>2. \A d \in Int : AtLeast0(d) \in Nat
  BY DEF AtLeast0
<1>3. \A m, n \in Nat : PerTick * m \in Nat /\ (m <= n => PerTick * m <= PerTick * n)
  <2> SUFFICES ASSUME NEW m \in Nat, NEW n \in Nat
               PROVE  PerTick * m \in Nat /\ (m <= n => PerTick * m <= PerTick * n)
    OBVIOUS
  <2>1. ASSUME m <= n PROVE PerTick * m <= PerTick * n
    <3>1. PICK k \in Nat : n = m + k
      <4>1. n - m \in Nat /\ n = m + (n - m)
        BY <2>1
      <4> QED BY <4>1
    <3>2. PerTick * n = PerTick * m + PerTick * k
      BY <1>1, <3>1
    <3> QED BY <1>1, <3>2
  <2> QED BY <1>1, <2>1
<1>4. \A d, e \in Int : d <= e => AtLeast0(d) <= AtLeast0(e)
  BY DEF AtLeast0
<1>5. \A d \in Nat : PerTick * (d + 1) = PerTick * d + PerTick
  BY <1>1
<1> QED BY <1>2, <1>3, <1>4, <1>5 DEF AtMost, AtLeast0

-------------------------------------------------------------------------------
(* Readings of the present process *)

(* n was the count at some time from lo to hi. *)
Reading(n, lo, hi) == [n |-> n, lo |-> lo, hi |-> hi]

Stamped(stats) == Reading(stats.count, stats.uptime - StampLag, stats.uptime)

Unstamped(stats) == Reading(stats.count, stats.uptime, stats.uptime)

Readings ==
  {Reading(count, uptime, uptime)}
    \cup {Stamped(s) : s \in {t \in {previous.stats} : previous.seen /\ ~t.old}}
    \cup {Stamped(reply[p]) : p \in {q \in Polls : poll[q] = "answered" /\ ~reply[q].old}}
    \cup {Unstamped(reply[p]) : p \in {q \in Polls : poll[q] = "gathered"}}

(* Between two readings lies no more than their stretches allow. *)
Consistent(R) == \A a, b \in R : b.n - a.n <= AtMost(b.hi - a.lo)

(* Every reading was taken in the past. *)
Past(R) == \A a \in R : a.n <= count /\ a.lo <= uptime /\ a.hi <= uptime

Gathered == \A p \in Polls : poll[p] = "gathered" => uptime <= reply[p].uptime + StampLag

(* Statistics the page may draw a sample from have the types it needs. *)
IInv ==
  /\ TypeOK
  /\ Gathered
  /\ Consistent(Readings)
  /\ Past(Readings)
  /\ count <= AtMost(uptime)

AllReadings == [n : Int, lo : Int, hi : Int]

LEMMA ReadingsType ==
  ASSUME TypeOK
  PROVE  Readings \subseteq AllReadings
  BY DashboardAssumption
     DEF TypeOK, Stats, Readings, Reading, Stamped, Unstamped, AllReadings

(* The readings may be forgotten, or known less exactly. *)
LEMMA Widened ==
  ASSUME NEW R \in SUBSET AllReadings, NEW Q \in SUBSET AllReadings, Consistent(R),
         \A x \in Q : \E y \in R : x.n = y.n /\ x.lo <= y.lo /\ y.hi <= x.hi
  PROVE  Consistent(Q)
<1> SUFFICES ASSUME NEW a \in Q, NEW b \in Q
             PROVE  b.n - a.n <= AtMost(b.hi - a.lo)
  BY DEF Consistent
<1>1. PICK c \in R : a.n = c.n /\ a.lo <= c.lo /\ c.hi <= a.hi
  OBVIOUS
<1>2. PICK d \in R : b.n = d.n /\ b.lo <= d.lo /\ d.hi <= b.hi
  OBVIOUS
<1>3. d.n - c.n <= AtMost(d.hi - c.lo)
  BY DEF Consistent
<1>4. /\ a.n \in Int /\ b.n \in Int /\ c.n \in Int /\ d.n \in Int
      /\ d.hi - c.lo \in Int /\ b.hi - a.lo \in Int
      /\ d.hi - c.lo <= b.hi - a.lo
  BY <1>1, <1>2 DEF AllReadings
<1>5. /\ AtMost(d.hi - c.lo) <= AtMost(b.hi - a.lo)
      /\ AtMost(d.hi - c.lo) \in Nat /\ AtMost(b.hi - a.lo) \in Nat
  BY <1>4, AtMostFacts
<1> QED BY <1>1, <1>2, <1>3, <1>4, <1>5

-------------------------------------------------------------------------------
(* Types *)

StateTypes ==
  /\ up \in BOOLEAN
  /\ uptime \in 0..MaxUptime
  /\ count \in 0..MaxCount
  /\ poll \in [Polls -> PollPoints]
  /\ reply \in [Polls -> Stats]
  /\ previous \in [seen : BOOLEAN, stats : Stats]
  /\ failures \in 0..3
  /\ status \in {"unknown", "healthy", "degraded", "down"}

LEMMA StatsFacts ==
  /\ NoStats \in Stats
  /\ \A s \in Stats : [s EXCEPT !.old = TRUE] \in Stats
                     /\ [s EXCEPT !.old = TRUE].old
<1>1. MaxCount \in Nat
  BY DashboardAssumption DEF MaxCount
<1>2. NoStats \in Stats
  BY <1>1, DashboardAssumption DEF Stats, NoStats
<1>3. ASSUME NEW s \in Stats
      PROVE  [s EXCEPT !.old = TRUE] \in Stats /\ [s EXCEPT !.old = TRUE].old
  BY DEF Stats
<1> QED BY <1>2, <1>3

LEMMA MaxCountType == MaxCount \in Nat /\ MaxCount = AtMost(MaxUptime)
  BY DashboardAssumption DEF MaxCount, AtMost, AtLeast0

(* A sample between two statistics is never negative. *)
LEMMA SamplesFollow == StateTypes <=> TypeOK
<1>1. ASSUME NEW s \in Stats, NEW t \in Stats, LongEnough(s, t)
      PROVE  Sample(s, t) \in Samples
  BY <1>1, DashboardAssumption, MaxCountType
     DEF Stats, LongEnough, Sample, Samples, AtLeast0
<1>2. ASSUME StateTypes, NEW p \in Polls, Due(p)
      PROVE  Sample(previous.stats, reply[p]) \in Samples
  BY <1>1, <1>2 DEF StateTypes, Due
<1> QED BY <1>2 DEF StateTypes, TypeOK

(* A step of the page or of a handler leaves the process alone. *)
LEMMA Kept ==
  ASSUME IInv, StateTypes', UNCHANGED processVars, Gathered',
         \A x \in Readings' : \E y \in Readings :
           x.n = y.n /\ x.lo <= y.lo /\ y.hi <= x.hi /\ x.hi <= uptime
  PROVE  IInv'
<1>1. Readings \subseteq AllReadings /\ Readings' \subseteq AllReadings
  <2>1. TypeOK'
    BY SamplesFollow, PTL
  <2>2. (TypeOK => Readings \subseteq AllReadings)'
    BY ReadingsType, PTL
  <2> QED BY <2>1, <2>2, ReadingsType DEF IInv
<1>2. Consistent(Readings')
  BY <1>1, Widened DEF IInv
<1>3. Past(Readings)
  BY DEF IInv
<1>4. ASSUME NEW x \in Readings'
      PROVE  x.n <= count /\ x.lo <= uptime /\ x.hi <= uptime
  <2>1. PICK y \in Readings : x.n = y.n /\ x.lo <= y.lo /\ x.hi <= uptime
    OBVIOUS
  <2>2. y.n <= count /\ y.lo <= uptime
    BY <1>3 DEF Past
  <2>3. uptime \in Int /\ x.lo \in Int /\ y.lo \in Int
    BY <1>1 DEF IInv, TypeOK, AllReadings
  <2> QED BY <2>1, <2>2, <2>3
<1>5. (Consistent(Readings) /\ Past(Readings) /\ count <= AtMost(uptime))'
  BY <1>2, <1>4 DEF Consistent, Past, processVars, IInv, AtMost
<1>6. TypeOK'
  BY SamplesFollow, PTL
<1> QED BY <1>5, <1>6 DEF IInv

-------------------------------------------------------------------------------
(* Where a reading comes from *)

LEMMA Members ==
  /\ Reading(count, uptime, uptime) \in Readings
  /\ previous.seen /\ ~previous.stats.old => Stamped(previous.stats) \in Readings
  /\ \A p \in Polls : poll[p] = "answered" /\ ~reply[p].old =>
       Stamped(reply[p]) \in Readings
  /\ \A p \in Polls : poll[p] = "gathered" => Unstamped(reply[p]) \in Readings
  BY DEF Readings

LEMMA Sources ==
  ASSUME NEW x \in Readings
  PROVE  \/ x = Reading(count, uptime, uptime)
         \/ previous.seen /\ ~previous.stats.old /\ x = Stamped(previous.stats)
         \/ \E p \in Polls : poll[p] = "answered" /\ ~reply[p].old
                              /\ x = Stamped(reply[p])
         \/ \E p \in Polls : poll[p] = "gathered" /\ x = Unstamped(reply[p])
  BY DEF Readings

(* A reading that a step keeps as it is. *)
LEMMA Same ==
  ASSUME IInv, NEW x \in Readings
  PROVE  \E y \in Readings :
           x.n = y.n /\ x.lo <= y.lo /\ y.hi <= x.hi /\ x.hi <= uptime
<1>1. x \in AllReadings
  BY ReadingsType DEF IInv
<1>2. x.hi <= uptime
  BY DEF IInv, Past
<1> QED BY <1>1, <1>2 DEF AllReadings

LEMMA InitIInv == Init => IInv
<1> SUFFICES ASSUME Init PROVE IInv
  OBVIOUS
<1>1. StateTypes
  <2>1. 0 \in 0..MaxUptime /\ 0 \in 0..MaxCount /\ 0 \in 0..3
    BY DashboardAssumption, MaxCountType
  <2>2. /\ poll \in [Polls -> PollPoints] /\ reply \in [Polls -> Stats]
        /\ previous \in [seen : BOOLEAN, stats : Stats]
    BY StatsFacts DEF Init, PollPoints
  <2> QED BY <2>1, <2>2 DEF Init, StateTypes
<1>2. Readings = {Reading(0, 0, 0)}
  BY DEF Init, Readings, NoStats
<1>3. Consistent(Readings) /\ Past(Readings) /\ count <= AtMost(uptime)
  BY <1>2, AtMostFacts DEF Init, Consistent, Past, Reading
<1> QED BY <1>1, <1>3, SamplesFollow DEF Init, IInv, Gathered

(* The process starts, or a poll is sent or fails: nothing is read. *)
LEMMA QuietIInv ==
  ASSUME IInv, StateTypes', UNCHANGED <<uptime, count, previous, reply>>,
         \A p \in Polls : poll'[p] \in {"answered", "gathered"} => poll'[p] = poll[p]
  PROVE  IInv'
<1>1. Readings' \subseteq Readings
  BY DEF Readings, Stamped, Unstamped
<1>2. Consistent(Readings)' /\ Past(Readings)'
  BY <1>1 DEF IInv, Consistent, Past
<1>3. Gathered'
  BY DEF IInv, Gathered
<1>4. (count <= AtMost(uptime))'
  BY DEF IInv, AtMost
<1>5. TypeOK'
  BY SamplesFollow, PTL
<1> QED BY <1>2, <1>3, <1>4, <1>5 DEF IInv

LEMMA EndIInv == IInv /\ End => IInv'
<1> SUFFICES ASSUME IInv, End PROVE IInv'
  OBVIOUS
<1>1. StateTypes /\ StateTypes'
  <2>1. StateTypes
    BY SamplesFollow DEF IInv
  <2>2. reply' \in [Polls -> Stats]
    <3>1. \A p \in Polls : reply[p] \in Stats
      BY <2>1 DEF StateTypes
    <3>2. \A p \in Polls : (IF poll[p] = "answered" THEN [reply[p] EXCEPT !.old = TRUE]
                                                  ELSE NoStats) \in Stats
      BY <3>1, StatsFacts
    <3> QED BY <3>2 DEF End
  <2>3. previous' \in [seen : BOOLEAN, stats : Stats]
    BY <2>1, StatsFacts DEF StateTypes, End
  <2>4. poll' \in [Polls -> PollPoints]
    BY <2>1 DEF StateTypes, End, PollPoints
  <2>5. 0 \in 0..MaxUptime /\ 0 \in 0..MaxCount
    BY DashboardAssumption, MaxCountType
  <2> QED
    BY <2>1, <2>2, <2>3, <2>4, <2>5 DEF StateTypes, End
<1>2. \A p \in Polls : poll'[p] # "gathered" /\ (poll'[p] = "answered" => reply'[p].old)
  BY <1>1 DEF StateTypes, End, Working, Stats
<1>3. previous'.stats.old
  BY <1>1 DEF StateTypes, End, Stats
<1>4. Readings' = {Reading(0, 0, 0)}
  BY <1>2, <1>3 DEF Readings, End
<1>5. (Consistent(Readings) /\ Past(Readings) /\ count <= AtMost(uptime))'
  <2>1. 0 <= AtMost(0) /\ uptime' = 0 /\ count' = 0
    BY AtMostFacts DEF End
  <2>2. Consistent(Readings')
    BY <1>4, <2>1 DEF Consistent, Reading
  <2> QED BY <1>4, <2>1, <2>2 DEF Consistent, Past, Reading, AtMost
<1>6. TypeOK'
  BY <1>1, SamplesFollow, PTL
<1> QED BY <1>2, <1>5, <1>6 DEF IInv, Gathered

LEMMA TickIInv == IInv /\ Tick => IInv'
<1> SUFFICES ASSUME IInv, Tick PROVE IInv'
  OBVIOUS
<1>1. PICK k \in 0..PerTick : count' = count + k
  BY DEF Tick
<1>2. StateTypes /\ uptime \in Nat /\ count \in Nat /\ PerTick \in Nat
  BY SamplesFollow, DashboardAssumption, MaxCountType DEF IInv, StateTypes
<1>3. AtMost(uptime + 1) = AtMost(uptime) + PerTick /\ AtMost(uptime) \in Nat
  BY <1>2, AtMostFacts
<1>4. count' <= AtMost(uptime')
  BY <1>1, <1>2, <1>3 DEF Tick, IInv
<1>5. count' \in 0..MaxCount
  <2>1. uptime + 1 <= MaxUptime
    BY <1>2, DashboardAssumption DEF Tick
  <2>2. AtMost(uptime + 1) <= MaxCount
    BY <1>2, <2>1, AtMostFacts, MaxCountType, DashboardAssumption
  <2> QED BY <1>1, <1>2, <1>3, <1>4, <2>2, MaxCountType DEF Tick
<1>6. StateTypes'
  BY <1>2, <1>5, DashboardAssumption DEF StateTypes, Tick, pageVars
<1>7. TypeOK'
  BY <1>6, SamplesFollow, PTL
<1>8. Readings \subseteq AllReadings
  BY ReadingsType DEF IInv
<1>9. \A x \in Readings' : x \in Readings \/ x = Reading(count', uptime', uptime')
  BY DEF Readings, Tick, pageVars, Stamped, Unstamped
<1>10. Past(Readings)'
  <2>1. \A x \in Readings : x.n <= count' /\ x.lo <= uptime' /\ x.hi <= uptime'
    BY <1>1, <1>2, <1>8 DEF IInv, Past, AllReadings, Tick
  <2> QED BY <1>1, <1>2, <1>9, <2>1 DEF Past, Reading, Tick
<1>11. Consistent(Readings)'
  <2> SUFFICES ASSUME NEW a \in Readings', NEW b \in Readings'
               PROVE  b.n - a.n <= AtMost(b.hi - a.lo)
    BY DEF Consistent, AtMost
  <2> DEFINE present == Reading(count, uptime, uptime)
             later == Reading(count', uptime', uptime')
  <2>1. present \in Readings
    BY Members
  <2>2. CASE a \in Readings /\ b \in Readings
    BY <2>2 DEF IInv, Consistent
  <2>3. CASE a \in Readings /\ b = later
    <3>1. count - a.n <= AtMost(uptime - a.lo)
      BY <2>1, <2>3 DEF IInv, Consistent, Reading
    <3>2. uptime - a.lo \in Nat /\ a.n \in Int
      BY <1>2, <1>8, <2>3 DEF IInv, Past, AllReadings
    <3>3. /\ AtMost((uptime - a.lo) + 1) = AtMost(uptime - a.lo) + PerTick
          /\ AtMost(uptime - a.lo) \in Nat
      BY <3>2, AtMostFacts
    <3>4. b.hi = uptime + 1 /\ b.n = count + k
      BY <1>1, <2>3 DEF Reading, Tick
    <3>5. a.lo \in Int
      BY <1>8, <2>3 DEF AllReadings
    <3>6. b.hi - a.lo = (uptime - a.lo) + 1
      BY <1>2, <3>4, <3>5
    <3>7. AtMost(b.hi - a.lo) = AtMost(uptime - a.lo) + PerTick
      BY <3>3, <3>6
    <3>8. count \in Nat /\ k \in 0..PerTick /\ PerTick \in Nat
      BY <1>1, <1>2, DashboardAssumption
    <3> QED BY <3>1, <3>2, <3>3, <3>4, <3>7, <3>8
  <2>4. CASE a = later
    <3>1. /\ b.n <= count' /\ b.n \in Int /\ b.hi \in Int
          /\ count' \in Nat /\ uptime' \in Nat
      BY <1>1, <1>2, <1>6, <1>8, <1>9, <1>10 DEF Past, AllReadings, Reading, Tick
    <3>2. AtMost(b.hi - a.lo) \in Nat
      <4>1. a.lo = uptime'
        BY <2>4 DEF Reading
      <4>2. b.hi - a.lo \in Int
        BY <3>1, <4>1
      <4> QED BY <4>2, AtMostFacts
    <3> QED BY <2>4, <3>1, <3>2 DEF Reading
  <2> QED BY <1>9, <2>2, <2>3, <2>4
<1>12. Gathered'
  BY <1>2, DashboardAssumption DEF Tick, Gathered, StateTypes, Stats
<1> QED BY <1>4, <1>7, <1>10, <1>11, <1>12 DEF IInv, AtMost

-------------------------------------------------------------------------------
(* The steps of a poll *)

(* Gather reads the count at this very moment. *)
LEMMA GatherIInv == ASSUME IInv, NEW p \in Polls, Gather(p) PROVE IInv'
<1>1. StateTypes /\ uptime \in 0..MaxUptime /\ count \in 0..MaxCount
  BY SamplesFollow DEF IInv, StateTypes
<1> DEFINE new == [uptime |-> uptime, count |-> count, healthy |-> FALSE, old |-> FALSE]
<1>2. /\ new \in Stats
      /\ reply' = [reply EXCEPT ![p] = new] /\ poll' = [poll EXCEPT ![p] = "gathered"]
      /\ UNCHANGED <<processVars, pageVars>>
  BY <1>1 DEF Gather, At, Stats
<1>3. new.uptime = uptime /\ new.count = count
  OBVIOUS
<1> HIDE DEF new
<1>4. StateTypes'
  BY <1>1, <1>2 DEF StateTypes, PollPoints, processVars, pageVars
<1>5. Gathered'
  BY <1>1, <1>2, <1>3, DashboardAssumption DEF IInv, Gathered, StateTypes, processVars
<1>6. \A x \in Readings' : x \in Readings
  <2> SUFFICES ASSUME NEW x \in Readings' PROVE x \in Readings
    OBVIOUS
  <2>1. ASSUME NEW q \in Polls, poll'[q] = "answered", ~reply'[q].old,
               x = Stamped(reply'[q])
        PROVE  x \in Readings
    <3>1. q # p /\ poll[q] = "answered" /\ reply'[q] = reply[q]
      BY <1>1, <1>2, <2>1 DEF StateTypes
    <3> QED BY <2>1, <3>1, Members
  <2>2. ASSUME NEW q \in Polls, poll'[q] = "gathered", x = Unstamped(reply'[q])
        PROVE  x \in Readings
    <3>1. CASE q = p
      BY <1>1, <1>2, <1>3, <2>2, <3>1, Members DEF StateTypes, Unstamped
    <3>2. CASE q # p
      <4>1. poll[q] = "gathered" /\ reply'[q] = reply[q]
        BY <1>1, <1>2, <2>2, <3>2 DEF StateTypes
      <4> QED BY <2>2, <4>1, Members
    <3> QED BY <3>1, <3>2
  <2>3. \/ x = Reading(count, uptime, uptime)
        \/ previous.seen /\ ~previous.stats.old /\ x = Stamped(previous.stats)
        \/ \E q \in Polls : poll'[q] = "answered" /\ ~reply'[q].old
                             /\ x = Stamped(reply'[q])
        \/ \E q \in Polls : poll'[q] = "gathered" /\ x = Unstamped(reply'[q])
    BY <1>2 DEF Readings, Stamped, Unstamped, processVars, pageVars
  <2> QED BY <2>1, <2>2, <2>3, Members
<1>7. \A x \in Readings' : \E y \in Readings :
        x.n = y.n /\ x.lo <= y.lo /\ y.hi <= x.hi /\ x.hi <= uptime
  BY <1>6, Same
<1> QED BY <1>2, <1>4, <1>5, <1>7, Kept

(* Stamp tells a later time, but no more than StampLag later. *)
LEMMA StampIInv == ASSUME IInv, NEW p \in Polls, Stamp(p) PROVE IInv'
<1>1. StateTypes /\ uptime \in 0..MaxUptime
  BY SamplesFollow DEF IInv, StateTypes
<1>2. PICK answers \in BOOLEAN :
        reply' = [reply EXCEPT ![p].uptime = uptime, ![p].healthy = answers]
  BY DEF Stamp
<1>3. /\ poll[p] = "gathered" /\ poll' = [poll EXCEPT ![p] = "answered"]
      /\ UNCHANGED <<processVars, pageVars>>
  BY DEF Stamp, At
<1>4. /\ reply'[p] \in Stats /\ reply'[p].uptime = uptime
      /\ reply'[p].count = reply[p].count
      /\ \A q \in Polls : q # p => reply'[q] = reply[q]
      /\ reply' \in [Polls -> Stats]
  BY <1>1, <1>2 DEF StateTypes, Stats
<1>5. StateTypes'
  BY <1>1, <1>3, <1>4 DEF StateTypes, PollPoints, processVars, pageVars
<1>6. Gathered'
  BY <1>1, <1>3, <1>4 DEF IInv, Gathered, StateTypes, processVars
<1>7. ASSUME NEW x \in Readings'
      PROVE  \E y \in Readings :
               x.n = y.n /\ x.lo <= y.lo /\ y.hi <= x.hi /\ x.hi <= uptime
  <2>1. ASSUME NEW q \in Polls, poll'[q] = "answered", ~reply'[q].old,
               x = Stamped(reply'[q]), q = p
        PROVE  \E y \in Readings :
                 x.n = y.n /\ x.lo <= y.lo /\ y.hi <= x.hi /\ x.hi <= uptime
    <3> DEFINE y == Unstamped(reply[p])
    <3>1. y \in Readings
      BY <1>3, Members
    <3>2. /\ y.n = reply[p].count /\ y.lo = reply[p].uptime /\ y.hi = reply[p].uptime
          /\ x.n = reply[p].count /\ x.lo = uptime - StampLag /\ x.hi = uptime
      BY <1>4, <2>1 DEF Stamped, Unstamped, Reading
    <3>3. uptime <= reply[p].uptime + StampLag /\ reply[p].uptime \in Int
      BY <1>1, <1>3 DEF IInv, Gathered, StateTypes, Stats
    <3>4. reply[p].uptime <= uptime
      BY <3>1, <3>2 DEF IInv, Past
    <3> HIDE DEF y
    <3>5. /\ x.n = y.n /\ x.lo <= y.lo /\ y.hi <= x.hi /\ x.hi <= uptime
      BY <1>1, <3>2, <3>3, <3>4, DashboardAssumption
    <3> QED BY <3>1, <3>5
  <2>2. ASSUME NEW q \in Polls, poll'[q] = "answered", ~reply'[q].old,
               x = Stamped(reply'[q]), q # p
        PROVE  x \in Readings
    <3>1. poll[q] = "answered" /\ reply'[q] = reply[q]
      BY <1>1, <1>3, <1>4, <2>2 DEF StateTypes
    <3> QED BY <2>2, <3>1, Members
  <2>3. ASSUME NEW q \in Polls, poll'[q] = "gathered", x = Unstamped(reply'[q])
        PROVE  x \in Readings
    <3>1. poll[q] = "gathered" /\ reply'[q] = reply[q]
      BY <1>1, <1>3, <1>4, <2>3 DEF StateTypes
    <3> QED BY <2>3, <3>1, Members
  <2>4. \/ x = Reading(count, uptime, uptime)
        \/ previous.seen /\ ~previous.stats.old /\ x = Stamped(previous.stats)
        \/ \E q \in Polls : poll'[q] = "answered" /\ ~reply'[q].old
                             /\ x = Stamped(reply'[q])
        \/ \E q \in Polls : poll'[q] = "gathered" /\ x = Unstamped(reply'[q])
    BY <1>3 DEF Readings, Stamped, Unstamped, processVars, pageVars
  <2> QED BY <2>1, <2>2, <2>3, <2>4, Members, Same
<1> QED BY <1>3, <1>5, <1>6, <1>7, Kept

(* Deliver moves statistics into the baseline, or forgets them. *)
LEMMA DeliverIInv == ASSUME IInv, NEW p \in Polls, Deliver(p) PROVE IInv'
<1>1. StateTypes
  BY SamplesFollow DEF IInv
<1>2. /\ poll[p] = "answered" /\ poll' = [poll EXCEPT ![p] = "idle"]
      /\ reply' = [reply EXCEPT ![p] = NoStats]
      /\ UNCHANGED processVars
      /\ failures' = 0 /\ status' = StatusOf(reply[p])
      /\ previous' = previous \/ previous' = Baseline(reply[p])
  BY DEF Deliver, At
<1>3. \A s \in Stats : /\ Baseline(s) \in [seen : BOOLEAN, stats : Stats]
                       /\ Baseline(s).stats.count = s.count
                       /\ Baseline(s).stats.uptime = s.uptime
                       /\ Baseline(s).stats.old = s.old
  BY DEF Baseline, Stats
<1>4. reply[p] \in Stats
  BY <1>1 DEF StateTypes
<1>5. StateTypes'
  <2>1. previous' \in [seen : BOOLEAN, stats : Stats]
    BY <1>1, <1>2, <1>3, <1>4 DEF StateTypes
  <2>2. reply' \in [Polls -> Stats] /\ poll' \in [Polls -> PollPoints]
    BY <1>1, <1>2, StatsFacts DEF StateTypes, PollPoints
  <2>3. failures' \in 0..3 /\ status' \in {"unknown", "healthy", "degraded", "down"}
    BY <1>2 DEF StatusOf
  <2> QED BY <1>1, <1>2, <2>1, <2>2, <2>3 DEF StateTypes, processVars
<1>6. \A q \in Polls : poll'[q] \in {"answered", "gathered"} =>
        poll[q] = poll'[q] /\ reply'[q] = reply[q]
  BY <1>1, <1>2 DEF StateTypes
<1>7. Gathered'
  BY <1>2, <1>6 DEF IInv, Gathered, processVars
<1>8. ASSUME NEW x \in Readings' PROVE x \in Readings
  <2>1. ASSUME previous'.seen, ~previous'.stats.old, x = Stamped(previous'.stats)
        PROVE  x \in Readings
    <3>1. CASE previous' = previous
      BY <2>1, <3>1, Members
    <3>2. CASE previous' = Baseline(reply[p])
      <4>1. x = Stamped(reply[p]) /\ ~reply[p].old
        BY <1>3, <1>4, <2>1, <3>2 DEF Stamped
      <4> QED BY <1>2, <4>1, Members
    <3> QED BY <1>2, <3>1, <3>2
  <2>2. ASSUME NEW q \in Polls, poll'[q] = "answered", ~reply'[q].old,
               x = Stamped(reply'[q])
        PROVE  x \in Readings
    BY <1>6, <2>2, Members
  <2>3. ASSUME NEW q \in Polls, poll'[q] = "gathered", x = Unstamped(reply'[q])
        PROVE  x \in Readings
    BY <1>6, <2>3, Members
  <2>4. \/ x = Reading(count, uptime, uptime)
        \/ previous'.seen /\ ~previous'.stats.old /\ x = Stamped(previous'.stats)
        \/ \E q \in Polls : poll'[q] = "answered" /\ ~reply'[q].old
                             /\ x = Stamped(reply'[q])
        \/ \E q \in Polls : poll'[q] = "gathered" /\ x = Unstamped(reply'[q])
    BY <1>2 DEF Readings, Stamped, Unstamped, processVars
  <2> QED BY <2>1, <2>2, <2>3, <2>4, Members
<1>9. \A x \in Readings' : \E y \in Readings :
        x.n = y.n /\ x.lo <= y.lo /\ y.hi <= x.hi /\ x.hi <= uptime
  BY <1>8, Same
<1> QED BY <1>2, <1>5, <1>7, <1>9, Kept

LEMMA StepIInv == IInv /\ [Next]_vars => IInv'
<1> SUFFICES ASSUME IInv, [Next]_vars PROVE IInv'
  OBVIOUS
<1>0. StateTypes
  BY SamplesFollow DEF IInv
<1>1. CASE Start
  <2>1. StateTypes'
    BY <1>0, <1>1 DEF StateTypes, Start, pageVars
  <2> QED BY <1>1, <2>1, QuietIInv DEF Start, pageVars
<1>2. CASE UNCHANGED vars
  <2>1. StateTypes'
    BY <1>0, <1>2 DEF StateTypes, vars, pageVars, processVars
  <2> QED BY <1>2, <2>1, QuietIInv DEF vars, pageVars, processVars
<1>3. ASSUME NEW p \in Polls, Ask(p) \/ GatherFails(p)
      PROVE  IInv'
  <2>1. StateTypes'
    BY <1>0, <1>3 DEF StateTypes, PollPoints, Ask, GatherFails, At, pageVars, processVars
  <2> QED
    BY <1>0, <1>3, <2>1, QuietIInv
       DEF StateTypes, Ask, GatherFails, At, pageVars, processVars
<1>4. ASSUME NEW p \in Polls, Miss(p)
      PROVE  IInv'
  <2>1. StateTypes'
    BY <1>0, <1>4 DEF StateTypes, PollPoints, Miss, At, processVars
  <2> QED
    BY <1>0, <1>4, <2>1, QuietIInv DEF StateTypes, Miss, At, processVars
<1> QED
  BY <1>1, <1>2, <1>3, <1>4, EndIInv, TickIInv, GatherIInv, StampIInv, DeliverIInv
     DEF Next, PollStep

-------------------------------------------------------------------------------
THEOREM Inductive == Spec => []IInv
  BY InitIInv, StepIInv, PTL DEF Spec

(* The types hold, so whatever the order of replies and restarts no sample *)
(* is negative (app.js 227-228).                                           *)
THEOREM TypeCorrect == Spec => []TypeOK
<1>1. IInv => TypeOK
  BY DEF IInv
<1> QED BY <1>1, Inductive, PTL

(* A sample between two statistics of one process shows no rate the        *)
(* process cannot have reached, but for the lag of handleStats (app.js     *)
(* 205-207, dashboard.go 136-232).                                         *)
THEOREM NoPhantomRate == Spec => []RatesAreReal
<1>1. ASSUME IInv PROVE RatesAreReal
  <2> SUFFICES ASSUME NEW p \in Polls, Due(p), ~previous.stats.old, ~reply[p].old
               PROVE  LET sample == Sample(previous.stats, reply[p])
                      IN  sample.n <= PerTick * (sample.elapsed + StampLag)
    BY DEF RatesAreReal
  <2> DEFINE from == previous.stats
             to == reply[p]
             d == to.uptime - from.uptime + StampLag
  <2>1. Stamped(from) \in Readings /\ Stamped(to) \in Readings
    BY Members DEF Due
  <2>2. /\ from.count \in Int /\ to.count \in Int
        /\ from.uptime \in Int /\ to.uptime \in Int
    BY <1>1, MaxCountType DEF IInv, TypeOK, Stats
  <2>3. to.count - from.count <= AtMost(to.uptime - (from.uptime - StampLag))
    BY <1>1, <2>1 DEF IInv, Consistent, Stamped, Reading
  <2>4. to.uptime - (from.uptime - StampLag) = d /\ d \in Int /\ d > 0
    BY <2>2, DashboardAssumption DEF Due, LongEnough
  <2>5. AtMost(d) = PerTick * d /\ AtMost(d) \in Nat
    BY <2>4, AtMostFacts
  <2>6. AtLeast0(to.count - from.count) <= PerTick * d
    BY <2>2, <2>3, <2>4, <2>5 DEF AtLeast0
  <2> QED BY <2>6 DEF Sample
<1> QED BY <1>1, Inductive, PTL
===============================================================================
