-------------------------- MODULE TokenBucketProofs --------------------------
(***************************************************************************)
(* Proofs about TokenBucket for every quota, lag and set of calls.  The    *)
(* account of the tokens handed out needs that the slack of the key's life *)
(* covers the lag of stamps; the rest holds whatever the lag.              *)
(***************************************************************************)
EXTENDS TokenBucket, TLAPS

(* One second of slack against milliseconds of lag. *)
SlackCoversLag == MaxLag <= Slack

(* Stamps are not in the future, and a call in flight is not older than    *)
(* the lag allows.                                                         *)
StampsPast ==
  /\ \A r \in Requests : stamp[r] <= now
  /\ \A r \in Requests : phase[r] \in InFlight => now <= stamp[r] + MaxLag

(* Slack before it expires, the key has had time to refill completely.     *)
KeyOutlivesRefill ==
  bucket.made =>
    /\ bucket.updated <= now
    /\ bucket.updated + Slack <= bucket.expireAt
    /\ Full <= bucket.tokens
                 + Limit * (bucket.expireAt - Slack - bucket.updated)

(* The accounts open with the first bucket made, at its earliest stamp.    *)
AccountsOpen ==
  /\ bucket.made => since <= bucket.updated
  /\ ~bucket.made => spent = 0 /\ rewound = 0

IInv ==
  /\ TypeOK
  /\ StampsPast
  /\ KeyOutlivesRefill
  /\ AccountsOpen

-------------------------------------------------------------------------------
(* Arithmetic *)

(* Multiplication by a natural number is monotone. *)
LEMMA Monotone ==
  ASSUME NEW k \in Nat, NEW a \in Int, NEW b \in Int, a <= b
  PROVE  k * a <= k * b
<1>1. PICK d \in Nat : b = a + d
  <2>1. b - a \in Nat /\ b = a + (b - a)
    OBVIOUS
  <2> QED
    BY <2>1
<1>2. k * b = k * a + k * d
  BY <1>1
<1>3. k * d \in Nat
  OBVIOUS
<1>4. k * a \in Int
  OBVIOUS
<1> QED
  BY <1>2, <1>3, <1>4

(* A full bucket holds one token at least. *)
LEMMA FullNat == Full \in Nat /\ Full >= Window
<1>1. Burst * Window = Window + (Burst - 1) * Window
  BY QuotaAssumption
<1>2. (Burst - 1) * Window \in Nat
  BY QuotaAssumption
<1> QED
  BY <1>1, <1>2, QuotaAssumption DEF Full

(* The reset hint is long enough to fill the bucket. *)
LEMMA ResetFills ==
  ASSUME NEW tokens \in 0..Full
  PROVE  /\ ResetAfter(tokens) \in Nat
         /\ Full <= tokens + Limit * ResetAfter(tokens)
<1>1. PICK n \in Nat : n = Full - tokens + Limit - 1
  BY FullNat, QuotaAssumption
<1>2. /\ n \div Limit \in Nat
      /\ n < Limit * (n \div Limit) + Limit
  BY QuotaAssumption
<1>3. Limit * (n \div Limit) \in Nat
  BY <1>2, QuotaAssumption
<1> QED
  BY <1>1, <1>2, <1>3, FullNat, QuotaAssumption DEF ResetAfter

-------------------------------------------------------------------------------
(* What a script finds in the bucket. *)
LEMMA AvailableType ==
  ASSUME TypeOK, NEW s \in 0..MaxNow
  PROVE  /\ Elapsed(s) \in Nat
         /\ Refill(s) \in 0..Full /\ bucket.tokens <= Refill(s)
         /\ Refill(s) <= bucket.tokens + Limit * Elapsed(s)
         /\ Available(s) \in 0..Full
         /\ Left(s) \in 0..Full
<1>1. /\ bucket.tokens \in 0..Full /\ bucket.updated \in 0..MaxNow
      /\ MaxNow \in Nat /\ Full \in Nat
  BY FullNat, CallsAssumption DEF TypeOK
<1>2. Elapsed(s) \in Nat
  BY <1>1 DEF Elapsed
<1>3. Limit * Elapsed(s) \in Nat
  BY <1>2, QuotaAssumption
<1>4. /\ Refill(s) \in 0..Full /\ bucket.tokens <= Refill(s)
      /\ Refill(s) <= bucket.tokens + Limit * Elapsed(s)
  BY <1>1, <1>3 DEF Refill, Least
<1>5. Available(s) \in 0..Full
  BY <1>1, <1>4 DEF Available
<1>6. Left(s) \in 0..Full
  BY <1>1, <1>5, QuotaAssumption DEF Left, Allows
<1> QED
  BY <1>2, <1>4, <1>5, <1>6

(* A call in flight that finds the key expired would have found the bucket *)
(* full.                                                                   *)
LEMMA ExpiredIsFull ==
  ASSUME IInv, SlackCoversLag, bucket.made, ~Live,
         NEW r \in Requests, phase[r] \in InFlight
  PROVE  Refill(stamp[r]) = Full
<1> DEFINE s == stamp[r]
           e == bucket.expireAt - Slack - bucket.updated
<1>1. /\ s \in Nat /\ now \in Nat /\ bucket.updated \in Nat
      /\ bucket.expireAt \in Nat /\ bucket.tokens \in Nat
      /\ MaxLag \in Nat /\ Slack \in Nat /\ Limit \in Nat /\ Full \in Nat
  BY FullNat, QuotaAssumption, CallsAssumption DEF IInv, TypeOK, CallsTypeOK
<1>2. /\ bucket.expireAt < now /\ now <= s + MaxLag
      /\ bucket.updated + Slack <= bucket.expireAt
      /\ Full <= bucket.tokens + Limit * e
  BY <1>1 DEF IInv, StampsPast, KeyOutlivesRefill, Live
<1>3. bucket.updated < s /\ e \in Int /\ s - bucket.updated \in Int
      /\ e <= s - bucket.updated
  BY <1>1, <1>2 DEF SlackCoversLag
<1>4. Limit * e <= Limit * (s - bucket.updated)
  BY <1>1, <1>3, Monotone
<1>5. Limit * e \in Int /\ Limit * (s - bucket.updated) \in Int
  BY <1>1, <1>3
<1> HIDE DEF e
<1>6. Full <= bucket.tokens + Limit * (s - bucket.updated)
  BY <1>1, <1>2, <1>4, <1>5
<1>7. Elapsed(s) = s - bucket.updated
  BY <1>3 DEF Elapsed
<1> HIDE DEF s
<1>8. Refill(s) = Full
  BY <1>1, <1>5, <1>6, <1>7 DEF Refill, Least
<1> QED
  BY <1>8 DEF s

(* So whether or not the key is alive, the script finds no more than what  *)
(* the last one left plus the refill of the time between the stamps.       *)
LEMMA AvailableBound ==
  ASSUME IInv, SlackCoversLag, bucket.made,
         NEW r \in Requests, phase[r] \in InFlight
  PROVE  Available(stamp[r]) <= bucket.tokens + Limit * Elapsed(stamp[r])
<1>1. stamp[r] \in 0..MaxNow
  BY DEF IInv, TypeOK, CallsTypeOK
<1>2. Available(stamp[r]) = Refill(stamp[r])
  BY ExpiredIsFull DEF Available
<1> QED
  BY <1>1, <1>2, AvailableType DEF IInv

-------------------------------------------------------------------------------
(* The initial state satisfies the inductive invariant. *)
LEMMA InitIInv == Init => IInv /\ RewindsAreRefilledAgain
  BY FullNat, CallsAssumption, QuotaAssumption
     DEF Init, CallsInit, Missing, IInv, TypeOK, CallsTypeOK, StampsPast,
         KeyOutlivesRefill, AccountsOpen, RewindsAreRefilledAgain, Phases,
         InFlight

(* The account balances across a script, whichever way the stamps moved.   *)
LEMMA ScriptAccount ==
  ASSUME IInv, RewindsAreRefilledAgain, SlackCoversLag,
         NEW r \in Requests, phase[r] \in InFlight, Script(r)
  PROVE  bucket'.tokens + spent' * Window
           <= Full + Limit * (bucket'.updated - since' + rewound')
<1> DEFINE s == stamp[r]
           u == bucket.updated
<1>1. /\ s \in 0..MaxNow /\ s \in Nat /\ u \in Nat /\ since \in Nat
      /\ rewound \in Nat /\ spent \in Nat /\ bucket.tokens \in Nat
      /\ Limit \in Nat /\ Window \in Nat /\ Full \in Nat
  BY FullNat, QuotaAssumption, CallsAssumption DEF IInv, TypeOK, CallsTypeOK
<1>2. /\ Available(s) \in Nat /\ Left(s) \in Nat /\ Elapsed(s) \in Nat
      /\ Available(s) <= Full
  BY <1>1, AvailableType, FullNat DEF IInv
<1>3. /\ bucket'.tokens = Left(s)
      /\ bucket'.updated = s
  BY DEF Script
<1>4. Left(s) + spent' * Window = Available(s) + spent * Window
  <2>1. CASE Allows(s)
    <3>1. (spent + 1) * Window = spent * Window + Window
      BY <1>1
    <3> QED
      BY <1>1, <1>2, <2>1, <3>1 DEF Script, Left, Allows
  <2>2. CASE ~Allows(s)
    BY <1>1, <1>2, <2>2 DEF Script, Left
  <2> QED
    BY <2>1, <2>2
<1>5. spent * Window \in Nat
  BY <1>1
<1>6. CASE ~bucket.made
  <2>1. since' = s /\ rewound' = rewound /\ spent = 0
    BY <1>6 DEF Script, IInv, AccountsOpen
  <2> QED
    BY <1>1, <1>2, <1>3, <1>4, <2>1
<1>7. CASE bucket.made
  <2>1. /\ since' \in Nat /\ since' <= since /\ rewound' \in Nat
        /\ u + Elapsed(s) - since + rewound <= s - since' + rewound'
    <3>1. CASE s < u
      BY <1>1, <1>7, <3>1 DEF Script, Elapsed, Least
    <3>2. CASE ~(s < u)
      BY <1>1, <1>7, <3>2 DEF Script, Elapsed, Least
    <3> QED
      BY <3>1, <3>2
  <2> DEFINE before == u - since + rewound
             after  == s - since' + rewound'
  <2>2. before \in Int /\ after \in Int /\ before + Elapsed(s) <= after
    BY <1>1, <1>2, <2>1
  <2>3. bucket.tokens + spent * Window <= Full + Limit * before
    BY <1>7 DEF RewindsAreRefilledAgain
  <2>4. Available(s) <= bucket.tokens + Limit * Elapsed(s)
    BY <1>7, AvailableBound
  <2> HIDE DEF before, after
  <2>5. Limit * (before + Elapsed(s)) = Limit * before + Limit * Elapsed(s)
    BY <1>1, <1>2, <2>2
  <2>6. Limit * (before + Elapsed(s)) <= Limit * after
    BY <1>1, <1>2, <2>2, Monotone
  <2>7. /\ Limit * before \in Int /\ Limit * Elapsed(s) \in Int
        /\ Limit * after \in Int
    BY <1>1, <1>2, <2>2
  <2>8. Left(s) + spent' * Window <= Full + Limit * after
    BY <1>1, <1>2, <1>4, <1>5, <2>3, <2>4, <2>5, <2>6, <2>7
  <2> QED
    BY <1>3, <2>8 DEF after
<1> QED
  BY <1>6, <1>7

(* Running a script preserves the invariant. *)
LEMMA ScriptIInv ==
  ASSUME IInv, NEW r \in Requests, phase[r] \in InFlight,
         Script(r), UNCHANGED <<now, stamp>>
  PROVE  /\ bucket' \in [made : BOOLEAN, tokens : 0..Full,
                         updated : 0..MaxNow, expireAt : Nat]
         /\ spent' \in Nat /\ since' \in 0..MaxNow /\ rewound' \in Nat
         /\ KeyOutlivesRefill' /\ AccountsOpen'
<1> DEFINE s == stamp[r]
<1>1. /\ s \in 0..MaxNow /\ s <= now /\ now \in Nat /\ MaxNow \in Nat
      /\ Slack \in Nat /\ Full \in Nat /\ Limit \in Nat
      /\ bucket.updated \in Nat
  BY FullNat, QuotaAssumption, CallsAssumption
     DEF IInv, TypeOK, CallsTypeOK, StampsPast
<1>2. /\ Left(s) \in 0..Full /\ ResetAfter(Left(s)) \in Nat
      /\ Full <= Left(s) + Limit * ResetAfter(Left(s))
  BY <1>1, AvailableType, ResetFills DEF IInv
<1>3. bucket' = [made     |-> TRUE,
                 tokens   |-> Left(s),
                 updated  |-> s,
                 expireAt |-> now + ResetAfter(Left(s)) + Slack]
  BY DEF Script
<1>4. /\ bucket' \in [made : BOOLEAN, tokens : 0..Full,
                      updated : 0..MaxNow, expireAt : Nat]
      /\ spent' \in Nat /\ since' \in 0..MaxNow /\ rewound' \in Nat
  BY <1>1, <1>2, <1>3 DEF Script, IInv, TypeOK, Least
<1>5. KeyOutlivesRefill'
  <2> DEFINE a == ResetAfter(Left(s))
             b == bucket'.expireAt - Slack - bucket'.updated
  <2>1. a \in Int /\ b \in Int /\ a <= b
    BY <1>1, <1>2, <1>3
  <2>2. /\ Limit * a <= Limit * b /\ Limit * a \in Int /\ Limit * b \in Int
    BY <1>1, <2>1, Monotone
  <2>3. /\ bucket'.updated <= now
        /\ bucket'.updated + Slack <= bucket'.expireAt
        /\ bucket'.tokens = Left(s) /\ Left(s) \in Int
        /\ Full <= Left(s) + Limit * a
    BY <1>1, <1>2, <1>3
  <2> HIDE DEF a, b
  <2>4. Full <= bucket'.tokens + Limit * b
    BY <1>1, <2>2, <2>3
  <2> QED
    BY <2>3, <2>4 DEF KeyOutlivesRefill, b
<1>6. AccountsOpen'
  BY <1>1, <1>3, <1>4 DEF AccountsOpen, Script, IInv, TypeOK, Least
<1> QED
  BY <1>4, <1>5, <1>6

(* A step that keeps the bucket and does not turn the clock back keeps     *)
(* what is known of the bucket.                                            *)
LEMMA BucketKept ==
  ASSUME IInv, UNCHANGED bucketVars, now' \in 0..MaxNow, now <= now'
  PROVE  KeyOutlivesRefill' /\ AccountsOpen'
<1>1. KeyOutlivesRefill'
  BY CallsAssumption
     DEF IInv, TypeOK, CallsTypeOK, bucketVars, KeyOutlivesRefill, Full
<1> QED
  BY <1>1 DEF IInv, bucketVars, AccountsOpen

(* Every step preserves the inductive invariant. *)
LEMMA NextIInv == IInv /\ [Next]_vars => IInv'
<1> SUFFICES ASSUME IInv, [Next]_vars
             PROVE  IInv'
  OBVIOUS
<1> USE CallsAssumption
<1>1. ASSUME NEW r \in Requests, Send(r) \/ Fail(r), UNCHANGED bucketVars
      PROVE  IInv'
  <2>1. TypeOK' /\ StampsPast'
    BY <1>1 DEF IInv, TypeOK, CallsTypeOK, StampsPast, Send, Fail, Phases,
                InFlight, bucketVars, Full
  <2>2. now' \in 0..MaxNow /\ now <= now'
    BY <1>1 DEF IInv, TypeOK, CallsTypeOK, Send, Fail
  <2> QED
    BY <1>1, <2>1, <2>2, BucketKept DEF IInv
<1>2. ASSUME NEW r \in Requests, Decide(r) \/ LoseReply(r)
      PROVE  IInv'
  <2>1. /\ phase[r] \in InFlight /\ Script(r) /\ UNCHANGED <<now, stamp>>
        /\ phase' \in [Requests -> Phases]
        /\ \A q \in Requests : phase'[q] \in InFlight => phase[q] \in InFlight
    BY <1>2 DEF IInv, TypeOK, CallsTypeOK, Decide, LoseReply, Answer,
                ReplyLost, Phases, InFlight
  <2>2. /\ bucket' \in [made : BOOLEAN, tokens : 0..Full,
                        updated : 0..MaxNow, expireAt : Nat]
        /\ spent' \in Nat /\ since' \in 0..MaxNow /\ rewound' \in Nat
        /\ KeyOutlivesRefill' /\ AccountsOpen'
    BY <2>1, ScriptIInv
  <2>3. TypeOK'
    BY <2>1, <2>2 DEF IInv, TypeOK, CallsTypeOK, Full
  <2>4. StampsPast'
    BY <2>1 DEF IInv, StampsPast
  <2> QED
    BY <2>2, <2>3, <2>4 DEF IInv
<1>3. CASE Tick /\ UNCHANGED bucketVars
  <2>1. TypeOK' /\ StampsPast'
    BY <1>3 DEF IInv, TypeOK, CallsTypeOK, StampsPast, Tick, bucketVars, Full
  <2>2. now' \in 0..MaxNow /\ now <= now'
    BY <1>3 DEF IInv, TypeOK, CallsTypeOK, Tick
  <2> QED
    BY <1>3, <2>1, <2>2, BucketKept DEF IInv
<1>4. CASE Restart
  BY <1>4, FullNat
     DEF IInv, TypeOK, CallsTypeOK, StampsPast, KeyOutlivesRefill,
         AccountsOpen, Restart, callVars, Missing, Full
<1>5. CASE UNCHANGED vars
  BY <1>5
     DEF IInv, TypeOK, CallsTypeOK, StampsPast, KeyOutlivesRefill,
         AccountsOpen, vars, callVars, Full
<1> QED
  BY <1>1, <1>2, <1>3, <1>4, <1>5 DEF Next

-------------------------------------------------------------------------------
(* Every step keeps the account, if the keys' slack covers the lag. *)
LEMMA NextAccount ==
  ASSUME SlackCoversLag
  PROVE  IInv /\ RewindsAreRefilledAgain /\ [Next]_vars => RewindsAreRefilledAgain'
<1> SUFFICES ASSUME IInv, RewindsAreRefilledAgain, [Next]_vars
             PROVE  RewindsAreRefilledAgain'
  OBVIOUS
<1>1. ASSUME NEW r \in Requests, Decide(r) \/ LoseReply(r)
      PROVE  RewindsAreRefilledAgain'
  <2>1. phase[r] \in InFlight /\ Script(r)
    BY <1>1 DEF Decide, LoseReply, Answer, ReplyLost
  <2> QED
    BY <2>1, ScriptAccount DEF RewindsAreRefilledAgain, Full
<1>2. CASE UNCHANGED bucketVars
  BY <1>2 DEF RewindsAreRefilledAgain, bucketVars, Full
<1>3. CASE Restart
  BY <1>3 DEF RewindsAreRefilledAgain, Restart, Missing
<1> QED
  BY <1>1, <1>2, <1>3 DEF Next, vars, bucketVars

-------------------------------------------------------------------------------
(* The inductive invariant holds in every reachable state. *)
THEOREM Inductive == Spec => []IInv
  BY InitIInv, NextIInv, PTL DEF Spec

(* Type correctness: in particular the bucket never holds more than the    *)
(* burst nor less than nothing.                                            *)
THEOREM TypeCorrect == Spec => []TypeOK
<1>1. IInv => TypeOK
  BY DEF IInv
<1> QED
  BY <1>1, Inductive, PTL

(* The exact account of the tokens handed out, in any order of scripts, if *)
(* the keys' slack covers the lag of stamps.                               *)
THEOREM Account ==
  ASSUME SlackCoversLag
  PROVE  Spec => []RewindsAreRefilledAgain
  BY InitIInv, NextAccount, Inductive, PTL DEF Spec

(* So the quota is overdrawn by what the rewound milliseconds refill, and  *)
(* by no more.                                                             *)
Overdraft ==
  bucket.made => spent * Window <= Full + Limit * (now - since + rewound)

THEOREM OverdraftIsRewound ==
  ASSUME SlackCoversLag
  PROVE  Spec => []Overdraft
<1>1. IInv /\ RewindsAreRefilledAgain => Overdraft
  <2> SUFFICES ASSUME IInv, RewindsAreRefilledAgain, bucket.made
               PROVE  spent * Window <= Full + Limit * (now - since + rewound)
    BY DEF Overdraft
  <2> DEFINE a == bucket.updated - since + rewound
             b == now - since + rewound
  <2>1. /\ now \in Nat /\ bucket.updated \in Nat /\ since \in Nat
        /\ bucket.tokens \in Nat /\ spent \in Nat /\ bucket.updated <= now
        /\ Full \in Nat /\ Limit \in Nat /\ Window \in Nat /\ rewound \in Nat
    BY FullNat, QuotaAssumption, CallsAssumption
       DEF IInv, TypeOK, CallsTypeOK, KeyOutlivesRefill
  <2>2. a \in Int /\ b \in Int /\ a <= b
    BY <2>1
  <2>3. bucket.tokens + spent * Window <= Full + Limit * a
    BY DEF RewindsAreRefilledAgain
  <2> HIDE DEF a, b
  <2>4. Limit * a <= Limit * b /\ Limit * a \in Int /\ Limit * b \in Int
    BY <2>1, <2>2, Monotone
  <2>5. spent * Window \in Nat
    BY <2>1
  <2>6. spent * Window <= Full + Limit * b
    BY <2>1, <2>3, <2>4, <2>5
  <2> QED
    BY <2>6 DEF b
<1> QED
  BY <1>1, Inductive, Account, PTL

(* The quota holds as long as scripts run in the order of their stamps.    *)
THEOREM InOrderQuota ==
  ASSUME SlackCoversLag
  PROVE  Spec => []InOrderNeverOverspends
<1>1. IInv /\ Overdraft => InOrderNeverOverspends
  <2> SUFFICES ASSUME IInv, Overdraft, rewound = 0, bucket.made
               PROVE  spent * Window <= Full + Limit * (now - since)
    BY DEF InOrderNeverOverspends, NeverOverspends
  <2>1. now - since + rewound = now - since
    BY CallsAssumption DEF IInv, TypeOK, CallsTypeOK
  <2> QED
    BY <2>1 DEF Overdraft
<1> QED
  BY <1>1, Inductive, OverdraftIsRewound, PTL

(* One script rewinds the update time by the lag of its stamp at most, so  *)
(* it adds no more to the overdraft than the lag refills (redis.go 90,     *)
(* token_bucket.lua 34, 59).                                               *)
RewindsLittle == [][rewound' <= rewound + MaxLag]_vars

THEOREM RewindBounded == Spec => RewindsLittle
<1>1. ASSUME IInv, [Next]_vars
      PROVE  rewound' <= rewound + MaxLag
  <2>1. rewound \in Nat /\ MaxLag \in Nat
    BY <1>1, CallsAssumption DEF IInv, TypeOK
  <2>2. ASSUME NEW r \in Requests, Decide(r) \/ LoseReply(r)
        PROVE  rewound' <= rewound + MaxLag
    <3>1. phase[r] \in InFlight /\ Script(r)
      BY <2>2 DEF Decide, LoseReply, Answer, ReplyLost
    <3>2. /\ now \in Nat /\ stamp[r] \in Nat /\ bucket.updated \in Nat
          /\ now <= stamp[r] + MaxLag /\ (bucket.made => bucket.updated <= now)
      BY <1>1, <3>1, CallsAssumption
         DEF IInv, TypeOK, CallsTypeOK, StampsPast, KeyOutlivesRefill
    <3>3. CASE bucket.made /\ stamp[r] < bucket.updated
      <4>1. rewound' = rewound + (bucket.updated - stamp[r])
        BY <3>1, <3>3 DEF Script
      <4>2. bucket.updated - stamp[r] <= MaxLag
        BY <2>1, <3>2, <3>3
      <4> QED
        BY <2>1, <3>2, <4>1, <4>2
    <3>4. CASE ~(bucket.made /\ stamp[r] < bucket.updated)
      <4>1. rewound' = rewound
        BY <3>1, <3>4 DEF Script
      <4> QED
        BY <2>1, <4>1
    <3> QED
      BY <3>3, <3>4
  <2>3. CASE Restart \/ UNCHANGED rewound
    BY <2>1, <2>3 DEF Restart
  <2> QED
    BY <1>1, <2>2, <2>3 DEF Next, vars, bucketVars
<1> QED
  BY <1>1, Inductive, PTL DEF Spec, RewindsLittle

(* An honest hint: the bucket it refers to holds a token when it is over,  *)
(* and does not a millisecond earlier.                                     *)
THEOREM HonestHint == Spec => []RetryAfterSuffices
<1>1. ASSUME IInv PROVE RetryAfterSuffices
  <2> SUFFICES ASSUME NEW r \in Requests, phase[r] \in InFlight, ~Allows(stamp[r])
               PROVE  LET left == Left(stamp[r])
                          wait == RetryAfter(left)
                      IN  Least(Full, left + Limit * wait) >= Window
                            /\ left + Limit * (wait - 1) < Window
    BY DEF RetryAfterSuffices
  <2> DEFINE left == Left(stamp[r])
             wait == RetryAfter(left)
  <2>1. left \in Nat /\ left < Window /\ Window \in Nat /\ Full >= Window
        /\ Full \in Nat /\ Limit \in Nat /\ Limit > 0
    <3>1. stamp[r] \in 0..MaxNow
      BY <1>1 DEF IInv, TypeOK, CallsTypeOK
    <3>2. Available(stamp[r]) \in Nat /\ left = Available(stamp[r])
      BY <1>1, <3>1, AvailableType, FullNat DEF IInv, Left
    <3> QED
      BY <3>2, FullNat, QuotaAssumption DEF Allows
  <2> HIDE DEF left
  <2>2. PICK n \in Nat : n = Window - left + Limit - 1
    BY <2>1
  <2>3. /\ wait \in Nat
        /\ Limit * wait <= n /\ n < Limit * wait + Limit
        /\ Limit * wait \in Nat /\ Limit * (wait - 1) = Limit * wait - Limit
    <3>1. wait = n \div Limit
      BY <2>2 DEF RetryAfter
    <3>2. n \div Limit \in Nat /\ Limit * (n \div Limit) <= n
          /\ n < Limit * (n \div Limit) + Limit
      BY <2>1
    <3> HIDE DEF wait
    <3>3. wait \in Nat /\ Limit * wait <= n /\ n < Limit * wait + Limit
      BY <3>1, <3>2
    <3> QED
      BY <2>1, <3>3
  <2> HIDE DEF wait
  <2>4. left + Limit * wait >= Window /\ left + Limit * (wait - 1) < Window
    BY <2>1, <2>2, <2>3
  <2> QED
    BY <2>1, <2>3, <2>4 DEF Least, left, wait
<1> QED
  BY <1>1, Inductive, PTL

(* An expired key carries no information: every call still to be decided   *)
(* would have found its bucket full.                                       *)
THEOREM ExpiryIsHarmless == Spec => []ExpiryForgetsNothing
<1>1. IInv => ExpiryForgetsNothing
  BY ExpiredIsFull DEF ExpiryForgetsNothing, SlackCoversLag
<1> QED
  BY <1>1, Inductive, PTL

(* No script takes more from the bucket than the token it hands out, in    *)
(* whatever order the stamps come (token_bucket.lua 34).                   *)
THEOREM NoScriptDrains == Spec => NeverDrained
<1>1. ASSUME IInv, NEW r \in Requests, Script(r)
      PROVE  NoDrain
  <2> DEFINE s == stamp[r]
  <2>1. /\ s \in 0..MaxNow /\ TypeOK
        /\ bucket.tokens \in Nat /\ bucket.tokens <= Full
        /\ spent \in Nat /\ Window \in Nat
    BY <1>1, FullNat, QuotaAssumption DEF IInv, TypeOK, CallsTypeOK
  <2>2. bucket.tokens <= Available(s) /\ Available(s) \in Nat
    BY <2>1, AvailableType, FullNat DEF Available
  <2>3. bucket'.tokens = Left(s)
    BY <1>1 DEF Script
  <2>4. CASE Allows(s)
    <3>1. Left(s) = Available(s) - Window /\ spent' - spent = 1
      BY <1>1, <2>1, <2>4 DEF Left, Script
    <3>2. (spent' - spent) * Window = Window
      BY <2>1, <3>1
    <3> QED
      BY <2>1, <2>2, <2>3, <3>1, <3>2 DEF NoDrain
  <2>5. CASE ~Allows(s)
    <3>1. Left(s) = Available(s) /\ spent' - spent = 0
      BY <1>1, <2>1, <2>5 DEF Left, Script
    <3>2. (spent' - spent) * Window = 0
      BY <2>1, <3>1
    <3> QED
      BY <2>1, <2>2, <2>3, <3>1, <3>2 DEF NoDrain
  <2> QED
    BY <2>4, <2>5
<1>2. ASSUME IInv, UNCHANGED bucketVars
      PROVE  NoDrain
  <2>1. spent' - spent = 0 /\ bucket.tokens \in Nat /\ Window \in Nat
    BY <1>2, FullNat, QuotaAssumption DEF IInv, TypeOK, bucketVars
  <2>2. (spent' - spent) * Window = 0
    BY <2>1
  <2> QED
    BY <1>2, <2>1, <2>2 DEF NoDrain, bucketVars
<1>3. ASSUME Restart
      PROVE  NoDrain
  BY <1>3 DEF Restart, Missing, NoDrain
<1>4. IInv /\ [Next]_vars => [NoDrain]_vars
  BY <1>1, <1>2, <1>3 DEF Next, Decide, LoseReply, vars
<1> QED
  BY <1>4, Inductive, PTL DEF Spec, NeverDrained
===============================================================================
