---------------------------- MODULE TokenBucket ----------------------------
(***************************************************************************)
(* The token bucket limiter: scripts/token_bucket.lua run for the calls of *)
(* LimiterCalls, each asking for one token (redis.go 101).                 *)
(*                                                                         *)
(* The script's tokens are fractions, refilled at limit/window per second  *)
(* (ratePerSecond in limiter.go).  Here a token is Window units, so that   *)
(* a millisecond refills exactly Limit units; the rounding of the script's *)
(* floating point is left out.                                             *)
(***************************************************************************)
EXTENDS LimiterCalls, Integers

VARIABLES
  bucket,   \* the hash: tokens and updated_at, and when its key expires
  spent,    \* ghost: tokens handed out since Redis last started
  since,    \* ghost: the earliest stamp a script ran with since then
  rewound   \* ghost: how far, in all, scripts moved updated_at backwards

vars == <<callVars, bucket, spent, since, rewound>>

Full == Burst * Window

Missing == [made |-> FALSE, tokens |-> 0, updated |-> 0, expireAt |-> 0]

TypeOK ==
  /\ CallsTypeOK
  /\ bucket \in [made : BOOLEAN, tokens : 0..Full, updated : 0..MaxNow,
                 expireAt : Nat]
  /\ spent \in Nat
  /\ since \in 0..MaxNow
  /\ rewound \in Nat

Init ==
  /\ CallsInit
  /\ bucket = Missing
  /\ spent = 0
  /\ since = 0
  /\ rewound = 0

-------------------------------------------------------------------------------
(* The script *)

Live == bucket.made /\ now <= bucket.expireAt

Least(a, b) == IF a <= b THEN a ELSE b

(* Mutant: a stamp behind the last update drains. *)
ElapsedUnclamped(s) == s - bucket.updated

(* Refill for the time since the last update; a stamp that is behind it    *)
(* refills nothing.                                                        *)
Elapsed(s) == IF bucket.updated < s THEN s - bucket.updated ELSE 0

Refill(s) == Least(Full, bucket.tokens + Limit * Elapsed(s))

(* A key never seen, or expired, starts with a full bucket. *)
Available(s) == IF Live THEN Refill(s) ELSE Full

Allows(s) == Available(s) >= Window

(* Mutant: the token is taken before it is looked for. *)
LeftUnchecked(s) == Available(s) - Window

Left(s) == IF Allows(s) THEN Available(s) - Window ELSE Available(s)

(* reset_after_ms, rounded up: how long until tokens units are a full      *)
(* bucket again.                                                           *)
ResetAfter(tokens) == (Full - tokens + Limit - 1) \div Limit

(* retry_after_ms of a throttled call, rounded up: how long until tokens   *)
(* units are a token.                                                      *)
RetryAfter(tokens) == (Window - tokens + Limit - 1) \div Limit

(* Mutant: the update time moves with an admitted call only. *)
ScriptForgetsTime(r) ==
  LET s == stamp[r]
  IN  /\ bucket' = [made     |-> TRUE,
                    tokens   |-> Left(s),
                    updated  |-> IF Allows(s) THEN s ELSE bucket.updated,
                    expireAt |-> now + ResetAfter(Left(s)) + Slack]
      /\ spent' = IF Allows(s) THEN spent + 1 ELSE spent
      /\ since' = IF bucket.made THEN Least(since, s) ELSE s
      /\ rewound' = IF bucket.made /\ s < bucket.updated
                      THEN rewound + (bucket.updated - s) ELSE rewound

(* Mutant: the key lives for the slack, however empty the bucket. *)
ScriptFixedLife(r) ==
  LET s == stamp[r]
  IN  /\ bucket' = [made     |-> TRUE,
                    tokens   |-> Left(s),
                    updated  |-> s,
                    expireAt |-> now + Slack]
      /\ spent' = IF Allows(s) THEN spent + 1 ELSE spent
      /\ since' = IF bucket.made THEN Least(since, s) ELSE s
      /\ rewound' = IF bucket.made /\ s < bucket.updated
                      THEN rewound + (bucket.updated - s) ELSE rewound

(* Redis runs the script for call r, whether or not its reply arrives.     *)
(* The update time is written whatever the verdict and whatever it was.    *)
Script(r) ==
  LET s == stamp[r]
  IN  /\ bucket' = [made     |-> TRUE,
                    tokens   |-> Left(s),
                    updated  |-> s,
                    expireAt |-> now + ResetAfter(Left(s)) + Slack]
      /\ spent' = IF Allows(s) THEN spent + 1 ELSE spent
      /\ since' = IF bucket.made THEN Least(since, s) ELSE s
      /\ rewound' = IF bucket.made /\ s < bucket.updated
                      THEN rewound + (bucket.updated - s) ELSE rewound

bucketVars == <<bucket, spent, since, rewound>>

Decide(r)    == Answer(r, Allows(stamp[r])) /\ Script(r)
LoseReply(r) == ReplyLost(r) /\ Script(r)

(* Redis is deployed without persistence, so a restart forgets the bucket. *)
Restart ==
  /\ bucket' = Missing
  /\ spent' = 0
  /\ since' = 0
  /\ rewound' = 0
  /\ UNCHANGED callVars

Next ==
  \/ \E r \in Requests :
       \/ Send(r) /\ UNCHANGED bucketVars
       \/ Decide(r)
       \/ LoseReply(r)
       \/ Fail(r) /\ UNCHANGED bucketVars
  \/ Tick /\ UNCHANGED bucketVars
  \/ Restart

Spec == Init /\ [][Next]_vars

-------------------------------------------------------------------------------
(* Properties *)

(* The quota as the README states and measures it (burst + rate x time,    *)
(* README.md 192-200) and as limiter.go 1-3 promises for concurrent        *)
(* replicas: tokens handed out never exceed the burst plus the refill of   *)
(* the time that passed.                                                   *)
NeverOverspends ==
  bucket.made => spent * Window <= Full + Limit * (now - since)

(* The same, whenever the scripts ran in the order of their stamps, which  *)
(* it takes: out of order RewindsAreRefilledAgain is all that is left.     *)
InOrderNeverOverspends == rewound = 0 => NeverOverspends

(* The account in any order: every millisecond by which a script moved     *)
(* updated_at backwards is refilled at most once more by the next one      *)
(* (token_bucket.lua 34-35, 59).                                           *)
RewindsAreRefilledAgain ==
  bucket.made =>
    bucket.tokens + spent * Window
      <= Full + Limit * (bucket.updated - since + rewound)

(* "A bucket that has had time to completely refill carries no             *)
(* information" (token_bucket.lua 55-58): when the key has expired, every  *)
(* call still to be decided would have found it full, provided the slack   *)
(* covers the lag of stamps.                                               *)
ExpiryForgetsNothing ==
  MaxLag <= Slack /\ bucket.made /\ ~Live =>
    \A r \in Requests : phase[r] \in InFlight => Refill(stamp[r]) = Full

(* Retry-After is honest: a throttled caller that comes back after the     *)
(* hint finds a token, unless others took it, and the hint asks it to wait *)
(* no millisecond longer than that takes (token_bucket.lua 49-53).         *)
RetryAfterSuffices ==
  \A r \in Requests :
    phase[r] \in InFlight /\ ~Allows(stamp[r]) =>
      LET left == Left(stamp[r])
          wait == RetryAfter(left)
      IN  Least(Full, left + Limit * wait) >= Window
            /\ left + Limit * (wait - 1) < Window

(* "Elapsed time is clamped at zero, so a clock that steps backwards       *)
(* cannot drain a bucket" (README.md 230-232): no script takes more than   *)
(* the token it hands out.                                                 *)
NoDrain ==
  bucket.made /\ bucket'.made =>
    bucket'.tokens + (spent' - spent) * Window >= bucket.tokens

NeverDrained == [][NoDrain]_vars
=============================================================================
