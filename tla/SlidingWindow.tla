--------------------------- MODULE SlidingWindow ---------------------------
(***************************************************************************)
(* The sliding window log limiter: scripts/sliding_window.lua run for the  *)
(* calls of LimiterCalls.  Redis keeps one sorted-set entry per admitted   *)
(* call, scored by its stamp.  The member is unique to the call            *)
(* (uniqueMember in redis.go) and the same when the client sends the       *)
(* script again, so the log is a set of calls.                             *)
(***************************************************************************)
EXTENDS LimiterCalls

VARIABLES
  log,       \* the calls that have an entry in the sorted set
  expireAt,  \* when the key expires
  counted    \* ghost: calls the script allowed since Redis last started

vars == <<callVars, log, expireAt, counted>>

ExpiryTimes == 0..(MaxNow + Window + Slack)

TypeOK ==
  /\ CallsTypeOK
  /\ log \subseteq Requests
  /\ expireAt \in ExpiryTimes
  /\ counted \subseteq Requests

Init ==
  /\ CallsInit
  /\ log = {}
  /\ expireAt = 0
  /\ counted = {}

(* An expired key reads as an empty set. *)
Live == IF now <= expireAt THEN log ELSE {}

(* Mutant: drops an entry a millisecond early. *)
SurvivingTooFew(s) == {q \in Live : s + 1 < stamp[q] + Window}

(* ZREMRANGEBYSCORE drops the scores up to and including the cutoff s - W. *)
Surviving(s) == {q \in Live : s < stamp[q] + Window}

Allows(s) == Cardinality(Surviving(s)) < Limit

(* Mutant: the time to live is set only when the key is made. *)
ScriptExpiringOnce(r) ==
  /\ log' = Surviving(stamp[r]) \cup (IF Allows(stamp[r]) THEN {r} ELSE {})
  /\ expireAt' = IF Live = {} THEN now + Window + Slack ELSE expireAt
  /\ counted' = IF Allows(stamp[r]) THEN counted \cup {r} ELSE counted

(* Mutant: the time to live accumulates. *)
ScriptExtending(r) ==
  /\ log' = Surviving(stamp[r]) \cup (IF Allows(stamp[r]) THEN {r} ELSE {})
  /\ expireAt' = expireAt + Window + Slack
  /\ counted' = IF Allows(stamp[r]) THEN counted \cup {r} ELSE counted

(* Mutant: throttled calls are logged as well. *)
ScriptLogsAll(r) ==
  /\ log' = Surviving(stamp[r]) \cup {r}
  /\ expireAt' = now + Window + Slack
  /\ counted' = IF Allows(stamp[r]) THEN counted \cup {r} ELSE counted

(* Redis runs the script for call r, whether or not its reply arrives.     *)
Script(r) ==
  /\ log' = Surviving(stamp[r]) \cup (IF Allows(stamp[r]) THEN {r} ELSE {})
  /\ expireAt' = now + Window + Slack
  /\ counted' = IF Allows(stamp[r]) THEN counted \cup {r} ELSE counted

Decide(r)    == Answer(r, Allows(stamp[r])) /\ Script(r)
LoseReply(r) == ReplyLost(r) /\ Script(r)

(* Redis is deployed without persistence, so a restart forgets the log. *)
Restart ==
  /\ log' = {}
  /\ expireAt' = 0
  /\ counted' = {}
  /\ UNCHANGED callVars

Next ==
  \/ \E r \in Requests :
       \/ Send(r) /\ UNCHANGED <<log, expireAt, counted>>
       \/ Decide(r)
       \/ LoseReply(r)
       \/ Fail(r) /\ UNCHANGED <<log, expireAt, counted>>
  \/ Tick /\ UNCHANGED <<log, expireAt, counted>>
  \/ Restart

Spec == Init /\ [][Next]_vars

-------------------------------------------------------------------------------
(* The reply's retry_after_ms to a throttled call stamped s: the time until *)
(* the oldest surviving entry ages out.                                     *)
Oldest(s) == CHOOSE t \in {stamp[q] : q \in Surviving(s)} :
               \A q \in Surviving(s) : t <= stamp[q]

(* Mutant: a millisecond short. *)
RetryAfterShort(s) == Oldest(s) + Window - s - 1

RetryAfter(s) == Oldest(s) + Window - s

-------------------------------------------------------------------------------
(* Properties *)

(* Calls allowed with a stamp from first up to but not including end. *)
CountedIn(first, end) == {r \in counted : first <= stamp[r] /\ stamp[r] < end}

(* What the code keeps whatever the order in which scripts run: a stretch  *)
(* shorter than the window by the lag of the stamps never admits more than *)
(* the limit.  A script with a later stamp drops entries that still count  *)
(* for a call with an earlier one, but never more than that                *)
(* (sliding_window.lua 23-35).                                             *)
AccurateUpToLag ==
  \A t \in 0..MaxNow :
    Cardinality(CountedIn(t, t + (Window - MaxLag))) <= Limit

(* What is left of "Exactly accurate at window boundaries" (limiter.go     *)
(* 19-20) when scripts run late: a call with the newest stamp sent so far  *)
(* is admitted only if fewer calls than the limit were admitted in the     *)
(* window before it, however old scripts dropped entries or the key        *)
(* expired (sliding_window.lua 23-35, 49).                                 *)
Newest(r) == \A q \in Requests : phase[q] # "idle" => stamp[q] <= stamp[r]

NewestSeesLimit ==
  \A r \in Requests :
    phase[r] \in InFlight /\ Newest(r) /\ Allows(stamp[r]) =>
      Cardinality({q \in counted : stamp[r] < stamp[q] + Window}) < Limit

(* A call is throttled only if the limit's worth of admitted calls really  *)
(* is inside its window: retries, losses and expiry leave no entry in the  *)
(* log that stands for no admitted call (sliding_window.lua 28-35).        *)
ThrottledHasCause ==
  \A r \in Requests :
    phase[r] # "throttled" /\ phase'[r] = "throttled" =>
      Cardinality({q \in counted : stamp[r] < stamp[q] + Window}) >= Limit

ThrottledOnlyWhenFull == [][ThrottledHasCause]_vars

(* Retry-After is honest: a throttled caller that comes back after the     *)
(* hint finds a free slot, unless others took it (sliding_window.lua       *)
(* 38-47).                                                                 *)
RetryAfterSuffices ==
  \A r \in Requests :
    phase[r] \in InFlight /\ ~Allows(stamp[r]) =>
      LET later == stamp[r] + RetryAfter(stamp[r])
      IN  Cardinality({q \in Surviving(stamp[r]) : later < stamp[q] + Window})
            < Limit
=============================================================================
