------------------------------- MODULE Console -------------------------------
(***************************************************************************)
(* The caller's console: the page of internal/console/static/app.js, which *)
(* sends real requests through the gateway, one at a time in a burst or    *)
(* from a flood loop, and shows what came back.  The page runs in one      *)
(* thread, so a piece of it between two awaits is one action; bursts and   *)
(* flood loops interleave at their awaits, and the replies of requests     *)
(* sent side by side come back in any order.                               *)
(*                                                                         *)
(* The gateway is the one of Gateway: what it answers is a free choice     *)
(* here.  An answer carries the quota headers only if the limiter decided  *)
(* (ratelimit.go 115-145).  The numbers of the meter, the countdown to the *)
(* reset, totals, times and wording are left out.                          *)
(***************************************************************************)
EXTENDS Naturals, Sequences, SequencesExt

CONSTANTS
  Floods,       \* flood loops that may run side by side
  BurstSizes,   \* what the send buttons send
  Identities,   \* the choices of the identity field, named for their tier
  Algorithm,    \* the gateway's algorithm
  MaxDots,      \* MAX_DOTS
  MaxRows       \* MAX_LOG_ROWS

ASSUME ConsoleAssumption ==
  /\ "burst" \notin Floods
  /\ BurstSizes \subseteq Nat \ {0}
  /\ Identities \subseteq {"anonymous", "free", "pro", "internal"}
  /\ "anonymous" \in Identities
  /\ Algorithm \in {"token_bucket", "sliding_window", "fixed_window"}
  /\ MaxDots \in Nat \ {0}
  /\ MaxRows \in 1..MaxDots

(* Of the page's few send buttons one sends the most. *)
ASSUME ButtonsAssumption == \E k \in BurstSizes : \A j \in BurstSizes : j <= k

VARIABLES
  identity,   \* the choice in the identity field
  flooding,   \* state.flooding
  loop,       \* where each flood loop is
  left,       \* requests of the burst not yet recorded
  disabled,   \* whether the send buttons are
  asked,      \* requests on their way
  decided,    \* requests the gateway has answered, in that order
  status,     \* the meter's status text
  badge,      \* the tier badge
  dots,       \* the dot grid, oldest first
  log         \* the response log, newest first

shown == <<status, badge, dots, log>>
vars == <<identity, flooding, loop, left, disabled, asked, decided, shown>>

(* A request of a burst is numbered by what the burst had left when it was *)
(* sent.  It keeps the identity that sendOne read.                         *)
Request(from, n) == [from |-> from, n |-> n, tier |-> identity]

Longest == CHOOSE k \in BurstSizes : \A j \in BurstSizes : j <= k

Requests == [from : Floods \cup {"burst"}, n : 0..Longest, tier : Identities]

(* "upstream" is a request let through that the upstream failed, "both"    *)
(* such a one that was let through without a quota, "error" one that fetch *)
(* threw an error for.                                                     *)
Outcomes ==
  {"allowed", "throttled", "upstream", "degraded", "both", "unavailable", "error"}

HasQuota(outcome) == outcome \in {"allowed", "throttled", "upstream"}

Dots == {"ok", "rejected", "failed"}
Details == {"throttled", "failed", "degraded", "allowed"}
Rows == [dot : Dots, detail : Details]
Statuses == {"", "degraded", "throttled", "allowed"}
Badges == {"anonymous", "free", "pro", "internal", "custom"}

TypeOK ==
  /\ identity \in Identities
  /\ flooding \in BOOLEAN
  /\ loop \in [Floods -> {"none", "asking", "paused"}]
  /\ left \in 0..Longest
  /\ disabled \in BOOLEAN
  /\ asked \subseteq Requests
  /\ decided \in Seq(Requests)
  /\ status \in Statuses
  /\ badge \in Badges
  /\ dots \in Seq(Dots) /\ Len(dots) <= MaxDots
  /\ log \in Seq(Rows) /\ Len(log) <= MaxRows

Init ==
  /\ identity = "anonymous"
  /\ flooding = FALSE
  /\ loop = [f \in Floods |-> "none"]
  /\ left = 0
  /\ disabled = FALSE
  /\ asked = {}
  /\ decided = <<>>
  /\ status = ""
  /\ badge = "anonymous"
  /\ dots = <<>>
  /\ log = <<>>

-------------------------------------------------------------------------------
(* The visitor *)

(* A custom key that is empty or unknown makes an anonymous caller, too. *)
ChooseIdentity(i) ==
  /\ identity # i
  /\ identity' = i
  /\ UNCHANGED <<flooding, loop, left, disabled, asked, decided, shown>>

(* Mutant: the whole burst is sent at once. *)
AllAtOnce(k) == {Request("burst", n) : n \in 1..k}

(* What a burst of k sends before it awaits anything. *)
First(k) == {Request("burst", k)}

(* sendBurst, from a button that is enabled. *)
SendBurst(k) ==
  /\ ~disabled
  /\ disabled' = TRUE
  /\ left' = k
  /\ asked' = asked \cup First(k)
  /\ UNCHANGED <<identity, flooding, loop, decided, shown>>

(* toggleFlood, on: a new loop, whether or not an old one has ended. *)
StartFlood(f) ==
  /\ ~flooding
  /\ loop[f] = "none"
  /\ flooding' = TRUE
  /\ loop' = [loop EXCEPT ![f] = "asking"]
  /\ asked' = asked \cup {Request(f, 0)}
  /\ UNCHANGED <<identity, left, disabled, decided, shown>>

(* toggleFlood, off: each loop sees it when it next wakes up. *)
StopFlood ==
  /\ flooding
  /\ flooding' = FALSE
  /\ UNCHANGED <<identity, loop, left, disabled, asked, decided, shown>>

(* Mutant: only the log is cleared. *)
ClearLogOnly ==
  /\ log' = <<>>
  /\ UNCHANGED <<identity, flooding, loop, left, disabled, asked, decided,
                 status, badge, dots>>

ClearLog ==
  /\ log' = <<>>
  /\ dots' = <<>>
  /\ UNCHANGED <<identity, flooding, loop, left, disabled, asked, decided,
                 status, badge>>

-------------------------------------------------------------------------------
(* The gateway *)

(* A request reaches the gateway and is answered. *)
Answer(r) ==
  /\ r \in asked
  /\ asked' = asked \ {r}
  /\ decided' = Append(decided, r)
  /\ UNCHANGED <<identity, flooding, loop, left, disabled, shown>>

(* The quotas of tenants.json and the limit each algorithm advertises. *)
Quota ==
  [anonymous |-> [limit |-> 20,     burst |-> 20],
   free      |-> [limit |-> 100,    burst |-> 150],
   pro       |-> [limit |-> 5000,   burst |-> 10000],
   internal  |-> [limit |-> 100000, burst |-> 200000]]

HeaderLimit(tier) ==
  IF Algorithm = "token_bucket" THEN Quota[tier].burst ELSE Quota[tier].limit

-------------------------------------------------------------------------------
(* What the page makes of an answer *)

DescribeTier(limit) ==
  CASE limit = 20     -> "anonymous"
    [] limit = 150    -> "free"
    [] limit = 10000  -> "pro"
    [] limit = 200000 -> "internal"
    [] OTHER          -> "custom"

(* The meter changes only for an answer with quota headers. *)
UpdateMeter(r, outcome) ==
  IF HasQuota(outcome)
    THEN /\ badge' = DescribeTier(HeaderLimit(r.tier))
         /\ status' = CASE outcome = "degraded"  -> "degraded"
                        [] outcome = "throttled" -> "throttled"
                        [] outcome = "allowed"   -> "allowed"
                        [] OTHER                 -> status
    ELSE UNCHANGED <<badge, status>>

(* A degraded answer is the upstream's, with the degraded header. *)
Dot(outcome) ==
  CASE outcome = "throttled"               -> "rejected"
    [] outcome \in {"allowed", "degraded"} -> "ok"
    [] OTHER                               -> "failed"

Detail(outcome) ==
  CASE outcome = "throttled"           -> "throttled"
    [] outcome = "error"               -> "failed"
    [] outcome \in {"degraded", "both"} -> "degraded"
    [] OTHER                           -> "allowed"

(* Mutant: the grid is not trimmed. *)
AppendDotUntrimmed(outcome) == dots' = Append(dots, Dot(outcome))

AppendDot(outcome) ==
  dots' = LET all == Append(dots, Dot(outcome))
          IN  IF Len(all) > MaxDots THEN Tail(all) ELSE all

AppendLog(outcome) ==
  log' = LET row == [dot |-> Dot(outcome), detail |-> Detail(outcome)]
         IN  SubSeq(<<row>> \o log, 1,
                    IF Len(log) < MaxRows THEN Len(log) + 1 ELSE MaxRows)

(* The await of sendOne is over: the burst sends the next request or       *)
(* enables the buttons, a flood loop pauses.                               *)
Continue(r) ==
  \/ /\ r.from = "burst"
     /\ left' = left - 1
     /\ disabled' = (left' > 0)
     /\ asked' = IF left' > 0 THEN asked \cup {Request("burst", left')} ELSE asked
     /\ UNCHANGED loop
  \/ /\ r.from # "burst"
     /\ loop' = [loop EXCEPT ![r.from] = "paused"]
     /\ UNCHANGED <<left, disabled, asked>>

(* record: the answer that came i-th reaches the page. *)
Record(i, outcome) ==
  /\ decided' = RemoveAt(decided, i)
  /\ UpdateMeter(decided[i], outcome)
  /\ AppendDot(outcome)
  /\ AppendLog(outcome)
  /\ Continue(decided[i])
  /\ UNCHANGED <<identity, flooding>>

(* Mutant: the flag is not looked at again. *)
WakeRegardless(f) ==
  /\ loop[f] = "paused"
  /\ loop' = [loop EXCEPT ![f] = "asking"]
  /\ asked' = asked \cup {Request(f, 0)}
  /\ UNCHANGED <<identity, flooding, left, disabled, decided, shown>>

(* The pause of a flood loop is over: it goes on, or ends. *)
Wake(f) ==
  /\ loop[f] = "paused"
  /\ loop' = [loop EXCEPT ![f] = IF flooding THEN "asking" ELSE "none"]
  /\ asked' = IF flooding THEN asked \cup {Request(f, 0)} ELSE asked
  /\ UNCHANGED <<identity, flooding, left, disabled, decided, shown>>

-------------------------------------------------------------------------------
Visit ==
  \/ \E i \in Identities : ChooseIdentity(i)
  \/ \E k \in BurstSizes : SendBurst(k)
  \/ \E f \in Floods : StartFlood(f)
  \/ StopFlood
  \/ ClearLog

RecordFrom(from) ==
  \E i \in DOMAIN decided : decided[i].from = from /\ \E o \in Outcomes : Record(i, o)

AnswerFrom(from) == \E r \in asked : r.from = from /\ Answer(r)

Next ==
  \/ Visit
  \/ \E from \in Floods \cup {"burst"} : AnswerFrom(from) \/ RecordFrom(from)
  \/ \E f \in Floods : Wake(f)

(* Every fetch ends, with an answer or an error, and every timer fires.    *)
(* Nothing is assumed of the visitor.                                      *)
Fairness ==
  /\ \A from \in Floods \cup {"burst"} :
       WF_vars(AnswerFrom(from)) /\ WF_vars(RecordFrom(from))
  /\ \A f \in Floods : WF_vars(Wake(f))

Spec == Init /\ [][Next]_vars /\ Fairness

-------------------------------------------------------------------------------
(* Properties *)

(* A flood that is stopped stops, even if it was toggled off and on again  *)
(* within a loop's pause and two loops run (app.js 109-124), and a burst   *)
(* ends and gives the buttons back, whatever the answers (app.js 92-105).  *)
EveryLoopEnds ==
  /\ <>[]~flooding => <>[](\A f \in Floods : loop[f] = "none")
  /\ disabled ~> ~disabled

(* "Sent sequentially rather than in parallel so the dot grid and the log *)
(* read in the order the limiter actually saw them" (app.js 94-96): no     *)
(* answer of a burst is recorded before another answer of the burst that   *)
(* the gateway gave earlier, whatever flood loops run beside it.           *)
InLimiterOrder ==
  [][\A i \in DOMAIN decided :
       decided' = RemoveAt(decided, i) /\ decided[i].from = "burst" =>
         \A j \in 1..(i - 1) : decided[j].from # "burst"]_vars

(* The log's rows are the newest dots of the grid, in reverse: both tell   *)
(* the same story however they were trimmed and cleared (app.js 206-246,   *)
(* 260-263).                                                               *)
LogMirrorsDots ==
  LET n == Len(log)
  IN  /\ n = IF Len(dots) < MaxRows THEN Len(dots) ELSE MaxRows
      /\ \A k \in 1..n : log[k].dot = dots[Len(dots) + 1 - k]

(* The page tells a visitor that quotas are not enforced at the moment     *)
(* (app.js 166-169): if the newest row says degraded, so does the meter.   *)
DegradedIsShown ==
  log # <<>> /\ log[1].detail = "degraded" => status = "degraded"
===============================================================================
