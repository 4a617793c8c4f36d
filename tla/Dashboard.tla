------------------------------ MODULE Dashboard ------------------------------
(***************************************************************************)
(* The operator's dashboard: the page of internal/dashboard/static/app.js  *)
(* polls /api/stats of the admin server (handleStats in dashboard.go) and  *)
(* turns the cumulative counters it gets into rates.  Polls overlap: the   *)
(* timer sends one every second and a burst of the simulator one more, and *)
(* their replies come back in any order.  handleStats reads the counters   *)
(* first and the uptime afterwards.  The process may die, be shut down and *)
(* start again with its counters at zero; Replica tells how.               *)
(*                                                                         *)
(* Counters of different decisions are treated alike, so there is one.     *)
(* The tiers' shares, the latencies and the layout are left out.           *)
(***************************************************************************)
EXTENDS Integers

CONSTANTS
  Polls,       \* polls that may overlap
  MinSample,   \* MIN_SAMPLE_SECONDS, in ticks
  StampLag,    \* longest time from Gather to the reading of the uptime
  PerTick,     \* bound on the decisions recorded in a tick
  MaxUptime    \* bound on the uptime: it stands still there

ASSUME DashboardAssumption ==
  /\ MinSample \in Nat \ {0}
  /\ StampLag \in Nat
  /\ PerTick \in Nat \ {0}
  /\ MaxUptime \in Nat

VARIABLES
  up,         \* the admin server answers
  uptime,     \* time since h.started
  count,      \* gateway_rate_limit_decisions_total
  poll,       \* how far each poll is
  reply,      \* the statistics it has gathered
  previous,   \* state.previous
  failures,   \* state.failures, up to the 3 that matter
  status      \* the status text

processVars == <<up, uptime, count>>
pageVars == <<previous, failures, status>>
vars == <<processVars, poll, reply, pageVars>>

MaxCount == PerTick * MaxUptime

(* Statistics carry a ghost: whether their process has ended. *)
Stats == [uptime : 0..MaxUptime, count : 0..MaxCount, healthy : BOOLEAN,
          old : BOOLEAN]
NoStats == [uptime |-> 0, count |-> 0, healthy |-> FALSE, old |-> TRUE]

AtLeast0(n) == IF n < 0 THEN 0 ELSE n

(* Mutant: the difference is not clamped. *)
SampleUnclamped(from, to) ==
  [n |-> to.count - from.count, elapsed |-> to.uptime - from.uptime]

(* Mutant: every sample is taken to span one interval. *)
SampleOfOneInterval(from, to) ==
  [n |-> AtLeast0(to.count - from.count), elapsed |-> MinSample]

(* A sample is drawn as n / elapsed; a restart draws no negative one. *)
Sample(from, to) ==
  [n |-> AtLeast0(to.count - from.count), elapsed |-> to.uptime - from.uptime]

(* What the chart can show. *)
Samples == [n : 0..MaxCount, elapsed : MinSample..MaxUptime]

LongEnough(from, to) == to.uptime - from.uptime >= MinSample

(* The answer to p is a sample when it is delivered. *)
Due(p) ==
  poll[p] = "answered" /\ previous.seen /\ LongEnough(previous.stats, reply[p])

PollPoints == {"idle", "asked", "gathered", "answered", "lost"}

(* No rate that is drawn is negative, even if a restart has reset the      *)
(* counters (app.js 227-228).                                              *)
TypeOK ==
  /\ up \in BOOLEAN
  /\ uptime \in 0..MaxUptime
  /\ count \in 0..MaxCount
  /\ poll \in [Polls -> PollPoints]
  /\ reply \in [Polls -> Stats]
  /\ previous \in [seen : BOOLEAN, stats : Stats]
  /\ \A p \in Polls : Due(p) => Sample(previous.stats, reply[p]) \in Samples
  /\ failures \in 0..3
  /\ status \in {"unknown", "healthy", "degraded", "down"}

Init ==
  /\ up = FALSE
  /\ uptime = 0
  /\ count = 0
  /\ poll = [p \in Polls |-> "idle"]
  /\ reply = [p \in Polls |-> NoStats]
  /\ previous = [seen |-> FALSE, stats |-> NoStats]
  /\ failures = 0
  /\ status = "unknown"

-------------------------------------------------------------------------------
(* The process *)

(* h.started is set and the counters are registered shortly before the     *)
(* admin server listens; the model does both at once.                      *)
Start ==
  /\ ~up
  /\ up' = TRUE
  /\ UNCHANGED <<uptime, count, poll, reply, pageVars>>

Working == {"asked", "gathered"}

(* What it worked on breaks off, and what is known of it is old. *)
End ==
  /\ up
  /\ up' = FALSE
  /\ uptime' = 0
  /\ count' = 0
  /\ poll' = [p \in Polls |-> IF poll[p] \in Working THEN "lost" ELSE poll[p]]
  /\ reply' = [p \in Polls |->
                 IF poll[p] = "answered" THEN [reply[p] EXCEPT !.old = TRUE]
                                         ELSE NoStats]
  /\ previous' = [previous EXCEPT !.stats.old = TRUE]
  /\ UNCHANGED <<failures, status>>

(* A handler does not stay longer than StampLag between its two readings. *)
Tick ==
  /\ up
  /\ uptime < MaxUptime
  /\ \A p \in Polls : poll[p] = "gathered" => uptime < reply[p].uptime + StampLag
  /\ uptime' = uptime + 1
  /\ \E k \in 0..PerTick : count' = count + k
  /\ UNCHANGED <<up, poll, reply, pageVars>>

-------------------------------------------------------------------------------
(* A poll *)

At(p, point) == poll' = [poll EXCEPT ![p] = point]

(* Mutant: the failures are forgotten when the poll is sent. *)
AskForgets(p) ==
  /\ poll[p] = "idle"
  /\ At(p, IF up THEN "asked" ELSE "lost")
  /\ failures' = 0
  /\ UNCHANGED <<processVars, reply, previous, status>>

(* fetch: by the timer, or after a burst. *)
Ask(p) ==
  /\ poll[p] = "idle"
  /\ At(p, IF up THEN "asked" ELSE "lost")
  /\ UNCHANGED <<processVars, reply, pageVars>>

(* handleStats reads the counters; the model notes when. *)
Gather(p) ==
  /\ poll[p] = "asked"
  /\ At(p, "gathered")
  /\ reply' = [reply EXCEPT ![p] = [uptime |-> uptime, count |-> count,
                                    healthy |-> FALSE, old |-> FALSE]]
  /\ UNCHANGED <<processVars, pageVars>>

(* Or it cannot, and answers 500. *)
GatherFails(p) ==
  /\ poll[p] = "asked"
  /\ At(p, "lost")
  /\ UNCHANGED <<processVars, reply, pageVars>>

(* Then it reads the uptime, pings Redis, which answers before the         *)
(* deadline or does not, and replies.                                      *)
Stamp(p) ==
  /\ poll[p] = "gathered"
  /\ At(p, "answered")
  /\ \E answers \in BOOLEAN :
       reply' = [reply EXCEPT ![p].uptime = uptime, ![p].healthy = answers]
  /\ UNCHANGED <<processVars, pageVars>>

(* renderHeader: "Redis being unreachable is not the same as the gateway   *)
(* being down".                                                            *)
StatusOf(stats) == IF stats.healthy THEN "healthy" ELSE "degraded"

(* The baseline keeps what a sample needs. *)
Baseline(stats) == [seen |-> TRUE, stats |-> [stats EXCEPT !.healthy = FALSE]]

(* Mutant: a page that says "down" goes on saying so. *)
DeliverQuietly(p) ==
  /\ poll[p] = "answered"
  /\ At(p, "idle")
  /\ reply' = [reply EXCEPT ![p] = NoStats]
  /\ failures' = 0
  /\ status' = IF status = "down" THEN status ELSE StatusOf(reply[p])
  /\ previous' = IF previous.seen /\ ~LongEnough(previous.stats, reply[p])
                   THEN previous ELSE Baseline(reply[p])
  /\ UNCHANGED <<processVars>>

(* The page gets the statistics: the first ones are the baseline, later    *)
(* ones are measured against it, unless they come too soon after it.       *)
Deliver(p) ==
  /\ poll[p] = "answered"
  /\ At(p, "idle")
  /\ reply' = [reply EXCEPT ![p] = NoStats]
  /\ failures' = 0
  /\ status' = StatusOf(reply[p])
  /\ previous' = IF previous.seen /\ ~LongEnough(previous.stats, reply[p])
                   THEN previous ELSE Baseline(reply[p])
  /\ UNCHANGED <<processVars>>

(* fetch fails, or its answer is not ok: one missed poll is a blip, the    *)
(* third says the gateway is gone.                                         *)
Miss(p) ==
  /\ poll[p] = "lost"
  /\ At(p, "idle")
  /\ failures' = IF failures < 3 THEN failures + 1 ELSE failures
  /\ status' = IF failures' = 3 THEN "down" ELSE status
  /\ UNCHANGED <<processVars, reply, previous>>

PollStep(p) ==
  \/ Ask(p) \/ Gather(p) \/ GatherFails(p) \/ Stamp(p) \/ Deliver(p) \/ Miss(p)

Next ==
  \/ Start \/ End \/ Tick \/ \E p \in Polls : PollStep(p)

(* The timer keeps polling and every poll ends, by fetch's answer or error. *)
Fairness == \A p \in Polls : WF_vars(PollStep(p))

Spec == Init /\ [][Next]_vars /\ Fairness

-------------------------------------------------------------------------------
(* Properties *)

(* The chart shows no rate that was never reached: "dividing a 50-request  *)
(* delta by 0.05s would draw a 1000/s spike that never happened" (app.js   *)
(* 205-207).  Whatever the order of replies, a sample between two          *)
(* statistics of one process stays within what a process records per tick, *)
(* give or take the time between the two readings of handleStats.          *)
RatesAreReal ==
  \A p \in Polls :
    Due(p) /\ ~previous.stats.old /\ ~reply[p].old =>
      LET sample == Sample(previous.stats, reply[p])
      IN  sample.n <= PerTick * (sample.elapsed + StampLag)

(* "Several in a row means the gateway is gone" (app.js 250): if it is     *)
(* gone for good the page says so for good, late replies notwithstanding.  *)
GoneIsNoticed == <>[]~up => <>[](status = "down")

(* And if the admin server is up for good, and fails to gather its         *)
(* statistics finitely often only, the page takes that back and tells a    *)
(* Redis that stays gone, or stays, from it (app.js 58-70, 216, 243).      *)
Answered == {p \in Polls : poll[p] = "answered"}

BackIsNoticed ==
  <>[]up /\ <>[][\A p \in Polls : ~GatherFails(p)]_vars =>
    /\ <>[](\A p \in Answered : reply[p].healthy) => <>[](status = "healthy")
    /\ <>[](\A p \in Answered : ~reply[p].healthy) => <>[](status = "degraded")
===============================================================================
