---------------------------- MODULE FixedWindow ----------------------------
(***************************************************************************)
(* The fixed window limiter: scripts/fixed_window.lua run for the calls of *)
(* LimiterCalls.  Redis keeps one counter per window index; the request    *)
(* that creates a counter sets its time to live, counted on Redis's clock  *)
(* from that moment, while the window index comes from the stamp.          *)
(***************************************************************************)
EXTENDS LimiterCalls

VARIABLES
  counter,   \* per window index: the value and the expiry time of its key
  counted    \* ghost: calls the script allowed since Redis last started

vars == <<callVars, counter, counted>>

WindowOf(s) == s \div Window

Windows == 0..WindowOf(MaxNow)

(* A missing key and an expired one read as zero; a key is still there in  *)
(* the millisecond its time to live ends.                                  *)
Missing == [value |-> 0, expireAt |-> 0]

Live(w) == IF now <= counter[w].expireAt THEN counter[w].value ELSE 0

ExpiryTimes == 0..(MaxNow + Window)

TypeOK ==
  /\ CallsTypeOK
  /\ counter \in [Windows -> [value : Nat, expireAt : ExpiryTimes]]
  /\ counted \subseteq Requests

Init ==
  /\ CallsInit
  /\ counter = [w \in Windows |-> Missing]
  /\ counted = {}

(* INCR, and PEXPIRE by the request that created the counter. *)
Count(s) == Live(WindowOf(s)) + 1

(* Mutant: every hit lengthens the life of the key. *)
IncrementedExtending(s) ==
  [value    |-> Count(s),
   expireAt |-> IF Count(s) = 1 THEN now + Window
                ELSE counter[WindowOf(s)].expireAt + Window]

(* Mutant: the key lives to the end of its window only. *)
IncrementedToWindowEnd(s) ==
  [value    |-> Count(s),
   expireAt |-> IF Count(s) = 1 THEN now + (WindowOf(s) + 1) * Window - 1 - s
                ELSE counter[WindowOf(s)].expireAt]

Incremented(s) ==
  [value    |-> Count(s),
   expireAt |-> IF Count(s) = 1 THEN now + Window
                ELSE counter[WindowOf(s)].expireAt]

(* Mutant: compares the count before this call. *)
AllowsOneMore(s) == Live(WindowOf(s)) <= Limit

Allows(s) == Count(s) <= Limit

(* Redis runs the script for call r, whether or not its reply arrives. *)
Script(r) ==
  /\ counter' = [counter EXCEPT ![WindowOf(stamp[r])] = Incremented(stamp[r])]
  /\ counted' = IF Allows(stamp[r]) THEN counted \cup {r} ELSE counted

Decide(r)   == Answer(r, Allows(stamp[r])) /\ Script(r)
LoseReply(r) == ReplyLost(r) /\ Script(r)

(* Redis is deployed without persistence (deploy/docker-compose.yml 20), so *)
(* a restart forgets every key.                                             *)
Restart ==
  /\ counter' = [w \in Windows |-> Missing]
  /\ counted' = {}
  /\ UNCHANGED callVars

Next ==
  \/ \E r \in Requests :
       \/ Send(r) /\ UNCHANGED <<counter, counted>>
       \/ Decide(r)
       \/ LoseReply(r)
       \/ Fail(r) /\ UNCHANGED <<counter, counted>>
  \/ Tick /\ UNCHANGED <<counter, counted>>
  \/ Restart

Spec == Init /\ [][Next]_vars

-------------------------------------------------------------------------------
(* Properties *)

(* Calls allowed with a stamp from first up to but not including end. *)
CountedIn(first, end) == {r \in counted : first <= stamp[r] /\ stamp[r] < end}

(* Redis runs a script at most one tick after it was stamped. *)
PromptScripts == MaxLag <= 1

(* With prompt scripts, an aligned window never admits more than the limit *)
(* although its counter's life is measured on another clock from another   *)
(* moment: the counter outlives the window it counts (fixed_window.lua     *)
(* 22-31).                                                                 *)
WindowRespectsLimit ==
  PromptScripts =>
    \A w \in Windows :
      Cardinality(CountedIn(w * Window, (w + 1) * Window)) <= Limit

(* No stretch of Window milliseconds, aligned or not, admits more than     *)
(* twice the limit: "admits up to 2x the limit across a window boundary"   *)
(* (limiter.go 23-25, fixed_window.lua 4-7).                               *)
AtMostTwiceLimit ==
  \A t \in 0..MaxNow : Cardinality(CountedIn(t, t + Window)) <= 2 * Limit
===============================================================================
