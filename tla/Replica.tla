------------------------------- MODULE Replica -------------------------------
(***************************************************************************)
(* The life of one gateway process: run in cmd/gateway/main.go 43-235.     *)
(* It starts two HTTP servers, each in a goroutine of its own, waits for a *)
(* signal or for one of them to fail, and drains them one after the other  *)
(* under a deadline they share.  net/http's servers are external: a        *)
(* listener that Shutdown was called on never opens, and Shutdown returns  *)
(* when no request is left or its context ends, without cutting requests.  *)
(***************************************************************************)
EXTENDS Naturals

CONSTANTS
  Clients,   \* requests to the gateway's listener
  Pages,     \* requests to the admin listener
  Grace      \* cfg.ShutdownTimeout, in ticks

ASSUME GraceAssumption == Grace \in Nat

VARIABLES
  phase,      \* where run is; "down" when there is no process
  listener,   \* the two servers
  errCh,      \* servers whose failure waits in the channel
  signalled,  \* ctx.Done
  busy,       \* per server, the requests it is working on
  grace,      \* what is left of shutdownCtx
  exit,       \* how the last process ended
  cut         \* ghost: gateway requests the last exit cut off

vars == <<phase, listener, errCh, signalled, busy, grace, exit, cut>>

Servers == {"gateway", "admin"}

Arrivals == [gateway |-> Clients, admin |-> Pages]

Phases == {"down", "starting", "serving", "draining", "closing"}

TypeOK ==
  /\ phase \in Phases
  /\ listener \in [Servers -> {"new", "open", "closed", "failed"}]
  /\ errCh \subseteq Servers
  /\ signalled \in BOOLEAN
  /\ busy \in [Servers -> SUBSET (Clients \cup Pages)]
  /\ \A s \in Servers : busy[s] \subseteq Arrivals[s]
  /\ grace \in 0..Grace
  /\ exit \in {"none", "clean", "error", "crash"}
  /\ cut \subseteq Clients

Init ==
  /\ phase = "down"
  /\ listener = [s \in Servers |-> "new"]
  /\ errCh = {}
  /\ signalled = FALSE
  /\ busy = [s \in Servers |-> {}]
  /\ grace = Grace
  /\ exit = "none"
  /\ cut = {}

-------------------------------------------------------------------------------
(* The main goroutine *)

(* The process ends and takes with it whatever it was working on. *)
Exit(how) ==
  /\ phase' = "down"
  /\ exit' = how
  /\ cut' = busy["gateway"]
  /\ busy' = [s \in Servers |-> {}]
  /\ signalled' = FALSE
  /\ UNCHANGED <<listener, errCh, grace>>

(* A new process reads its configuration.  Redis is pinged, and may fail.  *)
Start ==
  /\ phase = "down"
  /\ phase' = "starting"
  /\ listener' = [s \in Servers |-> "new"]
  /\ errCh' = {}
  /\ grace' = Grace
  /\ exit' = "none"
  /\ cut' = {}
  /\ UNCHANGED <<signalled, busy>>

(* The configuration, the algorithm or the tenant file is refused. *)
RefuseToStart == phase = "starting" /\ Exit("error")

(* Both servers get a goroutine, and run comes to its select. *)
Serve ==
  /\ phase = "starting"
  /\ phase' = "serving"
  /\ UNCHANGED <<listener, errCh, signalled, busy, grace, exit, cut>>

(* select, a server failed: run returns and main exits. *)
SelectError ==
  /\ phase = "serving"
  /\ errCh # {}
  /\ Exit("error")

Shut(s) == listener' = [listener EXCEPT ![s] = IF @ = "failed" THEN @ ELSE "closed"]

(* Mutant: both servers are shut down at the signal. *)
SelectSignalBoth ==
  /\ phase = "serving"
  /\ signalled
  /\ phase' = "draining"
  /\ listener' = [s \in Servers |-> "closed"]
  /\ UNCHANGED <<errCh, signalled, busy, grace, exit, cut>>

(* select, the signal: Shutdown of the gateway's server begins. *)
SelectSignal ==
  /\ phase = "serving"
  /\ signalled
  /\ phase' = "draining"
  /\ Shut("gateway")
  /\ UNCHANGED <<errCh, signalled, busy, grace, exit, cut>>

(* Mutant: the drain waits for its requests however long they take. *)
ReturnsWhenIdle(s) == busy[s] = {}

(* Mutant: the servers are closed, not shut down. *)
ReturnsAtOnce(s) == TRUE

(* Shutdown returns: no request is left, or the deadline has passed.  It   *)
(* does not wait for connections a handler has taken over, which carry     *)
(* upgraded protocols through the proxy; they are not modelled.            *)
ShutdownReturns(s) == busy[s] = {} \/ grace = 0

(* Then the admin server is shut down under what is left of the deadline. *)
Drained ==
  /\ phase = "draining"
  /\ ShutdownReturns("gateway")
  /\ phase' = "closing"
  /\ Shut("admin")
  /\ UNCHANGED <<errCh, signalled, busy, grace, exit, cut>>

Stopped ==
  /\ phase = "closing"
  /\ ShutdownReturns("admin")
  /\ Exit("clean")

-------------------------------------------------------------------------------
(* The servers' goroutines *)

Running == phase \in {"serving", "draining", "closing"}

(* Mutant: a listener opens although its server was shut down. *)
ListenRegardless(s) ==
  /\ Running
  /\ listener[s] \in {"new", "closed"}
  /\ listener' = [listener EXCEPT ![s] = "open"]
  /\ UNCHANGED <<phase, errCh, signalled, busy, grace, exit, cut>>

(* ListenAndServe binds its port, unless Shutdown came first. *)
Listen(s) ==
  /\ Running
  /\ listener[s] = "new"
  /\ listener' = [listener EXCEPT ![s] = "open"]
  /\ UNCHANGED <<phase, errCh, signalled, busy, grace, exit, cut>>

(* ListenAndServe returns an error other than ErrServerClosed. *)
ListenFails(s) ==
  /\ Running
  /\ listener[s] \in {"new", "open"}
  /\ listener' = [listener EXCEPT ![s] = "failed"]
  /\ errCh' = errCh \cup {s}
  /\ UNCHANGED <<phase, signalled, busy, grace, exit, cut>>

(* A request is taken up with its connection.  One that is first read just *)
(* after Shutdown, on a connection accepted just before, counts as taken   *)
(* up before: Shutdown waits for such a new connection.                    *)
Accept(s, r) ==
  /\ Running
  /\ listener[s] = "open"
  /\ r \in Arrivals[s]
  /\ r \notin busy[s]
  /\ busy' = [busy EXCEPT ![s] = @ \cup {r}]
  /\ UNCHANGED <<phase, listener, errCh, signalled, grace, exit, cut>>

Finish(s, r) ==
  /\ r \in busy[s]
  /\ busy' = [busy EXCEPT ![s] = @ \ {r}]
  /\ UNCHANGED <<phase, listener, errCh, signalled, grace, exit, cut>>

-------------------------------------------------------------------------------
(* The surroundings *)

(* SIGINT or SIGTERM; later ones are caught as well and change nothing. *)
Signal ==
  /\ phase # "down"
  /\ ~signalled
  /\ signalled' = TRUE
  /\ UNCHANGED <<phase, listener, errCh, busy, grace, exit, cut>>

Crash == phase # "down" /\ Exit("crash")

Draining == phase \in {"draining", "closing"}

(* Mutant: time runs on past the deadline. *)
PassBeyond ==
  /\ Draining
  /\ grace' = grace - 1
  /\ UNCHANGED <<phase, listener, errCh, signalled, busy, exit, cut>>

(* The deadline of the drain comes nearer. *)
Pass ==
  /\ Draining
  /\ grace > 0
  /\ grace' = grace - 1
  /\ UNCHANGED <<phase, listener, errCh, signalled, busy, exit, cut>>

(* What the process does of its own accord until it ends. *)
Progress == Serve \/ SelectError \/ SelectSignal \/ Drained \/ Stopped

Next ==
  \/ Start \/ RefuseToStart \/ Progress \/ Signal \/ Crash \/ Pass
  \/ \E s \in Servers :
       \/ Listen(s)
       \/ ListenFails(s)
       \/ \E r \in Arrivals[s] : Accept(s, r) \/ Finish(s, r)

(* The goroutine of run is scheduled and its deadline passes.  Nothing is  *)
(* assumed of the requests or of the listeners: they may take for ever.    *)
Fairness == WF_vars(Progress) /\ WF_vars(Pass)

Spec == Init /\ [][Next]_vars /\ Fairness

-------------------------------------------------------------------------------
(* Properties *)

(* "Drain in-flight requests before exiting so a rolling deploy does not   *)
(* return errors to callers mid-request" (main.go 223-224): a request is   *)
(* cut off only by a crash, a failed listener or the end of the deadline.  *)
DrainLosesNothing ==
  phase = "down" /\ cut # {} =>
    exit = "crash" \/ (exit = "error" /\ errCh # {}) \/ grace = 0

(* While requests are drained within the deadline, the admin listener      *)
(* still answers those who watch the drain (main.go 228-231).              *)
AdminWatchesDrain ==
  listener["admin"] = "closed" /\ busy["gateway"] # {} => grace = 0

(* Once the drain has begun no request is taken up, even if the server's   *)
(* goroutine gets to run only then (main.go 200-204, 228).                 *)
NothingNewWhileDraining ==
  [][Draining => busy'["gateway"] \subseteq busy["gateway"]]_vars

(* A signal ends the process, however long requests take (main.go          *)
(* 225-231).                                                               *)
SignalStops == signalled ~> phase = "down"
===============================================================================
