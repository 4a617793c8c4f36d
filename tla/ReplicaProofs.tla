---------------------------- MODULE ReplicaProofs ----------------------------
(***************************************************************************)
(* Proofs of Replica's safety properties for any number of requests and    *)
(* any grace.  The inductive invariant says, phase by phase, what the two  *)
(* listeners and the requests look like; the drain's promise is that the   *)
(* admin listener closes only on an idle gateway or a spent deadline.      *)
(***************************************************************************)
EXTENDS Replica, TLAPS

(* Nothing runs before the servers do, and a listener is not closed before *)
(* run closes it.                                                          *)
NotYetServing ==
  phase \in {"down", "starting"} => busy["gateway"] = {}

NotYetClosed ==
  /\ phase = "starting" => errCh = {}
  /\ phase \in {"starting", "serving", "draining"} => listener["admin"] # "closed"

(* The gateway's listener is not open once the drain has begun. *)
ShutOut == Draining => listener["gateway"] \in {"closed", "failed"}

(* run goes on to the admin server when the gateway is idle or out of time.*)
Drain == phase = "closing" => busy["gateway"] = {} \/ grace = 0

IInv ==
  /\ TypeOK
  /\ NotYetServing
  /\ NotYetClosed
  /\ ShutOut
  /\ Drain
  /\ DrainLosesNothing

LEMMA InitIInv == Init => IInv
<1> SUFFICES ASSUME Init PROVE IInv
  OBVIOUS
<1> USE DEF Init
<1>1. TypeOK
  <2>1. busy \in [Servers -> SUBSET (Clients \cup Pages)]
    OBVIOUS
  <2>2. \A s \in Servers : busy[s] \subseteq Arrivals[s]
    OBVIOUS
  <2>3. listener \in [Servers -> {"new", "open", "closed", "failed"}]
    OBVIOUS
  <2>4. grace \in 0..Grace
    BY GraceAssumption
  <2> QED BY <2>1, <2>2, <2>3, <2>4 DEF TypeOK, Phases
<1>2. NotYetServing /\ NotYetClosed /\ ShutOut /\ Drain /\ DrainLosesNothing
  BY DEF NotYetServing, NotYetClosed, ShutOut, Draining, Drain, Servers,
         DrainLosesNothing
<1> QED BY <1>1, <1>2 DEF IInv

LEMMA ExitIInv ==
  ASSUME IInv, NEW how \in {"clean", "error", "crash"}, Exit(how),
         phase # "down",
         busy["gateway"] = {} \/ how = "crash" \/ grace = 0
           \/ (how = "error" /\ errCh # {})
  PROVE  IInv'
  BY DEF Exit, IInv, TypeOK, Phases, Servers, Arrivals, NotYetServing, NotYetClosed,
         ShutOut, Draining, Drain, DrainLosesNothing

LEMMA StepIInv == IInv /\ [Next]_vars => IInv'
<1> SUFFICES ASSUME IInv, [Next]_vars PROVE IInv'
  OBVIOUS
<1> USE DEF Servers, Phases, Arrivals
<1>1. CASE Start
  BY <1>1, GraceAssumption
     DEF Start, IInv, TypeOK, NotYetServing, NotYetClosed, ShutOut, Draining,
         Drain, DrainLosesNothing
<1>2. CASE RefuseToStart
  BY <1>2, ExitIInv DEF RefuseToStart, IInv, NotYetServing
<1>3. CASE Progress
  <2>1. CASE Serve
    BY <2>1 DEF Serve, IInv, TypeOK, NotYetServing, NotYetClosed, ShutOut,
                Draining, Drain, DrainLosesNothing
  <2>2. CASE SelectError
    BY <2>2, ExitIInv DEF SelectError
  <2>3. CASE SelectSignal
    BY <2>3 DEF SelectSignal, Shut, IInv, TypeOK, NotYetServing, NotYetClosed,
                ShutOut, Draining, Drain, DrainLosesNothing
  <2>4. CASE Drained
    BY <2>4 DEF Drained, ShutdownReturns, Shut, IInv, TypeOK, NotYetServing,
                NotYetClosed, ShutOut, Draining, Drain, DrainLosesNothing
  <2>5. CASE Stopped
    BY <2>5, ExitIInv DEF Stopped, IInv, Drain
  <2> QED BY <1>3, <2>1, <2>2, <2>3, <2>4, <2>5 DEF Progress
<1>4. CASE Signal
  BY <1>4 DEF Signal, IInv, TypeOK, NotYetServing, NotYetClosed, ShutOut,
              Draining, Drain, DrainLosesNothing
<1>5. CASE Crash
  BY <1>5, ExitIInv DEF Crash
<1>6. CASE Pass
  BY <1>6, GraceAssumption
     DEF Pass, IInv, TypeOK, NotYetServing, NotYetClosed, ShutOut, Draining,
         Drain, DrainLosesNothing
<1>7. ASSUME NEW s \in Servers, Listen(s) \/ ListenFails(s) PROVE IInv'
  <2>1. /\ phase \in {"serving", "draining", "closing"} /\ listener[s] \notin {"closed", "failed"}
        /\ \E l \in {"open", "failed"} : listener' = [listener EXCEPT ![s] = l]
        /\ errCh' = errCh \/ errCh' = errCh \cup {s}
        /\ UNCHANGED <<phase, signalled, busy, grace, exit, cut>>
    BY <1>7 DEF Listen, ListenFails, Running
  <2>2. TypeOK'
    BY <2>1 DEF IInv, TypeOK
  <2>3. NotYetServing' /\ Drain'
    BY <2>1 DEF IInv, NotYetServing, Drain
  <2>4. NotYetClosed'
    BY <2>1 DEF IInv, TypeOK, NotYetClosed
  <2>5. ShutOut'
    BY <2>1 DEF IInv, TypeOK, ShutOut, Draining
  <2>6. DrainLosesNothing'
    BY <2>1 DEF IInv, DrainLosesNothing
  <2> QED
    BY <2>2, <2>3, <2>4, <2>5, <2>6 DEF IInv
<1>8. ASSUME NEW s \in Servers, NEW r \in Arrivals[s], Accept(s, r) PROVE IInv'
  BY <1>8 DEF Accept, Running, IInv, TypeOK, NotYetServing,
              NotYetClosed, ShutOut, Draining, Drain, DrainLosesNothing
<1>9. ASSUME NEW s \in Servers, NEW r \in Arrivals[s], Finish(s, r) PROVE IInv'
  BY <1>9 DEF Finish, IInv, TypeOK, NotYetServing, NotYetClosed, ShutOut,
              Draining, Drain, DrainLosesNothing
<1>10. CASE UNCHANGED vars
  BY <1>10 DEF vars, IInv, TypeOK, NotYetServing, NotYetClosed, ShutOut,
               Draining, Drain, DrainLosesNothing
<1> QED
  BY <1>1, <1>2, <1>3, <1>4, <1>5, <1>6, <1>7, <1>8, <1>9, <1>10 DEF Next

LEMMA AlwaysIInv == Spec => []IInv
  BY InitIInv, StepIInv, PTL DEF Spec

(* A request is cut off only by a crash, a failed listener or the end of   *)
(* the deadline, never by the drain itself (main.go 223-231).              *)
THEOREM DrainIsGraceful == Spec => []DrainLosesNothing
<1>1. IInv => DrainLosesNothing
  BY DEF IInv
<1> QED BY <1>1, AlwaysIInv, PTL

(* As long as requests are drained within the deadline the admin listener  *)
(* is not shut down (main.go 228-231).                                     *)
THEOREM AdminOutlastsDrain == Spec => []AdminWatchesDrain
<1>1. IInv => AdminWatchesDrain
  BY DEF IInv, AdminWatchesDrain, TypeOK, Phases, NotYetServing, NotYetClosed,
         Drain
<1> QED BY <1>1, AlwaysIInv, PTL

(* No request is taken up once the drain has begun, even by a goroutine    *)
(* that gets to its ListenAndServe only then (main.go 200-204, 228).       *)
THEOREM DrainTakesNothingNew == Spec => NothingNewWhileDraining
<1>1. IInv /\ [Next]_vars =>
        [Draining => busy'["gateway"] \subseteq busy["gateway"]]_vars
  <2> SUFFICES ASSUME IInv, Next, Draining
               PROVE  busy'["gateway"] \subseteq busy["gateway"]
    BY DEF vars
  <2> USE DEF Servers, Arrivals
  <2>1. \/ UNCHANGED busy
        \/ busy' = [s \in Servers |-> {}]
        \/ \E s \in Servers : \E r \in Arrivals[s] : Accept(s, r) \/ Finish(s, r)
    BY DEF Next, Start, RefuseToStart, Progress, Serve, SelectError, Drained,
           SelectSignal, Stopped, Exit, Signal, Crash, Pass, Listen, ListenFails
  <2>2. ASSUME NEW s \in Servers, NEW r \in Arrivals[s], Accept(s, r)
        PROVE  busy'["gateway"] = busy["gateway"]
    BY <2>2 DEF Accept, IInv, TypeOK, ShutOut
  <2>3. ASSUME NEW s \in Servers, NEW r \in Arrivals[s], Finish(s, r)
        PROVE  busy'["gateway"] \subseteq busy["gateway"]
    BY <2>3 DEF Finish, IInv, TypeOK
  <2> QED BY <2>1, <2>2, <2>3
<1> QED BY <1>1, AlwaysIInv, PTL DEF Spec, NothingNewWhileDraining

(* Every phase, listener and request keeps its type: the deadline never    *)
(* runs below nothing, and a server works on its own arrivals only.        *)
THEOREM TypeCorrect == Spec => []TypeOK
<1>1. IInv => TypeOK
  BY DEF IInv
<1> QED BY <1>1, AlwaysIInv, PTL
===============================================================================
