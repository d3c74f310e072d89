--------------------------- MODULE CircuitBreaker ---------------------------
(***************************************************************************)
(* The circuit breaker of one backend (internal/circuit/breaker.go), with  *)
(* the requests that go through it. A request asks Allow, runs for as long *)
(* as it likes, and reports its outcome, by which time the circuit may     *)
(* have changed state any number of times. A sibling replica may force the *)
(* circuit open, an operator may reset it, and the health checker writes   *)
(* the same health flag.                                                   *)
(*                                                                         *)
(* The states of different backends never touch one another: backendStates *)
(* is a map by backend, and each operation looks at one entry.             *)
(***************************************************************************)
EXTENDS Breaker, FiniteSets

CONSTANT Request

ASSUME RequestAssumption == IsFiniteSet(Request)

VARIABLES
    cb,        \* the *backendState (a missing entry is NewState)
    healthy,   \* the backend's health flag
    req,       \* each request: "idle", or admitted as "normal" (while the
               \* circuit was closed, or in an earlier half-open period) or
               \* as a "probe" of the current half-open period
    sinceOpen, \* history: age of the last change to open, up to Timeout
    trials     \* history: probes admitted in the current half-open period

vars == <<cb, healthy, req, sinceOpen, trials>>

TypeOK ==
    /\ cb \in BackendState
    /\ healthy \in BOOLEAN
    /\ req \in [Request -> {"idle", "normal", "probe"}]
    /\ sinceOpen \in 0..Timeout
    /\ trials \in Nat

Probes == {q \in Request : req[q] = "probe"}

\* Once the half-open period ends its probes are ordinary stragglers.
Demote(rs) == [q \in Request |-> IF rs[q] = "probe" THEN "normal" ELSE rs[q]]

Init ==
    /\ cb = NewState
    /\ healthy = TRUE
    /\ req = [q \in Request |-> "idle"]
    /\ sinceOpen = Timeout
    /\ trials = 0

Allow(q) ==
    /\ req[q] = "idle"
    /\ Admits(cb)
    /\ cb' = AfterAllow(cb)
    /\ IF cb'.state = "half-open"
       THEN /\ req' = [req EXCEPT ![q] = "probe"]
            /\ trials' = IF cb.state = "open" THEN 1 ELSE trials + 1
       ELSE /\ req' = [req EXCEPT ![q] = "normal"]
            /\ UNCHANGED trials
    /\ UNCHANGED <<healthy, sinceOpen>>

RecordSuccess(q) ==
    /\ req[q] # "idle"
    /\ cb' = AfterSuccess(cb)
    /\ healthy' = (healthy \/ Closes(cb))
    /\ LET rest == [req EXCEPT ![q] = "idle"]
       IN req' = IF Closes(cb) THEN Demote(rest) ELSE rest
    /\ UNCHANGED <<sinceOpen, trials>>

RecordFailure(q) ==
    /\ req[q] # "idle"
    /\ \E trips \in TripChoices(cb) :
        /\ cb' = AfterFailure(cb, trips)
        /\ healthy' = (healthy /\ ~trips)
        /\ sinceOpen' = IF trips THEN 0 ELSE sinceOpen
        /\ LET rest == [req EXCEPT ![q] = "idle"]
           IN req' = IF trips THEN Demote(rest) ELSE rest
    /\ UNCHANGED trials

ForceOpen ==
    /\ cb.state # "open"
    /\ cb' = AfterForceOpen(cb)
    /\ healthy' = FALSE
    /\ sinceOpen' = 0
    /\ req' = Demote(req)
    /\ UNCHANGED trials

\* The admin endpoint and the removal of a backend on reload; healthy is left alone.
Reset ==
    /\ cb' = NewState
    /\ req' = Demote(req)
    /\ UNCHANGED <<healthy, sinceOpen, trials>>

\* The other writers of the flag: health checker, outlier detection, drain.
SetHealthy ==
    /\ healthy' = ~healthy
    /\ UNCHANGED <<cb, req, sinceOpen, trials>>

Tick ==
    /\ cb.lastFailure < Timeout \/ sinceOpen < Timeout
    /\ cb' = [cb EXCEPT !.lastFailure = Older(@)]
    /\ sinceOpen' = Older(sinceOpen)
    /\ UNCHANGED <<healthy, req, trials>>

Next ==
    \/ \E q \in Request : Allow(q) \/ RecordSuccess(q) \/ RecordFailure(q)
    \/ ForceOpen
    \/ Reset
    \/ SetHealthy
    \/ Tick

Spec == Init /\ [][Next]_vars

(***************************************************************************)
(* Time passes, every admitted request ends (per-try and client timeouts   *)
(* bound it) and clients keep sending requests that the proxy offers to    *)
(* the backend.                                                            *)
(***************************************************************************)
Fairness ==
    /\ WF_vars(Tick)
    /\ WF_vars(\E q \in Request : Allow(q))
    /\ \A q \in Request : WF_vars(RecordSuccess(q) \/ RecordFailure(q))

FairSpec == Spec /\ Fairness

-----------------------------------------------------------------------------
(***************************************************************************)
(* The counters mean what each state assumes of them: a closed circuit     *)
(* holds no trace of an earlier recovery and has not yet reached the       *)
(* failure threshold; a half-open one has admitted no more than maxProbes  *)
(* unanswered probes and is still short of the success threshold.          *)
(***************************************************************************)
CountersFit ==
    /\ cb.state = "closed" =>
          /\ cb.successes = 0
          /\ cb.halfOpenInFlight = 0
          /\ Mode = "consecutive" => cb.failures < FailureThreshold
    /\ cb.state = "half-open" =>
          /\ cb.halfOpenInFlight <= maxProbes
          /\ cb.successes < SuccessThreshold

(***************************************************************************)
(* A half-open circuit lets through a bounded number of requests before it *)
(* closes or re-opens, whatever stragglers from before report meanwhile: a *)
(* slot is freed only by a success, and SuccessThreshold of them close it. *)
(***************************************************************************)
TrialBudget ==
    cb.state = "half-open" => trials < maxProbes + SuccessThreshold

(***************************************************************************)
(* A probe slot that Allow counts as taken belongs to a probe of this      *)
(* half-open period that will still report: a half-open circuit at its     *)
(* probe limit is never waiting for nobody.                                *)
(***************************************************************************)
SlotsHeld ==
    cb.state = "half-open" => cb.halfOpenInFlight <= Cardinality(Probes)

(***************************************************************************)
(* An open circuit admits nobody before Timeout has passed since it        *)
(* opened, although failures of stragglers keep moving lastFailure.        *)
(***************************************************************************)
CoolDown ==
    [][(cb.state = "open" /\ cb'.state = "half-open") => sinceOpen = Timeout]_vars


(***************************************************************************)
(* "maxProbes bounds the number of concurrent trial requests allowed while *)
(* half-open" (breaker.go:167).                                            *)
(***************************************************************************)
ProbeBound == cb.state = "half-open" => Cardinality(Probes) <= maxProbes
=============================================================================
