------------------------------ MODULE Breaker -------------------------------
(***************************************************************************)
(* The per-backend state of CircuitBreaker (internal/circuit/breaker.go)   *)
(* and what Allow, RecordSuccess, RecordFailure, forceOpen and Reset do to *)
(* it. Every one of them runs under the breaker's single mutex, so each is *)
(* one function of the state.                                              *)
(*                                                                         *)
(* lastFailure is kept as its age, saturating at Timeout: Allow compares   *)
(* it with nothing else. failures saturates at FailureThreshold, the only  *)
(* value it is compared with. In rolling mode whether a failure trips is   *)
(* left open (RollingWindow has the detail).                               *)
(***************************************************************************)
EXTENDS Integers

CONSTANTS
    Mode,              \* "consecutive" or "rolling"
    FailureThreshold,
    SuccessThreshold,
    Timeout            \* in ticks of the model's clock

\* NewCircuitBreakerWithConfig raises both thresholds to at least 1.
ASSUME BreakerAssumption ==
    /\ Mode \in {"consecutive", "rolling"}
    /\ FailureThreshold \in Nat \ {0}
    /\ SuccessThreshold \in Nat \ {0}
    /\ Timeout \in Nat

BackendState ==
    [state: {"closed", "open", "half-open"},
     failures: 0..FailureThreshold,
     successes: Nat,
     halfOpenInFlight: Nat,
     lastFailure: 0..Timeout]

\* stateFor, for a backend the map does not hold.
NewState == [state |-> "closed", failures |-> 0, successes |-> 0,
             halfOpenInFlight |-> 0, lastFailure |-> Timeout]

maxProbes == SuccessThreshold

\* One tick of the clock, as seen by lastFailure.
Older(age) == IF age < Timeout THEN age + 1 ELSE age

-----------------------------------------------------------------------------
\* Allow: the error it returns, and the state it leaves.

Admits(st) ==
    CASE st.state = "open" -> st.lastFailure >= Timeout
      [] st.state = "half-open" -> st.halfOpenInFlight < maxProbes
      [] OTHER -> TRUE

AfterAllow(st) ==
    CASE st.state = "open" ->
            [st EXCEPT !.state = "half-open", !.successes = 0, !.halfOpenInFlight = 1]
      [] st.state = "half-open" -> [st EXCEPT !.halfOpenInFlight = @ + 1]
      [] OTHER -> st

-----------------------------------------------------------------------------
\* RecordSuccess. Closing also sets the backend's health flag.

Closes(st) == st.state = "half-open" /\ st.successes + 1 >= SuccessThreshold

\* Mutant: the slot is given back and the success is not counted.
AfterSuccessUncounted(st) ==
    CASE Closes(st) ->
            [st EXCEPT !.state = "closed", !.failures = 0, !.successes = 0,
                       !.halfOpenInFlight = 0]
      [] st.state = "half-open" /\ ~Closes(st) ->
            [st EXCEPT !.halfOpenInFlight = IF @ > 0 THEN @ - 1 ELSE @]
      [] st.state = "closed" -> [st EXCEPT !.failures = 0, !.successes = 0]
      [] OTHER -> st

AfterSuccess(st) ==
    CASE Closes(st) ->
            [st EXCEPT !.state = "closed", !.failures = 0, !.successes = 0,
                       !.halfOpenInFlight = 0]
      [] st.state = "half-open" /\ ~Closes(st) ->
            [st EXCEPT !.successes = @ + 1,
                       !.halfOpenInFlight = IF @ > 0 THEN @ - 1 ELSE @]
      [] st.state = "closed" -> [st EXCEPT !.failures = 0, !.successes = 0]
      [] OTHER -> st

-----------------------------------------------------------------------------
\* RecordFailure. Tripping also clears the backend's health flag.

MoreFailures(st) == IF st.failures < FailureThreshold THEN st.failures + 1 ELSE st.failures


\* The possible answers to "does this failure open the circuit?".
TripChoices(st) ==
    CASE st.state = "half-open" -> {TRUE}
      [] st.state = "open" -> {FALSE}
      [] OTHER -> IF Mode = "rolling" THEN BOOLEAN
                  ELSE {MoreFailures(st) >= FailureThreshold}

\* Mutant: the failure that trips does not restart the timeout.
AfterFailureStale(st, trips) ==
    LET counted == [st EXCEPT !.failures = MoreFailures(st)]
    IN CASE trips /\ st.state = "half-open" ->
                [counted EXCEPT !.state = "open", !.successes = 0, !.halfOpenInFlight = 0]
         [] trips /\ st.state = "closed" -> [counted EXCEPT !.state = "open"]
         [] OTHER -> counted

AfterFailure(st, trips) ==
    LET counted == [st EXCEPT !.failures = MoreFailures(st), !.lastFailure = 0]
    IN CASE trips /\ st.state = "half-open" ->
                [counted EXCEPT !.state = "open", !.successes = 0, !.halfOpenInFlight = 0]
         [] trips /\ st.state = "closed" -> [counted EXCEPT !.state = "open"]
         [] OTHER -> counted

\* forceOpen (redis_sync.go): a sibling replica reports the backend open.
AfterForceOpen(st) ==
    IF st.state = "open" THEN st ELSE [st EXCEPT !.state = "open", !.lastFailure = 0]
=============================================================================
