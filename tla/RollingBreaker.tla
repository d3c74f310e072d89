--------------------------- MODULE RollingBreaker ---------------------------
(***************************************************************************)
(* The circuit breaker of one backend as the code keeps it                 *)
(* (internal/circuit/breaker.go): times are readings of a clock, counters  *)
(* count, and in rolling mode the ring of buckets decides whether a        *)
(* failure opens the circuit.                                              *)
(*                                                                         *)
(* It implements the two abstractions that the other modules rest on:      *)
(* CircuitBreaker, where times are ages that saturate at the timeout and   *)
(* the trip in rolling mode is left open, and RollingWindow, where the     *)
(* circuit is only closed or not. The clock does not move inside the       *)
(* breaker's lock.                                                         *)
(***************************************************************************)
EXTENDS Integers, FiniteSets

CONSTANTS
    Request,
    Mode, FailureThreshold, SuccessThreshold, Timeout,
    rollingBuckets, rollingWindow, minRequests, RateNum, RateDen,
    MaxTime, MaxEvents    \* bounds: the clock, and outcomes in the window

ASSUME RollingAssumption ==
    /\ IsFiniteSet(Request)
    /\ Mode \in {"consecutive", "rolling"}
    /\ {FailureThreshold, SuccessThreshold} \subseteq Nat \ {0} /\ Timeout \in Nat
    /\ {rollingBuckets, rollingWindow, minRequests, RateDen, MaxTime, MaxEvents} \subseteq Nat \ {0}
    /\ RateNum \in 0..RateDen

VARIABLES
    now,
    bst,        \* the *backendState; lastFailure is -1 for the zero time
    flag,       \* the backend's health flag
    asked,      \* each request: "idle", "normal" or "probe", as in CircuitBreaker
    openedAt,   \* history: when the circuit last opened, -1 for never
    admitted,   \* history: probes admitted in the current half-open period
    events      \* history: the outcomes in the ring, by time

rbVars == <<now, bst, flag, asked, openedAt, admitted, events>>

-----------------------------------------------------------------------------
(* The mappings.                                                           *)

Age(t) == IF t = -1 \/ now - t > Timeout THEN Timeout ELSE now - t
Capped(n) == IF n > FailureThreshold THEN FailureThreshold ELSE n

Abstract ==
    INSTANCE CircuitBreaker WITH
        cb <- [state |-> bst.state, failures |-> Capped(bst.failures),
               successes |-> bst.successes, halfOpenInFlight |-> bst.halfOpenInFlight,
               lastFailure |-> Age(bst.lastFailure)],
        healthy <- flag, req <- asked, sinceOpen <- Age(openedAt), trials <- admitted

Window ==
    INSTANCE RollingWindow WITH
        state <- IF bst.state = "closed" THEN "closed" ELSE "open", buckets <- bst.buckets

-----------------------------------------------------------------------------
Blank == [state |-> "closed", failures |-> 0, successes |-> 0, halfOpenInFlight |-> 0,
          lastFailure |-> -1, buckets |-> Window!EmptyRing]

RBInit ==
    /\ now = 0
    /\ bst = Blank
    /\ flag = TRUE
    /\ asked = [q \in Request |-> "idle"]
    /\ openedAt = -1
    /\ admitted = 0
    /\ events = Window!NoEvents

MaxProbes == SuccessThreshold
Demoted(rs) == [q \in Request |-> IF rs[q] = "probe" THEN "normal" ELSE rs[q]]
Answered(q) == [asked EXCEPT ![q] = "idle"]

Pass(q) ==
    /\ asked[q] = "idle"
    /\ \/ /\ bst.state = "open" /\ Age(bst.lastFailure) >= Timeout
          /\ bst' = [bst EXCEPT !.state = "half-open", !.successes = 0, !.halfOpenInFlight = 1]
          /\ asked' = [asked EXCEPT ![q] = "probe"]
          /\ admitted' = 1
       \/ /\ bst.state = "half-open" /\ bst.halfOpenInFlight < MaxProbes
          /\ bst' = [bst EXCEPT !.halfOpenInFlight = @ + 1]
          /\ asked' = [asked EXCEPT ![q] = "probe"]
          /\ admitted' = admitted + 1
       \/ /\ bst.state = "closed"
          /\ asked' = [asked EXCEPT ![q] = "normal"]
          /\ UNCHANGED <<bst, admitted>>
    /\ UNCHANGED <<now, flag, openedAt, events>>

\* The history and the bound that go with recordWindow.
Noted(outcome) ==
    IF Mode = "rolling"
    THEN Window!Recorded(0) < MaxEvents /\ events' = [events EXCEPT ![now][outcome] = @ + 1]
    ELSE UNCHANGED events
Recorded(success) ==
    IF Mode = "rolling" THEN Window!recordWindow(bst.buckets, success) ELSE bst.buckets

\* Mutant: the ring survives the recovery.
SuccessKeepsRing(q) ==
    LET closes == bst.successes + 1 >= SuccessThreshold IN
    /\ asked[q] # "idle" /\ bst.state = "half-open"
    /\ bst' = IF closes THEN [Blank EXCEPT !.lastFailure = bst.lastFailure, !.buckets = bst.buckets]
              ELSE [bst EXCEPT !.successes = @ + 1, !.halfOpenInFlight = IF @ > 0 THEN @ - 1 ELSE @]
    /\ flag' = (flag \/ closes)
    /\ asked' = IF closes THEN Demoted(Answered(q)) ELSE Answered(q)
    /\ UNCHANGED <<now, openedAt, admitted, events>>

\* RecordSuccess in each state of the circuit.
SuccessHalfOpen(q) ==
    LET more == [bst EXCEPT !.successes = @ + 1,
                            !.halfOpenInFlight = IF @ > 0 THEN @ - 1 ELSE @]
    IN
    /\ asked[q] # "idle" /\ bst.state = "half-open"
    /\ IF more.successes >= SuccessThreshold
       THEN /\ bst' = [Blank EXCEPT !.lastFailure = bst.lastFailure]
            /\ flag' = TRUE
            /\ asked' = Demoted(Answered(q))
            /\ events' = Window!NoEvents
       ELSE bst' = more /\ asked' = Answered(q) /\ UNCHANGED <<flag, events>>
    /\ UNCHANGED <<now, openedAt, admitted>>

SuccessClosed(q) ==
    /\ asked[q] # "idle" /\ bst.state = "closed"
    /\ bst' = [bst EXCEPT !.failures = 0, !.successes = 0, !.buckets = Recorded(TRUE)]
    /\ asked' = Answered(q)
    /\ Noted("successes")
    /\ UNCHANGED <<now, flag, openedAt, admitted>>

SuccessOpen(q) ==
    /\ asked[q] # "idle" /\ bst.state = "open"
    /\ asked' = Answered(q)
    /\ UNCHANGED <<now, bst, flag, openedAt, admitted, events>>

\* RecordFailure: in half-open ...
FailureHalfOpen(q) ==
    /\ asked[q] # "idle" /\ bst.state = "half-open"
    /\ bst' = [bst EXCEPT !.state = "open", !.failures = @ + 1, !.lastFailure = now,
                          !.successes = 0, !.halfOpenInFlight = 0]
    /\ flag' = FALSE
    /\ openedAt' = now
    /\ asked' = Demoted(Answered(q))
    /\ UNCHANGED <<now, admitted, events>>

\* Mutant: a late failure in the open state is taken for one that opens it.
TripsAlways(b) ==
    IF Mode = "rolling" THEN Window!rollingShouldTrip(b.buckets, now) ELSE b.failures >= FailureThreshold

Trips(b) ==
    /\ b.state = "closed"
    /\ IF Mode = "rolling" THEN Window!rollingShouldTrip(b.buckets, now) ELSE b.failures >= FailureThreshold

\* ... and otherwise.
Failure(q) ==
    LET counted == [bst EXCEPT !.failures = @ + 1, !.lastFailure = now, !.buckets = Recorded(FALSE)]
    IN
    /\ asked[q] # "idle" /\ bst.state # "half-open"
    /\ IF Trips(counted)
       THEN /\ bst' = [counted EXCEPT !.state = "open"]
            /\ flag' = FALSE /\ openedAt' = now /\ asked' = Demoted(Answered(q))
       ELSE bst' = counted /\ asked' = Answered(q) /\ UNCHANGED <<flag, openedAt>>
    /\ Noted("failures")
    /\ UNCHANGED <<now, admitted>>

Forced ==
    /\ bst.state # "open"
    /\ bst' = [bst EXCEPT !.state = "open", !.lastFailure = now]
    /\ flag' = FALSE
    /\ openedAt' = now
    /\ asked' = Demoted(asked)
    /\ UNCHANGED <<now, admitted, events>>

Cleared ==
    /\ bst' = Blank
    /\ asked' = Demoted(asked)
    /\ events' = Window!NoEvents
    /\ UNCHANGED <<now, flag, openedAt, admitted>>

FlagSet ==
    /\ flag' = ~flag
    /\ UNCHANGED <<now, bst, asked, openedAt, admitted, events>>

RBTick ==
    /\ now < MaxTime
    /\ now' = now + 1
    /\ UNCHANGED <<bst, flag, asked, openedAt, admitted, events>>

RBNext ==
    \/ \E q \in Request : \/ Pass(q) \/ SuccessHalfOpen(q) \/ SuccessClosed(q) \/ SuccessOpen(q)
                          \/ FailureHalfOpen(q) \/ Failure(q)
    \/ Forced \/ Cleared \/ FlagSet \/ RBTick

RBSpec == RBInit /\ [][RBNext]_rbVars

-----------------------------------------------------------------------------
\* The breaker of the code is the breaker that CircuitBreaker promises: what
\* holds of ages and of an arbitrary trip holds of clock readings and of the
\* error rate.
ImplementsBreaker == Abstract!Spec

\* Its ring and its history are those of RollingWindow.
ImplementsWindow == Window!Spec

\* A burst younger than the window is weighed in full when the circuit
\* decides to open: recordWindow and rollingShouldTrip.
ExactWhileYoung == Mode = "rolling" => Window!ExactWhileYoung

\* The circuit opens on failures that the last window really had: when a failure
\* trips it (rollingShouldTrip), at least minRequests outcomes fell within the
\* window, and more failures than the threshold's share of minRequests, whatever
\* reopening, resetting and stragglers came before.
TripsOnEvidence ==
    [][Mode = "rolling" /\ bst.state = "closed" /\ bst'.state = "open" /\ events' # events
         => /\ Window!FailuresSince(Window!WindowStart)' * RateDen > RateNum * minRequests
            /\ Window!Recorded(Window!WindowStart)' >= minRequests]_rbVars
=============================================================================
