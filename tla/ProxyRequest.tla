---------------------------- MODULE ProxyRequest ----------------------------
(***************************************************************************)
(* Requests on the sequential path of the proxy (internal/proxy/proxy.go:  *)
(* ServeHTTP, proxyRequest, available, attemptBackend, reserveAlternate)   *)
(* together with what they share: the connection counters and health flags *)
(* of the backends (internal/balancer) and the circuit breaker, whose      *)
(* operations come from Breaker.                                           *)
(*                                                                         *)
(* A request reserves a backend when it is selected (IncrConn), checks the *)
(* connection cap, asks the breaker, attempts the backend with retries,    *)
(* releases it (DecrConn), reports the outcome, and fails over. The        *)
(* balancing algorithm is left open: it may pick any healthy backend.      *)
(* allowRetry is left open too: a retry the budget may refuse may happen   *)
(* or not.                                                                 *)
(***************************************************************************)
EXTENDS Breaker, FiniteSets, Sequences

CONSTANTS
    Backend, Request, None,
    Idempotent,      \* the requests for which isIdempotent holds
    MaxConns,        \* [Backend -> Nat], 0 for no cap
    MaxAttempts,     \* retryConfig.MaxAttempts
    RetryOn, TripOn, \* sets of failure classes
    Outcome          \* what an attempt may end in, a subset of Outcomes

(***************************************************************************)
(* What doRequest may return. "early" is an error after a 1xx response was *)
(* passed on; "abort" is the panic with which ReverseProxy ends a response *)
(* whose body breaks off.                                                  *)
(***************************************************************************)
Outcomes == {"ok", "5xx", "refused", "dial timeout", "timeout", "reset", "early", "abort"}

ASSUME ProxyAssumption ==
    /\ IsFiniteSet(Request)
    /\ None \notin Backend
    /\ Idempotent \subseteq Request
    /\ MaxConns \in [Backend -> Nat]
    /\ MaxAttempts \in Nat
    /\ Outcome \subseteq Outcomes

VARIABLES
    active,          \* Backend.ActiveConns
    healthy,         \* the health flag
    cb,              \* the breaker's state per backend
    pc, backend,     \* per request: where it is, and its current backend
    tried, cand,     \* per request: proxyRequest's map; alternates to look at
    attempt,         \* per request: attempt number on this backend
    last,            \* per request: the outcome of the last attempt, or "none"
    bulkheadBlocked, \* per request
    applied,         \* history: attempts a backend may have acted upon
    answers          \* history: what the client was sent

vars == <<active, healthy, cb, pc, backend, tried, cand, attempt, last,
          bulkheadBlocked, applied, answers>>

reqVars == <<pc, backend, tried, cand, attempt, last, bulkheadBlocked, applied, answers>>

PC == {"start", "check", "allow", "blocked", "attempt", "record",
       "alternate", "scan", "reserve", "fail", "done"}

Answer == {"response", "truncated", "502", "503 cap", "503 none"}

TypeOK ==
    /\ active \in [Backend -> Nat]
    /\ healthy \in [Backend -> BOOLEAN]
    /\ cb \in [Backend -> BackendState]
    /\ pc \in [Request -> PC]
    /\ backend \in [Request -> Backend \cup {None}]
    /\ tried \in [Request -> SUBSET Backend]
    /\ cand \in [Request -> SUBSET Backend]
    /\ attempt \in [Request -> 0..MaxAttempts]
    /\ last \in [Request -> Outcomes \cup {"none"}]
    /\ bulkheadBlocked \in [Request -> BOOLEAN]
    /\ applied \in [Request -> Nat]
    /\ answers \in [Request -> Seq(Answer)]

-----------------------------------------------------------------------------
\* doRequest and classifyError: the class of an outcome, and what it stands for.
Class(o) ==
    CASE o \in {"refused", "reset", "early"} -> "connect"
      [] o \in {"dial timeout", "timeout"} -> "timeout"
      [] OTHER -> o

Failed(o) == o \notin {"ok", "5xx"}
Written(o) == o \in {"ok", "5xx", "early"}
isConnectError(o) == o \in {"refused", "dial timeout"}

\* isConnectError: "the backend definitely did not receive or process the request".
MayBeApplied(o) == ~isConnectError(o)

maxRetries(q) == IF q \in Idempotent THEN MaxAttempts ELSE 0

\* Mutant: one connection more than the cap.
atCapacityLoose(be) == MaxConns[be] > 0 /\ active[be] > MaxConns[be] + 1

atCapacity(be) == MaxConns[be] > 0 /\ active[be] > MaxConns[be]

\* reserveAlternate's check, before the reservation.
NoSpare(be) == MaxConns[be] > 0 /\ active[be] >= MaxConns[be]

GetHealthy == {be \in Backend : healthy[be]}

IncrConn(be) == active' = [active EXCEPT ![be] = @ + 1]
DecrConn(be) == active' = [active EXCEPT ![be] = @ - 1]

Goto(q, where) == pc' = [pc EXCEPT ![q] = where]
Send(q, a) == answers' = [answers EXCEPT ![q] = Append(@, a)]

Init ==
    /\ active = [be \in Backend |-> 0]
    /\ healthy = [be \in Backend |-> TRUE]
    /\ cb = [be \in Backend |-> NewState]
    /\ pc = [q \in Request |-> "start"]
    /\ backend = [q \in Request |-> None]
    /\ tried = [q \in Request |-> {}]
    /\ cand = [q \in Request |-> {}]
    /\ attempt = [q \in Request |-> 0]
    /\ last = [q \in Request |-> "none"]
    /\ bulkheadBlocked = [q \in Request |-> FALSE]
    /\ applied = [q \in Request |-> 0]
    /\ answers = [q \in Request |-> <<>>]

-----------------------------------------------------------------------------
\* ServeHTTP and selectBackend: the balancer picks a healthy backend and reserves it.
Select(q, be) ==
    /\ pc[q] = "start"
    /\ be \in GetHealthy
    /\ IncrConn(be)
    /\ backend' = [backend EXCEPT ![q] = be]
    /\ tried' = [tried EXCEPT ![q] = @ \cup {be}]
    /\ Goto(q, "check")
    /\ UNCHANGED <<healthy, cb, cand, attempt, last, bulkheadBlocked, applied, answers>>

NoBackend(q) ==
    /\ pc[q] = "start"
    /\ GetHealthy = {}
    /\ Send(q, "503 none")
    /\ Goto(q, "done")
    /\ UNCHANGED <<active, healthy, cb, backend, tried, cand, attempt, last, bulkheadBlocked, applied>>

\* available, first half: the connection cap.
CheckCap(q) ==
    /\ pc[q] = "check"
    /\ Goto(q, IF atCapacity(backend[q]) THEN "blocked" ELSE "allow")
    /\ UNCHANGED <<active, healthy, cb, backend, tried, cand, attempt, last, bulkheadBlocked,
                   applied, answers>>

\* available, second half: the breaker.
Allow(q) ==
    /\ pc[q] = "allow"
    /\ LET be == backend[q]
       IN IF Admits(cb[be])
          THEN /\ cb' = [cb EXCEPT ![be] = AfterAllow(@)]
               /\ Goto(q, "attempt")
          ELSE /\ Goto(q, "blocked")
               /\ UNCHANGED cb
    /\ attempt' = [attempt EXCEPT ![q] = 0]
    /\ UNCHANGED <<active, healthy, backend, tried, cand, last, bulkheadBlocked, applied, answers>>

\* Not available: the cap is read again to tell why, and the reservation is released.
Blocked(q) ==
    /\ pc[q] = "blocked"
    /\ bulkheadBlocked' = [bulkheadBlocked EXCEPT ![q] = @ \/ atCapacity(backend[q])]
    /\ DecrConn(backend[q])
    /\ Goto(q, "alternate")
    /\ UNCHANGED <<healthy, cb, backend, tried, cand, attempt, last, applied, answers>>

\* One doRequest that fails before anything is written and is retried.
Retry(q, o) ==
    /\ pc[q] = "attempt"
    /\ Failed(o) /\ ~Written(o) /\ o # "abort"
    /\ Class(o) \in RetryOn
    /\ attempt[q] < maxRetries(q)
    /\ attempt' = [attempt EXCEPT ![q] = @ + 1]
    /\ applied' = [applied EXCEPT ![q] = IF MayBeApplied(o) THEN @ + 1 ELSE @]
    /\ UNCHANGED <<active, healthy, cb, pc, backend, tried, cand, last, bulkheadBlocked, answers>>

\* The last doRequest on this backend, and attemptBackend's deferred DecrConn.
Finish(q, o) ==
    /\ pc[q] = "attempt"
    /\ o # "abort"
    /\ last' = [last EXCEPT ![q] = o]
    /\ applied' = [applied EXCEPT ![q] = IF MayBeApplied(o) THEN @ + 1 ELSE @]
    /\ IF Written(o) THEN Send(q, IF Failed(o) THEN "truncated" ELSE "response")
       ELSE UNCHANGED answers
    /\ DecrConn(backend[q])
    /\ Goto(q, "record")
    /\ UNCHANGED <<healthy, cb, backend, tried, cand, attempt, bulkheadBlocked>>

\* ReverseProxy panics: only the deferred DecrConn runs.
Abort(q) ==
    /\ pc[q] = "attempt"
    /\ "abort" \in Outcome
    /\ last' = [last EXCEPT ![q] = "abort"]
    /\ applied' = [applied EXCEPT ![q] = @ + 1]
    /\ Send(q, "truncated")
    /\ DecrConn(backend[q])
    /\ Goto(q, "done")
    /\ UNCHANGED <<healthy, cb, backend, tried, cand, attempt, bulkheadBlocked>>

\* Mutant: any request is replayed on another backend.
AfterRecordReplay(q) ==
    CASE ~Failed(last[q]) \/ Written(last[q]) -> "done"
      [] OTHER -> "alternate"

\* Where proxyRequest goes after an attempt.
AfterRecord(q) ==
    CASE ~Failed(last[q]) \/ Written(last[q]) -> "done"
      [] Failed(last[q]) /\ ~Written(last[q]) /\ q \notin Idempotent
            /\ ~isConnectError(last[q]) -> "fail"
      [] OTHER -> "alternate"

\* recordCircuit. (observeOutcome may change the health flag: see SetHealthy.)
Record(q) ==
    /\ pc[q] = "record"
    /\ LET be == backend[q]
       IN IF Class(last[q]) \in TripOn
          THEN \E trips \in TripChoices(cb[be]) :
                /\ cb' = [cb EXCEPT ![be] = AfterFailure(@, trips)]
                /\ healthy' = [healthy EXCEPT ![be] = @ /\ ~trips]
          ELSE /\ cb' = [cb EXCEPT ![be] = AfterSuccess(@)]
               /\ healthy' = [healthy EXCEPT ![be] = @ \/ Closes(cb[be])]
    /\ Goto(q, AfterRecord(q))
    /\ UNCHANGED <<active, backend, tried, cand, attempt, last, bulkheadBlocked, applied, answers>>

-----------------------------------------------------------------------------
\* reserveAlternate: the healthy backends are read once, then looked at in turn;
\* the check of the counter and the reservation are two steps.
StartScan(q) ==
    /\ pc[q] = "alternate"
    /\ cand' = [cand EXCEPT ![q] = GetHealthy \ tried[q]]
    /\ Goto(q, "scan")
    /\ UNCHANGED <<active, healthy, cb, backend, tried, attempt, last, bulkheadBlocked,
                   applied, answers>>

Skip(q, be) ==
    /\ pc[q] = "scan"
    /\ be \in cand[q]
    /\ NoSpare(be)
    /\ cand' = [cand EXCEPT ![q] = @ \ {be}]
    /\ UNCHANGED <<active, healthy, cb, pc, backend, tried, attempt, last, bulkheadBlocked,
                   applied, answers>>

Choose(q, be) ==
    /\ pc[q] = "scan"
    /\ be \in cand[q]
    /\ ~NoSpare(be)
    /\ backend' = [backend EXCEPT ![q] = be]
    /\ cand' = [cand EXCEPT ![q] = {}]
    /\ Goto(q, "reserve")
    /\ UNCHANGED <<active, healthy, cb, tried, attempt, last, bulkheadBlocked, applied, answers>>

Reserve(q) ==
    /\ pc[q] = "reserve"
    /\ IncrConn(backend[q])
    /\ tried' = [tried EXCEPT ![q] = @ \cup {backend[q]}]
    /\ Goto(q, "check")
    /\ UNCHANGED <<healthy, cb, backend, cand, attempt, last, bulkheadBlocked, applied, answers>>

GiveUp(q) ==
    /\ pc[q] = "scan"
    /\ cand[q] = {}
    /\ Goto(q, "fail")
    /\ UNCHANGED <<active, healthy, cb, backend, tried, cand, attempt, last, bulkheadBlocked,
                   applied, answers>>

ErrorFor(q) ==
    CASE last[q] # "none" -> "502"
      [] last[q] = "none" /\ bulkheadBlocked[q] -> "503 cap"
      [] OTHER -> "503 none"

\* The end of proxyRequest.
Fail(q) ==
    /\ pc[q] = "fail"
    /\ Send(q, ErrorFor(q))
    /\ Goto(q, "done")
    /\ UNCHANGED <<active, healthy, cb, backend, tried, cand, attempt, last, bulkheadBlocked, applied>>

-----------------------------------------------------------------------------
\* Health checks, outlier detection and drain set the flag as they see fit.
SetHealthy(be) ==
    /\ healthy' = [healthy EXCEPT ![be] = ~@]
    /\ UNCHANGED <<active, cb, reqVars>>

\* The clock, as the breakers see it.
Tick ==
    /\ \E be \in Backend : cb[be].lastFailure < Timeout
    /\ cb' = [be \in Backend |-> [cb[be] EXCEPT !.lastFailure = Older(@)]]
    /\ UNCHANGED <<active, healthy, reqVars>>

Step(q) ==
    \/ \E be \in Backend : Select(q, be) \/ Skip(q, be) \/ Choose(q, be)
    \/ \E o \in Outcome : Retry(q, o) \/ Finish(q, o)
    \/ NoBackend(q) \/ CheckCap(q) \/ Allow(q) \/ Blocked(q) \/ Abort(q) \/ Record(q)
    \/ StartScan(q) \/ Reserve(q) \/ GiveUp(q) \/ Fail(q)

Next ==
    \/ \E q \in Request : Step(q)
    \/ \E be \in Backend : SetHealthy(be)
    \/ Tick

Spec == Init /\ [][Next]_vars

-----------------------------------------------------------------------------
Holding == {"check", "allow", "blocked", "attempt"}
HoldersOf(be) == {q \in Request : pc[q] \in Holding /\ backend[q] = be}
InFlightOn(be) == {q \in Request : pc[q] \in {"allow", "attempt"} /\ backend[q] = be}
AdmittedOn(be) == {q \in Request : pc[q] \in {"attempt", "record"} /\ backend[q] = be}

(***************************************************************************)
(* Reserve-on-select is balanced by exactly one release on every path      *)
(* (rejection, success, failure, panic, failover): the counter that        *)
(* least-connections balancing and the cap rely on never drifts.           *)
(***************************************************************************)
ReservationsBalance == \A be \in Backend : active[be] = Cardinality(HoldersOf(be))

(***************************************************************************)
(* A backend never has more than max_conns requests in flight, although    *)
(* the cap is checked and the connection counted in separate steps.        *)
(***************************************************************************)
Bulkhead ==
    \A be \in Backend : MaxConns[be] > 0 => Cardinality(InFlightOn(be)) <= MaxConns[be]

(***************************************************************************)
(* A request that is not idempotent reaches at most one backend that may   *)
(* act on it, however many failures, retries and failovers happen.         *)
(***************************************************************************)
AppliedOnce == \A q \in Request \ Idempotent : applied[q] <= 1

(***************************************************************************)
(* The client is answered exactly once: never a second header after a      *)
(* response was begun, never nothing.                                      *)
(***************************************************************************)
OneAnswer == \A q \in Request : Len(answers[q]) = IF pc[q] = "done" THEN 1
                                ELSE IF pc[q] = "record" /\ Written(last[q]) THEN 1 ELSE 0

(***************************************************************************)
(* A 503 of the proxy means that no backend has seen the request, so the   *)
(* client may send it again whatever its method.                           *)
(***************************************************************************)
RejectedUntouched ==
    \A q \in Request : \A i \in DOMAIN answers[q] :
        answers[q][i] \in {"503 cap", "503 none"} => applied[q] = 0

(***************************************************************************)
(* "Success closes the circuit; failure reopens it" (circuit-breaker.md):  *)
(* a probe slot counted by the breaker belongs to a request that will      *)
(* still report its outcome.                                               *)
(***************************************************************************)
SlotsHeld ==
    \A be \in Backend : cb[be].state = "half-open" =>
        cb[be].halfOpenInFlight <= Cardinality(AdmittedOn(be))
=============================================================================
