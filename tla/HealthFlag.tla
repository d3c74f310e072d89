----------------------------- MODULE HealthFlag -----------------------------
(***************************************************************************)
(* Everything that writes or reads a backend's health flag, composed: the  *)
(* active health checker, the circuit breaker, outlier detection, the      *)
(* admin drain and undrain, slow start, and the gRPC health status.        *)
(*                                                                         *)
(* The writers do not know of one another: each tests its own state and    *)
(* stores the flag, and the last store wins. The checker probes, records   *)
(* and stores in separate steps; a request selects (outlier reinstatement, *)
(* slow-start observation, ramped picks), asks the breaker, runs and then  *)
(* reports to the outlier detector and to the breaker.                     *)
(*                                                                         *)
(* Init draws which parts are configured. Ages saturate at the value they  *)
(* are compared with, counters at their thresholds.                        *)
(***************************************************************************)
EXTENDS Breaker, FiniteSets

CONSTANTS
    Backend, Request,
    Setups,               \* configurations and bounds to start from
    HealthyThreshold, UnhealthyThreshold,
    Grace,                \* StartupGracePeriod
    MinRequests, ErrorPercent, BaseEjection, MaxEjectionPercent,
    Window, Attempts,     \* slow start; Attempts stands for its 8
    MaxObs                \* bound: outcomes counted per backend

\* A setup: the backends, the optional parts that are configured, and bounds
\* on the concurrent requests, admin calls, and failures and recoveries.
Setup == [fleet: SUBSET Backend, parts: SUBSET {"breaker", "outlier", "slow"},
          clients: SUBSET Request, admin: Nat, turns: Nat]

ASSUME HealthAssumption ==
    /\ Setups \subseteq Setup
    /\ HealthyThreshold > 0 /\ UnhealthyThreshold > 0 /\ Attempts > 0
    /\ MinRequests > 0 /\ MaxObs >= MinRequests /\ MaxEjectionPercent \in 0..100

VARIABLES
    fleet, parts, \* the backends, and which parts are configured
    works,        \* external: does the backend answer?
    up,           \* Backend.healthy
    checks,       \* Backend.Successes and Failures, the checker's position, grace
    breaker,      \* the circuit breaker's states
    outlier,      \* OutlierDetection.stats
    slow,         \* SlowStart.wasHealthy and the age of healthySince
    conns,        \* Backend.ActiveConns
    req,          \* requests: position, backend, rejected picks so far
    serving,      \* GRPCHealthServer.statuses["proxy"]
    drained,      \* history: an administrator asked for no traffic
    left          \* the setup, with what is left of its bounds

hfVars == <<fleet, parts, works, up, checks, breaker, outlier, slow, conns, req,
            serving, drained, left>>

None == "none"
NoStat == [good |-> 0, bad |-> 0, ejected |-> FALSE, age |-> 0]
Free == [at |-> "idle", b |-> None, tries |-> 0]

HFInit ==
    /\ left \in Setups
    /\ fleet = left.fleet /\ parts = left.parts
    /\ works = [b \in fleet |-> TRUE]
    /\ up = [b \in fleet |-> TRUE]
    /\ checks = [succ |-> [b \in fleet |-> 0], fail |-> [b \in fleet |-> 0],
                 todo |-> {}, at |-> None, step |-> "rest", age |-> 0]
    /\ breaker = [b \in fleet |-> NewState]
    /\ outlier = [b \in fleet |-> NoStat]
    /\ slow = [b \in fleet |-> [seen |-> "never", age |-> Window]]
    /\ conns = [b \in fleet |-> 0]
    /\ req = [r \in Request |-> Free]
    /\ serving = TRUE
    /\ drained = [b \in fleet |-> FALSE]

-----------------------------------------------------------------------------
(* The health checker: checkAll goes through the backends one at a time.   *)

UpTo(n, k) == IF n < k THEN n + 1 ELSE n

\* checkAll takes the next backend of this pass, or begins another pass.
\* checkHTTP or checkTCP: what the backend answers now is acted on later.
Probe(b) ==
    /\ checks.step = "rest"
    /\ checks.todo = {} \/ b \in checks.todo
    /\ checks' = [checks EXCEPT !.at = b, !.todo = (IF @ = {} THEN fleet ELSE @) \ {b},
                                !.step = IF works[b] THEN "passed" ELSE "failed"]
    /\ UNCHANGED <<fleet, parts, works, up, breaker, outlier, slow, conns, req, serving,
                   drained, left>>

\* The next step of the checker: store the flag if cond, else go on.
Then(ck, cond, step) ==
    IF cond THEN [ck EXCEPT !.step = step] ELSE [ck EXCEPT !.step = "rest", !.at = None]


\* markHealthy and markUnhealthy up to the decision to store the flag.
MarkHealthy(b) ==
    /\ checks.step = "passed"
    /\ LET n == UpTo(checks.succ[b], HealthyThreshold) IN
       checks' = Then([checks EXCEPT !.succ[b] = n, !.fail[b] = 0],
                      n >= HealthyThreshold /\ ~up[b], "raise")

\* Mutant: the flag is lowered only when the count reaches the threshold.
MarkUnhealthyOnce(b) ==
    /\ checks.step = "failed"
    /\ LET n == UpTo(checks.fail[b], UnhealthyThreshold) IN
       checks' = Then([checks EXCEPT !.fail[b] = n, !.succ[b] = 0],
                      /\ checks.age = Grace /\ n >= UnhealthyThreshold /\ up[b]
                      /\ checks.fail[b] < n, "lower")

MarkUnhealthy(b) ==
    /\ checks.step = "failed"
    /\ LET n == UpTo(checks.fail[b], UnhealthyThreshold) IN
       checks' = Then([checks EXCEPT !.fail[b] = n, !.succ[b] = 0],
                      checks.age = Grace /\ n >= UnhealthyThreshold /\ up[b], "lower")

Mark(b) ==
    /\ checks.at = b
    /\ MarkHealthy(b) \/ MarkUnhealthy(b)
    /\ UNCHANGED <<fleet, parts, works, up, breaker, outlier, slow, conns, req, serving,
                   drained, left>>

\* SetHealthy, after IsHealthy was read.
StoreFlag(b) ==
    /\ checks.at = b /\ checks.step \in {"raise", "lower"}
    /\ up' = [up EXCEPT ![b] = (checks.step = "raise")]
    /\ checks' = [checks EXCEPT !.step = "rest", !.at = None]
    /\ UNCHANGED <<fleet, parts, works, breaker, outlier, slow, conns, req, serving,
                   drained, left>>

-----------------------------------------------------------------------------
(* A request through the wrappers.                                         *)

Expired == {b \in fleet : outlier[b].ejected /\ outlier[b].age >= BaseEjection}

\* The flags after reinstateExpired.
Reinstated == [b \in fleet |-> up[b] \/ b \in Expired]

\* Next: reinstateExpired, then observeTransitions.
Start(r) ==
    /\ req[r].at = "idle" /\ r \in left.clients
    /\ up' = Reinstated
    /\ outlier' = [b \in fleet |-> IF b \in Expired THEN NoStat ELSE outlier[b]]
    /\ slow' = IF "slow" \notin parts THEN slow ELSE [b \in fleet |->
          [seen |-> IF up'[b] THEN "up" ELSE "down",
           age |-> IF up'[b] /\ slow[b].seen # "up" THEN 0 ELSE slow[b].age]]
    /\ req' = [req EXCEPT ![r] = [at |-> "pick", b |-> None, tries |-> 0]]
    /\ UNCHANGED <<fleet, parts, works, checks, breaker, conns, serving, drained, left>>


\* The pick is released and remembered as the last one.
Reject(r, b) ==
    /\ req' = [req EXCEPT ![r] = [at |-> "pick", b |-> b, tries |-> req[r].tries + 1]]
    /\ UNCHANGED conns

Accept(r, b) ==
    /\ req' = [req EXCEPT ![r] = [at |-> "allow", b |-> b, tries |-> 0]]
    /\ conns' = [conns EXCEPT ![b] = @ + 1]

MoreAttempts(r) == req[r].tries < Attempts

\* rampedSelect: one round of its loop, or its end.
Pick(r) ==
    /\ req[r].at = "pick"
    /\ \/ /\ MoreAttempts(r) /\ {b \in fleet : up[b]} = {}
          /\ req' = [req EXCEPT ![r] = Free] /\ UNCHANGED conns
       \/ \E b \in fleet : /\ MoreAttempts(r) /\ up[b]
                           /\ Accept(r, b) \/ ("slow" \in parts /\ slow[b].age < Window /\ Reject(r, b))
       \/ ~MoreAttempts(r) /\ Accept(r, req[r].b)
    /\ UNCHANGED <<fleet, parts, works, up, checks, breaker, outlier, slow, serving,
                   drained, left>>

\* CircuitBreaker.Allow; a refused request lets its backend go.
AskBreaker(r) ==
    LET b == req[r].b IN
    /\ req[r].at = "allow"
    /\ IF "breaker" \notin parts \/ Admits(breaker[b])
       THEN /\ req' = [req EXCEPT ![r].at = "run"]
            /\ breaker' = IF "breaker" \in parts THEN [breaker EXCEPT ![b] = AfterAllow(@)]
                          ELSE breaker
            /\ UNCHANGED conns
       ELSE /\ req' = [req EXCEPT ![r] = Free]
            /\ conns' = [conns EXCEPT ![b] = @ - 1]
            /\ UNCHANGED breaker
    /\ UNCHANGED <<fleet, parts, works, up, checks, outlier, slow, serving, drained, left>>

MaxEject == LET n == (Cardinality(fleet) * MaxEjectionPercent) \div 100
            IN IF n < 1 THEN 1 ELSE n
Ejected == {b \in fleet : outlier[b].ejected}

MayEject == Cardinality(Ejected) < MaxEject

\* statFor and the counters, which stop at MaxObs. While a backend is ejected
\* they are not read, and reinstateExpired clears them.
Counted(st, ok) ==
    IF st.ejected THEN st
    ELSE [st EXCEPT !.good = IF ok THEN UpTo(@, MaxObs) ELSE @,
                    !.bad = IF ok THEN @ ELSE UpTo(@, MaxObs)]

\* Does the error rate exceed the threshold? Open where a counter stopped.
OverThreshold(st) ==
    IF st.bad > 0 /\ (st.good = MaxObs \/ st.bad = MaxObs) THEN BOOLEAN
    ELSE {100 * st.bad > ErrorPercent * (st.good + st.bad)}

\* The response arrives, and observeOutcome reports it: ObserveOutcome.
Observe(r) ==
    LET b == req[r].b
        st == Counted(outlier[b], works[b])
    IN
    /\ req[r].at = "run"
    /\ req' = [req EXCEPT ![r].at = IF works[b] THEN "good" ELSE "bad"]
    /\ IF "outlier" \notin parts THEN UNCHANGED <<outlier, up>>
       ELSE \E over \in OverThreshold(st) :
            IF ~st.ejected /\ st.good + st.bad >= MinRequests /\ over /\ MayEject
            THEN /\ outlier' = [outlier EXCEPT ![b] = [st EXCEPT !.ejected = TRUE, !.age = 0]]
                 /\ up' = [up EXCEPT ![b] = FALSE]
            ELSE outlier' = [outlier EXCEPT ![b] = st] /\ UNCHANGED up
    /\ UNCHANGED <<fleet, parts, works, checks, breaker, slow, conns, serving, drained, left>>

\* recordCircuit: closing raises the flag, tripping lowers it; DecrConn.
Record(r) ==
    LET b == req[r].b IN
    /\ req[r].at \in {"good", "bad"}
    /\ IF "breaker" \notin parts THEN UNCHANGED <<breaker, up>>
       ELSE IF req[r].at = "good"
       THEN /\ breaker' = [breaker EXCEPT ![b] = AfterSuccess(@)]
            /\ up' = [up EXCEPT ![b] = @ \/ Closes(breaker[b])]
       ELSE \E trips \in TripChoices(breaker[b]) :
            /\ breaker' = [breaker EXCEPT ![b] = AfterFailure(@, trips)]
            /\ up' = [up EXCEPT ![b] = @ /\ ~trips]
    /\ req' = [req EXCEPT ![r] = Free]
    /\ conns' = [conns EXCEPT ![b] = @ - 1]
    /\ UNCHANGED <<fleet, parts, works, checks, outlier, slow, serving, drained, left>>

-----------------------------------------------------------------------------
(* The admin API, the gRPC status, the world.                              *)

\* handleAdminDrain and handleAdminUndrain.
AdminFlag(b, v) ==
    /\ left.admin > 0 /\ left' = [left EXCEPT !.admin = @ - 1]
    /\ up' = [up EXCEPT ![b] = v]
    /\ drained' = [drained EXCEPT ![b] = ~v]
    /\ UNCHANGED <<fleet, parts, works, checks, breaker, outlier, slow, conns, req, serving>>

\* handleAdminCircuitReset.
AdminReset(b) ==
    /\ "breaker" \in parts
    /\ left.admin > 0 /\ left' = [left EXCEPT !.admin = @ - 1]
    /\ breaker' = [breaker EXCEPT ![b] = NewState]
    /\ UNCHANGED <<fleet, parts, works, up, checks, outlier, slow, conns, req, serving, drained>>

\* The 5 s ticker of startGRPCHealth.
PollStatus ==
    /\ serving' = (\E b \in fleet : up[b])
    /\ UNCHANGED <<fleet, parts, works, up, checks, breaker, outlier, slow, conns, req,
                   drained, left>>

Turn(b) ==
    /\ left.turns > 0 /\ left' = [left EXCEPT !.turns = @ - 1]
    /\ works' = [works EXCEPT ![b] = ~@]
    /\ UNCHANGED <<fleet, parts, up, checks, breaker, outlier, slow, conns, req, serving, drained>>

Tick ==
    /\ checks' = [checks EXCEPT !.age = UpTo(@, Grace)]
    /\ breaker' = [b \in fleet |-> [breaker[b] EXCEPT !.lastFailure = Older(@)]]
    /\ outlier' = [b \in fleet |-> IF outlier[b].ejected
                                   THEN [outlier[b] EXCEPT !.age = UpTo(@, BaseEjection)]
                                   ELSE outlier[b]]
    /\ slow' = [b \in fleet |-> [slow[b] EXCEPT !.age = UpTo(@, Window)]]
    /\ UNCHANGED <<fleet, parts, works, up, conns, req, serving, drained, left>>

HFNext ==
    \/ \E b \in fleet : Probe(b) \/ Mark(b) \/ StoreFlag(b) \/ AdminReset(b) \/ Turn(b)
    \/ \E b \in fleet, v \in BOOLEAN : AdminFlag(b, v)
    \/ \E r \in Request : Start(r) \/ Pick(r) \/ AskBreaker(r) \/ Observe(r) \/ Record(r)
    \/ PollStatus
    \/ Tick

HFSpec == HFInit /\ [][HFNext]_hfVars

(***************************************************************************)
(* The loops of the checker and of the gRPC ticker run on, time passes,    *)
(* and a request that was begun goes through its steps: nothing in them    *)
(* waits for another goroutine except for mutexes held for a few lines.    *)
(* That requests begin is not assumed here.                                *)
(***************************************************************************)
Check == \E b \in fleet : Probe(b) \/ Mark(b) \/ StoreFlag(b)
GoOn(r) == Pick(r) \/ AskBreaker(r) \/ Observe(r) \/ Record(r)

HFFairSpec ==
    /\ HFSpec
    /\ WF_hfVars(Tick) /\ WF_hfVars(PollStatus) /\ WF_hfVars(Check)
    /\ \A r \in Request : WF_hfVars(GoOn(r))

-----------------------------------------------------------------------------

\* A backend that works for good, while requests keep coming, ends up in
\* rotation with its circuit closed and not ejected, whatever the checker,
\* the breaker, the outlier detector and the administrator did before.
Traffic == []<>(\E r \in Request : req[r].at = "pick")

\* A backend that fails for good does not stay in rotation: whenever an end
\* of ejection, an undrain or a closing circuit has raised its flag, somebody
\* takes it down again.
DeadLeaves ==
    \A b \in Backend : <>[](b \in fleet /\ ~works[b]) => []<>(b \in fleet /\ ~up[b])

\* The admin drain "marks the backend unhealthy so the balancer stops routing
\* to it" (server.go:748): a drained backend stays out until it is undrained.
DrainHolds == \A b \in fleet : drained[b] => ~up[b]
=============================================================================
