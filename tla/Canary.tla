------------------------------- MODULE Canary -------------------------------
(***************************************************************************)
(* The canary split and its auto-promoter: the live weight in              *)
(* internal/proxy/proxy.go, the per-window counters in                     *)
(* internal/metrics/metrics.go, the promoter's step in                     *)
(* internal/canary/autopromote.go and the weight-only reload in            *)
(* internal/server/server.go. The dice of rollCanary is a free choice, a   *)
(* weight is a small number, and the error rate is compared as an integer  *)
(* product.                                                                *)
(***************************************************************************)
EXTENDS Integers

CONSTANTS
    InitialWeights,  \* canary.weight_percent in the first configuration
    OperatorWeights, \* weights an operator reloads
    MaxWeight,       \* MaxWeightPercent
    StepWeight,      \* StepPercent
    MinRequests,     \* MinRequests
    MaxFailing,      \* ErrorRateThreshold, out of 100
    MaxWindow,       \* bound: requests in one window
    MaxFlights       \* bound: canary requests in flight

VARIABLES
    traffic,   \* "good": no request fails; "mixed"
    operated,  \* an operator reloads weights
    rollsBack, \* RollbackOnDegradation
    live,      \* Proxy.canaryWeight
    configured,\* s.cfg.Canary.WeightPercent
    current,   \* AutoPromoter.currentWeight
    window,    \* canaryRequests and canaryErrors
    flights,   \* canary requests in flight
    judging    \* step's reqs and errs between the snapshot and the verdict

canVars == <<traffic, operated, rollsBack, live, configured, current, window, flights, judging>>

NoTally == [requests |-> 0, errors |-> 0]
NotJudging == [on |-> FALSE, tally |-> NoTally]

CanInit ==
    /\ traffic \in {"good", "mixed"} /\ operated \in BOOLEAN /\ rollsBack \in BOOLEAN
    /\ configured \in InitialWeights /\ live = configured
    /\ current = 0
    /\ window = NoTally /\ flights = 0
    /\ judging = NotJudging

-----------------------------------------------------------------------------
\* ServeHTTP: the roll lands in the canary fraction.
RouteCanary ==
    /\ live > 0 /\ flights < MaxFlights /\ window.requests < MaxWindow
    /\ flights' = flights + 1
    /\ window' = [window EXCEPT !.requests = @ + 1]
    /\ UNCHANGED <<traffic, operated, rollsBack, live, configured, current, judging>>

\* The request ends; proxyRequest counts one error when every attempt failed or
\* the response broke off.
EndCanary(failed) ==
    /\ flights > 0
    /\ failed => traffic = "mixed" /\ window.errors < MaxWindow
    /\ flights' = flights - 1
    /\ window' = IF failed THEN [window EXCEPT !.errors = @ + 1] ELSE window
    /\ UNCHANGED <<traffic, operated, rollsBack, live, configured, current, judging>>

\* The counters after CanarySnapshot.
CanarySnapshot == NoTally

Snapshot ==
    /\ ~judging.on
    /\ judging' = [on |-> TRUE, tally |-> window]
    /\ window' = CanarySnapshot
    /\ UNCHANGED <<traffic, operated, rollsBack, live, configured, current, flights>>

Enough(t) == t.requests >= MinRequests
Degraded(t) == t.errors * 100 > MaxFailing * t.requests

\* Mutant: the promoter forgets the weight it has applied.
PromotedOnce(t) == StepWeight

\* step's arithmetic: up by one step and no further than MaxWeightPercent.
Promoted(t) == IF current + StepWeight > MaxWeight THEN MaxWeight ELSE current + StepWeight

\* The rest of step. UpdateCanaryWeight is called only when the promoter's own
\* idea of the weight changes.
Judge ==
    /\ judging.on
    /\ LET t == judging.tally
           next == IF Degraded(t) THEN 0 ELSE Promoted(t)
           acts == Enough(t) /\ IF Degraded(t) THEN rollsBack ELSE next # current
       IN  /\ current' = IF acts THEN next ELSE current
           /\ live' = IF acts THEN next ELSE live
    /\ judging' = NotJudging
    /\ UNCHANGED <<traffic, operated, rollsBack, configured, window, flights>>

\* reloadConfig with a canary block that differs in its weight only.
ReloadWeight(w) ==
    /\ operated /\ w # configured
    /\ live' = w /\ configured' = w
    /\ UNCHANGED <<traffic, operated, rollsBack, current, window, flights, judging>>

CanNext ==
    \/ RouteCanary \/ Snapshot \/ Judge
    \/ \E failed \in BOOLEAN : EndCanary(failed)
    \/ \E w \in OperatorWeights : ReloadWeight(w)

\* The promoter's goroutine runs on. How much traffic there is in a window is
\* the clients' business.
CanFairSpec == CanInit /\ [][CanNext]_canVars /\ WF_canVars(Snapshot) /\ WF_canVars(Judge)

-----------------------------------------------------------------------------
\* "automatically increasing the canary's traffic share until it reaches" its
\* ceiling: as long as windows with enough traffic keep coming and nothing
\* fails, the live weight ends at MaxWeightPercent, unless an operator interferes.
RolloutCompletes ==
    (traffic = "good" /\ ~operated /\ []<>(judging.on /\ Enough(judging.tally))) => <>[](live = MaxWeight)

\* "This allows manual promotion or rollback": a canary that an operator's
\* reload set to zero gets no traffic until the next reload.
ManualRollbackHolds == [][live = 0 /\ configured = 0 => live' = 0 \/ configured' # 0]_canVars
=============================================================================
