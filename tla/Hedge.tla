------------------------------- MODULE Hedge --------------------------------
(***************************************************************************)
(* Hedged requests (internal/proxy/proxy.go: proxyRequestHedged,           *)
(* reserveHedgeBackends, doHedgeAttempt) among requests on the sequential  *)
(* path, over the same connection counters, health flags and breakers.     *)
(*                                                                         *)
(* An idempotent request, once its primary is reserved, tries to hedge     *)
(* first: it asks for the primary, reserves up to MaxExtra other backends, *)
(* launches the primary and, when the delay has passed or the primary has  *)
(* failed, the extras. Each attempt is a goroutine that reports to the     *)
(* breaker, releases its backend and sends its result. If there is nothing *)
(* to hedge with, the request goes on as ProxyRequest describes, with its  *)
(* primary still reserved; until then its pc stays at "check".             *)
(***************************************************************************)
EXTENDS ProxyRequest

CONSTANT MaxExtra    \* retryConfig.Hedge.MaxExtra, hedging being enabled

ASSUME HedgeAssumption == MaxExtra \in Nat \ {0}

VARIABLES
    stage,           \* per request: where proxyRequestHedged is
    pick,            \* per request: the backend reserveHedgeBackends looks at
    extras,          \* per request: the backends it reserved
    extrasLaunched,  \* per request
    run,             \* per request and backend: where its attempt is
    got,             \* per request and backend: the outcome of its attempt
    winner,          \* per request: the backend whose response is copied out
    crashed          \* the process has died of a panic nobody recovers

hedgeVars == <<stage, pick, extras, extrasLaunched, run, got, winner, crashed>>
allVars == <<vars, hedgeVars>>

Stage == {"none", "allow", "start", "scan", "ask", "reserve", "race", "release", "over"}
Run == {"idle", "running", "ended", "recorded", "sent", "taken"}

HedgeTypeOK ==
    /\ TypeOK
    /\ stage \in [Request -> Stage]
    /\ pick \in [Request -> Backend \cup {None}]
    /\ extras \in [Request -> SUBSET Backend]
    /\ \A q \in Request : backend[q] \notin extras[q] /\ Cardinality(extras[q]) <= MaxExtra
    /\ extrasLaunched \in [Request -> BOOLEAN]
    /\ run \in [Request -> [Backend -> Run]]
    /\ got \in [Request -> [Backend -> Outcomes \cup {"none"}]]
    /\ winner \in [Request -> Backend \cup {None}]
    /\ crashed \in BOOLEAN

HedgeInit ==
    /\ Init
    /\ stage = [q \in Request |-> "none"]
    /\ pick = [q \in Request |-> None]
    /\ extras = [q \in Request |-> {}]
    /\ extrasLaunched = [q \in Request |-> FALSE]
    /\ run = [q \in Request |-> [be \in Backend |-> "idle"]]
    /\ got = [q \in Request |-> [be \in Backend |-> "none"]]
    /\ winner = [q \in Request |-> None]
    /\ crashed = FALSE

At(q, where) == pc[q] = "check" /\ stage[q] = where
Enter(q, where) == stage' = [stage EXCEPT ![q] = where]

\* The shared variables other than those a step of the hedge may change.
OtherVars == <<healthy, pc, backend, tried, attempt, last, bulkheadBlocked>>

-----------------------------------------------------------------------------
\* available(primary), the cap: a request that cannot hedge goes on as usual.
HedgeCheckCap(q) ==
    /\ q \in Idempotent
    /\ At(q, "none")
    /\ Enter(q, IF atCapacity(backend[q]) THEN "over" ELSE "allow")
    /\ UNCHANGED <<vars, pick, extras, extrasLaunched, run, got, winner, crashed>>

\* available(primary), the breaker.
HedgeAllow(q) ==
    /\ At(q, "allow")
    /\ LET be == backend[q]
       IN \/ /\ Admits(cb[be])
             /\ cb' = [cb EXCEPT ![be] = AfterAllow(@)]
             /\ Enter(q, "start")
          \/ /\ ~Admits(cb[be])
             /\ Enter(q, "over")
             /\ UNCHANGED cb
    /\ UNCHANGED <<OtherVars, active, cand, applied, answers,
                   pick, extras, extrasLaunched, run, got, winner, crashed>>

\* reserveHedgeBackends: the healthy list is read once ...
HedgeScan(q) ==
    /\ At(q, "start")
    /\ cand' = [cand EXCEPT ![q] = GetHealthy \ {backend[q]}]
    /\ Enter(q, "scan")
    /\ UNCHANGED <<OtherVars, active, cb, applied, answers,
                   pick, extras, extrasLaunched, run, got, winner, crashed>>

\* ... its members are looked at until there are enough: the cap is read,
HedgeLook(q, be) ==
    /\ At(q, "scan")
    /\ Cardinality(extras[q]) < MaxExtra
    /\ be \in cand[q]
    /\ cand' = [cand EXCEPT ![q] = @ \ {be}]
    /\ \/ NoSpare(be) /\ UNCHANGED <<stage, pick>>
       \/ ~NoSpare(be) /\ Enter(q, "ask") /\ pick' = [pick EXCEPT ![q] = be]
    /\ UNCHANGED <<OtherVars, active, cb, applied, answers,
                   extras, extrasLaunched, run, got, winner, crashed>>

\* the breaker is asked,
HedgeAsk(q) ==
    /\ At(q, "ask")
    /\ LET be == pick[q]
       IN \/ /\ Admits(cb[be])
             /\ cb' = [cb EXCEPT ![be] = AfterAllow(@)]
             /\ Enter(q, "reserve")
             /\ UNCHANGED pick
          \/ /\ ~Admits(cb[be])
             /\ Enter(q, "scan")
             /\ pick' = [pick EXCEPT ![q] = None]
             /\ UNCHANGED cb
    /\ UNCHANGED <<OtherVars, active, cand, applied, answers,
                   extras, extrasLaunched, run, got, winner, crashed>>

\* and the connection is counted.
HedgeReserve(q) ==
    /\ At(q, "reserve")
    /\ IncrConn(pick[q])
    /\ extras' = [extras EXCEPT ![q] = @ \cup {pick[q]}]
    /\ pick' = [pick EXCEPT ![q] = None]
    /\ Enter(q, "scan")
    /\ UNCHANGED <<OtherVars, cb, cand, applied, answers,
                   extrasLaunched, run, got, winner, crashed>>

\* The list is done with: launch the primary, or fall back if there is no extra.
HedgeLaunch(q) ==
    /\ At(q, "scan")
    /\ Cardinality(extras[q]) = MaxExtra \/ cand[q] = {}
    /\ cand' = [cand EXCEPT ![q] = {}]
    /\ IF extras[q] = {}
       THEN Enter(q, "over") /\ UNCHANGED run
       ELSE Enter(q, "race") /\ run' = [run EXCEPT ![q][backend[q]] = "running"]
    /\ UNCHANGED <<OtherVars, active, cb, applied, answers,
                   pick, extras, extrasLaunched, got, winner, crashed>>

-----------------------------------------------------------------------------
\* An attempt's goroutine. A failure in its way, or the context cancelled by a
\* winner or the client, ends doHedgeAttempt ...
HedgeEnd(q, be, o) ==
    /\ run[q][be] = "running"
    /\ o # "abort"
    /\ run' = [run EXCEPT ![q][be] = "ended"]
    /\ got' = [got EXCEPT ![q][be] = o]
    /\ applied' = [applied EXCEPT ![q] = IF MayBeApplied(o) THEN @ + 1 ELSE @]
    /\ UNCHANGED <<OtherVars, active, cb, cand, answers,
                   stage, pick, extras, extrasLaunched, winner, crashed>>

\* ... unless the body breaks off, also by the cancellation: ReverseProxy panics
\* in this goroutine, where no handler recovers it.
HedgeAbort(q, be) ==
    /\ run[q][be] = "running"
    /\ "abort" \in Outcome
    /\ crashed' = TRUE
    /\ UNCHANGED <<vars, stage, pick, extras, extrasLaunched, run, got, winner>>

\* recordCircuit,
HedgeRecord(q, be) ==
    /\ run[q][be] = "ended"
    /\ \/ /\ Class(got[q][be]) \in TripOn
          /\ \E trips \in TripChoices(cb[be]) :
                /\ cb' = [cb EXCEPT ![be] = AfterFailure(@, trips)]
                /\ healthy' = [healthy EXCEPT ![be] = @ /\ ~trips]
       \/ /\ Class(got[q][be]) \notin TripOn
          /\ cb' = [cb EXCEPT ![be] = AfterSuccess(@)]
          /\ healthy' = [healthy EXCEPT ![be] = @ \/ Closes(cb[be])]
    /\ run' = [run EXCEPT ![q][be] = "recorded"]
    /\ UNCHANGED <<active, pc, backend, tried, cand, attempt, last, bulkheadBlocked, applied,
                   answers, stage, pick, extras, extrasLaunched, got, winner, crashed>>

\* Mutant: an attempt that failed sends no result.
HedgeReleaseQuiet(q, be) ==
    /\ run[q][be] = "recorded"
    /\ ~Failed(got[q][be])
    /\ DecrConn(be)
    /\ run' = [run EXCEPT ![q][be] = "sent"]
    /\ UNCHANGED <<OtherVars, cb, cand, applied, answers,
                   stage, pick, extras, extrasLaunched, got, winner, crashed>>

\* DecrConn, and the result into the channel, which has room for all.
HedgeRelease(q, be) ==
    /\ run[q][be] = "recorded"
    /\ DecrConn(be)
    /\ run' = [run EXCEPT ![q][be] = "sent"]
    /\ UNCHANGED <<OtherVars, cb, cand, applied, answers,
                   stage, pick, extras, extrasLaunched, got, winner, crashed>>

-----------------------------------------------------------------------------
WithExtras(q, rs) == [be \in Backend |-> IF be \in extras[q] THEN "running" ELSE rs[be]]

\* The delay has passed before the primary answered.
HedgeDelay(q) ==
    /\ At(q, "race")
    /\ ~extrasLaunched[q]
    /\ extrasLaunched' = [extrasLaunched EXCEPT ![q] = TRUE]
    /\ run' = [run EXCEPT ![q] = WithExtras(q, @)]
    /\ UNCHANGED <<vars, stage, pick, extras, got, winner, crashed>>

\* Mutant: whatever comes first wins.
isHedgeWinAny(o) == o # "none"

\* isHedgeWin: any response that was completed.
isHedgeWin(o) == ~Failed(o)

Wins(q, be) == winner[q] = None /\ isHedgeWin(got[q][be])

\* A result is taken from the channel. The first response wins; a primary that
\* wins early ends the loop, one that fails early launches the extras.
HedgeCollect(q, be) ==
    /\ At(q, "race")
    /\ run[q][be] = "sent"
    /\ winner' = [winner EXCEPT ![q] = IF Wins(q, be) THEN be ELSE @]
    /\ LET rs == [run[q] EXCEPT ![be] = "taken"]
           early == ~extrasLaunched[q] /\ ~Wins(q, be)
           left == IF early THEN WithExtras(q, rs) ELSE rs
       IN /\ run' = [run EXCEPT ![q] = left]
          /\ extrasLaunched' = [extrasLaunched EXCEPT ![q] = @ \/ early]
          /\ IF \A b \in Backend : left[b] \in {"idle", "taken"}
             THEN Enter(q, "release") ELSE UNCHANGED stage
    /\ UNCHANGED <<vars, pick, extras, got, crashed>>

\* The extras that were never launched are released one by one ...
HedgeUnreserve(q, be) ==
    /\ At(q, "release")
    /\ ~extrasLaunched[q]
    /\ be \in extras[q]
    /\ DecrConn(be)
    /\ extras' = [extras EXCEPT ![q] = @ \ {be}]
    /\ UNCHANGED <<OtherVars, cb, cand, applied, answers,
                   stage, pick, extrasLaunched, run, got, winner, crashed>>


\* Mutant: a hedge without a winner is reported as not handled.
HedgeAnswerFalse(q) ==
    /\ At(q, "release")
    /\ extrasLaunched[q] \/ extras[q] = {}
    /\ Send(q, IF winner[q] # None THEN "response" ELSE "502")
    /\ IF winner[q] # None
       THEN Goto(q, "done") /\ UNCHANGED stage
       ELSE Enter(q, "over") /\ UNCHANGED pc
    /\ UNCHANGED <<active, healthy, cb, backend, tried, cand, attempt, last, bulkheadBlocked,
                   applied, pick, extras, extrasLaunched, run, got, winner, crashed>>

\* ... and the winner's response, or a 502, is written.
HedgeAnswer(q) ==
    /\ At(q, "release")
    /\ extrasLaunched[q] \/ extras[q] = {}
    /\ Send(q, IF winner[q] # None THEN "response" ELSE "502")
    /\ Goto(q, "done")
    /\ UNCHANGED <<active, healthy, cb, backend, tried, cand, attempt, last, bulkheadBlocked,
                   applied, hedgeVars>>

-----------------------------------------------------------------------------
\* proxyRequest without hedging, or after hedging did not apply.
Sequential(q) ==
    /\ q \in Idempotent => pc[q] # "check" \/ stage[q] = "over"
    /\ Step(q)
    /\ UNCHANGED hedgeVars

Attempt(q, be) ==
    \/ \E o \in Outcome \cup {"timeout"} : HedgeEnd(q, be, o)
    \/ HedgeAbort(q, be) \/ HedgeRecord(q, be) \/ HedgeRelease(q, be)

Handler(q) ==
    \/ Sequential(q)
    \/ HedgeCheckCap(q) \/ HedgeAllow(q) \/ HedgeScan(q) \/ HedgeAsk(q) \/ HedgeReserve(q)
    \/ HedgeLaunch(q) \/ HedgeDelay(q) \/ HedgeAnswer(q)
    \/ \E be \in Backend : HedgeLook(q, be) \/ HedgeCollect(q, be) \/ HedgeUnreserve(q, be)

HedgeNext ==
    /\ ~crashed
    /\ \/ \E q \in Request : Handler(q) \/ \E be \in Backend : Attempt(q, be)
       \/ (\E be \in Backend : SetHealthy(be)) /\ UNCHANGED hedgeVars
       \/ Tick /\ UNCHANGED hedgeVars

HedgeSpec == HedgeInit /\ [][HedgeNext]_allVars

\* Handlers and attempts keep running; the delay of the hedge elapses.
HedgeFairSpec ==
    /\ HedgeSpec
    /\ \A q \in Request :
          /\ WF_allVars(~crashed /\ Handler(q))
          /\ \A be \in Backend : WF_allVars(~crashed /\ Attempt(q, be))

-----------------------------------------------------------------------------
\* The request has a connection to be counted: its own, or that of an attempt.
Reserved(q, be) ==
    /\ pc[q] \in Holding
    /\ IF stage[q] \in {"race", "release"}
       THEN \/ run[q][be] \in {"running", "ended", "recorded"}
            \/ be \in extras[q] /\ ~extrasLaunched[q]
       ELSE backend[q] = be \/ be \in extras[q]


(***************************************************************************)
(* A hedged request is answered with a 502 if and only if every backend    *)
(* that it reserved was attempted and none of them completed a response.   *)
(***************************************************************************)
BestAnswer ==
    \A q \in Request : pc[q] = "done" /\ stage[q] = "release" =>
        (answers[q] = <<"502">> <=>
            \A be \in {backend[q]} \cup extras[q] : run[q][be] = "taken" /\ Failed(got[q][be]))

(***************************************************************************)
(* The race always ends: as long as the process lives, every request is    *)
(* answered, hedged or not.                                                *)
(***************************************************************************)
EveryHedgeEnds == \A q \in Request : <>(pc[q] = "done" \/ crashed)

(***************************************************************************)
(* "a panic in a downstream handler does not crash the whole server"       *)
(* (hardening.go, Recover): losing a race, or a response body that breaks  *)
(* off, does not end the process.                                          *)
(***************************************************************************)
Survives == ~crashed
=============================================================================
