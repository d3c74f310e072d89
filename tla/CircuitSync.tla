---------------------------- MODULE CircuitSync -----------------------------
(***************************************************************************)
(* Replicas of the proxy share the state of their circuit breakers through *)
(* a Redis hash (internal/circuit/redis_sync.go): each pushes its own      *)
(* state, on a timer and when its circuit opens, reads the others' and     *)
(* opens its circuit when one of them is open. One backend.                *)
(*                                                                         *)
(* Times are kept as ages in seconds, saturating where nothing compares    *)
(* them any more: updated and closedAt beyond the TTL. That also stands    *)
(* for EXPIRE, which only ever drops a hash whose entries are all stale.   *)
(* The loop runs once a second, and no call of Redis outlives the second   *)
(* (its deadline is half the interval).                                    *)
(***************************************************************************)
EXTENDS Breaker, FiniteSets

CONSTANTS
    Replica,
    TTL,        \* RedisSyncer.ttl
    SyncFaults, \* faults to start with: "crash", "redis" or "none"
    MaxFlips    \* bound: how often the backend goes down or comes back

VARIABLES
    fault,      \* what may fail in this behaviour
    alive,      \* the backend answers
    flips,
    running,    \* the replicas that have not crashed
    redisUp,
    cb,         \* each replica's backendStates entry, with the age of closedAt
    flag,       \* its health flag
    request,    \* a request of it that passed Allow is out
    hash,       \* the Redis hash: each replica's state and the age of updated
    push        \* each replica's pushes: by its loop, and by the hook of a request

syncVars == <<fault, alive, flips, running, redisUp, cb, flag, request, hash, push>>

Stale == TTL + 1
Ageing(a) == IF a < Stale THEN a + 1 ELSE a
Idle == [at |-> "idle", local |-> "closed", got |-> [r \in {} |-> 0]]
Pusher == {"loop", "hook"}

SyncInit ==
    /\ fault \in SyncFaults
    /\ alive = FALSE /\ flips = 0
    /\ running = Replica /\ redisUp = TRUE
    /\ cb = [r \in Replica |-> [st |-> NewState, closed |-> Stale]]
    /\ flag = [r \in Replica |-> TRUE]
    /\ request = [r \in Replica |-> FALSE]
    /\ hash = [r \in Replica |-> [state |-> "closed", age |-> Stale]]
    /\ push = [r \in Replica |-> [p \in Pusher |-> Idle]]

-----------------------------------------------------------------------------
(* Requests, and the health checker.                                       *)

Ask(r) ==
    /\ r \in running /\ flag[r] /\ ~request[r] /\ Admits(cb[r].st)
    /\ cb' = [cb EXCEPT ![r].st = AfterAllow(@)]
    /\ request' = [request EXCEPT ![r] = TRUE]
    /\ UNCHANGED <<fault, alive, flips, running, redisUp, flag, hash, push>>

Succeed(r) ==
    /\ r \in running /\ request[r] /\ alive
    /\ cb' = [cb EXCEPT ![r] = [st |-> AfterSuccess(@.st),
                                closed |-> IF Closes(@.st) THEN 0 ELSE @.closed]]
    /\ flag' = [flag EXCEPT ![r] = @ \/ Closes(cb[r].st)]
    /\ request' = [request EXCEPT ![r] = FALSE]
    /\ UNCHANGED <<fault, alive, flips, running, redisUp, hash, push>>

\* A failure that opens the circuit runs the hook, which pushes at once. At
\* most one such push per replica at a time (a bound).
FailRequest(r) ==
    /\ r \in running /\ request[r] /\ ~alive
    /\ \E trips \in TripChoices(cb[r].st) :
          /\ cb' = [cb EXCEPT ![r].st = AfterFailure(@, trips)]
          /\ flag' = [flag EXCEPT ![r] = @ /\ ~trips]
          /\ IF trips
             THEN push[r]["hook"].at = "idle" /\ push' = [push EXCEPT ![r]["hook"].at = "read"]
             ELSE UNCHANGED push
    /\ request' = [request EXCEPT ![r] = FALSE]
    /\ UNCHANGED <<fault, alive, flips, running, redisUp, hash>>

CheckHealth(r) ==
    /\ r \in running
    /\ flag' = [flag EXCEPT ![r] = alive]
    /\ UNCHANGED <<fault, alive, flips, running, redisUp, cb, request, hash, push>>

-----------------------------------------------------------------------------
(* The syncer.                                                             *)

\* pushAndRead up to the call, on the loop's tick or in a hook: the state is
\* read under the breaker's lock.
ReadLocal(r, p) ==
    /\ r \in running /\ push[r][p].at = "read"
    /\ push' = [push EXCEPT ![r][p].at = "eval", ![r][p].local = cb[r].st.state]
    /\ UNCHANGED <<fault, alive, flips, running, redisUp, cb, flag, request, hash>>

\* What HSET writes. Nobody looks at updated unless the state is open.
Entry(state) == [state |-> state, age |-> IF state = "open" THEN 0 ELSE Stale]

\* The script: HSET and HGETALL in one step of Redis.
Eval(r, p) ==
    /\ r \in running /\ push[r][p].at = "eval"
    /\ IF redisUp
       THEN /\ hash' = [hash EXCEPT ![r] = Entry(push[r][p].local)]
            /\ push' = [push EXCEPT ![r][p].at = "apply", ![r][p].got = hash', ![r][p].local = "closed"]
       ELSE /\ push' = [push EXCEPT ![r][p] = Idle]
            /\ UNCHANGED hash
    /\ UNCHANGED <<fault, alive, flips, running, redisUp, cb, flag, request>>

\* Mutant: a replica only reads its own entry.
SiblingsSelf(r) == {r}
Siblings(r) == Replica \ {r}

\* Mutant: the updated field is not looked at.
BelievesAny(r, e) == e.state = "open"

\* applyRemote: an entry opens the circuit unless it is stale or was written
\* before the local circuit last closed.
Believes(r, e) == e.state = "open" /\ e.age <= TTL /\ ~(cb[r].closed < e.age)

\* applyRemote and forceOpen, whose hook pushes again from this goroutine.
ApplyRemote(r, p) ==
    LET forced == (\E s \in Siblings(r) : Believes(r, push[r][p].got[s])) /\ cb[r].st.state # "open"
    IN
    /\ r \in running /\ push[r][p].at = "apply"
    /\ IF forced
       THEN /\ cb' = [cb EXCEPT ![r].st = AfterForceOpen(@)]
            /\ flag' = [flag EXCEPT ![r] = FALSE]
            /\ push' = [push EXCEPT ![r][p] = [Idle EXCEPT !.at = "read"]]
       ELSE /\ push' = [push EXCEPT ![r][p] = Idle]
            /\ UNCHANGED <<cb, flag>>
    /\ UNCHANGED <<fault, alive, flips, running, redisUp, request, hash>>

-----------------------------------------------------------------------------
Second ==
    /\ \A r \in running, p \in Pusher : push[r][p].at = "idle"
    /\ cb' = [r \in Replica |-> [st |-> [cb[r].st EXCEPT !.lastFailure = Older(@)],
                                 closed |-> Ageing(cb[r].closed)]]
    /\ hash' = [r \in Replica |-> [hash[r] EXCEPT !.age = Ageing(@)]]
    /\ push' = [r \in Replica |-> [push[r] EXCEPT !["loop"].at = IF r \in running THEN "read" ELSE "idle"]]
    /\ UNCHANGED <<fault, alive, flips, running, redisUp, flag, request>>

Flip ==
    /\ flips < MaxFlips
    /\ flips' = flips + 1
    /\ alive' = ~alive
    /\ UNCHANGED <<fault, running, redisUp, cb, flag, request, hash, push>>

\* A crash loses all but the hash.
Crash(r) ==
    /\ fault = "crash" /\ running = Replica
    /\ running' = running \ {r}
    /\ request' = [request EXCEPT ![r] = FALSE]
    /\ push' = [push EXCEPT ![r] = [p \in Pusher |-> Idle]]
    /\ cb' = [cb EXCEPT ![r] = [st |-> NewState, closed |-> Stale]]
    /\ flag' = [flag EXCEPT ![r] = TRUE]
    /\ UNCHANGED <<fault, alive, flips, redisUp, hash>>

RedisFails ==
    /\ fault = "redis" /\ redisUp
    /\ redisUp' = FALSE
    /\ UNCHANGED <<fault, alive, flips, running, cb, flag, request, hash, push>>

Push(r, p) == ReadLocal(r, p) \/ Eval(r, p) \/ ApplyRemote(r, p)

SyncNext ==
    \/ \E r \in Replica : \/ Ask(r) \/ Succeed(r) \/ FailRequest(r) \/ CheckHealth(r)
                          \/ Crash(r) \/ \E p \in Pusher : Push(r, p)
    \/ Second \/ Flip \/ RedisFails

\* Time passes; health checks, traffic and the sync loop go on in every
\* replica that runs; a call of Redis returns.
SyncFairSpec ==
    /\ SyncInit /\ [][SyncNext]_syncVars
    /\ WF_syncVars(Second)
    /\ \A r \in Replica :
          /\ WF_syncVars(Ask(r)) /\ WF_syncVars(Succeed(r) \/ FailRequest(r))
          /\ WF_syncVars(CheckHealth(r))
          /\ WF_syncVars(Push(r, "loop")) /\ WF_syncVars(Push(r, "hook"))

-----------------------------------------------------------------------------
\* "On Redis failure it ... continues with local state only", and the entry
\* of a replica that died goes stale: once the backend answers again, a
\* replica that is left alone closes its circuit for good.
AloneRecovers ==
    \A r \in Replica :
        <>[](alive /\ r \in running /\ (~redisUp \/ running = {r})) => <>[](cb[r].st.state = "closed")

\* "If any sibling reports StateOpen for the same backend, the local circuit
\* is opened": a circuit that stays open opens the sibling's.
OpenSpreads ==
    \A r, s \in Replica :
        <>[](redisUp /\ running = Replica /\ cb[r].st.state = "open") => []<>(cb[s].st.state = "open")

\* "This prevents a stale remote open from blocking local recovery": once
\* the backend answers again, every circuit closes for good.
AllRecover == <>[](alive /\ running = Replica) => <>[](\A r \in Replica : cb[r].st.state = "closed")
=============================================================================
