---------------------------- MODULE RollingWindow ---------------------------
(***************************************************************************)
(* The rolling error-rate window of the circuit breaker                    *)
(* (internal/circuit/breaker.go, ModeRolling): a ring of buckets, each     *)
(* with the time of its first event, and the test that opens the circuit.  *)
(* A history of the recorded events gives the counts the ring stands for.  *)
(***************************************************************************)
EXTENDS Integers, FiniteSetsExt

CONSTANTS
    rollingBuckets,
    rollingWindow,              \* in ticks
    minRequests,
    RateNum, RateDen,           \* errorRateThreshold = RateNum / RateDen
    MaxTime, MaxEvents          \* bounds of the model

VARIABLES
    now,
    state,      \* "closed", or "open" until the circuit has recovered
    buckets,
    events      \* history: [Time -> successes and failures recorded then]

vars == <<now, state, buckets, events>>

Time == 0..MaxTime
Zero == -1                                  \* the zero time.Time
Bucket == [start: Time \cup {Zero}, successes: 0..MaxEvents, failures: 0..MaxEvents]
Ring == 0..(rollingBuckets - 1)
EmptyRing == [i \in Ring |-> [start |-> Zero, successes |-> 0, failures |-> 0]]
NoEvents == [t \in Time |-> [successes |-> 0, failures |-> 0]]

TypeOK ==
    /\ now \in Time
    /\ state \in {"closed", "open"}
    /\ buckets \in [Ring -> Bucket]
    /\ events \in [Time -> [successes: 0..MaxEvents, failures: 0..MaxEvents]]

Recorded(from) ==
    MapThenSumSet(LAMBDA t : events[t].successes + events[t].failures, {t \in Time : t >= from})

-----------------------------------------------------------------------------
bucketDur == IF rollingWindow \div rollingBuckets > 0 THEN rollingWindow \div rollingBuckets ELSE 1

Plus(b, success) ==
    IF success THEN [b EXCEPT !.successes = @ + 1] ELSE [b EXCEPT !.failures = @ + 1]

\* Mutant: a bucket holds the events of one instant only.
recordWindowInstant(bs, success) ==
    LET idx == (now \div bucketDur) % rollingBuckets
        b == bs[idx]
        live == IF b.start # now THEN [start |-> now, successes |-> 0, failures |-> 0] ELSE b
    IN [bs EXCEPT ![idx] = Plus(live, success)]

recordWindow(bs, success) ==
    LET idx == (now \div bucketDur) % rollingBuckets
        b == bs[idx]
        live == IF now - b.start >= rollingWindow \/ b.start = Zero
                THEN [start |-> now, successes |-> 0, failures |-> 0] ELSE b
    IN [bs EXCEPT ![idx] = Plus(live, success)]

\* The buckets that windowTotals adds up at time t.
Live(bs, t) == {i \in Ring : bs[i].start # Zero /\ t - bs[i].start < rollingWindow}

TotalOf(bs, t) == MapThenSumSet(LAMBDA i : bs[i].successes + bs[i].failures, Live(bs, t))
FailuresOf(bs, t) == MapThenSumSet(LAMBDA i : bs[i].failures, Live(bs, t))

\* Mutant: the rate alone decides.
tripOnRateAlone(bs, t) == FailuresOf(bs, t) * RateDen > RateNum * TotalOf(bs, t)

rollingShouldTrip(bs, t) ==
    /\ TotalOf(bs, t) >= minRequests
    /\ FailuresOf(bs, t) * RateDen > RateNum * TotalOf(bs, t)

-----------------------------------------------------------------------------
Init ==
    /\ now = 0
    /\ state = "closed"
    /\ buckets = EmptyRing
    /\ events = NoEvents

RecordSuccess ==
    /\ Recorded(0) < MaxEvents
    /\ state = "closed"
    /\ buckets' = recordWindow(buckets, TRUE)
    /\ events' = [events EXCEPT ![now].successes = @ + 1]
    /\ UNCHANGED <<now, state>>

\* The clock is read once to record the failure and once more to test the window.
\* A failure reported late, by a request admitted before the trip, is recorded too.
RecordFailure ==
    /\ Recorded(0) < MaxEvents
    /\ buckets' = recordWindow(buckets, FALSE)
    /\ events' = [events EXCEPT ![now].failures = @ + 1]
    /\ now' \in {now, now + 1} \cap Time
    /\ state' = IF state = "closed" /\ ~rollingShouldTrip(buckets', now') THEN "closed" ELSE "open"

\* The circuit closes again after its half-open period, or is reset.
resetWindow ==
    /\ state' = "closed"
    /\ buckets' = EmptyRing
    /\ events' = NoEvents
    /\ UNCHANGED now

\* A sibling replica opens the circuit; the ring stays as it is.
forceOpen ==
    /\ state = "closed"
    /\ state' = "open"
    /\ UNCHANGED <<now, buckets, events>>

Tick ==
    /\ now < MaxTime
    /\ now' = now + 1
    /\ UNCHANGED <<state, buckets, events>>

Next == RecordSuccess \/ RecordFailure \/ resetWindow \/ forceOpen \/ Tick

Spec == Init /\ [][Next]_vars

-----------------------------------------------------------------------------
\* The events a bucketed window may forget are those of its oldest bucket.
WindowStart == now - rollingWindow + 1
SureStart == now - rollingWindow + bucketDur

FailuresSince(from) == MapThenSumSet(LAMBDA t : events[t].failures, {t \in Time : t >= from})

(***************************************************************************)
(* As long as nothing recorded since the last recovery has left the        *)
(* window, the ring counts every outcome: a burst of failures shorter than *)
(* the window is weighed in full when the circuit decides to open.         *)
(***************************************************************************)
ExactWhileYoung ==
    Recorded(WindowStart) = Recorded(0) =>
        /\ TotalOf(buckets, now) = Recorded(0)
        /\ FailuresOf(buckets, now) = FailuresSince(0)

(***************************************************************************)
(* "If this bucket belongs to a prior window rotation, reset it before     *)
(* use" (breaker.go:343), so an event is counted for as long as it is      *)
(* younger than the window less one bucket, and a closed circuit decides   *)
(* on it.                                                                  *)
(***************************************************************************)
RecentCounted == state = "closed" => TotalOf(buckets, now) >= Recorded(SureStart)
=============================================================================
