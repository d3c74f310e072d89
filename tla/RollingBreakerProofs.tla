------------------------ MODULE RollingBreakerProofs ------------------------
(***************************************************************************)
(* The breaker as the code keeps it, with clock readings, unbounded        *)
(* counters and a ring of buckets, implements CircuitBreaker for any       *)
(* thresholds, timeout, window and number of requests.                     *)
(***************************************************************************)
EXTENDS RollingBreaker, TLAPS

\* The state of CircuitBreaker that stands for the state of the code.
Mapped == [state |-> bst.state, failures |-> Capped(bst.failures),
           successes |-> bst.successes, halfOpenInFlight |-> bst.halfOpenInFlight,
           lastFailure |-> Age(bst.lastFailure)]

\* A backendState, spelled out: state, counters, last failure and ring.
Rec(st, f, s, h, l, ring) ==
    [state |-> st, failures |-> f, successes |-> s, halfOpenInFlight |-> h, lastFailure |-> l,
     buckets |-> ring]

\* A reading of the clock at time n or before, or the zero time.
Past(t, n) == t = -1 \/ t \in 0..n

RBInv ==
    /\ now \in Nat
    /\ bst = Rec(bst.state, bst.failures, bst.successes, bst.halfOpenInFlight, bst.lastFailure, bst.buckets)
    /\ bst.state \in {"closed", "open", "half-open"}
    /\ bst.failures \in Nat /\ bst.successes \in Nat /\ bst.halfOpenInFlight \in Nat
    /\ Past(bst.lastFailure, now) /\ Past(openedAt, now)
    /\ asked \in [Request -> {"idle", "normal", "probe"}]
    /\ flag \in BOOLEAN
    /\ admitted \in Nat

\* Answers and the end of a half-open period keep the requests' type.
LEMMA AskedType ==
    ASSUME NEW rs \in [Request -> {"idle", "normal", "probe"}], NEW q \in Request
    PROVE  /\ Demoted(rs) \in [Request -> {"idle", "normal", "probe"}]
           /\ [rs EXCEPT ![q] = "idle"] \in [Request -> {"idle", "normal", "probe"}]
BY DEF Demoted

\* The fields of a backendState that is spelled out.
LEMMA Fields ==
    ASSUME NEW st, NEW f, NEW s, NEW h, NEW l, NEW ring, NEW b, b = Rec(st, f, s, h, l, ring)
    PROVE  /\ b.state = st /\ b.failures = f /\ b.successes = s /\ b.halfOpenInFlight = h
           /\ b.lastFailure = l /\ b.buckets = ring
           /\ b = Rec(b.state, b.failures, b.successes, b.halfOpenInFlight, b.lastFailure, b.buckets)
BY DEF Rec

-----------------------------------------------------------------------------
\* Allow in each state of the circuit.
LEMMA PassSim ==
    ASSUME RBInv, NEW q \in Request, Pass(q)
    PROVE  RBInv' /\ Abstract!Allow(q)
<1> USE RollingAssumption DEF RBInv
<1>1. CASE bst.state = "open"
  <2>1. /\ bst' = Rec("half-open", bst.failures, 0, 1, bst.lastFailure, bst.buckets)
        /\ Age(bst.lastFailure) >= Timeout /\ asked' = [asked EXCEPT ![q] = "probe"] /\ admitted' = 1
        /\ asked[q] = "idle" /\ UNCHANGED <<now, flag, openedAt>>
    BY <1>1 DEF Pass, Rec
  <2>2. /\ bst'.state = "half-open" /\ bst'.failures = bst.failures /\ bst'.successes = 0
        /\ bst'.halfOpenInFlight = 1 /\ bst'.lastFailure = bst.lastFailure
        /\ bst' = Rec(bst'.state, bst'.failures, bst'.successes, bst'.halfOpenInFlight, bst'.lastFailure, bst'.buckets)
    BY <2>1, Fields
  <2>3. RBInv'
    BY <2>1, <2>2
  <2>4. Abstract!AfterAllow(Mapped) = Mapped' /\ Abstract!Admits(Mapped)
    BY <1>1, <2>1, <2>2 DEF Abstract!AfterAllow, Abstract!Admits, Mapped, Age, Capped
  <2>5. Abstract!Allow(q)
    BY <1>1, <2>1, <2>2, <2>4 DEF Abstract!Allow, Mapped, Age
  <2>6. QED
    BY <2>3, <2>5
<1>2. CASE bst.state = "half-open"
  <2>1. /\ bst' = Rec("half-open", bst.failures, bst.successes, bst.halfOpenInFlight + 1,
                      bst.lastFailure, bst.buckets)
        /\ bst.halfOpenInFlight < SuccessThreshold
        /\ asked' = [asked EXCEPT ![q] = "probe"] /\ admitted' = admitted + 1
        /\ asked[q] = "idle" /\ UNCHANGED <<now, flag, openedAt>>
    BY <1>2 DEF Pass, Rec, MaxProbes
  <2>2. /\ bst'.state = "half-open" /\ bst'.failures = bst.failures /\ bst'.successes = bst.successes
        /\ bst'.halfOpenInFlight = bst.halfOpenInFlight + 1 /\ bst'.lastFailure = bst.lastFailure
        /\ bst' = Rec(bst'.state, bst'.failures, bst'.successes, bst'.halfOpenInFlight, bst'.lastFailure, bst'.buckets)
    BY <2>1, Fields
  <2>3. RBInv'
    BY <2>1, <2>2
  <2>4. Abstract!AfterAllow(Mapped) = Mapped' /\ Abstract!Admits(Mapped)
    BY <1>2, <2>1, <2>2 DEF Abstract!AfterAllow, Abstract!Admits, Abstract!maxProbes, Mapped, Age, Capped
  <2>5. Abstract!Allow(q)
    BY <1>2, <2>1, <2>2, <2>4 DEF Abstract!Allow, Mapped, Age
  <2>6. QED
    BY <2>3, <2>5
<1>3. CASE bst.state = "closed"
  <2>1. /\ asked' = [asked EXCEPT ![q] = "normal"] /\ asked[q] = "idle"
        /\ UNCHANGED <<bst, admitted, now, flag, openedAt>>
    BY <1>3 DEF Pass
  <2>2. RBInv'
    BY <2>1
  <2>3. Abstract!AfterAllow(Mapped) = Mapped' /\ Abstract!Admits(Mapped)
    BY <1>3, <2>1 DEF Abstract!AfterAllow, Abstract!Admits, Mapped, Age, Capped
  <2>4. Abstract!Allow(q)
    BY <1>3, <2>1, <2>3 DEF Abstract!Allow, Mapped, Age
  <2>5. QED
    BY <2>2, <2>4
<1>4. QED
  BY <1>1, <1>2, <1>3

\* RecordSuccess in each state of the circuit.
LEMMA SuccessSim ==
    ASSUME RBInv, NEW q \in Request, SuccessHalfOpen(q) \/ SuccessClosed(q) \/ SuccessOpen(q)
    PROVE  RBInv' /\ Abstract!RecordSuccess(q)
<1> USE RollingAssumption DEF RBInv
<1>0. Answered(q) \in [Request -> {"idle", "normal", "probe"}]
      /\ Demoted(Answered(q)) \in [Request -> {"idle", "normal", "probe"}]
  BY AskedType DEF Answered
<1>1. CASE SuccessHalfOpen(q) /\ bst.successes + 1 >= SuccessThreshold
  <2>1. /\ bst' = Rec("closed", 0, 0, 0, bst.lastFailure, Window!EmptyRing)
        /\ bst.state = "half-open" /\ flag' = TRUE /\ asked' = Demoted(Answered(q))
        /\ asked[q] # "idle" /\ UNCHANGED <<now, openedAt, admitted>>
    BY <1>1 DEF SuccessHalfOpen, Blank, Rec
  <2>2. /\ bst'.state = "closed" /\ bst'.failures = 0 /\ bst'.successes = 0
        /\ bst'.halfOpenInFlight = 0 /\ bst'.lastFailure = bst.lastFailure
        /\ bst' = Rec(bst'.state, bst'.failures, bst'.successes, bst'.halfOpenInFlight, bst'.lastFailure, bst'.buckets)
    BY <2>1, Fields
  <2>3. RBInv'
    BY <1>0, <2>1, <2>2
  <2>4. Abstract!Closes(Mapped) /\ Abstract!AfterSuccess(Mapped) = Mapped'
    <3>1. Abstract!Closes(Mapped)
      BY <1>1, <2>1 DEF Abstract!Closes, Mapped
    <3>2. Abstract!AfterSuccess(Mapped)
            = [Mapped EXCEPT !.state = "closed", !.failures = 0, !.successes = 0, !.halfOpenInFlight = 0]
      <4>1. Mapped.state # "closed"
        BY <2>1 DEF Mapped
      <4>2. QED
        BY <3>1, <4>1 DEF Abstract!AfterSuccess
    <3>3. Mapped' = [state |-> "closed", failures |-> 0, successes |-> 0, halfOpenInFlight |-> 0,
                     lastFailure |-> Age(bst.lastFailure)]
      BY <2>1, <2>2 DEF Mapped, Capped, Age
    <3>4. QED
      BY <3>1, <3>2, <3>3 DEF Mapped
  <2>5. Abstract!RecordSuccess(q)
    BY <2>1, <2>4 DEF Abstract!RecordSuccess, Abstract!Demote, Demoted, Answered, Mapped, Age
  <2>6. QED
    BY <2>3, <2>5
<1>2. CASE SuccessHalfOpen(q) /\ ~(bst.successes + 1 >= SuccessThreshold)
  <2> DEFINE h == IF bst.halfOpenInFlight > 0 THEN bst.halfOpenInFlight - 1 ELSE bst.halfOpenInFlight
  <2>1. /\ bst' = Rec("half-open", bst.failures, bst.successes + 1, h, bst.lastFailure, bst.buckets)
        /\ bst.state = "half-open" /\ asked' = Answered(q)
        /\ asked[q] # "idle" /\ UNCHANGED <<now, flag, openedAt, admitted>>
    BY <1>2 DEF SuccessHalfOpen, Rec
  <2>2. /\ bst'.state = "half-open" /\ bst'.failures = bst.failures /\ bst'.successes = bst.successes + 1
        /\ bst'.halfOpenInFlight = h /\ bst'.lastFailure = bst.lastFailure
        /\ bst' = Rec(bst'.state, bst'.failures, bst'.successes, bst'.halfOpenInFlight, bst'.lastFailure, bst'.buckets)
    BY <2>1, Fields
  <2>3. RBInv'
    BY <1>0, <2>1, <2>2
  <2>4. Abstract!AfterSuccess(Mapped) = Mapped' /\ ~Abstract!Closes(Mapped)
    BY <1>2, <2>1, <2>2 DEF Abstract!AfterSuccess, Abstract!Closes, Mapped, Age, Capped
  <2>5. Abstract!RecordSuccess(q)
    BY <2>1, <2>4 DEF Abstract!RecordSuccess, Answered, Mapped, Age
  <2>6. QED
    BY <2>3, <2>5
<1>3. CASE SuccessClosed(q)
  <2> DEFINE ring == Recorded(TRUE)
  <2>1. /\ bst' = Rec("closed", 0, 0, bst.halfOpenInFlight, bst.lastFailure, ring)
        /\ bst.state = "closed" /\ asked' = Answered(q)
        /\ asked[q] # "idle" /\ UNCHANGED <<now, flag, openedAt, admitted>>
    BY <1>3 DEF SuccessClosed, Rec
  <2> HIDE DEF ring
  <2>2. /\ bst'.state = "closed" /\ bst'.failures = 0 /\ bst'.successes = 0
        /\ bst'.halfOpenInFlight = bst.halfOpenInFlight /\ bst'.lastFailure = bst.lastFailure
        /\ bst' = Rec(bst'.state, bst'.failures, bst'.successes, bst'.halfOpenInFlight, bst'.lastFailure, bst'.buckets)
    BY <2>1, Fields
  <2>3. RBInv'
    BY <1>0, <2>1, <2>2
  <2>4. ~Abstract!Closes(Mapped) /\ Abstract!AfterSuccess(Mapped) = Mapped'
    <3>1. Mapped.state = "closed" /\ ~Abstract!Closes(Mapped)
      BY <2>1 DEF Abstract!Closes, Mapped
    <3>2. Abstract!AfterSuccess(Mapped) = [Mapped EXCEPT !.failures = 0, !.successes = 0]
      BY <3>1 DEF Abstract!AfterSuccess
    <3>3. Mapped' = [state |-> "closed", failures |-> 0, successes |-> 0,
                     halfOpenInFlight |-> bst.halfOpenInFlight, lastFailure |-> Age(bst.lastFailure)]
      BY <2>1, <2>2 DEF Mapped, Capped, Age
    <3>4. QED
      BY <2>1, <3>1, <3>2, <3>3 DEF Mapped
  <2>5. Abstract!RecordSuccess(q)
    BY <2>1, <2>4 DEF Abstract!RecordSuccess, Answered, Mapped, Age
  <2>6. QED
    BY <2>3, <2>5
<1>4. CASE SuccessOpen(q)
  <2>1. /\ bst.state = "open" /\ asked' = Answered(q)
        /\ asked[q] # "idle" /\ UNCHANGED <<bst, now, flag, openedAt, admitted>>
    BY <1>4 DEF SuccessOpen
  <2>2. RBInv'
    BY <1>0, <2>1
  <2>3. Abstract!AfterSuccess(Mapped) = Mapped' /\ ~Abstract!Closes(Mapped)
    BY <2>1 DEF Abstract!AfterSuccess, Abstract!Closes, Mapped, Age, Capped
  <2>4. Abstract!RecordSuccess(q)
    BY <2>1, <2>3 DEF Abstract!RecordSuccess, Answered, Mapped, Age
  <2>5. QED
    BY <2>2, <2>4
<1>5. QED
  BY <1>1, <1>2, <1>3, <1>4

-----------------------------------------------------------------------------
\* The abstract failure counter stops at the threshold, the code's goes on.
LEMMA CappedGrows ==
    ASSUME RBInv
    PROVE  /\ Capped(bst.failures + 1) = Abstract!MoreFailures(Mapped)
           /\ (Abstract!MoreFailures(Mapped) >= FailureThreshold) <=> (bst.failures + 1 >= FailureThreshold)
BY RollingAssumption DEF RBInv, Capped, Abstract!MoreFailures, Mapped

\* A failure that does not open the circuit, and one that does.
LEMMA QuietFailure ==
    ASSUME RBInv, NEW q \in Request, NEW ring, asked[q] # "idle", FALSE \in Abstract!TripChoices(Mapped),
           bst' = Rec(bst.state, bst.failures + 1, bst.successes, bst.halfOpenInFlight, now, ring),
           asked' = Answered(q), UNCHANGED <<now, flag, openedAt, admitted>>
    PROVE  RBInv' /\ Abstract!RecordFailure(q)
<1> USE RollingAssumption DEF RBInv
<1>1. /\ bst'.state = bst.state /\ bst'.failures = bst.failures + 1 /\ bst'.successes = bst.successes
      /\ bst'.halfOpenInFlight = bst.halfOpenInFlight /\ bst'.lastFailure = now
      /\ bst' = Rec(bst'.state, bst'.failures, bst'.successes, bst'.halfOpenInFlight, bst'.lastFailure, bst'.buckets)
  BY Fields
<1>2. RBInv'
  BY <1>1, AskedType DEF Answered, Past
<1>3. Mapped' = [state |-> bst.state, failures |-> Capped(bst.failures + 1), successes |-> bst.successes,
                 halfOpenInFlight |-> bst.halfOpenInFlight, lastFailure |-> 0]
  BY <1>1 DEF Mapped, Capped, Age
<1>4. Abstract!AfterFailure(Mapped, FALSE) = Mapped'
  BY <1>3, CappedGrows DEF Abstract!AfterFailure, Mapped
<1>5. Abstract!RecordFailure(q)
  BY <1>4 DEF Abstract!RecordFailure, Answered, Mapped, Age
<1>6. QED
  BY <1>2, <1>5

LEMMA LoudFailure ==
    ASSUME RBInv, NEW q \in Request, NEW ring, asked[q] # "idle", TRUE \in Abstract!TripChoices(Mapped),
           bst.state \in {"closed", "half-open"},
           bst' = Rec("open", bst.failures + 1, IF bst.state = "closed" THEN bst.successes ELSE 0,
                      IF bst.state = "closed" THEN bst.halfOpenInFlight ELSE 0, now, ring),
           flag' = FALSE, openedAt' = now, asked' = Demoted(Answered(q)), UNCHANGED <<now, admitted>>
    PROVE  RBInv' /\ Abstract!RecordFailure(q)
<1> USE RollingAssumption DEF RBInv
<1>1. /\ bst'.state = "open" /\ bst'.failures = bst.failures + 1
      /\ bst'.successes = (IF bst.state = "closed" THEN bst.successes ELSE 0)
      /\ bst'.halfOpenInFlight = (IF bst.state = "closed" THEN bst.halfOpenInFlight ELSE 0)
      /\ bst'.lastFailure = now
      /\ bst' = Rec(bst'.state, bst'.failures, bst'.successes, bst'.halfOpenInFlight, bst'.lastFailure, bst'.buckets)
  BY Fields
<1>2. RBInv'
  <2>1. Demoted(Answered(q)) \in [Request -> {"idle", "normal", "probe"}]
    BY AskedType DEF Answered
  <2>2. Past(bst'.lastFailure, now') /\ Past(openedAt', now')
    BY <1>1 DEF Past
  <2>a. flag' \in BOOLEAN
    OBVIOUS
  <2>3. /\ bst'.state \in {"closed", "open", "half-open"}
        /\ bst'.failures \in Nat /\ bst'.successes \in Nat /\ bst'.halfOpenInFlight \in Nat
    BY <1>1
  <2>4. QED
    BY <1>1, <2>1, <2>2, <2>a, <2>3
<1>3. Mapped' = [state |-> "open", failures |-> Capped(bst.failures + 1),
                 successes |-> IF bst.state = "closed" THEN bst.successes ELSE 0,
                 halfOpenInFlight |-> IF bst.state = "closed" THEN bst.halfOpenInFlight ELSE 0,
                 lastFailure |-> 0]
  BY <1>1 DEF Mapped, Capped, Age
<1>4. Abstract!AfterFailure(Mapped, TRUE) = Mapped'
  BY <1>3, CappedGrows DEF Abstract!AfterFailure, Mapped
<1>5. Age(openedAt)' = 0
  BY DEF Age
<1>6. Abstract!RecordFailure(q)
  BY <1>4, <1>5 DEF Abstract!RecordFailure, Abstract!Demote, Demoted, Answered, Mapped
<1>7. QED
  BY <1>2, <1>6

\* RecordFailure in each state of the circuit.
LEMMA FailureSim ==
    ASSUME RBInv, NEW q \in Request, FailureHalfOpen(q) \/ Failure(q)
    PROVE  RBInv' /\ Abstract!RecordFailure(q)
<1>1. CASE FailureHalfOpen(q)
  <2>1. TRUE \in Abstract!TripChoices(Mapped)
    BY <1>1 DEF FailureHalfOpen, Abstract!TripChoices, Mapped
  <2>2. bst' = Rec("open", bst.failures + 1, 0, 0, now, bst.buckets)
    BY <1>1 DEF RBInv, FailureHalfOpen, Rec
  <2>3. QED
    BY <1>1, <2>1, <2>2, LoudFailure DEF FailureHalfOpen
<1>2. CASE Failure(q)
  <2> DEFINE ring == Recorded(FALSE)
             counted == [bst EXCEPT !.failures = @ + 1, !.lastFailure = now, !.buckets = ring]
  <2>a. /\ asked[q] # "idle" /\ bst.state # "half-open" /\ UNCHANGED <<now, admitted>>
        /\ IF Trips(counted)
           THEN /\ bst' = [counted EXCEPT !.state = "open"]
                /\ flag' = FALSE /\ openedAt' = now /\ asked' = Demoted(Answered(q))
           ELSE bst' = counted /\ asked' = Answered(q) /\ UNCHANGED <<flag, openedAt>>
    BY <1>2 DEF Failure
  <2> HIDE DEF ring
  <2>0. /\ counted = Rec(bst.state, bst.failures + 1, bst.successes, bst.halfOpenInFlight, now, ring)
        /\ counted.state = bst.state /\ counted.failures = bst.failures + 1
    <3>1. bst = Rec(bst.state, bst.failures, bst.successes, bst.halfOpenInFlight, bst.lastFailure, bst.buckets)
      BY DEF RBInv
    <3> HIDE DEF counted
    <3>2. counted = [bst EXCEPT !.failures = bst.failures + 1, !.lastFailure = now, !.buckets = ring]
      BY DEF counted
    <3>3. counted = Rec(bst.state, bst.failures + 1, bst.successes, bst.halfOpenInFlight, now, ring)
      BY <3>1, <3>2 DEF Rec
    <3>4. QED
      BY <3>3, Fields
  <2> HIDE DEF counted
  <2>b. Mapped.state = bst.state
    BY DEF Mapped
  <2>1. CASE Trips(counted)
    <3>1. bst.state = "closed" /\ (Mode # "rolling" => bst.failures + 1 >= FailureThreshold)
      BY <2>0, <2>1 DEF Trips
    <3>2. TRUE \in Abstract!TripChoices(Mapped)
      BY <2>b, <3>1, CappedGrows DEF Abstract!TripChoices
    <3>3. bst' = Rec("open", bst.failures + 1, bst.successes, bst.halfOpenInFlight, now, ring)
      BY <2>0, <2>a, <2>1 DEF Rec
    <3>4. QED
      BY <2>a, <2>1, <3>1, <3>2, <3>3, LoudFailure
  <2>2. CASE ~Trips(counted)
    <3>1. bst.state = "closed" /\ Mode # "rolling" => ~(bst.failures + 1 >= FailureThreshold)
      BY <2>0, <2>2 DEF Trips
    <3>2. bst.state \in {"closed", "open"}
      BY <2>a DEF RBInv
    <3>3. FALSE \in Abstract!TripChoices(Mapped)
      <4>1. CASE bst.state = "open"
        BY <2>b, <4>1 DEF Abstract!TripChoices
      <4>2. CASE bst.state = "closed" /\ Mode = "rolling"
        BY <2>b, <4>2 DEF Abstract!TripChoices
      <4>3. CASE bst.state = "closed" /\ Mode # "rolling"
        <5>1. (Abstract!MoreFailures(Mapped) >= FailureThreshold) = FALSE
          BY <3>1, <4>3, CappedGrows
        <5>2. QED
          BY <2>b, <4>3, <5>1 DEF Abstract!TripChoices
      <4>4. QED
        BY <3>2, <4>1, <4>2, <4>3
    <3>4. QED
      BY <2>0, <2>a, <2>2, <3>3, QuietFailure
  <2>3. QED
    BY <2>1, <2>2
<1>3. QED
  BY <1>1, <1>2

-----------------------------------------------------------------------------
\* forceOpen, Reset, the health flag and the clock.
LEMMA OtherSim ==
    ASSUME RBInv, Forced \/ Cleared \/ FlagSet
    PROVE  RBInv' /\ (Abstract!ForceOpen \/ Abstract!Reset \/ Abstract!SetHealthy)
<1> USE RollingAssumption DEF RBInv
<1>0. Demoted(asked) \in [Request -> {"idle", "normal", "probe"}]
  BY DEF Demoted
<1>1. CASE Forced
  <2>1. bst' = Rec("open", bst.failures, bst.successes, bst.halfOpenInFlight, now, bst.buckets)
    BY <1>1 DEF Forced, Rec
  <2>2. /\ bst'.state = "open" /\ bst'.failures = bst.failures /\ bst'.successes = bst.successes
        /\ bst'.halfOpenInFlight = bst.halfOpenInFlight /\ bst'.lastFailure = now
        /\ bst' = Rec(bst'.state, bst'.failures, bst'.successes, bst'.halfOpenInFlight, bst'.lastFailure, bst'.buckets)
    BY <2>1, Fields
  <2>3. RBInv'
    <3>1. Past(bst'.lastFailure, now') /\ Past(openedAt', now')
      BY <1>1, <2>2 DEF Forced, Past
    <3>2. flag' \in BOOLEAN
      BY <1>1 DEF Forced
    <3>3. QED
      BY <1>0, <1>1, <2>2, <3>1, <3>2 DEF Forced
  <2>4. Age(openedAt)' = 0 /\ Age(bst.lastFailure)' = 0
    BY <1>1, <2>2 DEF Age, Forced
  <2>5. Abstract!AfterForceOpen(Mapped) = Mapped'
    BY <1>1, <2>2, <2>4 DEF Forced, Abstract!AfterForceOpen, Mapped, Capped
  <2>6. Abstract!ForceOpen
    BY <1>1, <2>4, <2>5 DEF Forced, Abstract!ForceOpen, Abstract!Demote, Demoted, Mapped
  <2>7. QED
    BY <2>3, <2>6
<1>2. CASE Cleared
  <2>1. bst' = Rec("closed", 0, 0, 0, -1, Window!EmptyRing)
    BY <1>2 DEF Cleared, Blank, Rec
  <2>2. /\ bst'.state = "closed" /\ bst'.failures = 0 /\ bst'.successes = 0
        /\ bst'.halfOpenInFlight = 0 /\ bst'.lastFailure = -1
        /\ bst' = Rec(bst'.state, bst'.failures, bst'.successes, bst'.halfOpenInFlight, bst'.lastFailure, bst'.buckets)
    BY <2>1, Fields
  <2>3. RBInv'
    BY <1>0, <1>2, <2>2 DEF Cleared, Past
  <2>4. Mapped' = Abstract!NewState
    BY <2>2 DEF Mapped, Capped, Age, Abstract!NewState
  <2>5. Abstract!Reset
    BY <1>2, <2>4 DEF Cleared, Abstract!Reset, Abstract!Demote, Demoted, Mapped, Age
  <2>6. QED
    BY <2>3, <2>5
<1>3. CASE FlagSet
  <2>1. RBInv'
    BY <1>3 DEF FlagSet
  <2>2. Abstract!SetHealthy
    BY <1>3 DEF FlagSet, Abstract!SetHealthy, Age, Capped
  <2>3. QED
    BY <2>1, <2>2
<1>4. QED
  BY <1>1, <1>2, <1>3

\* An age grows with the clock until it reaches the timeout.
LEMMA AgeTicks ==
    ASSUME NEW n \in Nat, NEW t, Past(t, n)
    PROVE  LET age == IF t = -1 \/ n - t > Timeout THEN Timeout ELSE n - t IN
           /\ Abstract!Older(age) = (IF t = -1 \/ (n + 1) - t > Timeout THEN Timeout ELSE (n + 1) - t)
           /\ age \in 0..Timeout /\ Past(t, n + 1)
BY RollingAssumption DEF Past, Abstract!Older

LEMMA TickSim ==
    ASSUME RBInv, RBTick
    PROVE  RBInv' /\ (Abstract!Tick \/ UNCHANGED Abstract!vars)
<1>1. /\ now \in Nat /\ now' = now + 1 /\ bst' = bst /\ openedAt' = openedAt
      /\ UNCHANGED <<flag, asked, admitted>>
      /\ Past(bst.lastFailure, now) /\ Past(openedAt, now)
  BY DEF RBTick, RBInv
<1>2. /\ Age(bst.lastFailure)' = Abstract!Older(Age(bst.lastFailure))
      /\ Age(bst.lastFailure) \in 0..Timeout /\ Past(bst.lastFailure, now + 1)
  BY <1>1, AgeTicks DEF Age
<1>3. /\ Age(openedAt)' = Abstract!Older(Age(openedAt))
      /\ Age(openedAt) \in 0..Timeout /\ Past(openedAt, now + 1)
  BY <1>1, AgeTicks DEF Age
<1>4. RBInv'
  BY <1>1, <1>2, <1>3 DEF RBInv
<1>5. Mapped' = [Mapped EXCEPT !.lastFailure = Abstract!Older(@)]
  BY <1>1, <1>2 DEF Mapped, Capped
<1>6. CASE Age(bst.lastFailure) < Timeout \/ Age(openedAt) < Timeout
  <2>1. Abstract!Tick
    BY <1>1, <1>3, <1>5, <1>6 DEF Abstract!Tick, Mapped
  <2>2. QED
    BY <1>4, <2>1
<1>7. CASE ~(Age(bst.lastFailure) < Timeout \/ Age(openedAt) < Timeout)
  <2>1. Age(bst.lastFailure)' = Age(bst.lastFailure) /\ Age(openedAt)' = Age(openedAt)
    BY <1>2, <1>3, <1>7, RollingAssumption DEF Abstract!Older
  <2>2. UNCHANGED Abstract!vars
    BY <1>1, <2>1 DEF Abstract!vars, Capped
  <2>3. QED
    BY <1>4, <2>2
<1>8. QED
  BY <1>6, <1>7

-----------------------------------------------------------------------------
\* Every behaviour of the breaker as the code keeps it (Allow, RecordSuccess,
\* RecordFailure, forceOpen and Reset over clock readings and the ring) is a
\* behaviour of the abstract breaker, so that the theorems about CircuitBreaker
\* hold of it.
THEOREM BreakerImplemented == RBSpec => ImplementsBreaker
<1>1. RBInit => RBInv /\ Abstract!Init
  <2> SUFFICES ASSUME RBInit PROVE RBInv /\ Abstract!Init
    OBVIOUS
  <2>1. bst = Rec("closed", 0, 0, 0, -1, Window!EmptyRing)
    BY DEF RBInit, Blank, Rec
  <2>2. /\ bst.state = "closed" /\ bst.failures = 0 /\ bst.successes = 0
        /\ bst.halfOpenInFlight = 0 /\ bst.lastFailure = -1
        /\ bst = Rec(bst.state, bst.failures, bst.successes, bst.halfOpenInFlight, bst.lastFailure, bst.buckets)
    BY <2>1, Fields
  <2>3. RBInv
    BY <2>2 DEF RBInit, RBInv, Past
  <2>4. Abstract!Init
    BY <2>2, RollingAssumption DEF RBInit, Abstract!Init, Abstract!NewState, Capped, Age
  <2>5. QED
    BY <2>3, <2>4
<1>2. RBInv /\ [RBNext]_rbVars => RBInv' /\ [Abstract!Next]_(Abstract!vars)
  <2> SUFFICES ASSUME RBInv, [RBNext]_rbVars PROVE RBInv' /\ [Abstract!Next]_(Abstract!vars)
    OBVIOUS
  <2>1. ASSUME NEW q \in Request, Pass(q) PROVE RBInv' /\ Abstract!Next
    BY <2>1, PassSim DEF Abstract!Next
  <2>2. ASSUME NEW q \in Request, SuccessHalfOpen(q) \/ SuccessClosed(q) \/ SuccessOpen(q)
        PROVE  RBInv' /\ Abstract!Next
    BY <2>2, SuccessSim DEF Abstract!Next
  <2>3. ASSUME NEW q \in Request, FailureHalfOpen(q) \/ Failure(q) PROVE RBInv' /\ Abstract!Next
    BY <2>3, FailureSim DEF Abstract!Next
  <2>4. CASE Forced \/ Cleared \/ FlagSet
    BY <2>4, OtherSim DEF Abstract!Next
  <2>5. CASE RBTick
    BY <2>5, TickSim DEF Abstract!Next
  <2>6. CASE UNCHANGED rbVars
    <3>1. RBInv'
      BY <2>6 DEF RBInv, rbVars
    <3>2. UNCHANGED Abstract!vars
      BY <2>6 DEF rbVars, Abstract!vars, Capped, Age
    <3>3. QED
      BY <3>1, <3>2
  <2>7. QED
    BY <2>1, <2>2, <2>3, <2>4, <2>5, <2>6 DEF RBNext
<1>3. QED
  BY <1>1, <1>2, PTL DEF RBSpec, ImplementsBreaker, Abstract!Spec
=============================================================================
