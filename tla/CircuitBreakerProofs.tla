------------------------ MODULE CircuitBreakerProofs ------------------------
(***************************************************************************)
(* Proofs, for any number of requests, any thresholds, any timeout and     *)
(* both modes, of the safety properties of the circuit breaker.            *)
(***************************************************************************)
EXTENDS CircuitBreaker, BreakerProofs, FiniteSetTheorems

\* Every admitted probe is unanswered or was answered by a success.
TrialsCounted ==
    cb.state = "half-open" => trials <= cb.halfOpenInFlight + cb.successes

\* lastFailure is never older than the opening of the circuit.
FailureSinceOpen == cb.state = "open" => cb.lastFailure <= sinceOpen

IInv == TypeOK /\ CountersFit /\ TrialsCounted /\ SlotsHeld /\ FailureSinceOpen

-----------------------------------------------------------------------------
\* Demoting probes keeps the type of the requests.
LEMMA DemoteType ==
    ASSUME NEW rs \in [Request -> {"idle", "normal", "probe"}]
    PROVE  Demote(rs) \in [Request -> {"idle", "normal", "probe"}]
BY DEF Demote

-----------------------------------------------------------------------------
\* Each conjunct of the inductive invariant, step by step.

\* Every operation of the breaker keeps the types of its state.
LEMMA TypeStep ==
    ASSUME TypeOK, [Next]_vars
    PROVE  TypeOK'
<1> USE DEF TypeOK
<1>1. ASSUME NEW q \in Request, Allow(q)
      PROVE  TypeOK'
    BY <1>1, AllowType DEF Allow
<1>2. ASSUME NEW q \in Request, RecordSuccess(q)
      PROVE  TypeOK'
    BY <1>2, SuccessType, DemoteType DEF RecordSuccess
<1>3. ASSUME NEW q \in Request, RecordFailure(q)
      PROVE  TypeOK'
  <2>1. PICK trips \in TripChoices(cb) :
            /\ cb' = AfterFailure(cb, trips)
            /\ healthy' = (healthy /\ ~trips)
            /\ sinceOpen' = IF trips THEN 0 ELSE sinceOpen
            /\ LET rest == [req EXCEPT ![q] = "idle"]
               IN req' = IF trips THEN Demote(rest) ELSE rest
    BY <1>3 DEF RecordFailure
  <2>2. trips \in BOOLEAN
    BY TripType
  <2>3. cb' \in BackendState
    BY <2>1, <2>2, FailureType
  <2>4. healthy' \in BOOLEAN
    BY <2>1
  <2>5. req' \in [Request -> {"idle", "normal", "probe"}]
    BY <2>1, DemoteType
  <2>6. sinceOpen' \in 0..Timeout
    BY <2>1, BreakerAssumption
  <2>7. QED
    BY <1>3, <2>3, <2>4, <2>5, <2>6 DEF RecordFailure
<1>4. CASE ForceOpen
  <2>1. cb' \in BackendState
    BY <1>4, FieldUpdate, FieldTypes DEF ForceOpen, AfterForceOpen
  <2>2. QED
    BY <1>4, <2>1, DemoteType, FieldTypes DEF ForceOpen
<1>5. CASE Reset
    BY <1>5, DemoteType, BreakerAssumption DEF Reset, NewState, BackendState
<1>6. CASE SetHealthy
    BY <1>6 DEF SetHealthy
<1>7. CASE Tick
    BY <1>7, BreakerAssumption DEF Tick, Older, BackendState
<1>8. CASE UNCHANGED vars
    BY <1>8 DEF vars
<1>9. QED
    BY <1>1, <1>2, <1>3, <1>4, <1>5, <1>6, <1>7, <1>8 DEF Next

\* The counters stay within what each state assumes, and probes are accounted for.
LEMMA CountersStep ==
    ASSUME TypeOK, CountersFit, TrialsCounted, FailureSinceOpen, [Next]_vars
    PROVE  (CountersFit /\ TrialsCounted /\ FailureSinceOpen)'
<1> USE BreakerAssumption
        DEF TypeOK, CountersFit, TrialsCounted, FailureSinceOpen, BackendState, maxProbes
<1>1. ASSUME NEW q \in Request, Allow(q)
      PROVE  (CountersFit /\ TrialsCounted /\ FailureSinceOpen)'
    BY <1>1 DEF Allow, Admits, AfterAllow
<1>2. ASSUME NEW q \in Request, RecordSuccess(q)
      PROVE  (CountersFit /\ TrialsCounted /\ FailureSinceOpen)'
    BY <1>2 DEF RecordSuccess, AfterSuccess, Closes
<1>3. ASSUME NEW q \in Request, RecordFailure(q)
      PROVE  (CountersFit /\ TrialsCounted /\ FailureSinceOpen)'
  <2>1. PICK trips \in TripChoices(cb) :
            /\ cb' = AfterFailure(cb, trips)
            /\ sinceOpen' = IF trips THEN 0 ELSE sinceOpen
    BY <1>3 DEF RecordFailure
  <2>2. trips \in BOOLEAN
    BY TripType
  <2>3. CASE cb.state = "closed"
    BY <1>3, <2>1, <2>2, <2>3 DEF RecordFailure, AfterFailure, TripChoices, MoreFailures
  <2>4. CASE cb.state = "half-open"
    BY <1>3, <2>1, <2>2, <2>4 DEF RecordFailure, AfterFailure, TripChoices, MoreFailures
  <2>5. CASE cb.state = "open"
    <3>1. ~trips
      BY <2>5 DEF TripChoices
    <3>2. cb' = [cb EXCEPT !.failures = MoreFailures(cb), !.lastFailure = 0]
      BY <2>1, <3>1 DEF AfterFailure
    <3>3. QED
      BY <2>1, <2>5, <3>1, <3>2
  <2>6. QED
    BY <2>3, <2>4, <2>5
<1>4. CASE ForceOpen
    BY <1>4 DEF ForceOpen, AfterForceOpen
<1>5. CASE Reset
    BY <1>5 DEF Reset, NewState
<1>6. CASE SetHealthy
    BY <1>6 DEF SetHealthy
<1>7. CASE Tick
    BY <1>7 DEF Tick, Older
<1>8. CASE UNCHANGED vars
    BY <1>8 DEF vars
<1>9. QED
    BY <1>1, <1>2, <1>3, <1>4, <1>5, <1>6, <1>7, <1>8 DEF Next

\* A taken probe slot keeps belonging to a probe that is still in flight.
LEMMA SlotsStep ==
    ASSUME TypeOK, SlotsHeld, [Next]_vars, TypeOK'
    PROVE  SlotsHeld'
<1> USE DEF TypeOK
<1>0. /\ IsFiniteSet(Probes) /\ Cardinality(Probes) \in Nat
      /\ IsFiniteSet(Probes') /\ Cardinality(Probes') \in Nat
  <2>1. Probes \in SUBSET Request /\ Probes' \in SUBSET Request
    BY DEF Probes
  <2>2. QED
    BY <2>1, RequestAssumption, FS_Subset, FS_CardinalityType
<1>1. ASSUME NEW q \in Request, Allow(q)
      PROVE  SlotsHeld'
  <2>1. CASE cb.state = "half-open"
    <3>1. Probes' = Probes \cup {q} /\ q \notin Probes
      BY <1>1, <2>1 DEF Allow, AfterAllow, Probes, BackendState
    <3>2. Cardinality(Probes') = Cardinality(Probes) + 1
      BY <1>0, <3>1, FS_AddElement
    <3>3. cb'.halfOpenInFlight = cb.halfOpenInFlight + 1
      BY <1>1, <2>1 DEF Allow, AfterAllow, BackendState
    <3>4. QED
      BY <1>0, <2>1, <3>2, <3>3 DEF SlotsHeld, BackendState
  <2>2. CASE cb.state = "open"
    <3>1. cb'.halfOpenInFlight = 1 /\ q \in Probes'
      BY <1>1, <2>2 DEF Allow, AfterAllow, Probes, BackendState
    <3>2. Cardinality(Probes') # 0
      BY <1>0, <3>1, FS_EmptySet
    <3>3. QED
      BY <1>0, <3>1, <3>2 DEF SlotsHeld
  <2>3. CASE cb.state = "closed"
    BY <1>1, <2>3 DEF Allow, AfterAllow, SlotsHeld
  <2>4. QED
    BY <2>1, <2>2, <2>3 DEF BackendState
<1>2. ASSUME NEW q \in Request, RecordSuccess(q)
      PROVE  SlotsHeld'
  <2>1. CASE cb.state = "half-open" /\ ~Closes(cb)
    <3>1. /\ cb'.halfOpenInFlight \in Nat
          /\ cb.halfOpenInFlight > 0 => cb'.halfOpenInFlight = cb.halfOpenInFlight - 1
          /\ cb.halfOpenInFlight = 0 => cb'.halfOpenInFlight = 0
      <4>1. cb' = [cb EXCEPT !.successes = @ + 1,
                             !.halfOpenInFlight = IF @ > 0 THEN @ - 1 ELSE @]
        BY <1>2, <2>1 DEF RecordSuccess, AfterSuccess
      <4>2. cb'.halfOpenInFlight =
                IF cb.halfOpenInFlight > 0 THEN cb.halfOpenInFlight - 1
                ELSE cb.halfOpenInFlight
        BY <4>1 DEF BackendState
      <4>3. QED
        BY <4>2, FieldTypes
    <3>2. Probes' = Probes \ {q}
      BY <1>2, <2>1 DEF RecordSuccess, Probes
    <3>3. Cardinality(Probes') >= Cardinality(Probes) - 1
      BY <1>0, <3>2, FS_RemoveElement
    <3>4. QED
      BY <1>0, <2>1, <3>1, <3>3 DEF SlotsHeld, BackendState
  <2>2. CASE Closes(cb)
    BY <1>2, <2>2 DEF RecordSuccess, AfterSuccess, Closes, SlotsHeld, BackendState
  <2>3. CASE cb.state # "half-open"
    <3>1. cb'.state # "half-open"
      BY <1>2, <2>3 DEF RecordSuccess, AfterSuccess, Closes, BackendState
    <3>2. QED
      BY <3>1 DEF SlotsHeld
  <2>4. QED
    BY <2>1, <2>2, <2>3
<1>3. ASSUME NEW q \in Request, RecordFailure(q)
      PROVE  SlotsHeld'
  <2>1. PICK trips \in TripChoices(cb) : cb' = AfterFailure(cb, trips)
    BY <1>3 DEF RecordFailure
  <2>2. trips \in BOOLEAN
    BY TripType
  <2>3. cb.state = "half-open" => trips
    BY DEF TripChoices
  <2>4. cb'.state # "half-open"
    BY <2>1, <2>2, <2>3 DEF AfterFailure, BackendState
  <2>5. QED
    BY <2>4 DEF SlotsHeld
<1>4. CASE ForceOpen
    BY <1>4 DEF ForceOpen, AfterForceOpen, SlotsHeld, BackendState
<1>5. CASE Reset
    BY <1>5 DEF Reset, NewState, SlotsHeld
<1>6. CASE SetHealthy
    BY <1>6 DEF SetHealthy, SlotsHeld, Probes
<1>7. CASE Tick
  <2>1. /\ cb'.state = cb.state /\ cb'.halfOpenInFlight = cb.halfOpenInFlight
        /\ Probes' = Probes
    BY <1>7 DEF Tick, Probes, BackendState
  <2>2. QED
    BY <2>1 DEF SlotsHeld
<1>8. CASE UNCHANGED vars
    BY <1>8 DEF vars, SlotsHeld, Probes
<1>9. QED
    BY <1>1, <1>2, <1>3, <1>4, <1>5, <1>6, <1>7, <1>8 DEF Next

-----------------------------------------------------------------------------
\* The inductive invariant holds throughout.
THEOREM Invariance == Spec => []IInv
<1>1. Init => IInv
  <2> SUFFICES ASSUME Init PROVE IInv
    OBVIOUS
  <2> USE BreakerAssumption DEF Init, NewState
  <2>1. TypeOK
    BY DEF TypeOK, BackendState
  <2>2. CountersFit /\ TrialsCounted /\ SlotsHeld /\ FailureSinceOpen
    BY DEF CountersFit, TrialsCounted, SlotsHeld, FailureSinceOpen
  <2>3. QED
    BY <2>1, <2>2 DEF IInv
<1>2. IInv /\ [Next]_vars => IInv'
  <2> SUFFICES ASSUME IInv, [Next]_vars PROVE IInv'
    OBVIOUS
  <2>1. TypeOK /\ CountersFit /\ TrialsCounted /\ SlotsHeld /\ FailureSinceOpen
    BY DEF IInv
  <2>2. TypeOK'
    BY <2>1, TypeStep
  <2>3. (CountersFit /\ TrialsCounted /\ FailureSinceOpen)'
    BY <2>1, CountersStep
  <2>4. SlotsHeld'
    BY <2>1, <2>2, SlotsStep
  <2>5. QED
    BY <2>2, <2>3, <2>4 DEF IInv
<1>3. QED
    BY <1>1, <1>2, PTL DEF Spec

\* The state of the breaker is always well formed: in particular RecordSuccess
\* never drives halfOpenInFlight below zero.
THEOREM TypeCorrect == Spec => []TypeOK
<1>1. IInv => TypeOK
    BY DEF IInv
<1>2. QED
    BY <1>1, Invariance, PTL

\* Whatever the order of Allow, RecordSuccess, RecordFailure, forceOpen and Reset,
\* the counters stay within the limits their state sets.
THEOREM CountersCorrect == Spec => []CountersFit
<1>1. IInv => CountersFit
    BY DEF IInv
<1>2. QED
    BY <1>1, Invariance, PTL

\* A half-open circuit admits at most maxProbes + SuccessThreshold - 1 requests.
THEOREM TrialBudgetHolds == Spec => []TrialBudget
<1>1. IInv => TrialBudget
    BY BreakerAssumption
    DEF IInv, TypeOK, BackendState, CountersFit, TrialsCounted, TrialBudget, maxProbes
<1>2. QED
    BY <1>1, Invariance, PTL

\* When every admitted request reports once, no probe slot is ever lost.
THEOREM SlotsHeldHolds == Spec => []SlotsHeld
<1>1. IInv => SlotsHeld
    BY DEF IInv
<1>2. QED
    BY <1>1, Invariance, PTL

\* No request is let through an open circuit before Timeout has passed.
THEOREM CoolDownHolds == Spec => CoolDown
<1>1. IInv /\ [Next]_vars =>
        [(cb.state = "open" /\ cb'.state = "half-open") => sinceOpen = Timeout]_vars
  <2> SUFFICES ASSUME IInv, Next, cb.state = "open", cb'.state = "half-open"
               PROVE  sinceOpen = Timeout
    OBVIOUS
  <2> USE DEF IInv, TypeOK
  <2>1. ASSUME NEW q \in Request, Allow(q)
        PROVE  sinceOpen = Timeout
    BY <2>1, BreakerAssumption DEF Allow, Admits, FailureSinceOpen, BackendState
  <2>2. ASSUME NEW q \in Request, RecordSuccess(q)
        PROVE  FALSE
    BY <2>2 DEF RecordSuccess, AfterSuccess, Closes
  <2>3. ASSUME NEW q \in Request, RecordFailure(q)
        PROVE  FALSE
    <3>1. PICK trips \in TripChoices(cb) : cb' = AfterFailure(cb, trips)
      BY <2>3 DEF RecordFailure
    <3>2. QED
      BY <3>1, TripType DEF AfterFailure, BackendState
  <2>4. CASE ForceOpen \/ Reset \/ SetHealthy \/ Tick
    BY <2>4 DEF ForceOpen, Reset, NewState, SetHealthy, Tick, BackendState
  <2>5. QED
    BY <2>1, <2>2, <2>3, <2>4 DEF Next
<1>2. QED
    BY <1>1, Invariance, PTL DEF Spec, CoolDown
=============================================================================
