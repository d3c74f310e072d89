---------------------------- MODULE BreakerProofs ---------------------------
(***************************************************************************)
(* What the operations of the breaker do to a backend's state, for any     *)
(* thresholds, timeout and mode.                                           *)
(***************************************************************************)
EXTENDS Breaker, TLAPS

\* Updating one field within its range keeps the type.
LEMMA FieldUpdate ==
    ASSUME NEW st \in BackendState
    PROVE  /\ \A s \in {"closed", "open", "half-open"} : [st EXCEPT !.state = s] \in BackendState
           /\ \A n \in 0..FailureThreshold : [st EXCEPT !.failures = n] \in BackendState
           /\ \A n \in Nat : [st EXCEPT !.successes = n] \in BackendState
           /\ \A n \in Nat : [st EXCEPT !.halfOpenInFlight = n] \in BackendState
           /\ \A n \in 0..Timeout : [st EXCEPT !.lastFailure = n] \in BackendState
BY DEF BackendState

\* The range of each field.
LEMMA FieldTypes ==
    ASSUME NEW st \in BackendState
    PROVE  /\ st.state \in {"closed", "open", "half-open"}
           /\ st.failures \in 0..FailureThreshold
           /\ st.successes \in Nat
           /\ st.halfOpenInFlight \in Nat
           /\ st.lastFailure \in 0..Timeout
           /\ 0 \in 0..FailureThreshold
           /\ 0 \in 0..Timeout
           /\ MoreFailures(st) \in 0..FailureThreshold
BY BreakerAssumption DEF BackendState, MoreFailures

\* Allow keeps the state's type.
LEMMA AllowType ==
    ASSUME NEW st \in BackendState
    PROVE  AfterAllow(st) \in BackendState
<1>1. CASE st.state = "open"
  <2>1. AfterAllow(st) = [st EXCEPT !.state = "half-open", !.successes = 0,
                                    !.halfOpenInFlight = 1]
    BY <1>1 DEF AfterAllow
  <2>2. QED
    BY <2>1, FieldTypes, 0 \in Nat, 1 \in Nat, Zenon DEF BackendState
<1>2. CASE st.state # "open"
  <2>1. AfterAllow(st) \in {st, [st EXCEPT !.halfOpenInFlight = @ + 1]}
    BY <1>2 DEF AfterAllow
  <2>2. st.halfOpenInFlight + 1 \in Nat
    BY FieldTypes
  <2>3. QED
    BY <2>1, <2>2, FieldTypes, Zenon DEF BackendState
<1>3. QED
    BY <1>1, <1>2

\* RecordSuccess keeps the state's type.
LEMMA SuccessType ==
    ASSUME NEW st \in BackendState
    PROVE  AfterSuccess(st) \in BackendState
<1>1. CASE Closes(st)
  <2>1. AfterSuccess(st) = [st EXCEPT !.state = "closed", !.failures = 0,
                                      !.successes = 0, !.halfOpenInFlight = 0]
    BY <1>1 DEF AfterSuccess, Closes
  <2>2. QED
    BY <2>1, FieldTypes, 0 \in Nat, Zenon DEF BackendState
<1>2. CASE st.state = "half-open" /\ ~Closes(st)
  <2>1. AfterSuccess(st) =
            [st EXCEPT !.successes = @ + 1,
                       !.halfOpenInFlight = IF @ > 0 THEN @ - 1 ELSE @]
    BY <1>2 DEF AfterSuccess
  <2>2. /\ st.successes + 1 \in Nat
        /\ (IF st.halfOpenInFlight > 0 THEN st.halfOpenInFlight - 1
            ELSE st.halfOpenInFlight) \in Nat
    BY FieldTypes
  <2>3. QED
    BY <2>1, <2>2, FieldTypes, Zenon DEF BackendState
<1>3. CASE st.state # "half-open"
  <2>1. ~Closes(st)
    BY <1>3 DEF Closes
  <2>2. AfterSuccess(st) \in {st, [st EXCEPT !.failures = 0, !.successes = 0]}
    BY <1>3, <2>1 DEF AfterSuccess
  <2>3. QED
    BY <2>2, FieldTypes, 0 \in Nat, Zenon DEF BackendState
<1>4. QED
    BY <1>1, <1>2, <1>3 DEF Closes

\* RecordFailure keeps the state's type.
LEMMA FailureType ==
    ASSUME NEW st \in BackendState, NEW trips \in BOOLEAN
    PROVE  AfterFailure(st, trips) \in BackendState
<1> DEFINE counted == [st EXCEPT !.failures = MoreFailures(st), !.lastFailure = 0]
<1>1. counted \in BackendState
    BY FieldUpdate, FieldTypes
<1>2. AfterFailure(st, trips) \in
        {counted,
         [counted EXCEPT !.state = "open"],
         [counted EXCEPT !.state = "open", !.successes = 0, !.halfOpenInFlight = 0]}
    BY FieldTypes DEF AfterFailure
<1> HIDE DEF counted
<1>3. QED
    BY <1>1, <1>2, FieldTypes, 0 \in Nat, Zenon DEF BackendState

\* TripChoices offers answers only.
LEMMA TripType ==
    ASSUME NEW st \in BackendState, NEW trips \in TripChoices(st)
    PROVE  trips \in BOOLEAN
<1>1. CASE st.state = "half-open"
    BY <1>1 DEF TripChoices
<1>2. CASE st.state = "open"
    BY <1>2 DEF TripChoices
<1>3. CASE st.state = "closed"
  <2>1. TripChoices(st) = IF Mode = "rolling" THEN BOOLEAN
                          ELSE {MoreFailures(st) >= FailureThreshold}
    BY <1>3 DEF TripChoices
  <2>2. QED
    <3>1. CASE Mode = "rolling"
      BY <2>1, <3>1
    <3>2. CASE Mode # "rolling"
      BY <2>1, <3>2, (MoreFailures(st) >= FailureThreshold) \in BOOLEAN, Zenon
    <3>3. QED
      BY <3>1, <3>2
<1>4. QED
    BY <1>1, <1>2, <1>3 DEF BackendState
=============================================================================
