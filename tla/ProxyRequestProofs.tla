------------------------- MODULE ProxyRequestProofs -------------------------
(***************************************************************************)
(* Proofs, for any number of requests and backends, any caps, any retry    *)
(* and trip settings and any interleaving with the breaker, the health     *)
(* checker and one another, of the safety properties of the sequential     *)
(* request path.                                                           *)
(***************************************************************************)
EXTENDS ProxyRequest, BreakerProofs, FiniteSetTheorems, SequenceTheorems

\* The requests' half of TypeOK.
RequestTypeOK ==
    /\ pc \in [Request -> PC]
    /\ backend \in [Request -> Backend \cup {None}]
    /\ tried \in [Request -> SUBSET Backend]
    /\ cand \in [Request -> SUBSET Backend]
    /\ attempt \in [Request -> 0..MaxAttempts]
    /\ last \in [Request -> Outcomes \cup {"none"}]
    /\ bulkheadBlocked \in [Request -> BOOLEAN]
    /\ applied \in [Request -> Nat]
    /\ answers \in [Request -> Seq(Answer)]

\* A request that holds, or is about to make, a reservation knows on what.
BackendKnown ==
    \A q \in Request : pc[q] \in Holding \cup {"record", "reserve"} => backend[q] \in Backend

\* What a request may have done to a backend, by where it is.
AppliedByPlace ==
    \A q \in Request :
        /\ pc[q] = "start" => last[q] = "none"
        /\ (last[q] = "none" /\ pc[q] # "attempt") => applied[q] = 0
        /\ q \notin Idempotent =>
              /\ applied[q] <= 1
              /\ pc[q] \notin {"record", "fail", "done"} => applied[q] = 0
              /\ pc[q] = "record" /\ isConnectError(last[q]) => applied[q] = 0

IInv ==
    /\ TypeOK
    /\ BackendKnown
    /\ ReservationsBalance
    /\ Bulkhead
    /\ AppliedByPlace
    /\ OneAnswer
    /\ RejectedUntouched

-----------------------------------------------------------------------------
\* How the counters follow the requests.

\* The requests that hold a backend can be counted.
LEMMA HoldersFinite ==
    ASSUME NEW be \in Backend
    PROVE  /\ IsFiniteSet(HoldersOf(be)) /\ Cardinality(HoldersOf(be)) \in Nat
           /\ IsFiniteSet(InFlightOn(be)) /\ Cardinality(InFlightOn(be)) \in Nat
           /\ Cardinality(InFlightOn(be)) <= Cardinality(HoldersOf(be))
<1>1. HoldersOf(be) \in SUBSET Request /\ InFlightOn(be) \in SUBSET HoldersOf(be)
    BY DEF HoldersOf, InFlightOn, Holding
<1>2. IsFiniteSet(HoldersOf(be))
    BY <1>1, ProxyAssumption, FS_Subset
<1>3. QED
    BY <1>1, <1>2, FS_Subset, FS_CardinalityType

\* A request that reserves a backend is counted once more there.
LEMMA HolderJoins ==
    ASSUME TypeOK, ReservationsBalance,
           NEW q \in Request, NEW b0 \in Backend, NEW w \in Holding,
           pc[q] \notin Holding,
           pc' = [pc EXCEPT ![q] = w],
           backend' = [backend EXCEPT ![q] = b0],
           active' = [active EXCEPT ![b0] = @ + 1]
    PROVE  ReservationsBalance'
<1> SUFFICES ASSUME NEW be \in Backend
             PROVE  active'[be] = Cardinality(HoldersOf(be)')
    BY DEF ReservationsBalance
<1>1. active[be] = Cardinality(HoldersOf(be))
    BY DEF ReservationsBalance
<1>2. CASE be = b0
  <2>1. HoldersOf(be)' = HoldersOf(be) \cup {q} /\ q \notin HoldersOf(be)
    BY <1>2 DEF HoldersOf, TypeOK
  <2>2. Cardinality(HoldersOf(be)') = Cardinality(HoldersOf(be)) + 1
    BY <2>1, HoldersFinite, FS_AddElement
  <2>3. QED
    BY <1>1, <1>2, <2>2 DEF TypeOK
<1>3. CASE be # b0
  <2>1. HoldersOf(be)' = HoldersOf(be)
    BY <1>3 DEF HoldersOf, TypeOK
  <2>2. QED
    BY <1>1, <1>3, <2>1 DEF TypeOK
<1>4. QED
    BY <1>2, <1>3

\* A request that releases its backend is counted once less there.
LEMMA HolderLeaves ==
    ASSUME TypeOK, BackendKnown, ReservationsBalance,
           NEW q \in Request, NEW w \in PC,
           pc[q] \in Holding, w \notin Holding,
           pc' = [pc EXCEPT ![q] = w],
           UNCHANGED backend,
           active' = [active EXCEPT ![backend[q]] = @ - 1]
    PROVE  ReservationsBalance'
<1> SUFFICES ASSUME NEW be \in Backend
             PROVE  active'[be] = Cardinality(HoldersOf(be)')
    BY DEF ReservationsBalance
<1>1. active[be] = Cardinality(HoldersOf(be))
    BY DEF ReservationsBalance
<1>2. CASE be = backend[q]
  <2>1. HoldersOf(be)' = HoldersOf(be) \ {q} /\ q \in HoldersOf(be)
    BY <1>2 DEF HoldersOf, TypeOK
  <2>2. Cardinality(HoldersOf(be)') = Cardinality(HoldersOf(be)) - 1
    BY <2>1, HoldersFinite, FS_RemoveElement
  <2>3. QED
    BY <1>1, <1>2, <2>2 DEF TypeOK
<1>3. CASE be # backend[q]
  <2>1. HoldersOf(be)' = HoldersOf(be)
    BY <1>3 DEF HoldersOf, TypeOK
  <2>2. QED
    BY <1>1, <1>3, <2>1 DEF TypeOK
<1>4. QED
    BY <1>2, <1>3

\* Any other step leaves holders and counters alone.
LEMMA HoldersStay ==
    ASSUME ReservationsBalance, UNCHANGED active,
           \A r \in Request : pc'[r] \in Holding <=> pc[r] \in Holding,
           \A r \in Request : pc[r] \in Holding => backend'[r] = backend[r]
    PROVE  ReservationsBalance'
<1>1. \A be \in Backend : HoldersOf(be)' = HoldersOf(be)
    BY DEF HoldersOf
<1>2. QED
    BY <1>1 DEF ReservationsBalance

-----------------------------------------------------------------------------
\* Each conjunct of the inductive invariant, step by step.

\* Every path through proxyRequest keeps the connection counters exact.
LEMMA BalanceStep ==
    ASSUME TypeOK, BackendKnown, ReservationsBalance, [Next]_vars
    PROVE  ReservationsBalance'
<1> USE DEF TypeOK, Holding, PC
<1>1. ASSUME NEW q \in Request, NEW be \in Backend, Select(q, be)
      PROVE  ReservationsBalance'
    BY <1>1, HolderJoins DEF Select, Goto, IncrConn
<1>2. ASSUME NEW q \in Request, NEW be \in Backend, Skip(q, be)
      PROVE  ReservationsBalance'
    BY <1>2, HoldersStay DEF Skip, Goto
<1>3. ASSUME NEW q \in Request, NEW be \in Backend, Choose(q, be)
      PROVE  ReservationsBalance'
    BY <1>3, HoldersStay DEF Choose, Goto
<1>4. ASSUME NEW q \in Request, NEW o \in Outcome, Retry(q, o)
      PROVE  ReservationsBalance'
    BY <1>4, HoldersStay DEF Retry, Goto
<1>5. ASSUME NEW q \in Request, NEW o \in Outcome, Finish(q, o)
      PROVE  ReservationsBalance'
  <2>1. /\ pc[q] \in Holding /\ "record" \notin Holding
        /\ pc' = [pc EXCEPT ![q] = "record"] /\ UNCHANGED backend
        /\ active' = [active EXCEPT ![backend[q]] = @ - 1]
    BY <1>5 DEF Finish, Goto, DecrConn
  <2>2. QED
    BY <2>1, "record" \in PC, HolderLeaves DEF PC
<1>6. ASSUME NEW q \in Request, NoBackend(q)
      PROVE  ReservationsBalance'
    BY <1>6, HoldersStay DEF NoBackend, Goto
<1>7. ASSUME NEW q \in Request, CheckCap(q)
      PROVE  ReservationsBalance'
    BY <1>7, HoldersStay DEF CheckCap, Goto
<1>8. ASSUME NEW q \in Request, Allow(q)
      PROVE  ReservationsBalance'
    BY <1>8, HoldersStay DEF Allow, Goto
<1>9. ASSUME NEW q \in Request, Blocked(q)
      PROVE  ReservationsBalance'
  <2>1. /\ pc[q] \in Holding /\ "alternate" \notin Holding
        /\ pc' = [pc EXCEPT ![q] = "alternate"] /\ UNCHANGED backend
        /\ active' = [active EXCEPT ![backend[q]] = @ - 1]
    BY <1>9 DEF Blocked, Goto, DecrConn
  <2>2. QED
    BY <2>1, "alternate" \in PC, HolderLeaves DEF PC
<1>10. ASSUME NEW q \in Request, Abort(q)
      PROVE  ReservationsBalance'
  <2>1. /\ pc[q] \in Holding /\ "done" \notin Holding
        /\ pc' = [pc EXCEPT ![q] = "done"] /\ UNCHANGED backend
        /\ active' = [active EXCEPT ![backend[q]] = @ - 1]
    BY <1>10 DEF Abort, Goto, DecrConn
  <2>2. QED
    BY <2>1, "done" \in PC, HolderLeaves DEF PC
<1>11. ASSUME NEW q \in Request, Record(q)
      PROVE  ReservationsBalance'
  <2>1. AfterRecord(q) \in {"done", "fail", "alternate"}
    BY DEF AfterRecord
  <2>2. QED
    BY <1>11, <2>1, HoldersStay DEF Record, Goto
<1>12. ASSUME NEW q \in Request, StartScan(q)
      PROVE  ReservationsBalance'
    BY <1>12, HoldersStay DEF StartScan, Goto
<1>13. ASSUME NEW q \in Request, Reserve(q)
      PROVE  ReservationsBalance'
  <2>1. backend' = [backend EXCEPT ![q] = backend[q]] /\ backend[q] \in Backend
    BY <1>13 DEF Reserve, BackendKnown
  <2>2. QED
    BY <1>13, <2>1, HolderJoins DEF Reserve, Goto, IncrConn
<1>14. ASSUME NEW q \in Request, GiveUp(q)
      PROVE  ReservationsBalance'
    BY <1>14, HoldersStay DEF GiveUp, Goto
<1>15. ASSUME NEW q \in Request, Fail(q)
      PROVE  ReservationsBalance'
    BY <1>15, HoldersStay DEF Fail, Goto
<1>16. ASSUME NEW be \in Backend, SetHealthy(be)
      PROVE  ReservationsBalance'
    BY <1>16, HoldersStay DEF SetHealthy, reqVars
<1>17. CASE Tick
    BY <1>17, HoldersStay DEF Tick, reqVars
<1>18. CASE UNCHANGED vars
    BY <1>18, HoldersStay DEF vars
<1>19. QED
    BY <1>1, <1>2, <1>3, <1>4, <1>5, <1>6, <1>7, <1>8, <1>9, <1>10, <1>11, <1>12, <1>13,
       <1>14, <1>15, <1>16, <1>17, <1>18
    DEF Next, Step

\* A reservation always belongs to a backend.
LEMMA KnownStep ==
    ASSUME TypeOK, BackendKnown, [Next]_vars
    PROVE  BackendKnown'
<1> USE DEF TypeOK, BackendKnown, Holding, PC
<1>1. ASSUME NEW q \in Request, NEW be \in Backend, Select(q, be)
      PROVE  BackendKnown'
    BY <1>1 DEF Select, Goto
<1>2. ASSUME NEW q \in Request, NEW be \in Backend, Skip(q, be)
      PROVE  BackendKnown'
    BY <1>2 DEF Skip, Goto
<1>3. ASSUME NEW q \in Request, NEW be \in Backend, Choose(q, be)
      PROVE  BackendKnown'
    BY <1>3 DEF Choose, Goto
<1>4. ASSUME NEW q \in Request, NEW o \in Outcome, Retry(q, o)
      PROVE  BackendKnown'
    BY <1>4 DEF Retry, Goto
<1>5. ASSUME NEW q \in Request, NEW o \in Outcome, Finish(q, o)
      PROVE  BackendKnown'
    BY <1>5 DEF Finish, Goto
<1>6. ASSUME NEW q \in Request, NoBackend(q)
      PROVE  BackendKnown'
    BY <1>6 DEF NoBackend, Goto
<1>7. ASSUME NEW q \in Request, CheckCap(q)
      PROVE  BackendKnown'
    BY <1>7 DEF CheckCap, Goto
<1>8. ASSUME NEW q \in Request, Allow(q)
      PROVE  BackendKnown'
    BY <1>8 DEF Allow, Goto
<1>9. ASSUME NEW q \in Request, Blocked(q)
      PROVE  BackendKnown'
    BY <1>9 DEF Blocked, Goto
<1>10. ASSUME NEW q \in Request, Abort(q)
      PROVE  BackendKnown'
    BY <1>10 DEF Abort, Goto
<1>11. ASSUME NEW q \in Request, Record(q)
      PROVE  BackendKnown'
  <2>1. AfterRecord(q) \in {"done", "fail", "alternate"}
    BY DEF AfterRecord
  <2>2. QED
    BY <1>11, <2>1 DEF Record, Goto
<1>12. ASSUME NEW q \in Request, StartScan(q)
      PROVE  BackendKnown'
    BY <1>12 DEF StartScan, Goto
<1>13. ASSUME NEW q \in Request, Reserve(q)
      PROVE  BackendKnown'
    BY <1>13 DEF Reserve, Goto
<1>14. ASSUME NEW q \in Request, GiveUp(q)
      PROVE  BackendKnown'
    BY <1>14 DEF GiveUp, Goto
<1>15. ASSUME NEW q \in Request, Fail(q)
      PROVE  BackendKnown'
    BY <1>15 DEF Fail, Goto
<1>16. ASSUME NEW be \in Backend, SetHealthy(be)
      PROVE  BackendKnown'
    BY <1>16 DEF SetHealthy, reqVars
<1>17. CASE Tick
    BY <1>17 DEF Tick, reqVars
<1>18. CASE UNCHANGED vars
    BY <1>18 DEF vars
<1>19. QED
    BY <1>1, <1>2, <1>3, <1>4, <1>5, <1>6, <1>7, <1>8, <1>9, <1>10, <1>11, <1>12, <1>13,
       <1>14, <1>15, <1>16, <1>17, <1>18
    DEF Next, Step

\* Requests that stop being in flight cannot break the cap.
LEMMA FewerInFlight ==
    ASSUME Bulkhead, \A be \in Backend : InFlightOn(be)' \subseteq InFlightOn(be)
    PROVE  Bulkhead'
<1> SUFFICES ASSUME NEW be \in Backend, MaxConns[be] > 0
             PROVE  Cardinality(InFlightOn(be)') <= MaxConns[be]
    BY DEF Bulkhead
<1>1. /\ IsFiniteSet(InFlightOn(be)') /\ Cardinality(InFlightOn(be)') \in Nat
      /\ Cardinality(InFlightOn(be)') <= Cardinality(InFlightOn(be))
    BY HoldersFinite, FS_Subset, FS_CardinalityType
<1>2. QED
    BY <1>1, HoldersFinite, ProxyAssumption DEF Bulkhead

\* The cap is only passed by a request that saw the counter, its own reservation
\* included, within the cap.
LEMMA BulkheadStep ==
    ASSUME TypeOK, BackendKnown, ReservationsBalance, Bulkhead, [Next]_vars
    PROVE  Bulkhead'
<1>1. ASSUME NEW q \in Request, NEW be \in Backend, Select(q, be)
      PROVE  Bulkhead'
  <2>1. \A b0 \in Backend : InFlightOn(b0)' \subseteq InFlightOn(b0)
    BY <1>1 DEF Select, Goto, InFlightOn, TypeOK, PC
  <2>2. QED
    BY <2>1, FewerInFlight
<1>2. ASSUME NEW q \in Request, NEW be \in Backend, Skip(q, be)
      PROVE  Bulkhead'
  <2>1. \A b0 \in Backend : InFlightOn(b0)' \subseteq InFlightOn(b0)
    BY <1>2 DEF Skip, Goto, InFlightOn, TypeOK, PC
  <2>2. QED
    BY <2>1, FewerInFlight
<1>3. ASSUME NEW q \in Request, NEW be \in Backend, Choose(q, be)
      PROVE  Bulkhead'
  <2>1. \A b0 \in Backend : InFlightOn(b0)' \subseteq InFlightOn(b0)
    BY <1>3 DEF Choose, Goto, InFlightOn, TypeOK, PC
  <2>2. QED
    BY <2>1, FewerInFlight
<1>4. ASSUME NEW q \in Request, NEW o \in Outcome, Retry(q, o)
      PROVE  Bulkhead'
  <2>1. \A b0 \in Backend : InFlightOn(b0)' \subseteq InFlightOn(b0)
    BY <1>4 DEF Retry, Goto, InFlightOn, TypeOK, PC
  <2>2. QED
    BY <2>1, FewerInFlight
<1>5. ASSUME NEW q \in Request, NEW o \in Outcome, Finish(q, o)
      PROVE  Bulkhead'
  <2>1. \A b0 \in Backend : InFlightOn(b0)' \subseteq InFlightOn(b0)
    BY <1>5 DEF Finish, Goto, InFlightOn, TypeOK, PC
  <2>2. QED
    BY <2>1, FewerInFlight
<1>6. ASSUME NEW q \in Request, NoBackend(q)
      PROVE  Bulkhead'
  <2>1. \A b0 \in Backend : InFlightOn(b0)' \subseteq InFlightOn(b0)
    BY <1>6 DEF NoBackend, Goto, InFlightOn, TypeOK, PC
  <2>2. QED
    BY <2>1, FewerInFlight
<1>7. ASSUME NEW q \in Request, CheckCap(q)
      PROVE  Bulkhead'
  <2> SUFFICES ASSUME NEW be \in Backend, MaxConns[be] > 0
               PROVE  Cardinality(InFlightOn(be)') <= MaxConns[be]
    BY DEF Bulkhead
  <2>0. backend[q] \in Backend
    BY <1>7 DEF CheckCap, BackendKnown, Holding
  <2>1. CASE be = backend[q] /\ ~atCapacity(be)
    <3>1. Cardinality(HoldersOf(be)) <= MaxConns[be]
      BY <2>1, ProxyAssumption DEF atCapacity, ReservationsBalance, TypeOK
    <3>2. InFlightOn(be)' \subseteq HoldersOf(be)
      BY <1>7 DEF CheckCap, Goto, InFlightOn, HoldersOf, Holding, TypeOK
    <3>3. Cardinality(InFlightOn(be)') <= Cardinality(HoldersOf(be))
      BY <3>2, HoldersFinite, FS_Subset
    <3>4. IsFiniteSet(InFlightOn(be)') /\ Cardinality(InFlightOn(be)') \in Nat
      BY <3>2, HoldersFinite, FS_Subset, FS_CardinalityType
    <3>5. QED
      BY <3>1, <3>3, <3>4, HoldersFinite, ProxyAssumption
  <2>2. CASE be # backend[q] \/ atCapacity(be)
    <3>1. InFlightOn(be)' \subseteq InFlightOn(be)
      BY <1>7, <2>2 DEF CheckCap, Goto, InFlightOn, TypeOK
    <3>2. /\ IsFiniteSet(InFlightOn(be)') /\ Cardinality(InFlightOn(be)') \in Nat
          /\ Cardinality(InFlightOn(be)') <= Cardinality(InFlightOn(be))
      BY <3>1, HoldersFinite, FS_Subset, FS_CardinalityType
    <3>3. QED
      BY <3>2, HoldersFinite, ProxyAssumption DEF Bulkhead
  <2>3. QED
    BY <2>1, <2>2
<1>8. ASSUME NEW q \in Request, Allow(q)
      PROVE  Bulkhead'
  <2>1. \A b0 \in Backend : InFlightOn(b0)' \subseteq InFlightOn(b0)
    BY <1>8 DEF Allow, Goto, InFlightOn, TypeOK, PC
  <2>2. QED
    BY <2>1, FewerInFlight
<1>9. ASSUME NEW q \in Request, Blocked(q)
      PROVE  Bulkhead'
  <2>1. \A b0 \in Backend : InFlightOn(b0)' \subseteq InFlightOn(b0)
    BY <1>9 DEF Blocked, Goto, InFlightOn, TypeOK, PC
  <2>2. QED
    BY <2>1, FewerInFlight
<1>10. ASSUME NEW q \in Request, Abort(q)
      PROVE  Bulkhead'
  <2>1. \A b0 \in Backend : InFlightOn(b0)' \subseteq InFlightOn(b0)
    BY <1>10 DEF Abort, Goto, InFlightOn, TypeOK, PC
  <2>2. QED
    BY <2>1, FewerInFlight
<1>11. ASSUME NEW q \in Request, Record(q)
      PROVE  Bulkhead'
  <2>0. AfterRecord(q) \in {"done", "fail", "alternate"}
    BY DEF AfterRecord
  <2>1. \A b0 \in Backend : InFlightOn(b0)' \subseteq InFlightOn(b0)
    BY <1>11, <2>0 DEF Record, Goto, InFlightOn, TypeOK, PC
  <2>2. QED
    BY <2>1, FewerInFlight
<1>12. ASSUME NEW q \in Request, StartScan(q)
      PROVE  Bulkhead'
  <2>1. \A b0 \in Backend : InFlightOn(b0)' \subseteq InFlightOn(b0)
    BY <1>12 DEF StartScan, Goto, InFlightOn, TypeOK, PC
  <2>2. QED
    BY <2>1, FewerInFlight
<1>13. ASSUME NEW q \in Request, Reserve(q)
      PROVE  Bulkhead'
  <2>1. \A b0 \in Backend : InFlightOn(b0)' \subseteq InFlightOn(b0)
    BY <1>13 DEF Reserve, Goto, InFlightOn, TypeOK, PC
  <2>2. QED
    BY <2>1, FewerInFlight
<1>14. ASSUME NEW q \in Request, GiveUp(q)
      PROVE  Bulkhead'
  <2>1. \A b0 \in Backend : InFlightOn(b0)' \subseteq InFlightOn(b0)
    BY <1>14 DEF GiveUp, Goto, InFlightOn, TypeOK, PC
  <2>2. QED
    BY <2>1, FewerInFlight
<1>15. ASSUME NEW q \in Request, Fail(q)
      PROVE  Bulkhead'
  <2>1. \A b0 \in Backend : InFlightOn(b0)' \subseteq InFlightOn(b0)
    BY <1>15 DEF Fail, Goto, InFlightOn, TypeOK, PC
  <2>2. QED
    BY <2>1, FewerInFlight
<1>16. ASSUME NEW be \in Backend, SetHealthy(be)
      PROVE  Bulkhead'
  <2>1. \A b0 \in Backend : InFlightOn(b0)' \subseteq InFlightOn(b0)
    BY <1>16 DEF SetHealthy, reqVars, InFlightOn, TypeOK, PC
  <2>2. QED
    BY <2>1, FewerInFlight
<1>17. CASE Tick
  <2>1. \A b0 \in Backend : InFlightOn(b0)' \subseteq InFlightOn(b0)
    BY <1>17 DEF Tick, reqVars, InFlightOn, TypeOK, PC
  <2>2. QED
    BY <2>1, FewerInFlight
<1>18. CASE UNCHANGED vars
    BY <1>18, FewerInFlight DEF vars, InFlightOn
<1>19. QED
    BY <1>1, <1>2, <1>3, <1>4, <1>5, <1>6, <1>7, <1>8, <1>9, <1>10, <1>11, <1>12, <1>13,
       <1>14, <1>15, <1>16, <1>17, <1>18
    DEF Next, Step

\* Whatever a step does to the counters, they stay natural numbers.
LEMMA CountersNat ==
    ASSUME ReservationsBalance', active' \in [Backend -> Int]
    PROVE  active' \in [Backend -> Nat]
<1> SUFFICES ASSUME NEW be \in Backend
             PROVE  active'[be] \in Nat
    OBVIOUS
<1>1. HoldersOf(be)' \in SUBSET Request
    BY DEF HoldersOf
<1>2. Cardinality(HoldersOf(be)') \in Nat
    BY <1>1, ProxyAssumption, FS_Subset, FS_CardinalityType
<1>3. QED
    BY <1>2 DEF ReservationsBalance

\* The shared state of backends and breakers keeps its types.
LEMMA SharedTypeStep ==
    ASSUME TypeOK, BackendKnown, ReservationsBalance', [Next]_vars
    PROVE  active' \in [Backend -> Nat] /\ healthy' \in [Backend -> BOOLEAN] /\ cb' \in [Backend -> BackendState]
<1> USE DEF TypeOK
<1>1. ASSUME NEW q \in Request, NEW be \in Backend, Select(q, be)
      PROVE  active' \in [Backend -> Nat] /\ healthy' \in [Backend -> BOOLEAN] /\ cb' \in [Backend -> BackendState]
    BY <1>1 DEF Select, IncrConn
<1>2. ASSUME NEW q \in Request, NEW be \in Backend, Skip(q, be)
      PROVE  active' \in [Backend -> Nat] /\ healthy' \in [Backend -> BOOLEAN] /\ cb' \in [Backend -> BackendState]
    BY <1>2 DEF Skip
<1>3. ASSUME NEW q \in Request, NEW be \in Backend, Choose(q, be)
      PROVE  active' \in [Backend -> Nat] /\ healthy' \in [Backend -> BOOLEAN] /\ cb' \in [Backend -> BackendState]
    BY <1>3 DEF Choose
<1>4. ASSUME NEW q \in Request, NEW o \in Outcome, Retry(q, o)
      PROVE  active' \in [Backend -> Nat] /\ healthy' \in [Backend -> BOOLEAN] /\ cb' \in [Backend -> BackendState]
    BY <1>4 DEF Retry
<1>5. ASSUME NEW q \in Request, NEW o \in Outcome, Finish(q, o)
      PROVE  active' \in [Backend -> Nat] /\ healthy' \in [Backend -> BOOLEAN] /\ cb' \in [Backend -> BackendState]
  <2>1. backend[q] \in Backend
    BY <1>5 DEF Finish, BackendKnown, Holding
  <2>2. active' \in [Backend -> Int]
    BY <1>5, <2>1 DEF Finish, DecrConn
  <2>3. QED
    BY <1>5, <2>2, CountersNat DEF Finish
<1>6. ASSUME NEW q \in Request, NoBackend(q)
      PROVE  active' \in [Backend -> Nat] /\ healthy' \in [Backend -> BOOLEAN] /\ cb' \in [Backend -> BackendState]
    BY <1>6 DEF NoBackend
<1>7. ASSUME NEW q \in Request, CheckCap(q)
      PROVE  active' \in [Backend -> Nat] /\ healthy' \in [Backend -> BOOLEAN] /\ cb' \in [Backend -> BackendState]
    BY <1>7 DEF CheckCap
<1>8. ASSUME NEW q \in Request, Allow(q)
      PROVE  active' \in [Backend -> Nat] /\ healthy' \in [Backend -> BOOLEAN] /\ cb' \in [Backend -> BackendState]
  <2>1. backend[q] \in Backend
    BY <1>8 DEF Allow, BackendKnown, Holding
  <2>2. AfterAllow(cb[backend[q]]) \in BackendState
    BY <2>1, AllowType
  <2>3. QED
    BY <1>8, <2>1, <2>2 DEF Allow
<1>9. ASSUME NEW q \in Request, Blocked(q)
      PROVE  active' \in [Backend -> Nat] /\ healthy' \in [Backend -> BOOLEAN] /\ cb' \in [Backend -> BackendState]
  <2>1. backend[q] \in Backend
    BY <1>9 DEF Blocked, BackendKnown, Holding
  <2>2. active' \in [Backend -> Int]
    BY <1>9, <2>1 DEF Blocked, DecrConn
  <2>3. QED
    BY <1>9, <2>2, CountersNat DEF Blocked
<1>10. ASSUME NEW q \in Request, Abort(q)
      PROVE  active' \in [Backend -> Nat] /\ healthy' \in [Backend -> BOOLEAN] /\ cb' \in [Backend -> BackendState]
  <2>1. backend[q] \in Backend
    BY <1>10 DEF Abort, BackendKnown, Holding
  <2>2. active' \in [Backend -> Int]
    BY <1>10, <2>1 DEF Abort, DecrConn
  <2>3. QED
    BY <1>10, <2>2, CountersNat DEF Abort
<1>11. ASSUME NEW q \in Request, Record(q)
      PROVE  active' \in [Backend -> Nat] /\ healthy' \in [Backend -> BOOLEAN] /\ cb' \in [Backend -> BackendState]
  <2>1. backend[q] \in Backend
    BY <1>11 DEF Record, BackendKnown
  <2> DEFINE be == backend[q]
  <2>2. cb[be] \in BackendState /\ healthy[be] \in BOOLEAN
    BY <2>1
  <2>3. CASE Class(last[q]) \in TripOn
    <3>1. PICK trips \in TripChoices(cb[be]) :
            /\ cb' = [cb EXCEPT ![be] = AfterFailure(@, trips)]
            /\ healthy' = [healthy EXCEPT ![be] = @ /\ ~trips]
      BY <1>11, <2>3 DEF Record
    <3>2. AfterFailure(cb[be], trips) \in BackendState
      BY <2>2, TripType, FailureType
    <3>3. (healthy[be] /\ ~trips) \in BOOLEAN
      OBVIOUS
    <3>4. QED
      BY <1>11, <2>1, <3>1, <3>2, <3>3 DEF Record
  <2>4. CASE Class(last[q]) \notin TripOn
    <3>1. /\ cb' = [cb EXCEPT ![be] = AfterSuccess(@)]
          /\ healthy' = [healthy EXCEPT ![be] = @ \/ Closes(cb[be])]
      BY <1>11, <2>4 DEF Record
    <3>2. AfterSuccess(cb[be]) \in BackendState
      BY <2>2, SuccessType
    <3>3. (healthy[be] \/ Closes(cb[be])) \in BOOLEAN
      OBVIOUS
    <3>4. QED
      BY <1>11, <2>1, <3>1, <3>2, <3>3 DEF Record
  <2>5. QED
    BY <2>3, <2>4
<1>12. ASSUME NEW q \in Request, StartScan(q)
      PROVE  active' \in [Backend -> Nat] /\ healthy' \in [Backend -> BOOLEAN] /\ cb' \in [Backend -> BackendState]
    BY <1>12 DEF StartScan
<1>13. ASSUME NEW q \in Request, Reserve(q)
      PROVE  active' \in [Backend -> Nat] /\ healthy' \in [Backend -> BOOLEAN] /\ cb' \in [Backend -> BackendState]
    BY <1>13 DEF Reserve, IncrConn, BackendKnown
<1>14. ASSUME NEW q \in Request, GiveUp(q)
      PROVE  active' \in [Backend -> Nat] /\ healthy' \in [Backend -> BOOLEAN] /\ cb' \in [Backend -> BackendState]
    BY <1>14 DEF GiveUp
<1>15. ASSUME NEW q \in Request, Fail(q)
      PROVE  active' \in [Backend -> Nat] /\ healthy' \in [Backend -> BOOLEAN] /\ cb' \in [Backend -> BackendState]
    BY <1>15 DEF Fail
<1>16. ASSUME NEW be \in Backend, SetHealthy(be)
      PROVE  active' \in [Backend -> Nat] /\ healthy' \in [Backend -> BOOLEAN] /\ cb' \in [Backend -> BackendState]
    BY <1>16 DEF SetHealthy
<1>17. CASE Tick
  <2>1. ASSUME NEW be \in Backend
        PROVE  [cb[be] EXCEPT !.lastFailure = Older(@)] \in BackendState
    <3>1. cb[be] \in BackendState
      OBVIOUS
    <3>2. Older(cb[be].lastFailure) \in 0..Timeout
      BY <3>1, FieldTypes, BreakerAssumption DEF Older
    <3>3. QED
      BY <3>1, <3>2, FieldUpdate
  <2>2. QED
    BY <1>17, <2>1 DEF Tick
<1>18. CASE UNCHANGED vars
    BY <1>18 DEF vars
<1>19. QED
    BY <1>1, <1>2, <1>3, <1>4, <1>5, <1>6, <1>7, <1>8, <1>9, <1>10, <1>11, <1>12, <1>13,
       <1>14, <1>15, <1>16, <1>17, <1>18
    DEF Next, Step

\* A message to the client extends what was sent to it.
LEMMA SendType ==
    ASSUME TypeOK, NEW q \in Request, NEW a \in Answer, Send(q, a)
    PROVE  answers' \in [Request -> Seq(Answer)]
<1>1. answers[q] \in Seq(Answer)
    BY DEF TypeOK
<1>2. Append(answers[q], a) \in Seq(Answer)
    BY <1>1
<1>3. QED
    BY <1>2 DEF TypeOK, Send

\* The private state of requests keeps its types.
LEMMA RequestTypeStep ==
    ASSUME TypeOK, BackendKnown, [Next]_vars
    PROVE  RequestTypeOK'
<1> USE DEF TypeOK, RequestTypeOK, PC
<1>1. ASSUME NEW q \in Request, NEW be \in Backend, Select(q, be)
      PROVE  RequestTypeOK'
    BY <1>1 DEF Select, Goto
<1>2. ASSUME NEW q \in Request, NEW be \in Backend, Skip(q, be)
      PROVE  RequestTypeOK'
    BY <1>2 DEF Skip, Goto
<1>3. ASSUME NEW q \in Request, NEW be \in Backend, Choose(q, be)
      PROVE  RequestTypeOK'
    BY <1>3 DEF Choose, Goto
<1>4. ASSUME NEW q \in Request, NEW o \in Outcome, Retry(q, o)
      PROVE  RequestTypeOK'
  <2>1. attempt[q] \in 0..MaxAttempts /\ attempt[q] < MaxAttempts
    BY <1>4, ProxyAssumption DEF Retry, maxRetries
  <2>2. attempt[q] + 1 \in 0..MaxAttempts
    BY <2>1, ProxyAssumption
  <2>3. attempt' \in [Request -> 0..MaxAttempts] /\ applied' \in [Request -> Nat]
    BY <1>4, <2>2 DEF Retry
  <2>4. QED
    BY <1>4, <2>3 DEF Retry
<1>5. ASSUME NEW q \in Request, NEW o \in Outcome, Finish(q, o)
      PROVE  RequestTypeOK'
  <2>1. answers' \in [Request -> Seq(Answer)]
    BY <1>5, SendType DEF Finish, Answer
  <2>2. applied' \in [Request -> Nat]
    BY <1>5 DEF Finish
  <2>3. last' \in [Request -> Outcomes \cup {"none"}]
    BY <1>5, ProxyAssumption DEF Finish
  <2>4. QED
    BY <1>5, <2>1, <2>2, <2>3 DEF Finish, Goto
<1>6. ASSUME NEW q \in Request, NoBackend(q)
      PROVE  RequestTypeOK'
  <2>1. answers' \in [Request -> Seq(Answer)]
    BY <1>6, SendType DEF NoBackend, Answer
  <2>2. QED
    BY <1>6, <2>1 DEF NoBackend, Goto
<1>7. ASSUME NEW q \in Request, CheckCap(q)
      PROVE  RequestTypeOK'
    BY <1>7 DEF CheckCap, Goto
<1>8. ASSUME NEW q \in Request, Allow(q)
      PROVE  RequestTypeOK'
  <2>0. 0 \in 0..MaxAttempts
    BY ProxyAssumption
  <2>1. attempt' \in [Request -> 0..MaxAttempts]
    BY <1>8, <2>0 DEF Allow
  <2>a. Goto(q, "attempt") \/ Goto(q, "blocked")
    BY <1>8, Zenon DEF Allow
  <2>b. pc \in [Request -> PC] /\ "attempt" \in PC /\ "blocked" \in PC
    OBVIOUS
  <2>2. pc' \in [Request -> PC]
    BY ONLY <2>a, <2>b, q \in Request DEF Goto
  <2>3. QED
    BY <1>8, <2>1, <2>2 DEF Allow
<1>9. ASSUME NEW q \in Request, Blocked(q)
      PROVE  RequestTypeOK'
  <2>1. (bulkheadBlocked[q] \/ atCapacity(backend[q])) \in BOOLEAN
    OBVIOUS
  <2>2. QED
    BY <1>9, <2>1 DEF Blocked, Goto
<1>10. ASSUME NEW q \in Request, Abort(q)
      PROVE  RequestTypeOK'
  <2>1. answers' \in [Request -> Seq(Answer)]
    BY <1>10, SendType DEF Abort, Answer
  <2>2. last' \in [Request -> Outcomes \cup {"none"}]
    BY <1>10 DEF Abort, Outcomes
  <2>3. applied' \in [Request -> Nat] /\ pc' \in [Request -> PC]
    BY <1>10 DEF Abort, Goto
  <2>4. QED
    BY <1>10, <2>1, <2>2, <2>3 DEF Abort
<1>11. ASSUME NEW q \in Request, Record(q)
      PROVE  RequestTypeOK'
  <2>1. AfterRecord(q) \in PC
    BY DEF AfterRecord
  <2>2. QED
    BY <1>11, <2>1 DEF Record, Goto
<1>12. ASSUME NEW q \in Request, StartScan(q)
      PROVE  RequestTypeOK'
    BY <1>12 DEF StartScan, Goto, GetHealthy
<1>13. ASSUME NEW q \in Request, Reserve(q)
      PROVE  RequestTypeOK'
  <2>1. backend[q] \in Backend
    BY <1>13 DEF Reserve, BackendKnown
  <2>2. QED
    BY <1>13, <2>1 DEF Reserve, Goto
<1>14. ASSUME NEW q \in Request, GiveUp(q)
      PROVE  RequestTypeOK'
    BY <1>14 DEF GiveUp, Goto
<1>15. ASSUME NEW q \in Request, Fail(q)
      PROVE  RequestTypeOK'
  <2>1. ErrorFor(q) \in Answer
    BY DEF ErrorFor, Answer
  <2>2. answers' \in [Request -> Seq(Answer)]
    BY <1>15, <2>1, SendType DEF Fail
  <2>3. QED
    BY <1>15, <2>2 DEF Fail, Goto
<1>16. ASSUME NEW be \in Backend, SetHealthy(be)
      PROVE  RequestTypeOK'
    BY <1>16 DEF SetHealthy, reqVars
<1>17. CASE Tick
    BY <1>17 DEF Tick, reqVars
<1>18. CASE UNCHANGED vars
    BY <1>18 DEF vars
<1>19. QED
    BY <1>1, <1>2, <1>3, <1>4, <1>5, <1>6, <1>7, <1>8, <1>9, <1>10, <1>11, <1>12, <1>13,
       <1>14, <1>15, <1>16, <1>17, <1>18
    DEF Next, Step

\* No request is replayed once a backend may have acted on it, unless it is
\* idempotent.
LEMMA AppliedStep ==
    ASSUME TypeOK, AppliedByPlace, [Next]_vars
    PROVE  AppliedByPlace'
<1> USE DEF TypeOK, AppliedByPlace, PC
<1>1. ASSUME NEW q \in Request, NEW be \in Backend, Select(q, be)
      PROVE  AppliedByPlace'
    BY <1>1 DEF Select, Goto
<1>2. ASSUME NEW q \in Request, NEW be \in Backend, Skip(q, be)
      PROVE  AppliedByPlace'
    BY <1>2 DEF Skip, Goto
<1>3. ASSUME NEW q \in Request, NEW be \in Backend, Choose(q, be)
      PROVE  AppliedByPlace'
    BY <1>3 DEF Choose, Goto
<1>4. ASSUME NEW q \in Request, NEW o \in Outcome, Retry(q, o)
      PROVE  AppliedByPlace'
    BY <1>4 DEF Retry, maxRetries
<1>5. ASSUME NEW q \in Request, NEW o \in Outcome, Finish(q, o)
      PROVE  AppliedByPlace'
  <2>1. o \in Outcomes /\ o # "none"
    BY ProxyAssumption DEF Outcomes
  <2>2. pc' = [pc EXCEPT ![q] = "record"] /\ last' = [last EXCEPT ![q] = o]
    BY <1>5 DEF Finish, Goto
  <2>3. applied' = [applied EXCEPT ![q] = IF MayBeApplied(o) THEN @ + 1 ELSE @]
    BY <1>5 DEF Finish
  <2>4. pc[q] = "attempt"
    BY <1>5 DEF Finish
  <2>5. QED
    BY <2>1, <2>2, <2>3, <2>4 DEF MayBeApplied
<1>6. ASSUME NEW q \in Request, NoBackend(q)
      PROVE  AppliedByPlace'
    BY <1>6 DEF NoBackend, Goto
<1>7. ASSUME NEW q \in Request, CheckCap(q)
      PROVE  AppliedByPlace'
    BY <1>7 DEF CheckCap, Goto
<1>8. ASSUME NEW q \in Request, Allow(q)
      PROVE  AppliedByPlace'
    BY <1>8 DEF Allow, Goto
<1>9. ASSUME NEW q \in Request, Blocked(q)
      PROVE  AppliedByPlace'
    BY <1>9 DEF Blocked, Goto
<1>10. ASSUME NEW q \in Request, Abort(q)
      PROVE  AppliedByPlace'
    BY <1>10 DEF Abort, Goto
<1>11. ASSUME NEW q \in Request, Record(q)
      PROVE  AppliedByPlace'
  <2>1. pc[q] = "record" /\ pc' = [pc EXCEPT ![q] = AfterRecord(q)]
        /\ UNCHANGED <<last, applied>>
    BY <1>11 DEF Record, Goto
  <2>2. AfterRecord(q) \in {"done", "fail", "alternate"}
    BY DEF AfterRecord
  <2>3. (AfterRecord(q) = "alternate" /\ q \notin Idempotent) => isConnectError(last[q])
    BY DEF AfterRecord
  <2>4. QED
    BY <2>1, <2>2, <2>3
<1>12. ASSUME NEW q \in Request, StartScan(q)
      PROVE  AppliedByPlace'
    BY <1>12 DEF StartScan, Goto
<1>13. ASSUME NEW q \in Request, Reserve(q)
      PROVE  AppliedByPlace'
    BY <1>13 DEF Reserve, Goto
<1>14. ASSUME NEW q \in Request, GiveUp(q)
      PROVE  AppliedByPlace'
    BY <1>14 DEF GiveUp, Goto
<1>15. ASSUME NEW q \in Request, Fail(q)
      PROVE  AppliedByPlace'
    BY <1>15 DEF Fail, Goto
<1>16. ASSUME NEW be \in Backend, SetHealthy(be)
      PROVE  AppliedByPlace'
    BY <1>16 DEF SetHealthy, reqVars
<1>17. CASE Tick
    BY <1>17 DEF Tick, reqVars
<1>18. CASE UNCHANGED vars
    BY <1>18 DEF vars
<1>19. QED
    BY <1>1, <1>2, <1>3, <1>4, <1>5, <1>6, <1>7, <1>8, <1>9, <1>10, <1>11, <1>12, <1>13,
       <1>14, <1>15, <1>16, <1>17, <1>18
    DEF Next, Step

\* Before the first message there is nothing, after it there is that message.
LEMMA FirstAnswer ==
    ASSUME TypeOK, NEW q \in Request, Len(answers[q]) = 0
    PROVE  /\ DOMAIN answers[q] = {}
           /\ \A a \in Answer : Send(q, a) =>
                /\ DOMAIN answers'[q] = {1} /\ Len(answers'[q]) = 1 /\ answers'[q][1] = a
                /\ \A r \in Request \ {q} : answers'[r] = answers[r]
<1>1. answers[q] \in Seq(Answer) /\ DOMAIN answers[q] = 1..0
    BY DEF TypeOK
<1>2. ASSUME NEW a \in Answer, Send(q, a)
      PROVE  /\ DOMAIN answers'[q] = {1} /\ Len(answers'[q]) = 1 /\ answers'[q][1] = a
             /\ \A r \in Request \ {q} : answers'[r] = answers[r]
  <2>1. answers'[q] = Append(answers[q], a)
    BY <1>2 DEF Send, TypeOK
  <2>2. Len(answers'[q]) = 1 /\ answers'[q][1] = a /\ DOMAIN answers'[q] = 1..1
    BY <1>1, <2>1
  <2>3. \A r \in Request \ {q} : answers'[r] = answers[r]
    BY <1>2 DEF Send, TypeOK
  <2>4. 1..1 = {1}
    OBVIOUS
  <2>5. QED
    BY <2>2, <2>3, <2>4
<1>3. QED
    BY <1>1, <1>2

\* A response is begun at most once, and an ended request has been answered.
LEMMA AnswerStep ==
    ASSUME TypeOK, OneAnswer, [Next]_vars
    PROVE  OneAnswer'
<1> USE DEF TypeOK, OneAnswer, PC
<1>1. ASSUME NEW q \in Request, NEW be \in Backend, Select(q, be)
      PROVE  OneAnswer'
    BY <1>1 DEF Select, Goto
<1>2. ASSUME NEW q \in Request, NEW be \in Backend, Skip(q, be)
      PROVE  OneAnswer'
    BY <1>2 DEF Skip, Goto
<1>3. ASSUME NEW q \in Request, NEW be \in Backend, Choose(q, be)
      PROVE  OneAnswer'
    BY <1>3 DEF Choose, Goto
<1>4. ASSUME NEW q \in Request, NEW o \in Outcome, Retry(q, o)
      PROVE  OneAnswer'
    BY <1>4 DEF Retry, Goto
<1>5. ASSUME NEW q \in Request, NEW o \in Outcome, Finish(q, o)
      PROVE  OneAnswer'
  <2>1. Len(answers[q]) = 0 /\ answers[q] \in Seq(Answer)
    BY <1>5 DEF Finish
  <2>2. \A r \in Request \ {q} : answers'[r] = answers[r]
    BY <1>5 DEF Finish, Send
  <2>3. Len(answers'[q]) = IF Written(o) THEN 1 ELSE 0
    BY <1>5, <2>1, FirstAnswer DEF Finish, Answer
  <2>4. last'[q] = o /\ pc'[q] = "record"
    BY <1>5 DEF Finish, Goto
  <2>5. \A r \in Request \ {q} : pc'[r] = pc[r] /\ last'[r] = last[r]
    BY <1>5 DEF Finish, Goto
  <2>6. QED
    BY <2>2, <2>3, <2>4, <2>5
<1>6. ASSUME NEW q \in Request, NoBackend(q)
      PROVE  OneAnswer'
  <2>1. Len(answers[q]) = 0 /\ answers[q] \in Seq(Answer)
    BY <1>6 DEF NoBackend
  <2>2. Len(answers'[q]) = 1 /\ \A r \in Request \ {q} : answers'[r] = answers[r]
    BY <1>6, <2>1, FirstAnswer DEF NoBackend, Answer
  <2>3. QED
    BY <1>6, <2>2 DEF NoBackend, Goto
<1>7. ASSUME NEW q \in Request, CheckCap(q)
      PROVE  OneAnswer'
    BY <1>7 DEF CheckCap, Goto
<1>8. ASSUME NEW q \in Request, Allow(q)
      PROVE  OneAnswer'
    BY <1>8 DEF Allow, Goto
<1>9. ASSUME NEW q \in Request, Blocked(q)
      PROVE  OneAnswer'
    BY <1>9 DEF Blocked, Goto
<1>10. ASSUME NEW q \in Request, Abort(q)
      PROVE  OneAnswer'
  <2>1. Len(answers[q]) = 0 /\ answers[q] \in Seq(Answer)
    BY <1>10 DEF Abort
  <2>2. Len(answers'[q]) = 1 /\ \A r \in Request \ {q} : answers'[r] = answers[r]
    BY <1>10, <2>1, FirstAnswer DEF Abort, Answer
  <2>3. QED
    BY <1>10, <2>2 DEF Abort, Goto
<1>11. ASSUME NEW q \in Request, Record(q)
      PROVE  OneAnswer'
  <2>1. pc[q] = "record" /\ pc' = [pc EXCEPT ![q] = AfterRecord(q)]
        /\ UNCHANGED <<last, answers>>
    BY <1>11 DEF Record, Goto
  <2>2. AfterRecord(q) \in {"done", "fail", "alternate"}
    BY DEF AfterRecord
  <2>3. AfterRecord(q) = "done" <=> Written(last[q])
    BY DEF AfterRecord, Written, Failed
  <2>4. QED
    BY <2>1, <2>2, <2>3
<1>12. ASSUME NEW q \in Request, StartScan(q)
      PROVE  OneAnswer'
    BY <1>12 DEF StartScan, Goto
<1>13. ASSUME NEW q \in Request, Reserve(q)
      PROVE  OneAnswer'
    BY <1>13 DEF Reserve, Goto
<1>14. ASSUME NEW q \in Request, GiveUp(q)
      PROVE  OneAnswer'
    BY <1>14 DEF GiveUp, Goto
<1>15. ASSUME NEW q \in Request, Fail(q)
      PROVE  OneAnswer'
  <2>1. Len(answers[q]) = 0 /\ answers[q] \in Seq(Answer)
    BY <1>15 DEF Fail
  <2>2. Len(answers'[q]) = 1 /\ \A r \in Request \ {q} : answers'[r] = answers[r]
    BY <1>15, <2>1, FirstAnswer, ErrorFor(q) \in Answer DEF Fail, ErrorFor, Answer
  <2>3. QED
    BY <1>15, <2>2 DEF Fail, Goto
<1>16. ASSUME NEW be \in Backend, SetHealthy(be)
      PROVE  OneAnswer'
    BY <1>16 DEF SetHealthy, reqVars
<1>17. CASE Tick
    BY <1>17 DEF Tick, reqVars
<1>18. CASE UNCHANGED vars
    BY <1>18 DEF vars
<1>19. QED
    BY <1>1, <1>2, <1>3, <1>4, <1>5, <1>6, <1>7, <1>8, <1>9, <1>10, <1>11, <1>12, <1>13,
       <1>14, <1>15, <1>16, <1>17, <1>18
    DEF Next, Step

\* A request is answered 503 only if no backend may have acted on it.
LEMMA RejectedStep ==
    ASSUME TypeOK, AppliedByPlace, OneAnswer, RejectedUntouched, [Next]_vars
    PROVE  RejectedUntouched'
<1> USE DEF TypeOK, RejectedUntouched
<1>1. ASSUME NEW q \in Request, NEW be \in Backend, Select(q, be)
      PROVE  RejectedUntouched'
    BY <1>1 DEF Select
<1>2. ASSUME NEW q \in Request, NEW be \in Backend, Skip(q, be)
      PROVE  RejectedUntouched'
    BY <1>2 DEF Skip
<1>3. ASSUME NEW q \in Request, NEW be \in Backend, Choose(q, be)
      PROVE  RejectedUntouched'
    BY <1>3 DEF Choose
<1>4. ASSUME NEW q \in Request, NEW o \in Outcome, Retry(q, o)
      PROVE  RejectedUntouched'
  <2>1. Len(answers[q]) = 0 /\ DOMAIN answers[q] = {}
    BY <1>4, FirstAnswer DEF Retry, OneAnswer
  <2>2. QED
    BY <1>4, <2>1 DEF Retry
<1>5. ASSUME NEW q \in Request, NEW o \in Outcome, Finish(q, o)
      PROVE  RejectedUntouched'
  <2>1. Len(answers[q]) = 0 /\ DOMAIN answers[q] = {}
    BY <1>5, FirstAnswer DEF Finish, OneAnswer
  <2>2. \A i \in DOMAIN answers'[q] : answers'[q][i] \in {"truncated", "response"}
    <3>1. CASE Written(o)
      <4>1. PICK a \in {"truncated", "response"} : Send(q, a)
        BY <1>5, <3>1 DEF Finish
      <4>2. DOMAIN answers'[q] = {1} /\ answers'[q][1] = a
        BY <2>1, <4>1, a \in Answer, FirstAnswer DEF Answer
      <4>3. QED
        BY <4>2
    <3>2. CASE ~Written(o)
      BY <1>5, <2>1, <3>2 DEF Finish
    <3>3. QED
      BY <3>1, <3>2
  <2>3. \A r \in Request \ {q} : answers'[r] = answers[r] /\ applied'[r] = applied[r]
    BY <1>5 DEF Finish, Send
  <2>4. QED
    BY <2>2, <2>3
<1>6. ASSUME NEW q \in Request, NoBackend(q)
      PROVE  RejectedUntouched'
  <2>1. applied[q] = 0
    BY <1>6 DEF NoBackend, AppliedByPlace
  <2>2. QED
    BY <1>6, <2>1 DEF NoBackend, Send
<1>7. ASSUME NEW q \in Request, CheckCap(q)
      PROVE  RejectedUntouched'
    BY <1>7 DEF CheckCap
<1>8. ASSUME NEW q \in Request, Allow(q)
      PROVE  RejectedUntouched'
    BY <1>8 DEF Allow
<1>9. ASSUME NEW q \in Request, Blocked(q)
      PROVE  RejectedUntouched'
    BY <1>9 DEF Blocked
<1>10. ASSUME NEW q \in Request, Abort(q)
      PROVE  RejectedUntouched'
  <2>1. Len(answers[q]) = 0 /\ DOMAIN answers[q] = {}
    BY <1>10, FirstAnswer DEF Abort, OneAnswer
  <2>2. \A i \in DOMAIN answers'[q] : answers'[q][i] = "truncated"
    <3>1. Send(q, "truncated") /\ "truncated" \in Answer
      BY <1>10 DEF Abort, Answer
    <3>2. DOMAIN answers'[q] = {1} /\ answers'[q][1] = "truncated"
      BY <2>1, <3>1, FirstAnswer
    <3>3. QED
      BY <3>2
  <2>3. \A r \in Request \ {q} : answers'[r] = answers[r] /\ applied'[r] = applied[r]
    BY <1>10 DEF Abort, Send
  <2>4. QED
    BY <2>2, <2>3
<1>11. ASSUME NEW q \in Request, Record(q)
      PROVE  RejectedUntouched'
    BY <1>11 DEF Record
<1>12. ASSUME NEW q \in Request, StartScan(q)
      PROVE  RejectedUntouched'
    BY <1>12 DEF StartScan
<1>13. ASSUME NEW q \in Request, Reserve(q)
      PROVE  RejectedUntouched'
    BY <1>13 DEF Reserve
<1>14. ASSUME NEW q \in Request, GiveUp(q)
      PROVE  RejectedUntouched'
    BY <1>14 DEF GiveUp
<1>15. ASSUME NEW q \in Request, Fail(q)
      PROVE  RejectedUntouched'
  <2>1. Len(answers[q]) = 0 /\ DOMAIN answers[q] = {}
    BY <1>15, FirstAnswer DEF Fail, OneAnswer
  <2>2. (\A i \in DOMAIN answers'[q] : answers'[q][i] = ErrorFor(q)) /\ UNCHANGED applied
    <3>1. ErrorFor(q) \in Answer
      BY DEF ErrorFor, Answer
    <3>2. Send(q, ErrorFor(q))
      BY <1>15 DEF Fail
    <3>3. DOMAIN answers'[q] = {1} /\ answers'[q][1] = ErrorFor(q)
      BY <2>1, <3>1, <3>2, FirstAnswer
    <3>4. QED
      BY <1>15, <3>3 DEF Fail
  <2>3. \A r \in Request \ {q} : answers'[r] = answers[r]
    BY <1>15 DEF Fail, Send
  <2>4. ErrorFor(q) \in {"503 cap", "503 none"} => applied[q] = 0
    BY <1>15 DEF Fail, ErrorFor, AppliedByPlace
  <2>5. QED
    BY <2>2, <2>3, <2>4
<1>16. ASSUME NEW be \in Backend, SetHealthy(be)
      PROVE  RejectedUntouched'
    BY <1>16 DEF SetHealthy, reqVars
<1>17. CASE Tick
    BY <1>17 DEF Tick, reqVars
<1>18. CASE UNCHANGED vars
    BY <1>18 DEF vars
<1>19. QED
    BY <1>1, <1>2, <1>3, <1>4, <1>5, <1>6, <1>7, <1>8, <1>9, <1>10, <1>11, <1>12, <1>13,
       <1>14, <1>15, <1>16, <1>17, <1>18
    DEF Next, Step

-----------------------------------------------------------------------------
\* The inductive invariant holds throughout.
THEOREM Invariance == Spec => []IInv
<1>1. Init => IInv
  <2> SUFFICES ASSUME Init PROVE IInv
    OBVIOUS
  <2> USE DEF Init
  <2>1. NewState \in BackendState
    BY BreakerAssumption DEF NewState, BackendState
  <2>2. TypeOK
    BY <2>1, ProxyAssumption DEF TypeOK, PC
  <2>3. \A be \in Backend : HoldersOf(be) = {} /\ InFlightOn(be) = {}
    BY DEF HoldersOf, InFlightOn, Holding
  <2>4. ReservationsBalance
    BY <2>3, FS_EmptySet DEF ReservationsBalance
  <2>8. Bulkhead
    <3>1. \A be \in Backend : Cardinality(InFlightOn(be)) = 0 /\ MaxConns[be] \in Nat
      BY <2>3, FS_EmptySet, ProxyAssumption
    <3>2. QED
      BY <3>1 DEF Bulkhead
  <2>5. BackendKnown /\ AppliedByPlace
    BY DEF BackendKnown, AppliedByPlace, Holding
  <2>6. OneAnswer /\ RejectedUntouched
    BY DEF OneAnswer, RejectedUntouched
  <2>7. QED
    BY <2>2, <2>4, <2>5, <2>6, <2>8 DEF IInv
<1>2. IInv /\ [Next]_vars => IInv'
  <2> SUFFICES ASSUME IInv, [Next]_vars PROVE IInv'
    OBVIOUS
  <2>1. /\ TypeOK /\ BackendKnown /\ ReservationsBalance /\ Bulkhead
        /\ AppliedByPlace /\ OneAnswer /\ RejectedUntouched
    BY DEF IInv
  <2>2. ReservationsBalance'
    BY <2>1, BalanceStep
  <2>3. TypeOK'
    BY <2>1, <2>2, SharedTypeStep, RequestTypeStep DEF TypeOK, RequestTypeOK
  <2>4. BackendKnown' /\ Bulkhead'
    BY <2>1, KnownStep, BulkheadStep
  <2>5. AppliedByPlace' /\ OneAnswer' /\ RejectedUntouched'
    BY <2>1, AppliedStep, AnswerStep, RejectedStep
  <2>6. QED
    BY <2>2, <2>3, <2>4, <2>5 DEF IInv
<1>3. QED
    BY <1>1, <1>2, PTL DEF Spec

\* The state is always well formed: in particular DecrConn never takes a
\* connection counter below zero.
THEOREM TypeCorrect == Spec => []TypeOK
<1>1. IInv => TypeOK
    BY DEF IInv
<1>2. QED
    BY <1>1, Invariance, PTL

\* Every reservation (IncrConn) is released exactly once (DecrConn), on every path
\* through proxyRequest.
THEOREM ReservationsCorrect == Spec => []ReservationsBalance
<1>1. IInv => ReservationsBalance
    BY DEF IInv
<1>2. QED
    BY <1>1, Invariance, PTL

\* available() never lets more than MaxConns requests through to a backend.
THEOREM BulkheadCorrect == Spec => []Bulkhead
<1>1. IInv => Bulkhead
    BY DEF IInv
<1>2. QED
    BY <1>1, Invariance, PTL

\* Retries and failover never replay a request that is not idempotent on a second
\* backend that may act on it.
THEOREM AppliedOnceCorrect == Spec => []AppliedOnce
<1>1. IInv => AppliedOnce
    BY DEF IInv, AppliedByPlace, AppliedOnce
<1>2. QED
    BY <1>1, Invariance, PTL

\* proxyRequest answers every request it ends exactly once.
THEOREM OneAnswerCorrect == Spec => []OneAnswer
<1>1. IInv => OneAnswer
    BY DEF IInv
<1>2. QED
    BY <1>1, Invariance, PTL

\* A 503 of the proxy is a promise that no backend acted on the request.
THEOREM RejectedCorrect == Spec => []RejectedUntouched
<1>1. IInv => RejectedUntouched
    BY DEF IInv
<1>2. QED
    BY <1>1, Invariance, PTL
=============================================================================
