-------------------------- MODULE HealthyCacheProofs --------------------------
(***************************************************************************)
(* Proofs, for any number of backends, readers and setters, that the       *)
(* answer of GetHealthy is the one its callers may rely on.                *)
(***************************************************************************)
EXTENDS HealthyCache, TLAPS

\* What reader q has recorded about backend be, once it has read its flag.
Recorded(q) == reader[q].list \ reader[q].todo

\* A flag read at epoch ep may be out of date only if the flip has been, or is
\* about to be, counted.
Accounted(be, ep) == healthEpoch > ep \/ be \in BeingSet

\* Backend be, reported up or down, was so at some moment of r's call.
Witnessed(r, be, up) == IF up THEN be \in mayUp[r] ELSE be \in mayDown[r]

\* Bookkeeping of the locks and generations.
Topology ==
    /\ cache.valid => cache.gen <= gen /\ cache.epoch <= healthEpoch
    /\ (cache.valid /\ cache.gen = gen) => cache.list \subseteq backends
    /\ \A r \in Reader :
        /\ reader[r].acc \subseteq reader[r].list
        /\ reader[r].todo \cap reader[r].acc = {}
        /\ Active(r) => reader[r].ep <= healthEpoch
        /\ reader[r].pc = "lookup" => reader[r].list = {}
        /\ reader[r].pc = "filter" => reader[r].gen = gen /\ reader[r].list = backends
        /\ reader[r].pc = "store" =>
              /\ reader[r].todo = {}
              /\ reader[r].gen <= gen
              /\ reader[r].gen = gen => reader[r].list = backends

\* Recorded flags and cached flags are current, or their flip is accounted for.
Accounting ==
    /\ \A q \in Reader : Active(q) => \A be \in Recorded(q) :
        (be \in reader[q].acc) # healthy[be] => Accounted(be, reader[q].ep)
    /\ (cache.valid /\ cache.gen = gen) => \A be \in backends :
        (be \in cache.list) # healthy[be] => Accounted(be, cache.epoch)

\* What any reader or the cache holds at r's epoch was true during r's call.
History ==
    \A r \in Reader : Active(r) =>
        /\ Up \cup BeingSet \subseteq mayUp[r]
        /\ Down \cup BeingSet \subseteq mayDown[r]
        /\ \A q \in Reader : (Active(q) /\ reader[q].ep = reader[r].ep) =>
              \A be \in Recorded(q) : Witnessed(r, be, be \in reader[q].acc)
        /\ CacheCurrent(reader[r].ep) =>
              \A be \in backends : Witnessed(r, be, be \in cache.list)

IInv == TypeOK /\ Topology /\ Accounting /\ History /\ ResultRegular

-----------------------------------------------------------------------------
\* Each conjunct of the inductive invariant, step by step.

\* Every step of the balancer keeps the types of its state.
LEMMA TypeStep ==
    ASSUME TypeOK, [Next]_vars
    PROVE  TypeOK'
<1> USE DEF TypeOK, ReaderState, Cache, BeingSet, Up, Down, Active
<1>1. ASSUME NEW be \in Backend, Add(be)
      PROVE  TypeOK'
    BY <1>1 DEF Add
<1>2. ASSUME NEW be \in Backend, Remove(be)
      PROVE  TypeOK'
    BY <1>2 DEF Remove
<1>3. ASSUME NEW s \in Setter, NEW be \in Backend, Swap(s, be)
      PROVE  TypeOK'
    BY <1>3 DEF Swap
<1>4. ASSUME NEW s \in Setter, BumpEpoch(s)
      PROVE  TypeOK'
    BY <1>4 DEF BumpEpoch
<1>5. ASSUME NEW r \in Reader, LoadEpoch(r)
      PROVE  TypeOK'
    BY <1>5 DEF LoadEpoch
<1>6. ASSUME NEW r \in Reader, LookupHit(r)
      PROVE  TypeOK'
  <2>1. reader[r] \in ReaderState
    BY DEF TypeOK
  <2>2. reader'[r] \in ReaderState
    BY <1>6, <2>1 DEF LookupHit
  <2>3. reader' \in [Reader -> ReaderState]
    BY <1>6, <2>2 DEF LookupHit
  <2>4. QED
    BY <1>6, <2>3 DEF LookupHit
<1>7. ASSUME NEW r \in Reader, LookupMiss(r)
      PROVE  TypeOK'
  <2>1. reader[r] \in ReaderState
    BY DEF TypeOK
  <2>2. reader'[r] \in ReaderState
    BY <1>7, <2>1 DEF LookupMiss
  <2>3. reader' \in [Reader -> ReaderState]
    BY <1>7, <2>2 DEF LookupMiss
  <2>4. QED
    BY <1>7, <2>3 DEF LookupMiss
<1>8. ASSUME NEW r \in Reader, NEW be \in Backend, Filter(r, be)
      PROVE  TypeOK'
  <2>1. reader[r] \in ReaderState
    BY DEF TypeOK
  <2>2. reader'[r] \in ReaderState
    BY <1>8, <2>1 DEF Filter
  <2>3. reader' \in [Reader -> ReaderState]
    BY <1>8, <2>2 DEF Filter
  <2>4. QED
    BY <1>8, <2>3 DEF Filter
<1>9. ASSUME NEW r \in Reader, RUnlock(r)
      PROVE  TypeOK'
  <2>1. reader[r] \in ReaderState
    BY DEF TypeOK
  <2>2. reader'[r] \in ReaderState
    BY <1>9, <2>1 DEF RUnlock
  <2>3. reader' \in [Reader -> ReaderState]
    BY <1>9, <2>2 DEF RUnlock
  <2>4. QED
    BY <1>9, <2>3 DEF RUnlock
<1>10. ASSUME NEW r \in Reader, Store(r)
      PROVE  TypeOK'
  <2>1. reader[r] \in ReaderState
    BY DEF TypeOK
  <2>2. reader'[r] \in ReaderState
    BY <1>10, <2>1 DEF Store
  <2>3. reader' \in [Reader -> ReaderState]
    BY <1>10, <2>2 DEF Store
  <2>4. cache' \in Cache
    BY <1>10, <2>1 DEF Store
  <2>5. QED
    BY <1>10, <2>3, <2>4 DEF Store
<1>11. CASE UNCHANGED vars
    BY <1>11 DEF vars
<1>12. QED
    BY <1>1, <1>2, <1>3, <1>4, <1>5, <1>6, <1>7, <1>8, <1>9, <1>10, <1>11 DEF Next, GetHealthy, SetHealthy

\* Locking discipline: a list read under mu belongs to the generation read with it.
LEMMA TopologyStep ==
    ASSUME TypeOK, Topology, TypeOK', [Next]_vars
    PROVE  Topology'
<1> USE DEF Topology, TypeOK, ReaderState, Cache, Active, HoldsRLock, BeingSet, Up, Down, CacheCurrent
<1>1. ASSUME NEW be \in Backend, Add(be)
      PROVE  Topology'
    BY <1>1 DEF Add
<1>2. ASSUME NEW be \in Backend, Remove(be)
      PROVE  Topology'
    BY <1>2 DEF Remove
<1>3. ASSUME NEW s \in Setter, NEW be \in Backend, Swap(s, be)
      PROVE  Topology'
    BY <1>3 DEF Swap
<1>4. ASSUME NEW s \in Setter, BumpEpoch(s)
      PROVE  Topology'
    BY <1>4 DEF BumpEpoch
<1>5. ASSUME NEW r \in Reader, LoadEpoch(r)
      PROVE  Topology'
    BY <1>5 DEF LoadEpoch
<1>6. ASSUME NEW r \in Reader, LookupHit(r)
      PROVE  Topology'
    BY <1>6 DEF LookupHit
<1>7. ASSUME NEW r \in Reader, LookupMiss(r)
      PROVE  Topology'
    BY <1>7 DEF LookupMiss
<1>8. ASSUME NEW r \in Reader, NEW be \in Backend, Filter(r, be)
      PROVE  Topology'
    BY <1>8, SMTT(30) DEF Filter
<1>9. ASSUME NEW r \in Reader, RUnlock(r)
      PROVE  Topology'
    BY <1>9 DEF RUnlock
<1>10. ASSUME NEW r \in Reader, Store(r)
      PROVE  Topology'
    BY <1>10 DEF Store
<1>11. CASE UNCHANGED vars
    BY <1>11 DEF vars
<1>12. QED
    BY <1>1, <1>2, <1>3, <1>4, <1>5, <1>6, <1>7, <1>8, <1>9, <1>10, <1>11 DEF Next, GetHealthy, SetHealthy

\* A flag that changed after it was read has bumped, or will bump, the epoch.
LEMMA AccountingStep ==
    ASSUME TypeOK, Topology, Accounting, TypeOK', [Next]_vars
    PROVE  Accounting'
<1> USE DEF Accounting, Accounted, Recorded, Topology, TypeOK, ReaderState, Cache, Active, HoldsRLock, BeingSet, Up, Down, CacheCurrent
<1>1. ASSUME NEW be \in Backend, Add(be)
      PROVE  Accounting'
    BY <1>1 DEF Add
<1>2. ASSUME NEW be \in Backend, Remove(be)
      PROVE  Accounting'
    BY <1>2 DEF Remove
<1>3. ASSUME NEW s \in Setter, NEW be \in Backend, Swap(s, be)
      PROVE  Accounting'
  <2>1. BeingSet' = BeingSet \cup {be}
    BY <1>3, NoneAssumption DEF Swap
  <2>2. \A q \in Reader : Active(q)' => \A x \in Recorded(q)' :
          (x \in reader'[q].acc) # healthy'[x] => Accounted(x, reader[q].ep)'
    BY <1>3, <2>1 DEF Swap
  <2>3. (cache'.valid /\ cache'.gen = gen') => \A x \in backends' :
          (x \in cache'.list) # healthy'[x] => Accounted(x, cache.epoch)'
    BY <1>3, <2>1 DEF Swap
  <2>4. QED
    BY <2>2, <2>3, <1>3 DEF Swap
<1>4. ASSUME NEW s \in Setter, BumpEpoch(s)
      PROVE  Accounting'
    BY <1>4 DEF BumpEpoch
<1>5. ASSUME NEW r \in Reader, LoadEpoch(r)
      PROVE  Accounting'
    BY <1>5 DEF LoadEpoch
<1>6. ASSUME NEW r \in Reader, LookupHit(r)
      PROVE  Accounting'
    BY <1>6 DEF LookupHit
<1>7. ASSUME NEW r \in Reader, LookupMiss(r)
      PROVE  Accounting'
    BY <1>7 DEF LookupMiss
<1>8. ASSUME NEW r \in Reader, NEW be \in Backend, Filter(r, be)
      PROVE  Accounting'
    BY <1>8 DEF Filter
<1>9. ASSUME NEW r \in Reader, RUnlock(r)
      PROVE  Accounting'
    BY <1>9 DEF RUnlock
<1>10. ASSUME NEW r \in Reader, Store(r)
      PROVE  Accounting'
    BY <1>10, SMTT(30) DEF Store
<1>11. CASE UNCHANGED vars
    BY <1>11 DEF vars
<1>12. QED
    BY <1>1, <1>2, <1>3, <1>4, <1>5, <1>6, <1>7, <1>8, <1>9, <1>10, <1>11 DEF Next, GetHealthy, SetHealthy

\* What is recorded at an epoch was true during every call that loaded that epoch.
LEMMA HistoryStep ==
    ASSUME TypeOK, Topology, Accounting, History, TypeOK', [Next]_vars
    PROVE  History'
<1> USE DEF History, Witnessed, Accounting, Accounted, Recorded, Topology, TypeOK, ReaderState, Cache, Active, HoldsRLock, BeingSet, Up, Down, CacheCurrent
<1>1. ASSUME NEW be \in Backend, Add(be)
      PROVE  History'
    BY <1>1 DEF Add
<1>2. ASSUME NEW be \in Backend, Remove(be)
      PROVE  History'
    BY <1>2 DEF Remove
<1>3. ASSUME NEW s \in Setter, NEW be \in Backend, Swap(s, be)
      PROVE  History'
    BY <1>3 DEF Swap
<1>4. ASSUME NEW s \in Setter, BumpEpoch(s)
      PROVE  History'
  <2>1. BeingSet' \subseteq BeingSet
    BY <1>4, NoneAssumption DEF BumpEpoch
  <2>2. Up' = Up /\ Down' = Down /\ mayUp' = mayUp /\ mayDown' = mayDown
    BY <1>4 DEF BumpEpoch
  <2>3. ASSUME NEW q \in Reader
        PROVE  (CacheCurrent(reader[q].ep) <=> CacheCurrent(reader[q].ep)') /\ (Active(q) <=> Active(q)')
    BY <1>4 DEF BumpEpoch
  <2>4. QED
    BY <1>4, <2>1, <2>2, <2>3 DEF BumpEpoch
<1>5. ASSUME NEW r \in Reader, LoadEpoch(r)
      PROVE  History'
  <2> SUFFICES ASSUME NEW p \in Reader, Active(p)'
               PROVE  /\ (Up \cup BeingSet)' \subseteq mayUp'[p]
                      /\ (Down \cup BeingSet)' \subseteq mayDown'[p]
                      /\ \A q \in Reader : (Active(q)' /\ reader'[q].ep = reader'[p].ep) =>
                            \A be \in Recorded(q)' : Witnessed(p, be, be \in reader[q].acc)'
                      /\ CacheCurrent(reader[p].ep)' =>
                            \A be \in backends' : Witnessed(p, be, be \in cache.list)'
    BY DEF History
  <2>1. CASE p # r
    BY <1>5, <2>1 DEF LoadEpoch
  <2>2. CASE p = r
    <3>1. reader'[r].ep = healthEpoch /\ Recorded(r)' = {}
      BY <1>5 DEF LoadEpoch
    <3>2. ASSUME NEW q \in Reader, q # r, Active(q), reader[q].ep = healthEpoch, NEW be \in Recorded(q)
          PROVE  Witnessed(r, be, be \in reader[q].acc)'
      BY <1>5, <3>2 DEF LoadEpoch
    <3>3. ASSUME CacheCurrent(healthEpoch), NEW be \in backends
          PROVE  Witnessed(r, be, be \in cache.list)'
      BY <1>5, <3>3 DEF LoadEpoch
    <3>4. QED
      BY <1>5, <2>2, <3>1, <3>2, <3>3 DEF LoadEpoch
  <2>3. QED
    BY <2>1, <2>2
<1>6. ASSUME NEW r \in Reader, LookupHit(r)
      PROVE  History'
    BY <1>6 DEF LookupHit
<1>7. ASSUME NEW r \in Reader, LookupMiss(r)
      PROVE  History'
    BY <1>7, SMTT(30) DEF LookupMiss
<1>8. ASSUME NEW r \in Reader, NEW be \in Backend, Filter(r, be)
      PROVE  History'
    BY <1>8 DEF Filter
<1>9. ASSUME NEW r \in Reader, RUnlock(r)
      PROVE  History'
    BY <1>9 DEF RUnlock
<1>10. ASSUME NEW r \in Reader, Store(r)
      PROVE  History'
    BY <1>10 DEF Store
<1>11. CASE UNCHANGED vars
    BY <1>11 DEF vars
<1>12. QED
    BY <1>1, <1>2, <1>3, <1>4, <1>5, <1>6, <1>7, <1>8, <1>9, <1>10, <1>11 DEF Next, GetHealthy, SetHealthy

\* A call that returns does so with a list its history justifies.
LEMMA RegularStep ==
    ASSUME TypeOK, Topology, History, ResultRegular, TypeOK', [Next]_vars
    PROVE  ResultRegular'
<1> USE DEF ResultRegular, History, Witnessed, Recorded, Topology, TypeOK, ReaderState, Cache, Active, HoldsRLock, BeingSet, Up, Down, CacheCurrent
<1>1. ASSUME NEW be \in Backend, Add(be)
      PROVE  ResultRegular'
    BY <1>1 DEF Add
<1>2. ASSUME NEW be \in Backend, Remove(be)
      PROVE  ResultRegular'
    BY <1>2 DEF Remove
<1>3. ASSUME NEW s \in Setter, NEW be \in Backend, Swap(s, be)
      PROVE  ResultRegular'
    BY <1>3 DEF Swap
<1>4. ASSUME NEW s \in Setter, BumpEpoch(s)
      PROVE  ResultRegular'
    BY <1>4 DEF BumpEpoch
<1>5. ASSUME NEW r \in Reader, LoadEpoch(r)
      PROVE  ResultRegular'
    BY <1>5 DEF LoadEpoch
<1>6. ASSUME NEW r \in Reader, LookupHit(r)
      PROVE  ResultRegular'
    BY <1>6 DEF LookupHit
<1>7. ASSUME NEW r \in Reader, LookupMiss(r)
      PROVE  ResultRegular'
    BY <1>7 DEF LookupMiss
<1>8. ASSUME NEW r \in Reader, NEW be \in Backend, Filter(r, be)
      PROVE  ResultRegular'
    BY <1>8 DEF Filter
<1>9. ASSUME NEW r \in Reader, RUnlock(r)
      PROVE  ResultRegular'
    BY <1>9 DEF RUnlock
<1>10. ASSUME NEW r \in Reader, Store(r)
      PROVE  ResultRegular'
    BY <1>10 DEF Store
<1>11. CASE UNCHANGED vars
    BY <1>11 DEF vars
<1>12. QED
    BY <1>1, <1>2, <1>3, <1>4, <1>5, <1>6, <1>7, <1>8, <1>9, <1>10, <1>11 DEF Next, GetHealthy, SetHealthy

-----------------------------------------------------------------------------
(***************************************************************************)
(* The inductive invariant holds in every state of every run of the        *)
(* balancer: it is what makes one epoch, bumped after the flag changes and *)
(* loaded before the flags are read, enough to validate the cache.         *)
(***************************************************************************)
THEOREM Invariance == Spec => []IInv
<1>1. Init => IInv
  <2> SUFFICES ASSUME Init PROVE IInv
    OBVIOUS
  <2> USE DEF Init
  <2>1. TypeOK
    BY DEF TypeOK, ReaderState, Cache
  <2>2. Topology
    BY DEF Topology, Active
  <2>3. Accounting /\ History /\ ResultRegular
    BY DEF Accounting, History, ResultRegular, Active
  <2>4. QED
    BY <2>1, <2>2, <2>3 DEF IInv
<1>2. IInv /\ [Next]_vars => IInv'
  BY TypeStep, TopologyStep, AccountingStep, HistoryStep, RegularStep DEF IInv
<1>3. QED
  BY <1>1, <1>2, PTL DEF Spec

(***************************************************************************)
(* The state of the balancer keeps its types under every interleaving of   *)
(* topology changes, health flips and GetHealthy calls.                    *)
(***************************************************************************)
THEOREM TypeCorrect == Spec => []TypeOK
<1>1. IInv => TypeOK
  BY DEF IInv
<1>2. QED
  BY <1>1, Invariance, PTL

(***************************************************************************)
(* Every list that GetHealthy returns is regular: each backend in it was   *)
(* healthy, and each one left out unhealthy, at some moment of the call,   *)
(* save those being set meanwhile; for any number of goroutines.           *)
(***************************************************************************)
THEOREM GetHealthyRegular == Spec => []ResultRegular
<1>1. IInv => ResultRegular
  BY DEF IInv
<1>2. QED
  BY <1>1, Invariance, PTL

(***************************************************************************)
(* A cached list that is current is exactly the healthy backends whenever  *)
(* no SetHealthy call is half done: a flip never leaves a stale list in    *)
(* use.                                                                    *)
(***************************************************************************)
THEOREM CacheCoherence == Spec => []CacheCoherent
<1>1. IInv => CacheCoherent
  BY DEF IInv, CacheCoherent, CacheCurrent, TypeOK, Cache, Topology, Accounting, Accounted
<1>2. QED
  BY <1>1, Invariance, PTL
=============================================================================
