---------------------------- MODULE HealthyCache ----------------------------
(***************************************************************************)
(* BaseBalancer (internal/balancer/balancer.go): the list of backends, the *)
(* health flags with their process-wide epoch, and the cached answer of    *)
(* GetHealthy, on which every selection and every failover of the proxy    *)
(* relies.                                                                 *)
(*                                                                         *)
(* A SetHealthy call is two atomic steps (Swap, then healthEpoch.Add), and *)
(* GetHealthy is five: load the epoch; take mu for reading and consult the *)
(* cache; read the flags one at a time; release mu; store the new list.    *)
(* Everything else that goes on in the process interleaves with them.      *)
(*                                                                         *)
(* The slice of backends is modelled as a set (pointers are distinct, and  *)
(* nothing here depends on their order), so a reader may visit the flags   *)
(* in any order: more interleavings than the code has, never fewer.        *)
(***************************************************************************)
EXTENDS Integers, FiniteSets

CONSTANTS
    Backend,    \* the *Backend pointers of the process
    Reader,     \* goroutines calling GetHealthy
    Setter,     \* goroutines calling SetHealthy (health checks, breaker, ...)
    None,       \* "no backend"
    MaxEpoch,   \* bound: no health flip starts at this epoch
    MaxGen      \* bound: topology changes

ASSUME NoneAssumption == None \notin Backend
ASSUME BoundAssumption == MaxEpoch \in Nat /\ MaxGen \in Nat

VARIABLES
    backends,     \* BaseBalancer.backends
    gen,          \* BaseBalancer.gen
    healthy,      \* Backend.healthy, for every backend of the process
    healthEpoch,  \* the package variable healthEpoch
    setter,       \* the backend whose flag a SetHealthy call has swapped
                  \* without having bumped healthEpoch yet, or None
    cache,        \* cachedHealthy, cacheEpoch, cacheGen, cacheValid
    reader,       \* the locals of each GetHealthy call
    mayUp,        \* history: backends that were healthy, or being set, at
                  \* some moment of the reader's current call
    mayDown       \* history: the same for unhealthy

vars == <<backends, gen, healthy, healthEpoch, setter, cache, reader, mayUp, mayDown>>

ReaderState ==
    [pc: {"idle", "lookup", "filter", "store", "returned"}, ep: Nat, gen: Nat,
     list: SUBSET Backend,    \* b.backends as seen under the read lock
     todo: SUBSET Backend,    \* members of list whose flag is still to be read
     acc: SUBSET Backend]     \* the local `healthy`, and the result at the end

Cache == [list: SUBSET Backend, epoch: Nat, gen: Nat, valid: BOOLEAN]

TypeOK ==
    /\ backends \in SUBSET Backend
    /\ gen \in Nat
    /\ healthy \in [Backend -> BOOLEAN]
    /\ healthEpoch \in Nat
    /\ setter \in [Setter -> Backend \cup {None}]
    /\ cache \in Cache
    /\ reader \in [Reader -> ReaderState]
    /\ mayUp \in [Reader -> SUBSET Backend]
    /\ mayDown \in [Reader -> SUBSET Backend]

Active(r) == reader[r].pc \in {"lookup", "filter", "store"}

\* Readers that hold mu for reading between two steps of the model.
HoldsRLock(r) == reader[r].pc = "filter"

BeingSet == {be \in Backend : \E s \in Setter : setter[s] = be}

Up == {be \in Backend : healthy[be]}
Down == {be \in Backend : ~healthy[be]}

Init ==
    /\ backends = {}
    /\ gen = 0
    /\ healthy = [be \in Backend |-> TRUE]
    /\ healthEpoch = 0
    /\ setter = [s \in Setter |-> None]
    /\ cache = [list |-> {}, epoch |-> 0, gen |-> 0, valid |-> FALSE]
    /\ reader = [r \in Reader |-> [pc |-> "idle", ep |-> 0, gen |-> 0,
                                   list |-> {}, todo |-> {}, acc |-> {}]]
    /\ mayUp = [r \in Reader |-> {}]
    /\ mayDown = [r \in Reader |-> {}]

-----------------------------------------------------------------------------
\* Topology. mu.Lock() waits for every reader that holds the read lock.

Add(be) ==
    /\ gen < MaxGen
    /\ \A r \in Reader : ~HoldsRLock(r)
    /\ be \notin backends
    /\ backends' = backends \cup {be}
    /\ gen' = gen + 1
    /\ UNCHANGED <<healthy, healthEpoch, setter, cache, reader, mayUp, mayDown>>

\* Mutant: the generation is left alone by a removal.
RemoveNoGen(be) ==
    /\ \A r \in Reader : ~HoldsRLock(r)
    /\ be \in backends
    /\ backends' = backends \ {be}
    /\ UNCHANGED <<gen, healthy, healthEpoch, setter, cache, reader, mayUp, mayDown>>

Remove(be) ==
    /\ gen < MaxGen
    /\ \A r \in Reader : ~HoldsRLock(r)
    /\ be \in backends
    /\ backends' = backends \ {be}
    /\ gen' = gen + 1
    /\ UNCHANGED <<healthy, healthEpoch, setter, cache, reader, mayUp, mayDown>>

-----------------------------------------------------------------------------
\* SetHealthy. A call that does not change the flag has no effect at all.

Swap(s, be) ==
    /\ healthEpoch < MaxEpoch
    /\ setter[s] = None
    /\ setter' = [setter EXCEPT ![s] = be]
    /\ healthy' = [healthy EXCEPT ![be] = ~healthy[be]]
    /\ mayUp' = [r \in Reader |-> IF Active(r) THEN mayUp[r] \cup {be} ELSE mayUp[r]]
    /\ mayDown' = [r \in Reader |-> IF Active(r) THEN mayDown[r] \cup {be} ELSE mayDown[r]]
    /\ UNCHANGED <<backends, gen, healthEpoch, cache, reader>>

\* Mutant: the bump is lost when another flip is under way.
BumpEpochOnce(s) ==
    /\ setter[s] # None
    /\ healthEpoch' = IF \E t \in Setter \ {s} : setter[t] # None
                      THEN healthEpoch ELSE healthEpoch + 1
    /\ setter' = [setter EXCEPT ![s] = None]
    /\ UNCHANGED <<backends, gen, healthy, cache, reader, mayUp, mayDown>>

BumpEpoch(s) ==
    /\ setter[s] # None
    /\ healthEpoch' = healthEpoch + 1
    /\ setter' = [setter EXCEPT ![s] = None]
    /\ UNCHANGED <<backends, gen, healthy, cache, reader, mayUp, mayDown>>

-----------------------------------------------------------------------------
\* GetHealthy.

LoadEpoch(r) ==
    /\ reader[r].pc \in {"idle", "returned"}
    /\ reader' = [reader EXCEPT ![r] = [pc |-> "lookup", ep |-> healthEpoch, gen |-> 0,
                                        list |-> {}, todo |-> {}, acc |-> {}]]
    /\ mayUp' = [mayUp EXCEPT ![r] = Up \cup BeingSet]
    /\ mayDown' = [mayDown EXCEPT ![r] = Down \cup BeingSet]
    /\ UNCHANGED <<backends, gen, healthy, healthEpoch, setter, cache>>

CacheCurrent(ep) == cache.valid /\ cache.epoch = ep /\ cache.gen = gen

LookupHit(r) ==
    /\ reader[r].pc = "lookup"
    /\ CacheCurrent(reader[r].ep)
    /\ reader' = [reader EXCEPT ![r].pc = "returned", ![r].gen = gen,
                                ![r].list = backends, ![r].acc = cache.list]
    /\ UNCHANGED <<backends, gen, healthy, healthEpoch, setter, cache, mayUp, mayDown>>

LookupMiss(r) ==
    /\ reader[r].pc = "lookup"
    /\ ~CacheCurrent(reader[r].ep)
    /\ reader' = [reader EXCEPT ![r].pc = "filter", ![r].gen = gen,
                                ![r].list = backends, ![r].todo = backends]
    /\ UNCHANGED <<backends, gen, healthy, healthEpoch, setter, cache, mayUp, mayDown>>

Filter(r, be) ==
    /\ reader[r].pc = "filter"
    /\ be \in reader[r].todo
    /\ reader' = [reader EXCEPT ![r].todo = @ \ {be},
                                ![r].acc = IF healthy[be] THEN @ \cup {be} ELSE @]
    /\ UNCHANGED <<backends, gen, healthy, healthEpoch, setter, cache, mayUp, mayDown>>

RUnlock(r) ==
    /\ reader[r].pc = "filter"
    /\ reader[r].todo = {}
    /\ reader' = [reader EXCEPT ![r].pc = "store"]
    /\ UNCHANGED <<backends, gen, healthy, healthEpoch, setter, cache, mayUp, mayDown>>

Store(r) ==
    /\ reader[r].pc = "store"
    /\ cache' = [list |-> reader[r].acc, epoch |-> reader[r].ep,
                 gen |-> reader[r].gen, valid |-> TRUE]
    /\ reader' = [reader EXCEPT ![r].pc = "returned"]
    /\ UNCHANGED <<backends, gen, healthy, healthEpoch, setter, mayUp, mayDown>>

GetHealthy(r) ==
    \/ LoadEpoch(r)
    \/ LookupHit(r)
    \/ LookupMiss(r)
    \/ \E be \in Backend : Filter(r, be)
    \/ RUnlock(r)
    \/ Store(r)

SetHealthy(s) == BumpEpoch(s) \/ \E be \in Backend : Swap(s, be)

Next ==
    \/ \E be \in Backend : Add(be) \/ Remove(be)
    \/ \E s \in Setter : SetHealthy(s)
    \/ \E r \in Reader : GetHealthy(r)

Spec == Init /\ [][Next]_vars

-----------------------------------------------------------------------------
(***************************************************************************)
(* "Any health flip invalidates every cache" (balancer.go:50-53): whenever *)
(* no SetHealthy call is between its swap and its bump, a cached list that *)
(* GetHealthy would serve right now is exactly the healthy backends of the *)
(* balancer.                                                               *)
(***************************************************************************)
CacheCoherent ==
    (BeingSet = {} /\ CacheCurrent(healthEpoch)) =>
        cache.list = {be \in backends : healthy[be]}

(***************************************************************************)
(* Every list GetHealthy returns, cached or computed, is one a caller may  *)
(* rely on: it holds only backends of the balancer's list at one moment of *)
(* the call, each of them healthy (and each one left out unhealthy) at     *)
(* some moment of the call, unless a SetHealthy of that very backend was   *)
(* under way during the call.                                              *)
(***************************************************************************)
ResultRegular ==
    \A r \in Reader : reader[r].pc = "returned" =>
        /\ reader[r].acc \subseteq reader[r].list
        /\ reader[r].acc \subseteq mayUp[r]
        /\ reader[r].list \ reader[r].acc \subseteq mayDown[r]
=============================================================================
