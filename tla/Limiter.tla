------------------------------- MODULE Limiter ------------------------------
(***************************************************************************)
(* The rate limiter (internal/limiter): a shared store (MemStore or        *)
(* RedisStore), one global bucket, and a bucket per key or per rule and    *)
(* key. allow reads the clock once and then passes three gates. It holds   *)
(* the limiter's mutex only to fetch a bucket, and works on it after the   *)
(* unlock: UpdateRates, cleanup or an eviction may replace the bucket in   *)
(* between, and a slow request uses a time others have left behind.        *)
(*                                                                         *)
(* Buckets are objects: a map entry and the requests that fetched one      *)
(* refer to it by number. Rates are [e, n]: one event per e ticks, bursts  *)
(* of n. The token bucket is golang.org/x/time/rate, modelled from how     *)
(* reserve uses it; its tokens are counted in ticks of refill.             *)
(***************************************************************************)
EXTENDS Integers, TLC, SequencesExt

CONSTANTS
    Client,             \* requests inside the limiter
    Key, RuleKey,       \* keys of the default map, and of a rule's map
    LimiterSetups,      \* configurations and bounds to start from
    RuleRate, StoreRate,
    maxEntries, idleTTL,
    BucketId,           \* names for bucket objects
    MaxOwed             \* bound: events a token bucket owes

\* A setup: algorithm, kind of store, rate, the rates of UpdateRates calls
\* to come, the keys that clients use, and a bound on the clock.
ASSUME LimiterAssumption == maxEntries > 0 /\ StoreRate.e > 0 /\ StoreRate.n > 0

VARIABLES
    clock,
    algorithm, storeKind,  \* the configuration
    heap,        \* the bucket objects
    global,      \* RateLimiter.globalLimiter
    entries,     \* RateLimiter.limiters and the rule's limiters: bucket, lastSeen
    perKey,      \* requestsPerSecond and burst
    store,       \* the key in the shared store
    client,      \* each request: position, time read, key, bucket fetched, reservation
    setup        \* the setup, with the updates still to come

limVars == <<clock, algorithm, storeKind, heap, global, entries, perKey, store, client, setup>>

Slot == Key \cup RuleKey
Longer(a, b) == IF a > b THEN a ELSE b
Shorter(a, b) == IF a < b THEN a ELSE b

\* tat belongs to gcra; tokens, last and event to the token bucket. History,
\* of gcra buckets: first, the time of the first admission, and admitted.
NewBucket(r) ==
    [rate |-> r, tat |-> 0, tokens |-> r.e * r.n, last |-> 0, event |-> 0,
     first |-> -1, admitted |-> 0]

Quiet == [at |-> "idle", now |-> 0, slot |-> CHOOSE k \in Key : TRUE, id |-> 0, act |-> 0]

\* The objects somebody refers to; the heap holds no others.
InUse == ({global} \cup {entries[k].id : k \in DOMAIN entries}
             \cup {client[c].id : c \in Client}) \ {0}
Fresh == CHOOSE i \in BucketId : i \notin InUse
Kept(h) == [i \in InUse' |-> h[i]]

LimInit ==
    /\ clock = 0
    /\ setup \in LimiterSetups
    /\ algorithm = setup.algorithm /\ storeKind = setup.store /\ perKey = setup.rate
    /\ global = CHOOSE i \in BucketId : TRUE
    /\ heap = [i \in {global} |-> NewBucket(perKey)]
    /\ entries = [k \in {} |-> [id |-> 0, seen |-> 0]]
    /\ store = [tat |-> 0, expires |-> 0, first |-> -1, admitted |-> 0]
    /\ client = [c \in Client |-> Quiet]

-----------------------------------------------------------------------------
(* The buckets.                                                            *)

Admit(b, now) == [b EXCEPT !.admitted = @ + 1, !.first = IF @ = -1 THEN now ELSE @]

\* Mutant: the tolerance of a burst of n + 1.
GcraAdmitsOneMore(b, now) == b.rate.n >= 1 /\ now >= Longer(b.tat, now) - b.rate.n * b.rate.e

\* Mutant: the tolerance of a burst of n - 1.
GcraAdmitsOneLess(b, now) == b.rate.n >= 1 /\ now >= Longer(b.tat, now) - (b.rate.n - 2) * b.rate.e

GcraAdmits(b, now) == b.rate.n >= 1 /\ now >= Longer(b.tat, now) - (b.rate.n - 1) * b.rate.e


GcraAfter(b, now) == [Admit(b, now) EXCEPT !.tat = Longer(@, now) + b.rate.e]

\* Limiter.advance, ReserveN and CancelAt of x/time/rate.
Advance(b, now) == Shorter(b.tokens + Longer(now - b.last, 0), b.rate.e * b.rate.n)
ActAt(b, now) == now + Longer(b.rate.e - Advance(b, now), 0)
ReserveN(b, now) == [b EXCEPT !.last = now, !.tokens = Advance(b, now) - b.rate.e,
                              !.event = ActAt(b, now)]
CancelAt(b, now, act) ==
    LET back == b.rate.e - (b.event - act) IN
    IF back <= 0 THEN b
    ELSE [b EXCEPT
            !.last = now,
            !.tokens = Shorter(Advance(b, now) + back, b.rate.e * b.rate.n),
            !.event = IF @ = act /\ act - b.rate.e >= now THEN act - b.rate.e ELSE @]

-----------------------------------------------------------------------------
(* allow                                                                   *)

BeginAllow(c, k) ==
    /\ client[c].at = "idle" /\ k \in setup.slots
    /\ client' = [client EXCEPT ![c] = [Quiet EXCEPT !.now = clock, !.slot = k,
                                           !.at = IF storeKind = "none" THEN "global" ELSE "store"]]
    /\ UNCHANGED <<clock, algorithm, storeKind, heap, global, entries, perKey, store, setup>>

\* The tat MemStore.Allow or the Lua script starts from.
StoredTat(now) ==
    IF storeKind = "redis" /\ clock >= store.expires THEN now ELSE Longer(store.tat, now)

\* MemStore subtracts the tolerance of n - 1 events from the new tat; the
\* script subtracts n.
StoreAdmits(now) ==
    LET n == IF storeKind = "mem" THEN StoreRate.n - 1 ELSE StoreRate.n
    IN now >= StoredTat(now) + StoreRate.e - n * StoreRate.e

StoreTTL == (StoreRate.n + 1) * StoreRate.e

Gone(c) == client' = [client EXCEPT ![c] = Quiet]

\* Store.Allow: admitted, refused, or (Redis) failing, which admits.
AskStore(c) ==
    LET now == client[c].now IN
    /\ client[c].at = "store"
    /\ \/ /\ StoreAdmits(now)
          /\ store' = [tat |-> StoredTat(now) + StoreRate.e, expires |-> clock + StoreTTL,
                       first |-> IF store.first = -1 THEN now ELSE store.first,
                       admitted |-> store.admitted + 1]
          /\ client' = [client EXCEPT ![c].at = "global"]
       \/ ~StoreAdmits(now) /\ Gone(c) /\ UNCHANGED store
       \/ /\ storeKind = "redis"
          /\ client' = [client EXCEPT ![c].at = "global"]
          /\ UNCHANGED store
    /\ UNCHANGED <<clock, algorithm, storeKind, heap, global, entries, perKey, setup>>

\* gl := r.globalLimiter, under the mutex.
FetchGlobal(c) ==
    /\ client[c].at = "global"
    /\ client' = [client EXCEPT ![c].at = "reserve global", ![c].id = global]
    /\ UNCHANGED <<clock, algorithm, storeKind, heap, global, entries, perKey, store, setup>>

\* reserve of either algorithm. A token bucket reserves a future token and
\* gives it back in a second step.
Reserve(c, at, then) ==
    LET b == heap[client[c].id]
        now == client[c].now
        admits == IF algorithm = "gcra" THEN GcraAdmits(b, now)
                  ELSE b.rate.n >= 1 /\ ActAt(b, now) = now
    IN
    /\ client[c].at = at
    /\ b.tokens >= -MaxOwed * b.rate.e
    /\ IF admits THEN client' = [client EXCEPT ![c] = IF then = "idle" THEN Quiet
                                                      ELSE [@ EXCEPT !.at = then, !.id = 0]]
       ELSE IF algorithm = "gcra" \/ b.rate.n < 1 THEN Gone(c)
       ELSE client' = [client EXCEPT ![c].at = "cancel", ![c].act = ActAt(b, now)]
    /\ UNCHANGED <<clock, algorithm, storeKind, global, entries, perKey, store, setup>>
    /\ heap' = Kept([heap EXCEPT ![client[c].id] =
          IF algorithm = "gcra" THEN (IF admits THEN GcraAfter(b, now) ELSE b)
          ELSE IF b.rate.n < 1 THEN b ELSE ReserveN(b, now)])

Cancel(c) ==
    /\ client[c].at = "cancel"
    /\ Gone(c)
    /\ UNCHANGED <<global, entries>>
    /\ heap' = Kept([heap EXCEPT ![client[c].id] = CancelAt(@, client[c].now, client[c].act)])
    /\ UNCHANGED <<clock, algorithm, storeKind, perKey, store, setup>>

Stale(k, now) == now - entries[k].seen > idleTTL
Without(S) == [k \in DOMAIN entries \ S |-> entries[k]]
Default == DOMAIN entries \cap Key

\* ensureCapacityLocked: the sets of keys it may delete.
Victims(now) ==
    LET stale == {k \in Default : Stale(k, now)} IN
    IF Cardinality(Default) < maxEntries THEN {{}}
    ELSE IF Cardinality(Default \ stale) < maxEntries THEN {stale}
    ELSE {{k} : k \in {k \in Default : \A j \in Default : entries[k].seen <= entries[j].seen}}

\* The entry of the key is touched or created, and its bucket fetched.
Lookup(c) ==
    LET k == client[c].slot
        now == client[c].now
        new == NewBucket(IF k \in Key THEN perKey ELSE RuleRate)
    IN
    /\ client[c].at = "lookup"
    /\ UNCHANGED <<clock, algorithm, storeKind, global, perKey, store, setup>>
    /\ IF k \in DOMAIN entries
       THEN /\ entries' = [entries EXCEPT ![k].seen = now]
            /\ client' = [client EXCEPT ![c].at = "reserve key", ![c].id = entries[k].id]
            /\ UNCHANGED heap
       ELSE \E gone \in IF k \in Key THEN Victims(now) ELSE {{}} :
            /\ entries' = (k :> [id |-> Fresh, seen |-> now]) @@ Without(gone)
            /\ client' = [client EXCEPT ![c].at = "reserve key", ![c].id = Fresh]
            /\ heap' = Kept((Fresh :> new) @@ heap)

\* One tick of the cleanup loop.
Cleanup ==
    /\ \E k \in DOMAIN entries : Stale(k, clock)
    /\ UNCHANGED <<clock, algorithm, storeKind, global, perKey, store, client, setup>>
    /\ entries' = Without({k \in DOMAIN entries : Stale(k, clock)})
    /\ heap' = Kept(heap)

\* New bucket objects, all distinct, for the global limiter and every entry.
UpdateRates(pk, gl) ==
    /\ pk \in setup.updates
    /\ setup' = [setup EXCEPT !.updates = @ \ {pk}]
    /\ perKey' = pk
    /\ UNCHANGED <<clock, algorithm, storeKind, store, client>>
    /\ LET ids == SetToSeq(BucketId \ InUse)
           ks == SetToSeq(DOMAIN entries)
       IN
       /\ global' = ids[1]
       /\ entries' = [k \in DOMAIN entries |->
             [entries[k] EXCEPT !.id = ids[(CHOOSE i \in DOMAIN ks : ks[i] = k) + 1]]]
       /\ heap' = Kept([i \in BucketId |->
             IF i \in InUse THEN heap[i] ELSE IF i = global' THEN NewBucket(gl)
             ELSE NewBucket(IF \E k \in Default : entries'[k].id = i THEN pk ELSE RuleRate)])

\* Bound: a request reaches the store within one period of reading the clock.
LimTick ==
    /\ clock < setup.ticks
    /\ \A c \in Client : client[c].at = "store" => clock - client[c].now < StoreRate.e
    /\ clock' = clock + 1
    /\ UNCHANGED <<algorithm, storeKind, heap, global, entries, perKey, store, client, setup>>

LimNext ==
    \/ \E c \in Client : \/ AskStore(c) \/ FetchGlobal(c) \/ Lookup(c) \/ Cancel(c)
                         \/ Reserve(c, "reserve global", "lookup")
                         \/ Reserve(c, "reserve key", "idle")
    \/ \E c \in Client, k \in Slot : BeginAllow(c, k)
    \/ \E r \in setup.updates : UpdateRates(r, r)
    \/ Cleanup
    \/ LimTick

LimSpec == LimInit /\ [][LimNext]_limVars

-----------------------------------------------------------------------------
\* No meter admits more than its burst and what its rate allows since its
\* first admission: a bucket in the limiter, in whatever order requests that
\* read the clock at different times reach it (gcraLimiter.reserve), and the
\* store for all the instances that share it, although Redis forgets the key
\* after its TTL. Requests that a failing Redis lets pass are not counted.
Within(rate, meter) == meter.admitted * rate.e <= rate.n * rate.e + (clock - meter.first)

\* gcra refuses nobody who is within the burst: a bucket that refuses has
\* admitted its burst, up to the lateness of the request that is refused.
NoFalseDenial ==
    \A c \in Client : algorithm = "gcra" /\ client[c].at \in {"reserve global", "reserve key"} =>
        LET b == heap[client[c].id]
        IN GcraAdmits(b, client[c].now)
              \/ b.admitted * b.rate.e + (clock - client[c].now) > (b.rate.n - 1) * b.rate.e

\* "MemStore ... uses the same GCRA algorithm as the local gcra limiter, so
\* its admission semantics match" (store.go:19-21).
MemStoreMatches ==
    storeKind = "mem" =>
        StoreAdmits(clock) = GcraAdmits([NewBucket(StoreRate) EXCEPT !.tat = store.tat], clock)

\* "A reserve that returns allowed==false consumes nothing" (limiter.go:29):
\* admissions leave a token bucket at 0 or above, so below 0 a refused
\* request was charged.
DenialIsFree ==
    (\A c \in Client : client[c].at # "cancel") => \A i \in DOMAIN heap : heap[i].tokens >= 0
=============================================================================
