---------------------------- MODULE ResponseCache ---------------------------
(***************************************************************************)
(* The response cache (internal/middleware/cache.go). A request looks up   *)
(* its variant, is answered from it, or fetches and perhaps stores; a hit  *)
(* on a stale entry starts a background refresh. Lookup and store run      *)
(* under the cache's mutex, the fetch between them takes any time.         *)
(*                                                                         *)
(* A response either varies on one request header or does not; the origin  *)
(* may change its mind with every response. Bodies, validators (304) and   *)
(* the other headers are left out.                                         *)
(***************************************************************************)
EXTENDS Integers, TLC, SequencesExt

CONSTANTS
    Visitor, Refresher,   \* requests, and goroutines for refreshes (a bound)
    Base, Value,          \* request keys, and values of the header
    TTL, SWR,             \* of every cacheable response
    StoreSizes,           \* sizes to start with
    MaxTime               \* bound: the clock

VARIABLES
    time,
    maxStored,   \* responseCache.maxEntries
    stored,      \* responseCache.entries
    lru,         \* its keys, most recently used first
    varyHints,   \* the base keys with a recorded Vary
    refreshing,  \* keys with an in-flight background refresh
    visit        \* each request or refresh: position, what it asks, response

cacheVars == <<time, maxStored, stored, lru, varyHints, refreshing, visit>>

Plain == "-"
Fetch == Visitor \cup Refresher
Resting == [at |-> "idle", base |-> Plain, val |-> Plain, authed |-> FALSE, key |-> <<>>,
            vary |-> FALSE, public |-> FALSE]

CacheInit ==
    /\ time = 0 /\ maxStored \in StoreSizes
    /\ stored = [k \in {} |-> Resting]
    /\ lru = <<>>
    /\ varyHints = {}
    /\ refreshing = {}
    /\ visit = [p \in Fetch |-> Resting]


\* buildVaryKey: the key of a request's variant.
KeyOf(base, val, vary) == <<base, IF vary THEN val ELSE Plain>>

StillFresh(e) == time - e.storedAt < e.ttl
ServeableStale(e) == e.swr > 0 /\ ~StillFresh(e) /\ time - e.storedAt < e.ttl + e.swr

Touched(k) == <<k>> \o SelectSeq(lru, LAMBDA x : x # k)

-----------------------------------------------------------------------------
\* Mutant: a second refresh may start while one runs.
RefreshAlways(g, p, key) ==
    /\ visit[g].at = "idle"
    /\ refreshing' = refreshing \cup {key}
    /\ visit' = [visit EXCEPT ![g] = [p EXCEPT !.at = "fetch", !.key = key]]

\* triggerRefresh by goroutine g, for the request p.
Refresh(g, p, key) ==
    /\ visit[g].at = "idle" /\ key \notin refreshing
    /\ refreshing' = refreshing \cup {key}
    /\ visit' = [visit EXCEPT ![g] = [p EXCEPT !.at = "fetch", !.key = key]]

\* serve up to the call of the next handler. Methods and directives that
\* bypass the cache never reach it.
Serve(v, b, val, authed) ==
    LET key == KeyOf(b, val, b \in varyHints)
        hit == key \in DOMAIN stored
        use == hit /\ (~authed \/ stored[key].public)
        p == [Resting EXCEPT !.base = b, !.val = val, !.authed = authed]
    IN
    /\ visit[v].at = "idle"
    /\ lru' = IF hit THEN Touched(key) ELSE lru
    /\ \/ /\ use /\ StillFresh(stored[key])
          /\ UNCHANGED <<refreshing, visit>>
       \/ /\ use /\ ServeableStale(stored[key])
          /\ \/ \E g \in Refresher : Refresh(g, p, key)
             \/ key \in refreshing /\ UNCHANGED <<refreshing, visit>>
       \/ /\ ~(use /\ (StillFresh(stored[key]) \/ ServeableStale(stored[key])))
          /\ visit' = [visit EXCEPT ![v] = [p EXCEPT !.at = "fetch"]]
          /\ UNCHANGED refreshing
    /\ UNCHANGED <<time, maxStored, stored, varyHints>>

\* The handler returned: entryFromCapture decides whether to store. A
\* refresh ends here when there is nothing to store or the handler panicked.
Respond(p, vary, public, cacheable) ==
    /\ visit[p].at = "fetch"
    /\ IF cacheable /\ (visit[p].authed => public)
       THEN /\ visit' = [visit EXCEPT ![p].at = "store", ![p].vary = vary, ![p].public = public]
            /\ UNCHANGED refreshing
       ELSE /\ visit' = [visit EXCEPT ![p] = Resting]
            /\ refreshing' = refreshing \ {visit[p].key}
    /\ UNCHANGED <<time, maxStored, stored, lru, varyHints>>

\* The variants store removes because the Vary of the resource changed.
Purged(base, vary) ==
    {k \in DOMAIN stored : k[1] = base /\ vary # (base \in varyHints)}

\* The loop that enforces the LRU bound.
Evict(list, map) ==
    LET kept == IF Len(list) > maxStored THEN SubSeq(list, 1, maxStored) ELSE list
    IN [list |-> kept, map |-> [k \in DOMAIN map \cap ToSet(kept) |-> map[k]]]

Store(p) ==
    LET f == visit[p]
        k == KeyOf(f.base, f.val, f.vary)
        gone == Purged(f.base, f.vary)
        e == [public |-> f.public, vary |-> f.vary, val |-> f.val, storedAt |-> time,
              ttl |-> TTL, swr |-> SWR]
        after == Evict(<<k>> \o SelectSeq(lru, LAMBDA x : x # k /\ x \notin gone),
                       (k :> e) @@ [x \in DOMAIN stored \ gone |-> stored[x]])
    IN
    /\ f.at = "store"
    /\ varyHints' = IF f.vary THEN varyHints \cup {f.base} ELSE varyHints \ {f.base}
    /\ lru' = after.list
    /\ stored' = after.map
    /\ refreshing' = refreshing \ {f.key}
    /\ visit' = [visit EXCEPT ![p] = Resting]
    /\ UNCHANGED <<time, maxStored>>

CacheTick ==
    /\ time < MaxTime
    /\ time' = time + 1
    /\ UNCHANGED <<maxStored, stored, lru, varyHints, refreshing, visit>>

CacheNext ==
    \/ \E v \in Visitor, b \in Base, x \in Value, a \in BOOLEAN : Serve(v, b, x, a)
    \/ \E p \in Fetch, vary, public, cacheable \in BOOLEAN : Respond(p, vary, public, cacheable)
    \/ \E p \in Fetch : Store(p)
    \/ CacheTick

CacheSpec == CacheInit /\ [][CacheNext]_cacheVars

-----------------------------------------------------------------------------

\* A key is marked as refreshing exactly while one goroutine refreshes it,
\* on every way out of that goroutine: a lost mark would end refreshes of
\* the key for good.
MarkMeansRefresh ==
    /\ refreshing = {visit[g].key : g \in {g \in Refresher : visit[g].at # "idle"}}
    /\ \A g, h \in Refresher : visit[g].at # "idle" /\ visit[h].at # "idle"
                                /\ visit[g].key = visit[h].key => g = h
=============================================================================
