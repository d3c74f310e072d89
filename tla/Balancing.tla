------------------------------ MODULE Balancing ------------------------------
(***************************************************************************)
(* The selection algorithms of internal/balancer and the two wrappers that *)
(* narrow what they choose from (PriorityTiers, ZoneAware).                *)
(*                                                                         *)
(* One behaviour is one configured balancer: Init draws the algorithm that *)
(* registry.go builds and the wrapper stack around it, outermost first.    *)
(* A selection is not atomic. Every wrapper reads GetHealthy, narrows it,  *)
(* reads the inner balancer's GetHealthy again to compare the two, and     *)
(* either delegates (the inner balancer then reads it once more) or picks  *)
(* from the narrowed list; the algorithm itself runs under its mutex or on *)
(* an atomic counter, after a snapshot of its own. Health flips (and, just *)
(* the same, topology changes) fall between any two of these reads.        *)
(***************************************************************************)
EXTENDS Integers, Sequences, FiniteSets

LOCAL INSTANCE SequencesExt

CONSTANTS
    Order,        \* the backends, in the order of BaseBalancer.backends
    Caller,       \* goroutines selecting a backend
    Key,          \* routing keys; a key is its hash, a number below HashSize
    Ring,         \* the virtual nodes of all backends, clockwise
    Stacks,       \* wrapper stacks around the base algorithm
    Weight, Tier, \* Backend.weight and Backend.Tier
    Local,        \* backends whose Zone is the local zone
    LoadNum,      \* loadFactor = LoadNum / 100
    Samples,      \* latencies ObserveLatency may report
    CounterSize,  \* stands for 2^32, the width of the atomic counters
    MaxLoad,      \* bound: requests in flight
    MaxFlips      \* bound: health changes

Member == ToSet(Order)
NoKey == -1         \* the unkeyed entry point, Next
Algorithms == {"round_robin", "least_conn", "weighted", "swrr", "weighted_least_conn",
               "weighted_random", "p2c", "consistent_hash", "ewma", "ip_hash"}

\* The algorithms that implement KeyedBalancer, and the ones that rotate.
Keyed == {"consistent_hash", "ip_hash"}
Rotating == {"round_robin", "weighted", "swrr"}

ASSUME LoadAssumption == LoadNum > 100      \* NewConsistentHash
ASSUME BalanceBounds == CounterSize \in Nat \ {0} /\ MaxLoad \in Nat /\ MaxFlips \in Nat

VARIABLES
    algo, stack,   \* the configuration, fixed by setupBalancer
    up,            \* Backend.healthy
    conns,         \* Backend.ActiveConns
    counter,       \* RoundRobin.current and WeightedRoundRobin.current
    current,       \* SWRR.current
    ewma,          \* EWMA.state, 0 for "no sample yet"
    ring,          \* the members the consistent-hash ring was built for
    call,          \* the locals of each selection
    flips,         \* health changes so far
    waited         \* history: selections since a backend was last selected

balVars == <<algo, stack, up, conns, counter, current, ewma, ring, call, flips, waited>>

Call == [pc: {"idle", "eligible", "delegate", "snapshot", "pick"}, level: 1..3,
         cand: Seq(Member),      \* the candidates, or the base snapshot
         key: Key \cup {NoKey},
         seen: SUBSET Member,    \* history: healthy at some moment of the call
         throughout: SUBSET Member,  \* history: healthy all along
         quiet: BOOLEAN]          \* history: no flag changed during the call

Idle == [pc |-> "idle", level |-> 1, cand |-> <<>>, key |-> NoKey,
         seen |-> {}, throughout |-> {}, quiet |-> TRUE]


\* GetHealthy: the healthy backends, in order.
Healthy == SelectSeq(Order, LAMBDA b : up[b])
UpNow == {b \in Member : up[b]}

\* Weight as swrr, weighted_least_conn and weighted_random read it.
AtLeastOne == [b \in Member |-> IF Weight[b] <= 0 THEN 1 ELSE Weight[b]]
Positive == [b \in Member |-> IF Weight[b] > 0 THEN Weight[b] ELSE 0]
SumOver(list, f) == FoldSeq(LAMBDA b, s : s + f[b], 0, list)

BalInit ==
    /\ stack \in Stacks
    /\ algo \in IF stack = <<>> THEN Algorithms ELSE {"round_robin", "ip_hash"}
    /\ up = [b \in Member |-> TRUE]
    /\ conns = [b \in Member |-> 0]
    /\ counter = 0
    /\ current = [b \in Member |-> 0]
    /\ ewma = [b \in Member |-> 0]
    /\ ring = {}
    /\ call = [c \in Caller |-> Idle]
    /\ flips = 0
    /\ waited = [b \in Member |-> 0]

-----------------------------------------------------------------------------
(* What each algorithm may choose from a non-empty snapshot.               *)

\* The first backend of list that no other one beats: a loop keeping the
\* first strictly smaller score.
FirstLeast(list, less(_, _)) ==
    list[CHOOSE i \in DOMAIN list :
            /\ \A j \in DOMAIN list : ~less(list[j], list[i])
            /\ \A j \in 1..(i - 1) : \E k \in DOMAIN list : less(list[k], list[j])]

\* The backend whose share of the cumulated weights contains n.
ByWeight(list, w, n) ==
    list[CHOOSE i \in DOMAIN list :
            /\ n < SumOver(SubSeq(list, 1, i), w)
            /\ n >= SumOver(SubSeq(list, 1, i - 1), w)]

FewerConns(a, b) == conns[a] < conns[b]
LeastConn(list) == FirstLeast(list, FewerConns)
LowerShare(a, b) == conns[a] * AtLeastOne[b] < conns[b] * AtLeastOne[a]
Score(b) == ewma[b] * (conns[b] + 1)
LowerScore(a, b) == Score(a) < Score(b)

PowerOfTwo(list) ==
    IF Len(list) = 1 THEN {list[1]}
    ELSE {IF conns[list[j]] < conns[list[i]] THEN list[j] ELSE list[i] :
             <<i, j>> \in {p \in (DOMAIN list) \X (DOMAIN list) : p[1] # p[2]}}

\* SWRR.Next adds every weight before it takes the total off the best one.
Raised(list) == [b \in Member |-> IF b \in ToSet(list) THEN current[b] + AtLeastOne[b]
                                                        ELSE current[b]]
SwrrBest(list) == LET r == Raised(list) IN FirstLeast(list, LAMBDA a, b : r[a] > r[b])

\* ConsistentHash.NextForKey: int(loadFactor * total / n) + 1 places each.
Capacity(list) ==
    (LoadNum * (1 + SumOver(list, conns))) \div (100 * Len(list)) + 1

\* The nodes of the members, clockwise from the key's position.
Clockwise(members, key) ==
    SelectSeq([i \in 1..Len(Ring) |-> Ring[((key + i - 1) % Len(Ring)) + 1]],
              LAMBDA b : b \in members)


\* The first node of the walk that is in the snapshot and has a free place,
\* else the first one.
RingPick(list, members, key) ==
    LET walk == Clockwise(members, key)
        free == SelectSeq(walk, LAMBDA b : b \in ToSet(list) /\ conns[b] < Capacity(list))
    IN IF free # <<>> THEN free[1] ELSE walk[1]

\* The ring NextForKey walks: rebuilt when the membership signature differs.
RingFor(list) == IF ring = ToSet(list) THEN ring ELSE ToSet(list)

HashPick(list, key) == list[(key % Len(list)) + 1]

\* The backends Next (or NextForKey) may return for a snapshot.
MayPick(list, key) ==
    CASE algo = "round_robin" -> {list[(counter % Len(list)) + 1]}
      [] algo = "weighted" ->
            LET total == SumOver(list, Positive)
            IN {IF total = 0 THEN list[1] ELSE ByWeight(list, Positive, counter % total)}
      [] algo = "swrr" -> {SwrrBest(list)}
      [] algo = "least_conn" -> {LeastConn(list)}
      [] algo = "weighted_least_conn" -> {FirstLeast(list, LowerShare)}
      [] algo = "weighted_random" ->
            {ByWeight(list, AtLeastOne, n) : n \in 0..(SumOver(list, AtLeastOne) - 1)}
      [] algo = "p2c" -> PowerOfTwo(list)
      [] algo = "ewma" -> {FirstLeast(list, LowerScore)}
      [] algo = "ip_hash" -> IF key = NoKey THEN {} ELSE {HashPick(list, key)}
      [] algo = "consistent_hash" ->
            {RingPick(list, RingFor(list), k) : k \in IF key = NoKey THEN Key ELSE {key}}

-----------------------------------------------------------------------------
(* A selection, step by step.                                              *)

\* What one wrapper keeps of a pool (the two eligibleFrom).
EligibleFrom(w, pool) ==
    IF w = "tiers" THEN SelectSeq(pool, LAMBDA b : \A o \in ToSet(pool) : Tier[b] <= Tier[o])
    ELSE LET local == SelectSeq(pool, LAMBDA b : b \in Local)
         IN IF local # <<>> THEN local ELSE pool

\* Where a call goes when level l of the stack is entered through Next.
EntryPc(l) == IF l <= Len(stack) THEN "eligible" ELSE "snapshot"

\* NextForKey of an algorithm that is not keyed is Next.
Begin(c, k) ==
    /\ call[c].pc = "idle"
    /\ k # NoKey => algo \in Keyed
    /\ SumOver(Order, conns) + Cardinality({d \in Caller : call[d].pc # "idle"})
          < MaxLoad
    /\ call' = [call EXCEPT ![c] =
          [Idle EXCEPT !.pc = EntryPc(1), !.key = k, !.seen = UpNow, !.throughout = UpNow]]
    /\ UNCHANGED <<algo, stack, up, conns, counter, current, ewma, ring, flips, waited>>

\* Next of a wrapper: eligibleFrom(inner.GetHealthy()).
Eligible(c) ==
    /\ call[c].pc = "eligible"
    /\ call' = [call EXCEPT ![c].pc = "delegate",
                            ![c].cand = EligibleFrom(stack[call[c].level], Healthy)]
    /\ UNCHANGED <<algo, stack, up, conns, counter, current, ewma, ring, flips, waited>>

\* History, per selection counted: a backend selected in a quiet call starts
\* over, the others of its snapshot have waited once more (up to a ceiling).
WaitCeiling == (2 + Cardinality(Caller)) * SumOver(Order, AtLeastOne) + 1
Waited(c, list, b) ==
    [x \in Member |->
        IF stack # <<>> \/ algo \notin Rotating \/ x = b THEN 0
        ELSE IF x \in ToSet(list) /\ waited[x] < WaitCeiling THEN waited[x] + 1
        ELSE waited[x]]

Take(c, b) ==
    /\ conns' = [conns EXCEPT ![b] = @ + 1]
    /\ call' = [call EXCEPT ![c] = Idle]

Fail(c) == call' = [call EXCEPT ![c] = Idle]

\* Mutant: the inner wrapper starts again from all healthy backends.
PickFromAll(w, cand) == EligibleFrom(w, Healthy)

\* pickFrom and pickFromKey: the inner wrapper narrows what it is handed.
PickFrom(w, cand) == EligibleFrom(w, cand)

\* selectFrom and keyedSelectFrom: nothing to choose from; the narrowing
\* changes nothing, so the inner balancer selects by itself; the inner
\* balancer is a wrapper and narrows further; the base algorithm cannot
\* pick from a subset, so the least loaded (or the hashed) candidate is it.
Delegate(c) ==
    LET cand == call[c].cand
        inner == call[c].level + 1
        keyed == call[c].key # NoKey
    IN
    /\ call[c].pc = "delegate"
    /\ \/ /\ cand = <<>>
          /\ Fail(c) /\ UNCHANGED conns
       \/ /\ cand # <<>> /\ ToSet(Healthy) = ToSet(cand)
          /\ call' = [call EXCEPT ![c].pc = EntryPc(inner), ![c].level = inner, ![c].cand = <<>>]
          /\ UNCHANGED conns
       \/ /\ cand # <<>> /\ ToSet(Healthy) # ToSet(cand) /\ inner <= Len(stack)
          /\ call' = [call EXCEPT ![c].level = inner, ![c].cand = PickFrom(stack[inner], @)]
          /\ UNCHANGED conns
       \/ /\ cand # <<>> /\ ToSet(Healthy) # ToSet(cand) /\ inner > Len(stack)
          /\ Take(c, IF keyed THEN HashPick(cand, call[c].key) ELSE LeastConn(cand))
    /\ UNCHANGED <<algo, stack, up, counter, current, ewma, ring, flips, waited>>

\* Next of the base algorithm: the GetHealthy it starts with.
Snapshot(c) ==
    /\ call[c].pc = "snapshot"
    /\ IF Healthy = <<>> THEN Fail(c)
       ELSE call' = [call EXCEPT ![c].pc = "pick", ![c].cand = Healthy]
    /\ UNCHANGED <<algo, stack, up, conns, counter, current, ewma, ring, flips, waited>>

Counts(list) == algo = "round_robin" \/ (algo = "weighted" /\ SumOver(list, Positive) > 0)

\* Mutant: the counter is read but not advanced.
CounterAfterStuck(list) == counter

CounterAfter(list) == IF Counts(list) THEN (counter + 1) % CounterSize ELSE counter

CurrentAfter(list, b) ==
    IF algo # "swrr" THEN current
    ELSE [Raised(list) EXCEPT ![b] = @ - SumOver(list, AtLeastOne)]

Pick(c) ==
    LET list == call[c].cand
        key == call[c].key
    IN
    /\ call[c].pc = "pick"
    /\ \/ /\ MayPick(list, key) = {}            \* ip_hash without a key
          /\ Fail(c) /\ UNCHANGED <<conns, counter, current, ring, waited>>
       \/ \E b \in MayPick(list, key) :
          /\ Take(c, b)
          /\ counter' = CounterAfter(list)
          /\ current' = CurrentAfter(list, b)
          /\ ring' = IF algo = "consistent_hash" THEN RingFor(list) ELSE ring
          /\ waited' = Waited(c, list, b)
    /\ UNCHANGED <<algo, stack, up, ewma, flips>>

\* The request ends: the caller of the selection calls DecrConn.
Release(b) ==
    /\ conns[b] > 0
    /\ conns' = [conns EXCEPT ![b] = @ - 1]
    /\ UNCHANGED <<algo, stack, up, counter, current, ewma, ring, call, flips, waited>>

\* The decayed average lies between the old value and the new sample.
ObserveLatency(b, d) ==
    /\ algo = "ewma"
    /\ \E v \in Samples :
          /\ IF ewma[b] = 0 THEN v = d ELSE v \in (d..ewma[b]) \cup (ewma[b]..d)
          /\ ewma' = [ewma EXCEPT ![b] = v]
    /\ UNCHANGED <<algo, stack, up, conns, counter, current, ring, call, flips, waited>>

Flip(b) ==
    /\ flips < MaxFlips
    /\ flips' = flips + 1
    /\ up' = [up EXCEPT ![b] = ~@]
    /\ call' = [c \in Caller |->
          IF call[c].pc = "idle" THEN call[c]
          ELSE [call[c] EXCEPT !.quiet = FALSE,
                               !.seen = IF up[b] THEN @ ELSE @ \cup {b},
                               !.throughout = @ \ {b}]]
    /\ waited' = [x \in Member |-> 0]
    /\ UNCHANGED <<algo, stack, conns, counter, current, ewma, ring>>

BalNext ==
    \/ \E c \in Caller : Eligible(c) \/ Delegate(c) \/ Snapshot(c) \/ Pick(c)
    \/ \E c \in Caller, k \in Key \cup {NoKey} : Begin(c, k)
    \/ \E b \in Member : Release(b) \/ Flip(b)
    \/ \E b \in Member, d \in Samples : ObserveLatency(b, d)

BalSpec == BalInit /\ [][BalNext]_balVars

-----------------------------------------------------------------------------
\* The step in which call c returns backend b.
Returns(c, b) == call[c].pc # "idle" /\ call'[c].pc = "idle" /\ conns'[b] > conns[b]


\* The rotating algorithms starve nobody. While the healthy set stays as it
\* is, a backend with a positive weight is selected again within a few rounds:
\* its own, one the wrap of the 32-bit counter may cost, and one for each
\* selection that still works on a snapshot from before the set changed.
Round == IF algo = "round_robin" THEN Len(Order) - 1 ELSE SumOver(Order, AtLeastOne)
NobodyStarves ==
    algo \in Rotating => \A b \in Member : algo # "weighted" \/ Weight[b] > 0 =>
        waited[b] <= (2 + Cardinality(Caller)) * Round

\* In a selection no health change disturbs, the stack keeps what each of its
\* wrappers keeps, outermost first (wrappers.go selectFrom, pickFrom).
Narrowed(pool) == FoldLeft(LAMBDA p, w : EligibleFrom(w, p), pool, stack)
NarrowingComposes ==
    [][\A c \in Caller, b \in Member : Returns(c, b) /\ call[c].quiet =>
          b \in ToSet(Narrowed(SelectSeq(Order, LAMBDA x : x \in call[c].throughout)))]_balVars


\* PriorityTiers ("falling through to higher (backup) tiers only when every
\* lower tier is empty"): a selection does not return a backend of one tier
\* while one of a lower tier was healthy during the whole selection.
BackupOnlyWhenNeeded ==
    [][\A c \in Caller, b \in Member :
          Returns(c, b) /\ (\E i \in DOMAIN stack : stack[i] = "tiers")
             => \A o \in call[c].throughout : Tier[b] <= Tier[o]]_balVars
=============================================================================
