-------------------------- MODULE AdmissionProofs ---------------------------
(***************************************************************************)
(* The admission gate for any number of requests, places and queue depth:  *)
(* no place is lost or taken twice, none stays free while somebody waits,  *)
(* and the queue keeps its bound.                                          *)
(***************************************************************************)
EXTENDS Admission, FiniteSetTheorems, SequenceTheorems, TLAPS

PC == {"idle", "enqueue", "wait", "fast", "slow", "leave"}

\* The requests that f puts at one of the points in W; At(W) is Where(pc, W).
Where(f, W) == {q \in Request : f[q] \in W}
Count(f, W) == Cardinality(Where(f, W))

Run == {"fast", "slow"}              \* requests with a place
Slow == {"wait", "slow", "leave"}    \* requests on the slow path

\* How the gate's counts change when only q moves, from f[q] to g[q].
Hit(w, W) == IF w \in W THEN 1 ELSE 0
Recount(f, g, q) ==
    /\ Count(f, Run) \in Nat /\ Count(f, Slow) \in Nat /\ Count(f, {"wait"}) \in Nat
    /\ Count(g, Run) = Count(f, Run) + Hit(g[q], Run) - Hit(f[q], Run)
    /\ Count(g, Slow) = Count(f, Slow) + Hit(g[q], Slow) - Hit(f[q], Slow)
    /\ Count(g, {"wait"}) = Count(f, {"wait"}) + Hit(g[q], {"wait"}) - Hit(f[q], {"wait"})

(***************************************************************************)
(* What makes the bounds inductive: the blocked senders of the channel are *)
(* waiting requests, each blocked once, and the counter of the slow path   *)
(* counts exactly the requests between its Add(1) and its deferred         *)
(* Add(-1).                                                                *)
(***************************************************************************)
GateInv ==
    /\ TypeOK
    /\ PlacesHeld /\ NoIdlePlace /\ QueueBound
    /\ \A i \in DOMAIN waiters : pc[waiters[i]] = "wait"
    /\ \A i, j \in DOMAIN waiters : waiters[i] = waiters[j] => i = j
    /\ queued = Cardinality(At({"wait", "slow", "leave"}))

\* One request moves from one point to another: how the counts change.
LEMMA OneMoves ==
    ASSUME NEW f \in [Request -> PC], NEW g \in [Request -> PC], NEW q \in Request, NEW W,
           \A p \in Request : p # q => g[p] = f[p]
    PROVE  /\ Cardinality(Where(f, W)) \in Nat
           /\ Cardinality(Where(g, W)) =
                 Cardinality(Where(f, W)) + (IF g[q] \in W THEN 1 ELSE 0) - (IF f[q] \in W THEN 1 ELSE 0)
<1> DEFINE S == Where(f, W)
           T == Where(g, W)
<1>1. IsFiniteSet(S)
  BY GateAssumption, FS_Subset DEF Where
<1>2. Cardinality(S) \in Nat
  BY <1>1, FS_CardinalityType
<1>3. CASE g[q] \in W /\ f[q] \in W
  <2>1. T = S
    BY <1>3 DEF Where
  <2>2. QED
    BY <1>2, <1>3, <2>1
<1>4. CASE g[q] \in W /\ f[q] \notin W
  <2>1. T = S \cup {q} /\ q \notin S
    BY <1>4 DEF Where
  <2>2. Cardinality(T) = Cardinality(S) + 1
    BY <1>1, <2>1, FS_AddElement
  <2>3. QED
    BY <1>2, <1>4, <2>2
<1>5. CASE g[q] \notin W /\ f[q] \in W
  <2>1. T = S \ {q} /\ q \in S
    BY <1>5 DEF Where
  <2>2. Cardinality(T) = Cardinality(S) - 1
    BY <1>1, <2>1, FS_RemoveElement
  <2>3. QED
    BY <1>2, <1>5, <2>2
<1>6. CASE g[q] \notin W /\ f[q] \notin W
  <2>1. T = S
    BY <1>6 DEF Where
  <2>2. QED
    BY <1>2, <1>6, <2>1
<1>7. QED
  BY <1>3, <1>4, <1>5, <1>6

\* ... for the three counts that the gate's bounds are about.
LEMMA CountsMove ==
    ASSUME NEW f \in [Request -> PC], NEW g \in [Request -> PC], NEW q \in Request,
           \A p \in Request : p # q => g[p] = f[p]
    PROVE  Recount(f, g, q)
<1>1. ASSUME NEW W PROVE /\ Count(f, W) \in Nat
                         /\ Count(g, W) = Count(f, W) + Hit(g[q], W) - Hit(f[q], W)
  BY OneMoves DEF Count, Hit
<1>2. QED
  BY <1>1 DEF Recount

\* There are never more requests at some points than there are requests.
LEMMA WhereBound ==
    ASSUME NEW f \in [Request -> PC], NEW W
    PROVE  /\ Cardinality(Where(f, W)) \in 0..Cardinality(Request)
           /\ \A V : V \subseteq W => Cardinality(Where(f, V)) <= Cardinality(Where(f, W))
<1>1. \A V : IsFiniteSet(Where(f, V)) /\ Cardinality(Where(f, V)) \in Nat
  BY GateAssumption, FS_Subset, FS_CardinalityType DEF Where
<1>2. Cardinality(Where(f, W)) <= Cardinality(Request) /\ Cardinality(Request) \in Nat
  BY GateAssumption, FS_Subset, FS_CardinalityType DEF Where
<1>3. ASSUME NEW V, V \subseteq W PROVE Cardinality(Where(f, V)) <= Cardinality(Where(f, W))
  <2>1. Where(f, V) \subseteq Where(f, W)
    BY <1>3 DEF Where
  <2>2. QED
    BY <1>1, <2>1, FS_Subset
<1>4. QED
  BY <1>1, <1>2, <1>3

\* A blocked sender that gives up leaves the others blocked, each once.
LEMMA Unblocked ==
    ASSUME NEW s \in Seq(Request), NEW i \in DOMAIN s,
           \A j, k \in DOMAIN s : s[j] = s[k] => j = k
    PROVE  /\ RemoveAt(s, i) \in Seq(Request)
           /\ Len(RemoveAt(s, i)) = Len(s) - 1
           /\ \A j \in DOMAIN RemoveAt(s, i) :
                 RemoveAt(s, i)[j] = (IF j < i THEN s[j] ELSE s[j + 1])
<1>1. i \in 1..Len(s)
  OBVIOUS
<1>2. SubSeq(s, 1, i - 1) \in Seq(Request) /\ Len(SubSeq(s, 1, i - 1)) = i - 1
  BY <1>1
<1>3. SubSeq(s, i + 1, Len(s)) \in Seq(Request) /\ Len(SubSeq(s, i + 1, Len(s))) = Len(s) - i
  BY <1>1
<1>4. /\ \A j \in 1..(i - 1) : SubSeq(s, 1, i - 1)[j] = s[j]
      /\ \A j \in 1..(Len(s) - i) : SubSeq(s, i + 1, Len(s))[j] = s[i + j]
  BY <1>1
<1> DEFINE a == SubSeq(s, 1, i - 1)
           b == SubSeq(s, i + 1, Len(s))
<1>5. RemoveAt(s, i) = a \o b
  BY DEF RemoveAt
<1>6. a \in Seq(Request) /\ b \in Seq(Request) /\ Len(a) = i - 1 /\ Len(b) = Len(s) - i
  BY <1>2, <1>3
<1>7. a \o b \in Seq(Request) /\ Len(a \o b) = Len(s) - 1
  <2> HIDE DEF a, b
  <2>1. QED
    BY <1>1, <1>6
<1>8. \A j \in 1..(Len(s) - 1) : (a \o b)[j] = IF j < i THEN a[j] ELSE b[j - (i - 1)]
  <2> HIDE DEF a, b
  <2>1. QED
    BY <1>1, <1>6, ConcatProperties
<1>9. ASSUME NEW j \in 1..(Len(s) - 1) PROVE (a \o b)[j] = IF j < i THEN s[j] ELSE s[j + 1]
  <2>1. CASE j < i
    BY <1>1, <1>4, <1>8, <2>1
  <2>2. CASE ~(j < i)
    <3>1. j - (i - 1) \in 1..(Len(s) - i) /\ i + (j - (i - 1)) = j + 1
      BY <1>1, <2>2
    <3>2. QED
      BY <1>4, <1>8, <2>2, <3>1
  <2>3. QED
    BY <2>1, <2>2
<1>10. QED
  <2> HIDE DEF a, b
  <2>1. DOMAIN (a \o b) = 1..(Len(s) - 1)
    BY <1>7
  <2>2. QED
    BY <1>5, <1>7, <1>9, <2>1

-----------------------------------------------------------------------------
\* The gate's invariant, in terms of where the requests are.
LEMMA GateCounts ==
    /\ Running = Where(pc, {"fast", "slow"})
    /\ \A W : At(W) = Where(pc, W)
    /\ Running' = Where(pc', {"fast", "slow"})
    /\ \A W : At(W)' = Where(pc', W)
BY DEF Running, At, Where

\* A step that moves one request and leaves the channel's blocked senders
\* alone keeps the facts about them, unless it moves one of them.
LEMMA SendersStay ==
    ASSUME GateInv, NEW q \in Request, NEW w \in PC, pc[q] # "wait" \/ w = "wait",
           pc' = [pc EXCEPT ![q] = w], waiters' = waiters
    PROVE  /\ \A i \in DOMAIN waiters' : pc'[waiters'[i]] = "wait"
           /\ \A i, j \in DOMAIN waiters' : waiters'[i] = waiters'[j] => i = j
<1>1. waiters \in Seq(Request) /\ pc \in [Request -> PC]
  BY DEF GateInv, TypeOK, PC
<1>2. \A i \in DOMAIN waiters : waiters[i] \in Request
  BY <1>1
<1>3. QED
  BY <1>1, <1>2 DEF GateInv

\* Every action of the gate preserves its invariant.
LEMMA GateStep ==
    ASSUME GateInv, [Next]_vars
    PROVE  GateInv'
<1>0. /\ waiters \in Seq(Request) /\ pc \in [Request -> PC] /\ sem \in 0..maxRequests
      /\ maxRequests \in Nat \ {0} /\ maxQueue \in Nat /\ queued \in Nat
  <2>1. Cardinality(Request) \in Nat
    BY GateAssumption, FS_CardinalityType
  <2>2. QED
    BY <2>1, GateAssumption DEF GateInv, TypeOK, PC
<1> DEFINE Senders == /\ \A i \in DOMAIN waiters : pc[waiters[i]] = "wait"
                      /\ \A i, j \in DOMAIN waiters : waiters[i] = waiters[j] => i = j
<1>a. sem = Count(pc, Run) /\ queued = Count(pc, Slow) /\ Count(pc, {"wait"}) <= maxQueue
  BY GateCounts DEF GateInv, PlacesHeld, QueueBound, Count, Run, Slow
<1>b. ASSUME pc' \in [Request -> PC], waiters' \in Seq(Request), sem' \in 0..maxRequests,
             sem' = Count(pc', Run), queued' = Count(pc', Slow), Count(pc', {"wait"}) <= maxQueue,
             waiters' # <<>> => sem' = maxRequests, Senders'
      PROVE  GateInv'
  <2>1. queued' \in 0..Cardinality(Request)
    BY <1>b, WhereBound DEF Count
  <2>2. TypeOK'
    BY <1>b, <2>1 DEF TypeOK, PC
  <2>3. PlacesHeld' /\ NoIdlePlace' /\ QueueBound' /\ queued' = Cardinality(At(Slow)')
    BY <1>b, GateCounts DEF PlacesHeld, NoIdlePlace, QueueBound, Count, Run, Slow
  <2>4. QED
    BY <1>b, <2>2, <2>3 DEF GateInv, Slow
<1>1. CASE UNCHANGED vars
  BY <1>0, <1>1, <1>a, <1>b DEF vars, GateInv, NoIdlePlace
<1>2. ASSUME NEW q \in Request, Enter(q) PROVE GateInv'
  <2>1. /\ pc[q] = "idle" /\ pc' = [pc EXCEPT ![q] = "fast"] /\ sem < maxRequests
        /\ sem' = sem + 1 /\ waiters' = waiters /\ queued' = queued
    BY <1>2 DEF Enter
  <2>p. /\ pc' \in [Request -> PC] /\ \A p \in Request : p # q => pc'[p] = pc[p]
        /\ pc[q] = "idle" /\ pc'[q] = "fast"
    BY <1>0, <2>1 DEF PC
  <2>2. /\ Count(pc', Run) = Count(pc, Run) + 1 /\ Count(pc', Slow) = Count(pc, Slow)
        /\ Count(pc', {"wait"}) = Count(pc, {"wait"}) /\ Count(pc, Run) \in Nat
        /\ Count(pc, Slow) \in Nat /\ Count(pc, {"wait"}) \in Nat
    <3>1. Recount(pc, pc', q)
      BY <1>0, <2>p, CountsMove
    <3>2. QED
      BY <2>p, <3>1 DEF Recount, Hit, Run, Slow
  <2>3. Senders'
    BY <2>1, SendersStay DEF PC
  <2>4. QED
    BY <1>0, <1>a, <1>b, <2>1, <2>2, <2>3 DEF GateInv, NoIdlePlace, PC
<1>3. ASSUME NEW q \in Request, FindFull(q) PROVE GateInv'
  <2> DEFINE w == IF maxQueue = 0 THEN "idle" ELSE "enqueue"
  <2>1. /\ pc[q] = "idle" /\ pc' = [pc EXCEPT ![q] = w] /\ w \in {"idle", "enqueue"}
        /\ sem' = sem /\ waiters' = waiters /\ queued' = queued
    BY <1>3 DEF FindFull
  <2>p. /\ pc' \in [Request -> PC] /\ \A p \in Request : p # q => pc'[p] = pc[p]
        /\ pc[q] = "idle" /\ pc'[q] \in {"idle", "enqueue"}
    BY <1>0, <2>1 DEF PC
  <2>2. /\ Count(pc', Run) = Count(pc, Run) /\ Count(pc', Slow) = Count(pc, Slow)
        /\ Count(pc', {"wait"}) = Count(pc, {"wait"}) /\ Count(pc, Run) \in Nat
        /\ Count(pc, Slow) \in Nat /\ Count(pc, {"wait"}) \in Nat
    <3>1. Recount(pc, pc', q)
      BY <1>0, <2>p, CountsMove
    <3>2. QED
      BY <2>p, <3>1 DEF Recount, Hit, Run, Slow
  <2>3. Senders'
    BY <2>1, SendersStay DEF PC
  <2>4. QED
    BY <1>0, <1>a, <1>b, <2>1, <2>2, <2>3 DEF GateInv, NoIdlePlace, PC
<1>4. ASSUME NEW q \in Request, Enqueue(q) PROVE GateInv'
  <2> DEFINE w == IF queued + 1 <= maxQueue THEN "wait" ELSE "leave"
  <2>1. /\ pc[q] = "enqueue" /\ pc' = [pc EXCEPT ![q] = w] /\ w \in {"wait", "leave"}
        /\ sem' = sem /\ waiters' = waiters /\ queued' = queued + 1
    BY <1>4 DEF Enqueue
  <2>p. /\ pc' \in [Request -> PC] /\ \A p \in Request : p # q => pc'[p] = pc[p]
        /\ pc[q] = "enqueue" /\ pc'[q] = w /\ w \in {"wait", "leave"}
    BY <1>0, <2>1 DEF PC
  <2>2. /\ Count(pc', Run) = Count(pc, Run) /\ Count(pc', Slow) = Count(pc, Slow) + 1
        /\ Count(pc', {"wait"}) = Count(pc, {"wait"}) + (IF w = "wait" THEN 1 ELSE 0) /\ Count(pc, Run) \in Nat
        /\ Count(pc, Slow) \in Nat /\ Count(pc, {"wait"}) \in Nat
    <3>1. Recount(pc, pc', q)
      BY <1>0, <2>p, CountsMove
    <3>2. QED
      BY <2>p, <3>1 DEF Recount, Hit, Run, Slow
  <2>3. Senders'
    BY <2>1, SendersStay DEF PC
  <2>4. Count(pc, {"wait"}) <= queued
    BY <1>0, <1>a, WhereBound DEF Count, Slow
  <2>5. Count(pc', {"wait"}) <= maxQueue
    BY <1>0, <1>a, <2>2, <2>4
  <2>6. QED
    BY <1>0, <1>a, <1>b, <2>1, <2>2, <2>3, <2>5 DEF GateInv, NoIdlePlace, PC
<1>5. ASSUME NEW q \in Request, Select(q) PROVE GateInv'
  <2>0. pc[q] = "wait" /\ queued' = queued /\ \A i \in DOMAIN waiters : waiters[i] # q
    BY <1>5 DEF Select, ToSet
  <2>1. CASE sem < maxRequests
    <3>1. /\ pc' = [pc EXCEPT ![q] = "slow"] /\ sem' = sem + 1 /\ waiters' = waiters
      BY <1>5, <2>1 DEF Select
    <3>p. /\ pc' \in [Request -> PC] /\ \A p \in Request : p # q => pc'[p] = pc[p]
          /\ pc[q] = "wait" /\ pc'[q] = "slow"
      BY <1>0, <2>0, <3>1 DEF PC
    <3>2. /\ Count(pc', Run) = Count(pc, Run) + 1 /\ Count(pc', Slow) = Count(pc, Slow)
          /\ Count(pc', {"wait"}) = Count(pc, {"wait"}) - 1 /\ Count(pc, Run) \in Nat
          /\ Count(pc, Slow) \in Nat /\ Count(pc, {"wait"}) \in Nat
      <4>1. Recount(pc, pc', q)
        BY <1>0, <3>p, CountsMove
      <4>2. QED
        BY <3>p, <4>1 DEF Recount, Hit, Run, Slow
    <3>3. waiters = <<>>
      BY <1>0, <2>1 DEF GateInv, NoIdlePlace
    <3>4. Senders'
      BY <3>1, <3>3
    <3>5. QED
      BY <1>0, <1>a, <1>b, <2>0, <2>1, <3>1, <3>2, <3>3, <3>4 DEF PC
  <2>2. CASE ~(sem < maxRequests)
    <3>1. pc' = pc /\ sem' = sem /\ waiters' = Append(waiters, q)
      BY <1>5, <2>2 DEF Select
    <3>2. waiters' \in Seq(Request)
      BY <1>0, <3>1
    <3>3. Senders'
      BY <1>0, <2>0, <3>1 DEF GateInv
    <3>4. sem' = maxRequests
      BY <1>0, <2>2, <3>1
    <3>5. QED
      BY <1>0, <1>a, <1>b, <2>0, <3>1, <3>2, <3>3, <3>4
  <2>3. QED
    BY <2>1, <2>2
<1>6. ASSUME NEW q \in Request, GiveUp(q) PROVE GateInv'
  <2>1. /\ pc[q] = "wait" /\ pc' = [pc EXCEPT ![q] = "leave"] /\ sem' = sem /\ queued' = queued
    BY <1>6 DEF GiveUp
  <2>p. /\ pc' \in [Request -> PC] /\ \A p \in Request : p # q => pc'[p] = pc[p]
        /\ pc[q] = "wait" /\ pc'[q] = "leave"
    BY <1>0, <2>1 DEF PC
  <2>2. /\ Count(pc', Run) = Count(pc, Run) /\ Count(pc', Slow) = Count(pc, Slow)
        /\ Count(pc', {"wait"}) = Count(pc, {"wait"}) - 1 /\ Count(pc, Run) \in Nat
        /\ Count(pc, Slow) \in Nat /\ Count(pc, {"wait"}) \in Nat
    <3>1. Recount(pc, pc', q)
      BY <1>0, <2>p, CountsMove
    <3>2. QED
      BY <2>p, <3>1 DEF Recount, Hit, Run, Slow
  <2>3. \A i \in DOMAIN waiters : waiters[i] \in Request /\ pc[waiters[i]] = "wait"
    BY <1>0 DEF GateInv
  <2>4. waiters' \in Seq(Request) /\ (waiters' # <<>> => waiters # <<>>) /\ Senders'
    <3>1. CASE q \notin ToSet(waiters) /\ waiters' = waiters
      BY <1>0, <2>1, <2>3, <3>1 DEF ToSet, GateInv
    <3>2. ASSUME NEW i \in DOMAIN waiters, waiters[i] = q, waiters' = RemoveAt(waiters, i)
          PROVE  waiters' \in Seq(Request) /\ (waiters' # <<>> => waiters # <<>>) /\ Senders'
      <4>1. /\ waiters' \in Seq(Request) /\ Len(waiters') = Len(waiters) - 1
            /\ \A j \in DOMAIN waiters' : waiters'[j] = (IF j < i THEN waiters[j] ELSE waiters[j + 1])
        BY <1>0, <3>2, Unblocked DEF GateInv
      <4>2. DOMAIN waiters' = 1..(Len(waiters) - 1) /\ i \in 1..Len(waiters) /\ Len(waiters) \in Nat
        BY <1>0, <4>1
      <4>3. \A j, k \in 1..Len(waiters) : waiters[j] = waiters[k] => j = k
        BY <1>0 DEF GateInv
      <4>4. \A j, k \in DOMAIN waiters' : waiters'[j] = waiters'[k] => j = k
        BY <4>1, <4>2, <4>3
      <4>5. \A j \in DOMAIN waiters' : pc'[waiters'[j]] = "wait"
        <5>1. SUFFICES ASSUME NEW j \in DOMAIN waiters' PROVE pc'[waiters'[j]] = "wait"
          OBVIOUS
        <5>2. PICK k \in 1..Len(waiters) : waiters'[j] = waiters[k] /\ k # i
          BY <4>1, <4>2
        <5>3. waiters[k] # q /\ waiters[k] \in Request /\ pc[waiters[k]] = "wait"
          BY <1>0, <2>3, <3>2, <4>2, <4>3, <5>2
        <5>4. QED
          BY <1>0, <2>1, <5>2, <5>3
      <4>6. waiters' # <<>> => waiters # <<>>
        BY <3>2
      <4>7. QED
        BY <4>1, <4>4, <4>5, <4>6
    <3>3. QED
      BY <1>6, <3>1, <3>2 DEF GiveUp
  <2>5. QED
    BY <1>0, <1>a, <1>b, <2>1, <2>2, <2>4 DEF GateInv, NoIdlePlace, PC
<1>7. ASSUME NEW q \in Request, Release(q) PROVE GateInv'
  <2> DEFINE w == IF pc[q] = "slow" THEN "leave" ELSE "idle"
             done == [pc EXCEPT ![q] = w]
  <2>1. pc[q] \in Run /\ queued' = queued
    BY <1>7 DEF Release, Running, At, Run
  <2>p. /\ done \in [Request -> PC] /\ \A p \in Request : p # q => done[p] = pc[p]
        /\ pc[q] \in Run /\ done[q] = w
    BY <1>0, <2>1 DEF PC
  <2>w. w = IF pc[q] = "slow" THEN "leave" ELSE "idle"
    OBVIOUS
  <2>2. /\ Count(done, Run) = Count(pc, Run) - 1 /\ Count(done, Slow) = Count(pc, Slow)
        /\ Count(done, {"wait"}) = Count(pc, {"wait"}) /\ Count(pc, Run) \in Nat
        /\ Count(pc, Slow) \in Nat /\ Count(pc, {"wait"}) \in Nat
    <3> HIDE DEF done, w
    <3>1. Recount(pc, done, q)
      BY <1>0, <2>p, CountsMove
    <3>2. QED
      BY <2>p, <2>w, <3>1 DEF Recount, Hit, Run, Slow
  <2>3. done \in [Request -> PC]
    BY <2>p
  <2>4. CASE waiters = <<>>
    <3>1. sem' = sem - 1 /\ pc' = done /\ waiters' = waiters
      BY <1>7, <2>4 DEF Release
    <3> HIDE DEF done
    <3>2. Count(done, Run) \in Nat
      BY <2>3, WhereBound DEF Count
    <3>3. sem' \in 0..maxRequests /\ sem' = Count(pc', Run)
      BY <1>0, <1>a, <2>2, <3>1, <3>2
    <3>4. Senders'
      BY <2>4, <3>1
    <3>5. QED
      BY <1>0, <1>a, <1>b, <2>1, <2>2, <2>3, <2>4, <3>1, <3>3, <3>4
  <2>5. CASE waiters # <<>>
    <3> DEFINE h == Head(waiters)
    <3>1. sem' = sem /\ pc' = [done EXCEPT ![h] = "slow"] /\ waiters' = Tail(waiters)
      BY <1>7, <2>5 DEF Release
    <3>2. h = waiters[1] /\ 1 \in DOMAIN waiters /\ h \in Request
      BY <1>0, <2>5
    <3>3. pc[h] = "wait" /\ h # q /\ done[h] = "wait"
      BY <1>0, <2>1, <3>2 DEF GateInv, Run
    <3>4. /\ Count(pc', Run) = Count(done, Run) + 1 /\ Count(pc', Slow) = Count(done, Slow)
          /\ Count(pc', {"wait"}) = Count(done, {"wait"}) - 1
      <4> HIDE DEF done, h
      <4>1. pc' \in [Request -> PC] /\ pc'[h] = "slow" /\ \A p \in Request : p # h => pc'[p] = done[p]
        BY <2>3, <3>1, <3>2 DEF PC
      <4>2. Recount(done, pc', h)
        BY <2>3, <3>2, <4>1, CountsMove
      <4>3. QED
        BY <3>3, <4>1, <4>2 DEF Recount, Hit, Run, Slow
    <3>5. /\ waiters' \in Seq(Request) /\ Len(waiters') = Len(waiters) - 1
          /\ \A i \in DOMAIN waiters' : waiters'[i] = waiters[i + 1] /\ i + 1 \in DOMAIN waiters
      BY <1>0, <2>5, <3>1
    <3>6. \A i, j \in DOMAIN waiters' : waiters'[i] = waiters'[j] => i = j
      BY <1>0, <3>5 DEF GateInv
    <3>7. \A i \in DOMAIN waiters' : pc'[waiters'[i]] = "wait"
      <4>1. SUFFICES ASSUME NEW i \in DOMAIN waiters' PROVE pc'[waiters'[i]] = "wait"
        OBVIOUS
      <4>2. /\ waiters[i + 1] \in Request /\ pc[waiters[i + 1]] = "wait"
            /\ waiters[i + 1] # h /\ waiters[i + 1] # q
        BY <1>0, <2>1, <3>2, <3>5 DEF GateInv, Run
      <4>3. QED
        BY <1>0, <3>1, <3>5, <4>2
    <3>8. pc' \in [Request -> PC]
      BY <2>3, <3>1 DEF PC
    <3>9. sem = maxRequests
      BY <2>5 DEF GateInv, NoIdlePlace
    <3> HIDE DEF done, h
    <3>10. QED
      BY <1>0, <1>a, <1>b, <2>1, <2>2, <3>1, <3>4, <3>5, <3>6, <3>7, <3>8, <3>9
  <2>6. QED
    BY <2>4, <2>5
<1>8. ASSUME NEW q \in Request, Leave(q) PROVE GateInv'
  <2>1. /\ pc[q] = "leave" /\ pc' = [pc EXCEPT ![q] = "idle"]
        /\ sem' = sem /\ waiters' = waiters /\ queued' = queued - 1
    BY <1>8 DEF Leave
  <2>p. /\ pc' \in [Request -> PC] /\ \A p \in Request : p # q => pc'[p] = pc[p]
        /\ pc[q] = "leave" /\ pc'[q] = "idle"
    BY <1>0, <2>1 DEF PC
  <2>2. /\ Count(pc', Run) = Count(pc, Run) /\ Count(pc', Slow) = Count(pc, Slow) - 1
        /\ Count(pc', {"wait"}) = Count(pc, {"wait"}) /\ Count(pc, Run) \in Nat
        /\ Count(pc, Slow) \in Nat /\ Count(pc, {"wait"}) \in Nat
    <3>1. Recount(pc, pc', q)
      BY <1>0, <2>p, CountsMove
    <3>2. QED
      BY <2>p, <3>1 DEF Recount, Hit, Run, Slow
  <2>3. Senders'
    BY <2>1, SendersStay DEF PC
  <2>4. QED
    BY <1>0, <1>a, <1>b, <2>1, <2>2, <2>3 DEF GateInv, NoIdlePlace, PC
<1>9. QED
  BY <1>1, <1>2, <1>3, <1>4, <1>5, <1>6, <1>7, <1>8 DEF Next, Step

\* The invariant holds from an empty gate on.
THEOREM GateInvariant == Spec => []GateInv
<1>1. Init => GateInv
  <2> SUFFICES ASSUME Init PROVE GateInv
    OBVIOUS
  <2>1. \A W : "idle" \notin W => Cardinality(At(W)) = 0
    <3>1. \A W : "idle" \notin W => At(W) = {}
      BY DEF At, Init
    <3>2. QED
      BY <3>1, FS_EmptySet
  <2>2. Cardinality(Request) \in Nat
    BY GateAssumption, FS_CardinalityType
  <2>3. TypeOK
    BY <2>2, GateAssumption DEF TypeOK, Init
  <2>4. PlacesHeld /\ QueueBound /\ queued = Cardinality(At({"wait", "slow", "leave"}))
    BY <2>1, GateAssumption DEF PlacesHeld, QueueBound, Running, Init
  <2>5. QED
    BY <2>3, <2>4 DEF GateInv, NoIdlePlace, Init
<1>2. GateInv /\ [Next]_vars => GateInv'
  BY GateStep
<1>3. QED
  BY <1>1, <1>2, PTL DEF Spec

\* The variables of the gate keep their types: in particular the semaphore is
\* never over its capacity and the counter never negative.
THEOREM GateTypes == Spec => []TypeOK
<1>1. GateInv => TypeOK
  BY DEF GateInv
<1>2. QED
  BY <1>1, GateInvariant, PTL

\* Every running handler holds exactly one place, however it was admitted and
\* however others leave: at most maxRequests run.
THEOREM GateHoldsPlaces == Spec => []PlacesHeld
<1>1. GateInv => PlacesHeld
  BY DEF GateInv
<1>2. QED
  BY <1>1, GateInvariant, PTL

\* Nobody waits beside a free place, also when a waiter gives up while a place
\* is being released.
THEOREM GateWastesNothing == Spec => []NoIdlePlace
<1>1. GateInv => NoIdlePlace
  BY DEF GateInv
<1>2. QED
  BY <1>1, GateInvariant, PTL

\* The queue is never deeper than maxQueue.
THEOREM GateBoundsQueue == Spec => []QueueBound
<1>1. GateInv => QueueBound
  BY DEF GateInv
<1>2. QED
  BY <1>1, GateInvariant, PTL
=============================================================================
