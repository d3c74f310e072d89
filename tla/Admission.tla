------------------------------ MODULE Admission -----------------------------
(***************************************************************************)
(* The admission gate (internal/middleware/admission.go): at most          *)
(* maxRequests requests run behind it, and up to maxQueue more wait, each  *)
(* for at most queueTimeout. The gate is a buffered channel (sem) and an   *)
(* atomic counter (queued). A Go channel hands a freed place straight to   *)
(* the sender that has waited longest, so waiters are a FIFO sequence.     *)
(*                                                                         *)
(* maxQueue = 0 also stands for queueTimeout <= 0: both disable the queue. *)
(* maxRequests <= 0, which disables the gate, is not modelled.             *)
(***************************************************************************)
EXTENDS Integers, FiniteSets, SequencesExt

CONSTANTS Request, maxRequests, maxQueue

ASSUME GateAssumption ==
    /\ IsFiniteSet(Request)
    /\ maxRequests \in Nat \ {0}
    /\ maxQueue \in Nat

VARIABLES
    sem,      \* places taken in the channel
    waiters,  \* requests blocked on the channel, in order
    queued,   \* the counter of the slow path
    pc        \* where each request is

vars == <<sem, waiters, queued, pc>>

(***************************************************************************)
(* "enqueue": found the channel full; "fast", "slow": running, having      *)
(* passed straight or through the queue; "leave": about to run its         *)
(* deferred queued.Add(-1).                                                *)
(***************************************************************************)
TypeOK ==
    /\ sem \in 0..maxRequests
    /\ waiters \in Seq(Request)
    /\ queued \in 0..Cardinality(Request)
    /\ pc \in [Request -> {"idle", "enqueue", "wait", "fast", "slow", "leave"}]

At(where) == {q \in Request : pc[q] \in where}
Running == At({"fast", "slow"})

Init ==
    /\ sem = 0
    /\ waiters = <<>>
    /\ queued = 0
    /\ pc = [q \in Request |-> "idle"]

-----------------------------------------------------------------------------
\* Fast path: a free place is taken at once.
Enter(q) ==
    /\ pc[q] = "idle"
    /\ sem < maxRequests
    /\ sem' = sem + 1
    /\ pc' = [pc EXCEPT ![q] = "fast"]
    /\ UNCHANGED <<waiters, queued>>

\* No free place. Without a queue the request is answered 503 and is gone.
FindFull(q) ==
    /\ pc[q] = "idle"
    /\ sem = maxRequests
    /\ pc' = [pc EXCEPT ![q] = IF maxQueue = 0 THEN "idle" ELSE "enqueue"]
    /\ UNCHANGED <<sem, waiters, queued>>

\* Mutant: the limit is off by one.
EnqueueOneMore(q) ==
    /\ pc[q] = "enqueue"
    /\ queued' = queued + 1
    /\ pc' = [pc EXCEPT ![q] = IF queued' <= maxQueue + 1 THEN "wait" ELSE "leave"]
    /\ UNCHANGED <<sem, waiters>>

\* queued.Add(1), and the 503 "request queue full" of a request over the limit.
Enqueue(q) ==
    /\ pc[q] = "enqueue"
    /\ queued' = queued + 1
    /\ pc' = [pc EXCEPT ![q] = IF queued' <= maxQueue THEN "wait" ELSE "leave"]
    /\ UNCHANGED <<sem, waiters>>

\* The second select: a place may have come free meanwhile; otherwise block.
Select(q) ==
    /\ pc[q] = "wait"
    /\ q \notin ToSet(waiters)
    /\ IF sem < maxRequests
       THEN /\ sem' = sem + 1
            /\ pc' = [pc EXCEPT ![q] = "slow"]
            /\ UNCHANGED waiters
       ELSE /\ waiters' = Append(waiters, q)
            /\ UNCHANGED <<sem, pc>>
    /\ UNCHANGED queued

\* The timer fires (503) or the client goes away.
GiveUp(q) ==
    /\ pc[q] = "wait"
    /\ \/ q \notin ToSet(waiters) /\ UNCHANGED waiters
       \/ \E i \in DOMAIN waiters : waiters[i] = q /\ waiters' = RemoveAt(waiters, i)
    /\ pc' = [pc EXCEPT ![q] = "leave"]
    /\ UNCHANGED <<sem, queued>>

\* Mutant: the place is given back to nobody in particular.
ReleaseNoHandOff(q) ==
    /\ q \in Running
    /\ sem' = sem - 1
    /\ pc' = [pc EXCEPT ![q] = IF @ = "slow" THEN "leave" ELSE "idle"]
    /\ UNCHANGED <<waiters, queued>>

\* The handler returns or panics: the deferred <-sem runs, and the channel
\* passes the place on to the first waiter, if there is one.
Release(q) ==
    /\ q \in Running
    /\ LET done == [pc EXCEPT ![q] = IF @ = "slow" THEN "leave" ELSE "idle"]
       IN IF waiters = <<>>
          THEN /\ sem' = sem - 1
               /\ pc' = done
               /\ UNCHANGED waiters
          ELSE /\ waiters' = Tail(waiters)
               /\ pc' = [done EXCEPT ![Head(waiters)] = "slow"]
               /\ UNCHANGED sem
    /\ UNCHANGED queued

\* The deferred queued.Add(-1).
Leave(q) ==
    /\ pc[q] = "leave"
    /\ queued' = queued - 1
    /\ pc' = [pc EXCEPT ![q] = "idle"]
    /\ UNCHANGED <<sem, waiters>>

Step(q) == Enqueue(q) \/ Select(q) \/ Release(q) \/ Leave(q)

Next == \E q \in Request : Enter(q) \/ FindFull(q) \/ GiveUp(q) \/ Step(q)

Spec == Init /\ [][Next]_vars

\* Handlers return and code runs on. Nothing is assumed of clients, and no
\* timer needs to fire.
FairSpec == Spec /\ \A q \in Request : WF_vars(Step(q))

-----------------------------------------------------------------------------
(***************************************************************************)
(* "limits concurrent in-flight requests to maxRequests": every running    *)
(* handler holds one place of the channel, so never more run at once, and  *)
(* no place is lost however requests leave.                                *)
(***************************************************************************)
PlacesHeld == sem = Cardinality(Running)

(***************************************************************************)
(* Nobody waits while a place is free, and a newcomer on the fast path     *)
(* never overtakes the queue.                                              *)
(***************************************************************************)
NoIdlePlace == waiters # <<>> => sem = maxRequests

(***************************************************************************)
(* The queue is never deeper than maxQueue, although the counter that      *)
(* bounds it is read and written outside any lock.                         *)
(***************************************************************************)
QueueBound == Cardinality(At({"wait"})) <= maxQueue

(***************************************************************************)
(* Every request that entered the gate gets out of it, even one whose      *)
(* queueTimeout never fires: a freed place always finds the next waiter.   *)
(***************************************************************************)
EveryoneLeaves == \A q \in Request : (pc[q] # "idle") ~> (pc[q] = "idle")

(***************************************************************************)
(* "queue the request up to maxQueue deep" (admission.go:13): a request is *)
(* turned away as "request queue full" only when maxQueue others wait.     *)
(***************************************************************************)
FullMeansFull ==
    [][\A q \in Request : (pc[q] = "enqueue" /\ pc'[q] = "leave") =>
            Cardinality(At({"wait"})) >= maxQueue]_vars
=============================================================================
