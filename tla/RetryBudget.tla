---------------------------- MODULE RetryBudget -----------------------------
(***************************************************************************)
(* The retry budget (allowRetry and attemptBackend in                      *)
(* internal/proxy/proxy.go): two atomic counters of the process, read one  *)
(* after the other by every request that wants to retry, and incremented   *)
(* later. A Budget of zero or less turns it off and is not modelled; the   *)
(* ratio is in percent, and compared as an integer product.                *)
(***************************************************************************)
EXTENDS Integers, FiniteSets

CONSTANTS
    Caller,       \* goroutines in attemptBackend
    Floor,        \* retryBudgetFloor
    Budget,       \* RetryConfig.Budget, in percent
    MaxAttempts,  \* RetryConfig.MaxAttempts
    MaxReqs       \* bound: calls of attemptBackend

ASSUME BudgetAssumption ==
    /\ IsFiniteSet(Caller)
    /\ Floor \in Nat \ {0} /\ Budget \in Nat \ {0}
    /\ MaxAttempts \in Nat /\ MaxReqs \in Nat

VARIABLES
    retryReqs,   \* Proxy.retryReqs
    retryCount,  \* Proxy.retryCount
    at,          \* where each caller is
    left,        \* the attempts it has left
    seen         \* the value of retryCount that allowRetry loaded

retryVars == <<retryReqs, retryCount, at, left, seen>>

RetryInit ==
    /\ retryReqs = 0 /\ retryCount = 0
    /\ at = [c \in Caller |-> "idle"]
    /\ left = [c \in Caller |-> 0]
    /\ seen = [c \in Caller |-> 0]

\* attemptBackend begins; only an idempotent request has retries.
BeginAttempts(c, retries) ==
    /\ at[c] = "idle" /\ retryReqs < MaxReqs
    /\ retryReqs' = retryReqs + 1
    /\ at' = [at EXCEPT ![c] = "trying"]
    /\ left' = [left EXCEPT ![c] = retries]
    /\ UNCHANGED <<retryCount, seen>>

\* doRequest succeeds, or fails in a way that ends attemptBackend.
EndAttempts(c) ==
    /\ at[c] = "trying"
    /\ at' = [at EXCEPT ![c] = "idle"]
    /\ UNCHANGED <<retryReqs, retryCount, left, seen>>

\* doRequest fails and allowRetry loads retryCount.
LoadRetries(c) ==
    /\ at[c] = "trying" /\ left[c] > 0
    /\ seen' = [seen EXCEPT ![c] = retryCount]
    /\ at' = [at EXCEPT ![c] = IF retryCount < Floor THEN "granted" ELSE "compare"]
    /\ UNCHANGED <<retryReqs, retryCount, left>>

\* Mutant: the ratio may reach the budget and still be passed.
LoadReqsLoose(c) ==
    /\ at[c] = "compare"
    /\ at' = [at EXCEPT ![c] = IF retryReqs = 0 \/ seen[c] * 100 <= Budget * retryReqs THEN "granted" ELSE "idle"]
    /\ UNCHANGED <<retryReqs, retryCount, left, seen>>

\* ... then retryReqs, and compares; a refusal ends attemptBackend.
LoadReqs(c) ==
    /\ at[c] = "compare"
    /\ at' = [at EXCEPT ![c] = IF retryReqs = 0 \/ seen[c] * 100 < Budget * retryReqs THEN "granted" ELSE "idle"]
    /\ UNCHANGED <<retryReqs, retryCount, left, seen>>

\* The retry is counted and made.
CountRetry(c) ==
    /\ at[c] = "granted"
    /\ retryCount' = retryCount + 1
    /\ left' = [left EXCEPT ![c] = @ - 1]
    /\ at' = [at EXCEPT ![c] = "trying"]
    /\ UNCHANGED <<retryReqs, seen>>

RetryNext ==
    \E c \in Caller : \/ \E n \in {0, MaxAttempts} : BeginAttempts(c, n)
                      \/ EndAttempts(c) \/ LoadRetries(c) \/ LoadReqs(c) \/ CountRetry(c)

RetrySpec == RetryInit /\ [][RetryNext]_retryVars

-----------------------------------------------------------------------------
RetryTypeOK ==
    /\ retryReqs \in Nat /\ retryCount \in Nat
    /\ at \in [Caller -> {"idle", "trying", "compare", "granted"}]
    /\ left \in [Caller -> Int] /\ seen \in [Caller -> Nat]

Allowed(r) == r < Floor \/ r * 100 < Budget * retryReqs

\* "A retry is permitted only while retryCount/retryReqs stays within Budget,
\* with a small constant floor": callers that passed on stale counts exceed
\* the budget together by less than one retry each, however long they stood
\* between the two loads and the increment.
BudgetHolds == Allowed(retryCount - Cardinality(Caller))

(***************************************************************************)
(* Why it holds. Past a count b that the budget does not allow, only a     *)
(* caller that loaded less than b still passes, and only once: the retries *)
(* made and the callers that may yet pass stay below b plus one each.      *)
(***************************************************************************)
Late(b) == {c \in Caller : at[c] \in {"compare", "granted"} /\ seen[c] < b}
RetryInv ==
    /\ RetryTypeOK
    /\ \A c \in Caller : /\ at[c] # "idle" => retryReqs > 0
                         /\ at[c] = "granted" => Allowed(seen[c])
    /\ \A b \in Nat : ~Allowed(b) /\ retryCount >= b =>
          retryCount + Cardinality(Late(b)) <= b + Cardinality(Caller) - 1
=============================================================================
