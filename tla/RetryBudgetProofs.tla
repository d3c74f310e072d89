------------------------- MODULE RetryBudgetProofs --------------------------
(***************************************************************************)
(* The retry budget holds for any number of callers, any floor, budget and *)
(* number of attempts: RetryInv is inductive and implies BudgetHolds.      *)
(***************************************************************************)
EXTENDS RetryBudget, FiniteSetTheorems, TLAPS

\* A count that the budget allows stays allowed when more requests come in:
\* the load of retryReqs in allowRetry may be as old as it likes.
LEMMA AllowedGrows ==
    ASSUME NEW r \in Int, NEW m \in Nat, NEW n \in Nat, m <= n, r * 100 < Budget * m
    PROVE  r * 100 < Budget * n
<1>1. Budget \in Nat
  BY BudgetAssumption
<1>2. PICK d \in Nat : n = m + d
  <2>1. n - m \in Nat /\ n = m + (n - m)
    OBVIOUS
  <2>2. QED
    BY <2>1
<1>3. Budget * n = Budget * m + Budget * d
  BY <1>1, <1>2
<1>4. Budget * d \in Nat /\ Budget * m \in Nat
  BY <1>1, <1>2
<1>5. QED
  BY <1>3, <1>4

\* The callers that may yet pass are finitely many, and one of them that
\* counts its retry leaves one fewer.
LEMMA LateFinite ==
    ASSUME NEW b
    PROVE  /\ IsFiniteSet(Late(b)) /\ Cardinality(Late(b)) \in Nat
           /\ Cardinality(Late(b)) <= Cardinality(Caller)
           /\ \A c \in Caller : c \notin Late(b) => Cardinality(Late(b)) <= Cardinality(Caller) - 1
<1>1. Late(b) \subseteq Caller
  BY DEF Late
<1>2. IsFiniteSet(Caller)
  BY BudgetAssumption
<1>3. IsFiniteSet(Late(b)) /\ Cardinality(Late(b)) <= Cardinality(Caller)
  BY <1>1, <1>2, FS_Subset
<1>4. Cardinality(Late(b)) \in Nat /\ Cardinality(Caller) \in Nat
  BY <1>2, <1>3, FS_CardinalityType
<1>5. ASSUME NEW c \in Caller, c \notin Late(b)
      PROVE  Cardinality(Late(b)) <= Cardinality(Caller) - 1
  <2>1. /\ IsFiniteSet(Caller \ {c})
        /\ Cardinality(Caller \ {c}) = Cardinality(Caller) - 1
    BY <1>2, FS_RemoveElement
  <2>2. Late(b) \subseteq Caller \ {c}
    BY <1>1, <1>5
  <2>3. QED
    BY <2>1, <2>2, FS_Subset
<1>6. QED
  BY <1>3, <1>4, <1>5

\* Type correctness of the budget's two counters and the callers' records.
LEMMA RetryTypeStep ==
    ASSUME RetryTypeOK, [RetryNext]_retryVars
    PROVE  RetryTypeOK'
<1> USE BudgetAssumption DEF RetryTypeOK
<1>1. CASE UNCHANGED retryVars
  BY <1>1 DEF retryVars
<1>2. ASSUME NEW c \in Caller, NEW n \in {0, MaxAttempts}, BeginAttempts(c, n) PROVE RetryTypeOK'
  BY <1>2 DEF BeginAttempts
<1>3. ASSUME NEW c \in Caller, EndAttempts(c) PROVE RetryTypeOK'
  BY <1>3 DEF EndAttempts
<1>4. ASSUME NEW c \in Caller, LoadRetries(c) PROVE RetryTypeOK'
  BY <1>4 DEF LoadRetries
<1>5. ASSUME NEW c \in Caller, LoadReqs(c) PROVE RetryTypeOK'
  <2>1. at' \in [Caller -> {"idle", "trying", "compare", "granted"}]
    BY <1>5, Zenon DEF LoadReqs
  <2>2. QED
    BY <1>5, <2>1 DEF LoadReqs
<1>6. ASSUME NEW c \in Caller, CountRetry(c) PROVE RetryTypeOK'
  BY <1>6 DEF CountRetry
<1>7. QED
  BY <1>1, <1>2, <1>3, <1>4, <1>5, <1>6 DEF RetryNext

\* A step that makes nobody late and counts nothing keeps the third conjunct
\* of RetryInv, whatever it does to retryReqs upwards.
LEMMA QuietStep ==
    ASSUME RetryInv, RetryTypeOK', retryCount' = retryCount, retryReqs' >= retryReqs,
           \A b \in Nat : retryCount >= b => Late(b)' \subseteq Late(b)
    PROVE  \A b \in Nat : ~Allowed(b)' /\ retryCount' >= b =>
              retryCount' + Cardinality(Late(b)') <= b + Cardinality(Caller) - 1
<1> SUFFICES ASSUME NEW b \in Nat, ~Allowed(b)', retryCount >= b
             PROVE  retryCount + Cardinality(Late(b)') <= b + Cardinality(Caller) - 1
  OBVIOUS
<1>1. ~Allowed(b)
  BY AllowedGrows DEF Allowed, RetryInv, RetryTypeOK
<1>2. retryCount + Cardinality(Late(b)) <= b + Cardinality(Caller) - 1
  BY <1>1 DEF RetryInv
<1>3. IsFiniteSet(Late(b)) /\ Cardinality(Late(b)) \in Nat
  BY LateFinite
<1>4. Cardinality(Late(b)') <= Cardinality(Late(b)) /\ IsFiniteSet(Late(b)')
  BY <1>3, FS_Subset
<1>5. Cardinality(Late(b)') \in Nat /\ Cardinality(Caller) \in Nat
  BY <1>4, BudgetAssumption, FS_CardinalityType
<1>6. QED
  BY <1>2, <1>3, <1>4, <1>5 DEF RetryInv, RetryTypeOK

\* allowRetry's answer: a caller that passes holds a count the budget allows,
\* and it stays allowed.
LEMMA GrantedStep ==
    ASSUME RetryInv, [RetryNext]_retryVars
    PROVE  \A c \in Caller : /\ (at[c] # "idle" => retryReqs > 0)'
                             /\ (at[c] = "granted" => Allowed(seen[c]))'
<1> USE DEF RetryInv, RetryTypeOK
<1>t. RetryTypeOK'
  BY RetryTypeStep
<1> SUFFICES ASSUME NEW c \in Caller
             PROVE  /\ at'[c] # "idle" => retryReqs' > 0
                    /\ at'[c] = "granted" => (Allowed(seen[c]))'
  OBVIOUS
<1>g. ASSUME retryReqs' >= retryReqs, at[c] # "idle", at[c] = "granted" => seen'[c] = seen[c]
      PROVE  retryReqs' > 0 /\ (at[c] = "granted" => (Allowed(seen[c]))')
  BY <1>g, <1>t, AllowedGrows DEF Allowed
<1>1. CASE UNCHANGED retryVars
  BY <1>1, <1>g DEF retryVars
<1>2. ASSUME NEW d \in Caller, NEW n \in {0, MaxAttempts}, BeginAttempts(d, n)
      PROVE  /\ at'[c] # "idle" => retryReqs' > 0
             /\ at'[c] = "granted" => (Allowed(seen[c]))'
  BY <1>2, <1>g DEF BeginAttempts
<1>3. ASSUME NEW d \in Caller, EndAttempts(d)
      PROVE  /\ at'[c] # "idle" => retryReqs' > 0
             /\ at'[c] = "granted" => (Allowed(seen[c]))'
  BY <1>3, <1>g DEF EndAttempts
<1>4. ASSUME NEW d \in Caller, LoadRetries(d)
      PROVE  /\ at'[c] # "idle" => retryReqs' > 0
             /\ at'[c] = "granted" => (Allowed(seen[c]))'
  <2>1. CASE c = d
    BY <1>4, <2>1 DEF LoadRetries, Allowed
  <2>2. CASE c # d
    BY <1>4, <1>g, <2>2 DEF LoadRetries
  <2>3. QED
    BY <2>1, <2>2
<1>5. ASSUME NEW d \in Caller, LoadReqs(d)
      PROVE  /\ at'[c] # "idle" => retryReqs' > 0
             /\ at'[c] = "granted" => (Allowed(seen[c]))'
  <2>1. CASE c = d
    BY <1>5, <2>1 DEF LoadReqs, Allowed
  <2>2. CASE c # d
    BY <1>5, <1>g, <2>2 DEF LoadReqs
  <2>3. QED
    BY <2>1, <2>2
<1>6. ASSUME NEW d \in Caller, CountRetry(d)
      PROVE  /\ at'[c] # "idle" => retryReqs' > 0
             /\ at'[c] = "granted" => (Allowed(seen[c]))'
  BY <1>6, <1>g DEF CountRetry
<1>7. QED
  BY <1>1, <1>2, <1>3, <1>4, <1>5, <1>6 DEF RetryNext

\* The one step that matters: a caller counts its retry. It was late for every
\* count that the budget refuses, or it takes the counter to that count.
LEMMA CountStep ==
    ASSUME RetryInv, NEW c \in Caller, CountRetry(c)
    PROVE  \A b \in Nat : ~Allowed(b)' /\ retryCount' >= b =>
              retryCount' + Cardinality(Late(b)') <= b + Cardinality(Caller) - 1
<1> USE DEF RetryInv, RetryTypeOK, CountRetry
<1> SUFFICES ASSUME NEW b \in Nat, ~Allowed(b)', retryCount + 1 >= b
             PROVE  retryCount + 1 + Cardinality(Late(b)') <= b + Cardinality(Caller) - 1
  OBVIOUS
<1>1. ~Allowed(b)
  BY DEF Allowed
<1>2. c \in Late(b)
  <2>1. Budget * retryReqs \in Nat /\ Floor \in Nat
    BY BudgetAssumption
  <2>2. Allowed(seen[c]) /\ seen[c] \in Nat
    OBVIOUS
  <2>3. seen[c] < b
    BY <1>1, <2>1, <2>2 DEF Allowed
  <2>4. QED
    BY <2>3 DEF Late
<1>3. Late(b)' = Late(b) \ {c}
  BY DEF Late
<1>4. /\ IsFiniteSet(Late(b)) /\ Cardinality(Late(b)) \in Nat
      /\ Cardinality(Late(b)) <= Cardinality(Caller)
  BY LateFinite
<1>5. Cardinality(Late(b)') = Cardinality(Late(b)) - 1
  BY <1>2, <1>3, <1>4, FS_RemoveElement
<1>6. Cardinality(Caller) \in Nat
  BY BudgetAssumption, FS_CardinalityType
<1>7. CASE retryCount >= b
  BY <1>1, <1>4, <1>5, <1>6, <1>7
<1>8. CASE retryCount + 1 = b
  BY <1>4, <1>5, <1>6, <1>8
<1>9. QED
  BY <1>7, <1>8

\* RetryInv is inductive: attemptBackend and allowRetry preserve it in any
\* interleaving of any number of callers.
THEOREM RetryInvariant == RetrySpec => []RetryInv
<1>1. RetryInit => RetryInv
  <2> SUFFICES ASSUME RetryInit PROVE RetryInv
    OBVIOUS
  <2>1. RetryTypeOK
    BY BudgetAssumption DEF RetryInit, RetryTypeOK
  <2>2. \A c \in Caller : at[c] = "idle"
    BY DEF RetryInit
  <2>3. ASSUME NEW b \in Nat, ~Allowed(b), retryCount >= b
        PROVE  retryCount + Cardinality(Late(b)) <= b + Cardinality(Caller) - 1
    BY <2>3, BudgetAssumption DEF RetryInit, Allowed
  <2>4. QED
    BY <2>1, <2>2, <2>3 DEF RetryInv
<1>2. RetryInv /\ [RetryNext]_retryVars => RetryInv'
  <2> SUFFICES ASSUME RetryInv, [RetryNext]_retryVars PROVE RetryInv'
    OBVIOUS
  <2> DEFINE Third == \A b \in Nat : ~Allowed(b) /\ retryCount >= b =>
                         retryCount + Cardinality(Late(b)) <= b + Cardinality(Caller) - 1
  <2>t. RetryTypeOK /\ RetryTypeOK'
    BY RetryTypeStep DEF RetryInv
  <2>1. ASSUME UNCHANGED retryVars PROVE Third'
    BY <2>1, <2>t, QuietStep DEF retryVars, Late, RetryTypeOK
  <2>2. ASSUME NEW c \in Caller, NEW n \in {0, MaxAttempts}, BeginAttempts(c, n) PROVE Third'
    BY <2>2, <2>t, QuietStep DEF BeginAttempts, Late, RetryTypeOK
  <2>3. ASSUME NEW c \in Caller, EndAttempts(c) PROVE Third'
    BY <2>3, <2>t, QuietStep DEF EndAttempts, Late, RetryTypeOK
  <2>4. ASSUME NEW c \in Caller, LoadRetries(c) PROVE Third'
    <3>1. \A b \in Nat : retryCount >= b => Late(b)' \subseteq Late(b)
      BY <2>4, <2>t DEF LoadRetries, Late, RetryTypeOK
    <3>2. QED
      BY <2>4, <2>t, <3>1, QuietStep DEF LoadRetries, RetryTypeOK
  <2>5. ASSUME NEW c \in Caller, LoadReqs(c) PROVE Third'
    BY <2>5, <2>t, QuietStep DEF LoadReqs, Late, RetryTypeOK
  <2>6. ASSUME NEW c \in Caller, CountRetry(c) PROVE Third'
    BY <2>6, CountStep
  <2>7. Third'
    BY <2>1, <2>2, <2>3, <2>4, <2>5, <2>6 DEF RetryNext
  <2>8. QED
    BY <2>t, <2>7, GrantedStep DEF RetryInv
<1>3. QED
  BY <1>1, <1>2, PTL DEF RetrySpec

\* Requests that pass allowRetry on stale counts exceed the budget together by
\* less than one retry each.
THEOREM BudgetIsKept == RetrySpec => []BudgetHolds
<1>1. RetryInv => BudgetHolds
  <2> SUFFICES ASSUME RetryInv, ~BudgetHolds PROVE FALSE
    OBVIOUS
  <2> DEFINE b == retryCount - Cardinality(Caller)
  <2>1. Cardinality(Caller) \in Nat
    BY BudgetAssumption, FS_CardinalityType
  <2>2. b \in Nat /\ retryCount >= b /\ ~Allowed(b)
    BY <2>1, BudgetAssumption DEF BudgetHolds, Allowed, RetryInv, RetryTypeOK
  <2>3. retryCount + Cardinality(Late(b)) <= b + Cardinality(Caller) - 1
    BY <2>2 DEF RetryInv
  <2>4. Cardinality(Late(b)) \in Nat
    BY LateFinite
  <2>5. QED
    BY <2>1, <2>3, <2>4 DEF RetryInv, RetryTypeOK
<1>2. QED
  BY <1>1, RetryInvariant, PTL
=============================================================================
