---------------------------- MODULE Introspection ---------------------------
(***************************************************************************)
(* Token introspection and its cache (internal/middleware/                 *)
(* oidc_introspect.go). A validation reads the clock, looks in the cache,  *)
(* asks the server, and stores the answer with a lifetime counted from the *)
(* time it read first. Validations of one token overlap, and their answers *)
(* are stored in any order. The clock runs in ticks, Second of them to the *)
(* second, because exp is in whole seconds and the clock is not.           *)
(***************************************************************************)
EXTENDS Integers, Sequences, FiniteSets

CONSTANTS
    Validation, Token,
    Second, CacheTTL, NegativeFloor,   \* in ticks; the floor is 3 seconds
    exp,                               \* of each token, in seconds; 0 for none
    cap,                               \* of the cache
    MaxTicks                           \* bound: the clock

VARIABLES
    ticks,
    revokedAt,   \* when the server withdrew each token, -1 for never
    results,     \* the cached results, most recently used first
    validation   \* each validation: position, token, clock read, answer

intrVars == <<ticks, revokedAt, results, validation>>

AtRest == [at |-> "idle", token |-> CHOOSE t \in Token : TRUE, now |-> 0, active |-> FALSE]

IntrInit ==
    /\ ticks = 0
    /\ revokedAt = [t \in Token |-> -1]
    /\ results = <<>>
    /\ validation = [v \in Validation |-> AtRest]

Others(t) == SelectSeq(results, LAMBDA e : e.token # t)
Cached(t) == {i \in DOMAIN results : results[i].token = t}

\* lruCache.get and the miss or hit of validate. An expired result is
\* removed; a hit ends the validation.
Validate(v, t) ==
    /\ validation[v].at = "idle"
    /\ \/ /\ \E i \in Cached(t) :
                 /\ ticks <= results[i].expiresAt
                 /\ results' = <<results[i]>> \o Others(t)
          /\ UNCHANGED validation
       \/ /\ \A i \in Cached(t) : ticks > results[i].expiresAt
          /\ results' = Others(t)
          /\ validation' = [validation EXCEPT ![v] =
                              [at |-> "ask", token |-> t, now |-> ticks, active |-> FALSE]]
    /\ UNCHANGED <<ticks, revokedAt>>

\* introspect: the server's word at one moment of the call, which may also
\* lack a required scope; or the call fails and nothing is cached.
Answer(v, scoped) ==
    LET t == validation[v].token IN
    /\ validation[v].at = "ask"
    /\ validation' = [validation EXCEPT
                        ![v].at = "keep",
                        ![v].active = /\ revokedAt[t] = -1 /\ scoped
                                      /\ exp[t] # 0 => validation[v].now \div Second < exp[t]]
    /\ UNCHANGED <<ticks, revokedAt, results>>

IntrospectFails(v) ==
    /\ validation[v].at = "ask"
    /\ validation' = [validation EXCEPT ![v] = AtRest]
    /\ UNCHANGED <<ticks, revokedAt, results>>


\* The lifetime of a result. remaining is in whole seconds.
Lifetime(t, now, active) ==
    LET remaining == (exp[t] - (now \div Second)) * Second
        tenth == CacheTTL \div 10
    IN IF ~active THEN (IF tenth < NegativeFloor THEN NegativeFloor ELSE tenth)
       ELSE IF exp[t] # 0 /\ remaining < CacheTTL THEN remaining ELSE CacheTTL

\* lruCache.set: the rest of the list once the tail has made room.
Room(t) ==
    IF Cached(t) = {} /\ Len(results) >= cap THEN SubSeq(results, 1, Len(results) - 1) ELSE Others(t)

Keep(v) ==
    LET r == validation[v]
        ttl == Lifetime(r.token, r.now, r.active)
    IN
    /\ r.at = "keep"
    /\ results' = IF ttl > 0
                  THEN <<[token |-> r.token, active |-> r.active, expiresAt |-> r.now + ttl]>>
                         \o Room(r.token)
                  ELSE results
    /\ validation' = [validation EXCEPT ![v] = AtRest]
    /\ UNCHANGED <<ticks, revokedAt>>

\* The introspection server withdraws a token.
Revoke(t) ==
    /\ revokedAt[t] = -1
    /\ revokedAt' = [revokedAt EXCEPT ![t] = ticks]
    /\ UNCHANGED <<ticks, results, validation>>

IntrTick ==
    /\ ticks < MaxTicks
    /\ ticks' = ticks + 1
    /\ UNCHANGED <<revokedAt, results, validation>>

IntrNext ==
    \/ \E v \in Validation, t \in Token : Validate(v, t)
    \/ \E v \in Validation, s \in BOOLEAN : Answer(v, s)
    \/ \E v \in Validation : IntrospectFails(v) \/ Keep(v)
    \/ \E t \in Token : Revoke(t)
    \/ IntrTick

IntrSpec == IntrInit /\ [][IntrNext]_intrVars

-----------------------------------------------------------------------------
=============================================================================
