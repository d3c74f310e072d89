------------------------------ MODULE MCEdge ------------------------------
(***************************************************************************)
(* Middleware in front of the proxy, on small instances: the rate limiter, *)
(* the response cache and token introspection. They share no state, so a   *)
(* behaviour moves only the one in focus: the run's states are the sum of  *)
(* theirs, not the product.                                                *)
(***************************************************************************)
EXTENDS Limiter, ResponseCache, Introspection

VARIABLE focus

edgeVars == <<focus, limVars, cacheVars, intrVars>>

EdgeInit ==
    /\ focus \in {"limiter", "cache", "introspection"}
    /\ LimInit /\ CacheInit /\ IntrInit
    /\ focus # "limiter" => setup = CHOOSE s \in LimiterSetups : TRUE
    /\ focus # "cache" => maxStored = CHOOSE n \in StoreSizes : TRUE

EdgeNext ==
    /\ UNCHANGED focus
    /\ \/ focus = "limiter" /\ LimNext /\ UNCHANGED <<cacheVars, intrVars>>
       \/ focus = "cache" /\ CacheNext /\ UNCHANGED <<limVars, intrVars>>
       \/ focus = "introspection" /\ IntrNext /\ UNCHANGED <<limVars, cacheVars>>

EdgeSpec == EdgeInit /\ [][EdgeNext]_edgeVars

RateOfRule == [e |-> 1, n |-> 1]
RateOfStore == [e |-> 1, n |-> 2]
Setup(alg, st, rate, upd, slots, period) ==
    [algorithm |-> alg, store |-> st, rate |-> rate, updates |-> upd, slots |-> slots,
     ticks |-> period]
Setups == {
    Setup("gcra", "none", [e |-> 1, n |-> 2], {[e |-> 2, n |-> 1]}, {"k1", "k2"}, 2),
    Setup("token_bucket", "none", [e |-> 1, n |-> 2], {}, {"k1", "r1"}, 1),
    Setup("gcra", "redis", [e |-> 1, n |-> 0], {}, {"k1"}, 6),
    Setup("token_bucket", "mem", [e |-> 1, n |-> 0], {}, {"k1"}, 6)}
TokenExp == ("t1" :> 2) @@ ("t2" :> 0)
===========================================================================
