----------------------------- MODULE MCBalancer -----------------------------
(***************************************************************************)
(* Small instances of the balancer package: the cache of healthy backends, *)
(* and the algorithms and wrappers that select from them. They share no    *)
(* state, so a behaviour moves only the one in focus: the run's states are *)
(* the sum of theirs, not the product.                                     *)
(*                                                                         *)
(* The algorithms select among three members: a remote primary, a local    *)
(* backup, and a remote primary of weight 0 that some of the algorithms    *)
(* count as weight 1.                                                      *)
(***************************************************************************)
EXTENDS HealthyCache, Balancing, TLC

VARIABLE focus

balancerVars == <<focus, vars, balVars>>

BalancerInit ==
    /\ focus \in {"cache", "selection"}
    /\ Init /\ BalInit
    /\ focus # "selection" => algo = CHOOSE a \in Algorithms : TRUE
    /\ focus # "selection" => stack = CHOOSE s \in Stacks : TRUE

BalancerNext ==
    /\ UNCHANGED focus
    /\ \/ focus = "cache" /\ Next /\ UNCHANGED balVars
       \/ focus = "selection" /\ BalNext /\ UNCHANGED vars

BalancerSpec == BalancerInit /\ [][BalancerNext]_balancerVars

Symmetry == Permutations(Backend) \cup Permutations(Reader) \cup Permutations(Setter)

MCOrder == <<"b1", "b2", "b3">>
MCRing == <<"b1", "b2", "b3", "b2", "b1", "b3">>
MCStacks == {<<>>, <<"tiers">>, <<"zone">>, <<"zone", "tiers">>}
MCWeight == [b \in {"b1", "b2", "b3"} |-> IF b = "b1" THEN 2 ELSE IF b = "b2" THEN 1 ELSE 0]
MCTier == [b \in {"b1", "b2", "b3"} |-> IF b = "b2" THEN 1 ELSE 0]
MCLocal == {"b2"}
=============================================================================
