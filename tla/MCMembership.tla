---------------------------- MODULE MCMembership ----------------------------
EXTENDS Membership
Route(g, h) == [group |-> g, host |-> h]
Config1 == [backends |-> ("a" :> 1), route |-> Route("g1", "h1")]
Config2 == [backends |-> ("a" :> 2) @@ ("b" :> 1), route |-> Route("g1", "h2")]
Config3 == [backends |-> ("b" :> 2), route |-> Route("g2", "h1")]
MCConfigs == {Config1, Config2, Config3}
=============================================================================
