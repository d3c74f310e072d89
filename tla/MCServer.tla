------------------------------ MODULE MCServer ------------------------------
(***************************************************************************)
(* The parts of the server process around the proxied request, on small    *)
(* instances: admission, the retry budget, the raw TCP proxy, the canary   *)
(* promoter, startup and shutdown. They share no state, so a behaviour     *)
(* moves only the one in focus: the run's states are the sum of theirs,    *)
(* not the product.                                                        *)
(***************************************************************************)
EXTENDS Admission, RetryBudget, TcpProxy, Canary, Lifecycle

VARIABLE focus

serverVars == <<focus, vars, retryVars, tcpVars, canVars, lifeVars>>

ServerInit ==
    /\ focus \in {"admission", "retry", "tcp", "canary", "life"}
    /\ Init /\ RetryInit /\ TcpInit /\ CanInit /\ LifeInit
    /\ focus # "canary" => /\ traffic = "good" /\ ~operated /\ ~rollsBack
                            /\ live = CHOOSE w \in InitialWeights : TRUE
    /\ focus # "life" => enabled = CHOOSE l \in Layouts : TRUE

ServerNext ==
    /\ UNCHANGED focus
    /\ \/ focus = "admission" /\ Next /\ UNCHANGED <<retryVars, tcpVars, canVars, lifeVars>>
       \/ focus = "retry" /\ RetryNext /\ UNCHANGED <<vars, tcpVars, canVars, lifeVars>>
       \/ focus = "tcp" /\ TcpNext /\ UNCHANGED <<vars, retryVars, canVars, lifeVars>>
       \/ focus = "canary" /\ CanNext /\ UNCHANGED <<vars, retryVars, tcpVars, lifeVars>>
       \/ focus = "life" /\ LifeNext /\ UNCHANGED <<vars, retryVars, tcpVars, canVars>>

\* The fairness of the modules' own specifications, for the one in focus.
ServerFairSpec ==
    /\ ServerInit /\ [][ServerNext]_serverVars
    /\ \A q \in Request : WF_vars(focus = "admission" /\ Step(q))
    /\ WF_tcpVars(focus = "tcp" /\ Serve) /\ WF_tcpVars(focus = "tcp" /\ ~listening /\ AcceptFails)
    /\ \A c \in Conn : WF_tcpVars(focus = "tcp" /\ Handle(c))
    /\ \A s \in Stopper : WF_tcpVars(focus = "tcp" /\ Stop(s))
    /\ WF_canVars(focus = "canary" /\ Snapshot) /\ WF_canVars(focus = "canary" /\ Judge)
    /\ WF_lifeVars(focus = "life" /\ Go) /\ WF_lifeVars(focus = "life" /\ Tell)
    /\ SF_lifeVars(focus = "life" /\ Join) /\ WF_lifeVars(focus = "life" /\ Exit)
    /\ \A p \in Loops : WF_lifeVars(focus = "life" /\ End(p))
    /\ \A d \in {"stop", "h3"} : WF_lifeVars(focus = "life" /\ Expire(d))

MCLayouts == {
    {"http", "dns", "promoter", "limiter", "health", "metrics"},
    {"http", "watch", "kube", "l4", "stapler"},
    {"http", "h3", "tracing", "acme", "syncer"},
    {"http", "grpc", "health"}}
=============================================================================
