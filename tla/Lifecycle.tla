----------------------------- MODULE Lifecycle -----------------------------
(***************************************************************************)
(* Startup and shutdown of the process (internal/server/server.go, h3.go): *)
(* Run starts Start in a goroutine and calls Stop on the first SIGINT or   *)
(* SIGTERM, which may come at any point of Start. A part of the server is  *)
(* a background loop or a listener; its work is a resolution, a reload, a  *)
(* probe, a flush, or for a listener the requests in flight.               *)
(***************************************************************************)
EXTENDS Integers, Sequences

CONSTANT Layouts   \* sets of enabled parts, one of which is the configuration

VARIABLES
    enabled,   \* the parts that are configured
    start,     \* how far Start is, and what it returned
    stop,      \* how far Stop is
    built,     \* parts that New or Start has assigned to a field of the server
    running,   \* loops that run and listeners that are open
    told,      \* parts that Stop has signalled
    working,   \* parts with work in progress
    joined,    \* parts that Stop found running and has waited for
    expired,   \* deadlines that have passed: Stop's, and stopH3's own
    exit       \* what Run returned, or "no"

lifeVars == <<enabled, start, stop, built, running, told, working, joined, expired, exit>>

StartOrder == <<"tracing", "metrics", "grpc", "watch", "dns", "kube", "promoter", "l4", "acme",
                "stapler", "h3", "http">>
StopOrder == <<"watch", "promoter", "dns", "kube", "limiter", "syncer", "health", "l4", "stapler",
               "acme", "metrics", "grpc", "h3", "tracing", "http">>
Listeners == {"metrics", "grpc", "acme", "h3", "http"}
Loops == {"watch", "promoter", "dns", "kube", "syncer", "health", "l4", "stapler"}

\* New builds these; the limiter, the syncer and the health checkers run from
\* then on, the others wait for Start.
BuiltByNew == {"dns", "kube", "limiter", "syncer", "health", "l4", "http"}

LifeInit ==
    /\ enabled \in Layouts
    /\ start = [at |-> 1, result |-> "none"]
    /\ stop = [at |-> 0, waiting |-> FALSE]
    /\ built = enabled \cap BuiltByNew
    /\ running = enabled \cap {"limiter", "syncer", "health"}
    /\ told = {} /\ working = {} /\ joined = {} /\ expired = {}
    /\ exit = "no"

-----------------------------------------------------------------------------
(* Start.                                                                  *)

\* A listener whose shutdown came first does not open.
Refuses(p) == p \in {"l4", "http"} /\ p \in told

\* A part that is not enabled is skipped. Tracing and HTTP/3 log a failure and
\* go on; the first resolution starts at once.
Launch(p) ==
    \/ /\ p \notin enabled \/ p \in {"tracing", "h3"} \/ Refuses(p)
       /\ UNCHANGED <<built, running, working>>
    \/ /\ p \in enabled /\ ~Refuses(p)
       /\ built' = built \cup {p}
       /\ running' = running \cup {p}
       /\ working' = IF p \in {"dns", "kube"} THEN working \cup {p} ELSE working

StartStep ==
    /\ start.result = "none" /\ start.at <= Len(StartOrder)
    /\ Launch(StartOrder[start.at])
    /\ start' = IF Refuses("http") /\ StartOrder[start.at] = "http" THEN [start EXCEPT !.result = "nil"]
                ELSE [start EXCEPT !.at = @ + 1]
    /\ UNCHANGED <<enabled, stop, told, joined, expired, exit>>

\* The L4 or the main listener cannot bind: Start returns and stops nothing.
BindFails ==
    /\ start.result = "none" /\ start.at <= Len(StartOrder)
    /\ StartOrder[start.at] \in enabled \cap {"l4", "http"}
    /\ start' = [start EXCEPT !.result = "error"]
    /\ UNCHANGED <<enabled, stop, built, running, told, working, joined, expired, exit>>

\* ListenAndServe returns as soon as Shutdown is called.
ServeReturns ==
    /\ start.at > Len(StartOrder) /\ start.result = "none" /\ "http" \in told
    /\ start' = [start EXCEPT !.result = "nil"]
    /\ UNCHANGED <<enabled, stop, built, running, told, working, joined, expired, exit>>

-----------------------------------------------------------------------------
(* Work. A loop may take one more tick although its stop channel is closed;*)
(* a listener that is shutting down takes no new request.                  *)

Begin(p) ==
    /\ exit = "no" /\ p \in running \ working
    /\ p \in Listeners => p \notin told
    /\ working' = working \cup {p}
    /\ UNCHANGED <<enabled, start, stop, built, running, told, joined, expired, exit>>

End(p) ==
    /\ exit = "no" /\ p \in working
    /\ working' = working \ {p}
    /\ UNCHANGED <<enabled, start, stop, built, running, told, joined, expired, exit>>

-----------------------------------------------------------------------------
(* Run and Stop.                                                           *)

Terminate ==
    /\ exit = "no" /\ stop.at = 0
    /\ stop' = [at |-> 1, waiting |-> FALSE]
    /\ UNCHANGED <<enabled, start, built, running, told, working, joined, expired, exit>>

\* A part that is nil is skipped, and so is a stapler without a stop channel.
\* The limiter's Stop closes its channel and returns.
Tell ==
    /\ exit = "no" /\ stop.at \in 1..Len(StopOrder) /\ ~stop.waiting
    /\ LET p == StopOrder[stop.at] IN
           IF p \notin built THEN stop' = [stop EXCEPT !.at = @ + 1] /\ UNCHANGED told
           ELSE /\ told' = told \cup {p}
                /\ stop' = IF p = "limiter" THEN [stop EXCEPT !.at = @ + 1]
                           ELSE [stop EXCEPT !.waiting = TRUE]
    /\ UNCHANGED <<enabled, start, built, running, working, joined, expired, exit>>

\* Mutant: the main listener is drained without a deadline.
ReleasedWhenIdle(p) ==
    \/ p \notin working
    \/ p \in {"acme", "metrics", "tracing"} /\ "stop" \in expired
    \/ p = "h3" /\ "h3" \in expired


\* Stop goes on when the part has finished, or when the deadline of the call
\* has passed: GracefulStop and the joins of the loops have none.
Released(p) ==
    \/ p \notin working
    \/ p \in {"acme", "metrics", "tracing", "http"} /\ "stop" \in expired
    \/ p = "h3" /\ "h3" \in expired

Join ==
    /\ exit = "no" /\ stop.waiting
    /\ LET p == StopOrder[stop.at] IN
           /\ Released(p)
           /\ joined' = IF p \in running THEN joined \cup {p} ELSE joined
           /\ running' = running \ {p}
    /\ stop' = [at |-> stop.at + 1, waiting |-> FALSE]
    /\ UNCHANGED <<enabled, start, built, told, working, expired, exit>>

\* A deadline runs from the call that sets it.
Expire(d) ==
    /\ exit = "no" /\ d \notin expired
    /\ IF d = "stop" THEN stop.at > 0 ELSE stop.waiting /\ StopOrder[stop.at] = "h3"
    /\ expired' = expired \cup {d}
    /\ UNCHANGED <<enabled, start, stop, built, running, told, working, joined, exit>>

\* Run returns Start's error, or what Shutdown of the main listener returned.
Exit ==
    /\ exit = "no"
    /\ \/ stop.at = 0 /\ start.result # "none" /\ exit' = start.result
       \/ /\ stop.at > Len(StopOrder)
          /\ exit' = IF "http" \in working THEN "error" ELSE "nil"
    /\ UNCHANGED <<enabled, start, stop, built, running, told, working, joined, expired>>

-----------------------------------------------------------------------------
Part == {StopOrder[i] : i \in 1..Len(StopOrder)}
Go == exit = "no" /\ (StartStep \/ BindFails \/ ServeReturns)

LifeNext ==
    \/ Go \/ Terminate \/ Tell \/ Join \/ Exit
    \/ \E p \in Part : Begin(p) \/ End(p)
    \/ \E d \in {"stop", "h3"} : Expire(d)

\* Goroutines run on and timers fire; a loop ends its work, which is bounded by
\* its own timeouts, and a closed stop channel is chosen in the end. Nothing is
\* assumed of the clients: requests and watch streams may last for ever.
LifeFairSpec ==
    /\ LifeInit /\ [][LifeNext]_lifeVars
    /\ WF_lifeVars(Go) /\ WF_lifeVars(Tell) /\ SF_lifeVars(Join) /\ WF_lifeVars(Exit)
    /\ \A p \in Loops : WF_lifeVars(End(p))
    /\ \A d \in {"stop", "h3"} : WF_lifeVars(Expire(d))

-----------------------------------------------------------------------------

\* The first signal ends the process although clients keep their requests
\* open, unless the gRPC health server, which has no deadline, is enabled.
RunReturns == (stop.at > 0 /\ "grpc" \notin enabled) ~> (exit # "no")

\* "shuts down all listeners and background goroutines within the configured
\* shutdown timeout".
StopWithinTimeout == (stop.at > 0) ~> (exit # "no")

\* "This must happen after all HTTP listeners are closed to guarantee no more
\* spans are created".
TracingLast == "tracing" \in joined => {"http", "h3"} \cap running = {}
=============================================================================
