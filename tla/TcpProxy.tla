------------------------------ MODULE TcpProxy ------------------------------
(***************************************************************************)
(* The raw TCP proxy (internal/tcpproxy/tcpproxy.go): the accept loop, one *)
(* handler per connection, and Stop, which closes the connections it finds *)
(* in the table and leaves the others to track. A socket is open or not;   *)
(* what is copied through it is left out.                                  *)
(***************************************************************************)
EXTENDS Integers, FiniteSets

CONSTANTS
    Conn,      \* client connections
    Stopper    \* callers of Stop

VARIABLES
    serve,     \* Serve: "starting", "accepting" or "returned"
    listening, \* the listener is open
    closed,    \* Proxy.closed
    tracked,   \* Proxy.conns: connection and side
    sockets,   \* the open sockets
    handler,   \* each connection's handler
    active,    \* the backend's connection counter
    stopper,   \* each caller of Stop
    snapshot   \* the sockets Stop found in the table

tcpVars == <<serve, listening, closed, tracked, sockets, handler, active, stopper, snapshot>>

Client(c) == <<c, "client">>
Upstream(c) == <<c, "upstream">>

\* Start has bound the listener and launched Serve.
TcpInit ==
    /\ serve = "starting" /\ listening = TRUE
    /\ closed = FALSE
    /\ tracked = {} /\ sockets = {}
    /\ handler = [c \in Conn |-> "none"]
    /\ active = 0
    /\ stopper = [s \in Stopper |-> "idle"]
    /\ snapshot = {}

-----------------------------------------------------------------------------
(* Serve.                                                                  *)

Serve ==
    /\ serve = "starting"
    /\ IF closed THEN serve' = "returned" /\ listening' = FALSE
       ELSE serve' = "accepting" /\ UNCHANGED listening
    /\ UNCHANGED <<closed, tracked, sockets, handler, active, stopper, snapshot>>

Accept(c) ==
    /\ serve = "accepting" /\ listening /\ handler[c] = "none"
    /\ sockets' = sockets \cup {Client(c)}
    /\ handler' = [handler EXCEPT ![c] = "accepted"]
    /\ UNCHANGED <<serve, listening, closed, tracked, active, stopper, snapshot>>

\* The listener was closed by Stop, which had set closed before, or Accept
\* failed for good. A temporary error changes nothing.
AcceptFails ==
    /\ serve = "accepting"
    /\ serve' = "returned"
    /\ UNCHANGED <<listening, closed, tracked, sockets, handler, active, stopper, snapshot>>

-----------------------------------------------------------------------------
(* handle.                                                                 *)

\* The deferred calls: untrack and close both sides, release the backend.
Unwind(c) ==
    /\ handler' = [handler EXCEPT ![c] = "gone"]
    /\ tracked' = tracked \ {Client(c), Upstream(c)}
    /\ sockets' = sockets \ {Client(c), Upstream(c)}

SelectBackend(c) ==
    /\ handler[c] = "accepted"
    /\ \/ Unwind(c) /\ UNCHANGED active          \* Next returned an error
       \/ /\ handler' = [handler EXCEPT ![c] = "reserved"]
          /\ active' = active + 1
          /\ UNCHANGED <<tracked, sockets>>
    /\ UNCHANGED <<serve, listening, closed, stopper, snapshot>>

\* hostPort and DialTimeout.
Dial(c) ==
    /\ handler[c] = "reserved"
    /\ \/ Unwind(c) /\ active' = active - 1
       \/ /\ handler' = [handler EXCEPT ![c] = "dialed"]
          /\ sockets' = sockets \cup {Upstream(c)}
          /\ UNCHANGED <<tracked, active>>
    /\ UNCHANGED <<serve, listening, closed, stopper, snapshot>>

\* Mutant: track does not look whether the proxy is shutting down.
TrackBlind(x) == tracked' = tracked \cup {x} /\ UNCHANGED sockets

\* track: once Stop has taken its snapshot, the socket is closed instead.
Track(x) ==
    IF closed THEN sockets' = sockets \ {x} /\ UNCHANGED tracked
    ELSE tracked' = tracked \cup {x} /\ UNCHANGED sockets

TrackClient(c) ==
    /\ handler[c] = "dialed"
    /\ Track(Client(c))
    /\ handler' = [handler EXCEPT ![c] = "tracked"]
    /\ UNCHANGED <<serve, listening, closed, active, stopper, snapshot>>

TrackUpstream(c) ==
    /\ handler[c] = "tracked"
    /\ Track(Upstream(c))
    /\ handler' = [handler EXCEPT ![c] = "piping"]
    /\ UNCHANGED <<serve, listening, closed, active, stopper, snapshot>>

\* A copy ends when its side is closed, and closeBoth ends the other one.
EndPipe(c) ==
    /\ handler[c] = "piping"
    /\ ~({Client(c), Upstream(c)} \subseteq sockets)
    /\ Unwind(c)
    /\ active' = active - 1
    /\ UNCHANGED <<serve, listening, closed, stopper, snapshot>>

\* Either peer hangs up.
HangUp(x) ==
    /\ x \in sockets
    /\ sockets' = sockets \ {x}
    /\ UNCHANGED <<serve, listening, closed, tracked, handler, active, stopper, snapshot>>

-----------------------------------------------------------------------------
(* Stop.                                                                   *)

BeginStop(s) ==
    /\ stopper[s] = "idle"
    /\ IF closed THEN stopper' = [stopper EXCEPT ![s] = "returned"] /\ UNCHANGED <<closed, snapshot>>
       ELSE /\ stopper' = [stopper EXCEPT ![s] = "close"]
            /\ closed' = TRUE
            /\ snapshot' = tracked
    /\ UNCHANGED <<serve, listening, tracked, sockets, handler, active>>

\* The listener is closed if Serve has published it.
CloseAll(s) ==
    /\ stopper[s] = "close"
    /\ listening' = (listening /\ serve = "starting")
    /\ sockets' = sockets \ snapshot
    /\ snapshot' = {}
    /\ stopper' = [stopper EXCEPT ![s] = "wait"]
    /\ UNCHANGED <<serve, closed, tracked, handler, active>>

\* Mutant: Stop does not wait for the handlers.
EndStopAtOnce(s) ==
    /\ stopper[s] = "wait"
    /\ serve = "returned"
    /\ stopper' = [stopper EXCEPT ![s] = "done"]
    /\ UNCHANGED <<serve, listening, closed, tracked, sockets, handler, active, snapshot>>

EndStop(s) ==
    /\ stopper[s] = "wait"
    /\ serve = "returned" /\ \A c \in Conn : handler[c] \in {"none", "gone"}
    /\ stopper' = [stopper EXCEPT ![s] = "done"]
    /\ UNCHANGED <<serve, listening, closed, tracked, sockets, handler, active, snapshot>>

-----------------------------------------------------------------------------
Handle(c) == SelectBackend(c) \/ Dial(c) \/ TrackClient(c) \/ TrackUpstream(c) \/ EndPipe(c)
Stop(s) == CloseAll(s) \/ EndStop(s)

TcpNext ==
    \/ Serve \/ AcceptFails
    \/ \E c \in Conn : Accept(c) \/ Handle(c) \/ HangUp(Client(c)) \/ HangUp(Upstream(c))
    \/ \E s \in Stopper : BeginStop(s) \/ Stop(s)

\* Goroutines run on, a dial ends by its timeout, and Accept returns once the
\* listener is closed. No peer ever needs to hang up.
TcpFairSpec ==
    /\ TcpInit /\ [][TcpNext]_tcpVars
    /\ WF_tcpVars(Serve) /\ WF_tcpVars(~listening /\ AcceptFails)
    /\ \A c \in Conn : WF_tcpVars(Handle(c))
    /\ \A s \in Stopper : WF_tcpVars(Stop(s))

-----------------------------------------------------------------------------
\* "waits for Serve and all in-flight handlers to finish": when the Stop that
\* did the work has returned, nothing is open, running or reserved, whichever
\* step of Serve and of the handlers it overtook.
StopLeavesNothing ==
    (\E s \in Stopper : stopper[s] = "done") =>
        ~listening /\ sockets = {} /\ tracked = {} /\ active = 0 /\ (\A c \in Conn : handler[c] \in {"none", "gone"})

\* "forces all active connections closed": Stop returns although no peer
\* hangs up.
StopReturns == \A s \in Stopper : (stopper[s] # "idle") ~> (stopper[s] \in {"returned", "done"})
=============================================================================
