--------------------------- MODULE BrokerService ---------------------------
(***************************************************************************)
(* The broker implements AuthService for each of its connections.          *)
(***************************************************************************)
EXTENDS Broker

ServiceOf(c) ==
    CASE active = c /\ phase = "AwaitGreeterConvResponse" -> "asking"
      [] active = c /\ phase = "AwaitGreeterStartSession" -> "granted"
      [] active = c /\ phase \in WorkerPhases -> "working"
      [] active # c /\ (peer[c] = "none" \/ Queued(c) \/ IsPending(c)) -> "waiting"
      [] OTHER -> "over"

Service(c) == INSTANCE AuthService WITH svc <- ServiceOf(c), told <- told[c]

\* Whatever the other connections, the workers, PID 1 and the clock do, each
\* connection sees a service that keeps the protocol: outcomes in order and
\* nothing after a terminal one, one question at a time, a session only after
\* a StartSession that followed Success, and no second life once it is over.
\* (ServiceSpec of every connection, with the quantifier inside the box.)
ImplementsService ==
    /\ \A c \in Conns : Service(c)!ServiceInit
    /\ [][\A c \in Conns : [Service(c)!ServiceNext]_(Service(c)!serviceVars)]_vars
=============================================================================
