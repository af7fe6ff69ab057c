---------------------------- MODULE AuthService ----------------------------
(***************************************************************************)
(* What the broker promises one connection: what it says, in which order,  *)
(* and when it listens.  Broker implements this for every connection, and  *)
(* Episode relies on it.                                                   *)
(***************************************************************************)
EXTENDS Sequences

VARIABLES svc,   \* where the service of this connection is
          told   \* the outcomes it has announced

serviceVars == <<svc, told>>

ServiceTypeOK ==
    /\ svc \in {"waiting", "working", "asking", "granted", "over"}
    /\ told \in Seq({"Success", "SessionOpened", "SessionEnded", "Failure",
                     "RootFd", "GreeterSpawned"})

ServiceInit == svc = "waiting" /\ told = <<>>

\* BeginAuth got the slot.
Accept == svc = "waiting" /\ svc' = "working" /\ UNCHANGED told

\* A request that needs no relay is served on the spot.
Serve ==
    /\ svc = "waiting"
    /\ \E m \in {"RootFd", "GreeterSpawned"} : told' = Append(told, m)
    /\ svc' = "over"

\* ConvPrompt, and the ConvResponse it waits for.
Ask == svc = "working" /\ svc' = "asking" /\ UNCHANGED told
Answered == svc = "asking" /\ svc' = "working" /\ UNCHANGED told

\* Success, and the StartSession it waits for.
Grant ==
    /\ svc = "working" /\ told = <<>>
    /\ svc' = "granted"
    /\ told' = <<"Success">>

Start == svc = "granted" /\ svc' = "working" /\ UNCHANGED told

Open ==
    /\ svc = "working" /\ told = <<"Success">>
    /\ told' = Append(told, "SessionOpened")
    /\ UNCHANGED svc

\* The terminal frames.
Finish(m) ==
    /\ svc = "working"
    /\ m = "SessionEnded" => told = <<"Success", "SessionOpened">>
    /\ told' = Append(told, m)
    /\ svc' = "over"

\* The connection is closed: refused, evicted, superseded, hung up, out of
\* phase, worker dead, broker gone.
Close == svc # "over" /\ svc' = "over" /\ UNCHANGED told

ServiceNext ==
    \/ Accept \/ Serve \/ Ask \/ Answered \/ Grant \/ Start \/ Open
    \/ Finish("SessionEnded") \/ Finish("Failure") \/ Close

ServiceSpec == ServiceInit /\ [][ServiceNext]_serviceVars
=============================================================================
