----------------------------- MODULE Handoff -----------------------------
(***************************************************************************)
(* The greeter-to-session hand-off and back, as the compositor's event     *)
(* loop runs it (main.rs): the two-key gate, the greetd connections, the   *)
(* leader backstop, the greeter process and the clients' surfaces.         *)
(*                                                                         *)
(* Every callback is one action, for calloop runs them one at a time.      *)
(* Sessions, greeters and clients move between any two of them.  What a    *)
(* connection says while it authenticates is the subject of Episode; here  *)
(* it ends in StartSession or in a hang-up.  The repaint a commit asks for *)
(* is part of the commit: it ends the same loop iteration.                 *)
(***************************************************************************)
EXTENDS SwapGate, FiniteSets, Sequences

CONSTANTS Users,        \* whom a session may belong to
          None,
          MaxGreetdConnections,
          MaxLogins,    \* bound on the greetd connections of a run
          MaxGreeters,  \* bound on the greeter processes
          MaxTops       \* toplevels a client may have at a time

Login == 1..MaxLogins
Greeter == 1..MaxGreeters

ASSUME HandoffAssumption ==
    /\ None \notin Users
    /\ MaxGreetdConnections \in Nat \ {0}
    /\ MaxLogins \in Nat /\ MaxGreeters \in Nat \ {0} /\ MaxTops \in Nat

VARIABLES swap,         \* HalmasuitState::swap
          foreground, session_uid, session_first_frame_emitted,
          greeter,      \* the handle, 0 for None
          foreground_toplevel,
          connections,  \* HalmasuitState::connections
          next_conn_id,
          idle,         \* connections an idle callback will drop
          greeters,     \* the greeter processes
          session,      \* the leader and uid of each login's session, and whether
                        \* the broker hung up on it
          fromBroker,   \* the frames of its channel
          clients,      \* logins whose session has a Wayland client
          tops, painted \* the clients' toplevels, those with a buffer

handoffVars == <<swap, foreground, session_uid, greeter, greeters>>
surfaceVars == <<clients, tops, painted, foreground_toplevel,
                 session_first_frame_emitted>>
connVars == <<connections, next_conn_id, idle>>
sessionVars == <<session, fromBroker>>
vars == <<handoffVars, surfaceVars, connVars, sessionVars>>

Top == (Login \cup {0}) \X (1..MaxTops)  \* owner 0 is the greeter
ConnState == [here : BOOLEAN, greeter : BOOLEAN, spawned : BOOLEAN,
              terminate : BOOLEAN, pidfd : BOOLEAN]

TypeOK ==
    /\ swap \in Gate(Login)
    /\ foreground \in {"Greeter", "Session"}
    /\ session_uid \in Users \cup {None}
    /\ greeter \in Greeter \cup {0}
    /\ foreground_toplevel \in Top \cup {None}
    /\ session_first_frame_emitted \in BOOLEAN
    /\ connections \in [Login -> ConnState]
    /\ next_conn_id \in 1..(MaxLogins + 1)
    /\ idle \subseteq Login /\ clients \subseteq Login
    /\ greeters \in [Greeter -> {"unborn", "live", "orphan", "dead"}]
    /\ session \in [Login -> [leader : {"none", "starting", "running", "exited"},
                              uid : Users \cup {None}, lost : BOOLEAN]]
    /\ fromBroker \in [Login -> Seq({"SessionOpened", "SessionEnded", "EOF"})]
    /\ tops \subseteq Top /\ painted \subseteq tops

Absent == [here |-> FALSE, greeter |-> FALSE, spawned |-> FALSE,
           terminate |-> FALSE, pidfd |-> FALSE]

\* The state main() enters the loop with, or the pivot's setup leaves behind.
Init ==
    /\ swap = NewGate /\ foreground = "Greeter" /\ session_uid = None
    /\ foreground_toplevel = None
    /\ session_first_frame_emitted = FALSE
    /\ connections = [c \in Login |-> Absent] /\ next_conn_id = 1 /\ idle = {}
    /\ session = [c \in Login |-> [leader |-> "none", uid |-> None, lost |-> FALSE]]
    /\ fromBroker = [c \in Login |-> <<>>]
    /\ clients = {} /\ tops = {} /\ painted = {}
    /\ greeter \in {0, 1}
    /\ greeters = [g \in Greeter |-> IF g = greeter THEN "live" ELSE "unborn"]

----------------------------------------------------------------------------
(* The hand-off.                                                           *)

\* broker_spawn_greeter: the reply may miss the deadline although the broker
\* has started the greeter, which then runs without a handle.
SpawnGreeter ==
    \/ \E g \in Greeter :
          /\ greeters[g] = "unborn" /\ \A h \in Greeter : h < g => greeters[h] # "unborn"
          /\ \/ greeter' = g /\ greeters' = [greeters EXCEPT ![g] = "live"]
             \/ greeters' = [greeters EXCEPT ![g] = "orphan"] /\ UNCHANGED greeter
    \/ UNCHANGED <<greeter, greeters>>

\* greeter.take() and SIGKILL.  A greeter that has exited is no error.
KillGreeter ==
    /\ greeter' = 0
    /\ greeters' = [g \in Greeter |-> IF g = greeter THEN "dead" ELSE greeters[g]]

\* SwapAction::None
ApplyNone(gate) ==
    /\ swap' = gate
    /\ UNCHANGED <<foreground, session_uid, greeter, greeters>>

\* Mutant: the swap leaves the greeter running.
ApplySwapNoKill(gate) ==
    /\ swap' = gate
    /\ foreground' = "Session"
    /\ UNCHANGED <<session_uid, greeter, greeters>>

\* SwapAction::Swap
ApplySwap(gate) ==
    /\ swap' = gate
    /\ KillGreeter
    /\ foreground' = "Session"
    /\ UNCHANGED session_uid

\* SwapAction::Revert: the gate is replaced by a fresh one.
ApplyRevert ==
    /\ swap' = NewGate
    /\ foreground' = "Greeter"
    /\ session_uid' = None
    /\ SpawnGreeter

\* A key is turned, and apply_swap_action does what follows.
TurnKey(key, by) ==
    LET gate == Arm(swap, key, by)
    IN \/ ArmAction(swap, key, by) = "None" /\ ApplyNone(gate)
       \/ ArmAction(swap, key, by) = "Swap" /\ ApplySwap(gate)

\* session_ended, session_client_gone, and what follows.
EndSession ==
    \/ RevertAction(swap) = "None" /\ ApplyNone(RevertOrDisarm(swap))
    \/ RevertAction(swap) = "Revert" /\ ApplyRevert

----------------------------------------------------------------------------
(* The greetd connections.                                                 *)

Open == {c \in Login : connections[c].here}
LiveGreeters == {g \in Greeter : greeters[g] \in {"live", "orphan"}}

\* The broker has one slot: it serves one session at a time (SingleWorker in
\* Broker) and hangs up on the one it drops.
Served(c) == session[c].leader \in {"starting", "running"} /\ ~session[c].lost

\* What it sent before it served another was ready an iteration earlier than
\* the other's StartSession, and has been read.
Settled(c) == ~Served(c) /\ (connections[c].here => fromBroker[c] = <<>>)

\* handle_listener_ready, where it keeps the connection.
Accept ==
    /\ LiveGreeters # {} /\ next_conn_id \in Login
    /\ Cardinality(Open) < MaxGreetdConnections
    /\ connections' = [connections EXCEPT ![next_conn_id] =
                          [Absent EXCEPT !.here = TRUE, !.greeter = TRUE]]
    /\ next_conn_id' = next_conn_id + 1
    /\ UNCHANGED <<handoffVars, surfaceVars, idle, sessionVars>>

\* Mutant: the greeter's end goes, and the rest of the episode stays.
SettleKeeps(cs) == [cs EXCEPT !.greeter = FALSE]

\* The end of handle_connection_ready, once write_buf is flushed: episode_over,
\* or detach_greeter_only.
Settle(cs) == IF cs.terminate THEN Absent ELSE [cs EXCEPT !.greeter = FALSE]

\* handle_connection_ready on the bytes of the StartSession of user u.
StartSession(c, u) ==
    /\ connections[c].greeter /\ ~connections[c].spawned /\ ~connections[c].terminate
    /\ ~session[c].lost /\ \A d \in Login \ {c} : Settled(d)
    /\ connections' = [connections EXCEPT ![c].spawned = TRUE]
    /\ session_uid' = IF session_uid = None THEN u ELSE session_uid
    /\ session' = [session EXCEPT ![c].leader = "starting", ![c].uid = u]
    /\ UNCHANGED <<swap, foreground, greeter, greeters, surfaceVars,
                   next_conn_id, idle, fromBroker>>

\* The reply is out, in the same callback or when the stream is writable again.
GreeterWritable(c) ==
    /\ connections[c].greeter
    /\ connections[c].terminate \/ connections[c].spawned
    /\ connections' = [connections EXCEPT ![c] = Settle(@)]
    /\ UNCHANGED <<handoffVars, surfaceVars, next_conn_id, idle, sessionVars>>

\* handle_connection_ready on the end of the greeter's stream: write_buf has
\* nowhere to go.
GreeterCloses(c) ==
    /\ connections[c].greeter
    /\ connections' = [connections EXCEPT ![c] =
          IF @.spawned THEN Settle(@) ELSE Absent]
    /\ UNCHANGED <<handoffVars, surfaceVars, next_conn_id, idle, sessionVars>>

\* handle_broker_ready takes one frame.
BrokerReads(c, frame) ==
    /\ connections[c].here /\ c \notin idle
    /\ fromBroker[c] # <<>> /\ Head(fromBroker[c]) = frame
    /\ fromBroker' = [fromBroker EXCEPT ![c] = Tail(@)]
    /\ UNCHANGED <<surfaceVars, next_conn_id, session>>

\* The end of handle_broker_ready: without a greeter source, the ConnState is
\* dropped by an idle callback.
BrokerTerminates(c) ==
    /\ connections' = [connections EXCEPT ![c].terminate = TRUE]
    /\ idle' = IF connections[c].greeter THEN idle ELSE idle \cup {c}

\* With arm_leader_pidfd_backstop, which may find no pidfd or fail.
BrokerSaysOpened(c) ==
    /\ BrokerReads(c, "SessionOpened")
    /\ TurnKey("opened", c)
    /\ \E armed \in BOOLEAN :
          connections' = [connections EXCEPT ![c].pidfd = armed]
    /\ UNCHANGED idle

\* Mutant: the end of the session is left to the other two cues.
BrokerSaysEndedQuiet(c) ==
    /\ BrokerReads(c, "SessionEnded")
    /\ BrokerTerminates(c)
    /\ UNCHANGED handoffVars

BrokerSaysEnded(c) ==
    /\ BrokerReads(c, "SessionEnded")
    /\ EndSession
    /\ BrokerTerminates(c)

\* The end of the channel: fail_closed owes the greeter a reply.
BrokerGone(c) ==
    /\ BrokerReads(c, "EOF")
    /\ BrokerTerminates(c)
    /\ UNCHANGED handoffVars

\* The idle callback: the pidfd source goes with the ConnState.
IdleDrop(c) ==
    /\ c \in idle
    /\ idle' = idle \ {c}
    /\ connections' = [connections EXCEPT ![c] = Absent]
    /\ UNCHANGED <<handoffVars, surfaceVars, next_conn_id,
                   sessionVars>>

\* handle_leader_pidfd_ready
LeaderPidfdReady(c) ==
    /\ connections[c].pidfd /\ session[c].leader = "exited"
    /\ connections' = [connections EXCEPT ![c].pidfd = FALSE]
    /\ EndSession
    /\ UNCHANGED <<surfaceVars, next_conn_id, idle, sessionVars>>

----------------------------------------------------------------------------
(* The sessions, behind the broker.                                        *)

\* The leader runs, and the worker has said so.
SessionOpens(c) ==
    /\ connections[c].here /\ session[c].leader = "starting" /\ ~session[c].lost
    /\ session' = [session EXCEPT ![c].leader = "running"]
    /\ fromBroker' = [fromBroker EXCEPT ![c] = Append(@, "SessionOpened")]
    /\ UNCHANGED <<handoffVars, surfaceVars, connVars>>

\* The leader is gone, and the broker, if it still serves the channel, says so.
LeaderExits(c) ==
    /\ session[c].leader = "running"
    /\ session' = [session EXCEPT ![c].leader = "exited"]
    /\ fromBroker' = IF connections[c].here /\ ~session[c].lost
                     THEN [fromBroker EXCEPT ![c] = Append(@, "SessionEnded")]
                     ELSE fromBroker
    /\ UNCHANGED <<handoffVars, surfaceVars, connVars>>

\* The broker refuses, fails or dies.  A session that runs may outlive it.
BrokerHangsUp(c) ==
    /\ connections[c].here /\ ~connections[c].terminate /\ ~session[c].lost
    /\ session[c].leader # "exited"
    /\ session' = [session EXCEPT ![c].leader = IF @ = "starting" THEN "exited" ELSE @,
                                  ![c].lost = TRUE]
    /\ fromBroker' = [fromBroker EXCEPT ![c] = Append(@, "EOF")]
    /\ UNCHANGED <<handoffVars, surfaceVars, connVars>>

\* A greeter ends by itself.
GreeterExits(g) ==
    /\ g \in LiveGreeters
    /\ greeters' = [greeters EXCEPT ![g] = "dead"]
    /\ UNCHANGED <<swap, foreground, session_uid, greeter,
                   surfaceVars, connVars, sessionVars>>

----------------------------------------------------------------------------
(* The Wayland clients.                                                    *)

\* The accept of a session's client: wayland_peer_authorized.
ClientConnects(c) ==
    /\ session[c].leader = "running" /\ c \notin clients
    /\ session_uid = session[c].uid
    /\ clients' = clients \cup {c}
    /\ UNCHANGED <<handoffVars, tops, painted, foreground_toplevel,
                   session_first_frame_emitted, connVars,
                   sessionVars>>

Owned(c) == {t \in tops : t[1] = c}
Alive(c) == IF c = 0 THEN LiveGreeters # {}
            ELSE c \in clients /\ session[c].leader # "exited"
Gone(c) == ~Alive(c)

\* Mutant: whose toplevel it is is not asked.
OfSessionAny(t) == session_uid # None

\* surface_client_uid, for a client that is still there.
OfSession(t) == t[1] # 0 /\ session_uid # None /\ session[t[1]].uid = session_uid

\* new_toplevel.  A greeter maps its window before it starts a session.
NewToplevel(t) ==
    /\ Alive(t[1]) /\ t \notin tops
    /\ t[1] = 0 => session_uid = None
    /\ tops' = tops \cup {t}
    /\ foreground_toplevel' = t
    /\ UNCHANGED <<handoffVars, clients, painted,
                   session_first_frame_emitted, connVars,
                   sessionVars>>

\* CompositorHandler::commit of a buffer on a toplevel: the session's first
\* frame turns the second key.
Commit(t) ==
    /\ t \in tops /\ Alive(t[1])
    /\ painted' = painted \cup {t}
    /\ IF OfSession(t) /\ ~session_first_frame_emitted
       THEN session_first_frame_emitted' = TRUE /\ TurnKey("frame", t[1])
       ELSE ApplyNone(swap) /\ UNCHANGED session_first_frame_emitted
    /\ UNCHANGED <<clients, tops, foreground_toplevel, connVars, sessionVars>>

\* toplevel_destroyed.  The uid of a client that is disconnecting may no longer
\* be known (surface_client_uid).
ToplevelDestroyed(t) ==
    /\ t \in tops
    /\ tops' = tops \ {t} /\ painted' = painted \ {t}
    /\ IF foreground_toplevel = t
       THEN /\ foreground_toplevel' = None
            /\ \/ OfSession(t) /\ EndSession
               \/ /\ ~OfSession(t) \/ Gone(t[1])
                  /\ ApplyNone(swap)
       ELSE ApplyNone(swap) /\ UNCHANGED foreground_toplevel
    /\ UNCHANGED <<clients, session_first_frame_emitted,
                   connVars, sessionVars>>

ClientLeaves(c) ==
    /\ c \in clients /\ Owned(c) = {}
    /\ clients' = clients \ {c}
    /\ UNCHANGED <<handoffVars, tops, painted, foreground_toplevel,
                   session_first_frame_emitted, connVars,
                   sessionVars>>

----------------------------------------------------------------------------

\* A callback of a connection's sources.
ConnectionStep(c) ==
    \/ \E u \in Users : StartSession(c, u)
    \/ GreeterCloses(c) \/ GreeterWritable(c)
    \/ BrokerSaysOpened(c) \/ BrokerSaysEnded(c) \/ BrokerGone(c)
    \/ IdleDrop(c) \/ LeaderPidfdReady(c)

SessionStep(c) ==
    \/ SessionOpens(c) \/ LeaderExits(c) \/ BrokerHangsUp(c)
    \/ ClientConnects(c) \/ ClientLeaves(c)

SurfaceStep ==
    \/ \E t \in Top : NewToplevel(t) \/ Commit(t) \/ ToplevelDestroyed(t)

Next ==
    \/ Accept
    \/ \E c \in Login : ConnectionStep(c) \/ SessionStep(c)
    \/ \E g \in Greeter : GreeterExits(g)
    \/ SurfaceStep

Spec == Init /\ [][Next]_vars

\* The loop serves ready sources as long as there are any, and a client whose
\* process is gone is disconnected.
Fairness ==
    /\ WF_vars(\E c \in Login :
                  \/ GreeterWritable(c) \/ IdleDrop(c) \/ LeaderPidfdReady(c)
                  \/ BrokerSaysOpened(c) \/ BrokerSaysEnded(c) \/ BrokerGone(c))
    /\ WF_vars(\E t \in tops : Gone(t[1]) /\ ToplevelDestroyed(t))

FairSpec == Spec /\ Fairness

----------------------------------------------------------------------------

\* A greeter the compositor was told of does not outlive the swap: while the
\* session is the foreground none is running, whichever spawn, exit, swap and
\* revert came before (apply_swap_action).
NoGreeterBehindSession ==
    foreground = "Session" => \A g \in Greeter : greeters[g] # "live"

\* The two keys of a swap are of one session: neither what an ended session
\* left behind nor a greeter's frame makes up for a key of the next one.  Only
\* a session the broker hung up on leaves a key behind (handle_broker_ready
\* does not tell the gate of a lost channel).
KeysOfOneSession ==
    swap.phase = "Swapped" =>
        \/ swap.opened = swap.frame
        \/ session[swap.opened].lost \/ session[swap.frame].lost

\* A gate that waits for its keys is disarmed only by the session: by its end or
\* by one of its toplevels closing, never by the greeter's window going away in
\* the middle of the hand-off (toplevel_destroyed).
DisarmedBySession ==
    [][swap.phase = "Arming" /\ swap'.phase = "Done" =>
          \E c \in Login : session[c].leader = "exited" \/ Owned(c) # Owned(c)']_vars

\* A session that ends while it is the foreground brings the greeter's
\* foreground back, whichever of SessionEnded, the leader's pidfd and the end
\* of its client comes first, and whichever of them is missing (A5.5, A5.6).
GreeterReturns ==
    (/\ foreground = "Session" /\ session[swap.opened].leader = "exited"
     /\ ~session[swap.opened].lost)
    ~> foreground = "Greeter"

\* The ConnState of a session that has ended is dropped, whichever of its three
\* sources is left to do it: else MAX_GREETD_CONNECTIONS logouts would end all
\* logins (handle_connection_ready, handle_broker_ready).
Ended == {c \in Open : session[c].leader = "exited"}
ConnectionsReleased == Ended # {} ~> Ended = {}

----------------------------------------------------------------------------
(* What the code says of itself and does not do.                           *)

\* A revert clears what "blocked the next login from succeeding" (main.rs): a
\* session that follows another one, is open and has painted, is swapped to.
Ready ==
    \E c \in Login :
        /\ Served(c) /\ session[c].leader = "running" /\ fromBroker[c] = <<>>
        /\ clients = {c} /\ Owned(c) \cap painted # {}
        /\ \E d \in Login : session[d].leader = "exited" /\ ~session[d].lost
NextLoginSwaps == Ready ~> (foreground = "Session" \/ ~Ready)

=============================================================================
