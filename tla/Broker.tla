------------------------------- MODULE Broker -------------------------------
(***************************************************************************)
(* The event loop of halmasuit-session (broker.rs): it admits connections  *)
(* on the systemd socket, reads the first frame of each, and for BeginAuth *)
(* relays between that connection and the worker in the single AuthSlot    *)
(* (slot.rs).  It exits when idle; PID 1 keeps the socket and starts it    *)
(* again on the next connection.                                           *)
(*                                                                         *)
(* The peer of a connection is the environment: it may send any frame at   *)
(* any time and hang up at any time.  One calloop callback is one action.  *)
(* Ages stand for Instants, and stop growing once the threshold they are   *)
(* compared with is reached.                                               *)
(***************************************************************************)
EXTENDS SessionWorker, FiniteSets, Functions

CONSTANTS None,          \* no connection, no timer
          Uids,          \* who may connect: some of "root", "relay", "other"
          FirstFrames,   \* what a peer may open with
          MaxInFlight,   \* frames a peer may have unread
          MaxPending,    \* MAX_PENDING
          MaxPerWindow,  \* AuthSlot::max_per_window
          Window,        \* AuthSlot::window, in ticks
          IdleExit       \* IDLE_EXIT, in ticks

ASSUME BrokerAssumption ==
    /\ None \notin Conns \cup Nat
    /\ Uids \subseteq {"root", "relay", "other"}
    /\ FirstFrames \subseteq GreeterFrames
    /\ MaxInFlight \in Nat \ {0}
    /\ MaxPending \in Nat /\ MaxPending >= 2
    /\ MaxPerWindow \in Nat
    /\ Window \in Nat \ {0}
    /\ IdleExit \in Nat /\ IdleExit >= Window

VARIABLES peer,      \* the other end of each connection
          puid,      \* its SO_PEERCRED uid
          toBroker,  \* frames it sent that the broker has not read
          backlog,   \* connections accept(2) has not returned yet
          broker,    \* the broker process
          pending,   \* BrokerLoop::pending, oldest first
          fired,     \* connections with a first_frame_ready callback queued
          active,    \* BrokerLoop::active
          phase,     \* its Relay::phase
          slot,      \* AuthSlot::inflight
          recent,    \* AuthSlot::recent, as ages, oldest first
          idle,      \* age of BrokerLoop::idle_since
          inherited, \* workers whose channel a live greeter inherited
          told,      \* history: outcomes sent to each connection
          spawnAge   \* history: age of each fork since the last SIGTERM

clientVars == <<peer, puid, toBroker>>
slotVars == <<slot, recent>>
loopVars == <<broker, pending, fired, active, phase, idle>>
vars == <<wvars, clientVars, slotVars, loopVars, backlog, inherited, told,
          spawnAge>>

AwaitPhases == {"AwaitGreeterConvResponse", "AwaitGreeterStartSession"}
WorkerPhases == {"AwaitWorker", "SessionRunning"}
Milestones == {"Success", "SessionOpened", "SessionEnded", "Failure",
               "RootFd", "GreeterSpawned"}

TypeOK ==
    /\ WorkerTypeOK
    /\ peer \in [Conns -> {"none", "open", "talking", "closed"}]
    /\ puid \in [Conns -> {"root", "relay", "other"}]
    /\ toBroker \in [Conns -> Seq(GreeterFrames)]
    /\ backlog \in Seq(Conns)
    /\ broker \in {"up", "down"}
    /\ pending \in Seq(Conns)
    /\ fired \subseteq Conns
    /\ active \in Conns \cup {None}
    /\ phase \in AwaitPhases \cup WorkerPhases
    /\ slot \in Conns \cup {None}
    /\ recent \in Seq(0..Window)
    /\ idle \in 0..IdleExit \cup {None}
    /\ inherited \subseteq Conns
    /\ told \in [Conns -> Seq(Milestones)]
    /\ spawnAge \in [Conns -> 0..Window \cup {None}]

Init ==
    /\ WorkerInit
    /\ peer = [c \in Conns |-> "none"]
    /\ puid = [c \in Conns |-> "other"]
    /\ toBroker = [c \in Conns |-> <<>>]
    /\ backlog = <<>>
    /\ broker = "down"
    /\ pending = <<>> /\ fired = {}
    /\ active = None /\ phase = "AwaitWorker"
    /\ slot = None /\ recent = <<>>
    /\ idle = None
    /\ inherited = {}
    /\ told = [c \in Conns |-> <<>>]
    /\ spawnAge = [c \in Conns |-> None]

----------------------------------------------------------------------------
(* The peers.                                                              *)

Connect(c) ==
    /\ peer[c] = "none"
    /\ peer' = [peer EXCEPT ![c] = "open"]
    /\ \E u \in Uids : puid' = [puid EXCEPT ![c] = u]
    /\ backlog' = Append(backlog, c)
    /\ UNCHANGED <<wvars, slotVars, loopVars, toBroker, inherited, told,
                   spawnAge>>

\* The broker's end of connection c is open: what a peer does afterwards
\* nobody sees.
IsPending(c) == c \in Range(pending)
Queued(c) == c \in Range(backlog)
Attached(c) == active = c \/ IsPending(c) \/ Queued(c)

PeerSends(c) ==
    /\ peer[c] \in {"open", "talking"} /\ Attached(c)
    /\ Len(toBroker[c]) < MaxInFlight
    /\ \E f \in IF peer[c] = "open" THEN FirstFrames
                ELSE {"ConvResponse", "StartSession", "Cancel"} :
          toBroker' = [toBroker EXCEPT ![c] = Append(@, f)]
    /\ peer' = [peer EXCEPT ![c] = "talking"]
    /\ UNCHANGED <<wvars, slotVars, loopVars, puid, backlog, inherited, told,
                   spawnAge>>

HangUp(c) ==
    /\ peer[c] \in {"open", "talking"} /\ Attached(c)
    /\ peer' = [peer EXCEPT ![c] = "closed"]
    /\ UNCHANGED <<wvars, slotVars, loopVars, puid, toBroker, backlog,
                   inherited, told, spawnAge>>

Readable(c) == toBroker[c] # <<>> \/ peer[c] = "closed"

----------------------------------------------------------------------------
(* Admission.                                                              *)

HasConnection == active # None \/ pending # <<>>

\* Mutant: the queue takes one connection too many.
FullOffByOne == Len(pending) > MaxPending

\* The oldest pending connection makes room when the queue is full.
Full == Len(pending) >= MaxPending
MakeRoom == IF Full THEN Tail(pending) ELSE pending
Evicted == IF Full THEN {Head(pending)} ELSE {}
Drop(D) == toBroker' = [c \in Conns |-> IF c \in D THEN <<>> ELSE toBroker[c]]

\* Mutant: the idle timer keeps running.
AdmitOneKeepsIdle(c) ==
    IF puid[c] \notin {"root", "relay"}
    THEN Drop({c}) /\ UNCHANGED <<pending, idle>>
    ELSE /\ pending' = Append(MakeRoom, c)
         /\ Drop(Evicted)
         /\ UNCHANGED idle

\* admit_one, past accept(2): the pre-recv uid gate, then the bounded queue.
AdmitOne(c) ==
    IF puid[c] \notin {"root", "relay"}
    THEN Drop({c}) /\ UNCHANGED <<pending, idle>>
    ELSE /\ pending' = Append(MakeRoom, c)
         /\ Drop(Evicted)
         /\ idle' = None

\* admit_one when the pending source cannot be registered.
AdmitFails(c) ==
    /\ "source" \in Faults
    /\ puid[c] \in {"root", "relay"}
    /\ pending' = MakeRoom
    /\ Drop(Evicted \cup {c})
    /\ UNCHANGED idle

\* One turn of the listener's accept loop.  A turn that the loop would take
\* later in the same callback is the same as one for a later connection.
ListenerReady ==
    /\ broker = "up" /\ backlog # <<>>
    /\ AdmitOne(Head(backlog)) \/ AdmitFails(Head(backlog))
    /\ backlog' = Tail(backlog)
    /\ UNCHANGED <<wvars, peer, puid, slotVars, broker, fired, active, phase,
                   inherited, told, spawnAge>>

\* Mutant: the source fires for a frame, and not for a hang-up.
PendingFiresOnFrame(c) ==
    /\ broker = "up" /\ IsPending(c) /\ c \notin fired /\ toBroker[c] # <<>>
    /\ fired' = fired \cup {c}
    /\ UNCHANGED <<wvars, clientVars, slotVars, broker, pending, active, phase,
                   idle, backlog, inherited, told, spawnAge>>

\* The pending source fires: it removes itself and queues first_frame_ready.
PendingFires(c) ==
    /\ broker = "up" /\ IsPending(c) /\ c \notin fired /\ Readable(c)
    /\ fired' = fired \cup {c}
    /\ UNCHANGED <<wvars, clientVars, slotVars, broker, pending, active, phase,
                   idle, backlog, inherited, told, spawnAge>>

\* VecDeque::remove.
Remove(q, i) == SubSeq(q, 1, i - 1) \o SubSeq(q, i + 1, Len(q))

WithoutPending(c) ==
    Remove(pending, CHOOSE i \in DOMAIN pending : pending[i] = c)

\* first_frame_ready for a connection that was evicted from the queue.
FirstFrameStale(c) ==
    /\ broker = "up" /\ c \in fired /\ ~IsPending(c)
    /\ fired' = fired \ {c}
    /\ UNCHANGED <<wvars, clientVars, slotVars, broker, pending, active, phase,
                   idle, backlog, inherited, told, spawnAge>>

\* first_frame_ready up to the frame it reads.
TakePending(c) ==
    /\ broker = "up" /\ c \in fired /\ IsPending(c)
    /\ fired' = fired \ {c}
    /\ pending' = WithoutPending(c)

Opens(c, f) == toBroker[c] # <<>> /\ Head(toBroker[c]) = f

\* Mutant: the idle timer is never armed again.
ArmIdleNever(conn, queue) == UNCHANGED idle

\* arm_idle_if_quiet, on the state the callback leaves behind.
ArmIdleIfQuiet(conn, queue) ==
    idle' = IF conn = None /\ queue = <<>> THEN 0 ELSE idle

\* Tell connection c of f.  compositor.send fails when it has hung up.
Tell(c, f) ==
    told' = IF peer[c] = "closed" THEN told
            ELSE [told EXCEPT ![c] = Append(@, f)]

\* The frames served or refused on the spot; EOF before any frame.
FirstFrameHandled(c) ==
    /\ TakePending(c)
    /\ \/ /\ ~Opens(c, "BeginAuth")
          /\ UNCHANGED <<told, inherited>>
       \/ /\ Opens(c, "RequestRootFd")
          /\ Tell(c, "RootFd")
          /\ UNCHANGED inherited
       \/ /\ Opens(c, "SpawnGreeter")
          /\ Tell(c, "GreeterSpawned")
          /\ inherited' = inherited \cup ({slot} \ {None})
    /\ ArmIdleIfQuiet(active, pending')
    /\ toBroker' = [toBroker EXCEPT ![c] = <<>>]
    /\ UNCHANGED <<wvars, slotVars, broker, active, phase, peer, puid, backlog,
                   spawnAge>>

\* A greeter that inherited the broker's end of w's channel is gone.
GreeterGone(w) ==
    /\ w \in inherited
    /\ inherited' = inherited \ {w}
    /\ IF slot = w
       THEN UNCHANGED <<brokerEnd, fromWorker>>
       ELSE /\ brokerEnd' = brokerEnd \ {w}
            /\ fromWorker' = [fromWorker EXCEPT ![w] = <<>>]
    /\ UNCHANGED <<proc, step, blocked, toWorker, pam, leader, children,
                   clientVars, slotVars, loopVars, backlog, told, spawnAge>>

----------------------------------------------------------------------------
(* AuthSlot.                                                               *)

\* The entries create_at keeps: it pops the front while it is too old.
Prune(r) ==
    LET fresh == {i \in DOMAIN r : r[i] < Window}
        first == CHOOSE i \in fresh : \A j \in fresh : i <= j
    IN  IF fresh = {} THEN <<>> ELSE SubSeq(r, first, Len(r))

\* Mutant: the old worker is not waited for.
ReplaceWorkerNoReap(c) ==
    /\ slot' = c
    /\ proc' = [w \in Conns |-> IF w = c THEN "live"
                               ELSE IF w = slot THEN "zombie" ELSE proc[w]]
    /\ children' = children \cup ({c} \ {None})
    /\ brokerEnd' = (brokerEnd \ ({slot} \ inherited)) \cup ({c} \ {None})
    /\ Gone({slot})
    /\ fromWorker' = [w \in Conns |-> IF w = slot THEN <<>> ELSE fromWorker[w]]
    /\ UNCHANGED <<pam, leader>>

\* The worker in flight is killed if it still runs and waited for, its
\* channel dropped, and worker c (if any) takes its place.
ReplaceWorker(c) ==
    /\ slot' = c
    /\ proc' = [w \in Conns |-> IF w = c THEN "live"
                               ELSE IF w = slot THEN "reaped" ELSE proc[w]]
    /\ children' = (children \ {slot}) \cup ({c} \ {None})
    /\ brokerEnd' = (brokerEnd \ ({slot} \ inherited)) \cup ({c} \ {None})
    /\ Gone({slot})
    /\ fromWorker' = [w \in Conns |-> IF w = slot THEN <<>> ELSE fromWorker[w]]
    /\ UNCHANGED <<pam, leader>>

\* create_at refuses before it touches the worker in flight.
SlotRefuses(c) ==
    /\ \/ puid[c] # "relay" /\ UNCHANGED recent
       \/ /\ puid[c] = "relay"
          /\ recent' = Prune(recent)
          /\ Len(recent') >= MaxPerWindow
    /\ UNCHANGED <<wvars, slot, spawnAge>>

\* create_at passes both gates, evicts, and the spawn fails.
SpawnFails(c) ==
    /\ "fork" \in Faults
    /\ puid[c] = "relay"
    /\ recent' = Prune(recent)
    /\ Len(recent') < MaxPerWindow
    /\ ReplaceWorker(None)
    /\ UNCHANGED spawnAge

\* Mutant: the churn bound is off by one.
SlotInstallsOneMore(c) ==
    /\ puid[c] = "relay"
    /\ Len(Prune(recent)) <= MaxPerWindow
    /\ recent' = Append(Prune(recent), 0)
    /\ ReplaceWorker(c)
    /\ spawnAge' = [spawnAge EXCEPT ![c] = 0]

\* create_at passes both gates, evicts, and installs the new worker.
SlotInstalls(c) ==
    /\ puid[c] = "relay"
    /\ Len(Prune(recent)) < MaxPerWindow
    /\ recent' = Append(Prune(recent), 0)
    /\ ReplaceWorker(c)
    /\ spawnAge' = [spawnAge EXCEPT ![c] = 0]

\* first_frame_ready on BeginAuth, that is activate: the old relay goes first,
\* whatever create_at then says, and its connection with it.
Superseded(c) == [d \in Conns |-> IF d \in {active, c} THEN <<>> ELSE toBroker[d]]

\* Mutant: the old relay stays when create_at fails.
ActivateKeepsRelay(c) ==
    /\ TakePending(c) /\ Opens(c, "BeginAuth")
    /\ \/ /\ SlotRefuses(c) \/ SpawnFails(c)
          /\ ArmIdleIfQuiet(active, pending')
          /\ toBroker' = [toBroker EXCEPT ![c] = <<>>]
          /\ UNCHANGED <<active, phase>>
       \/ /\ SlotInstalls(c)
          /\ active' = c
          /\ phase' = "AwaitWorker"
          /\ idle' = None
          /\ toBroker' = [Superseded(c) EXCEPT ![c] = Tail(toBroker[c])]
    /\ UNCHANGED <<broker, peer, puid, backlog, inherited, told>>

Activate(c) ==
    /\ TakePending(c) /\ Opens(c, "BeginAuth")
    /\ \/ /\ SlotRefuses(c) \/ SpawnFails(c)
          /\ active' = None
          /\ ArmIdleIfQuiet(None, pending')
          /\ toBroker' = Superseded(c)
          /\ UNCHANGED phase
       \/ /\ SlotInstalls(c)
          /\ active' = c
          /\ phase' = "AwaitWorker"
          /\ idle' = None
          /\ toBroker' = [Superseded(c) EXCEPT ![c] = Tail(toBroker[c])]
       \/ /\ "source" \in Faults   \* the relay's sources cannot be armed
          /\ SlotInstalls(c)
          /\ active' = None
          /\ ArmIdleIfQuiet(None, pending')
          /\ toBroker' = Superseded(c)
          /\ UNCHANGED phase
    /\ UNCHANGED <<broker, peer, puid, backlog, inherited, told>>

----------------------------------------------------------------------------
(* The relay of the active connection.                                     *)

\* step on Finished and on Err alike: drop_active, then the slot is reaped.
EndConnection ==
    /\ active' = None
    /\ ArmIdleIfQuiet(None, pending)
    /\ ReplaceWorker(None)
    /\ toBroker' = [toBroker EXCEPT ![active] = <<>>]
    /\ UNCHANGED <<recent, broker, pending, fired, phase, peer, puid, backlog,
                   inherited, spawnAge>>

RelayStays ==
    UNCHANGED <<slotVars, broker, pending, fired, active, idle, proc, step,
                blocked, pam, leader, brokerEnd, children, backlog, inherited,
                spawnAge>>

\* on_worker_readable gets frame f and can pass it on.
WorkerSays(f) ==
    /\ broker = "up" /\ active # None /\ phase \in WorkerPhases
    /\ slot # None /\ fromWorker[slot] # <<>> /\ Head(fromWorker[slot]) = f
    /\ peer[active] # "closed"

\* The frame is consumed and the relay goes on.
RelayContinues ==
    /\ fromWorker' = [fromWorker EXCEPT ![slot] = Tail(@)]
    /\ UNCHANGED <<toWorker, clientVars>>
    /\ RelayStays

RelayDisplay ==
    /\ WorkerSays("ConvDisplay")
    /\ RelayContinues
    /\ UNCHANGED <<phase, told>>

RelayPrompt ==
    /\ WorkerSays("ConvPrompt")
    /\ phase' = "AwaitGreeterConvResponse"
    /\ RelayContinues
    /\ UNCHANGED told

\* Mutant: Success is not passed on.
RelayAuthOkSilent ==
    /\ WorkerSays("AuthOk")
    /\ phase' = "AwaitGreeterStartSession"
    /\ RelayContinues
    /\ UNCHANGED told

RelayAuthOk ==
    /\ WorkerSays("AuthOk")
    /\ phase' = "AwaitGreeterStartSession"
    /\ Tell(active, "Success")
    /\ RelayContinues

RelaySessionOpened ==
    /\ WorkerSays("SessionOpened")
    /\ phase' = "SessionRunning"
    /\ Tell(active, "SessionOpened")
    /\ RelayContinues

\* The terminal frames.  reap_current only waits, so the worker has exited.
RelayOutcome ==
    /\ \E f \in {"SessionEnded", "Failure"} :
          WorkerSays(f) /\ Tell(active, f)
    /\ proc[slot] = "zombie"
    /\ EndConnection

\* Mutant: a worker that dies while the greeter is awaited goes unnoticed.
WorkerSideErrorInPhase ==
    /\ broker = "up" /\ active # None /\ WorkerReadable(active)
    /\ phase \in WorkerPhases
    /\ slot = None \/ fromWorker[slot] = <<>> \/ peer[active] = "closed"
    /\ EndConnection
    /\ UNCHANGED told

\* The worker's side is readable and on_worker_readable fails: out of phase,
\* EOF, or the connection cannot be written to.
WorkerSideError ==
    /\ broker = "up" /\ active # None /\ WorkerReadable(active)
    /\ \/ phase \notin WorkerPhases
       \/ slot = None
       \/ fromWorker[slot] = <<>>
       \/ peer[active] = "closed"
    /\ EndConnection
    /\ UNCHANGED told

\* on_greeter_readable forwards the frame its phase waits for.
Expected == IF phase = "AwaitGreeterConvResponse" THEN "ConvResponse"
            ELSE "StartSession"

\* Mutant: a frame is forwarded in any phase.
RelayToWorkerAnyPhase ==
    /\ broker = "up" /\ active # None
    /\ Opens(active, Expected)
    /\ slot # None /\ WorkerEndOpen(slot)
    /\ toBroker' = [toBroker EXCEPT ![active] = Tail(@)]
    /\ toWorker' = [toWorker EXCEPT ![slot] = Append(@, Expected)]
    /\ phase' = "AwaitWorker"
    /\ RelayStays
    /\ UNCHANGED <<fromWorker, peer, puid, told>>

RelayToWorker ==
    /\ broker = "up" /\ active # None /\ phase \in AwaitPhases
    /\ Opens(active, Expected)
    /\ slot # None /\ WorkerEndOpen(slot)
    /\ toBroker' = [toBroker EXCEPT ![active] = Tail(@)]
    /\ toWorker' = [toWorker EXCEPT ![slot] = Append(@, Expected)]
    /\ phase' = "AwaitWorker"
    /\ RelayStays
    /\ UNCHANGED <<fromWorker, peer, puid, told>>

\* Mutant: the connection's side is ignored while the worker is awaited.
GreeterSideEndsInPhase ==
    /\ broker = "up" /\ active # None /\ Readable(active)
    /\ phase \in AwaitPhases
    /\ ~Opens(active, Expected) \/ slot = None \/ ~WorkerEndOpen(slot)
    /\ EndConnection
    /\ UNCHANGED told

\* The connection's side is readable and it ends there: out of phase, EOF,
\* Cancel, another frame, or the worker cannot be written to.
GreeterSideEnds ==
    /\ broker = "up" /\ active # None /\ Readable(active)
    /\ \/ phase \in WorkerPhases
       \/ ~Opens(active, Expected)
       \/ slot = None
       \/ ~WorkerEndOpen(slot)
    /\ EndConnection
    /\ UNCHANGED told

----------------------------------------------------------------------------
(* The process.                                                            *)

\* The process exits with whatever it holds: its sockets close, its children
\* pass to init.  backlog' is what is left on PID 1's socket.
BrokerExits ==
    /\ broker' = "down"
    /\ pending' = <<>> /\ fired' = {} /\ active' = None /\ idle' = None
    /\ slot' = None /\ recent' = <<>>
    /\ brokerEnd' = brokerEnd \cap inherited
    /\ children' = {}
    /\ proc' = [w \in Conns |-> IF proc[w] = "zombie" THEN "reaped" ELSE proc[w]]
    /\ fromWorker' = [w \in Conns |-> <<>>]
    /\ Drop({c \in Conns : Attached(c) /\ ~Queued(c)'})
    /\ UNCHANGED <<phase, step, blocked, toWorker, pam, leader, peer, puid,
                   inherited, told>>

\* The check after each dispatch, with its race-drain.
IdleElapsed == broker = "up" /\ ~HasConnection /\ idle = IdleExit

IdleExits ==
    /\ IdleElapsed /\ backlog = <<>>
    /\ UNCHANGED backlog
    /\ BrokerExits
    /\ UNCHANGED spawnAge

RaceDrain ==
    /\ IdleElapsed /\ backlog # <<>>
    /\ AdmitOne(Head(backlog))
    /\ backlog' = Tail(backlog)
    /\ UNCHANGED <<wvars, peer, puid, slotVars, broker, fired, active, phase,
                   inherited, told, spawnAge>>

\* The race-drain accepts a connection it cannot register, and that error
\* ends the loop.
RaceDrainFails ==
    /\ IdleElapsed /\ backlog # <<>>
    /\ "source" \in Faults /\ puid[Head(backlog)] \in {"root", "relay"}
    /\ backlog' = Tail(backlog)
    /\ BrokerExits
    /\ UNCHANGED spawnAge

\* SIGTERM, SIGINT or RuntimeMaxSec; the loop returns.
Sigterm ==
    /\ "sigterm" \in Faults /\ broker = "up"
    /\ UNCHANGED backlog
    /\ BrokerExits
    /\ spawnAge' = [c \in Conns |-> None]

\* PID 1 starts the unit when its socket has a connection: BrokerLoop::new.
SocketActivates ==
    /\ broker = "down" /\ backlog # <<>>
    /\ broker' = "up" /\ idle' = 0
    /\ UNCHANGED <<wvars, clientVars, slotVars, pending, fired, active, phase,
                   backlog, inherited, told, spawnAge>>

Older(age, limit) == IF age = None \/ age = limit THEN age ELSE age + 1

Tick ==
    /\ idle' = Older(idle, IdleExit)
    /\ recent' = [i \in DOMAIN recent |-> Older(recent[i], Window)]
    /\ spawnAge' = [c \in Conns |-> Older(spawnAge[c], Window)]
    /\ <<idle, recent, spawnAge>>' # <<idle, recent, spawnAge>>
    /\ UNCHANGED <<wvars, clientVars, slot, broker, pending, fired, active,
                   phase, backlog, inherited, told>>

----------------------------------------------------------------------------
WorkerSide ==
    \/ RelayDisplay \/ RelayPrompt \/ RelayAuthOk \/ RelaySessionOpened
    \/ RelayOutcome \/ WorkerSideError

GreeterSide == RelayToWorker \/ GreeterSideEnds

FirstFrameReady(c) ==
    FirstFrameStale(c) \/ FirstFrameHandled(c) \/ Activate(c)

brokerVars == <<clientVars, slotVars, loopVars, backlog, inherited, told,
                spawnAge>>

Worker(w) == WorkerNext(w) /\ UNCHANGED brokerVars

Next ==
    \/ \E c \in Conns :
          \/ Connect(c) \/ PeerSends(c) \/ HangUp(c)
          \/ PendingFires(c) \/ FirstFrameReady(c)
          \/ GreeterGone(c) \/ Worker(c)
    \/ ListenerReady \/ WorkerSide \/ GreeterSide
    \/ IdleExits \/ RaceDrain \/ RaceDrainFails \/ Sigterm
    \/ SocketActivates \/ Tick

Spec == Init /\ [][Next]_vars

\* calloop is level-triggered and its dispatch never stops, PID 1 watches the
\* socket, time passes, and PAM calls return.  Peers, sessions and crashes
\* are not obliged to happen.
Fairness ==
    /\ WF_vars(ListenerReady)
    /\ WF_vars(\E c \in Conns : PendingFires(c) \/ FirstFrameReady(c))
    /\ WF_vars(WorkerSide) /\ WF_vars(GreeterSide)
    /\ WF_vars(IdleExits \/ RaceDrain \/ RaceDrainFails)
    /\ WF_vars(SocketActivates)
    /\ WF_vars(Tick)
    /\ \A w \in Conns : WF_vars(WorkerStep(w) /\ UNCHANGED brokerVars)

FairSpec == Spec /\ Fairness

----------------------------------------------------------------------------
(* What the broker promises.                                               *)

\* The relay in flight always talks to the worker forked for its own
\* connection, and that worker is not reaped under it.
ActiveOwnsSlot == active # None => slot = active /\ active \in children

\* Strict single slot: the broker never has an unreaped worker other than
\* the one in the slot, across evictions, failed spawns and cancels.
SingleWorker == children \subseteq {slot}

\* A live worker never finds a frame it did not ask for: a ConvResponse is
\* there only while it waits in respond, a StartSession only while it waits
\* for the spec, and never more than one.
AnswersMatchPrompts ==
    \A w \in Conns :
        proc[w] = "live" /\ toWorker[w] # <<>> =>
            \/ w \in blocked /\ toWorker[w] = <<"ConvResponse">>
            \/ /\ w \notin blocked /\ step[w] = "spec"
               /\ toWorker[w] = <<"StartSession">>

\* A session leader exists only for a connection that was told Success, and
\* Success is told only after pam_authenticate and pam_acct_mgmt both
\* succeeded in the worker of that very connection.
NoSessionWithoutAuth ==
    \A c \in Conns :
        /\ leader[c] # "none" => \E i \in DOMAIN told[c] : told[c][i] = "Success"
        /\ (\E i \in DOMAIN told[c] : told[c][i] = "Success")
              => {"auth", "acct"} \subseteq pam[c]

\* The idle timer runs exactly while nothing is in flight: a broker that
\* serves a connection cannot idle out, and a quiet one always will.
IdleIffQuiet == idle # None <=> broker = "up" /\ ~HasConnection

\* Only root and the relay peer get into the queue, it never exceeds its cap,
\* and no connection is admitted twice or while it is being served.
AdmissionBounded ==
    /\ Len(pending) <= MaxPending
    /\ IsInjective(pending)
    /\ \A c \in Range(pending) :
          puid[c] \in {"root", "relay"} /\ c # active /\ c # slot

\* Any Window ticks see at most MaxPerWindow forks, also across an idle exit
\* and a new activation, which forget the recent entries.
ChurnBound ==
    Cardinality({c \in Conns : spawnAge[c] # None /\ spawnAge[c] < Window})
        <= MaxPerWindow

\* A peer that hangs up, in any phase, gets its worker reaped.
HangUpReaps ==
    \A c \in Conns :
        active = c /\ peer[c] = "closed" ~> active # c /\ c \notin children

\* A worker that dies, in any phase, is reaped once nothing holds its end.
DeadWorkerReaped ==
    \A c \in Conns :
        active = c /\ ~WorkerEndOpen(c) ~> active # c /\ c \notin children

\* A connection in the backlog, or in the queue with a frame or a hang-up to
\* read, is dealt with, whatever idle exits it races with, unless the unit is
\* stopped over and over.
ConnectionsServed ==
    \/ []<><<Sigterm>>_vars
    \/ \A c \in Conns :
          LET Waits == Queued(c) \/ (IsPending(c) /\ Readable(c))
          IN  Waits ~> ~Waits

\* A broker with nothing in flight exits unless a connection comes.
QuietBrokerExits ==
    broker = "up" /\ ~HasConnection ~> broker = "down" \/ HasConnection

\* An authentication worker that outlives its broker, its channel closed,
\* gives up and exits.
OrphanWorkerExits ==
    \A w \in Conns :
        proc[w] = "live" /\ w \notin children /\ w \notin brokerEnd
            /\ leader[w] = "none" ~> proc[w] # "live" \/ leader[w] # "none"
=============================================================================
