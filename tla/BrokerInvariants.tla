-------------------------- MODULE BrokerInvariants --------------------------
(***************************************************************************)
(* The inductive invariants behind the broker's safety properties, in the  *)
(* order in which the proofs establish them: each is                       *)
(* preserved by every step, given the ones before it.                      *)
(***************************************************************************)
EXTENDS Broker

\* A process that is not running holds nothing.
DownInv ==
    broker = "down" =>
        /\ pending = <<>> /\ fired = {} /\ active = None
        /\ slot = None /\ children = {} /\ idle = None

IdleInv == DownInv /\ IdleIffQuiet

\* Connection c has not been given a worker, nor been told anything.
Fresh(c) ==
    /\ proc[c] = "none" /\ step[c] = "authenticate" /\ c \notin blocked
    /\ toWorker[c] = <<>> /\ fromWorker[c] = <<>>
    /\ pam[c] = {} /\ leader[c] = "none" /\ told[c] = <<>>
    /\ c \notin children /\ c \notin brokerEnd

\* Who owns the worker in the slot.
SlotInv ==
    /\ ActiveOwnsSlot
    /\ SingleWorker
    /\ slot # None => slot \in children /\ slot \in brokerEnd

\* The backlog and the queue hold each connection once, and only
\* connections that are still fresh; so each is served at most once.
PlacementInv ==
    /\ \A c \in Conns : peer[c] = "none" => ~Queued(c) /\ ~IsPending(c)
    /\ \A c \in Conns : peer[c] = "none" \/ Queued(c) \/ IsPending(c) => Fresh(c)
    /\ \A c \in Conns : ~(Queued(c) /\ IsPending(c))
    /\ IsInjective(backlog) /\ IsInjective(pending)

\* The queue is bounded, and passed the uid gate.
QueueInv ==
    /\ Len(pending) <= MaxPending
    /\ \A c \in Range(pending) : puid[c] \in {"root", "relay"}

\* What is left of a worker that is not running.
ProcOk(w) ==
    /\ w \in children => proc[w] \in {"live", "zombie"}
    /\ proc[w] = "zombie" => w \in children
    /\ proc[w] \in {"none", "live"} <=> step[w] # "exited"
    /\ w \in blocked => proc[w] = "live" /\ step[w] \in PamCalls
    /\ w \notin brokerEnd => fromWorker[w] = <<>>
    /\ step[w] \in PamCalls \cup {"spec", "spawn"} => leader[w] # "running"

ProcInv == \A w \in Conns : ProcOk(w)

\* The relay and the worker move in lockstep.  A worker that sent ConvPrompt,
\* AuthOk or a terminal frame sends nothing more until it is answered, so
\* such a frame is the last one in its channel; while the relay awaits the
\* greeter both channels are empty and the worker waits for exactly the frame
\* the relay would forward.
ChannelOk(w) ==
    /\ \A i \in DOMAIN fromWorker[w] :
          /\ fromWorker[w][i] \in {"Failure", "SessionEnded"}
                => proc[w] # "live"
          /\ fromWorker[w][i] \notin {"ConvDisplay", "SessionOpened"}
                => i = Len(fromWorker[w])
          /\ fromWorker[w][i] = "ConvPrompt" =>
                /\ leader[w] # "running"
                /\ proc[w] = "live" => w \in blocked
          /\ fromWorker[w][i] = "AuthOk" =>
                /\ leader[w] # "running"
                /\ proc[w] = "live" => w \notin blocked /\ step[w] = "spec"
    /\ toWorker[w] # <<>> =>
          /\ proc[w] = "live" /\ fromWorker[w] = <<>>
          /\ \/ w \in blocked /\ toWorker[w] = <<"ConvResponse">>
             \/ /\ w \notin blocked /\ step[w] = "spec"
                /\ toWorker[w] = <<"StartSession">>

RelayOk ==
    active # None /\ phase \in AwaitPhases =>
        /\ toWorker[active] = <<>> /\ fromWorker[active] = <<>>
        /\ leader[active] # "running"
        /\ proc[active] = "live" =>
              IF phase = "AwaitGreeterConvResponse" THEN active \in blocked
              ELSE active \notin blocked /\ step[active] = "spec"

LockstepInv == RelayOk /\ \A w \in Conns : ChannelOk(w)

\* How far a worker has come tells what PAM granted and what the connection
\* was told.
Granted(c) == {"auth", "acct"} \subseteq pam[c]
ToldSuccess(c) == \E i \in DOMAIN told[c] : told[c][i] = "Success"

AuthPhaseOk(w) ==
    /\ step[w] = "acct_mgmt" => "auth" \in pam[w]
    /\ step[w] \in {"setcred", "spec", "open_session", "spawn", "wait",
                    "close_session", "delete_cred"} => Granted(w)
    /\ step[w] \in {"open_session", "spawn", "wait", "close_session",
                    "delete_cred"} => ToldSuccess(w)
    /\ toWorker[w] = <<"StartSession">> => ToldSuccess(w)
    /\ \A i \in DOMAIN fromWorker[w] : fromWorker[w][i] = "AuthOk" => Granted(w)
    /\ leader[w] # "none" => ToldSuccess(w)
    /\ ToldSuccess(w) => Granted(w)

AuthInv ==
    /\ \A w \in Conns : AuthPhaseOk(w)
    /\ active # None /\ phase = "AwaitGreeterStartSession" => ToldSuccess(active)

\* SessionOpened was announced, or will be next.
OpenedSaid(c) ==
    \/ told[c] = <<"Success", "SessionOpened">>
    \/ /\ told[c] = <<"Success">>
       /\ \E j \in DOMAIN fromWorker[c] : fromWorker[c][j] = "SessionOpened"

\* How far the worker of c has come, and what it has said, tells exactly what
\* c was told.
ServiceOk(c) ==
    /\ step[c] \in {"authenticate", "acct_mgmt", "setcred"} => told[c] = <<>>
    /\ toWorker[c] = <<"StartSession">> => told[c] = <<"Success">>
    /\ step[c] \in {"open_session", "spawn"} =>
          /\ told[c] = <<"Success">>
          /\ \A i \in DOMAIN fromWorker[c] : fromWorker[c][i] # "SessionOpened"
    /\ step[c] \in {"wait", "close_session", "delete_cred"} => OpenedSaid(c)
    /\ \A i \in DOMAIN fromWorker[c] :
          /\ fromWorker[c][i] = "AuthOk" => told[c] = <<>>
          /\ fromWorker[c][i] = "SessionOpened" =>
                /\ told[c] = <<"Success">>
                /\ \A j \in DOMAIN fromWorker[c] :
                      fromWorker[c][j] = "SessionOpened" => j = i
          /\ fromWorker[c][i] = "SessionEnded" => OpenedSaid(c)

ServiceInv ==
    active # None =>
        /\ ServiceOk(active)
        /\ phase = "AwaitGreeterStartSession" => told[active] = <<"Success">>

\* The forks of the last Window ticks.
Young == {c \in Conns : spawnAge[c] # None /\ spawnAge[c] < Window}

\* Each of them has an entry of its own among the recent ones, of its own age.
Recorded ==
    \E f \in Injection(Young, DOMAIN recent) :
        \A c \in Young : recent[f[c]] = spawnAge[c]

\* The recent entries are forgotten only by an exit, and while the idle timer
\* runs no fork is younger than it: an idle exit leaves no young fork.
ChurnInv ==
    /\ Len(recent) <= MaxPerWindow
    /\ Recorded
    /\ idle # None => \A c \in Young : idle <= spawnAge[c]
    /\ broker = "down" => Young = {}
=============================================================================
