------------------------- MODULE BrokerRelayProofs --------------------------
(***************************************************************************)
(* The relay and the worker it talks to stay in step, although neither     *)
(* sees the other's state.                                                 *)
(***************************************************************************)
EXTENDS BrokerProofs

USE WorkerAssumption, BrokerAssumption

\* Every step keeps the state of each process coherent: the worker's own steps,
\* and what the broker does to it.
LEMMA ProcStep ==
    TypeOK /\ SlotInv /\ PlacementInv /\ ProcInv /\ [Next]_vars
      => ProcInv'
\* A worker that takes a step of its own keeps its process state coherent.
<1>ProcWorker.
  ASSUME TypeOK, ProcInv, NEW w \in Conns, Worker(w)
  PROVE  ProcInv'
  <2> USE <1>ProcWorker
  <2> USE DEF TypeOK, WorkerTypeOK
  <2>1. WorkerNext(w) /\ UNCHANGED <<children, brokerEnd>>
    BY WorkerKeeps DEF Worker
  <2>2. ASSUME NEW v \in Conns, v # w PROVE ProcOk(v)'
    <3>1. /\ proc'[v] = proc[v] /\ leader'[v] = leader[v] /\ step'[v] = step[v]
          /\ (v \in blocked' <=> v \in blocked) /\ fromWorker'[v] = fromWorker[v]
      BY <2>1, <2>2, WorkerFrame
    <3> QED
      BY <2>1, <3>1 DEF ProcInv, ProcOk
  <2>a. ASSUME ProcOk(w)' PROVE ProcInv'
    BY <2>2, <2>a DEF ProcInv
  <2>3. ProcOk(w)
    BY DEF ProcInv
  <2>4. Running(w) => /\ proc[w] = "live" /\ w \notin blocked
                      /\ step[w] # "exited"
    BY <2>3 DEF Running, ProcOk
  <2>5. ASSUME Exit(w), w \notin brokerEnd => fromWorker'[w] = <<>>
        PROVE  ProcOk(w)'
    BY <2>1, <2>5 DEF Exit, Gone, PamCalls, ProcOk
  <2>6. ASSUME NEW f, Send(w, f)
        PROVE  w \notin brokerEnd => fromWorker'[w] = <<>>
    BY <2>3, <2>6 DEF Send, ProcOk
  <2>7. CASE Display(w)
    <3>1. UNCHANGED <<proc, step, blocked, leader>> /\ Send(w, "ConvDisplay")
      BY <2>7 DEF Display
    <3>2. ProcOk(w)'
      BY <2>1, <2>3, <2>6, <3>1 DEF ProcOk
    <3> QED
      BY <2>a, <3>2
  <2>8. CASE Prompt(w)
    <3>1. /\ UNCHANGED <<proc, step, leader>> /\ Send(w, "ConvPrompt")
          /\ blocked' = blocked \cup {w} /\ proc[w] = "live" /\ step[w] \in PamCalls
      BY <2>4, <2>8 DEF Prompt
    <3>2. ProcOk(w)'
      BY <2>1, <2>3, <2>6, <3>1 DEF ProcOk
    <3> QED
      BY <2>a, <3>2
  <2>9. CASE Respond(w)
    <3>1. UNCHANGED <<proc, step, leader, fromWorker>> /\ blocked' = blocked \ {w}
      BY <2>9 DEF Respond
    <3>2. ProcOk(w)'
      BY <2>1, <2>3, <3>1 DEF ProcOk
    <3> QED
      BY <2>a, <3>2
  <2>10. CASE PamSucceeds(w)
    <3>1. /\ Running(w) /\ UNCHANGED <<proc, blocked, fromWorker, leader>>
          /\ step[w] \in PamCalls
          /\ \E q \in PamCalls \cup {"spawn"} : step' = [step EXCEPT ![w] = q]
      BY <2>10 DEF PamSucceeds, PamReturns, PamCalls
    <3>2. ProcOk(w)'
      BY <2>1, <2>3, <2>4, <3>1 DEF PamCalls, ProcOk
    <3> QED
      BY <2>a, <3>2
  <2>11. CASE AuthOk(w)
    <3>1. CASE w \in brokerEnd
      <4>1. /\ Running(w) /\ step[w] = "setcred"
            /\ UNCHANGED <<proc, blocked, leader>>
            /\ step' = [step EXCEPT ![w] = "spec"]
        BY <2>11, <3>1 DEF AuthOk
      <4>2. ProcOk(w)'
        BY <2>1, <2>3, <2>4, <3>1, <4>1 DEF PamCalls, ProcOk
      <4> QED
        BY <2>a, <4>2
    <3>2. CASE w \notin brokerEnd
      <4>1. Exit(w) /\ UNCHANGED fromWorker
        BY <2>11, <3>2 DEF AuthOk
      <4> QED
        BY <2>3, <2>5, <2>a, <4>1 DEF ProcOk
    <3> QED
      BY <3>1, <3>2
  <2>12. CASE ReadSpec(w)
    <3>1. /\ Running(w) /\ step[w] = "spec"
          /\ UNCHANGED <<proc, blocked, leader, fromWorker>>
          /\ step' = [step EXCEPT ![w] = "open_session"]
      BY <2>12 DEF ReadSpec
    <3>2. ProcOk(w)'
      BY <2>1, <2>3, <2>4, <3>1 DEF PamCalls, ProcOk
    <3> QED
      BY <2>a, <3>2
  <2>13. CASE RefuseSpec(w) \/ CallFails(w) \/ SpawnLeaderFails(w)
    <3>1. Exit(w) /\ Send(w, "Failure")
      BY <2>13 DEF RefuseSpec, CallFails, SpawnLeaderFails, Fail
    <3> QED
      BY <2>5, <2>6, <2>a, <3>1
  <2>14. CASE SessionEnds(w)
    <3>1. Exit(w) /\ Send(w, "SessionEnded")
      BY <2>14 DEF SessionEnds
    <3> QED
      BY <2>5, <2>6, <2>a, <3>1
  <2>15. CASE SpawnLeader(w)
    <3>1. /\ Running(w) /\ Send(w, "SessionOpened")
          /\ UNCHANGED <<proc, blocked>>
          /\ step' = [step EXCEPT ![w] = "wait"]
      BY <2>15 DEF SpawnLeader
    <3>2. ProcOk(w)'
      BY <2>1, <2>3, <2>4, <2>6, <3>1 DEF PamCalls, ProcOk
    <3> QED
      BY <2>a, <3>2
  <2>16. CASE LeaderReaped(w)
    <3>1. /\ Running(w) /\ leader[w] = "exited"
          /\ UNCHANGED <<proc, blocked, leader, fromWorker>>
          /\ step' = [step EXCEPT ![w] = "close_session"]
      BY <2>16 DEF LeaderReaped
    <3>2. ProcOk(w)'
      BY <2>1, <2>3, <2>4, <3>1 DEF PamCalls, ProcOk
    <3> QED
      BY <2>a, <3>2
  <2>17. CASE Crash(w)
    <3>1. Exit(w) /\ UNCHANGED fromWorker
      BY <2>17 DEF Crash
    <3> QED
      BY <2>3, <2>5, <2>a, <3>1 DEF ProcOk
  <2>18. CASE LeaderExits(w)
    <3>1. /\ UNCHANGED <<proc, step, blocked, fromWorker>>
          /\ leader' = [leader EXCEPT ![w] = "exited"]
      BY <2>18 DEF LeaderExits
    <3>2. ProcOk(w)'
      BY <2>1, <2>3, <3>1 DEF ProcOk
    <3> QED
      BY <2>a, <3>2
  <2> QED
    BY <2>1, <2>7, <2>8, <2>9, <2>10, <2>11, <2>12, <2>13, <2>14, <2>15, <2>16,
       <2>17, <2>18 DEF WorkerNext, WorkerStep
\* So does replacing the worker in the slot, for a connection that is fresh.
<1>ProcReplace.
  ASSUME TypeOK, SlotInv, ProcInv, NEW c \in Conns \cup {None},
         c \in Conns => Fresh(c), ReplaceWorker(c)
  PROVE  ProcInv'
  <2> USE <1>ProcReplace
  <2> SUFFICES ASSUME NEW w \in Conns PROVE ProcOk(w)'
    BY DEF ProcInv
  <2> USE DEF TypeOK, WorkerTypeOK
  <2>1. ProcOk(w) /\ children' = {c} \ {None} /\ w # None
    BY SlotReplaced, Zenon DEF ProcInv
  <2>2. CASE w = c
    <3>1. Fresh(w) /\ w # slot
      BY <2>2 DEF SlotInv, Fresh
    <3>2. /\ proc'[w] = "live" /\ step'[w] = "authenticate"
          /\ (w \in blocked' <=> w \in blocked) /\ fromWorker'[w] = fromWorker[w]
          /\ leader' = leader
      BY <2>2, <3>1 DEF ReplaceWorker, Gone, Fresh
    <3>3. w \in children' /\ leader[w] = "none" /\ w \notin blocked /\ fromWorker[w] = <<>>
      BY <2>1, <2>2, <3>1 DEF Fresh
    <3> QED
      BY <3>2, <3>3 DEF ProcOk
  <2>3. CASE w # c /\ w = slot
    <3>1. /\ proc'[w] = "reaped" /\ step'[w] = "exited" /\ w \notin blocked'
          /\ fromWorker'[w] = <<>>
      BY <2>3 DEF ReplaceWorker, Gone
    <3> QED
      BY <2>1, <2>3, <3>1 DEF ProcOk, PamCalls
  <2>4. CASE w # c /\ w # slot
    <3>1. /\ proc'[w] = proc[w] /\ step'[w] = step[w]
          /\ (w \in blocked' <=> w \in blocked) /\ fromWorker'[w] = fromWorker[w]
          /\ leader' = leader /\ (w \in brokerEnd' <=> w \in brokerEnd)
      BY <2>4 DEF ReplaceWorker, Gone
    <3>2. w \notin children
      BY <2>4 DEF SlotInv, SingleWorker
    <3> QED
      BY <2>1, <2>4, <3>1, <3>2 DEF ProcOk
  <2> QED
    BY <2>2, <2>3, <2>4
<1> SUFFICES ASSUME TypeOK, SlotInv, PlacementInv, ProcInv, [Next]_vars
             PROVE  ProcInv'
  OBVIOUS
<1> DEFINE procVars == <<proc, step, blocked, fromWorker, leader, brokerEnd,
                         children>>
<1>1. ASSUME UNCHANGED procVars
      PROVE  ProcInv'
  BY <1>1 DEF ProcInv, ProcOk
<1>2. ASSUME NEW c \in Conns,
             \/ Connect(c) \/ PeerSends(c) \/ HangUp(c) \/ PendingFires(c)
             \/ FirstFrameStale(c) \/ FirstFrameHandled(c)
      PROVE  UNCHANGED procVars
  BY <1>2 DEF Connect, PeerSends, HangUp, PendingFires, FirstFrameStale,
     FirstFrameHandled, wvars
<1>3. ASSUME NEW c \in Conns, Activate(c)
      PROVE  ProcInv'
  <2>1. Fresh(c)
    BY <1>3 DEF Activate, TakePending, PlacementInv
  <2>2. UNCHANGED wvars \/ ReplaceWorker(None) \/ ReplaceWorker(c)
    BY <1>3 DEF Activate, SlotRefuses, SpawnFails, SlotInstalls
  <2>3. CASE UNCHANGED wvars
    BY <1>1, <2>3 DEF wvars
  <2> QED
    BY <2>1, <2>2, <2>3, <1>ProcReplace
<1>4. CASE ListenerReady \/ RaceDrain \/ SocketActivates \/ Tick \/ UNCHANGED vars
  <2>1. UNCHANGED procVars
    BY <1>4 DEF ListenerReady, RaceDrain, SocketActivates, Tick, vars, wvars
  <2> QED
    BY <1>1, <2>1
<1>5. ASSUME EndConnection
      PROVE  ProcInv'
  BY <1>5, <1>ProcReplace DEF EndConnection
<1>6. ASSUME NEW f, WorkerSays(f), RelayContinues
      PROVE  ProcInv'
  <2>1. slot \in Conns /\ slot \in brokerEnd
    BY <1>6 DEF WorkerSays, SlotInv, TypeOK
  <2>2. \A w \in Conns : w # slot => fromWorker'[w] = fromWorker[w]
    BY <1>6 DEF RelayContinues, TypeOK, WorkerTypeOK
  <2>3. UNCHANGED <<proc, step, blocked, leader, brokerEnd, children>>
    BY <1>6 DEF RelayContinues, RelayStays
  <2> QED
    BY <2>1, <2>2, <2>3 DEF ProcInv, ProcOk
<1>7. CASE WorkerSide
  BY <1>5, <1>6, <1>7 DEF WorkerSide, RelayDisplay, RelayPrompt, RelayAuthOk,
     RelaySessionOpened, RelayOutcome, WorkerSideError
<1>8. CASE GreeterSide
  <2>1. CASE RelayToWorker
    <3>1. UNCHANGED procVars
      BY <2>1 DEF RelayToWorker, RelayStays
    <3> QED
      BY <1>1, <3>1
  <2>2. CASE GreeterSideEnds
    BY <1>5, <2>2 DEF GreeterSideEnds
  <2> QED
    BY <1>8, <2>1, <2>2 DEF GreeterSide
<1>9. ASSUME NEW w \in Conns, Worker(w)
      PROVE  ProcInv'
  BY <1>9, <1>ProcWorker
<1>10. ASSUME NEW w \in Conns, GreeterGone(w)
       PROVE  ProcInv'
  <2>1. UNCHANGED <<proc, step, blocked, leader, children>>
    BY <1>10 DEF GreeterGone
  <2>2. CASE slot = w
    <3>1. UNCHANGED <<brokerEnd, fromWorker>>
      BY <1>10, <2>2 DEF GreeterGone
    <3> QED
      BY <1>1, <2>1, <3>1
  <2>3. CASE slot # w
    <3>1. /\ brokerEnd' = brokerEnd \ {w}
          /\ fromWorker' = [fromWorker EXCEPT ![w] = <<>>]
      BY <1>10, <2>3 DEF GreeterGone
    <3> QED
      BY <2>1, <3>1 DEF ProcInv, ProcOk, TypeOK, WorkerTypeOK
  <2> QED
    BY <2>2, <2>3
<1>11. CASE IdleExits \/ RaceDrainFails \/ Sigterm
  <2>1. BrokerExits
    BY <1>11 DEF IdleExits, RaceDrainFails, Sigterm
  <2> SUFFICES ASSUME NEW w \in Conns PROVE ProcOk(w)'
    BY DEF ProcInv
  <2>2. /\ proc'[w] = IF proc[w] = "zombie" THEN "reaped" ELSE proc[w]
        /\ children' = {} /\ fromWorker'[w] = <<>>
        /\ UNCHANGED <<step, blocked, leader>>
    BY <2>1 DEF BrokerExits
  <2> QED
    BY <2>2 DEF ProcInv, ProcOk
<1> HIDE DEF procVars
<1> QED
  BY <1>1, <1>2, <1>3, <1>4, <1>7, <1>8, <1>9, <1>10, <1>11
     DEF Next, FirstFrameReady

\* ProcInv holds in every reachable state.
LEMMA ProcInvariant == Spec => []ProcInv
<1>1. Init => ProcInv
  <2> SUFFICES ASSUME Init, NEW w \in Conns PROVE ProcOk(w)
    BY Zenon DEF ProcInv
  <2>1. /\ proc[w] = "none" /\ step[w] = "authenticate" /\ blocked = {}
        /\ children = {} /\ fromWorker[w] = <<>> /\ leader[w] = "none"
    BY DEF Init, WorkerInit
  <2> QED
    BY <2>1 DEF ProcOk
<1>2. TypeOK /\ SlotInv /\ PlacementInv /\ ProcInv /\ [Next]_vars => ProcInv'
  BY ProcStep
<1> QED
  BY <1>1, <1>2, TypeCorrect, SlotInvariant, PlacementInvariant, PTL DEF Spec

----------------------------------------------------------------------------
(* Lockstep.                                                               *)

\* Worker w has only frames under way that the relay passes on in its stride.
OnlyInfo(w) ==
    /\ \A i \in DOMAIN fromWorker[w] :
          fromWorker[w][i] \in {"ConvDisplay", "SessionOpened"}
    /\ toWorker[w] = <<>>

\* The relay waits for the connection, on behalf of worker w.
Awaited(w) == active = w /\ phase \in AwaitPhases

\* The relay consumes the first frame of its worker.
LEMMA LockstepConsume ==
    ASSUME TypeOK, SlotInv, LockstepInv, NEW f, WorkerSays(f), RelayContinues
    PROVE  /\ \A w \in Conns : ChannelOk(w)'
           /\ slot = active /\ slot \in Conns /\ toWorker'[slot] = <<>>
           /\ f \in {"ConvPrompt", "AuthOk"} => fromWorker'[slot] = <<>>
           /\ 1 \in DOMAIN fromWorker[slot] /\ fromWorker[slot][1] = f
<1> DEFINE s == fromWorker[slot]
           t == Tail(s)
<1>1. /\ slot = active /\ slot \in Conns /\ s # <<>> /\ Head(s) = f
      /\ s \in Seq(WorkerFrames)
  BY DEF WorkerSays, SlotInv, ActiveOwnsSlot, TypeOK, WorkerTypeOK
<1>2. /\ UNCHANGED <<proc, step, blocked, leader, toWorker>>
      /\ fromWorker'[slot] = t
      /\ \A w \in Conns : w # slot => fromWorker'[w] = fromWorker[w]
  BY <1>1 DEF RelayContinues, RelayStays, TypeOK, WorkerTypeOK
<1>3. /\ Len(s) \in Nat \ {0} /\ DOMAIN s = 1..Len(s) /\ s[1] = f
      /\ t \in Seq(WorkerFrames) /\ Len(t) = Len(s) - 1
      /\ \A i \in 1..Len(t) : t[i] = s[i + 1]
  BY <1>1, HeadTailProperties, LenProperties
<1>4. DOMAIN t = 1..(Len(s) - 1)
  BY <1>3, LenProperties, Zenon
<1>5. ChannelOk(slot)
  BY <1>1, Zenon DEF LockstepInv
<1>6. toWorker[slot] = <<>>
  BY <1>1, <1>5 DEF ChannelOk
<1> HIDE DEF s, t
<1>a. \A j \in DOMAIN s :
        /\ s[j] \in {"Failure", "SessionEnded"} => proc[slot] # "live"
        /\ s[j] \notin {"ConvDisplay", "SessionOpened"} => j = Len(s)
        /\ s[j] = "ConvPrompt" =>
              /\ leader[slot] # "running"
              /\ proc[slot] = "live" => slot \in blocked
        /\ s[j] = "AuthOk" =>
              /\ leader[slot] # "running"
              /\ proc[slot] = "live" => slot \notin blocked /\ step[slot] = "spec"
  BY <1>5 DEF ChannelOk, s
<1>7. ASSUME NEW w \in Conns, w = slot PROVE ChannelOk(w)'
  <2>1. ASSUME NEW i \in DOMAIN t
        PROVE  /\ i + 1 \in DOMAIN s /\ t[i] = s[i + 1]
               /\ i + 1 = Len(s) => i = Len(t)
    BY <1>3, <1>4
  <2>2. fromWorker'[w] = t /\ toWorker'[w] = <<>>
    BY <1>2, <1>6, <1>7
  <2> QED
    <3>1. ASSUME NEW i \in DOMAIN t
          PROVE  /\ t[i] \in {"Failure", "SessionEnded"} => proc[slot] # "live"
                 /\ t[i] \notin {"ConvDisplay", "SessionOpened"} => i = Len(t)
                 /\ t[i] = "ConvPrompt" =>
                       /\ leader[slot] # "running"
                       /\ proc[slot] = "live" => slot \in blocked
                 /\ t[i] = "AuthOk" =>
                       /\ leader[slot] # "running"
                       /\ proc[slot] = "live" =>
                            slot \notin blocked /\ step[slot] = "spec"
      BY <1>a, <2>1
    <3> QED
      BY <1>2, <1>7, <2>2, <3>1 DEF ChannelOk
<1>8. ASSUME NEW w \in Conns, w # slot PROVE ChannelOk(w)'
  BY <1>2, <1>8 DEF LockstepInv, ChannelOk
<1>9. f \in {"ConvPrompt", "AuthOk"} => fromWorker'[slot] = <<>>
  <2> SUFFICES ASSUME f \in {"ConvPrompt", "AuthOk"} PROVE fromWorker'[slot] = <<>>
    OBVIOUS
  <2>1. 1 = Len(s)
    BY <1>3, <1>a
  <2>2. Len(t) = 0
    <3>1. Len(t) = Len(s) - 1
      BY <1>3
    <3> QED
      BY <2>1, <3>1
  <2>3. t = <<>>
    BY <1>3, <2>2, EmptySeq
  <2> QED
    BY <1>2, <2>3
<1>10. 1 \in DOMAIN s /\ toWorker'[slot] = <<>>
  BY <1>2, <1>3, <1>6
<1>11. \A w \in Conns : ChannelOk(w)'
  BY <1>7, <1>8
<1> QED
  BY <1>1, <1>3, <1>9, <1>10, <1>11 DEF s

\* Every step of the specification keeps the lockstep.
LEMMA LockstepStep ==
    TypeOK /\ SlotInv /\ PlacementInv /\ ProcInv /\ LockstepInv
      /\ [Next]_vars
      => LockstepInv'
\* A worker that runs and is not waiting for its spec has been answered.
<1>RunningMeansAnswered.
  ASSUME TypeOK, LockstepInv, NEW w \in Conns, Running(w), step[w] # "spec"
  PROVE  OnlyInfo(w) /\ ~Awaited(w)
  <2> USE <1>RunningMeansAnswered
  <2>1. ChannelOk(w) /\ proc[w] = "live" /\ w \notin blocked
    BY DEF LockstepInv, Running
  <2>2. \A i \in DOMAIN fromWorker[w] : fromWorker[w][i] \in WorkerFrames
    BY DEF TypeOK, WorkerTypeOK
  <2>3. OnlyInfo(w)
    BY <2>1, <2>2 DEF OnlyInfo, ChannelOk, WorkerFrames
  <2>4. ~Awaited(w)
    BY <2>1 DEF Awaited, LockstepInv, RelayOk
  <2> QED
    BY <2>3, <2>4
\* A frame sent after such frames is the last one.
<1>SendAfterInfo.
  ASSUME TypeOK, NEW w \in Conns, OnlyInfo(w), NEW f \in WorkerFrames, Send(w, f)
  PROVE  \A i \in DOMAIN fromWorker'[w] :
            \/ fromWorker'[w][i] \in {"ConvDisplay", "SessionOpened"}
            \/ fromWorker'[w][i] = f /\ i = Len(fromWorker'[w])
  <2> USE <1>SendAfterInfo
  <2>1. fromWorker[w] \in Seq(WorkerFrames)
    BY DEF TypeOK, WorkerTypeOK
  <2>2. fromWorker'[w] = fromWorker[w] \/ fromWorker'[w] = Append(fromWorker[w], f)
    BY DEF Send, TypeOK, WorkerTypeOK
  <2>3. CASE fromWorker'[w] = fromWorker[w]
    BY <2>3 DEF OnlyInfo
  <2>4. CASE fromWorker'[w] = Append(fromWorker[w], f)
    <3> DEFINE s == fromWorker[w]
    <3>1. /\ Len(s) \in Nat /\ DOMAIN s = 1..Len(s)
          /\ DOMAIN Append(s, f) = 1..(Len(s) + 1)
          /\ Len(Append(s, f)) = Len(s) + 1
          /\ \A i \in 1..Len(s) : Append(s, f)[i] = s[i]
          /\ Append(s, f)[Len(s) + 1] = f
      BY <2>1
    <3>2. \A i \in 1..Len(s) : s[i] \in {"ConvDisplay", "SessionOpened"}
      BY <3>1 DEF OnlyInfo
    <3> HIDE DEF s
    <3>3. \A i \in 1..(Len(s) + 1) : i \in 1..Len(s) \/ i = Len(s) + 1
      BY <3>1
    <3> QED
      BY <2>4, <3>1, <3>2, <3>3 DEF s
  <2> QED
    BY <2>2, <2>3, <2>4
\* A worker's step that disturbs neither the relay nor its own channel.
<1>LockstepWorkerFrame.
  ASSUME TypeOK, LockstepInv, NEW w \in Conns, Worker(w), ChannelOk(w)',
         \/ ~Awaited(w)
         \/ /\ UNCHANGED fromWorker /\ toWorker'[w] = <<>>
            /\ leader'[w] # "running" /\ proc'[w] # "live"
         \/ /\ UNCHANGED <<fromWorker, toWorker, proc, blocked, step>>
            /\ leader'[w] # "running"
  PROVE  LockstepInv'
  <2> USE <1>LockstepWorkerFrame
  <2>1. WorkerNext(w) /\ UNCHANGED <<active, phase>>
    BY WorkerKeeps DEF Worker
  <2>2. ASSUME NEW v \in Conns, v # w
        PROVE  /\ proc'[v] = proc[v] /\ leader'[v] = leader[v]
               /\ step'[v] = step[v] /\ (v \in blocked' <=> v \in blocked)
               /\ toWorker'[v] = toWorker[v] /\ fromWorker'[v] = fromWorker[v]
    BY <2>1, <2>2, WorkerFrame DEF TypeOK
  <2>3. ASSUME NEW v \in Conns PROVE ChannelOk(v)'
    <3>1. CASE v = w
      BY <3>1
    <3>2. CASE v # w
      <4>1. ChannelOk(v)
        BY DEF LockstepInv
      <4> QED BY <2>2, <3>2, <4>1, Zenon DEF ChannelOk
    <3> QED
      BY <3>1, <3>2
  <2>4. RelayOk'
    <3> SUFFICES ASSUME active # None, phase \in AwaitPhases
                 PROVE  /\ toWorker'[active] = <<>> /\ fromWorker'[active] = <<>>
                        /\ leader'[active] # "running"
                        /\ proc'[active] = "live" =>
                             IF phase = "AwaitGreeterConvResponse"
                             THEN active \in blocked'
                             ELSE active \notin blocked' /\ step'[active] = "spec"
      BY <2>1 DEF RelayOk
    <3>1. active \in Conns
      BY DEF TypeOK
    <3>2. CASE active # w
      BY <2>2, <3>1, <3>2 DEF LockstepInv, RelayOk
    <3>3. CASE active = w
      BY <3>3 DEF LockstepInv, RelayOk, Awaited
    <3> QED
      BY <3>2, <3>3
  <2> QED
    BY <2>3, <2>4 DEF LockstepInv
\* Every step of a worker keeps the lockstep.
<1>LockstepWorker.
  ASSUME TypeOK, SlotInv, ProcInv, LockstepInv, NEW w \in Conns, Worker(w)
  PROVE  LockstepInv'
  <2> USE <1>LockstepWorker
  <2>1. /\ ChannelOk(w) /\ ProcOk(w) /\ WorkerNext(w)
        /\ UNCHANGED <<active, phase, slot, brokerEnd>>
    BY WorkerKeeps DEF Worker, LockstepInv, ProcInv
  <2>2. Awaited(w) => toWorker[w] = <<>> /\ w \in brokerEnd
    BY DEF Awaited, LockstepInv, RelayOk, SlotInv, ActiveOwnsSlot
  <2>3. /\ "ConvPrompt" \in WorkerFrames /\ "ConvDisplay" \in WorkerFrames
        /\ "AuthOk" \in WorkerFrames /\ "SessionOpened" \in WorkerFrames
        /\ "SessionEnded" \in WorkerFrames /\ "Failure" \in WorkerFrames
    BY DEF WorkerFrames
  <2>4. ASSUME Exit(w) PROVE proc'[w] # "live" /\ toWorker'[w] = <<>>
    BY <2>4 DEF Exit, Gone, TypeOK, WorkerTypeOK
  <2>5. ASSUME OnlyInfo(w), NEW f \in {"Failure", "SessionEnded"}, Send(w, f),
               Exit(w)
        PROVE  ChannelOk(w)'
    <3>1. \A i \in DOMAIN fromWorker'[w] :
             \/ fromWorker'[w][i] \in {"ConvDisplay", "SessionOpened"}
             \/ fromWorker'[w][i] = f /\ i = Len(fromWorker'[w])
      BY <2>3, <2>5, <1>SendAfterInfo
    <3> QED
      BY <2>4, <2>5, <3>1 DEF ChannelOk
  <2>6. CASE Display(w)
    <3>1. /\ Running(w) /\ step[w] # "spec" /\ Send(w, "ConvDisplay")
          /\ UNCHANGED <<proc, step, blocked, toWorker, leader>>
      BY <2>6 DEF Display, PamCalls
    <3>2. OnlyInfo(w) /\ ~Awaited(w)
      BY <3>1, <1>RunningMeansAnswered
    <3>3. \A i \in DOMAIN fromWorker'[w] :
             fromWorker'[w][i] \in {"ConvDisplay", "SessionOpened"}
      BY <2>3, <3>1, <3>2, <1>SendAfterInfo
    <3>4. ChannelOk(w)'
      BY <3>1, <3>2, <3>3 DEF ChannelOk, OnlyInfo
    <3> QED
      BY <3>2, <3>4, <1>LockstepWorkerFrame
  <2>7. CASE Prompt(w)
    <3>1. /\ Running(w) /\ step[w] \in PamCalls /\ step[w] # "spec"
          /\ Send(w, "ConvPrompt") /\ blocked' = blocked \cup {w}
          /\ UNCHANGED <<proc, step, toWorker, leader>>
      BY <2>7 DEF Prompt, PamCalls
    <3>2. OnlyInfo(w) /\ ~Awaited(w) /\ leader[w] # "running"
      BY <2>1, <3>1, <1>RunningMeansAnswered DEF ProcOk
    <3>3. \A i \in DOMAIN fromWorker'[w] :
             \/ fromWorker'[w][i] \in {"ConvDisplay", "SessionOpened"}
             \/ fromWorker'[w][i] = "ConvPrompt" /\ i = Len(fromWorker'[w])
      BY <2>3, <3>1, <3>2, <1>SendAfterInfo
    <3>4. ChannelOk(w)'
      BY <3>1, <3>2, <3>3, Zenon DEF ChannelOk, OnlyInfo
    <3> QED
      BY <3>2, <3>4, <1>LockstepWorkerFrame
  <2>8. CASE Respond(w)
    <3>1. proc[w] = "live" /\ w \in blocked /\ fromWorker' = fromWorker
      BY <2>8 DEF Respond
    <3>2. toWorker[w] = <<>> => w \notin brokerEnd /\ toWorker' = toWorker
      BY <2>8 DEF Respond
    <3>3. toWorker[w] # <<>> =>
             toWorker' = [toWorker EXCEPT ![w] = Tail(@)]
      BY <2>8 DEF Respond
    <3>4. fromWorker[w] = <<>>
      BY <2>1, <3>2 DEF ChannelOk, ProcOk
    <3>5. toWorker'[w] = <<>>
      <4>1. toWorker[w] # <<>> => toWorker[w] = <<"ConvResponse">>
        BY <2>1, <3>1 DEF ChannelOk
      <4>2. Tail(<<"ConvResponse">>) = <<>>
        OBVIOUS
      <4>3. CASE toWorker[w] = <<>>
        BY <3>2, <4>3
      <4>4. CASE toWorker[w] # <<>>
        <5>1. toWorker'[w] = Tail(toWorker[w])
          BY <3>3, <4>4 DEF TypeOK, WorkerTypeOK
        <5> QED
          BY <4>1, <4>2, <4>4, <5>1, Zenon
      <4> QED
        BY <4>3, <4>4
    <3>6. ChannelOk(w)'
      <4>1. DOMAIN fromWorker'[w] = {}
        BY <3>1, <3>4
      <4> QED BY <3>1, <3>4, <3>5, <4>1, Zenon DEF ChannelOk
    <3>7. ~Awaited(w)
      BY <2>2, <3>2
    <3> QED
      BY <3>6, <3>7, <1>LockstepWorkerFrame, Zenon
  <2>9. CASE PamSucceeds(w) \/ LeaderReaped(w)
    <3>1. /\ Running(w) /\ step[w] # "spec"
          /\ UNCHANGED <<proc, blocked, toWorker, fromWorker, leader>>
      BY <2>9 DEF PamSucceeds, PamReturns, LeaderReaped
    <3>2. OnlyInfo(w) /\ ~Awaited(w)
      BY <3>1, <1>RunningMeansAnswered
    <3>3. ChannelOk(w)'
      BY <3>1, <3>2, Zenon DEF ChannelOk, OnlyInfo
    <3> QED
      BY <3>2, <3>3, <1>LockstepWorkerFrame
  <2>10. CASE AuthOk(w)
    <3>1. Running(w) /\ step[w] = "setcred" /\ UNCHANGED leader
      BY <2>10 DEF AuthOk
    <3>2. OnlyInfo(w) /\ ~Awaited(w) /\ leader[w] # "running"
      BY <2>1, <3>1, <1>RunningMeansAnswered DEF ProcOk, PamCalls
    <3>3. CASE w \in brokerEnd
      <4>1. /\ Send(w, "AuthOk") /\ step' = [step EXCEPT ![w] = "spec"]
            /\ UNCHANGED <<proc, blocked, toWorker>>
        BY <2>10, <3>3 DEF AuthOk
      <4>2. \A i \in DOMAIN fromWorker'[w] :
               \/ fromWorker'[w][i] \in {"ConvDisplay", "SessionOpened"}
               \/ fromWorker'[w][i] = "AuthOk" /\ i = Len(fromWorker'[w])
        BY <2>3, <3>2, <4>1, <1>SendAfterInfo
      <4>3. step'[w] = "spec" /\ w \notin blocked'
        BY <3>1, <4>1 DEF TypeOK, WorkerTypeOK, Running
      <4>4. ChannelOk(w)'
        BY <3>1, <3>2, <4>1, <4>2, <4>3, Zenon DEF ChannelOk, OnlyInfo
      <4> QED
        BY <3>2, <4>4, <1>LockstepWorkerFrame
    <3>4. CASE w \notin brokerEnd
      <4>1. Exit(w) /\ UNCHANGED fromWorker
        BY <2>10, <3>4 DEF AuthOk
      <4>2. ChannelOk(w)'
        BY <2>4, <3>2, <4>1, Zenon DEF ChannelOk, OnlyInfo
      <4> QED
        BY <3>2, <4>2, <1>LockstepWorkerFrame
    <3> QED
      BY <3>3, <3>4
  <2>11. CASE ReadSpec(w)
    <3>1. /\ Running(w) /\ step[w] = "spec" /\ toWorker[w] # <<>>
          /\ toWorker' = [toWorker EXCEPT ![w] = Tail(@)]
          /\ UNCHANGED <<proc, blocked, fromWorker, leader>>
      BY <2>11 DEF ReadSpec
    <3>2. toWorker[w] = <<"StartSession">> /\ fromWorker[w] = <<>>
      BY <2>1, <3>1 DEF ChannelOk, Running
    <3>3. toWorker'[w] = <<>>
      <4>1. Tail(<<"StartSession">>) = <<>>
        OBVIOUS
      <4> QED
        BY <3>1, <3>2, <4>1 DEF TypeOK, WorkerTypeOK
    <3>4. ChannelOk(w)'
      <4>1. DOMAIN fromWorker'[w] = {}
        BY <3>1, <3>2
      <4> QED BY <3>1, <3>2, <3>3, <4>1, Zenon DEF ChannelOk
    <3> QED
      BY <2>2, <3>1, <3>4, <1>LockstepWorkerFrame
  <2>12. CASE RefuseSpec(w)
    <3>1. /\ toWorker[w] # <<>> \/ w \notin brokerEnd
          /\ Send(w, "Failure") /\ Exit(w)
      BY <2>12 DEF RefuseSpec, Fail
    <3>2. fromWorker[w] = <<>> /\ ~Awaited(w)
      BY <2>1, <2>2, <3>1 DEF ChannelOk, ProcOk
    <3>3. fromWorker'[w] \in {<<>>, <<"Failure">>}
      <4>1. \/ fromWorker'[w] = fromWorker[w]
            \/ fromWorker'[w] = Append(fromWorker[w], "Failure")
        BY <3>1 DEF Send, TypeOK, WorkerTypeOK
      <4>2. Append(<<>>, "Failure") = <<"Failure">>
        OBVIOUS
      <4> QED
        BY <3>2, <4>1, <4>2, Zenon
    <3>4. ChannelOk(w)'
      <4>1. \A i \in DOMAIN fromWorker'[w] :
               fromWorker'[w][i] = "Failure" /\ i = Len(fromWorker'[w])
        <5>1. CASE fromWorker'[w] = <<>>
          BY <5>1
        <5>2. CASE fromWorker'[w] = <<"Failure">>
          BY <5>2
        <5> QED
          BY <3>3, <5>1, <5>2
      <4> QED
        BY <2>4, <3>1, <4>1 DEF ChannelOk
    <3> QED
      BY <3>2, <3>4, <1>LockstepWorkerFrame
  <2>13. CASE CallFails(w) \/ SpawnLeaderFails(w)
    <3>1. Running(w) /\ step[w] # "spec" /\ Send(w, "Failure") /\ Exit(w)
      BY <2>13 DEF CallFails, SpawnLeaderFails, Fail, PamCalls
    <3>2. OnlyInfo(w) /\ ~Awaited(w)
      BY <3>1, <1>RunningMeansAnswered
    <3> QED
      BY <2>5, <3>1, <3>2, <1>LockstepWorkerFrame
  <2>14. CASE SessionEnds(w)
    <3>1. Running(w) /\ step[w] # "spec" /\ Send(w, "SessionEnded") /\ Exit(w)
      BY <2>14 DEF SessionEnds
    <3>2. OnlyInfo(w) /\ ~Awaited(w)
      BY <3>1, <1>RunningMeansAnswered
    <3> QED
      BY <2>5, <3>1, <3>2, <1>LockstepWorkerFrame
  <2>15. CASE SpawnLeader(w)
    <3>1. /\ Running(w) /\ step[w] # "spec" /\ Send(w, "SessionOpened")
          /\ UNCHANGED <<proc, blocked, toWorker>>
      BY <2>15 DEF SpawnLeader
    <3>2. OnlyInfo(w) /\ ~Awaited(w)
      BY <3>1, <1>RunningMeansAnswered
    <3>3. \A i \in DOMAIN fromWorker'[w] :
             fromWorker'[w][i] \in {"ConvDisplay", "SessionOpened"}
      BY <2>3, <3>1, <3>2, <1>SendAfterInfo
    <3>4. ChannelOk(w)'
      BY <3>1, <3>2, <3>3 DEF ChannelOk, OnlyInfo
    <3> QED
      BY <3>2, <3>4, <1>LockstepWorkerFrame
  <2>16. CASE Crash(w)
    <3>1. Exit(w) /\ UNCHANGED <<fromWorker, leader>>
      BY <2>16 DEF Crash
    <3>2. ChannelOk(w)'
      BY <2>1, <2>4, <3>1, Zenon DEF ChannelOk
    <3>3. Awaited(w) => leader'[w] # "running"
      BY <3>1 DEF Awaited, LockstepInv, RelayOk
    <3> QED
      BY <2>4, <3>1, <3>2, <3>3, <1>LockstepWorkerFrame
  <2>17. CASE LeaderExits(w)
    <3>1. /\ leader'[w] = "exited"
          /\ UNCHANGED <<fromWorker, toWorker, proc, blocked, step>>
      BY <2>17 DEF LeaderExits, TypeOK, WorkerTypeOK
    <3>2. ChannelOk(w)'
      BY <2>1, <3>1, Zenon DEF ChannelOk
    <3> QED
      BY <3>1, <3>2, <1>LockstepWorkerFrame
  <2> QED
    BY <2>1, <2>6, <2>7, <2>8, <2>9, <2>10, <2>11, <2>12, <2>13, <2>14, <2>15,
       <2>16, <2>17 DEF WorkerNext, WorkerStep
\* Replacing the worker in the slot leaves every channel in order.
<1>LockstepReplace.
  ASSUME TypeOK, SlotInv, LockstepInv, NEW c \in Conns \cup {None},
         c \in Conns => Fresh(c), ReplaceWorker(c)
  PROVE  \A w \in Conns : ChannelOk(w)'
  <2> USE <1>LockstepReplace
  <2> SUFFICES ASSUME NEW w \in Conns PROVE ChannelOk(w)'
    OBVIOUS
  <2>1. CASE w = c \/ w = slot
    <3>1. w = c => Fresh(w) /\ w # slot
      BY DEF SlotInv, Fresh, TypeOK, WorkerTypeOK
    <3>2. toWorker'[w] = <<>> /\ fromWorker'[w] = <<>>
      BY <2>1, <3>1 DEF ReplaceWorker, Gone, Fresh, TypeOK, WorkerTypeOK
    <3>3. DOMAIN <<>> = {}
      OBVIOUS
    <3> QED
      BY <3>2, <3>3 DEF ChannelOk
  <2>2. CASE w # c /\ w # slot
    <3>1. /\ proc'[w] = proc[w] /\ step'[w] = step[w] /\ leader'[w] = leader[w]
          /\ (w \in blocked' <=> w \in blocked)
          /\ fromWorker'[w] = fromWorker[w] /\ toWorker'[w] = toWorker[w]
      BY <2>2 DEF ReplaceWorker, Gone, TypeOK, WorkerTypeOK
    <3>2. ChannelOk(w)
      BY DEF LockstepInv
    <3> QED
      BY <3>1, <3>2, Zenon DEF ChannelOk
  <2> QED
    BY <2>1, <2>2
<1> SUFFICES ASSUME TypeOK, SlotInv, PlacementInv, ProcInv, LockstepInv,
                    [Next]_vars
             PROVE  LockstepInv'
  OBVIOUS
<1> DEFINE chanVars == <<proc, step, blocked, toWorker, fromWorker, leader>>
           Channels == \A w \in Conns : ChannelOk(w)'
<1>1. ASSUME UNCHANGED chanVars
      PROVE  Channels
  BY <1>1 DEF LockstepInv, ChannelOk
<1>2. ASSUME UNCHANGED chanVars, UNCHANGED <<active, phase>>
      PROVE  LockstepInv'
  BY <1>1, <1>2 DEF LockstepInv, RelayOk
<1>3. ASSUME Channels, active' = None \/ phase' \in WorkerPhases
      PROVE  LockstepInv'
  BY <1>3 DEF LockstepInv, RelayOk, WorkerPhases, AwaitPhases
<1>4. ASSUME NEW c \in Conns,
             \/ Connect(c) \/ PeerSends(c) \/ HangUp(c) \/ PendingFires(c)
             \/ FirstFrameStale(c) \/ FirstFrameHandled(c)
      PROVE  LockstepInv'
  <2>1. UNCHANGED chanVars /\ UNCHANGED <<active, phase>>
    BY <1>4, Zenon DEF Connect, PeerSends, HangUp, PendingFires, FirstFrameStale,
       FirstFrameHandled, wvars, loopVars
  <2> QED
    BY <1>2, <2>1
<1>5. ASSUME NEW c \in Conns, Activate(c)
      PROVE  LockstepInv'
  <2>1. Fresh(c)
    BY <1>5 DEF Activate, TakePending, PlacementInv
  <2>2. UNCHANGED wvars \/ ReplaceWorker(None) \/ ReplaceWorker(c)
    BY <1>5 DEF Activate, SlotRefuses, SpawnFails, SlotInstalls
  <2>3. Channels
    <3>1. CASE UNCHANGED wvars
      BY <1>1, <3>1 DEF wvars
    <3> QED
      BY <2>1, <2>2, <3>1, <1>LockstepReplace
  <2>4. active' = None \/ phase' \in WorkerPhases
    BY <1>5 DEF Activate, WorkerPhases
  <2> QED
    BY <1>3, <2>3, <2>4
<1>6. CASE ListenerReady \/ RaceDrain \/ SocketActivates \/ Tick \/ UNCHANGED vars
  <2>1. UNCHANGED chanVars /\ UNCHANGED <<active, phase>>
    BY <1>6, Zenon DEF ListenerReady, RaceDrain, SocketActivates, Tick, vars, wvars,
       loopVars
  <2> QED
    BY <1>2, <2>1
<1>7. ASSUME EndConnection
      PROVE  LockstepInv'
  BY <1>3, <1>7, <1>LockstepReplace DEF EndConnection
<1>8. ASSUME NEW f, WorkerSays(f), RelayContinues, phase' \in WorkerPhases
      PROVE  LockstepInv'
  BY <1>3, <1>8, LockstepConsume, Zenon
<1>9. ASSUME NEW f, WorkerSays(f), RelayContinues,
             \/ f = "ConvPrompt" /\ phase' = "AwaitGreeterConvResponse"
             \/ f = "AuthOk" /\ phase' = "AwaitGreeterStartSession"
      PROVE  LockstepInv'
  <2>1. /\ Channels /\ slot = active /\ slot \in Conns /\ toWorker'[slot] = <<>>
        /\ fromWorker'[slot] = <<>>
        /\ 1 \in DOMAIN fromWorker[slot] /\ fromWorker[slot][1] = f
    BY <1>9, LockstepConsume
  <2>2. UNCHANGED <<active, proc, step, blocked, leader>>
    BY <1>9 DEF RelayContinues, RelayStays
  <2>3. ChannelOk(active)
    BY <2>1 DEF LockstepInv
  <2>4. /\ leader[active] # "running"
        /\ f = "ConvPrompt" /\ proc[active] = "live" => active \in blocked
        /\ f = "AuthOk" /\ proc[active] = "live" =>
              active \notin blocked /\ step[active] = "spec"
    BY <1>9, <2>1, <2>3, Zenon DEF ChannelOk
  <2>5. RelayOk'
    BY <1>9, <2>1, <2>2, <2>4 DEF RelayOk
  <2> QED
    BY <2>1, <2>5 DEF LockstepInv
<1>10. CASE WorkerSide
  <2>1. CASE RelayDisplay
    <3>1. phase' \in WorkerPhases
      BY <2>1 DEF RelayDisplay, WorkerSays
    <3> QED
      BY <1>8, <2>1, <3>1 DEF RelayDisplay
  <2>2. CASE RelayPrompt
    BY <1>9, <2>2 DEF RelayPrompt
  <2>3. CASE RelayAuthOk
    BY <1>9, <2>3 DEF RelayAuthOk
  <2>4. CASE RelaySessionOpened
    BY <1>8, <2>4 DEF RelaySessionOpened, WorkerPhases
  <2>5. CASE RelayOutcome \/ WorkerSideError
    BY <1>7, <2>5 DEF RelayOutcome, WorkerSideError
  <2> QED
    BY <1>10, <2>1, <2>2, <2>3, <2>4, <2>5 DEF WorkerSide
<1>11. CASE RelayToWorker
  <2>1. /\ slot = active /\ active \in Conns /\ phase \in AwaitPhases
        /\ active # None /\ WorkerEndOpen(slot)
    BY <1>11 DEF RelayToWorker, SlotInv, ActiveOwnsSlot, TypeOK
  <2>2. /\ toWorker' = [toWorker EXCEPT ![slot] = Append(@, Expected)]
        /\ phase' = "AwaitWorker"
        /\ UNCHANGED <<proc, step, blocked, fromWorker, leader>>
    BY <1>11 DEF RelayToWorker, RelayStays
  <2>3. /\ toWorker[slot] = <<>> /\ fromWorker[slot] = <<>>
        /\ leader[slot] # "running"
        /\ proc[slot] = "live" =>
              IF phase = "AwaitGreeterConvResponse" THEN slot \in blocked
              ELSE slot \notin blocked /\ step[slot] = "spec"
    BY <2>1 DEF LockstepInv, RelayOk
  <2>4. proc[slot] = "live"
    BY <2>1, <2>3 DEF WorkerEndOpen
  <2>5. toWorker'[slot] = <<Expected>>
    <3>1. toWorker'[slot] = Append(toWorker[slot], Expected)
      BY <2>1, <2>2 DEF TypeOK, WorkerTypeOK
    <3>2. Append(<<>>, Expected) = <<Expected>>
      OBVIOUS
    <3> QED
      BY <2>3, <3>1, <3>2
  <2>6. ASSUME NEW w \in Conns, w = slot PROVE ChannelOk(w)'
    <3>1. /\ fromWorker'[w] = <<>> /\ proc'[w] = "live"
          /\ toWorker'[w] = <<Expected>>
      BY <2>2, <2>3, <2>4, <2>5, <2>6
    <3>2. \/ Expected = "ConvResponse" /\ w \in blocked'
          \/ Expected = "StartSession" /\ w \notin blocked' /\ step'[w] = "spec"
      BY <2>2, <2>3, <2>4, <2>6 DEF Expected
    <3>3. DOMAIN fromWorker'[w] = {}
      BY <3>1
    <3> QED
      BY <3>1, <3>2, <3>3, Zenon DEF ChannelOk
  <2>7. ASSUME NEW w \in Conns, w # slot PROVE ChannelOk(w)'
    <3>1. toWorker'[w] = toWorker[w]
      BY <2>1, <2>2, <2>7 DEF TypeOK, WorkerTypeOK
    <3> QED
      BY <2>2, <3>1, Zenon DEF LockstepInv, ChannelOk
  <2>8. phase' \in WorkerPhases
    BY <2>2 DEF WorkerPhases
  <2> QED
    BY <1>3, <2>6, <2>7, <2>8
<1>12. CASE GreeterSideEnds
  BY <1>7, <1>12 DEF GreeterSideEnds
<1>13. ASSUME NEW w \in Conns, Worker(w)
       PROVE  LockstepInv'
  BY <1>13, <1>LockstepWorker
<1>14. ASSUME NEW w \in Conns, GreeterGone(w)
       PROVE  LockstepInv'
  <2>1. UNCHANGED <<proc, step, blocked, toWorker, leader, active, phase>>
    BY <1>14 DEF GreeterGone, loopVars
  <2>2. \A v \in Conns : fromWorker'[v] = fromWorker[v] \/ fromWorker'[v] = <<>>
    BY <1>14 DEF GreeterGone, TypeOK, WorkerTypeOK
  <2>3. ASSUME NEW v \in Conns PROVE ChannelOk(v)'
    <3>1. ChannelOk(v)
      BY DEF LockstepInv
    <3>2. CASE fromWorker'[v] = fromWorker[v]
      BY <2>1, <3>1, <3>2, Zenon DEF ChannelOk
    <3>3. CASE fromWorker'[v] = <<>>
      <4>1. DOMAIN fromWorker'[v] = {}
        BY <3>3
      <4> QED BY <2>1, <3>1, <3>3, <4>1, Zenon DEF ChannelOk
    <3> QED BY <2>2, <3>2, <3>3
  <2>4. RelayOk'
    BY <2>1, <2>2, Zenon DEF LockstepInv, RelayOk, TypeOK
  <2> QED
    BY <2>3, <2>4 DEF LockstepInv
<1>15. CASE IdleExits \/ RaceDrainFails \/ Sigterm
  <2>1. BrokerExits
    BY <1>15 DEF IdleExits, RaceDrainFails, Sigterm
  <2>2. ASSUME NEW w \in Conns PROVE ChannelOk(w)'
    <3>1. /\ fromWorker'[w] = <<>> /\ (proc'[w] = "live" <=> proc[w] = "live")
          /\ UNCHANGED <<step, blocked, toWorker>>
      BY <2>1 DEF BrokerExits
    <3>2. ChannelOk(w)
      BY DEF LockstepInv
    <3>3. DOMAIN fromWorker'[w] = {}
      BY <3>1
    <3> QED
      BY <3>1, <3>2, <3>3, Zenon DEF ChannelOk
  <2> QED
    BY <1>3, <2>1, <2>2 DEF BrokerExits
<1> HIDE DEF chanVars, Channels
<1> QED
  BY <1>4, <1>5, <1>6, <1>10, <1>11, <1>12, <1>13, <1>14, <1>15
     DEF Next, FirstFrameReady, GreeterSide

\* LockstepInv holds in every reachable state.
LEMMA LockstepInvariant == Spec => []LockstepInv
<1>1. Init => LockstepInv
  BY SMTT(20) DEF Init, WorkerInit, LockstepInv, RelayOk, ChannelOk
<1>2. TypeOK /\ SlotInv /\ PlacementInv /\ ProcInv /\ LockstepInv /\ [Next]_vars
        => LockstepInv'
  BY LockstepStep
<1> QED
  BY <1>1, <1>2, TypeCorrect, SlotInvariant, PlacementInvariant, ProcInvariant,
     PTL DEF Spec

\* A live worker never finds a frame it did not ask for, although the relay
\* forwards without knowing what the worker waits for: its phase alone keeps
\* the two in step (on_worker_readable, on_greeter_readable, respond).
THEOREM RelayInLockstep == Spec => []AnswersMatchPrompts
<1>1. LockstepInv => AnswersMatchPrompts
  BY DEF LockstepInv, ChannelOk, AnswersMatchPrompts
<1> QED
  BY <1>1, LockstepInvariant, PTL
=============================================================================
