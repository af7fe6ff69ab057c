----------------------- MODULE BrokerAdmissionProofs ------------------------
(***************************************************************************)
(* Who gets in, and how much: a session is started only for a connection   *)
(* that was authenticated, the queue admits whom it may and no more than   *)
(* it may, and the clients cannot make the broker fork faster than its     *)
(* throttle allows.                                                        *)
(***************************************************************************)
EXTENDS BrokerRelayProofs, FiniteSetTheorems

USE WorkerAssumption, BrokerAssumption

----------------------------------------------------------------------------
(* A session is authenticated.                                             *)

\* Every step keeps what a worker may do tied to what PAM said and to what its
\* connection was told.
LEMMA AuthStep ==
    TypeOK /\ SlotInv /\ PlacementInv /\ ProcInv /\ LockstepInv /\ AuthInv
      /\ [Next]_vars
      => AuthInv'
\* What telling a connection changes about who was told Success.
<1>TellProperties.
  ASSUME TypeOK, NEW c \in Conns, NEW f \in Milestones, Tell(c, f),
         NEW d \in Conns
  PROVE  /\ ToldSuccess(d) => ToldSuccess(d)'
         /\ ToldSuccess(d)' => ToldSuccess(d) \/ (d = c /\ f = "Success")
         /\ d = c /\ f = "Success" /\ peer[c] # "closed" => ToldSuccess(d)'
  <2> USE <1>TellProperties
  <2> DEFINE s == told[d]
  <2>1. s \in Seq(Milestones)
    BY DEF TypeOK
  <2>2. /\ Len(s) \in Nat /\ DOMAIN s = 1..Len(s)
        /\ DOMAIN Append(s, f) = 1..(Len(s) + 1)
        /\ \A i \in 1..Len(s) : Append(s, f)[i] = s[i]
        /\ Append(s, f)[Len(s) + 1] = f
    BY <2>1
  <2>3. \/ told'[d] = s /\ ~(d = c /\ peer[c] # "closed")
        \/ told'[d] = Append(s, f) /\ d = c
    BY DEF Tell, TypeOK
  <2> HIDE DEF s
  <2>4. ToldSuccess(d) <=> \E i \in DOMAIN s : s[i] = "Success"
    BY DEF ToldSuccess, s
  <2>5. ToldSuccess(d)' <=> \E i \in DOMAIN told'[d] : told'[d][i] = "Success"
    BY DEF ToldSuccess
  <2>6. CASE told'[d] = s /\ ~(d = c /\ peer[c] # "closed")
    BY <2>4, <2>5, <2>6
  <2>7. CASE told'[d] = Append(s, f) /\ d = c
    BY <2>2, <2>4, <2>5, <2>7
  <2> QED
    BY <2>3, <2>6, <2>7
\* A worker's own steps.
<1>AuthWorker.
  ASSUME TypeOK, ProcInv, LockstepInv, AuthInv, NEW w \in Conns, Worker(w)
  PROVE  AuthInv'
  <2> USE <1>AuthWorker
  <2>1. /\ AuthPhaseOk(w) /\ ChannelOk(w) /\ WorkerNext(w)
        /\ UNCHANGED <<active, phase, told>>
    BY WorkerKeeps DEF Worker, AuthInv, LockstepInv
  <2>2. ASSUME NEW v \in Conns PROVE ToldSuccess(v)' <=> ToldSuccess(v)
    BY <2>1 DEF ToldSuccess
  <2>3. ASSUME AuthPhaseOk(w)' PROVE AuthInv'
    <3>1. ASSUME NEW v \in Conns, v # w PROVE AuthPhaseOk(v)'
      <4>1. /\ step'[v] = step[v] /\ pam'[v] = pam[v] /\ leader'[v] = leader[v]
            /\ toWorker'[v] = toWorker[v] /\ fromWorker'[v] = fromWorker[v]
        BY <2>1, <3>1, WorkerFrame DEF TypeOK
      <4>2. AuthPhaseOk(v)
        BY DEF AuthInv
      <4> QED
        BY <2>2, <4>1, <4>2 DEF AuthPhaseOk, Granted
    <3>2. active # None /\ phase = "AwaitGreeterStartSession" => ToldSuccess(active)'
      BY <2>1, <2>2 DEF AuthInv, TypeOK
    <3> QED
      BY <2>1, <2>3, <3>1, <3>2 DEF AuthInv, ToldSuccess
  <2>4. ASSUME Granted(w) => Granted(w)', Exit(w),
               \A i \in DOMAIN fromWorker'[w] :
                  fromWorker'[w][i] = "AuthOk" => Granted(w),
               leader'[w] # "none" => ToldSuccess(w)
        PROVE  AuthInv'
    <3>1. step'[w] = "exited" /\ toWorker'[w] = <<>>
      BY <2>4 DEF Exit, Gone
    <3>2. AuthPhaseOk(w)'
      BY <2>1, <2>2, <2>4, <3>1 DEF AuthPhaseOk
    <3> QED
      BY <2>3, <3>2
  <2>5. ASSUME NEW f \in WorkerFrames, Send(w, f)
        PROVE  \A i \in DOMAIN fromWorker'[w] :
                  fromWorker'[w][i] = "AuthOk" => Granted(w) \/ f = "AuthOk"
    <3> DEFINE s == fromWorker[w]
    <3>1. s \in Seq(WorkerFrames) /\ (fromWorker'[w] = s \/ fromWorker'[w] = Append(s, f))
      BY <2>5 DEF Send, TypeOK, WorkerTypeOK
    <3>2. /\ Len(s) \in Nat /\ DOMAIN s = 1..Len(s)
          /\ DOMAIN Append(s, f) = 1..(Len(s) + 1)
          /\ \A i \in 1..Len(s) : Append(s, f)[i] = s[i]
          /\ Append(s, f)[Len(s) + 1] = f
      BY <3>1
    <3>3. \A i \in DOMAIN s : s[i] = "AuthOk" => Granted(w)
      BY <2>1 DEF AuthPhaseOk
    <3> HIDE DEF s
    <3> QED
      BY <3>1, <3>2, <3>3
  <2>6. CASE Display(w) \/ Prompt(w)
    <3>1. /\ UNCHANGED <<step, toWorker, pam, leader>>
          /\ Send(w, "ConvDisplay") \/ Send(w, "ConvPrompt")
      BY <2>6 DEF Display, Prompt
    <3>2. \A i \in DOMAIN fromWorker'[w] : fromWorker'[w][i] = "AuthOk" => Granted(w)
      BY <2>5, <3>1 DEF WorkerFrames
    <3>3. AuthPhaseOk(w)'
      BY <2>1, <2>2, <3>1, <3>2 DEF AuthPhaseOk, Granted
    <3> QED
      BY <2>3, <3>3
  <2>7. CASE Respond(w)
    <3>1. UNCHANGED <<step, fromWorker, pam, leader>>
      BY <2>7 DEF Respond
    <3>2. toWorker'[w] # <<"StartSession">>
      <4>1. CASE toWorker[w] = <<>>
        BY <2>7, <4>1 DEF Respond
      <4>2. CASE toWorker[w] # <<>>
        <5>1. toWorker[w] = <<"ConvResponse">>
          BY <2>1, <2>7, <4>2 DEF Respond, ChannelOk
        <5>2. toWorker'[w] = Tail(toWorker[w])
          BY <2>7, <4>2 DEF Respond, TypeOK, WorkerTypeOK
        <5>3. Tail(<<"ConvResponse">>) = <<>> /\ <<>> # <<"StartSession">>
          OBVIOUS
        <5> QED
          BY <5>1, <5>2, <5>3
      <4> QED
        BY <4>1, <4>2
    <3>3. AuthPhaseOk(w)'
      BY <2>1, <2>2, <3>1, <3>2 DEF AuthPhaseOk, Granted
    <3> QED
      BY <2>3, <3>3
  <2>8. CASE PamSucceeds(w)
    <3>1. UNCHANGED <<toWorker, fromWorker, leader>>
      BY <2>8 DEF PamSucceeds, PamReturns
    <3>2. ASSUME NEW p, NEW q, NEW F, PamReturns(w, p, q, F)
          PROVE  step[w] = p /\ step'[w] = q /\ pam'[w] = F
      BY <3>2 DEF PamReturns, TypeOK, WorkerTypeOK
    <3>3. \/ /\ step'[w] = "acct_mgmt" /\ pam'[w] = pam[w] \cup {"auth"}
          \/ /\ step[w] = "acct_mgmt" /\ step'[w] = "setcred"
             /\ pam'[w] = pam[w] \cup {"acct"}
          \/ /\ step[w] = "open_session" /\ step'[w] = "spawn"
             /\ pam'[w] = pam[w] \cup {"session"}
          \/ /\ step[w] = "close_session" /\ step'[w] = "delete_cred"
             /\ pam'[w] = pam[w] \ {"session"}
      BY <2>8, <3>2 DEF PamSucceeds
    <3>4. Granted(w) => Granted(w)'
      BY <3>3 DEF Granted
    <3>5. AuthPhaseOk(w)'
      <4>1. step[w] = "acct_mgmt" => "auth" \in pam[w]
        BY <2>1 DEF AuthPhaseOk
      <4>2. step'[w] = "setcred" => Granted(w)'
        BY <3>3, <4>1 DEF Granted
      <4> QED
        BY <2>1, <2>2, <3>1, <3>3, <3>4, <4>2 DEF AuthPhaseOk
    <3> QED
      BY <2>3, <3>5
  <2>9. CASE AuthOk(w)
    <3>1. step[w] = "setcred" /\ UNCHANGED leader
      BY <2>9 DEF AuthOk
    <3>2. Granted(w) /\ Granted(w)'
      BY <2>1, <2>9, <3>1 DEF AuthPhaseOk, Granted, AuthOk, TypeOK, WorkerTypeOK
    <3>3. CASE w \in brokerEnd
      <4>1. step'[w] = "spec" /\ UNCHANGED toWorker
        BY <2>9, <3>3 DEF AuthOk, TypeOK, WorkerTypeOK
      <4>2. AuthPhaseOk(w)'
        BY <2>1, <2>2, <3>1, <3>2, <4>1 DEF AuthPhaseOk
      <4> QED
        BY <2>3, <4>2
    <3>4. CASE w \notin brokerEnd
      <4>1. Exit(w)
        BY <2>9, <3>4 DEF AuthOk
      <4> QED
        BY <2>1, <2>4, <3>1, <3>2, <4>1 DEF AuthPhaseOk
    <3> QED
      BY <3>3, <3>4
  <2>10. CASE ReadSpec(w)
    <3>1. /\ Running(w) /\ step[w] = "spec" /\ toWorker[w] # <<>>
          /\ toWorker' = [toWorker EXCEPT ![w] = Tail(@)]
          /\ step'[w] = "open_session"
          /\ UNCHANGED <<fromWorker, pam, leader>>
      BY <2>10 DEF ReadSpec, TypeOK, WorkerTypeOK
    <3>2. toWorker[w] = <<"StartSession">>
      BY <2>1, <3>1 DEF ChannelOk, Running
    <3>3. ToldSuccess(w) /\ Granted(w)
      BY <2>1, <3>2 DEF AuthPhaseOk
    <3>4. AuthPhaseOk(w)'
      BY <2>1, <2>2, <3>1, <3>3 DEF AuthPhaseOk, Granted
    <3> QED
      BY <2>3, <3>4
  <2>11. CASE \/ RefuseSpec(w) \/ CallFails(w) \/ SpawnLeaderFails(w)
              \/ SessionEnds(w)
    <3>1. Exit(w) /\ \E f \in {"Failure", "SessionEnded"} : Send(w, f)
      BY <2>11 DEF RefuseSpec, CallFails, SpawnLeaderFails, SessionEnds, Fail
    <3>2. \A i \in DOMAIN fromWorker'[w] : fromWorker'[w][i] = "AuthOk" => Granted(w)
      BY <2>5, <3>1 DEF WorkerFrames
    <3>3. pam'[w] \in {pam[w] \cup {"ended"}, (pam[w] \ {"cred"}) \cup {"ended"}}
      BY <2>11 DEF RefuseSpec, CallFails, SpawnLeaderFails, SessionEnds, Fail,
         TypeOK, WorkerTypeOK
    <3>4. Granted(w) => Granted(w)'
      BY <3>3 DEF Granted
    <3>5. UNCHANGED leader \/ step[w] = "spawn"
      BY <2>11 DEF RefuseSpec, CallFails, SpawnLeaderFails, SessionEnds
    <3>6. leader'[w] # "none" => ToldSuccess(w)
      BY <2>1, <3>5 DEF AuthPhaseOk
    <3> QED
      BY <2>4, <3>1, <3>2, <3>4, <3>6
  <2>12. CASE SpawnLeader(w)
    <3>1. /\ step[w] = "spawn" /\ Send(w, "SessionOpened")
          /\ step'[w] = "wait" /\ UNCHANGED <<toWorker, pam>>
      BY <2>12 DEF SpawnLeader, TypeOK, WorkerTypeOK
    <3>2. \A i \in DOMAIN fromWorker'[w] : fromWorker'[w][i] = "AuthOk" => Granted(w)
      BY <2>5, <3>1 DEF WorkerFrames
    <3>3. AuthPhaseOk(w)'
      BY <2>1, <2>2, <3>1, <3>2 DEF AuthPhaseOk, Granted
    <3> QED
      BY <2>3, <3>3
  <2>13. CASE LeaderReaped(w)
    <3>1. /\ step[w] = "wait" /\ step'[w] = "close_session"
          /\ UNCHANGED <<toWorker, fromWorker, pam, leader>>
      BY <2>13 DEF LeaderReaped, TypeOK, WorkerTypeOK
    <3>2. AuthPhaseOk(w)'
      BY <2>1, <2>2, <3>1 DEF AuthPhaseOk, Granted
    <3> QED
      BY <2>3, <3>2
  <2>14. CASE Crash(w)
    <3>1. Exit(w) /\ UNCHANGED <<fromWorker, pam, leader>>
      BY <2>14 DEF Crash
    <3> QED
      BY <2>1, <2>4, <3>1 DEF AuthPhaseOk, Granted
  <2>15. CASE LeaderExits(w)
    <3>1. leader[w] = "running" /\ UNCHANGED <<step, toWorker, fromWorker, pam>>
      BY <2>15 DEF LeaderExits
    <3>2. AuthPhaseOk(w)'
      BY <2>1, <2>2, <3>1 DEF AuthPhaseOk, Granted
    <3> QED
      BY <2>3, <3>2
  <2> QED
    BY <2>1, <2>6, <2>7, <2>8, <2>9, <2>10, <2>11, <2>12, <2>13, <2>14, <2>15
       DEF WorkerNext, WorkerStep
\* Replacing the worker in the slot starts one that has been granted nothing.
<1>AuthReplace.
  ASSUME TypeOK, SlotInv, AuthInv, NEW c \in Conns \cup {None},
         c \in Conns => Fresh(c), ReplaceWorker(c),
         NEW w \in Conns, ToldSuccess(w)' <=> ToldSuccess(w)
  PROVE  AuthPhaseOk(w)'
  <2> USE <1>AuthReplace
  <2> USE DEF TypeOK, WorkerTypeOK
  <2>1. AuthPhaseOk(w) /\ pam'[w] = pam[w] /\ leader'[w] = leader[w]
    BY DEF AuthInv, ReplaceWorker
  <2>2. CASE w = c \/ w = slot
    <3>1. w = c => Fresh(w) /\ w # slot
      BY DEF SlotInv, Fresh
    <3>2. /\ toWorker'[w] = <<>> /\ fromWorker'[w] = <<>>
          /\ step'[w] \in {"authenticate", "exited"}
      BY <2>2, <3>1 DEF ReplaceWorker, Gone, Fresh
    <3>3. <<>> # <<"StartSession">> /\ DOMAIN <<>> = {}
      OBVIOUS
    <3>4. /\ toWorker'[w] # <<"StartSession">>
          /\ \A i \in DOMAIN fromWorker'[w] :
               fromWorker'[w][i] = "AuthOk" => Granted(w)'
      BY <3>2, <3>3, Zenon
    <3>5. /\ leader'[w] # "none" => ToldSuccess(w)'
          /\ ToldSuccess(w)' => Granted(w)'
      BY <2>1, Zenon DEF AuthPhaseOk, Granted
    <3> QED
      BY <3>2, <3>4, <3>5, Zenon DEF AuthPhaseOk
  <2>3. CASE w # c /\ w # slot
    <3>1. /\ step'[w] = step[w] /\ fromWorker'[w] = fromWorker[w]
          /\ toWorker'[w] = toWorker[w]
      BY <2>3 DEF ReplaceWorker, Gone
    <3> QED
      BY <2>1, <3>1, Zenon DEF AuthPhaseOk, Granted
  <2> QED
    BY <2>2, <2>3
<1> SUFFICES ASSUME TypeOK, SlotInv, PlacementInv, ProcInv, LockstepInv, AuthInv,
                    [Next]_vars
             PROVE  AuthInv'
  OBVIOUS
<1> DEFINE authVars == <<step, pam, toWorker, fromWorker, leader>>
           SameTold == \A d \in Conns : ToldSuccess(d)' <=> ToldSuccess(d)
           Phases == \A w \in Conns : AuthPhaseOk(w)'
<1>1. ASSUME UNCHANGED authVars, SameTold
      PROVE  Phases
  BY <1>1, Zenon DEF AuthInv, AuthPhaseOk, Granted
<1>2. ASSUME UNCHANGED told PROVE SameTold
  BY <1>2 DEF ToldSuccess
<1>3. ASSUME Phases, SameTold, UNCHANGED <<active, phase>>
      PROVE  AuthInv'
  <2>1. active # None => (ToldSuccess(active)' <=> ToldSuccess(active))
    BY <1>3 DEF TypeOK
  <2>2. active # None /\ phase = "AwaitGreeterStartSession" => ToldSuccess(active)'
    BY <2>1 DEF AuthInv
  <2> QED
    BY <1>3, <2>2 DEF AuthInv, ToldSuccess
<1>4. ASSUME Phases, active' = None \/ phase' # "AwaitGreeterStartSession"
      PROVE  AuthInv'
  BY <1>4 DEF AuthInv
<1>5. ASSUME NEW c \in Conns,
             \/ Connect(c) \/ PeerSends(c) \/ HangUp(c) \/ PendingFires(c)
             \/ FirstFrameStale(c)
      PROVE  AuthInv'
  <2>1. UNCHANGED authVars /\ UNCHANGED <<active, phase>> /\ UNCHANGED told
    BY <1>5 DEF Connect, PeerSends, HangUp, PendingFires, FirstFrameStale,
       wvars, loopVars
  <2> QED
    BY <1>1, <1>2, <1>3, <2>1
<1>6. ASSUME NEW c \in Conns, NEW f \in Milestones, f # "Success", Tell(c, f)
      PROVE  SameTold
  BY <1>6, <1>TellProperties
<1>7. ASSUME NEW c \in Conns, FirstFrameHandled(c)
      PROVE  AuthInv'
  <2>1. UNCHANGED authVars /\ UNCHANGED <<active, phase>>
    BY <1>7 DEF FirstFrameHandled, wvars
  <2>2. UNCHANGED told \/ Tell(c, "RootFd") \/ Tell(c, "GreeterSpawned")
    BY <1>7 DEF FirstFrameHandled
  <2>3. SameTold
    BY <1>2, <1>6, <2>2 DEF Milestones
  <2> QED
    BY <1>1, <1>3, <2>1, <2>3
<1>8. ASSUME NEW c \in Conns, Activate(c)
      PROVE  AuthInv'
  <2>1. Fresh(c) /\ UNCHANGED told
    BY <1>8 DEF Activate, TakePending, PlacementInv
  <2>2. UNCHANGED wvars \/ ReplaceWorker(None) \/ ReplaceWorker(c)
    BY <1>8 DEF Activate, SlotRefuses, SpawnFails, SlotInstalls
  <2>3. SameTold
    BY <1>2, <2>1
  <2>4. Phases
    <3>1. CASE UNCHANGED wvars
      BY <1>1, <2>3, <3>1 DEF wvars
    <3> QED
      BY <2>1, <2>2, <2>3, <3>1, <1>AuthReplace
  <2>5. active' = None \/ phase' # "AwaitGreeterStartSession"
    BY <1>8 DEF Activate
  <2> QED
    BY <1>4, <2>4, <2>5
<1>9. CASE ListenerReady \/ RaceDrain \/ SocketActivates \/ Tick \/ UNCHANGED vars
  <2>1. UNCHANGED authVars /\ UNCHANGED <<active, phase>> /\ UNCHANGED told
    BY <1>9 DEF ListenerReady, RaceDrain, SocketActivates, Tick, vars, wvars,
       loopVars
  <2> QED
    BY <1>1, <1>2, <1>3, <2>1
<1>10. ASSUME EndConnection, SameTold
       PROVE  AuthInv'
  <2>1. ReplaceWorker(None) /\ active' = None
    BY <1>10 DEF EndConnection
  <2>2. Phases
    BY <1>10, <2>1, <1>AuthReplace
  <2> QED
    BY <1>4, <2>1, <2>2
<1>11. ASSUME NEW f, WorkerSays(f), RelayContinues
       PROVE  /\ slot = active /\ active \in Conns
              /\ UNCHANGED <<step, pam, toWorker, leader, active>>
              /\ fromWorker[active] \in Seq(WorkerFrames)
              /\ fromWorker[active] # <<>>
              /\ fromWorker'[active] = Tail(fromWorker[active])
              /\ fromWorker[active][1] = f /\ 1 \in DOMAIN fromWorker[active]
              /\ \A d \in Conns : d # active => fromWorker'[d] = fromWorker[d]
  <2>1. slot = active /\ active \in Conns
    BY <1>11, LockstepConsume
  <2>2. fromWorker[active][1] = f /\ 1 \in DOMAIN fromWorker[active]
    BY <1>11, <2>1, LockstepConsume
  <2> QED
    BY <1>11, <2>1, <2>2 DEF RelayContinues, RelayStays, WorkerSays, TypeOK,
       WorkerTypeOK
<1>12. ASSUME NEW f, WorkerSays(f), RelayContinues, NEW d \in Conns,
              NEW i \in DOMAIN fromWorker'[d], fromWorker'[d][i] = "AuthOk"
       PROVE  Granted(d)
  <2>1. \E j \in DOMAIN fromWorker[d] : fromWorker[d][j] = "AuthOk"
    <3>1. CASE d # active
      BY <1>11, <1>12, <3>1
    <3>2. CASE d = active
      <4> DEFINE s == fromWorker[active]
      <4>1. s \in Seq(WorkerFrames) /\ s # <<>> /\ fromWorker'[d] = Tail(s)
        BY <1>11, <1>12, <3>2
      <4>2. /\ Len(s) \in Nat \ {0} /\ DOMAIN s = 1..Len(s)
            /\ Tail(s) \in Seq(WorkerFrames) /\ Len(Tail(s)) = Len(s) - 1
            /\ \A k \in 1..Len(Tail(s)) : Tail(s)[k] = s[k + 1]
        BY <4>1, HeadTailProperties, LenProperties
      <4>3. DOMAIN Tail(s) = 1..(Len(s) - 1)
        BY <4>2, LenProperties
      <4>4. i + 1 \in DOMAIN s /\ Tail(s)[i] = s[i + 1]
        BY <1>12, <4>1, <4>2, <4>3
      <4> QED
        BY <1>12, <3>2, <4>1, <4>4
    <3> QED
      BY <3>1, <3>2
  <2> QED
    BY <2>1 DEF AuthInv, AuthPhaseOk
<1>13. ASSUME NEW f, WorkerSays(f), RelayContinues, SameTold
       PROVE  Phases
  <2>1. ASSUME NEW d \in Conns PROVE AuthPhaseOk(d)'
    <3>1. AuthPhaseOk(d) /\ UNCHANGED <<step, pam, toWorker, leader>>
      BY <1>11, <1>13 DEF AuthInv
    <3>2. \A i \in DOMAIN fromWorker'[d] :
             fromWorker'[d][i] = "AuthOk" => Granted(d)
      BY <1>12, <1>13
    <3> QED
      BY <1>13, <3>1, <3>2 DEF AuthPhaseOk, Granted
  <2> QED
    BY <2>1
<1>14. CASE RelayDisplay
  <2>1. WorkerSays("ConvDisplay") /\ RelayContinues /\ UNCHANGED <<phase, told>>
    BY <1>14 DEF RelayDisplay
  <2>2. SameTold
    BY <1>2, <2>1
  <2> QED
    BY <1>3, <1>11, <1>13, <2>1, <2>2
<1>15. CASE RelayPrompt
  <2>1. /\ WorkerSays("ConvPrompt") /\ RelayContinues /\ UNCHANGED told
        /\ phase' # "AwaitGreeterStartSession"
    BY <1>15 DEF RelayPrompt
  <2>2. SameTold
    BY <1>2, <2>1
  <2> QED
    BY <1>4, <1>13, <2>1, <2>2
<1>16. CASE RelaySessionOpened
  <2>1. /\ WorkerSays("SessionOpened") /\ RelayContinues
        /\ Tell(active, "SessionOpened") /\ phase' # "AwaitGreeterStartSession"
    BY <1>16 DEF RelaySessionOpened
  <2>2. SameTold
    BY <1>6, <1>11, <2>1 DEF Milestones
  <2> QED
    BY <1>4, <1>13, <2>1, <2>2
<1>17. CASE RelayAuthOk
  <2>1. /\ WorkerSays("AuthOk") /\ RelayContinues /\ Tell(active, "Success")
        /\ peer[active] # "closed"
    BY <1>17 DEF RelayAuthOk, WorkerSays
  <2>2. /\ active \in Conns /\ UNCHANGED active
        /\ fromWorker[active][1] = "AuthOk" /\ 1 \in DOMAIN fromWorker[active]
    BY <1>11, <2>1
  <2>3. Granted(active)
    BY <2>2 DEF AuthInv, AuthPhaseOk
  <2>4. "Success" \in Milestones
    BY DEF Milestones
  <2>5. ASSUME NEW d \in Conns PROVE AuthPhaseOk(d)'
    <3>1. AuthPhaseOk(d) /\ UNCHANGED <<step, pam, toWorker, leader>>
      BY <1>11, <2>1 DEF AuthInv
    <3>2. \A i \in DOMAIN fromWorker'[d] :
             fromWorker'[d][i] = "AuthOk" => Granted(d)
      BY <1>12, <2>1
    <3>3. /\ ToldSuccess(d) => ToldSuccess(d)'
          /\ ToldSuccess(d)' => ToldSuccess(d) \/ d = active
      BY <2>1, <2>2, <2>4, <1>TellProperties
    <3> QED
      BY <2>3, <3>1, <3>2, <3>3 DEF AuthPhaseOk, Granted
  <2>6. ASSUME NEW d \in Conns, d = active PROVE ToldSuccess(d)'
    BY <2>1, <2>2, <2>4, <2>6, <1>TellProperties
  <2>7. active' # None => ToldSuccess(active)'
    BY <2>2, <2>6 DEF ToldSuccess
  <2> QED
    BY <2>5, <2>7 DEF AuthInv
<1>18. CASE RelayOutcome
  <2>1. PICK f \in {"SessionEnded", "Failure"} : WorkerSays(f) /\ Tell(active, f)
    BY <1>18 DEF RelayOutcome
  <2>2. active \in Conns
    BY <2>1 DEF WorkerSays, TypeOK
  <2>3. SameTold
    BY <1>6, <2>1, <2>2 DEF Milestones
  <2> QED
    BY <1>10, <1>18, <2>3 DEF RelayOutcome
<1>19. CASE WorkerSideError \/ GreeterSideEnds
  <2>1. EndConnection /\ UNCHANGED told
    BY <1>19 DEF WorkerSideError, GreeterSideEnds
  <2> QED
    BY <1>2, <1>10, <2>1
<1>20. CASE RelayToWorker
  <2>1. /\ slot = active /\ active \in Conns /\ phase \in AwaitPhases
        /\ active # None
    BY <1>20 DEF RelayToWorker, SlotInv, ActiveOwnsSlot, TypeOK
  <2>2. /\ toWorker' = [toWorker EXCEPT ![active] = Append(@, Expected)]
        /\ phase' = "AwaitWorker"
        /\ UNCHANGED <<step, pam, fromWorker, leader>> /\ UNCHANGED told
    BY <1>20, <2>1 DEF RelayToWorker, RelayStays
  <2>3. SameTold
    BY <1>2, <2>2
  <2>4. toWorker'[active] = <<"StartSession">> => ToldSuccess(active)
    <3>1. toWorker[active] = <<>>
      BY <2>1 DEF LockstepInv, RelayOk
    <3>2. toWorker'[active] = Append(toWorker[active], Expected)
      BY <2>1, <2>2 DEF TypeOK, WorkerTypeOK
    <3>3. Append(<<>>, Expected) = <<Expected>>
      OBVIOUS
    <3>4. toWorker'[active] = <<"StartSession">> => Expected = "StartSession"
      BY <3>1, <3>2, <3>3
    <3>5. Expected = "StartSession" => phase = "AwaitGreeterStartSession"
      BY <2>1 DEF Expected, AwaitPhases
    <3> QED
      BY <2>1, <3>4, <3>5 DEF AuthInv
  <2>5. ASSUME NEW d \in Conns PROVE AuthPhaseOk(d)'
    <3>1. toWorker'[d] = <<"StartSession">> => ToldSuccess(d)
      <4>1. CASE d = active
        BY <2>4, <4>1
      <4>2. CASE d # active
        BY <2>1, <2>2, <4>2 DEF TypeOK, WorkerTypeOK, AuthInv, AuthPhaseOk
      <4> QED
        BY <4>1, <4>2
    <3> QED
      BY <2>2, <2>3, <3>1 DEF AuthInv, AuthPhaseOk, Granted
  <2> QED
    BY <1>4, <2>2, <2>5
<1>21. ASSUME NEW w \in Conns, Worker(w)
       PROVE  AuthInv'
  BY <1>21, <1>AuthWorker
<1>22. ASSUME NEW w \in Conns, GreeterGone(w)
       PROVE  AuthInv'
  <2>1. UNCHANGED <<step, pam, toWorker, leader, active, phase, told>>
    BY <1>22 DEF GreeterGone, loopVars
  <2>2. \A v \in Conns : fromWorker'[v] = fromWorker[v] \/ fromWorker'[v] = <<>>
    BY <1>22 DEF GreeterGone, TypeOK, WorkerTypeOK
  <2>3. SameTold
    BY <1>2, <2>1
  <2>4. Phases
    BY <2>1, <2>2, <2>3, SMTT(20) DEF AuthInv, AuthPhaseOk, Granted
  <2> QED
    BY <1>3, <2>1, <2>3, <2>4
<1>23. CASE IdleExits \/ RaceDrainFails \/ Sigterm
  <2>1. BrokerExits
    BY <1>23 DEF IdleExits, RaceDrainFails, Sigterm
  <2>2. SameTold
    BY <1>2, <2>1 DEF BrokerExits
  <2>3. \A w \in Conns : fromWorker'[w] = <<>>
    BY <2>1 DEF BrokerExits
  <2>4. UNCHANGED <<step, pam, toWorker, leader>> /\ active' = None
    BY <2>1 DEF BrokerExits
  <2>5. Phases
    BY <2>2, <2>3, <2>4, SMTT(20) DEF AuthInv, AuthPhaseOk, Granted
  <2> QED
    BY <1>4, <2>4, <2>5
<1> HIDE DEF authVars, SameTold, Phases
<1> QED
  BY <1>5, <1>7, <1>8, <1>9, <1>14, <1>15, <1>16, <1>17, <1>18, <1>19, <1>20,
     <1>21, <1>22, <1>23 DEF Next, FirstFrameReady, WorkerSide, GreeterSide

\* A session leader exists only for a connection that was told Success, and
\* Success is told only after pam_authenticate and pam_acct_mgmt succeeded in
\* the worker of that connection, in every interleaving of evictions, late
\* answers, crashes and restarts (run_session, on_worker_readable).
THEOREM SessionsAreAuthenticated == Spec => []NoSessionWithoutAuth
<1>1. Init => AuthInv
  BY DEF Init, WorkerInit, AuthInv, AuthPhaseOk, ToldSuccess
<1>2. TypeOK /\ SlotInv /\ PlacementInv /\ ProcInv /\ LockstepInv /\ AuthInv
        /\ [Next]_vars => AuthInv'
  BY AuthStep
<1>3. AuthInv => NoSessionWithoutAuth
  BY DEF AuthInv, AuthPhaseOk, NoSessionWithoutAuth, ToldSuccess, Granted
<1> QED
  BY <1>1, <1>2, <1>3, TypeCorrect, SlotInvariant, PlacementInvariant,
     ProcInvariant, LockstepInvariant, PTL DEF Spec

----------------------------------------------------------------------------
(* Admission.                                                              *)

\* Every step keeps the queue within MAX_PENDING and behind the uid gate.
LEMMA QueueStep ==
    ASSUME TypeOK, PlacementInv, QueueInv, [Next]_vars
    PROVE  QueueInv'
<1>1. ASSUME UNCHANGED <<pending, puid>>
      PROVE  QueueInv'
  BY <1>1 DEF QueueInv
<1>2. ASSUME NEW c \in Conns, Connect(c)
      PROVE  QueueInv'
  <2>1. pending' = pending /\ peer[c] = "none"
    BY <1>2 DEF Connect, loopVars
  <2>2. c \notin Range(pending) /\ Range(pending) \subseteq Conns
    <3>1. Range(pending) \subseteq Conns
      <4>1. pending \in Seq(Conns)
        BY DEF TypeOK
      <4>2. \A i \in DOMAIN pending : pending[i] \in Conns
        BY <4>1
      <4> QED
        BY <4>2 DEF Range
    <3>2. \A d \in Range(pending) : peer[d] # "none"
      BY <3>1 DEF PlacementInv, IsPending
    <3> QED
      BY <2>1, <3>1, <3>2
  <2>3. \A d \in Conns : d # c => puid'[d] = puid[d]
    BY <1>2 DEF Connect, TypeOK
  <2> QED
    BY <2>1, <2>2, <2>3 DEF QueueInv
<1>3. ASSUME NEW c \in Conns,
             PeerSends(c) \/ HangUp(c) \/ PendingFires(c) \/ FirstFrameStale(c)
      PROVE  UNCHANGED <<pending, puid>>
  BY <1>3 DEF PeerSends, HangUp, PendingFires, FirstFrameStale, clientVars,
     loopVars
<1>4. ASSUME NEW c \in Conns, FirstFrameHandled(c) \/ Activate(c)
      PROVE  QueueInv'
  <2>1. IsPending(c) /\ pending' = WithoutPending(c) /\ puid' = puid
    BY <1>4 DEF FirstFrameHandled, Activate, TakePending
  <2>2. Len(pending') = Len(pending) - 1 /\ Len(pending) \in Nat
    BY <2>1, WithoutPendingProperties, LenProperties, Zenon DEF TypeOK
  <2>3. Range(pending') \subseteq Range(pending)
    BY <2>1, WithoutPendingSet DEF TypeOK, PlacementInv
  <2>4. Len(pending') <= MaxPending
    BY <2>2 DEF QueueInv
  <2> QED
    BY <2>1, <2>3, <2>4 DEF QueueInv
<1>5. CASE ListenerReady \/ RaceDrain
  <2> DEFINE c == Head(backlog)
  <2>1. /\ puid' = puid /\ backlog # <<>>
        /\ \/ pending' \in {pending, MakeRoom}
           \/ pending' = Append(MakeRoom, c) /\ puid[c] \in {"root", "relay"}
    BY <1>5 DEF ListenerReady, RaceDrain, AdmitOne, AdmitFails
  <2>2. c \in Conns
    BY <2>1, HeadTailProperties DEF TypeOK
  <2>3. /\ MakeRoom \in Seq(Conns) /\ Range(MakeRoom) \subseteq Range(pending)
        /\ Len(MakeRoom) < MaxPending
    <3>1. CASE ~Full
      BY <3>1, LenProperties DEF MakeRoom, Full, TypeOK
    <3>2. CASE Full
      <4>1. pending # <<>>
        BY <3>2 DEF Full
      <4>2. Len(Tail(pending)) = Len(pending) - 1 /\ Len(pending) \in Nat
        BY <4>1, HeadTailProperties, LenProperties DEF TypeOK
      <4>3. Len(Tail(pending)) < MaxPending
        BY <4>2 DEF QueueInv
      <4>4. pending \in Seq(Conns) /\ IsInjective(pending)
        BY DEF TypeOK, PlacementInv
      <4>5. Tail(pending) \in Seq(Conns)
        BY <4>1, <4>4, HeadTailProperties
      <4>6. Range(Tail(pending)) \subseteq Range(pending)
        BY <4>1, <4>4, TailSet
      <4> QED
        BY <3>2, <4>3, <4>5, <4>6 DEF MakeRoom
    <3> QED
      BY <3>1, <3>2
  <2> HIDE DEF c
  <2>4. CASE pending' \in {pending, MakeRoom}
    <3>1. Len(MakeRoom) <= MaxPending
      BY <2>3, LenProperties
    <3> QED
      BY <2>1, <2>3, <2>4, <3>1 DEF QueueInv
  <2>5. CASE pending' = Append(MakeRoom, c) /\ puid[c] \in {"root", "relay"}
    <3>1. Range(pending') = Range(MakeRoom) \cup {c}
      <4>1. MakeRoom \in Seq(Conns)
        BY <2>3
      <4>2. Range(Append(MakeRoom, c)) = Range(MakeRoom) \cup {c}
        BY <2>2, <4>1, AppendSet
      <4> QED
        BY <2>5, <4>2
    <3>2. Len(pending') <= MaxPending
      <4>1. Len(pending') = Len(MakeRoom) + 1 /\ Len(MakeRoom) \in Nat
        BY <2>2, <2>3, <2>5
      <4> QED
        BY <2>3, <4>1
    <3> QED
      BY <2>1, <2>3, <2>5, <3>1, <3>2 DEF QueueInv
  <2> QED
    BY <2>1, <2>4, <2>5
<1>6. CASE WorkerSide \/ GreeterSide
  <2>1. UNCHANGED <<pending, puid>>
    BY <1>6, Zenon DEF WorkerSide, RelayDisplay, RelayPrompt, RelayAuthOk,
       RelaySessionOpened, RelayOutcome, WorkerSideError, RelayContinues,
       RelayStays, EndConnection, GreeterSide, RelayToWorker, GreeterSideEnds,
       clientVars
  <2> QED
    BY <1>1, <2>1
<1>7. ASSUME NEW w \in Conns, Worker(w) \/ GreeterGone(w)
      PROVE  UNCHANGED <<pending, puid>>
  BY <1>7, WorkerKeeps DEF GreeterGone, clientVars, loopVars
<1>8. CASE IdleExits \/ RaceDrainFails \/ Sigterm
  <2>1. BrokerExits
    BY <1>8 DEF IdleExits, RaceDrainFails, Sigterm
  <2>2. pending' = <<>>
    BY <2>1 DEF BrokerExits
  <2>3. DOMAIN <<>> = {} /\ Len(<<>>) = 0
    OBVIOUS
  <2> QED
    BY <2>2, <2>3, BrokerAssumption DEF QueueInv, Range
<1>9. CASE SocketActivates \/ Tick \/ UNCHANGED vars
  <2>1. UNCHANGED <<pending, puid>>
    BY <1>9, Zenon DEF SocketActivates, Tick, vars, clientVars, loopVars
  <2> QED
    BY <1>1, <2>1
<1> QED
  BY <1>1, <1>2, <1>3, <1>4, <1>5, <1>6, <1>7, <1>8, <1>9
     DEF Next, FirstFrameReady

\* The queue of silent connections stays within MAX_PENDING, holds nobody but
\* root and the relay peer, nobody twice, and never the connection being
\* served nor the one whose worker is in the slot (admit_one,
\* first_frame_ready).
THEOREM AdmissionSafe == Spec => []AdmissionBounded
<1>1. Init => QueueInv
  BY DEF Init, QueueInv, Range
<1>2. TypeOK /\ PlacementInv /\ QueueInv /\ [Next]_vars => QueueInv'
  BY QueueStep
<1>3. TypeOK /\ SlotInv /\ PlacementInv /\ QueueInv => AdmissionBounded
  <2> SUFFICES ASSUME TypeOK, SlotInv, PlacementInv, QueueInv,
                      NEW c \in Range(pending)
               PROVE  c # active /\ c # slot
    BY DEF AdmissionBounded, PlacementInv, QueueInv
  <2>1. c \in Conns
    <3>1. pending \in Seq(Conns)
      BY DEF TypeOK
    <3>2. \A i \in DOMAIN pending : pending[i] \in Conns
      BY <3>1
    <3> QED
      BY <3>2 DEF Range
  <2>2. c \notin children /\ c # None
    BY <2>1 DEF PlacementInv, IsPending, Fresh
  <2> QED
    BY <2>2 DEF SlotInv, ActiveOwnsSlot
<1> QED
  BY <1>1, <1>2, <1>3, TypeCorrect, SlotInvariant, PlacementInvariant, PTL
     DEF Spec

----------------------------------------------------------------------------
(* The churn bound.                                                        *)

\* Every step keeps the forks of the last window recorded.
LEMMA ChurnStep ==
    TypeOK /\ TypeOK' /\ IdleInv /\ ChurnInv /\ [Next]_vars => ChurnInv'
\* Entries that only move keep the forks recorded.
<1>RecordedMoves.
  ASSUME TypeOK, TypeOK', Recorded, Young' \subseteq Young, NEW k \in Nat,
         \A c \in Young', i \in 1..Len(recent) :
            recent[i] = spawnAge[c] => /\ i - k \in 1..Len(recent')
                                       /\ recent'[i - k] = spawnAge'[c]
  PROVE  Recorded'
  <2> USE <1>RecordedMoves
  <2>1. /\ recent \in Seq(0..Window) /\ recent' \in Seq(0..Window)
        /\ DOMAIN recent = 1..Len(recent) /\ Len(recent) \in Nat
        /\ DOMAIN recent' = 1..Len(recent')
    BY LenProperties DEF TypeOK
  <2>2. PICK f \in Injection(Young, DOMAIN recent) :
           \A c \in Young : recent[f[c]] = spawnAge[c]
    BY Zenon DEF Recorded
  <2>3. f \in [Young -> 1..Len(recent)] /\ \A a, b \in Young : f[a] = f[b] => a = b
    <3>1. f \in [Young -> DOMAIN recent] /\ IsInjective(f)
      BY <2>2, Zenon DEF Injection
    <3> QED BY <2>1, <3>1, Zenon DEF IsInjective
  <2> DEFINE Y == Young'
             g == [c \in Y |-> f[c] - k]
  <2>4. \A c \in Y : f[c] \in 1..Len(recent) /\ recent[f[c]] = spawnAge[c]
    BY <2>2, <2>3, Zenon
  <2>5. \A c \in Y : f[c] - k \in 1..Len(recent') /\ recent'[f[c] - k] = spawnAge'[c]
    BY <2>4, Zenon
  <2>6. \A a, b \in Y : f[a] - k = f[b] - k => a = b
    BY <2>1, <2>3, <2>4, SMTT(20)
  <2> HIDE DEF Y
  <2>7. g \in [Y -> DOMAIN recent'] /\ IsInjective(g)
    BY <2>1, <2>5, <2>6, Zenon DEF IsInjective
  <2>8. \A c \in Y : recent'[g[c]] = spawnAge'[c]
    BY <2>5, Zenon
  <2> HIDE DEF g
  <2>9. g \in Injection(Y, DOMAIN recent')
    BY <2>7, Zenon DEF Injection
  <2> QED
    BY <2>8, <2>9, Zenon DEF Y, Recorded
\* create_at drops no entry of a fork that still counts.
<1>RecordedPruned.
  ASSUME TypeOK, TypeOK', Recorded, recent' = Prune(recent), spawnAge' = spawnAge
  PROVE  Recorded' /\ Len(recent') <= Len(recent)
  <2> USE <1>RecordedPruned
  <2>1. recent \in Seq(0..Window)
    BY DEF TypeOK
  <2>2. PICK k \in Nat : \A i \in 1..Len(recent) :
           recent[i] < Window => /\ i - k \in 1..Len(recent')
                                 /\ recent'[i - k] = recent[i]
    BY <2>1, PruneType, Zenon
  <2>3. Young' = Young /\ \A c \in Young : spawnAge[c] < Window
    BY DEF Young
  <2>4. \A c \in Young', i \in 1..Len(recent) :
           recent[i] = spawnAge[c] => /\ i - k \in 1..Len(recent')
                                      /\ recent'[i - k] = spawnAge'[c]
    BY <2>2, <2>3, Zenon
  <2> QED
    BY <2>1, <2>3, <2>4, PruneType, <1>RecordedMoves, Zenon
\* A fork is recorded at the end.
<1>RecordedInstalled.
  ASSUME TypeOK, TypeOK', Recorded, NEW c \in Conns,
         recent' = Append(Prune(recent), 0),
         spawnAge' = [spawnAge EXCEPT ![c] = 0]
  PROVE  Recorded' /\ Len(recent') = Len(Prune(recent)) + 1
  <2> USE <1>RecordedInstalled
  <2> DEFINE p == Prune(recent)
             n == Len(p) + 1
  <2>1. recent \in Seq(0..Window) /\ p \in Seq(0..Window) /\ Len(recent) \in Nat
    BY PruneType, LenProperties DEF TypeOK
  <2>2. PICK k \in Nat : \A i \in 1..Len(recent) :
           recent[i] < Window => /\ i - k \in 1..Len(p)
                                 /\ p[i - k] = recent[i]
    BY <2>1, PruneType, Zenon
  <2> HIDE DEF p
  <2>3. /\ Len(p) \in Nat /\ Len(recent') = n /\ DOMAIN recent' = 1..n
        /\ recent'[n] = 0 /\ \A i \in 1..Len(p) : recent'[i] = p[i]
    BY <2>1 DEF p
  <2>4. PICK f \in Injection(Young, DOMAIN recent) :
           \A d \in Young : recent[f[d]] = spawnAge[d]
    BY Zenon DEF Recorded
  <2>5. f \in [Young -> 1..Len(recent)] /\ \A a, b \in Young : f[a] = f[b] => a = b
    <3>1. f \in [Young -> DOMAIN recent] /\ IsInjective(f)
      BY <2>4, Zenon DEF Injection
    <3>2. DOMAIN recent = 1..Len(recent)
      BY <2>1, LenProperties
    <3> QED BY <3>1, <3>2, Zenon DEF IsInjective
  <2> DEFINE Y == Young'
             g == [d \in Y |-> IF d = c THEN n ELSE f[d] - k]
  <2>6. \A d \in Y : d = c \/ (d \in Young /\ spawnAge'[d] = spawnAge[d])
    BY DEF Young, TypeOK
  <2>7. \A d \in Young : spawnAge[d] < Window
    BY DEF Young
  <2>8. spawnAge'[c] = 0
    BY DEF TypeOK
  <2> HIDE DEF Y
  <2>9. ASSUME NEW d \in Y, d # c
        PROVE  /\ f[d] \in 1..Len(recent) /\ f[d] - k \in 1..Len(p)
               /\ recent'[f[d] - k] = spawnAge'[d]
    <3>1. d \in Young /\ spawnAge'[d] = spawnAge[d]
      BY <2>6, <2>9, Zenon
    <3>2. f[d] \in 1..Len(recent) /\ recent[f[d]] = spawnAge[d]
      BY <2>4, <2>5, <3>1, Zenon
    <3>3. f[d] - k \in 1..Len(p) /\ p[f[d] - k] = spawnAge[d]
      BY <2>2, <2>7, <3>1, <3>2, Zenon
    <3> QED BY <2>3, <3>1, <3>2, <3>3, Zenon
  <2>10. \A d \in Y : /\ (IF d = c THEN n ELSE f[d] - k) \in 1..n
                      /\ recent'[IF d = c THEN n ELSE f[d] - k] = spawnAge'[d]
    <3>1. n \in 1..n /\ \A i \in 1..Len(p) : i \in 1..n
      BY <2>3
    <3> QED BY <2>3, <2>8, <2>9, <3>1, Zenon
  <2>11. ASSUME NEW a \in Y, NEW b \in Y,
                (IF a = c THEN n ELSE f[a] - k) = (IF b = c THEN n ELSE f[b] - k)
         PROVE  a = b
    <3>1. CASE a # c /\ b # c
      <4>1. f[a] - k = f[b] - k
        BY <2>11, <3>1, Zenon
      <4>2. f[a] \in 1..Len(recent) /\ f[b] \in 1..Len(recent)
        BY <2>9, <3>1, Zenon
      <4>3. f[a] = f[b]
        BY <2>1, <4>1, <4>2
      <4> QED BY <2>5, <2>6, <3>1, <4>3, Zenon
    <3>2. \A i \in 1..Len(p) : i # n
      BY <2>3
    <3>3. CASE a = c \/ b = c
      BY <2>9, <2>11, <3>2, <3>3, Zenon
    <3> QED BY <3>1, <3>3
  <2>12. g \in [Y -> DOMAIN recent'] /\ IsInjective(g)
    BY <2>3, <2>10, <2>11, ZenonT(30) DEF IsInjective
  <2>13. \A d \in Y : recent'[g[d]] = spawnAge'[d]
    BY <2>10, Zenon
  <2> HIDE DEF g
  <2>14. g \in Injection(Y, DOMAIN recent')
    BY <2>12, Zenon DEF Injection
  <2>15. Recorded'
    BY <2>13, <2>14, Zenon DEF Y, Recorded
  <2> QED BY <2>3, <2>15 DEF p
\* Time passes for forks, entries and timer alike.
<1>ChurnTick.
  ASSUME TypeOK, TypeOK', ChurnInv, Tick
  PROVE  ChurnInv'
  <2> USE <1>ChurnTick
  <2>1. /\ idle' = Older(idle, IdleExit) /\ broker' = broker
        /\ recent' = [i \in DOMAIN recent |-> Older(recent[i], Window)]
        /\ \A c \in Conns : spawnAge'[c] = Older(spawnAge[c], Window)
    BY DEF Tick
  <2>2. /\ recent \in Seq(0..Window) /\ recent' \in Seq(0..Window)
        /\ DOMAIN recent = 1..Len(recent) /\ Len(recent) \in Nat
        /\ DOMAIN recent' = 1..Len(recent')
        /\ \A c \in Conns : spawnAge[c] \in 0..Window \cup {None}
        /\ idle \in 0..IdleExit \cup {None}
    BY LenProperties DEF TypeOK
  <2>3. Len(recent') = Len(recent)
    BY <2>1, <2>2
  <2>4. \A c \in Young' : c \in Young /\ spawnAge'[c] = spawnAge[c] + 1
    BY <2>1, <2>2 DEF Young, Older
  <2>5. \A c \in Young', i \in 1..Len(recent) :
           recent[i] = spawnAge[c] => /\ i - 0 \in 1..Len(recent')
                                      /\ recent'[i - 0] = spawnAge'[c]
    <3> SUFFICES ASSUME NEW c \in Young', NEW i \in 1..Len(recent), recent[i] = spawnAge[c]
                 PROVE  i - 0 = i /\ recent'[i] = spawnAge'[c]
      BY <2>3, Zenon
    <3>1. c \in Conns
      BY DEF Young
    <3>2. recent'[i] = Older(recent[i], Window)
      BY <2>1, <2>2, Zenon
    <3>3. i - 0 = i
      BY <2>2
    <3> QED BY <2>1, <3>1, <3>2, <3>3, Zenon
  <2>6. Recorded'
    <3>1. Young' \subseteq Young /\ 0 \in Nat /\ Recorded
      BY <2>4 DEF ChurnInv
    <3> QED BY <2>5, <3>1, <1>RecordedMoves, Zenon
  <2>7. idle' # None => \A c \in Young' : idle' <= spawnAge'[c]
    <3> SUFFICES ASSUME idle' # None, NEW c \in Young' PROVE idle' <= spawnAge'[c]
      OBVIOUS
    <3>1. idle # None /\ idle \in Nat /\ (idle' = idle \/ idle' = idle + 1)
      BY <2>1, <2>2 DEF Older
    <3>2. c \in Young /\ spawnAge'[c] = spawnAge[c] + 1 /\ spawnAge[c] \in Nat
      BY <2>2, <2>4 DEF Young
    <3>3. idle <= spawnAge[c]
      BY <3>1, <3>2, Zenon DEF ChurnInv
    <3> QED BY <3>1, <3>2, <3>3
  <2>8. broker' = "down" => Young' = {}
    BY <2>1, <2>4 DEF ChurnInv
  <2> QED BY <2>3, <2>6, <2>7, <2>8 DEF ChurnInv
\* With no young fork there is nothing to record.
<1>RecordedNone. ASSUME Young' = {} PROVE Recorded'
  <2> USE <1>RecordedNone
  <2> DEFINE g == [x \in {} |-> 0]
  <2>1. g \in [{} -> DOMAIN recent'] /\ IsInjective(g)
    BY Zenon DEF IsInjective
  <2> HIDE DEF g
  <2>2. g \in Injection(Young', DOMAIN recent')
    BY <2>1, Zenon DEF Injection
  <2> QED BY <2>2, Zenon DEF Recorded
\* A step that neither forks nor forgets may stop the timer or arm it.
<1>ChurnKept.
  ASSUME TypeOK, ChurnInv, recent' = recent, spawnAge' = spawnAge,
         idle' \in {idle, None, 0}, broker' = "down" => broker = "down"
  PROVE  ChurnInv'
  <2> USE <1>ChurnKept
  <2>1. Young' = Young /\ \A c \in Young : spawnAge[c] \in Nat
    BY DEF Young, TypeOK
  <2>2. Recorded'
    BY <2>1, Zenon DEF ChurnInv, Recorded
  <2>3. idle' # None => \A c \in Young' : idle' <= spawnAge'[c]
    <3>1. CASE idle' = idle
      BY <2>1, <3>1, Zenon DEF ChurnInv
    <3>2. CASE idle' = 0
      BY <2>1, <3>2
    <3> QED BY <3>1, <3>2
  <2> QED BY <2>1, <2>2, <2>3 DEF ChurnInv
\* activate: create_at prunes before it compares, and records what it forks.
<1>ChurnActivate.
  ASSUME TypeOK, TypeOK', IdleInv, ChurnInv, NEW c \in Conns, Activate(c)
  PROVE  ChurnInv'
  <2> USE <1>ChurnActivate
  <2>1. /\ idle = None /\ broker' = "up" /\ idle' \in {None, 0}
        /\ SlotRefuses(c) \/ SpawnFails(c) \/ SlotInstalls(c)
    BY SMTT(20) DEF Activate, ArmIdleIfQuiet, TakePending, IsPending, Range, IdleInv, IdleIffQuiet,
           HasConnection
  <2>2. \A d \in Young' : spawnAge'[d] \in Nat
    BY SMTT(20) DEF TypeOK, Young
  <2>3. idle' # None => \A d \in Young' : idle' <= spawnAge'[d]
    BY <2>1, <2>2
  <2>4. /\ recent \in Seq(0..Window) /\ Len(recent) \in Nat
        /\ Prune(recent) \in Seq(0..Window) /\ Len(Prune(recent)) \in Nat
    BY PruneType, LenProperties, Zenon DEF TypeOK
  <2>5. CASE recent' = recent /\ spawnAge' = spawnAge
    BY <2>1, <2>5, <1>ChurnKept
  <2>6. CASE recent' = Prune(recent) /\ spawnAge' = spawnAge
    <3>1. Recorded' /\ Len(recent') <= Len(recent)
      BY <2>6, <1>RecordedPruned, Zenon DEF ChurnInv
    <3>2. Len(recent') <= MaxPerWindow
      BY <2>4, <2>6, <3>1 DEF ChurnInv
    <3> QED BY <2>1, <2>3, <3>1, <3>2 DEF ChurnInv
  <2>7. CASE SlotInstalls(c)
    <3>1. /\ Len(Prune(recent)) < MaxPerWindow /\ recent' = Append(Prune(recent), 0)
          /\ spawnAge' = [spawnAge EXCEPT ![c] = 0]
      BY <2>7 DEF SlotInstalls
    <3>2. Recorded' /\ Len(recent') = Len(Prune(recent)) + 1
      BY <3>1, <1>RecordedInstalled, Zenon DEF ChurnInv
    <3>3. Len(recent') <= MaxPerWindow
      BY <2>4, <3>1, <3>2
    <3> QED BY <2>1, <2>3, <3>2, <3>3 DEF ChurnInv
  <2> QED BY <2>1, <2>5, <2>6, <2>7, Zenon DEF SlotRefuses, SpawnFails
\* An exit forgets the entries: an idle one when no fork is young any more.
<1>ChurnExit.
  ASSUME TypeOK, ChurnInv, IdleExits \/ RaceDrainFails \/ Sigterm
  PROVE  ChurnInv'
  <2> USE <1>ChurnExit
  <2>1. recent' = <<>> /\ idle' = None
    BY DEF IdleExits, RaceDrainFails, Sigterm, BrokerExits
  <2>2. Young' = {}
    <3>1. CASE Sigterm
      BY <3>1 DEF Sigterm, Young
    <3>2. CASE IdleExits \/ RaceDrainFails
      <4>1. idle = IdleExit /\ spawnAge' = spawnAge /\ idle # None
        BY <3>2 DEF IdleExits, RaceDrainFails, IdleElapsed
      <4>2. \A c \in Young : IdleExit <= spawnAge[c] /\ spawnAge[c] < Window /\ spawnAge[c] \in Nat
        BY <4>1, SMTT(20) DEF ChurnInv, Young, TypeOK
      <4>3. Young = {}
        BY <4>2
      <4> QED BY <4>1, <4>3 DEF Young
    <3> QED BY <3>1, <3>2
  <2>3. Recorded'
    BY <2>2, <1>RecordedNone
  <2> QED BY <2>1, <2>2, <2>3 DEF ChurnInv
<1> SUFFICES ASSUME TypeOK, TypeOK', IdleInv, ChurnInv, [Next]_vars
             PROVE  ChurnInv'
  OBVIOUS
<1> DEFINE Same == /\ recent' = recent /\ spawnAge' = spawnAge
                   /\ idle' \in {idle, None, 0} /\ (broker' = "down" => broker = "down")
<1>1. CASE Same
  BY <1>1, <1>ChurnKept
<1>2. ASSUME NEW c \in Conns,
             \/ Connect(c) \/ PeerSends(c) \/ HangUp(c) \/ GreeterGone(c)
             \/ PendingFires(c) \/ FirstFrameStale(c) \/ FirstFrameHandled(c)
             \/ Worker(c)
      PROVE  Same
  BY <1>2, Zenon DEF Connect, PeerSends, HangUp, GreeterGone, PendingFires, FirstFrameStale,
     FirstFrameHandled, TakePending, ArmIdleIfQuiet, Worker, brokerVars, slotVars, loopVars
<1>3. CASE ListenerReady \/ RaceDrain
  BY <1>1, <1>3 DEF ListenerReady, RaceDrain, AdmitOne, AdmitFails, slotVars
<1>4. ASSUME EndConnection PROVE Same
  BY <1>4 DEF EndConnection, ArmIdleIfQuiet
<1>5. ASSUME RelayStays PROVE Same
  BY <1>5 DEF RelayStays, slotVars
<1>6. CASE WorkerSide \/ GreeterSide
  BY <1>1, <1>4, <1>5, <1>6, Zenon DEF WorkerSide, RelayDisplay, RelayPrompt, RelayAuthOk,
     RelaySessionOpened, RelayOutcome, WorkerSideError, RelayContinues, GreeterSide,
     RelayToWorker, GreeterSideEnds
<1>7. CASE SocketActivates
  BY <1>1, <1>7 DEF SocketActivates, slotVars
<1>8. CASE UNCHANGED vars
  BY <1>1, <1>8 DEF vars, slotVars, loopVars
<1> HIDE DEF Same
<1> QED
  BY <1>1, <1>2, <1>3, <1>6, <1>7, <1>8, <1>ChurnActivate, <1>ChurnExit, <1>ChurnTick, Zenon
     DEF Next, FirstFrameReady

\* No more than MaxPerWindow workers are forked in any Window ticks, whatever
\* is admitted, refused, superseded or fails to spawn, and also across an idle
\* exit, which forgets the recent entries: IDLE_EXIT is no shorter than the
\* window (create_at, should_idle_exit).
THEOREM ForksBounded == Spec => []ChurnBound
<1>1. Init => ChurnInv
  <2> SUFFICES ASSUME Init PROVE ChurnInv
    OBVIOUS
  <2>1. recent = <<>> /\ idle = None /\ Young = {}
    BY DEF Init, Young
  <2>2. Recorded
    <3> DEFINE g == [x \in {} |-> 0]
    <3>1. g \in [{} -> DOMAIN recent] /\ IsInjective(g)
      BY Zenon DEF IsInjective
    <3> HIDE DEF g
    <3>2. g \in Injection(Young, DOMAIN recent)
      BY <2>1, <3>1, Zenon DEF Injection
    <3> QED BY <2>1, <3>2, Zenon DEF Recorded
  <2> QED BY <2>1, <2>2 DEF ChurnInv
<1>2. TypeOK /\ TypeOK' /\ IdleInv /\ ChurnInv /\ [Next]_vars => ChurnInv'
  BY ChurnStep
<1>3. TypeOK /\ ChurnInv => ChurnBound
  <2> SUFFICES ASSUME TypeOK, ChurnInv PROVE Cardinality(Young) <= MaxPerWindow
    BY DEF ChurnBound, Young
  <2>1. PICK f \in Injection(Young, DOMAIN recent) : TRUE
    BY Zenon DEF ChurnInv, Recorded
  <2>2. DOMAIN recent = 1..Len(recent) /\ Len(recent) \in Nat
    BY LenProperties DEF TypeOK
  <2>3. IsFiniteSet(1..Len(recent)) /\ Cardinality(1..Len(recent)) = Len(recent)
    <3>1. 1 \in Int /\ Len(recent) \in Int
      BY <2>2
    <3>2. /\ IsFiniteSet(1..Len(recent))
          /\ Cardinality(1..Len(recent)) =
                IF 1 > Len(recent) THEN 0 ELSE Len(recent) - 1 + 1
      BY <3>1, FS_Interval, Zenon
    <3> QED BY <2>2, <3>2
  <2>4. IsFiniteSet(Young) /\ Cardinality(Young) <= Len(recent)
    <3>1. f \in Injection(Young, 1..Len(recent))
      BY <2>1, <2>2, Zenon
    <3>2. IsFiniteSet(Young) /\ Cardinality(Young) <= Cardinality(1..Len(recent))
      BY <2>3, <3>1, FS_Injection, Zenon
    <3> QED BY <2>3, <3>2, Zenon
  <2>5. Cardinality(Young) \in Nat
    BY <2>4, FS_CardinalityType
  <2> QED BY <2>2, <2>4, <2>5 DEF ChurnInv
<1> QED
  BY <1>1, <1>2, <1>3, TypeCorrect, IdleInvariant, PTL DEF Spec
=============================================================================
