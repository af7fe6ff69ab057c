---------------------------- MODULE BrokerProofs ----------------------------
(***************************************************************************)
(* What the broker's loop keeps true for any number of connections, any    *)
(* bounds and any faults: the type of its state, the idle timer, who owns  *)
(* the slot, and where a connection can be.                                *)
(***************************************************************************)
EXTENDS BrokerInvariants, SequenceTheorems, WellFoundedInduction, TLAPS

USE WorkerAssumption, BrokerAssumption

\* What create_at keeps of its recent entries is again a list of entries, not
\* longer, and has every entry that is not too old.
LEMMA PruneType ==
    ASSUME NEW r \in Seq(0..Window)
    PROVE  /\ Prune(r) \in Seq(0..Window)
           /\ Len(Prune(r)) <= Len(r)
           /\ \E k \in Nat : \A i \in 1..Len(r) :
                 r[i] < Window => /\ i - k \in 1..Len(Prune(r))
                                  /\ Prune(r)[i - k] = r[i]
<1> DEFINE fresh == {i \in DOMAIN r : r[i] < Window}
           first == CHOOSE i \in fresh : \A j \in fresh : i <= j
<1>0. DOMAIN r = 1..Len(r) /\ Len(r) \in Nat
  BY LenProperties
<1>1. CASE fresh = {}
  <2>1. Prune(r) = <<>>
    BY <1>1 DEF Prune
  <2>2. \A i \in 1..Len(r) : ~(r[i] < Window)
    BY <1>0, <1>1
  <2> HIDE DEF fresh
  <2> QED
    BY <1>0, <2>1, <2>2
<1>2. CASE fresh # {}
  <2>2. \E i \in fresh : \A j \in fresh : i <= j
    <3>1. fresh \subseteq Nat
      BY <1>0
    <3>2. PICK i \in fresh : \A j \in fresh : ~(<<j, i>> \in OpToRel(<, Nat))
      BY <1>2, <3>1, NatLessThanWellFounded, WFMin, Zenon
    <3>3. ASSUME NEW j \in fresh PROVE i <= j
      <4>1. i \in Nat /\ j \in Nat
        BY <3>1
      <4>2. ~(<<j, i>> \in OpToRel(<, Nat))
        BY <3>2, Zenon
      <4>3. ~(j < i)
        BY <4>1, <4>2 DEF OpToRel
      <4> QED
        BY <4>1, <4>3
    <3> QED
      BY <3>3
  <2>3. first \in fresh /\ \A j \in fresh : first <= j
    BY <2>2, Zenon
  <2>4. first \in 1..Len(r)
    BY <1>0, <2>3
  <2>5. \A j \in 1..Len(r) : r[j] < Window => first <= j
    BY <1>0, <2>3
  <2>6. Prune(r) = SubSeq(r, first, Len(r))
    BY <1>2, Zenon DEF Prune
  <2> HIDE DEF fresh, first
  <2>7. /\ SubSeq(r, first, Len(r)) \in Seq(0..Window)
        /\ Len(SubSeq(r, first, Len(r))) = Len(r) - first + 1
        /\ \A j \in 1..(Len(r) - first + 1) :
              SubSeq(r, first, Len(r))[j] = r[first + j - 1]
    <3>1. \A i \in first..Len(r) : r[i] \in 0..Window
      BY <1>0, <2>4
    <3> QED
      BY <1>0, <2>4, <3>1, SubSeqProperties
  <2>8. ASSUME NEW i \in 1..Len(r), r[i] < Window
        PROVE  /\ i - (first - 1) \in 1..Len(Prune(r))
               /\ Prune(r)[i - (first - 1)] = r[i]
    <3>1. first <= i
      BY <2>5, <2>8
    <3>2. /\ i - (first - 1) \in 1..(Len(r) - first + 1)
          /\ first + (i - (first - 1)) - 1 = i
      BY <1>0, <2>4, <3>1
    <3> QED
      BY <2>6, <2>7, <3>2
  <2>9. first - 1 \in Nat
    BY <1>0, <2>4
  <2>10. Len(Prune(r)) <= Len(r)
    BY <1>0, <2>4, <2>6, <2>7
  <2> QED
    BY <2>6, <2>7, <2>8, <2>9, <2>10, Zenon
<1> QED
  BY <1>1, <1>2

\* What is left of a sequence without its p-th element.
LEMMA RemoveProperties ==
    ASSUME NEW S, NEW s \in Seq(S), NEW p \in 1..Len(s)
    PROVE  /\ Remove(s, p) \in Seq(S)
           /\ Len(Remove(s, p)) = Len(s) - 1
           /\ \A i \in 1..Len(Remove(s, p)) :
                 Remove(s, p)[i] = IF i < p THEN s[i] ELSE s[i + 1]
<1> DEFINE front == SubSeq(s, 1, p - 1)
           back == SubSeq(s, p + 1, Len(s))
           t == Remove(s, p)
<1>1. Len(s) \in Nat /\ \A i \in 1..Len(s) : s[i] \in S
  BY LenProperties
<1>2. /\ front \in Seq(S) /\ Len(front) = p - 1
      /\ \A i \in 1..(p - 1) : front[i] = s[i]
  <2>1. p - 1 \in Int /\ 1 \in Int /\ \A i \in 1..(p - 1) : s[i] \in S
    BY <1>1
  <2>2. /\ front \in Seq(S)
        /\ Len(front) = IF 1 <= p - 1 THEN p - 1 - 1 + 1 ELSE 0
        /\ \A i \in 1..(p - 1 - 1 + 1) : front[i] = s[1 + i - 1]
    BY <2>1, SubSeqProperties
  <2> HIDE DEF front
  <2> QED
    BY <1>1, <2>2
<1>3. /\ back \in Seq(S) /\ Len(back) = Len(s) - p
      /\ \A i \in 1..(Len(s) - p) : back[i] = s[p + i]
  <2>1. p + 1 \in Int /\ Len(s) \in Int /\ \A i \in p + 1 .. Len(s) : s[i] \in S
    BY <1>1
  <2>2. /\ back \in Seq(S)
        /\ Len(back) = IF p + 1 <= Len(s) THEN Len(s) - (p + 1) + 1 ELSE 0
        /\ \A i \in 1..(Len(s) - (p + 1) + 1) : back[i] = s[p + 1 + i - 1]
    BY <2>1, SubSeqProperties
  <2> HIDE DEF back
  <2> QED
    BY <1>1, <2>2
<1> HIDE DEF front, back, t
<1>4. t = front \o back
  BY DEF Remove, front, back, t
<1>5. /\ front \o back \in Seq(S)
      /\ Len(front \o back) = Len(front) + Len(back)
      /\ \A i \in 1..Len(front) + Len(back) :
            (front \o back)[i] =
                IF i <= Len(front) THEN front[i] ELSE back[i - Len(front)]
  <2>1. front \in Seq(S) /\ back \in Seq(S)
    BY <1>2, <1>3
  <2> QED
    BY <2>1, ConcatProperties
<1>6. Len(t) = Len(s) - 1
  <2>1. Len(s) \in Nat /\ Len(front) = p - 1 /\ Len(back) = Len(s) - p
    BY <1>1, <1>2, <1>3
  <2>2. Len(t) = (p - 1) + (Len(s) - p)
    BY <1>4, <1>5, <2>1
  <2>3. (p - 1) + (Len(s) - p) = Len(s) - 1
    BY <2>1
  <2> QED
    BY <2>2, <2>3
<1>7. ASSUME NEW i \in 1..Len(t)
      PROVE  t[i] = IF i < p THEN s[i] ELSE s[i + 1]
  <2>1. t[i] = IF i <= p - 1 THEN front[i] ELSE back[i - (p - 1)]
    BY <1>1, <1>2, <1>3, <1>4, <1>5, <1>6
  <2>2. CASE i < p
    BY <1>1, <1>2, <1>6, <2>1, <2>2
  <2>3. CASE ~(i < p)
    <3>1. i - (p - 1) \in 1..(Len(s) - p)
      <4>1. Len(s) \in Nat /\ i \in 1..(Len(s) - 1)
        BY <1>1, <1>6
      <4> QED
        BY <4>1, <2>3
    <3>2. back[i - (p - 1)] = s[p + (i - (p - 1))]
      BY <1>3, <3>1
    <3>3. p + (i - (p - 1)) = i + 1 /\ ~(i <= p - 1)
      BY <1>1, <1>6, <2>3
    <3> QED
      BY <2>1, <2>3, <3>2, <3>3
  <2> QED
    BY <2>2, <2>3
<1> QED
  BY <1>4, <1>5, <1>6, <1>7 DEF t

\* Taking a connection out of the queue leaves the others, in their order.
LEMMA WithoutPendingProperties ==
    ASSUME pending \in Seq(Conns), NEW c \in Conns, IsPending(c)
    PROVE  \E p \in 1..Len(pending) :
              /\ pending[p] = c
              /\ WithoutPending(c) \in Seq(Conns)
              /\ Len(WithoutPending(c)) = Len(pending) - 1
              /\ \A i \in 1..Len(WithoutPending(c)) :
                    WithoutPending(c)[i] =
                        IF i < p THEN pending[i] ELSE pending[i + 1]
<1> DEFINE pos == CHOOSE i \in DOMAIN pending : pending[i] = c
<1>1. DOMAIN pending = 1..Len(pending)
  BY LenProperties
<1>2. pos \in 1..Len(pending) /\ pending[pos] = c
  BY <1>1 DEF IsPending, Range
<1>3. WithoutPending(c) = Remove(pending, pos)
  BY DEF WithoutPending
<1> HIDE DEF pos
<1> QED
  BY <1>2, <1>3, RemoveProperties, SMTT(20)

----------------------------------------------------------------------------
(* Type correctness.                                                       *)

\* Every step of the specification preserves the types.
LEMMA TypeStep ==
    TypeOK /\ [Next]_vars => TypeOK'
\* Every step of a worker keeps the worker's part of the state typed.
<1>WorkerTyped.
  ASSUME WorkerTypeOK, NEW w \in Conns, WorkerNext(w)
  PROVE  WorkerTypeOK'
  <2> USE <1>WorkerTyped
  <2> USE DEF WorkerTypeOK
  <2>a. /\ "acct_mgmt" \in Steps /\ "setcred" \in Steps /\ "spec" \in Steps
        /\ "open_session" \in Steps /\ "spawn" \in Steps /\ "wait" \in Steps
        /\ "close_session" \in Steps /\ "delete_cred" \in Steps
        /\ "exited" \in Steps
    BY DEF Steps, PamCalls
  <2>b. /\ "auth" \in PamFacts /\ "acct" \in PamFacts /\ "cred" \in PamFacts
        /\ "session" \in PamFacts /\ "ended" \in PamFacts
    BY DEF PamFacts
  <2>c. \A f \in WorkerFrames : Append(fromWorker[w], f) \in Seq(WorkerFrames)
    OBVIOUS
  <2>d. /\ "ConvPrompt" \in WorkerFrames /\ "ConvDisplay" \in WorkerFrames
        /\ "AuthOk" \in WorkerFrames /\ "SessionOpened" \in WorkerFrames
        /\ "SessionEnded" \in WorkerFrames /\ "Failure" \in WorkerFrames
    BY DEF WorkerFrames
  <2>e. toWorker[w] # <<>> => Tail(toWorker[w]) \in Seq(GreeterFrames)
    OBVIOUS
  <2> USE <2>a, <2>b, <2>c, <2>d, <2>e
  <2>1. CASE Display(w)
    BY <2>1 DEF Display, Send
  <2>2. CASE Prompt(w)
    BY <2>2 DEF Prompt, Send
  <2>3. CASE Respond(w)
    <3>1. toWorker' \in [Conns -> Seq(GreeterFrames)]
      <4>1. CASE toWorker[w] # <<>>
        <5>1. toWorker' = [toWorker EXCEPT ![w] = Tail(@)]
          BY <2>3, <4>1 DEF Respond
        <5> QED
          BY <4>1, <5>1
      <4>2. CASE toWorker[w] = <<>>
        BY <2>3, <4>2 DEF Respond
      <4> QED
        BY <4>1, <4>2
    <3> QED
      BY <2>3, <3>1 DEF Respond
  <2>4. CASE PamSucceeds(w)
    <3>1. ASSUME NEW p, NEW q \in Steps, NEW F \in SUBSET PamFacts,
                 PamReturns(w, p, q, F)
          PROVE  WorkerTypeOK'
      BY <3>1 DEF PamReturns
    <3>2. /\ pam[w] \cup {"auth"} \in SUBSET PamFacts
          /\ pam[w] \cup {"acct"} \in SUBSET PamFacts
          /\ pam[w] \cup {"session"} \in SUBSET PamFacts
          /\ pam[w] \ {"session"} \in SUBSET PamFacts
      OBVIOUS
    <3> HIDE DEF WorkerTypeOK
    <3> QED
      BY <2>4, <3>1, <3>2 DEF PamSucceeds
  <2>5. CASE AuthOk(w)
    <3>1. CASE w \in brokerEnd
      <4>1. /\ Send(w, "AuthOk")
            /\ step' = [step EXCEPT ![w] = "spec"]
            /\ pam' = [pam EXCEPT ![w] = @ \cup {"cred"}]
            /\ UNCHANGED <<proc, blocked, toWorker, leader, brokerEnd, children>>
        BY <2>5, <3>1 DEF AuthOk
      <4> QED
        BY <4>1 DEF Send
    <3>2. CASE w \notin brokerEnd
      <4>1. /\ pam' = [pam EXCEPT ![w] = @ \cup {"cred", "ended"}]
            /\ Exit(w)
            /\ UNCHANGED <<fromWorker, leader, brokerEnd, children>>
        BY <2>5, <3>2 DEF AuthOk
      <4> QED
        BY <4>1 DEF Exit, Gone
    <3> QED
      BY <3>1, <3>2
  <2>6. CASE ReadSpec(w)
    BY <2>6 DEF ReadSpec
  <2>7. CASE RefuseSpec(w)
    BY <2>7 DEF RefuseSpec, Fail, Send, Exit, Gone
  <2>8. CASE CallFails(w)
    BY <2>8 DEF CallFails, Fail, Send, Exit, Gone
  <2>9. CASE SpawnLeader(w)
    BY <2>9 DEF SpawnLeader, Send
  <2>10. CASE SpawnLeaderFails(w)
    BY <2>10 DEF SpawnLeaderFails, Fail, Send, Exit, Gone
  <2>11. CASE LeaderReaped(w)
    BY <2>11 DEF LeaderReaped
  <2>12. CASE SessionEnds(w)
    BY <2>12 DEF SessionEnds, Send, Exit, Gone
  <2>13. CASE Crash(w)
    BY <2>13 DEF Crash, Exit, Gone
  <2>14. CASE LeaderExits(w)
    BY <2>14 DEF LeaderExits
  <2> QED
    BY <2>1, <2>2, <2>3, <2>4, <2>5, <2>6, <2>7, <2>8, <2>9, <2>10, <2>11,
       <2>12, <2>13, <2>14, Zenon DEF WorkerNext, WorkerStep
\* A worker's step keeps everything typed.
<1>TypeWorker.
  ASSUME TypeOK, NEW w \in Conns, Worker(w)
  PROVE  TypeOK'
  <2> USE <1>TypeWorker
  <2>1. WorkerTypeOK'
    BY <1>WorkerTyped DEF TypeOK, Worker
  <2> QED
    BY <2>1 DEF TypeOK, Worker, brokerVars, clientVars, slotVars, loopVars
\* So does what the peers do.
<1>TypePeer.
  ASSUME TypeOK, NEW c \in Conns, Connect(c) \/ PeerSends(c) \/ HangUp(c)
  PROVE  TypeOK'
  <2> USE <1>TypePeer
  <2> USE DEF TypeOK, WorkerTypeOK, wvars, clientVars, slotVars, loopVars
  <2>1. CASE Connect(c)
    <3>1. PICK u \in Uids : puid' = [puid EXCEPT ![c] = u]
      BY <2>1, Zenon DEF Connect
    <3>2. puid' \in [Conns -> {"root", "relay", "other"}]
      BY <3>1
    <3>3. Append(backlog, c) \in Seq(Conns)
      OBVIOUS
    <3> QED
      BY <2>1, <3>2, <3>3, Zenon DEF Connect
  <2>2. CASE PeerSends(c)
    <3>1. PICK f \in GreeterFrames :
              toBroker' = [toBroker EXCEPT ![c] = Append(@, f)]
      BY <2>2, Zenon DEF PeerSends, GreeterFrames
    <3>2. toBroker' \in [Conns -> Seq(GreeterFrames)]
      BY <3>1
    <3>3. /\ peer' = [peer EXCEPT ![c] = "talking"]
          /\ UNCHANGED <<wvars, slotVars, loopVars, puid, backlog, inherited,
                         told, spawnAge>>
      BY <2>2 DEF PeerSends
    <3> QED
      BY <3>2, <3>3, Zenon
  <2>3. CASE HangUp(c)
    BY <2>3, Zenon DEF HangUp
  <2> QED
    BY <2>1, <2>2, <2>3, Zenon
\* Admission, in the listener's loop and in the race-drain.
<1>TypeAdmission.
  ASSUME TypeOK, ListenerReady \/ RaceDrain
  PROVE  TypeOK'
  <2> USE <1>TypeAdmission
  <2> USE DEF TypeOK, WorkerTypeOK, wvars, clientVars, slotVars, loopVars
  <2>1. backlog # <<>> /\ Head(backlog) \in Conns /\ Tail(backlog) \in Seq(Conns)
    BY HeadTailProperties DEF ListenerReady, RaceDrain
  <2>2. MakeRoom \in Seq(Conns)
    BY HeadTailProperties DEF MakeRoom, Full
  <2>3. Append(MakeRoom, Head(backlog)) \in Seq(Conns)
    BY <2>1, <2>2
  <2>4. /\ pending' \in Seq(Conns) /\ idle' \in 0..IdleExit \cup {None}
        /\ toBroker' \in [Conns -> Seq(GreeterFrames)]
    <3>1. AdmitOne(Head(backlog)) \/ AdmitFails(Head(backlog))
      BY DEF ListenerReady, RaceDrain
    <3>2. /\ pending' \in {pending, MakeRoom, Append(MakeRoom, Head(backlog))}
          /\ idle' \in {idle, None}
          /\ \E D : Drop(D)
      BY <3>1 DEF AdmitOne, AdmitFails
    <3>3. toBroker' \in [Conns -> Seq(GreeterFrames)]
      BY <3>2 DEF Drop
    <3> QED
      BY <2>2, <2>3, <3>2, <3>3, Zenon
  <2> QED
    BY <2>1, <2>4, ZenonT(30) DEF ListenerReady, RaceDrain
\* The pending sources and the first frames served on the spot.
<1>TypeFirstFrame.
  ASSUME TypeOK, NEW c \in Conns,
         PendingFires(c) \/ FirstFrameStale(c) \/ FirstFrameHandled(c)
  PROVE  TypeOK'
  <2> USE <1>TypeFirstFrame
  <2> USE DEF TypeOK, WorkerTypeOK, wvars, clientVars, slotVars, loopVars
  <2>1. CASE PendingFires(c)
    BY <2>1, Zenon DEF PendingFires
  <2>2. CASE FirstFrameStale(c)
    BY <2>2, Zenon DEF FirstFrameStale
  <2>3. CASE FirstFrameHandled(c)
    <3>1. /\ pending' \in Seq(Conns) /\ fired' \subseteq Conns
      BY <2>3, WithoutPendingProperties DEF FirstFrameHandled, TakePending
    <3>2. told' \in [Conns -> Seq(Milestones)]
      <4>1. ASSUME NEW f \in Milestones, Tell(c, f)
            PROVE  told' \in [Conns -> Seq(Milestones)]
        BY <4>1 DEF Tell
      <4>2. UNCHANGED told \/ Tell(c, "RootFd") \/ Tell(c, "GreeterSpawned")
        BY <2>3 DEF FirstFrameHandled
      <4> QED
        BY <4>1, <4>2, Zenon DEF Milestones
    <3>3. inherited' \subseteq Conns
      BY <2>3 DEF FirstFrameHandled
    <3>4. idle' \in 0..IdleExit \cup {None}
      BY <2>3 DEF FirstFrameHandled, ArmIdleIfQuiet
    <3>5. /\ toBroker' = [toBroker EXCEPT ![c] = <<>>]
          /\ UNCHANGED <<wvars, slotVars, broker, active, phase, peer, puid,
                         backlog, spawnAge>>
      BY <2>3 DEF FirstFrameHandled
    <3>6. toBroker' \in [Conns -> Seq(GreeterFrames)]
      BY <3>5
    <3> QED
      BY <3>1, <3>2, <3>3, <3>4, <3>5, <3>6, Zenon
  <2> QED
    BY <2>1, <2>2, <2>3, Zenon
\* A worker is replaced in the slot, or taken out of it.
<1>TypeReplaceWorker.
  ASSUME TypeOK, NEW c \in Conns \cup {None}, ReplaceWorker(c)
  PROVE  WorkerTypeOK' /\ slot' \in Conns \cup {None}
  <2> USE <1>TypeReplaceWorker
  <2> USE DEF TypeOK, WorkerTypeOK, ReplaceWorker
  <2>1. "exited" \in Steps
    BY DEF Steps
  <2>2. step' \in [Conns -> Steps] /\ blocked' \subseteq Conns
    BY <2>1 DEF Gone
  <2>3. toWorker' \in [Conns -> Seq(GreeterFrames)]
    BY DEF Gone
  <2>4. fromWorker' \in [Conns -> Seq(WorkerFrames)]
    OBVIOUS
  <2>5. proc' \in [Conns -> {"none", "live", "zombie", "reaped"}]
    OBVIOUS
  <2>6. children' \subseteq Conns /\ brokerEnd' \subseteq Conns
    BY SMTT(20)
  <2>7. UNCHANGED <<pam, leader>> /\ slot' = c
    OBVIOUS
  <2> HIDE DEF ReplaceWorker
  <2> QED
    BY <2>2, <2>3, <2>4, <2>5, <2>6, <2>7, Zenon
\* AuthSlot::create, whatever its result.
<1>TypeSlot.
  ASSUME TypeOK, NEW c \in Conns,
         SlotRefuses(c) \/ SpawnFails(c) \/ SlotInstalls(c)
  PROVE  /\ WorkerTypeOK' /\ slot' \in Conns \cup {None}
         /\ recent' \in Seq(0..Window)
         /\ spawnAge' \in [Conns -> 0..Window \cup {None}]
  <2> USE <1>TypeSlot
  <2>1. Prune(recent) \in Seq(0..Window)
    BY PruneType DEF TypeOK
  <2>2. CASE SlotRefuses(c)
    BY <2>1, <2>2, Zenon DEF SlotRefuses, TypeOK, WorkerTypeOK, wvars
  <2>3. CASE SpawnFails(c)
    BY <2>1, <2>3, <1>TypeReplaceWorker DEF SpawnFails, TypeOK
  <2>4. CASE SlotInstalls(c)
    <3>1. recent' \in Seq(0..Window)
      BY <2>1, <2>4 DEF SlotInstalls
    <3>2. spawnAge' \in [Conns -> 0..Window \cup {None}]
      BY <2>4 DEF SlotInstalls, TypeOK
    <3> QED
      BY <2>4, <3>1, <3>2, <1>TypeReplaceWorker DEF SlotInstalls
  <2> QED
    BY <2>2, <2>3, <2>4
\* activate, whatever becomes of the connection.
<1>TypeActivate.
  ASSUME TypeOK, NEW c \in Conns, Activate(c)
  PROVE  TypeOK'
  <2> USE <1>TypeActivate
  <2>1. /\ WorkerTypeOK' /\ slot' \in Conns \cup {None}
        /\ recent' \in Seq(0..Window)
        /\ spawnAge' \in [Conns -> 0..Window \cup {None}]
    BY <1>TypeSlot DEF Activate
  <2>2. pending' \in Seq(Conns) /\ fired' \subseteq Conns
    BY WithoutPendingProperties DEF Activate, TakePending, TypeOK
  <2>3. toBroker' \in [Conns -> Seq(GreeterFrames)]
    <3>1. Superseded(c) \in [Conns -> Seq(GreeterFrames)]
      BY DEF Superseded, TypeOK
    <3>2. Tail(toBroker[c]) \in Seq(GreeterFrames)
      BY HeadTailProperties DEF Activate, Opens, TypeOK
    <3>3. toBroker' \in {Superseded(c),
                         [Superseded(c) EXCEPT ![c] = Tail(toBroker[c])]}
      BY DEF Activate
    <3> QED
      BY <3>1, <3>2, <3>3, Zenon
  <2>4. /\ active' \in Conns \cup {None}
        /\ phase' \in AwaitPhases \cup WorkerPhases
    BY DEF Activate, TypeOK, WorkerPhases
  <2>5. idle' \in 0..IdleExit \cup {None}
    BY DEF Activate, ArmIdleIfQuiet, TypeOK
  <2> QED
    BY <2>1, <2>2, <2>3, <2>4, <2>5 DEF Activate, TypeOK
\* Both sides of the relay, and the end of the connection.
<1>TypeRelay.
  ASSUME TypeOK, WorkerSide \/ GreeterSide
  PROVE  TypeOK'
  <2> USE <1>TypeRelay
  <2> USE DEF TypeOK, WorkerTypeOK, wvars, clientVars, slotVars, loopVars
  <2>1. active \in Conns
    BY DEF WorkerSide, GreeterSide, RelayDisplay, RelayPrompt, RelayAuthOk,
           RelaySessionOpened, RelayOutcome, WorkerSays, WorkerSideError,
           RelayToWorker, GreeterSideEnds
  <2>2. ASSUME NEW f \in Milestones, Tell(active, f)
        PROVE  told' \in [Conns -> Seq(Milestones)]
    BY <2>1, <2>2 DEF Tell
  <2>3. ASSUME EndConnection, told' \in [Conns -> Seq(Milestones)]
        PROVE  TypeOK'
    <3>1. /\ WorkerTypeOK' /\ slot' \in Conns \cup {None}
      BY <2>3, <1>TypeReplaceWorker DEF EndConnection
    <3>2. idle' \in 0..IdleExit \cup {None}
      BY <2>3 DEF EndConnection, ArmIdleIfQuiet
    <3>3. toBroker' \in [Conns -> Seq(GreeterFrames)]
      <4>1. toBroker' = [toBroker EXCEPT ![active] = <<>>]
        BY <2>3 DEF EndConnection
      <4> QED
        BY <2>1, <4>1
    <3> QED
      <4>1. /\ active' = None
            /\ UNCHANGED <<recent, broker, pending, fired, phase, peer, puid,
                           backlog, inherited, spawnAge>>
        BY <2>3 DEF EndConnection
      <4> HIDE DEF WorkerTypeOK
      <4> QED
        BY <2>3, <3>1, <3>2, <3>3, <4>1, Zenon
  <2>4. ASSUME NEW f, WorkerSays(f), RelayContinues,
               phase' \in AwaitPhases \cup WorkerPhases,
               told' \in [Conns -> Seq(Milestones)]
        PROVE  TypeOK'
    <3>1. slot \in Conns /\ Tail(fromWorker[slot]) \in Seq(WorkerFrames)
      BY <2>4, HeadTailProperties DEF WorkerSays
    <3>2. fromWorker' \in [Conns -> Seq(WorkerFrames)]
      BY <2>4, <3>1 DEF RelayContinues
    <3> QED
      BY <2>4, <3>2, Zenon DEF RelayContinues, RelayStays
  <2>5. CASE RelayDisplay
    BY <2>4, <2>5, Zenon DEF RelayDisplay
  <2>6. CASE RelayPrompt
    BY <2>4, <2>6, Zenon DEF RelayPrompt, AwaitPhases
  <2>7. CASE RelayAuthOk
    BY <2>2, <2>4, <2>7, Zenon DEF RelayAuthOk, AwaitPhases, Milestones
  <2>8. CASE RelaySessionOpened
    BY <2>2, <2>4, <2>8, Zenon DEF RelaySessionOpened, WorkerPhases, Milestones
  <2>9. CASE RelayOutcome
    BY <2>2, <2>3, <2>9, Zenon DEF RelayOutcome, Milestones
  <2>10. CASE WorkerSideError \/ GreeterSideEnds
    BY <2>3, <2>10, Zenon DEF WorkerSideError, GreeterSideEnds
  <2>11. CASE RelayToWorker
    <3>1. slot \in Conns /\ Tail(toBroker[active]) \in Seq(GreeterFrames)
      BY <2>1, <2>11, HeadTailProperties DEF RelayToWorker, Opens
    <3>2. Append(toWorker[slot], Expected) \in Seq(GreeterFrames)
      BY <3>1 DEF Expected, GreeterFrames
    <3>3. /\ toBroker' \in [Conns -> Seq(GreeterFrames)]
          /\ toWorker' \in [Conns -> Seq(GreeterFrames)]
      BY <2>11, <3>1, <3>2 DEF RelayToWorker
    <3> QED
      BY <2>11, <3>3 DEF RelayToWorker, RelayStays, WorkerPhases
  <2> QED
    BY <2>5, <2>6, <2>7, <2>8, <2>9, <2>10, <2>11, Zenon DEF WorkerSide, GreeterSide
\* The process starts, exits or loses a greeter, and time passes.
<1>TypeProcess.
  ASSUME TypeOK,
         \/ IdleExits \/ RaceDrainFails \/ Sigterm \/ SocketActivates \/ Tick
         \/ \E w \in Conns : GreeterGone(w)
  PROVE  TypeOK'
  <2> USE <1>TypeProcess
  <2> USE DEF TypeOK, WorkerTypeOK, wvars, clientVars, slotVars, loopVars
  <2>1. CASE IdleExits \/ RaceDrainFails \/ Sigterm
    <3>1. BrokerExits
      BY <2>1 DEF IdleExits, RaceDrainFails, Sigterm
    <3>2. spawnAge' \in [Conns -> 0..Window \cup {None}]
      BY <2>1 DEF IdleExits, RaceDrainFails, Sigterm
    <3>3. toBroker' \in [Conns -> Seq(GreeterFrames)]
      BY <3>1 DEF BrokerExits, Drop
    <3>4. /\ proc' \in [Conns -> {"none", "live", "zombie", "reaped"}]
          /\ fromWorker' \in [Conns -> Seq(WorkerFrames)]
          /\ brokerEnd' \subseteq Conns /\ children' \subseteq Conns
          /\ recent' \in Seq(0..Window) /\ pending' \in Seq(Conns)
      BY <3>1 DEF BrokerExits
    <3>5. backlog' \in Seq(Conns)
      <4>1. backlog' = backlog \/ (backlog # <<>> /\ backlog' = Tail(backlog))
        BY <2>1 DEF IdleExits, RaceDrainFails, Sigterm
      <4>2. backlog \in Seq(Conns)
        BY DEF TypeOK
      <4>3. CASE backlog' = backlog
        BY <4>2, <4>3
      <4>4. CASE backlog # <<>> /\ backlog' = Tail(backlog)
        BY <4>2, <4>4, HeadTailProperties
      <4> QED
        BY <4>1, <4>3, <4>4
    <3> QED
      BY <3>1, <3>2, <3>3, <3>4, <3>5, Zenon DEF BrokerExits
  <2>2. CASE SocketActivates
    <3>1. 0 \in 0..IdleExit
      OBVIOUS
    <3> QED
      BY <2>2, <3>1, Zenon DEF SocketActivates
  <2>3. CASE Tick
    <3>1. idle' \in 0..IdleExit \cup {None}
      <4>1. idle' = Older(idle, IdleExit)
        BY <2>3 DEF Tick
      <4>2. CASE idle = None \/ idle = IdleExit
        BY <4>1, <4>2 DEF Older
      <4>3. CASE idle \in 0..IdleExit /\ idle # None /\ idle # IdleExit
        <5>1. idle' = idle + 1
          BY <4>1, <4>3 DEF Older
        <5> QED
          BY <4>3, <5>1
      <4> QED
        BY <4>2, <4>3
    <3>2. recent' \in Seq(0..Window)
      <4>1. DOMAIN recent = 1..Len(recent) /\ Len(recent) \in Nat
        BY LenProperties
      <4>2. \A i \in 1..Len(recent) : Older(recent[i], Window) \in 0..Window
        <5>1. \A a \in 0..Window : Older(a, Window) \in 0..Window
          BY DEF Older
        <5>2. \A i \in 1..Len(recent) : recent[i] \in 0..Window
          BY ElementOfSeq, Zenon
        <5> QED
          BY <5>1, <5>2, Zenon
      <4>3. recent' = [i \in 1..Len(recent) |-> Older(recent[i], Window)]
        BY <2>3, <4>1 DEF Tick
      <4> QED
        BY <4>1, <4>2, <4>3
    <3>3. spawnAge' \in [Conns -> 0..Window \cup {None}]
      <4>1. \A a \in 0..Window \cup {None} : Older(a, Window) \in 0..Window \cup {None}
        BY DEF Older
      <4>2. spawnAge' = [c \in Conns |-> Older(spawnAge[c], Window)]
        BY <2>3 DEF Tick
      <4> QED
        BY <4>1, <4>2, Zenon
    <3>4. UNCHANGED <<wvars, clientVars, slot, broker, pending, fired, active,
                      phase, backlog, inherited, told>>
      BY <2>3 DEF Tick
    <3> QED
      BY <3>1, <3>2, <3>3, <3>4, Zenon
  <2>4. CASE \E w \in Conns : GreeterGone(w)
    <3>1. PICK w \in Conns : GreeterGone(w)
      BY <2>4
    <3>2. inherited' \subseteq Conns /\ brokerEnd' \subseteq Conns
      BY <3>1 DEF GreeterGone
    <3>3. fromWorker' \in [Conns -> Seq(WorkerFrames)]
      <4>1. <<>> \in Seq(WorkerFrames)
        OBVIOUS
      <4>2. CASE slot = w
        <5>1. UNCHANGED fromWorker
          BY <3>1, <4>2 DEF GreeterGone
        <5> QED
          BY <5>1
      <4>3. CASE slot # w
        <5>1. fromWorker' = [fromWorker EXCEPT ![w] = <<>>]
          BY <3>1, <4>3 DEF GreeterGone
        <5> QED
          BY <4>1, <5>1
      <4> QED
        BY <4>2, <4>3
    <3> QED
      BY <3>1, <3>2, <3>3, Zenon DEF GreeterGone
  <2> QED
    BY <2>1, <2>2, <2>3, <2>4, Zenon
<1> SUFFICES ASSUME TypeOK, [Next]_vars
             PROVE  TypeOK'
  OBVIOUS
<1>1. CASE UNCHANGED vars
  BY <1>1 DEF TypeOK, WorkerTypeOK, vars, wvars, clientVars, slotVars, loopVars
<1>2. CASE Next
  BY <1>2, <1>TypeWorker, <1>TypePeer, <1>TypeAdmission, <1>TypeFirstFrame, <1>TypeActivate,
     <1>TypeRelay, <1>TypeProcess DEF Next, FirstFrameReady
<1> QED
  BY <1>1, <1>2

\* The initial state is well typed.
LEMMA TypeInit ==
    ASSUME Init
    PROVE  TypeOK
BY DEF Init, TypeOK, WorkerInit, WorkerTypeOK, Steps, PamCalls, WorkerPhases

\* Type correctness: in every behaviour of the broker and its workers, for
\* any number of connections and any bounds, each variable keeps its type; in
\* particular the idle timer and the throttle's entries never leave their
\* ranges (Tick, arm_idle_if_quiet, create_at).
THEOREM TypeCorrect == Spec => []TypeOK
<1>1. Init => TypeOK
  BY TypeInit
<1>2. TypeOK /\ [Next]_vars => TypeOK'
  BY TypeStep
<1> QED
  BY <1>1, <1>2, PTL DEF Spec

----------------------------------------------------------------------------
(* The idle timer.                                                         *)

\* Every callback that empties or fills the broker arms or clears the idle
\* timer with it (arm_idle_if_quiet, admit_one, activate).
LEMMA IdleStep ==
    TypeOK /\ IdleInv /\ [Next]_vars => IdleInv'
\* Neither accepting a connection nor failing to register it leaves the queue
\* empty, so the timer must stay off: with room for two, evicting one
\* connection leaves another.
<1>IdleAdmission.
  ASSUME TypeOK, IdleInv, ListenerReady \/ RaceDrain
  PROVE  IdleInv'
  <2> USE <1>IdleAdmission
  <2>1. /\ broker = "up" /\ broker' = "up" /\ active' = active
        /\ AdmitOne(Head(backlog)) \/ AdmitFails(Head(backlog))
    BY DEF ListenerReady, RaceDrain, IdleElapsed
  <2>2. MakeRoom \in Seq(Conns)
    BY HeadTailProperties DEF MakeRoom, Full, TypeOK
  <2>3. MakeRoom = <<>> => pending = <<>>
    <3> SUFFICES ASSUME pending # <<>> PROVE MakeRoom # <<>>
      OBVIOUS
    <3>1. Full => Len(Tail(pending)) > 0
      BY HeadTailProperties, LenProperties DEF Full, TypeOK
    <3> QED
      BY <3>1 DEF MakeRoom
  <2>4. pending = <<>> => MakeRoom = <<>>
    BY DEF MakeRoom, Full
  <2>5. Append(MakeRoom, Head(backlog)) # <<>>
    BY <2>2
  <2>6. CASE idle' = None /\ pending' = Append(MakeRoom, Head(backlog))
    BY <2>1, <2>5, <2>6 DEF IdleInv, DownInv, IdleIffQuiet, HasConnection
  <2>7. CASE idle' = idle /\ pending' \in {pending, MakeRoom}
    BY <2>1, <2>3, <2>4, <2>7 DEF IdleInv, DownInv, IdleIffQuiet, HasConnection
  <2> QED
    BY <2>1, <2>6, <2>7 DEF AdmitOne, AdmitFails
<1> SUFFICES ASSUME TypeOK, IdleInv, [Next]_vars
             PROVE  IdleInv'
  OBVIOUS
<1> USE DEF IdleInv, DownInv, IdleIffQuiet, HasConnection
<1> DEFINE quietVars == <<broker, pending, fired, active, slot, children, idle>>
<1>1. CASE UNCHANGED quietVars
  BY <1>1
<1>2. ASSUME NEW c \in Conns, Connect(c) \/ PeerSends(c) \/ HangUp(c)
      PROVE  UNCHANGED quietVars
  BY <1>2 DEF Connect, PeerSends, HangUp, wvars, slotVars, loopVars
<1>3. ASSUME NEW w \in Conns, GreeterGone(w)
      PROVE  UNCHANGED quietVars
  BY <1>3 DEF GreeterGone, slotVars, loopVars
<1>4. ASSUME NEW w \in Conns, Worker(w)
      PROVE  UNCHANGED quietVars
  BY <1>4, Zenon DEF Worker, brokerVars, slotVars, loopVars, WorkerNext, WorkerStep,
     Display, Prompt, Respond, PamSucceeds, PamReturns, AuthOk, ReadSpec,
     RefuseSpec, CallFails, SpawnLeader, SpawnLeaderFails, LeaderReaped,
     SessionEnds, Crash, LeaderExits
<1>5. ASSUME NEW c \in Conns, PendingFires(c) \/ FirstFrameStale(c)
      PROVE  IdleInv'
  BY <1>5 DEF PendingFires, FirstFrameStale
<1>6. ASSUME NEW c \in Conns, TakePending(c)
      PROVE  broker = "up" /\ idle = None /\ 0 # None
  BY <1>6 DEF TakePending, IsPending, Range
<1>7. ASSUME NEW c \in Conns, FirstFrameHandled(c)
      PROVE  IdleInv'
  BY <1>6, <1>7 DEF FirstFrameHandled, ArmIdleIfQuiet
<1>8. ASSUME NEW c \in Conns, Activate(c)
      PROVE  IdleInv'
  <2>1. broker' = "up" /\ idle = None /\ 0 # None
    BY <1>6, <1>8 DEF Activate
  <2>2. \/ active' = None /\ ArmIdleIfQuiet(None, pending')
        \/ active' = c /\ idle' = None
    BY <1>8 DEF Activate
  <2> QED
    BY <2>1, <2>2 DEF ArmIdleIfQuiet
<1>9. CASE ListenerReady \/ RaceDrain
  BY <1>9, <1>IdleAdmission
<1>10. ASSUME EndConnection, broker = "up", active # None
       PROVE  IdleInv'
  BY <1>10 DEF EndConnection, ArmIdleIfQuiet
<1>11. ASSUME RelayStays
       PROVE  UNCHANGED quietVars
  BY <1>11 DEF RelayStays, slotVars
<1>12. CASE WorkerSide
  BY <1>1, <1>10, <1>11, <1>12 DEF WorkerSide, RelayDisplay, RelayPrompt,
     RelayAuthOk, RelaySessionOpened, RelayOutcome, WorkerSideError,
     RelayContinues, WorkerSays
<1>13. CASE GreeterSide
  BY <1>1, <1>10, <1>11, <1>13 DEF GreeterSide, RelayToWorker, GreeterSideEnds
<1>14. CASE IdleExits \/ RaceDrainFails \/ Sigterm
  BY <1>14 DEF IdleExits, RaceDrainFails, Sigterm, BrokerExits
<1>15. CASE SocketActivates
  BY <1>15 DEF SocketActivates, wvars, slotVars
<1>16. CASE Tick
  <2>1. idle' = None <=> idle = None
    BY <1>16, SMTT(20) DEF Tick, Older, TypeOK
  <2> QED
    BY <1>16, <2>1 DEF Tick, wvars
<1>17. CASE UNCHANGED vars
  BY <1>1, <1>17 DEF vars, wvars, slotVars, loopVars
<1> HIDE DEF IdleInv, DownInv, IdleIffQuiet, HasConnection, quietVars
<1> QED
  BY <1>1, <1>2, <1>3, <1>4, <1>5, <1>7, <1>8, <1>9, <1>12, <1>13, <1>14,
     <1>15, <1>16, <1>17 DEF Next, FirstFrameReady

\* A process that is down holds nothing, and the timer is exact.
LEMMA IdleInvariant == Spec => []IdleInv
<1>1. Init => IdleInv
  BY DEF Init, WorkerInit, IdleInv, DownInv, IdleIffQuiet, HasConnection
<1>2. TypeOK /\ IdleInv /\ [Next]_vars => IdleInv'
  BY IdleStep
<1> QED
  BY <1>1, <1>2, TypeCorrect, PTL DEF Spec

\* The idle timer runs exactly while nothing is in flight, through every
\* admission, first frame, end of connection, exit and activation: a broker
\* that serves a connection never idles out, and a quiet one is always about
\* to (arm_idle_if_quiet, admit_one, should_idle_exit).
THEOREM IdleTimerExact == Spec => []IdleIffQuiet
<1>1. IdleInv => IdleIffQuiet
  BY DEF IdleInv
<1> QED
  BY <1>1, IdleInvariant, PTL

----------------------------------------------------------------------------
(* The slot.                                                               *)

\* A worker's step leaves the bookkeeping of its parent alone.
LEMMA WorkerKeeps ==
    ASSUME NEW w \in Conns, Worker(w)
    PROVE  /\ UNCHANGED <<peer, puid, toBroker, backlog, broker, pending, fired,
                          active, phase, slot, recent, idle, inherited, told,
                          spawnAge>>
           /\ UNCHANGED <<children, brokerEnd>>
BY Zenon DEF Worker, brokerVars, clientVars, slotVars, loopVars, WorkerNext,
   WorkerStep, Display, Prompt, Respond, PamSucceeds, PamReturns, AuthOk,
   ReadSpec, RefuseSpec, CallFails, SpawnLeader, SpawnLeaderFails,
   LeaderReaped, SessionEnds, Crash, LeaderExits

\* The slot's previous worker is gone whoever takes its place.
LEMMA SlotReplaced ==
    ASSUME TypeOK, SlotInv, NEW c \in Conns \cup {None}, ReplaceWorker(c)
    PROVE  /\ slot' = c
           /\ children' = {c} \ {None}
           /\ c # None => c \in brokerEnd'
BY DEF SlotInv, SingleWorker, ReplaceWorker, TypeOK, WorkerTypeOK

\* Every step keeps the active relay on its own worker, and that worker the
\* only child (create_at, drop_active, reap_current, cancel_current).
LEMMA SlotStep ==
    ASSUME TypeOK, SlotInv, [Next]_vars
    PROVE  SlotInv'
<1> DEFINE ownVars == <<active, slot, children, brokerEnd>>
<1>1. CASE UNCHANGED ownVars
  BY <1>1 DEF SlotInv, ActiveOwnsSlot, SingleWorker
<1>2. ASSUME NEW c \in Conns,
             \/ Connect(c) \/ PeerSends(c) \/ HangUp(c) \/ PendingFires(c)
             \/ FirstFrameStale(c) \/ FirstFrameHandled(c)
      PROVE  UNCHANGED ownVars
  BY <1>2 DEF Connect, PeerSends, HangUp, PendingFires, FirstFrameStale,
     FirstFrameHandled, wvars, slotVars, loopVars
<1>3. ASSUME NEW w \in Conns, GreeterGone(w)
      PROVE  SlotInv'
  BY <1>3 DEF GreeterGone, slotVars, loopVars, SlotInv, ActiveOwnsSlot,
     SingleWorker
<1>4. ASSUME NEW w \in Conns, Worker(w)
      PROVE  UNCHANGED ownVars
  BY <1>4, WorkerKeeps
<1>5. ASSUME NEW c \in Conns, Activate(c)
      PROVE  SlotInv'
  <2>1. CASE SlotRefuses(c) /\ active' = None
    BY <2>1 DEF SlotRefuses, wvars, SlotInv, ActiveOwnsSlot, SingleWorker
  <2>2. CASE SpawnFails(c) /\ active' = None
    BY <2>2, SlotReplaced DEF SpawnFails, SlotInv, ActiveOwnsSlot, SingleWorker
  <2>3. CASE SlotInstalls(c) /\ active' \in {c, None}
    BY <2>3, SlotReplaced DEF SlotInstalls, SlotInv, ActiveOwnsSlot, SingleWorker
  <2> QED
    BY <1>5, <2>1, <2>2, <2>3 DEF Activate
<1>6. CASE ListenerReady \/ RaceDrain \/ SocketActivates \/ Tick
  <2>1. UNCHANGED ownVars
    BY <1>6 DEF ListenerReady, RaceDrain, SocketActivates, Tick, wvars, slotVars
  <2> QED
    BY <1>1, <2>1
<1>7. ASSUME EndConnection
      PROVE  SlotInv'
  BY <1>7, SlotReplaced DEF EndConnection, SlotInv, ActiveOwnsSlot, SingleWorker
<1>8. ASSUME RelayStays
      PROVE  UNCHANGED ownVars
  BY <1>8 DEF RelayStays, slotVars
<1>9. CASE WorkerSide \/ GreeterSide
  BY <1>1, <1>7, <1>8, <1>9 DEF WorkerSide, RelayDisplay, RelayPrompt,
     RelayAuthOk, RelaySessionOpened, RelayOutcome, WorkerSideError,
     RelayContinues, GreeterSide, RelayToWorker, GreeterSideEnds
<1>10. CASE IdleExits \/ RaceDrainFails \/ Sigterm
  BY <1>10 DEF IdleExits, RaceDrainFails, Sigterm, BrokerExits, SlotInv, ActiveOwnsSlot,
     SingleWorker
<1>11. CASE UNCHANGED vars
  BY <1>1, <1>11 DEF vars, wvars, slotVars, loopVars
<1> HIDE DEF ownVars
<1> QED
  BY <1>1, <1>2, <1>3, <1>4, <1>5, <1>6, <1>9, <1>10, <1>11
     DEF Next, FirstFrameReady

\* SlotInv holds in every reachable state.
LEMMA SlotInvariant == Spec => []SlotInv
<1>1. Init => SlotInv
  BY DEF Init, WorkerInit, SlotInv, ActiveOwnsSlot, SingleWorker
<1>2. TypeOK /\ SlotInv /\ [Next]_vars => SlotInv'
  BY SlotStep
<1> QED
  BY <1>1, <1>2, TypeCorrect, PTL DEF Spec

\* The relay in flight talks to the worker of its own connection, whatever
\* evictions, refusals, spawn failures and cancels came before (activate,
\* drop_active, create_at).
THEOREM RelayOwnsItsWorker == Spec => []ActiveOwnsSlot
BY SlotInvariant, PTL DEF SlotInv

\* The broker never has an unreaped worker other than the one in its slot
\* (create_at's evict-old, reap_current, cancel_current).
THEOREM StrictSingleSlot == Spec => []SingleWorker
BY SlotInvariant, PTL DEF SlotInv

----------------------------------------------------------------------------
(* Where a connection can be.                                              *)

\* A new element at the end of a sequence.
LEMMA AppendSet ==
    ASSUME NEW S, NEW s \in Seq(S), NEW e \in S
    PROVE  /\ Range(Append(s, e)) = Range(s) \cup {e}
           /\ IsInjective(s) /\ e \notin Range(s) => IsInjective(Append(s, e))
<1> DEFINE t == Append(s, e)
<1>1. /\ Len(s) \in Nat /\ DOMAIN s = 1..Len(s)
      /\ DOMAIN t = 1..(Len(s) + 1)
      /\ \A i \in 1..Len(s) : t[i] = s[i]
      /\ t[Len(s) + 1] = e
  <2>1. Len(s) \in Nat /\ DOMAIN s = 1..Len(s)
    OBVIOUS
  <2>2. /\ t \in Seq(S) /\ Len(t) = Len(s) + 1
        /\ \A i \in 1..Len(s) : t[i] = s[i]
        /\ t[Len(s) + 1] = e
    BY AppendProperties, SMTT(30)
  <2> HIDE DEF t
  <2>3. DOMAIN t = 1..(Len(s) + 1)
    BY <2>2
  <2> QED BY <2>1, <2>2, <2>3
<1> HIDE DEF t
<1>2. Range(t) = Range(s) \cup {e}
  BY <1>1 DEF Range
<1>3. ASSUME IsInjective(s), e \notin Range(s), NEW i \in DOMAIN t,
             NEW j \in DOMAIN t, t[i] = t[j]
      PROVE  i = j
  <2>1. \A k \in 1..Len(s) : t[k] # e
    BY <1>1, <1>3 DEF Range
  <2> QED
    BY <1>1, <1>3, <2>1 DEF IsInjective
<1> QED
  BY <1>2, <1>3, Zenon DEF t, IsInjective

\* A sequence without repetitions, and without its p-th element.
LEMMA RemoveSet ==
    ASSUME NEW S, NEW s \in Seq(S), NEW p \in 1..Len(s), IsInjective(s)
    PROVE  /\ Range(Remove(s, p)) = Range(s) \ {s[p]}
           /\ IsInjective(Remove(s, p))
<1> DEFINE t == Remove(s, p)
           at(i) == IF i < p THEN i ELSE i + 1
<1>1. /\ t \in Seq(S) /\ Len(t) = Len(s) - 1 /\ Len(s) \in Nat
      /\ \A i \in 1..Len(t) : t[i] = IF i < p THEN s[i] ELSE s[i + 1]
  BY RemoveProperties, LenProperties, Zenon
<1> HIDE DEF t
<1>2. DOMAIN t = 1..(Len(s) - 1) /\ DOMAIN s = 1..Len(s)
  BY <1>1, LenProperties
<1>3. \A i \in DOMAIN t : at(i) \in DOMAIN s /\ at(i) # p /\ t[i] = s[at(i)]
  BY <1>1, <1>2
<1>4. \A k \in DOMAIN s : k # p => \E i \in DOMAIN t : t[i] = s[k]
  <2> SUFFICES ASSUME NEW k \in DOMAIN s, k # p
               PROVE  \E i \in DOMAIN t : t[i] = s[k]
    OBVIOUS
  <2>1. CASE k < p
    <3>1. k \in DOMAIN t /\ at(k) = k
      BY <1>1, <1>2, <2>1
    <3> QED
      BY <1>3, <3>1
  <2>2. CASE k > p
    <3>1. k - 1 \in DOMAIN t /\ at(k - 1) = k
      BY <1>1, <1>2, <2>2
    <3> QED
      BY <1>3, <3>1
  <2> QED
    BY <1>2, <2>1, <2>2
<1>5. Range(t) \subseteq Range(s) \ {s[p]}
  BY <1>2, <1>3 DEF Range, IsInjective
<1>6. Range(s) \ {s[p]} \subseteq Range(t)
  BY <1>4 DEF Range
<1>7. IsInjective(t)
  <2> SUFFICES ASSUME NEW i \in DOMAIN t, NEW j \in DOMAIN t, t[i] = t[j]
               PROVE  i = j
    BY DEF IsInjective
  <2>1. at(i) = at(j)
    BY <1>3 DEF IsInjective
  <2> QED
    BY <1>2, <2>1
<1> QED
  BY <1>5, <1>6, <1>7 DEF t

\* A sequence without repetitions, and without its head.
LEMMA TailSet ==
    ASSUME NEW S, NEW s \in Seq(S), s # <<>>, IsInjective(s)
    PROVE  /\ Range(Tail(s)) = Range(s) \ {Head(s)}
           /\ IsInjective(Tail(s))
<1> DEFINE t == Tail(s)
<1>1. /\ t \in Seq(S) /\ Len(t) = Len(s) - 1 /\ Len(s) \in Nat \ {0}
      /\ \A i \in 1..Len(t) : t[i] = s[i + 1]
      /\ Head(s) = s[1]
  BY HeadTailProperties, LenProperties
<1> HIDE DEF t
<1>2. DOMAIN t = 1..(Len(s) - 1) /\ DOMAIN s = 1..Len(s)
  BY <1>1, LenProperties
<1>3. \A i \in DOMAIN t : i + 1 \in DOMAIN s /\ i + 1 # 1 /\ t[i] = s[i + 1]
  BY <1>1, <1>2
<1>4. \A k \in DOMAIN s : k # 1 => \E i \in DOMAIN t : t[i] = s[k]
  <2> SUFFICES ASSUME NEW k \in DOMAIN s, k # 1
               PROVE  \E i \in DOMAIN t : t[i] = s[k]
    OBVIOUS
  <2>1. k - 1 \in DOMAIN t /\ (k - 1) + 1 = k
    BY <1>1, <1>2
  <2> QED
    BY <1>3, <2>1
<1>5. 1 \in DOMAIN s
  BY <1>1, <1>2
<1>6. Range(t) \subseteq Range(s) \ {s[1]}
  BY <1>3, <1>5 DEF Range, IsInjective
<1>7. Range(s) \ {s[1]} \subseteq Range(t)
  BY <1>4 DEF Range
<1>8. IsInjective(t)
  <2> SUFFICES ASSUME NEW i \in DOMAIN t, NEW j \in DOMAIN t, t[i] = t[j]
               PROVE  i = j
    BY DEF IsInjective
  <2>1. i + 1 = j + 1
    BY <1>3 DEF IsInjective
  <2> QED
    BY <1>2, <2>1
<1> QED
  BY <1>1, <1>6, <1>7, <1>8 DEF t

\* Taking a connection out of the queue takes out that one and no other.
LEMMA WithoutPendingSet ==
    ASSUME pending \in Seq(Conns), IsInjective(pending), NEW c \in Conns,
           IsPending(c)
    PROVE  /\ Range(WithoutPending(c)) = Range(pending) \ {c}
           /\ IsInjective(WithoutPending(c))
<1> DEFINE pos == CHOOSE i \in DOMAIN pending : pending[i] = c
<1>1. pos \in 1..Len(pending) /\ pending[pos] = c
  <2>1. DOMAIN pending = 1..Len(pending)
    BY LenProperties
  <2> QED
    BY <2>1 DEF IsPending, Range
<1>2. WithoutPending(c) = Remove(pending, pos)
  BY DEF WithoutPending
<1> HIDE DEF pos
<1> QED
  BY <1>1, <1>2, RemoveSet

\* A worker's step touches no other worker.
LEMMA WorkerFrame ==
    ASSUME WorkerTypeOK, NEW w \in Conns, WorkerNext(w), NEW d \in Conns, d # w
    PROVE  /\ proc'[d] = proc[d] /\ pam'[d] = pam[d] /\ leader'[d] = leader[d]
           /\ step'[d] = step[d] /\ (d \in blocked' <=> d \in blocked)
           /\ toWorker'[d] = toWorker[d] /\ fromWorker'[d] = fromWorker[d]
<1> USE DEF WorkerTypeOK
<1>1. CASE Display(w)
  BY <1>1 DEF Display, Send
<1>2. CASE Prompt(w)
  BY <1>2 DEF Prompt, Send
<1>3. CASE Respond(w)
  BY <1>3 DEF Respond
<1>4. CASE PamSucceeds(w)
  BY <1>4 DEF PamSucceeds, PamReturns
<1>5. CASE AuthOk(w)
  BY <1>5, SMTT(20) DEF AuthOk, Send, Exit, Gone
<1>6. CASE ReadSpec(w)
  BY <1>6 DEF ReadSpec
<1>7. CASE RefuseSpec(w)
  BY <1>7 DEF RefuseSpec, Fail, Send, Exit, Gone
<1>8. CASE CallFails(w)
  BY <1>8 DEF CallFails, Fail, Send, Exit, Gone
<1>9. CASE SpawnLeader(w)
  BY <1>9 DEF SpawnLeader, Send
<1>10. CASE SpawnLeaderFails(w)
  BY <1>10 DEF SpawnLeaderFails, Fail, Send, Exit, Gone
<1>11. CASE LeaderReaped(w)
  BY <1>11 DEF LeaderReaped
<1>12. CASE SessionEnds(w)
  BY <1>12 DEF SessionEnds, Send, Exit, Gone
<1>13. CASE Crash(w)
  BY <1>13 DEF Crash, Exit, Gone
<1>14. CASE LeaderExits(w)
  BY <1>14 DEF LeaderExits
<1> QED
  BY <1>1, <1>2, <1>3, <1>4, <1>5, <1>6, <1>7, <1>8, <1>9, <1>10, <1>11,
     <1>12, <1>13, <1>14, Zenon DEF WorkerNext, WorkerStep

\* Every step keeps the backlog and the pending queue disjoint, free of
\* duplicates and made of connections that were not served yet.
LEMMA PlacementStep ==
    TypeOK /\ SlotInv /\ PlacementInv /\ [Next]_vars => PlacementInv'
\* Nothing new is queued and what stays queued stays fresh.
<1>PlacementShrinks.
  ASSUME PlacementInv,
         \A d \in Conns : peer'[d] = "none" => peer[d] = "none",
         Range(backlog') \subseteq Range(backlog), IsInjective(backlog'),
         Range(pending') \subseteq Range(pending), IsInjective(pending'),
         \A d \in Conns :
            Fresh(d) /\ (peer[d] = "none" \/ Queued(d) \/ IsPending(d)')
                => Fresh(d)'
  PROVE  PlacementInv'
  BY <1>PlacementShrinks DEF PlacementInv, Queued, IsPending
\* Replacing the slot's worker touches neither a fresh connection nor, by
\* SlotInv, mistakes one for the worker it replaces.
<1>FreshReplace.
  ASSUME TypeOK, SlotInv, NEW c \in Conns \cup {None}, ReplaceWorker(c),
         NEW d \in Conns, Fresh(d), d # c, told'[d] = told[d]
  PROVE  Fresh(d)'
  <2> USE <1>FreshReplace
  <2>1. d # slot
    BY Zenon DEF SlotInv, Fresh
  <2> QED
    BY <2>1, Zenon DEF ReplaceWorker, Gone, Fresh, TypeOK, WorkerTypeOK
\* A fresh connection has no process that could take a step.
<1>FreshWorker.
  ASSUME TypeOK, NEW w \in Conns, Worker(w), NEW d \in Conns, Fresh(d)
  PROVE  Fresh(d)'
  <2> USE <1>FreshWorker
  <2>1. WorkerNext(w) /\ told' = told
    BY WorkerKeeps DEF Worker
  <2>2. d # w
    BY <2>1, Zenon DEF Fresh, WorkerNext, WorkerStep, Running, Display, Prompt, Respond,
       PamSucceeds, PamReturns, AuthOk, ReadSpec, RefuseSpec, CallFails,
       SpawnLeader, SpawnLeaderFails, LeaderReaped, SessionEnds, Crash, LeaderExits
  <2>3. UNCHANGED <<children, brokerEnd>>
    BY WorkerKeeps
  <2>4. /\ proc'[d] = proc[d] /\ pam'[d] = pam[d] /\ leader'[d] = leader[d]
        /\ step'[d] = step[d] /\ (d \in blocked' <=> d \in blocked)
        /\ toWorker'[d] = toWorker[d] /\ fromWorker'[d] = fromWorker[d]
    BY <2>1, <2>2, WorkerFrame, Zenon DEF TypeOK
  <2> QED
    BY <2>1, <2>3, <2>4, Zenon DEF Fresh
<1> SUFFICES ASSUME TypeOK, SlotInv, PlacementInv, [Next]_vars
             PROVE  PlacementInv'
  OBVIOUS
<1> DEFINE placeVars == <<backlog, pending>>
           KeepsFresh == \A d \in Conns : Fresh(d) => Fresh(d)'
           KeepsNone == \A d \in Conns : peer'[d] = "none" => peer[d] = "none"
<1>1. ASSUME UNCHANGED placeVars, KeepsNone, KeepsFresh
      PROVE  PlacementInv'
  BY <1>1, <1>PlacementShrinks DEF PlacementInv
<1>2. ASSUME UNCHANGED <<wvars, told>>
      PROVE  KeepsFresh
  BY <1>2 DEF wvars, Fresh
<1>3. ASSUME NEW c \in Conns, Connect(c)
      PROVE  PlacementInv'
  <2>1. /\ peer[c] = "none" /\ peer' = [peer EXCEPT ![c] = "open"]
        /\ backlog' = Append(backlog, c) /\ pending' = pending
        /\ UNCHANGED <<wvars, told>>
    BY <1>3 DEF Connect, loopVars
  <2>2. ~Queued(c) /\ ~IsPending(c) /\ Fresh(c) /\ IsInjective(backlog)
    BY <2>1 DEF PlacementInv
  <2>3. Range(backlog') = Range(backlog) \cup {c} /\ IsInjective(backlog')
    BY <2>1, <2>2, AppendSet, SMTT(30) DEF Queued, TypeOK
  <2>4. KeepsFresh
    BY <1>2, <2>1
  <2>5. \A d \in Conns : peer'[d] = "none" => peer[d] = "none" /\ d # c
    BY <2>1 DEF TypeOK
  <2> QED
    BY <2>1, <2>2, <2>3, <2>4, <2>5 DEF PlacementInv, Queued, IsPending
<1>4. ASSUME NEW c \in Conns, PeerSends(c) \/ HangUp(c)
      PROVE  PlacementInv'
  <2>1. KeepsNone
    BY <1>4 DEF PeerSends, HangUp, TypeOK
  <2>2. UNCHANGED placeVars /\ UNCHANGED <<wvars, told>>
    BY <1>4 DEF PeerSends, HangUp, loopVars
  <2> QED
    BY <1>1, <1>2, <2>1, <2>2
<1>5. ASSUME NEW c \in Conns, PendingFires(c) \/ FirstFrameStale(c)
      PROVE  PlacementInv'
  <2>1. UNCHANGED placeVars /\ UNCHANGED <<wvars, told>> /\ KeepsNone
    BY <1>5 DEF PendingFires, FirstFrameStale, clientVars
  <2> QED
    BY <1>1, <1>2, <2>1
<1>6. ASSUME NEW c \in Conns, TakePending(c), UNCHANGED <<peer, backlog>>,
             \A d \in Conns : Fresh(d) /\ d # c => Fresh(d)'
      PROVE  PlacementInv'
  <2>1. IsPending(c) /\ pending' = WithoutPending(c)
    BY <1>6 DEF TakePending
  <2>2. Range(pending') = Range(pending) \ {c} /\ IsInjective(pending')
    BY <2>1, WithoutPendingSet DEF TypeOK, PlacementInv
  <2>3. ~Queued(c) /\ peer[c] # "none"
    BY <2>1 DEF PlacementInv
  <2>4. \A d \in Conns :
            Fresh(d) /\ (peer[d] = "none" \/ Queued(d) \/ IsPending(d)')
                => Fresh(d)'
    BY <1>6, <2>2, <2>3 DEF IsPending
  <2>5. IsInjective(backlog')
    BY <1>6 DEF PlacementInv
  <2> QED
    BY <1>6, <2>2, <2>4, <2>5, <1>PlacementShrinks
<1>7. ASSUME NEW c \in Conns, FirstFrameHandled(c)
      PROVE  PlacementInv'
  <2>1. TakePending(c) /\ UNCHANGED <<peer, backlog>> /\ UNCHANGED wvars
    BY <1>7 DEF FirstFrameHandled
  <2>2. \A d \in Conns : d # c => told'[d] = told[d]
    BY <1>7 DEF FirstFrameHandled, Tell, TypeOK
  <2>3. \A d \in Conns : Fresh(d) /\ d # c => Fresh(d)'
    BY <2>1, <2>2, Zenon DEF Fresh, wvars
  <2> QED
    BY <1>6, <2>1, <2>3
<1>8. ASSUME NEW c \in Conns, Activate(c)
      PROVE  PlacementInv'
  <2>1. TakePending(c) /\ UNCHANGED <<peer, backlog>> /\ UNCHANGED told
    BY <1>8 DEF Activate
  <2>2. UNCHANGED wvars \/ ReplaceWorker(None) \/ ReplaceWorker(c)
    BY <1>8 DEF Activate, SlotRefuses, SpawnFails, SlotInstalls
  <2>3. \A d \in Conns : Fresh(d) /\ d # c => Fresh(d)'
    <3>1. CASE UNCHANGED wvars
      BY <1>2, <2>1, <3>1
    <3>2. CASE ReplaceWorker(None) \/ ReplaceWorker(c)
      BY <2>1, <3>2, <1>FreshReplace
    <3> QED
      BY <2>2, <3>1, <3>2
  <2> QED
    BY <1>6, <2>1, <2>3
<1>9. CASE ListenerReady \/ RaceDrain
  <2> DEFINE c == Head(backlog)
  <2>1. /\ backlog # <<>> /\ backlog' = Tail(backlog)
        /\ UNCHANGED <<wvars, told>> /\ UNCHANGED peer
        /\ pending' \in {pending, MakeRoom, Append(MakeRoom, c)}
    BY <1>9 DEF ListenerReady, RaceDrain, AdmitOne, AdmitFails
  <2>2. c \in Conns /\ c \in Range(backlog)
    BY <2>1, HeadTailProperties, SMTT(20) DEF TypeOK, Range
  <2>3. Range(backlog') = Range(backlog) \ {c} /\ IsInjective(backlog')
    BY <2>1, TailSet DEF TypeOK, PlacementInv
  <2>4. /\ MakeRoom \in Seq(Conns) /\ Range(MakeRoom) \subseteq Range(pending)
        /\ IsInjective(MakeRoom)
    <3>1. CASE ~Full
      BY <3>1 DEF MakeRoom, TypeOK, PlacementInv
    <3>2. CASE Full
      <4>1. pending # <<>>
        BY <3>2 DEF Full
      <4>2. pending \in Seq(Conns) /\ IsInjective(pending)
        BY DEF TypeOK, PlacementInv
      <4>3. Tail(pending) \in Seq(Conns)
        BY <4>1, <4>2, HeadTailProperties
      <4>4. /\ Range(Tail(pending)) \subseteq Range(pending)
            /\ IsInjective(Tail(pending))
        BY <4>1, <4>2, TailSet
      <4> QED
        BY <3>2, <4>3, <4>4 DEF MakeRoom
    <3> QED
      BY <3>1, <3>2
  <2>5. c \notin Range(pending) /\ Fresh(c) /\ peer[c] # "none"
    BY <2>2 DEF PlacementInv, Queued, IsPending
  <2>6. /\ Range(Append(MakeRoom, c)) = Range(MakeRoom) \cup {c}
        /\ IsInjective(Append(MakeRoom, c))
    BY <2>2, <2>4, <2>5, AppendSet
  <2>7. Range(pending') \subseteq Range(pending) \cup {c} /\ IsInjective(pending')
    BY <2>1, <2>4, <2>6, Zenon DEF PlacementInv
  <2>8. KeepsFresh
    BY <1>2, <2>1
  <2> HIDE DEF c
  <2> QED
    BY <2>1, <2>2, <2>3, <2>5, <2>7, <2>8 DEF PlacementInv, Queued, IsPending
<1>10. ASSUME EndConnection, active # None,
              \A d \in Conns : d # active => told'[d] = told[d]
       PROVE  PlacementInv'
  <2>1. ReplaceWorker(None) /\ UNCHANGED placeVars /\ UNCHANGED peer
    BY <1>10 DEF EndConnection
  <2>2. ~Fresh(active)
    BY <1>10 DEF SlotInv, ActiveOwnsSlot, Fresh
  <2>3. KeepsFresh
    BY <1>10, <2>1, <2>2, <1>FreshReplace
  <2> QED
    BY <1>1, <2>1, <2>3
<1>11. ASSUME RelayStays, UNCHANGED peer, active # None,
              \A d \in Conns \ {active} :
                  /\ told'[d] = told[d] /\ toWorker'[d] = toWorker[d]
                  /\ fromWorker'[d] = fromWorker[d]
       PROVE  PlacementInv'
  <2>1. ~Fresh(active)
    BY <1>11 DEF SlotInv, ActiveOwnsSlot, Fresh
  <2>2. KeepsFresh
    BY <1>11, <2>1 DEF RelayStays, Fresh
  <2>3. UNCHANGED placeVars
    BY <1>11 DEF RelayStays
  <2> QED
    BY <1>1, <1>11, <2>2, <2>3
<1>12. ASSUME NEW f, Tell(active, f)
       PROVE  \A d \in Conns : d # active => told'[d] = told[d]
  BY <1>12 DEF Tell, TypeOK
<1>13. ASSUME RelayContinues, NEW f, WorkerSays(f),
              \A d \in Conns : d # active => told'[d] = told[d]
       PROVE  PlacementInv'
  <2>1. active # None /\ slot = active
    BY <1>13, Zenon DEF WorkerSays, SlotInv, ActiveOwnsSlot
  <2>2. \A d \in Conns \ {active} :
           toWorker'[d] = toWorker[d] /\ fromWorker'[d] = fromWorker[d]
    BY <1>13, <2>1 DEF RelayContinues, TypeOK, WorkerTypeOK
  <2>3. RelayStays /\ UNCHANGED peer
    BY <1>13, Zenon DEF RelayContinues, clientVars
  <2> QED
    BY <1>11, <1>13, <2>1, <2>2, <2>3, Zenon
<1>14. CASE WorkerSide
  <2>1. CASE RelayDisplay
    BY <1>13, <2>1 DEF RelayDisplay
  <2>2. CASE RelayPrompt
    BY <1>13, <2>2 DEF RelayPrompt
  <2>3. CASE RelayAuthOk
    BY <1>12, <1>13, <2>3 DEF RelayAuthOk
  <2>4. CASE RelaySessionOpened
    BY <1>12, <1>13, <2>4 DEF RelaySessionOpened
  <2>5. CASE RelayOutcome
    BY <1>10, <1>12, <2>5 DEF RelayOutcome, WorkerSays
  <2>6. CASE WorkerSideError
    BY <1>10, <2>6 DEF WorkerSideError
  <2> QED
    BY <1>14, <2>1, <2>2, <2>3, <2>4, <2>5, <2>6 DEF WorkerSide
<1>15. CASE RelayToWorker
  <2>1. active # None /\ slot = active /\ RelayStays
    BY <1>15 DEF RelayToWorker, SlotInv, ActiveOwnsSlot
  <2>2. \A d \in Conns \ {active} :
           /\ told'[d] = told[d] /\ toWorker'[d] = toWorker[d]
           /\ fromWorker'[d] = fromWorker[d]
    BY <1>15, <2>1 DEF RelayToWorker, TypeOK, WorkerTypeOK
  <2>3. UNCHANGED peer
    BY <1>15 DEF RelayToWorker
  <2> QED
    BY <1>11, <2>1, <2>2, <2>3
<1>16. CASE GreeterSideEnds
  BY <1>10, <1>16 DEF GreeterSideEnds
<1>17. ASSUME NEW w \in Conns, Worker(w)
       PROVE  PlacementInv'
  BY <1>1, <1>17, WorkerKeeps, <1>FreshWorker
<1>18. ASSUME NEW w \in Conns, GreeterGone(w)
       PROVE  PlacementInv'
  <2>1. KeepsFresh
    <3>1. \A d \in Conns : fromWorker'[d] = fromWorker[d] \/ fromWorker'[d] = <<>>
      BY <1>18 DEF GreeterGone, TypeOK, WorkerTypeOK
    <3>2. brokerEnd' \subseteq brokerEnd
      BY <1>18 DEF GreeterGone
    <3> QED
      BY <1>18, <3>1, <3>2 DEF GreeterGone, Fresh
  <2>2. UNCHANGED placeVars /\ UNCHANGED peer
    BY <1>18 DEF GreeterGone, clientVars, loopVars
  <2> QED
    BY <1>1, <2>1, <2>2
<1>19. CASE IdleExits \/ RaceDrainFails \/ Sigterm
  <2>1. BrokerExits
    BY <1>19 DEF IdleExits, RaceDrainFails, Sigterm
  <2>2. KeepsFresh
    BY <2>1 DEF BrokerExits, Fresh, TypeOK, WorkerTypeOK
  <2>3. Range(pending') \subseteq Range(pending) /\ IsInjective(pending')
    <3>1. pending' = <<>>
      BY <2>1 DEF BrokerExits
    <3>2. DOMAIN <<>> = {}
      OBVIOUS
    <3> QED
      BY <3>1, <3>2 DEF Range, IsInjective
  <2>4. backlog' = backlog \/ (backlog # <<>> /\ backlog' = Tail(backlog))
    BY <1>19 DEF IdleExits, RaceDrainFails, Sigterm
  <2>5. Range(backlog') \subseteq Range(backlog) /\ IsInjective(backlog')
    <3>1. backlog \in Seq(Conns) /\ IsInjective(backlog)
      BY DEF PlacementInv, TypeOK
    <3>2. CASE backlog' = backlog
      BY <3>1, <3>2
    <3>3. CASE backlog # <<>> /\ backlog' = Tail(backlog)
      BY <3>1, <3>3, TailSet
    <3> QED
      BY <2>4, <3>2, <3>3
  <2>6. UNCHANGED peer
    BY <2>1 DEF BrokerExits
  <2> QED
    BY <2>2, <2>3, <2>5, <2>6, <1>PlacementShrinks
<1>20. CASE SocketActivates \/ Tick \/ UNCHANGED vars
  <2>1. UNCHANGED placeVars /\ UNCHANGED <<wvars, told>> /\ UNCHANGED peer
    BY <1>20 DEF SocketActivates, Tick, vars, clientVars, loopVars
  <2> QED
    BY <1>1, <1>2, <2>1
<1> HIDE DEF placeVars, KeepsFresh, KeepsNone
<1> QED
  BY <1>3, <1>4, <1>5, <1>7, <1>8, <1>9, <1>14, <1>15, <1>16, <1>17, <1>18,
     <1>19, <1>20 DEF Next, FirstFrameReady, GreeterSide

\* PlacementInv holds in every reachable state.
LEMMA PlacementInvariant == Spec => []PlacementInv
<1>1. Init => PlacementInv
  BY SMTT(30) DEF Init, WorkerInit, PlacementInv, Fresh, Queued, IsPending, Range,
     IsInjective
<1>2. TypeOK /\ SlotInv /\ PlacementInv /\ [Next]_vars => PlacementInv'
  BY PlacementStep
<1> QED
  BY <1>1, <1>2, TypeCorrect, SlotInvariant, PTL DEF Spec
=============================================================================
