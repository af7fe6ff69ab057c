------------------------ MODULE BrokerServiceProofs -------------------------
(***************************************************************************)
(* Each connection is served by the protocol of AuthService: the broker    *)
(* implements it, step by step.                                            *)
(***************************************************************************)
EXTENDS BrokerRelayProofs, BrokerService

USE WorkerAssumption, BrokerAssumption

----------------------------------------------------------------------------
(* Each connection is served by the book.                                  *)

\* Two announcements.
LEMMA AppendPair ==
    ASSUME NEW a, NEW b
    PROVE  Append(<<a>>, b) = <<a, b>>
<1> DEFINE s == Append(<<a>>, b)
           t == <<a, b>>
<1>1. s \in Seq({a, b}) /\ t \in Seq({a, b})
  OBVIOUS
<1>2. Len(s) = 2 /\ s[1] = a /\ s[2] = b
  OBVIOUS
<1>3. Len(t) = 2 /\ t[1] = a /\ t[2] = b
  OBVIOUS
<1>4. \A i \in 1..2 : i = 1 \/ i = 2
  OBVIOUS
<1> HIDE DEF s, t
<1>5. \A i \in 1..Len(s) : s[i] = t[i]
  BY <1>2, <1>3, <1>4
<1>6. s = t
  BY <1>1, <1>2, <1>3, <1>5, SeqEqual, Zenon
<1> QED BY <1>6 DEF s, t

\* What the relay takes from the head of a channel.
LEMMA ChannelTail ==
    ASSUME NEW s \in Seq(WorkerFrames), s # <<>>, NEW t, t = Tail(s)
    PROVE  /\ \A i \in DOMAIN t : i + 1 \in DOMAIN s /\ t[i] = s[i + 1] /\ i + 1 # 1
           /\ \A i \in DOMAIN s : i # 1 => i - 1 \in DOMAIN t /\ t[i - 1] = s[i]
           /\ \A i, j \in DOMAIN t : i + 1 = j + 1 => i = j
<1>1. /\ Len(s) \in Nat \ {0} /\ DOMAIN s = 1..Len(s)
      /\ t \in Seq(WorkerFrames) /\ Len(t) = Len(s) - 1
      /\ \A k \in 1..Len(t) : t[k] = s[k + 1]
  BY HeadTailProperties, LenProperties
<1>2. DOMAIN t = 1..(Len(s) - 1)
  BY <1>1, LenProperties
<1>3. \A i \in DOMAIN t : i + 1 \in DOMAIN s /\ i + 1 # 1
  BY <1>1, <1>2
<1>4. \A i \in DOMAIN s : i # 1 => i - 1 \in 1..Len(t) /\ (i - 1) + 1 = i
  BY <1>1
<1>5. \A i, j \in DOMAIN t : i + 1 = j + 1 => i = j
  BY <1>1, <1>2
<1>6. DOMAIN t = 1..Len(t)
  BY <1>1, <1>2
<1>7. \A i \in DOMAIN s : i # 1 => i - 1 \in DOMAIN t /\ t[i - 1] = s[i]
  BY <1>1, <1>4, <1>6, Zenon
<1> QED BY <1>1, <1>3, <1>5, <1>6, <1>7, Zenon

\* The relay passes a frame on, and tells the connection what it means.
LEMMA ServiceRelay ==
    ASSUME TypeOK, SlotInv, ProcInv, LockstepInv, ServiceInv,
           NEW f, WorkerSays(f), RelayContinues,
           \/ /\ f = "ConvDisplay" /\ phase' = phase /\ told' = told
           \/ /\ f = "ConvPrompt" /\ phase' = "AwaitGreeterConvResponse" /\ told' = told
           \/ /\ f = "AuthOk" /\ phase' = "AwaitGreeterStartSession" /\ Tell(active, "Success")
           \/ /\ f = "SessionOpened" /\ phase' = "SessionRunning" /\ Tell(active, "SessionOpened")
    PROVE  /\ ServiceInv'
           /\ f = "AuthOk" => /\ told[active] = <<>>
                              /\ told' = [told EXCEPT ![active] = <<"Success">>]
           /\ f = "SessionOpened" =>
                 /\ told[active] = <<"Success">>
                 /\ told' = [told EXCEPT ![active] = Append(@, "SessionOpened")]
<1>1. PICK c \in Conns : c = active
  BY DEF TypeOK, WorkerSays
<1>2. /\ slot = c /\ c # None /\ c \in children /\ active' = c /\ step' = step
      /\ toWorker' = toWorker /\ peer[c] # "closed" /\ phase \in WorkerPhases
      /\ fromWorker[c] # <<>> /\ Head(fromWorker[c]) = f
      /\ fromWorker' = [fromWorker EXCEPT ![c] = Tail(@)]
  BY <1>1 DEF WorkerSays, RelayContinues, RelayStays, SlotInv, ActiveOwnsSlot
<1> DEFINE s == fromWorker[c]
           t == fromWorker'[c]
<1>3. s \in Seq(WorkerFrames) /\ t = Tail(s) /\ s # <<>>
  BY <1>2 DEF TypeOK, WorkerTypeOK
<1>4. s[1] = f /\ 1 \in DOMAIN s
  BY <1>2, <1>3, HeadTailProperties, LenProperties
<1>5. /\ \A i \in DOMAIN t : i + 1 \in DOMAIN s /\ t[i] = s[i + 1] /\ i + 1 # 1
      /\ \A i \in DOMAIN s : i # 1 => i - 1 \in DOMAIN t /\ t[i - 1] = s[i]
      /\ \A i, j \in DOMAIN t : i + 1 = j + 1 => i = j
  BY <1>3, ChannelTail, Zenon
<1>6. ServiceOk(c) /\ ChannelOk(c) /\ ProcOk(c)
  BY <1>1, <1>2 DEF ServiceInv, LockstepInv, ProcInv
<1>7. ASSUME ServiceOk(c)', phase' = "AwaitGreeterStartSession" => told'[c] = <<"Success">>
      PROVE  ServiceInv'
  BY <1>2, <1>7, Zenon DEF ServiceInv
<1> HIDE DEF s, t
<1>8. CASE f \in {"ConvDisplay", "ConvPrompt"}
  <2>1. told' = told /\ f # "SessionOpened" /\ phase' # "AwaitGreeterStartSession"
    BY <1>2, <1>8 DEF WorkerPhases
  <2>2. OpenedSaid(c) => OpenedSaid(c)'
    BY <1>4, <1>5, <2>1, Zenon DEF OpenedSaid, s, t
  <2>3. \A i \in DOMAIN t :
           /\ t[i] = "AuthOk" => told'[c] = <<>>
           /\ t[i] = "SessionOpened" =>
                 /\ told'[c] = <<"Success">>
                 /\ \A j \in DOMAIN t : t[j] = "SessionOpened" => j = i
           /\ t[i] = "SessionEnded" => OpenedSaid(c)'
    <3> SUFFICES ASSUME NEW i \in DOMAIN t
                 PROVE /\ t[i] = "AuthOk" => told'[c] = <<>>
                       /\ t[i] = "SessionOpened" =>
                             /\ told'[c] = <<"Success">>
                             /\ \A j \in DOMAIN t : t[j] = "SessionOpened" => j = i
                       /\ t[i] = "SessionEnded" => OpenedSaid(c)'
      OBVIOUS
    <3>1. i + 1 \in DOMAIN s /\ s[i + 1] = t[i] /\ told'[c] = told[c]
      BY <1>5, <2>1, Zenon
    <3>2. /\ s[i + 1] = "AuthOk" => told[c] = <<>>
          /\ s[i + 1] = "SessionOpened" =>
                /\ told[c] = <<"Success">>
                /\ \A j \in DOMAIN s : s[j] = "SessionOpened" => j = i + 1
          /\ s[i + 1] = "SessionEnded" => OpenedSaid(c)
      BY <1>6, <3>1, Zenon DEF ServiceOk, s
    <3>3. ASSUME t[i] = "SessionOpened", NEW j \in DOMAIN t, t[j] = "SessionOpened" PROVE j = i
      <4>1. j + 1 \in DOMAIN s /\ s[j + 1] = "SessionOpened"
        BY <1>5, <3>3, Zenon
      <4>2. j + 1 = i + 1
        BY <3>1, <3>2, <3>3, <4>1, Zenon
      <4> QED BY <1>5, <4>2, Zenon
    <3> QED BY <2>2, <3>1, <3>2, <3>3, Zenon
  <2>4. ServiceOk(c)'
    <3>1. \A i \in DOMAIN t : t[i] = "SessionOpened" => s[i + 1] = "SessionOpened"
      BY <1>5, Zenon
    <3> QED BY <1>2, <1>5, <1>6, <2>1, <2>2, <2>3, <3>1, ZenonT(30) DEF ServiceOk, s, t
  <2>5. f # "AuthOk"
    BY <1>8
  <2> QED BY <1>7, <2>1, <2>4, <2>5
<1>9. CASE f = "AuthOk"
  <2>1. told[c] = <<>>
    BY <1>4, <1>6, <1>9, Zenon DEF ServiceOk, s
  <2>2. told' = [told EXCEPT ![c] = Append(@, "Success")] /\ phase' = "AwaitGreeterStartSession"
    BY <1>1, <1>2, <1>9 DEF Tell
  <2>3. told' = [told EXCEPT ![c] = <<"Success">>] /\ told'[c] = <<"Success">>
    BY <2>1, <2>2 DEF TypeOK
  <2>4. t = <<>>
    <3>1. 1 = Len(s)
      BY <1>4, <1>6, <1>9, Zenon DEF ChannelOk, s
    <3> QED BY <1>3, <3>1
  <2>5. toWorker[c] = <<>>
    BY <1>2, <1>6, Zenon DEF ChannelOk
  <2>6. step[c] \in {"spec", "exited"}
    <3>1. proc[c] = "live" => step[c] = "spec"
      BY <1>4, <1>6, <1>9, Zenon DEF ChannelOk, s
    <3> QED BY <1>2, <1>6, <3>1 DEF ProcOk
  <2>7. ServiceOk(c)'
    <3>1. DOMAIN fromWorker'[c] = {}
      BY <2>4 DEF t
    <3> QED BY <1>2, <2>3, <2>5, <2>6, <3>1 DEF ServiceOk
  <2> QED BY <1>1, <1>7, <1>9, <2>1, <2>3, <2>7
<1>10. CASE f = "SessionOpened"
  <2>1. /\ told[c] = <<"Success">>
        /\ \A j \in DOMAIN s : s[j] = "SessionOpened" => j = 1
    BY <1>4, <1>6, <1>10, Zenon DEF ServiceOk, s
  <2>2. told' = [told EXCEPT ![c] = Append(@, "SessionOpened")] /\ phase' = "SessionRunning"
    BY <1>1, <1>2, <1>10 DEF Tell
  <2>3. told'[c] = <<"Success", "SessionOpened">>
    <3>1. told'[c] = Append(<<"Success">>, "SessionOpened")
      BY <2>1, <2>2, Zenon DEF TypeOK
    <3>2. Append(<<"Success">>, "SessionOpened") = <<"Success", "SessionOpened">>
      BY AppendPair
    <3> QED BY <3>1, <3>2, Zenon
  <2>4. OpenedSaid(c)'
    BY <2>3 DEF OpenedSaid
  <2>5. \A i \in DOMAIN t : t[i] # "SessionOpened" /\ t[i] # "AuthOk"
    <3>1. \A i \in DOMAIN s : s[i] = "AuthOk" => told[c] = <<>>
      BY <1>6, Zenon DEF ServiceOk, s
    <3>2. told[c] # <<>>
      BY <2>1
    <3> QED BY <1>5, <2>1, <3>1, <3>2, Zenon
  <2>6. step[c] \notin {"authenticate", "acct_mgmt", "setcred", "open_session", "spawn"}
    <3>1. told[c] # <<>>
      BY <2>1
    <3>2. step[c] \notin {"open_session", "spawn"}
      BY <1>4, <1>6, <1>10, Zenon DEF ServiceOk, s
    <3> QED BY <1>6, <3>1, <3>2 DEF ServiceOk
  <2>7. toWorker[c] = <<>>
    BY <1>2, <1>6, Zenon DEF ChannelOk
  <2>8. ServiceOk(c)'
    BY <1>2, <2>4, <2>5, <2>6, <2>7 DEF ServiceOk, t
  <2>9. phase' # "AwaitGreeterStartSession"
    BY <2>2
  <2> QED BY <1>1, <1>7, <1>10, <2>1, <2>2, <2>8, <2>9
<1> QED BY <1>8, <1>9, <1>10

\* Every step keeps what the active connection was told in step with its
\* worker.
LEMMA ServiceStep ==
    TypeOK /\ SlotInv /\ PlacementInv /\ ProcInv /\ LockstepInv
      /\ ServiceInv /\ [Next]_vars
      => ServiceInv'
\* The invariant is about the active connection alone, so it is kept by a step
\* that leaves that one, its worker and their channels as they were.
<1>ServiceFrame.
  ASSUME TypeOK, ServiceInv, active' = active,
         phase' = phase \/ phase' # "AwaitGreeterStartSession",
         \A c \in Conns : c = active =>
            /\ step'[c] = step[c] /\ told'[c] = told[c]
            /\ toWorker'[c] = toWorker[c] /\ fromWorker'[c] = fromWorker[c]
  PROVE  ServiceInv'
  <2> USE <1>ServiceFrame
  <2> SUFFICES ASSUME active # None PROVE ServiceInv'
    BY DEF ServiceInv
  <2>1. PICK c \in Conns : c = active
    BY DEF TypeOK
  <2>2. /\ step'[c] = step[c] /\ told'[c] = told[c]
        /\ toWorker'[c] = toWorker[c] /\ fromWorker'[c] = fromWorker[c]
    BY <2>1, Zenon
  <2>3. ServiceOk(c) /\ (phase = "AwaitGreeterStartSession" => told[c] = <<"Success">>)
    BY <2>1, Zenon DEF ServiceInv
  <2>4. OpenedSaid(c)' <=> OpenedSaid(c)
    BY <2>2, Zenon DEF OpenedSaid
  <2>5. ServiceOk(c)'
    BY <2>2, <2>3, <2>4, Zenon DEF ServiceOk
  <2>6. active' = c
    BY <2>1
  <2> QED BY <2>2, <2>3, <2>5, <2>6, Zenon DEF ServiceInv
\* What a frame at the end of a channel changes in it.
<1>ChannelAppend.
  ASSUME NEW s \in Seq(WorkerFrames), NEW f, NEW t, t = Append(s, f)
  PROVE  /\ \A i \in DOMAIN t : (i \in DOMAIN s /\ t[i] = s[i]) \/ (i = Len(s) + 1 /\ t[i] = f)
         /\ \A i \in DOMAIN s : i \in DOMAIN t /\ t[i] = s[i]
         /\ Len(s) + 1 \in DOMAIN t /\ t[Len(s) + 1] = f
  <2> USE <1>ChannelAppend
  <2>1. /\ Len(s) \in Nat /\ DOMAIN s = 1..Len(s)
        /\ DOMAIN Append(s, f) = 1..(Len(s) + 1)
        /\ \A i \in 1..Len(s) : Append(s, f)[i] = s[i]
        /\ Append(s, f)[Len(s) + 1] = f
    OBVIOUS
  <2>2. \A i \in 1..(Len(s) + 1) : i \in 1..Len(s) \/ i = Len(s) + 1
    BY <2>1
  <2>3. Len(s) + 1 \in 1..(Len(s) + 1) /\ \A i \in 1..Len(s) : i \in 1..(Len(s) + 1)
    BY <2>1
  <2> QED BY <2>1, <2>2, <2>3, Zenon
\* A worker says AuthOk, SessionOpened and SessionEnded when its connection
\* has been told what goes before.
<1>ServiceSays.
  ASSUME TypeOK, NEW c \in Conns, ServiceOk(c), NEW f \in WorkerFrames,
         c \in brokerEnd, Send(c, f), told' = told,
         f = "AuthOk" => told[c] = <<>>,
         f = "SessionOpened" => step[c] = "spawn",
         f = "SessionEnded" => OpenedSaid(c),
         toWorker'[c] = toWorker[c] \/ toWorker'[c] = <<>>,
         step'[c] = step[c] \/ step'[c] \in {"exited", "spec"}
            \/ (f = "SessionOpened" /\ step'[c] = "wait"),
         f = "SessionOpened" => step'[c] = "wait"
  PROVE  ServiceOk(c)'
  <2> USE <1>ServiceSays
  <2> DEFINE s == fromWorker[c]
             t == fromWorker'[c]
  <2>1. s \in Seq(WorkerFrames) /\ t = Append(s, f)
    BY DEF Send, TypeOK, WorkerTypeOK
  <2>2. /\ \A i \in DOMAIN t : (i \in DOMAIN s /\ t[i] = s[i]) \/ (i = Len(s) + 1 /\ t[i] = f)
        /\ \A i \in DOMAIN s : i \in DOMAIN t /\ t[i] = s[i]
        /\ Len(s) + 1 \in DOMAIN t /\ t[Len(s) + 1] = f
    BY <2>1, <1>ChannelAppend, ZenonT(30)
  <2>3. told'[c] = told[c]
    OBVIOUS
  <2>4. OpenedSaid(c) => OpenedSaid(c)'
    BY <2>2, <2>3, Zenon DEF OpenedSaid
  <2>5. f = "SessionOpened" =>
           /\ told[c] = <<"Success">> /\ OpenedSaid(c)'
           /\ \A i \in DOMAIN s : s[i] # "SessionOpened"
    BY <2>2, <2>3, Zenon DEF ServiceOk, OpenedSaid
  <2>6. ASSUME NEW i \in DOMAIN t
        PROVE  /\ t[i] = "AuthOk" => told'[c] = <<>>
               /\ t[i] = "SessionOpened" =>
                     /\ told'[c] = <<"Success">>
                     /\ \A j \in DOMAIN t : t[j] = "SessionOpened" => j = i
               /\ t[i] = "SessionEnded" => OpenedSaid(c)'
    <3>1. t[i] = "AuthOk" => told'[c] = <<>>
      BY <2>2, <2>3, <2>6, Zenon DEF ServiceOk
    <3>2. t[i] = "SessionEnded" => OpenedSaid(c)'
      BY <2>2, <2>4, <2>6, Zenon DEF ServiceOk
    <3>3. t[i] = "SessionOpened" => told'[c] = <<"Success">>
      BY <2>2, <2>3, <2>5, <2>6, Zenon DEF ServiceOk
    <3>4. ASSUME t[i] = "SessionOpened", NEW j \in DOMAIN t, t[j] = "SessionOpened"
          PROVE  j = i
      <4>1. CASE f = "SessionOpened"
        BY <2>2, <2>5, <2>6, <3>4, <4>1, Zenon
      <4>2. CASE f # "SessionOpened"
        <5>1. i \in DOMAIN s /\ s[i] = "SessionOpened" /\ j \in DOMAIN s /\ s[j] = "SessionOpened"
          BY <2>2, <2>6, <3>4, <4>2, Zenon
        <5> QED BY <5>1, Zenon DEF ServiceOk
      <4> QED BY <4>1, <4>2
    <3> QED BY <3>1, <3>2, <3>3, <3>4, Zenon
  <2>7. step'[c] \in {"open_session", "spawn"} =>
           step[c] \in {"open_session", "spawn"} /\ f # "SessionOpened"
    OBVIOUS
  <2>8. step'[c] \in {"open_session", "spawn"} =>
           told'[c] = <<"Success">> /\ \A i \in DOMAIN t : t[i] # "SessionOpened"
    BY <2>2, <2>3, <2>7, Zenon DEF ServiceOk
  <2>9. step'[c] \in {"authenticate", "acct_mgmt", "setcred"} => told'[c] = <<>>
    <3>1. step'[c] \in {"authenticate", "acct_mgmt", "setcred"} => step'[c] = step[c]
      OBVIOUS
    <3> QED BY <2>3, <3>1, Zenon DEF ServiceOk
  <2>10. step'[c] \in {"wait", "close_session", "delete_cred"} => OpenedSaid(c)'
    <3>1. step'[c] \in {"wait", "close_session", "delete_cred"} =>
             step'[c] = step[c] \/ f = "SessionOpened"
      OBVIOUS
    <3> QED BY <2>4, <2>5, <3>1, Zenon DEF ServiceOk
  <2>11. toWorker'[c] = <<"StartSession">> => told'[c] = <<"Success">>
    <3>1. <<"StartSession">> # <<>>
      OBVIOUS
    <3> QED BY <2>3, <3>1, Zenon DEF ServiceOk
  <2> QED BY <2>6, <2>8, <2>9, <2>10, <2>11, Zenon DEF ServiceOk
\* A step of the worker keeps in step with what its connection was told.
<1>ServiceWorker.
  ASSUME TypeOK, SlotInv, LockstepInv, ServiceInv, NEW w \in Conns, Worker(w)
  PROVE  ServiceInv'
  <2> USE <1>ServiceWorker
  <2>1. /\ WorkerNext(w) /\ active' = active /\ phase' = phase /\ told' = told
    BY DEF Worker, brokerVars, loopVars
  <2>2. CASE active # w
    <3>1. ASSUME NEW c \in Conns, c = active
          PROVE  /\ step'[c] = step[c] /\ told'[c] = told[c]
                 /\ toWorker'[c] = toWorker[c] /\ fromWorker'[c] = fromWorker[c]
      BY <2>1, <2>2, <3>1, WorkerFrame DEF TypeOK
    <3> QED BY <2>1, <3>1, <1>ServiceFrame, Zenon
  <2>3. ASSUME active = w, ServiceOk(w)' PROVE ServiceInv'
    <3>1. active' = w /\ told'[w] = told[w]
      BY <2>1, <2>3
    <3>2. phase' = "AwaitGreeterStartSession" => told'[w] = <<"Success">>
      <4>1. active # None
        BY <2>3
      <4> QED BY <2>1, <2>3, <3>1, <4>1, Zenon DEF ServiceInv
    <3> QED BY <2>3, <3>1, <3>2, Zenon DEF ServiceInv
  <2> SUFFICES ASSUME active = w PROVE ServiceOk(w)'
    BY <2>2, <2>3
  <2>4. ServiceOk(w) /\ ChannelOk(w) /\ w \in brokerEnd /\ w # None
    BY DEF ServiceInv, LockstepInv, SlotInv, ActiveOwnsSlot
  <2>5. ASSUME NEW f \in {"ConvDisplay", "ConvPrompt", "Failure"}, Send(w, f),
               toWorker'[w] = toWorker[w] \/ toWorker'[w] = <<>>,
               step'[w] = step[w] \/ step'[w] = "exited"
        PROVE  ServiceOk(w)'
    <3>1. f \in WorkerFrames /\ f # "AuthOk" /\ f # "SessionOpened" /\ f # "SessionEnded"
      BY <2>5 DEF WorkerFrames
    <3>2. step'[w] = step[w] \/ step'[w] \in {"exited", "spec"}
      BY <2>5
    <3> QED BY <2>1, <2>4, <2>5, <3>1, <3>2, <1>ServiceSays, Zenon
  <2>6. ASSUME Exit(w) PROVE step'[w] = "exited" /\ toWorker'[w] = <<>>
    BY <2>6 DEF Exit, Gone
  <2>7. ASSUME UNCHANGED fromWorker,
               toWorker'[w] = toWorker[w] \/ toWorker'[w] = <<>>,
               \/ step'[w] = step[w] \/ step'[w] = "exited"
               \/ /\ step[w] \in {"authenticate", "acct_mgmt", "setcred"}
                  /\ step'[w] \in {"acct_mgmt", "setcred"}
               \/ /\ step[w] = "open_session" /\ step'[w] = "spawn"
               \/ /\ step[w] \in {"wait", "close_session"}
                  /\ step'[w] \in {"close_session", "delete_cred"}
        PROVE  ServiceOk(w)'
    <3>1. fromWorker'[w] = fromWorker[w] /\ told'[w] = told[w]
      BY <2>1, <2>7
    <3>2. OpenedSaid(w)' <=> OpenedSaid(w)
      BY <3>1, Zenon DEF OpenedSaid
    <3>3. /\ step'[w] \in {"authenticate", "acct_mgmt", "setcred"} =>
                step[w] \in {"authenticate", "acct_mgmt", "setcred"}
          /\ step'[w] \in {"open_session", "spawn"} => step[w] \in {"open_session", "spawn"}
          /\ step'[w] \in {"wait", "close_session", "delete_cred"} =>
                step[w] \in {"wait", "close_session", "delete_cred"}
      BY <2>7
    <3>4. toWorker'[w] = <<"StartSession">> => toWorker[w] = <<"StartSession">>
      BY <2>7
    <3> QED BY <2>4, <3>1, <3>2, <3>3, <3>4, Zenon DEF ServiceOk
  <2>8. CASE Display(w) \/ Prompt(w)
    <3>1. /\ UNCHANGED <<step, toWorker>>
          /\ Send(w, "ConvDisplay") \/ Send(w, "ConvPrompt")
      BY <2>8 DEF Display, Prompt
    <3> QED BY <2>5, <3>1
  <2>9. CASE Respond(w)
    <3>1. UNCHANGED <<step, fromWorker>>
      BY <2>9 DEF Respond
    <3>2. toWorker'[w] = toWorker[w] \/ toWorker'[w] = <<>>
      <4>1. CASE toWorker[w] # <<>>
        <5>1. toWorker[w] = <<"ConvResponse">>
          BY <2>4, <2>9, <4>1 DEF Respond, ChannelOk
        <5>2. toWorker'[w] = Tail(toWorker[w])
          BY <2>9, <4>1 DEF Respond, TypeOK, WorkerTypeOK
        <5>3. Tail(<<"ConvResponse">>) = <<>>
          OBVIOUS
        <5> QED BY <5>1, <5>2, <5>3
      <4>2. CASE toWorker[w] = <<>>
        BY <2>9, <4>2 DEF Respond
      <4> QED BY <4>1, <4>2
    <3> QED BY <2>7, <3>1, <3>2
  <2>10. CASE PamSucceeds(w)
    <3>1. UNCHANGED <<toWorker, fromWorker>>
      BY <2>10 DEF PamSucceeds, PamReturns
    <3>2. ASSUME NEW p, NEW q, NEW F, PamReturns(w, p, q, F)
          PROVE  step[w] = p /\ step'[w] = q
      BY <3>2 DEF PamReturns, TypeOK, WorkerTypeOK
    <3>3. \/ /\ step[w] \in {"authenticate", "acct_mgmt", "setcred"}
             /\ step'[w] \in {"acct_mgmt", "setcred"}
          \/ /\ step[w] = "open_session" /\ step'[w] = "spawn"
          \/ /\ step[w] \in {"wait", "close_session"}
             /\ step'[w] \in {"close_session", "delete_cred"}
      BY <2>10, <3>2 DEF PamSucceeds
    <3> QED BY <2>7, <3>1, <3>3
  <2>11. CASE AuthOk(w)
    <3>1. /\ step[w] = "setcred" /\ step' = [step EXCEPT ![w] = "spec"]
          /\ Send(w, "AuthOk") /\ UNCHANGED toWorker
      BY <2>4, <2>11 DEF AuthOk
    <3>2. step'[w] \in {"exited", "spec"} /\ "AuthOk" \in WorkerFrames
      BY <3>1 DEF TypeOK, WorkerTypeOK, WorkerFrames
    <3>3. told[w] = <<>>
      BY <2>4, <3>1 DEF ServiceOk
    <3>4. "AuthOk" # "SessionOpened" /\ "AuthOk" # "SessionEnded"
      OBVIOUS
    <3> QED BY <2>1, <2>4, <3>1, <3>2, <3>3, <3>4, <1>ServiceSays, Zenon
  <2>12. CASE ReadSpec(w)
    <3>1. /\ toWorker[w] # <<>> /\ step'[w] = "open_session" /\ fromWorker' = fromWorker
          /\ toWorker'[w] = Tail(toWorker[w]) /\ w \notin blocked
      BY <2>12 DEF ReadSpec, Running, TypeOK, WorkerTypeOK
    <3>2. fromWorker[w] = <<>> /\ toWorker[w] = <<"StartSession">>
      BY <2>4, <3>1, Zenon DEF ChannelOk
    <3>3. told'[w] = <<"Success">>
      BY <2>1, <2>4, <3>2 DEF ServiceOk
    <3>4. toWorker'[w] # <<"StartSession">> /\ DOMAIN fromWorker'[w] = {}
      BY <3>1, <3>2
    <3> QED BY <3>1, <3>3, <3>4 DEF ServiceOk
  <2>13. CASE RefuseSpec(w) \/ CallFails(w) \/ SpawnLeaderFails(w)
    <3>1. Send(w, "Failure") /\ Exit(w)
      BY <2>13 DEF RefuseSpec, CallFails, SpawnLeaderFails, Fail
    <3> QED BY <2>5, <2>6, <3>1
  <2>14. CASE SpawnLeader(w)
    <3>1. /\ step[w] = "spawn" /\ step'[w] = "wait"
          /\ Send(w, "SessionOpened") /\ UNCHANGED toWorker
      BY <2>14 DEF SpawnLeader, TypeOK, WorkerTypeOK
    <3>2. /\ "SessionOpened" \in WorkerFrames /\ "SessionOpened" # "AuthOk"
          /\ "SessionOpened" # "SessionEnded"
      BY DEF WorkerFrames
    <3> QED BY <2>1, <2>4, <3>1, <3>2, <1>ServiceSays, Zenon
  <2>15. CASE SessionEnds(w)
    <3>1. step[w] = "delete_cred" /\ Send(w, "SessionEnded") /\ Exit(w)
      BY <2>15 DEF SessionEnds
    <3>2. OpenedSaid(w)
      BY <2>4, <3>1 DEF ServiceOk
    <3>3. /\ "SessionEnded" \in WorkerFrames /\ "SessionEnded" # "AuthOk"
          /\ "SessionEnded" # "SessionOpened"
      BY DEF WorkerFrames
    <3>4. step'[w] \in {"exited", "spec"} /\ toWorker'[w] = <<>>
      BY <2>6, <3>1
    <3> QED BY <2>1, <2>4, <3>1, <3>2, <3>3, <3>4, <1>ServiceSays, Zenon
  <2>16. CASE LeaderReaped(w) \/ LeaderExits(w)
    <3>1. /\ UNCHANGED <<fromWorker, toWorker>>
          /\ \/ step'[w] = step[w]
             \/ step[w] = "wait" /\ step'[w] = "close_session"
      BY <2>16 DEF LeaderReaped, LeaderExits, TypeOK, WorkerTypeOK
    <3> QED BY <2>7, <3>1
  <2>17. CASE Crash(w)
    <3>1. Exit(w) /\ UNCHANGED fromWorker
      BY <2>17 DEF Crash
    <3> QED BY <2>6, <2>7, <3>1
  <2> QED
    BY <2>1, <2>8, <2>9, <2>10, <2>11, <2>12, <2>13, <2>14, <2>15, <2>16, <2>17, Zenon
       DEF WorkerNext, WorkerStep
<1> SUFFICES ASSUME TypeOK, SlotInv, PlacementInv, ProcInv, LockstepInv,
                    ServiceInv, [Next]_vars
             PROVE  ServiceInv'
  OBVIOUS
<1>1. ASSUME UNCHANGED <<step, toWorker, fromWorker, told, active, phase>>
      PROVE  ServiceInv'
  BY <1>1, <1>ServiceFrame, Zenon
<1>2. ASSUME active' = None PROVE ServiceInv'
  BY <1>2, Zenon DEF ServiceInv
<1>3. ASSUME NEW c \in Conns,
             \/ Connect(c) \/ PeerSends(c) \/ HangUp(c) \/ PendingFires(c)
             \/ FirstFrameStale(c)
      PROVE  ServiceInv'
  <2>1. UNCHANGED <<step, toWorker, fromWorker, told, active, phase>>
    BY <1>3 DEF Connect, PeerSends, HangUp, PendingFires, FirstFrameStale, wvars, loopVars
  <2> QED BY <1>1, <2>1
<1>4. ASSUME NEW c \in Conns, IsPending(c) PROVE Fresh(c) /\ c # active /\ c # slot
  BY <1>4, Zenon DEF PlacementInv, Fresh, SlotInv, ActiveOwnsSlot
<1>5. ASSUME NEW c \in Conns, FirstFrameHandled(c) PROVE ServiceInv'
  <2>1. /\ UNCHANGED <<step, toWorker, fromWorker, active, phase>>
        /\ IsPending(c) /\ \A d \in Conns : d # c => told'[d] = told[d]
    BY <1>5 DEF FirstFrameHandled, TakePending, wvars, Tell, TypeOK
  <2>2. c # active
    BY <1>4, <2>1
  <2>3. \A d \in Conns : d = active =>
           /\ step'[d] = step[d] /\ told'[d] = told[d]
           /\ toWorker'[d] = toWorker[d] /\ fromWorker'[d] = fromWorker[d]
    BY <2>1, <2>2, Zenon
  <2> QED BY <2>1, <2>3, <1>ServiceFrame, Zenon
<1>6. ASSUME NEW c \in Conns, Activate(c) PROVE ServiceInv'
  <2>1. CASE active' = None
    BY <1>2, <2>1
  <2>2. CASE active' # None
    <3>1. /\ active' = c /\ phase' = "AwaitWorker" /\ ReplaceWorker(c) /\ told' = told
          /\ IsPending(c)
      BY <1>6, <2>2 DEF Activate, SlotInstalls, TakePending
    <3>2. Fresh(c) /\ c # slot
      BY <1>4, <3>1
    <3>3. /\ step'[c] = "authenticate" /\ toWorker'[c] = <<>> /\ fromWorker'[c] = <<>>
          /\ told'[c] = <<>>
      BY <3>1, <3>2 DEF Fresh, ReplaceWorker, Gone
    <3>4. ServiceOk(c)'
      <4>1. toWorker'[c] # <<"StartSession">> /\ DOMAIN fromWorker'[c] = {}
        BY <3>3
      <4> QED BY <3>3, <4>1 DEF ServiceOk
    <3> QED BY <3>1, <3>4 DEF ServiceInv
  <2> QED BY <2>1, <2>2
<1>7. CASE ListenerReady \/ RaceDrain \/ SocketActivates \/ Tick \/ UNCHANGED vars
  <2>1. UNCHANGED <<step, toWorker, fromWorker, told, active, phase>>
    BY <1>7 DEF ListenerReady, RaceDrain, SocketActivates, Tick, vars, wvars, loopVars
  <2> QED BY <1>1, <2>1
<1>8. CASE RelayDisplay \/ RelayPrompt \/ RelayAuthOk \/ RelaySessionOpened
  BY <1>8, ServiceRelay, Zenon DEF RelayDisplay, RelayPrompt, RelayAuthOk, RelaySessionOpened
<1>9. CASE RelayOutcome \/ WorkerSideError \/ GreeterSideEnds
  BY <1>2, <1>9, Zenon DEF RelayOutcome, WorkerSideError, GreeterSideEnds, EndConnection
<1>10. CASE RelayToWorker
  <2>1. PICK c \in Conns : c = active
    BY <1>10 DEF RelayToWorker, TypeOK
  <2>2. /\ slot = c /\ c # None /\ phase \in AwaitPhases /\ active' = c
        /\ toWorker' = [toWorker EXCEPT ![c] = Append(@, Expected)]
        /\ phase' = "AwaitWorker" /\ UNCHANGED <<step, fromWorker, told>>
    BY <1>10, <2>1 DEF RelayToWorker, RelayStays, SlotInv, ActiveOwnsSlot
  <2>3. ServiceOk(c) /\ (phase = "AwaitGreeterStartSession" => told[c] = <<"Success">>)
    BY <2>1, <2>2 DEF ServiceInv
  <2>4. toWorker'[c] = <<"StartSession">> => told[c] = <<"Success">>
    <3>1. toWorker[c] = <<>>
      BY <2>1, <2>2 DEF LockstepInv, RelayOk
    <3>2. toWorker'[c] = Append(<<>>, Expected)
      BY <2>2, <3>1, Zenon DEF TypeOK, WorkerTypeOK
    <3>3. toWorker'[c] = <<"StartSession">> => Expected = "StartSession"
      BY <3>2
    <3>4. Expected = "StartSession" => phase = "AwaitGreeterStartSession"
      BY <2>2 DEF Expected, AwaitPhases
    <3> QED BY <2>3, <3>3, <3>4
  <2>5. OpenedSaid(c)' <=> OpenedSaid(c)
    BY <2>2, Zenon DEF OpenedSaid
  <2>6. ServiceOk(c)'
    BY <2>2, <2>3, <2>4, <2>5, Zenon DEF ServiceOk
  <2>7. phase' # "AwaitGreeterStartSession"
    BY <2>2
  <2> QED BY <2>2, <2>6, <2>7, Zenon DEF ServiceInv
<1>11. ASSUME NEW w \in Conns, GreeterGone(w) PROVE ServiceInv'
  <2>1. /\ UNCHANGED <<step, toWorker, told, active, phase>>
        /\ \A c \in Conns : fromWorker'[c] = fromWorker[c] \/ (c = w /\ slot # w)
    BY <1>11 DEF GreeterGone, loopVars, TypeOK, WorkerTypeOK
  <2>2. \A c \in Conns : c = active =>
           /\ step'[c] = step[c] /\ told'[c] = told[c]
           /\ toWorker'[c] = toWorker[c] /\ fromWorker'[c] = fromWorker[c]
    BY <2>1 DEF SlotInv, ActiveOwnsSlot
  <2> QED BY <2>1, <2>2, <1>ServiceFrame, Zenon
<1>12. CASE IdleExits \/ RaceDrainFails \/ Sigterm
  BY <1>2, <1>12 DEF IdleExits, RaceDrainFails, Sigterm, BrokerExits
<1> QED
  BY <1>3, <1>5, <1>6, <1>7, <1>8, <1>9, <1>10, <1>11, <1>12, <1>ServiceWorker, Zenon
     DEF Next, FirstFrameReady, WorkerSide, GreeterSide

\* It holds throughout.
LEMMA ServiceInvariant == Spec => []ServiceInv
<1>1. Init => ServiceInv
  BY DEF Init, ServiceInv
<1>2. TypeOK /\ SlotInv /\ PlacementInv /\ ProcInv /\ LockstepInv /\ ServiceInv
        /\ [Next]_vars => ServiceInv'
  BY ServiceStep
<1> QED
  BY <1>1, <1>2, TypeCorrect, SlotInvariant, PlacementInvariant, ProcInvariant,
     LockstepInvariant, PTL DEF Spec

\* Connection c has not been looked at yet.
Waits(c) == peer[c] = "none" \/ Queued(c) \/ IsPending(c)

\* What the broker does is a step of the service of c, or none of it.
Served(c) == [Service(c)!ServiceNext]_(Service(c)!serviceVars)

\* Where the service of c is.
LEMMA ServiceNow ==
    ASSUME NEW c \in Conns
    PROVE  /\ active = c /\ phase = "AwaitGreeterConvResponse" => ServiceOf(c) = "asking"
           /\ active = c /\ phase = "AwaitGreeterStartSession" => ServiceOf(c) = "granted"
           /\ active = c /\ phase \in WorkerPhases => ServiceOf(c) = "working"
           /\ active # c /\ Waits(c) => ServiceOf(c) = "waiting"
           /\ active # c /\ ~Waits(c) => ServiceOf(c) = "over"
BY DEF ServiceOf, Waits, WorkerPhases

\* Every step of the broker is a step, or none, of each connection's service.
LEMMA StepServed ==
    TypeOK /\ SlotInv /\ PlacementInv /\ ProcInv /\ LockstepInv
      /\ ServiceInv /\ [Next]_vars
      => \A c \in Conns : Served(c)
\* And where it is next.
<1>ServiceThen.
  ASSUME NEW c \in Conns
  PROVE  /\ active' = c /\ phase' = "AwaitGreeterConvResponse" => ServiceOf(c)' = "asking"
         /\ active' = c /\ phase' = "AwaitGreeterStartSession" => ServiceOf(c)' = "granted"
         /\ active' = c /\ phase' \in WorkerPhases => ServiceOf(c)' = "working"
         /\ active' # c /\ Waits(c)' => ServiceOf(c)' = "waiting"
         /\ active' # c /\ ~Waits(c)' => ServiceOf(c)' = "over"
  BY <1>ServiceThen DEF ServiceOf, Waits, WorkerPhases
\* Nobody comes back once looked at.
<1>WaitsShrink.
  ASSUME TypeOK, PlacementInv, [Next]_vars, NEW c \in Conns, Waits(c)'
  PROVE  Waits(c)
  <2> USE <1>WaitsShrink
  <2>1. ASSUME peer'[c] = "none" => peer[c] = "none",
               Queued(c)' => Queued(c) \/ peer[c] = "none",
               IsPending(c)' => IsPending(c) \/ Queued(c)
        PROVE  Waits(c)
    BY <2>1 DEF Waits
  <2>2. CASE UNCHANGED <<peer, backlog, pending>>
    BY <2>2 DEF Waits, Queued, IsPending
  <2>3. ASSUME NEW d \in Conns, Connect(d) PROVE Waits(c)
    <3>1. /\ peer[d] = "none" /\ peer' = [peer EXCEPT ![d] = "open"]
          /\ backlog' = Append(backlog, d) /\ pending' = pending
      BY <2>3 DEF Connect, loopVars
    <3>2. Range(backlog') = Range(backlog) \cup {d}
      BY <3>1, AppendSet DEF TypeOK
    <3>3. peer'[c] = "none" => peer[c] = "none"
      BY <3>1 DEF TypeOK
    <3> QED BY <2>1, <3>1, <3>2, <3>3 DEF Queued, IsPending
  <2>4. ASSUME NEW d \in Conns, PeerSends(d) \/ HangUp(d) PROVE Waits(c)
    <3>1. /\ peer'[c] = "none" => peer[c] = "none"
          /\ backlog' = backlog /\ pending' = pending
      BY <2>4 DEF PeerSends, HangUp, loopVars, TypeOK
    <3> QED BY <2>1, <3>1 DEF Queued, IsPending
  <2>5. ASSUME NEW d \in Conns,
               \/ PendingFires(d) \/ FirstFrameStale(d) \/ GreeterGone(d) \/ Worker(d)
        PROVE  UNCHANGED <<peer, backlog, pending>>
    BY <2>5 DEF PendingFires, FirstFrameStale, GreeterGone, Worker, brokerVars, clientVars,
       loopVars
  <2>6. ASSUME NEW d \in Conns, FirstFrameHandled(d) \/ Activate(d) PROVE Waits(c)
    <3>1. IsPending(d) /\ pending' = WithoutPending(d) /\ UNCHANGED <<peer, backlog>>
      BY <2>6 DEF FirstFrameHandled, Activate, TakePending
    <3>2. Range(pending') = Range(pending) \ {d}
      BY <3>1, WithoutPendingSet DEF TypeOK, PlacementInv
    <3> QED BY <2>1, <3>1, <3>2 DEF Queued, IsPending
  <2>7. CASE ListenerReady \/ RaceDrain \/ RaceDrainFails
    <3>1. /\ backlog # <<>> /\ backlog' = Tail(backlog) /\ peer' = peer
          /\ pending' \in {<<>>, pending, MakeRoom, Append(MakeRoom, Head(backlog))}
      BY <2>7 DEF ListenerReady, RaceDrain, RaceDrainFails, AdmitOne, AdmitFails, BrokerExits
    <3>2. Head(backlog) \in Conns /\ Head(backlog) \in Range(backlog)
      BY <3>1, HeadTailProperties, LenProperties DEF TypeOK, Range
    <3>3. Range(backlog') \subseteq Range(backlog)
      BY <3>1, TailSet DEF TypeOK, PlacementInv
    <3>4. MakeRoom \in Seq(Conns) /\ Range(MakeRoom) \subseteq Range(pending)
      <4>1. CASE Full
        <5>1. pending # <<>> /\ pending \in Seq(Conns)
          BY <4>1 DEF Full, TypeOK
        <5>2. /\ Range(Tail(pending)) = Range(pending) \ {Head(pending)}
              /\ Tail(pending) \in Seq(Conns)
          BY <5>1, TailSet, HeadTailProperties DEF PlacementInv
        <5> QED BY <4>1, <5>2 DEF MakeRoom
      <4>2. CASE ~Full
        BY <4>2 DEF MakeRoom, TypeOK
      <4> QED BY <4>1, <4>2
    <3>5. Range(Append(MakeRoom, Head(backlog))) = Range(MakeRoom) \cup {Head(backlog)}
      BY <3>2, <3>4, AppendSet
    <3>6. Range(<<>>) = {}
      BY DEF Range
    <3>7. Range(pending') \subseteq Range(pending) \cup Range(backlog)
      BY <3>1, <3>2, <3>4, <3>5, <3>6, ZenonT(30)
    <3> QED BY <2>1, <3>1, <3>3, <3>7 DEF Queued, IsPending
  <2>8. CASE IdleExits \/ Sigterm
    <3>1. pending' = <<>> /\ backlog' = backlog /\ peer' = peer
      BY <2>8 DEF IdleExits, Sigterm, BrokerExits
    <3>2. ~IsPending(c)'
      BY <3>1 DEF IsPending, Range
    <3> QED BY <2>1, <3>1, <3>2 DEF Queued
  <2>9. CASE SocketActivates \/ Tick \/ UNCHANGED vars
    BY <2>2, <2>9 DEF SocketActivates, Tick, vars, clientVars, loopVars
  <2>10. ASSUME EndConnection \/ (RelayStays /\ peer' = peer)
         PROVE  UNCHANGED <<peer, backlog, pending>>
    BY <2>10 DEF EndConnection, RelayStays
  <2>11. CASE WorkerSide \/ GreeterSide
    <3>1. EndConnection \/ (RelayStays /\ peer' = peer)
      BY <2>11, Zenon DEF WorkerSide, GreeterSide, RelayDisplay, RelayPrompt, RelayAuthOk,
         RelaySessionOpened, RelayOutcome, WorkerSideError, RelayContinues, RelayToWorker,
         GreeterSideEnds, clientVars
    <3> QED BY <2>2, <2>10, <3>1
  <2> QED
    BY <2>2, <2>3, <2>4, <2>5, <2>6, <2>7, <2>8, <2>9, <2>11, Zenon DEF Next, FirstFrameReady
\* The steps that tell a connection nothing leave its service where it is or
\* close it.
<1>ServiceUntold.
  ASSUME TypeOK, SlotInv, PlacementInv, NEW c \in Conns, Waits(c)' => Waits(c),
         told'[c] = told[c],
         \/ active' = active /\ phase' = phase
         \/ active' # c
  PROVE  Served(c)
  <2> USE <1>ServiceUntold
  <2>1. active = c => ~Waits(c)
    BY Zenon DEF PlacementInv, SlotInv, ActiveOwnsSlot, Fresh, Waits
  <2>2. ASSUME ServiceOf(c)' = ServiceOf(c) PROVE Served(c)
    BY <2>2, Zenon DEF Served, Service!serviceVars
  <2>3. ASSUME ServiceOf(c) # "over", ServiceOf(c)' = "over" PROVE Served(c)
    <3>1. Service(c)!Close
      BY <2>3 DEF Service!Close
    <3> QED BY <3>1 DEF Served, Service!ServiceNext
  <2>4. phase \in {"AwaitGreeterConvResponse", "AwaitGreeterStartSession"} \/ phase \in WorkerPhases
    BY DEF TypeOK, AwaitPhases
  <2>5. CASE active = c /\ active' = c
    <3>1. phase' = phase
      BY <2>5
    <3> QED BY <2>2, <2>4, <2>5, <3>1, ServiceNow, <1>ServiceThen
  <2>6. CASE active = c /\ active' # c
    <3>1. ServiceOf(c)' = "over"
      BY <2>1, <2>6, <1>ServiceThen
    <3>2. ServiceOf(c) \in {"asking", "granted", "working"}
      BY <2>4, <2>6, ServiceNow
    <3> QED BY <2>3, <3>1, <3>2
  <2>7. CASE active # c /\ active' # c
    <3>1. \/ ServiceOf(c) = "waiting" /\ ServiceOf(c)' \in {"waiting", "over"}
          \/ ServiceOf(c) = "over" /\ ServiceOf(c)' = "over"
      BY <2>7, ServiceNow, <1>ServiceThen
    <3> QED BY <2>2, <2>3, <3>1
  <2> QED BY <2>5, <2>6, <2>7, Zenon
\* What the relay does is a step of the service of the active connection.
<1>RelayServed.
  ASSUME TypeOK, SlotInv, PlacementInv, ProcInv, LockstepInv, ServiceInv,
         WorkerSide \/ GreeterSide, NEW c \in Conns, Waits(c)' => Waits(c)
  PROVE  Served(c)
  <2> USE <1>RelayServed
  <2>1. PICK a \in Conns : a = active
    BY DEF WorkerSide, GreeterSide, RelayDisplay, RelayPrompt, RelayAuthOk,
       RelaySessionOpened, RelayOutcome, WorkerSideError, RelayToWorker, GreeterSideEnds,
       WorkerSays, TypeOK
  <2>2. ~Waits(a)
    BY <2>1, Zenon DEF PlacementInv, SlotInv, ActiveOwnsSlot, Fresh, Waits
  <2>3. ASSUME told'[c] = told[c], (active' = active /\ phase' = phase) \/ active' # c
        PROVE  Served(c)
    BY <2>3, <1>ServiceUntold, Zenon
  <2>4. ASSUME RelayContinues PROVE active' = active
    BY <2>4 DEF RelayContinues, RelayStays
  <2>5. ASSUME c # a, active' = active \/ active' = None,
               \A d \in Conns : d # a => told'[d] = told[d]
        PROVE  Served(c)
    <3>1. active' # c
      BY <2>1, <2>5
    <3> QED BY <2>3, <2>5, <3>1, Zenon
  <2>6. ASSUME NEW f, WorkerSays(f)
        PROVE  /\ phase \in WorkerPhases /\ (c = a => ServiceOf(c) = "working")
               /\ fromWorker[a] # <<>> /\ Head(fromWorker[a]) = f /\ peer[a] # "closed"
    BY <2>1, <2>6, ServiceNow DEF WorkerSays, SlotInv, ActiveOwnsSlot
  <2>7. CASE RelayDisplay
    <3>1. told' = told /\ phase' = phase /\ active' = active
      BY <2>4, <2>7 DEF RelayDisplay
    <3> QED BY <2>3, <3>1
  <2>8. CASE RelayPrompt
    <3>1. /\ told' = told /\ active' = a /\ phase' = "AwaitGreeterConvResponse"
          /\ WorkerSays("ConvPrompt")
      BY <2>1, <2>4, <2>8 DEF RelayPrompt
    <3>2. CASE c = a
      <4>1. ServiceOf(c) = "working" /\ ServiceOf(c)' = "asking"
        BY <2>6, <3>1, <3>2, <1>ServiceThen
      <4>2. Service(c)!Ask
        BY <3>1, <4>1 DEF Service!Ask
      <4> QED BY <4>2 DEF Served, Service!ServiceNext
    <3> QED BY <2>1, <2>5, <3>1, <3>2
  <2>9. CASE RelayAuthOk
    <3>1. /\ active' = a /\ phase' = "AwaitGreeterStartSession" /\ WorkerSays("AuthOk")
          /\ told[a] = <<>> /\ told' = [told EXCEPT ![a] = <<"Success">>]
      BY <2>1, <2>4, <2>9, ServiceRelay, Zenon DEF RelayAuthOk
    <3>2. CASE c = a
      <4>1. ServiceOf(c) = "working" /\ ServiceOf(c)' = "granted"
        BY <2>6, <3>1, <3>2, <1>ServiceThen
      <4>2. told'[c] = <<"Success">>
        BY <3>1, <3>2 DEF TypeOK
      <4>3. Service(c)!Grant
        BY <3>1, <3>2, <4>1, <4>2 DEF Service!Grant
      <4> QED BY <4>3 DEF Served, Service!ServiceNext
    <3>3. \A d \in Conns : d # a => told'[d] = told[d]
      BY <3>1 DEF TypeOK
    <3> QED BY <2>1, <2>5, <3>1, <3>2, <3>3
  <2>10. CASE RelaySessionOpened
    <3>1. /\ active' = a /\ phase' = "SessionRunning" /\ WorkerSays("SessionOpened")
          /\ told[a] = <<"Success">> /\ told' = [told EXCEPT ![a] = Append(@, "SessionOpened")]
      BY <2>1, <2>4, <2>10, ServiceRelay, Zenon DEF RelaySessionOpened
    <3>2. CASE c = a
      <4>1. ServiceOf(c) = "working" /\ ServiceOf(c)' = "working"
        BY <2>6, <3>1, <3>2, <1>ServiceThen DEF WorkerPhases
      <4>2. told'[c] = Append(told[c], "SessionOpened") /\ told[c] = <<"Success">>
        BY <3>1, <3>2, Zenon DEF TypeOK
      <4>3. Service(c)!Open
        BY <4>1, <4>2, Zenon DEF Service!Open
      <4> QED BY <4>3 DEF Served, Service!ServiceNext
    <3>3. \A d \in Conns : d # a => told'[d] = told[d]
      BY <3>1 DEF TypeOK
    <3> QED BY <2>1, <2>5, <3>1, <3>2, <3>3
  <2>11. CASE RelayOutcome
    <3>1. PICK f \in {"SessionEnded", "Failure"} : WorkerSays(f) /\ Tell(a, f)
      BY <2>1, <2>11 DEF RelayOutcome
    <3>2. active' = None /\ told' = [told EXCEPT ![a] = Append(@, f)]
      BY <2>6, <2>11, <3>1, Zenon DEF RelayOutcome, EndConnection, Tell
    <3>3. CASE c = a
      <4>1. ServiceOf(c) = "working" /\ ServiceOf(c)' = "over"
        <5>1. active' # c /\ ~Waits(c)'
          BY <2>2, <3>2, <3>3
        <5> QED BY <2>6, <3>1, <3>3, <5>1, <1>ServiceThen
      <4>2. told'[c] = Append(told[c], f)
        BY <3>2, <3>3, Zenon DEF TypeOK
      <4>3. f = "SessionEnded" => told[c] = <<"Success", "SessionOpened">>
        <5> SUFFICES ASSUME f = "SessionEnded" PROVE told[c] = <<"Success", "SessionOpened">>
          OBVIOUS
        <5> DEFINE s == fromWorker[c]
        <5>1. s \in Seq(WorkerFrames) /\ s # <<>> /\ Head(s) = "SessionEnded"
          BY <2>6, <3>1, <3>3 DEF TypeOK, WorkerTypeOK
        <5>2. s[1] = "SessionEnded" /\ 1 \in DOMAIN s
          <6> HIDE DEF s
          <6>1. Len(s) \in Nat /\ DOMAIN s = 1..Len(s) /\ Len(s) # 0
            BY <5>1, LenProperties
          <6> QED BY <5>1, <6>1
        <5>3. ServiceOk(c) /\ ChannelOk(c)
          BY <2>1, <3>3 DEF ServiceInv, LockstepInv
        <5>4. OpenedSaid(c)
          BY <5>2, <5>3, Zenon DEF ServiceOk
        <5>5. 1 = Len(s)
          BY <5>2, <5>3, Zenon DEF ChannelOk
        <5>6. \A j \in DOMAIN s : s[j] = "SessionEnded"
          BY <5>1, <5>2, <5>5, LenProperties
        <5> QED BY <5>4, <5>6 DEF OpenedSaid
      <4>4. Service(c)!Finish(f)
        BY <4>1, <4>2, <4>3, Zenon DEF Service!Finish
      <4> QED BY <4>4 DEF Served, Service!ServiceNext
    <3>4. \A d \in Conns : d # a => told'[d] = told[d]
      BY <3>2 DEF TypeOK
    <3> QED BY <2>1, <2>5, <3>2, <3>3, <3>4
  <2>12. CASE WorkerSideError \/ GreeterSideEnds
    <3>1. active' = None /\ told' = told
      BY <2>12 DEF WorkerSideError, GreeterSideEnds, EndConnection
    <3> QED BY <2>3, <3>1
  <2>13. CASE RelayToWorker
    <3>1. /\ active' = a /\ phase' = "AwaitWorker" /\ told' = told /\ phase \in AwaitPhases
      BY <2>1, <2>13 DEF RelayToWorker, RelayStays
    <3>2. CASE c = a
      <4>1. ServiceOf(c)' = "working" /\ told'[c] = told[c]
        BY <3>1, <3>2, <1>ServiceThen DEF WorkerPhases
      <4>2. CASE phase = "AwaitGreeterConvResponse"
        <5>1. ServiceOf(c) = "asking"
          BY <2>1, <3>2, <4>2, ServiceNow
        <5>2. Service(c)!Answered
          BY <4>1, <5>1 DEF Service!Answered
        <5> QED BY <5>2 DEF Served, Service!ServiceNext
      <4>3. CASE phase = "AwaitGreeterStartSession"
        <5>1. ServiceOf(c) = "granted"
          BY <2>1, <3>2, <4>3, ServiceNow
        <5>2. Service(c)!Start
          BY <4>1, <5>1 DEF Service!Start
        <5> QED BY <5>2 DEF Served, Service!ServiceNext
      <4> QED BY <3>1, <4>2, <4>3 DEF AwaitPhases
    <3> QED BY <2>1, <2>5, <3>1, <3>2
  <2> QED
    BY <2>7, <2>8, <2>9, <2>10, <2>11, <2>12, <2>13, Zenon DEF WorkerSide, GreeterSide
\* first_frame_ready serves its connection on the spot, accepts it or closes
\* it.
<1>FirstFrameServed.
  ASSUME TypeOK, SlotInv, PlacementInv, NEW d \in Conns, FirstFrameHandled(d) \/ Activate(d),
         NEW c \in Conns, Waits(c)' => Waits(c)
  PROVE  Served(c)
  <2> USE <1>FirstFrameServed
  <2>1. /\ IsPending(d) /\ pending' = WithoutPending(d) /\ UNCHANGED <<peer, backlog>>
    BY DEF FirstFrameHandled, Activate, TakePending
  <2>2. /\ d # active /\ d # None /\ Waits(d) /\ peer[d] # "none" /\ ~Queued(d)
    BY <2>1 DEF PlacementInv, SlotInv, ActiveOwnsSlot, Fresh, Waits
  <2>3. ~Waits(d)'
    <3>1. Range(pending') = Range(pending) \ {d}
      BY <2>1, WithoutPendingSet DEF TypeOK, PlacementInv
    <3> QED BY <2>1, <2>2, <3>1 DEF Waits, Queued, IsPending
  <2>4. ServiceOf(d) = "waiting"
    BY <2>2, ServiceNow
  <2>5. CASE FirstFrameHandled(d)
    <3>1. /\ active' = active /\ phase' = phase
          /\ \/ told' = told
             \/ \E m \in {"RootFd", "GreeterSpawned"} : told' = [told EXCEPT ![d] = Append(@, m)]
      BY <2>5 DEF FirstFrameHandled, Tell
    <3>2. CASE told'[c] = told[c]
      BY <3>1, <3>2, <1>ServiceUntold, Zenon
    <3>3. CASE told'[c] # told[c]
      <4>1. PICK m \in {"RootFd", "GreeterSpawned"} : told' = [told EXCEPT ![d] = Append(@, m)]
        BY <3>1, <3>3
      <4>2. c = d /\ told'[d] = Append(told[d], m)
        BY <3>3, <4>1, Zenon DEF TypeOK
      <4>3. ServiceOf(d)' = "over"
        BY <2>2, <2>3, <3>1, <1>ServiceThen
      <4>4. Service(d)!Serve
        BY <2>4, <4>2, <4>3, Zenon DEF Service!Serve
      <4> QED BY <4>2, <4>4 DEF Served, Service!ServiceNext
    <3> QED BY <3>2, <3>3
  <2>6. CASE Activate(d)
    <3>1. told' = told /\ (active' = None \/ (active' = d /\ phase' = "AwaitWorker"))
      BY <2>6 DEF Activate
    <3>2. CASE active' # c
      BY <3>1, <3>2, <1>ServiceUntold, Zenon
    <3>3. CASE active' = c
      <4>1. c = d /\ phase' = "AwaitWorker"
        BY <3>1, <3>3
      <4>2. ServiceOf(d)' = "working"
        BY <3>3, <4>1, <1>ServiceThen DEF WorkerPhases
      <4>3. Service(d)!Accept
        BY <2>4, <3>1, <4>2 DEF Service!Accept
      <4> QED BY <4>1, <4>3 DEF Served, Service!ServiceNext
    <3> QED BY <3>2, <3>3
  <2> QED BY <2>5, <2>6
<1> SUFFICES ASSUME TypeOK, SlotInv, PlacementInv, ProcInv, LockstepInv,
                    ServiceInv, [Next]_vars, NEW c \in Conns
             PROVE  Served(c)
  OBVIOUS
<1>1. Waits(c)' => Waits(c)
  BY <1>WaitsShrink
<1>2. ASSUME told' = told, (active' = active /\ phase' = phase) \/ active' = None
      PROVE  Served(c)
  BY <1>1, <1>2, <1>ServiceUntold
<1>3. ASSUME NEW d \in Conns,
             \/ Connect(d) \/ PeerSends(d) \/ HangUp(d) \/ PendingFires(d)
             \/ FirstFrameStale(d) \/ GreeterGone(d) \/ Worker(d)
      PROVE  told' = told /\ active' = active /\ phase' = phase
  BY <1>3 DEF Connect, PeerSends, HangUp, PendingFires, FirstFrameStale, GreeterGone, Worker,
     brokerVars, loopVars
<1>4. CASE ListenerReady \/ RaceDrain \/ SocketActivates \/ Tick \/ UNCHANGED vars
  <2>1. told' = told /\ active' = active /\ phase' = phase
    BY <1>4, Zenon DEF ListenerReady, RaceDrain, SocketActivates, Tick, vars, loopVars
  <2> QED BY <1>2, <2>1
<1>5. CASE IdleExits \/ RaceDrainFails \/ Sigterm
  BY <1>2, <1>5 DEF IdleExits, RaceDrainFails, Sigterm, BrokerExits
<1> QED
  BY <1>1, <1>2, <1>3, <1>4, <1>5, <1>FirstFrameServed, <1>RelayServed, Zenon
     DEF Next, FirstFrameReady

\* The broker implements AuthService for every connection: what it tells one
\* and when it listens to it keeps the protocol, whatever the workers, the
\* other connections, PID 1 and the clock do (step, activate, first_frame_ready,
\* admit_one).
THEOREM BrokerImplementsService == Spec => ImplementsService
<1>1. Init => \A c \in Conns : Service(c)!ServiceInit
  <2> SUFFICES ASSUME Init, NEW c \in Conns PROVE Service(c)!ServiceInit
    BY Zenon
  <2>1. active # c /\ Waits(c) /\ told[c] = <<>>
    BY DEF Init, Waits
  <2>2. ServiceOf(c) = "waiting"
    BY <2>1, ServiceNow
  <2> QED BY <2>1, <2>2 DEF Service!ServiceInit
<1> DEFINE A == \A c \in Conns : [Service(c)!ServiceNext]_(Service(c)!serviceVars)
<1>2. TypeOK /\ SlotInv /\ PlacementInv /\ ProcInv /\ LockstepInv /\ ServiceInv
        /\ [Next]_vars => [A]_vars
  BY StepServed DEF Served
<1> HIDE DEF A
<1>3. Spec => [][A]_vars
  BY <1>2, TypeCorrect, SlotInvariant, PlacementInvariant, ProcInvariant,
     LockstepInvariant, ServiceInvariant, PTL DEF Spec
<1> QED BY <1>1, <1>3 DEF Spec, ImplementsService, A
=============================================================================
