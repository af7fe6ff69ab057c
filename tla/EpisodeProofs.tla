---------------------------- MODULE EpisodeProofs ----------------------------
(***************************************************************************)
(* What Episode promises for any number of requests and conversation       *)
(* frames, any greeter and any PAM stack: its types, that the relay and    *)
(* the broker stay in step, that an answer reaches the prompt it was given *)
(* to, one reply for each request, and Success only for a granted login.   *)
(***************************************************************************)
EXTENDS Episode, SequenceTheorems, TLAPS

USE EpisodeAssumption

\* The broker waits for what comes in state s, or is through, and nothing is
\* on its way.
Listening(s) == svc \in {s, "over"} /\ toBroker = <<>>

Granted == told # <<>> /\ told[1] = "Success"

\* At most one frame is on its way to the broker, and it is the one the broker
\* waits for.
WireInv ==
    \/ toBroker = <<>>
    \/ /\ Len(toBroker) = 1
       /\ \/ svc = "waiting" /\ toBroker[1].t = "BeginAuth"
          \/ /\ svc = "asking" /\ toBroker[1].t = "ConvResponse"
             /\ toBroker[1].n \in {0, talks}
          \/ svc = "granted" /\ toBroker[1].t = "StartSession"

\* Before there is a relay, and between the grant and StartSession, both sides
\* of the broker's socket are quiet.
RelayInv ==
    /\ relay = "none" => /\ Listening("waiting") /\ fromBroker = <<>>
                         /\ pendingResponses = <<>> /\ pendingChallenges = <<>>
    /\ relay = "Authed" => Listening("granted") /\ fromBroker = <<>>

\* A prompt and a grant are the last frames from the broker until they are
\* answered.
FramesInv ==
    \A i \in 1..Len(fromBroker) :
       /\ fromBroker[i].t = "ConvPrompt" =>
             i = Len(fromBroker) /\ fromBroker[i].n = talks /\ Listening("asking")
       /\ fromBroker[i].t = "Success" =>
             i = Len(fromBroker) /\ Listening("granted") /\ Granted

\* So a response to forward is the last one owed.
ForwardInv ==
    \A i \in 1..Len(pendingResponses) : pendingResponses[i] = "Forward" =>
        i = Len(pendingResponses) /\ fromBroker = <<>> /\ Listening("asking")

WiresInv == WireInv /\ RelayInv /\ FramesInv /\ ForwardInv

\* While PAM converses, the relay owes a response for the challenge shown and
\* for each one that waits, in that order; none while the machine is suspended.
QueueInv ==
    ~closed /\ relay = "Authing" =>
       IF awaitingPam
       THEN pendingResponses = <<>> /\ pendingChallenges = <<>>
       ELSE /\ Len(pendingResponses) = Len(pendingChallenges) + 1
            /\ pendingResponses[1] = "Forward" => shown = talks
            /\ \A i \in 1..Len(pendingChallenges) :
                  /\ pendingChallenges[i].t = "Challenge"
                  /\ pendingResponses[i + 1] = "Forward" =>
                        pendingChallenges[i].n = talks

GrantInv ==
    /\ SuccessIsGranted
    /\ \A i \in 1..Len(pendingChallenges) :
          pendingChallenges[i].t = "Success" => Granted

Inv == TypeOK /\ WiresInv /\ MirrorAgrees /\ QueueInv /\ GrantInv /\ OneReplyEach

----------------------------------------------------------------------------
(* Types, by groups of variables.                                          *)

GState == {"Idle", "AuthPending", "Authenticating", "AuthSuccess", "Spawning"}
Phase == {"none", "Authing", "Authed", "Starting", "Running", "Done"}
Step == Numbered({"Challenge", "Success", "Failure"})
ToBroker == Numbered({"BeginAuth", "ConvResponse", "StartSession"})
FromBroker == Numbered(PamTalks \cup Outcomes)

GreetdTypes ==
    /\ gstate \in GState /\ shown \in Nat
    /\ awaitingPam \in BOOLEAN /\ closed \in BOOLEAN

RelayTypes ==
    /\ relay \in Phase /\ ready \in BOOLEAN
    /\ pendingResponses \in Seq({"Swallow", "Forward"})
    /\ pendingChallenges \in Seq(Step)

ConnTypes ==
    /\ conn \in {"open", "detached", "dropping", "gone"}
    /\ spawned \in BOOLEAN /\ terminate \in BOOLEAN

GreeterTypes ==
    /\ view \in Views /\ asked \in Requests \cup {"nothing"}
    /\ sent \in 0..MaxRequests
    /\ toGreetd \in Seq(Requests) /\ toGreeter \in Seq(ReplyKinds)

BrokerTypes ==
    /\ toBroker \in Seq(ToBroker) /\ fromBroker \in Seq(FromBroker)
    /\ talks \in 0..MaxTalks

ReplyTypes == writeBuf \in Seq(ReplyKinds) /\ replies \in Nat

\* TypeOK by groups of variables.
LEMMA TypeParts ==
  /\ TypeOK <=> /\ ServiceTypeOK /\ GreetdTypes /\ RelayTypes /\ ConnTypes
                /\ GreeterTypes /\ BrokerTypes /\ ReplyTypes
                /\ readBuf \in Seq(Requests) /\ polite \in Manners
  /\ TypeOK' <=> /\ ServiceTypeOK' /\ GreetdTypes' /\ RelayTypes' /\ ConnTypes'
                 /\ GreeterTypes' /\ BrokerTypes' /\ ReplyTypes'
                 /\ readBuf' \in Seq(Requests) /\ polite' \in Manners
  BY Zenon DEF TypeOK, GreetdTypes, RelayTypes, ConnTypes, GreeterTypes, BrokerTypes,
         ReplyTypes, GState, Phase, Step, ToBroker, FromBroker

\* What a group that is left alone keeps.
LEMMA SameTypes ==
  /\ ServiceTypeOK /\ UNCHANGED serviceVars => ServiceTypeOK'
  /\ GreetdTypes /\ UNCHANGED greetdVars => GreetdTypes'
  /\ RelayTypes /\ UNCHANGED relayVars => RelayTypes'
  /\ ConnTypes /\ UNCHANGED connVars => ConnTypes'
  /\ GreeterTypes /\ UNCHANGED greeterVars => GreeterTypes'
  /\ BrokerTypes /\ UNCHANGED <<toBroker, fromBroker, talks>> => BrokerTypes'
  /\ ReplyTypes /\ UNCHANGED <<writeBuf, replies>> => ReplyTypes'
<1>1. ServiceTypeOK /\ UNCHANGED serviceVars => ServiceTypeOK'
  BY DEF ServiceTypeOK, serviceVars
<1>2. GreetdTypes /\ UNCHANGED greetdVars => GreetdTypes'
  BY DEF GreetdTypes, greetdVars
<1>3. RelayTypes /\ UNCHANGED relayVars => RelayTypes'
  BY DEF RelayTypes, relayVars
<1>4. ConnTypes /\ UNCHANGED connVars => ConnTypes'
  BY DEF ConnTypes, connVars
<1>5. GreeterTypes /\ UNCHANGED greeterVars => GreeterTypes'
  BY DEF GreeterTypes, greeterVars
<1>6. BrokerTypes /\ UNCHANGED <<toBroker, fromBroker, talks>> => BrokerTypes'
  BY DEF BrokerTypes
<1>7. ReplyTypes /\ UNCHANGED <<writeBuf, replies>> => ReplyTypes'
  BY DEF ReplyTypes
<1> QED BY <1>1, <1>2, <1>3, <1>4, <1>5, <1>6, <1>7, Zenon

----------------------------------------------------------------------------
(* Sequences.                                                              *)

\* What reading the head of a queue leaves.
LEMMA TailFacts ==
  ASSUME NEW S, NEW q \in Seq(S), q # <<>>
  PROVE  /\ Len(q) \in Nat /\ Len(q) >= 1
         /\ Head(q) = q[1] /\ q[1] \in S
         /\ Tail(q) \in Seq(S) /\ Len(Tail(q)) = Len(q) - 1
         /\ \A i \in 1..Len(Tail(q)) : i + 1 \in 1..Len(q) /\ Tail(q)[i] = q[i + 1]
         /\ Len(q) = 1 => Tail(q) = <<>>
<1>1. Len(q) \in Nat /\ Len(q) >= 1 /\ Head(q) = q[1] /\ q[1] \in S
  BY EmptySeq, LenProperties
<1>2. /\ Tail(q) \in Seq(S) /\ Len(Tail(q)) = Len(q) - 1
      /\ \A i \in 1..Len(Tail(q)) : Tail(q)[i] = q[i + 1]
  BY HeadTailProperties
<1>3. \A i \in 1..Len(Tail(q)) : i + 1 \in 1..Len(q)
  BY <1>1, <1>2
<1>4. Len(q) = 1 => Tail(q) = <<>>
  <2>1. Tail(q) # <<>> => Len(Tail(q)) \in Nat \ {0}
    BY <1>2, EmptySeq, Zenon
  <2> QED BY <1>2, <2>1
<1> QED BY <1>1, <1>2, <1>3, <1>4

\* What a new last element changes.
LEMMA AppendFacts ==
  ASSUME NEW S, NEW q \in Seq(S), NEW x \in S
  PROVE  /\ Append(q, x) \in Seq(S) /\ Len(q) \in Nat
         /\ Len(Append(q, x)) = Len(q) + 1
         /\ Append(q, x)[Len(q) + 1] = x
         /\ \A i \in 1..Len(q) : Append(q, x)[i] = q[i]
         /\ \A i \in 1..(Len(q) + 1) : i \in 1..Len(q) \/ i = Len(q) + 1
         /\ Append(q, x) # <<>>
<1>1. Len(q) \in Nat
  BY LenProperties
<1>2. /\ Append(q, x) \in Seq(S) /\ Len(Append(q, x)) = Len(q) + 1
      /\ Append(q, x)[Len(q) + 1] = x
      /\ \A i \in 1..Len(q) : Append(q, x)[i] = q[i]
      /\ Append(q, x) # <<>>
  BY <1>1, AppendProperties
<1>3. \A i \in 1..(Len(q) + 1) : i \in 1..Len(q) \/ i = Len(q) + 1
  BY <1>1
<1> QED BY <1>1, <1>2, <1>3

\* The same, of the sequence that results.
LEMMA AppendTo ==
  ASSUME NEW S, NEW q \in Seq(S), NEW x \in S, NEW t, t = Append(q, x)
  PROVE  /\ t \in Seq(S) /\ Len(q) \in Nat /\ Len(t) = Len(q) + 1
         /\ t[Len(q) + 1] = x
         /\ \A i \in 1..Len(q) : t[i] = q[i]
         /\ \A i \in 1..(Len(q) + 1) : i \in 1..Len(q) \/ i = Len(q) + 1
BY AppendFacts

\* A queue without elements is the empty one.
LEMMA NoneLeft ==
  ASSUME NEW S, NEW q \in Seq(S), Len(q) = 0
  PROVE  q = <<>>
<1>1. q # <<>> => Len(q) \in Nat \ {0}
  BY EmptySeq, Zenon
<1> QED BY <1>1

----------------------------------------------------------------------------
(* What the pieces of a handler do.                                        *)

\* Replies are only appended, and counted.
LEMMA ReplyEffect ==
  ASSUME ReplyTypes, NEW rs \in Seq(ReplyKinds), Reply(rs)
  PROVE  ReplyTypes' /\ replies' = replies + Len(rs) /\ Len(rs) \in Nat
<1>1. Len(rs) \in Nat /\ writeBuf \o rs \in Seq(ReplyKinds)
  BY ConcatProperties, LenProperties DEF ReplyTypes
<1> QED BY <1>1 DEF Reply, ReplyTypes

\* fail_closed closes the machine, whatever its state.
LEMMA FailEffect ==
  ASSUME GreetdTypes, RelayTypes, ConnTypes, ReplyTypes,
         NEW rs \in Seq(ReplyKinds), NEW s \in GState, NEW isClosed \in BOOLEAN,
         FailClosed(rs, s, isClosed)
  PROVE  /\ GreetdTypes' /\ ReplyTypes'
         /\ closed' = TRUE /\ terminate' = TRUE /\ spawned' = spawned
         /\ gstate' \in {s, "Idle"}
         /\ relay' = IF relay = "none" THEN "none" ELSE "Done"
<1> DEFINE out == IF isClosed \/ s = "Spawning" THEN rs ELSE Append(rs, "AuthError")
<1>1. out \in Seq(ReplyKinds)
  BY AppendProperties DEF ReplyKinds
<1>2. Reply(out)
  BY DEF FailClosed
<1> HIDE DEF out
<1>3. ReplyTypes'
  BY <1>1, <1>2, ReplyEffect
<1>4. /\ closed' = TRUE /\ terminate' = TRUE /\ spawned' = spawned /\ shown' = shown
      /\ gstate' = IF isClosed \/ s = "Spawning" THEN s ELSE "Idle"
      /\ relay' = IF relay = "none" THEN "none" ELSE "Done"
      /\ awaitingPam' = (awaitingPam /\ isClosed)
  BY Zenon DEF FailClosed
<1>5. gstate' \in {s, "Idle"}
  BY <1>4
<1>6. GreetdTypes'
  BY <1>4, <1>5 DEF GreetdTypes, GState
<1> QED BY <1>3, <1>4, <1>5, <1>6

\* resume_pam gives a suspended machine its step, and closes any other.
LEMMA ResumeEffect ==
  ASSUME GreetdTypes, ReplyTypes, ConnTypes,
         NEW step \in Step, NEW s \in GState, NEW awaiting \in BOOLEAN,
         ResumePam(step, s, awaiting)
  PROVE  /\ GreetdTypes' /\ ReplyTypes' /\ spawned' = spawned /\ ready' = FALSE
         /\ terminate' \in BOOLEAN
         /\ closed \/ ~awaiting => closed' = TRUE /\ gstate' = s /\ shown' = shown
         /\ ~closed /\ awaiting =>
               /\ closed' = FALSE /\ awaitingPam' = FALSE
               /\ replies' = replies + 1
               /\ step.t = "Challenge" => gstate' = "Authenticating" /\ shown' = step.n
               /\ step.t = "Success" => gstate' = "AuthSuccess"
               /\ step.t = "Failure" => gstate' = "Idle"
<1>1. step.t \in {"Challenge", "Success", "Failure"} /\ step.n \in Nat
  BY DEF Step, Numbered
<1>2. spawned' = spawned /\ ready' = FALSE /\ awaitingPam' = (closed /\ awaiting)
  BY Zenon DEF ResumePam
<1>3. CASE closed \/ ~awaiting
  <2> DEFINE rs == IF closed THEN <<>> ELSE <<"Error">>
  <2>1. /\ Reply(rs) /\ closed' = TRUE /\ terminate' = TRUE
        /\ gstate' = s /\ shown' = shown
    BY <1>3, Zenon DEF ResumePam
  <2>2. rs \in Seq(ReplyKinds)
    BY DEF ReplyKinds
  <2> HIDE DEF rs
  <2>3. ReplyTypes'
    BY <2>1, <2>2, ReplyEffect
  <2>4. GreetdTypes'
    BY <1>2, <2>1 DEF GreetdTypes
  <2> QED BY <1>2, <1>3, <2>1, <2>3, <2>4
<1>4. CASE ~closed /\ awaiting
  <2> DEFINE r == CASE step.t = "Challenge" -> <<"AuthMessage">>
                    [] step.t = "Success" -> <<"Success">>
                    [] step.t = "Failure" -> <<"AuthError">>
  <2>1. /\ Reply(r) /\ closed' = closed /\ terminate' = terminate
        /\ shown' = IF step.t = "Challenge" THEN step.n ELSE shown
        /\ gstate' = CASE step.t = "Challenge" -> "Authenticating"
                       [] step.t = "Success" -> "AuthSuccess"
                       [] step.t = "Failure" -> "Idle"
    BY <1>4, Zenon DEF ResumePam
  <2>2. r \in Seq(ReplyKinds) /\ Len(r) = 1
    <3>1. r \in {<<"AuthMessage">>, <<"Success">>, <<"AuthError">>}
      BY <1>1
    <3>2. \A x \in ReplyKinds : <<x>> \in Seq(ReplyKinds) /\ Len(<<x>>) = 1
      OBVIOUS
    <3>3. {"AuthMessage", "Success", "AuthError"} \subseteq ReplyKinds
      BY DEF ReplyKinds
    <3> HIDE DEF r
    <3> QED BY <3>1, <3>2, <3>3, Zenon
  <2> HIDE DEF r
  <2>3. ReplyTypes' /\ replies' = replies + 1
    BY <2>1, <2>2, ReplyEffect, Zenon
  <2>4. /\ step.t = "Challenge" => gstate' = "Authenticating" /\ shown' = step.n
        /\ step.t = "Success" => gstate' = "AuthSuccess"
        /\ step.t = "Failure" => gstate' = "Idle"
    BY <2>1
  <2>5. GreetdTypes'
    BY <1>1, <1>2, <1>4, <2>1, <2>4 DEF GreetdTypes, GState
  <2>6. closed' = FALSE /\ awaitingPam' = FALSE /\ terminate' \in BOOLEAN
    BY <1>2, <1>4, <2>1, Zenon DEF ConnTypes, GreetdTypes
  <2> QED BY <1>2, <1>4, <2>3, <2>4, <2>5, <2>6
<1> QED BY <1>3, <1>4, Zenon

----------------------------------------------------------------------------
(* The service.                                                            *)

\* Neither side owes the other an answer.
NothingOwed ==
    /\ relay \notin {"none", "Authed"}
    /\ \A i \in 1..Len(fromBroker) : fromBroker[i].t \notin {"ConvPrompt", "Success"}
    /\ \A i \in 1..Len(pendingResponses) : pendingResponses[i] # "Forward"

\* Nothing is owed while the broker works, or has a frame to read.
LEMMA Busy ==
  ASSUME WiresInv
  PROVE  /\ toBroker # <<>> => NothingOwed
         /\ svc = "working" => toBroker = <<>> /\ NothingOwed
<1>1. toBroker # <<>> => NothingOwed
  BY Zenon DEF WiresInv, RelayInv, FramesInv, ForwardInv, Listening, NothingOwed
<1>2. svc = "working" => toBroker = <<>>
  BY DEF WiresInv, WireInv
<1>3. svc = "working" => \A s \in {"waiting", "asking", "granted"} : ~Listening(s)
  BY DEF Listening
<1>4. svc = "working" => NothingOwed
  BY <1>3, Zenon DEF WiresInv, RelayInv, FramesInv, ForwardInv, NothingOwed
<1> QED BY <1>1, <1>2, <1>4

\* The broker read its frame.
LEMMA ListenWires ==
  ASSUME NothingOwed, toBroker' = <<>>, UNCHANGED <<fromBroker, pendingResponses, relay>>
  PROVE  WiresInv'
  BY Zenon DEF NothingOwed, WiresInv, WireInv, RelayInv, FramesInv, ForwardInv

\* The broker sent a frame, unless the compositor had closed its end.
LEMMA SayWires ==
  ASSUME NothingOwed, BrokerTypes, toBroker' = <<>>, NEW f \in FromBroker,
         fromBroker' = fromBroker \/ fromBroker' = Append(fromBroker, f),
         f.t = "ConvPrompt" => f.n = talks' /\ svc' = "asking",
         f.t = "Success" => svc' = "granted" /\ Granted',
         UNCHANGED <<pendingResponses, relay>>
  PROVE  WiresInv'
<1>1. CASE fromBroker' = fromBroker
  BY <1>1, ListenWires
<1>2. CASE fromBroker' = Append(fromBroker, f)
  <2> DEFINE q == fromBroker
  <2>1. /\ Len(q) \in Nat /\ Len(fromBroker') = Len(q) + 1
        /\ fromBroker'[Len(q) + 1] = f
        /\ \A i \in 1..Len(q) : fromBroker'[i] = q[i]
        /\ \A i \in 1..(Len(q) + 1) : i \in 1..Len(q) \/ i = Len(q) + 1
    BY <1>2, AppendFacts DEF BrokerTypes
  <2>2. ASSUME NEW i \in 1..Len(fromBroker')
        PROVE  /\ fromBroker'[i].t = "ConvPrompt" =>
                     i = Len(fromBroker') /\ fromBroker'[i].n = talks' /\ Listening("asking")'
               /\ fromBroker'[i].t = "Success" =>
                     i = Len(fromBroker') /\ Listening("granted")' /\ Granted'
    <3>1. CASE i \in 1..Len(q)
      <4>1. fromBroker'[i] = q[i]
        BY <2>1, <3>1
      <4> QED BY <3>1, <4>1 DEF NothingOwed
    <3>2. CASE i = Len(q) + 1
      <4>1. fromBroker'[i] = f /\ i = Len(fromBroker')
        BY <2>1, <3>2
      <4>2. /\ svc' = "asking" => Listening("asking")'
            /\ svc' = "granted" => Listening("granted")'
        BY DEF Listening
      <4> QED BY <4>1, <4>2
    <3> QED BY <2>1, <2>2, <3>1, <3>2
  <2>3. FramesInv'
    BY <2>2, Zenon DEF FramesInv
  <2>4. WireInv' /\ RelayInv' /\ ForwardInv'
    BY Zenon DEF NothingOwed, WireInv, RelayInv, ForwardInv
  <2> QED BY <2>3, <2>4 DEF WiresInv
<1> QED BY <1>1, <1>2

\* A step of the service keeps the invariant when it keeps the wires in order.
LEMMA ServiceKeeps ==
  ASSUME Inv, ServiceStep, UNCHANGED polite, ServiceTypeOK', BrokerTypes', WiresInv',
         Granted => Granted', talks' = talks \/ NothingOwed
  PROVE  Inv'
<1>1. TypeOK'
  BY TypeParts, SameTypes, Zenon DEF Inv, ServiceStep
<1>2. /\ UNCHANGED <<gstate, shown, awaitingPam, closed, readBuf, relay, ready>>
      /\ UNCHANGED <<pendingResponses, pendingChallenges, spawned, replies, sent, toGreetd>>
  BY DEF ServiceStep, greetdVars, relayVars, connVars, greeterVars
<1>3. MirrorAgrees' /\ OneReplyEach'
  BY <1>2 DEF Inv, MirrorAgrees, OneReplyEach
<1>4. GrantInv'
  BY <1>2, Zenon DEF Inv, GrantInv, SuccessIsGranted, Granted
<1>5. QueueInv'
  <2>1. CASE talks' = talks
    BY <1>2, <2>1, Zenon DEF Inv, QueueInv
  <2>2. CASE NothingOwed
    <3> SUFFICES ASSUME ~closed, relay = "Authing", ~awaitingPam
                 PROVE  QueueInv'
      BY <1>2, Zenon DEF Inv, QueueInv
    <3>1. /\ Len(pendingResponses) = Len(pendingChallenges) + 1
          /\ \A i \in 1..Len(pendingChallenges) : pendingChallenges[i].t = "Challenge"
      BY DEF Inv, QueueInv
    <3>2. Len(pendingChallenges) \in Nat
      BY TypeParts, LenProperties DEF Inv, RelayTypes
    <3>3. /\ 1 \in 1..Len(pendingResponses)
          /\ \A i \in 1..Len(pendingChallenges) : i + 1 \in 1..Len(pendingResponses)
      BY <3>1, <3>2
    <3>4. /\ pendingResponses[1] # "Forward"
          /\ \A i \in 1..Len(pendingChallenges) : pendingResponses[i + 1] # "Forward"
      BY <2>2, <3>3, Zenon DEF NothingOwed
    <3> QED BY <1>2, <3>1, <3>4, Zenon DEF QueueInv
  <2> QED BY <2>1, <2>2
<1> QED BY <1>1, <1>3, <1>4, <1>5 DEF Inv

\* The broker reads the frame it waits for.
LEMMA ServiceListensInv ==
  ASSUME Inv, ServiceListens, UNCHANGED polite
  PROVE  Inv'
<1>1. WiresInv /\ BrokerTypes /\ ServiceTypeOK /\ RelayTypes
  BY TypeParts, Zenon DEF Inv
<1>2. /\ toBroker # <<>> /\ toBroker' = Tail(toBroker)
      /\ UNCHANGED <<fromBroker, talks, told>> /\ ServiceStep
      /\ svc' = "working"
  BY Zenon DEF ServiceListens, Reads, Accept, Answered, Start
<1>3. toBroker' = <<>>
  <2>1. Len(toBroker) = 1
    BY <1>1, <1>2 DEF WiresInv, WireInv
  <2> QED BY <1>1, <1>2, <2>1, TailFacts DEF BrokerTypes
<1>4. NothingOwed
  BY <1>1, <1>2, Busy
<1>5. UNCHANGED <<pendingResponses, relay>>
  BY <1>2 DEF ServiceStep, relayVars
<1>6. WiresInv'
  BY <1>2, <1>3, <1>4, <1>5, ListenWires
<1>7. ServiceTypeOK' /\ BrokerTypes'
  BY <1>1, <1>2, <1>3 DEF ServiceTypeOK, BrokerTypes
<1>8. Granted => Granted'
  BY <1>2 DEF Granted
<1> QED BY <1>2, <1>4, <1>6, <1>7, <1>8, ServiceKeeps

\* What the service announces once stays announced.
LEMMA ToldGrows ==
  ASSUME ServiceTypeOK, NEW m \in Outcomes, told' = Append(told, m)
  PROVE  /\ told' \in Seq({"Success", "SessionOpened", "SessionEnded", "Failure",
                           "RootFd", "GreeterSpawned"})
         /\ Granted => Granted'
<1> DEFINE S == {"Success", "SessionOpened", "SessionEnded", "Failure", "RootFd",
                 "GreeterSpawned"}
<1>1. told \in Seq(S) /\ m \in S
  BY DEF ServiceTypeOK, Outcomes
<1> HIDE DEF S
<1>2. /\ told' \in Seq(S) /\ Len(told) \in Nat
      /\ \A i \in 1..Len(told) : told'[i] = told[i]
      /\ told' # <<>>
  BY <1>1, AppendFacts
<1>3. told # <<>> => 1 \in 1..Len(told)
  BY <1>1, TailFacts
<1>4. Granted => Granted'
  BY <1>2, <1>3 DEF Granted
<1> QED BY <1>2, <1>4 DEF S

\* The broker talks, or reports.
LEMMA ServiceSaysInv ==
  ASSUME Inv, ServiceTalks \/ ServiceReports, UNCHANGED polite
  PROVE  Inv'
<1>1. WiresInv /\ BrokerTypes /\ ServiceTypeOK
  BY TypeParts, Zenon DEF Inv
<1>2. svc = "working" /\ ServiceStep
  BY Zenon DEF ServiceTalks, ServiceReports, Grant, Open, Finish
<1>3. toBroker = <<>> /\ NothingOwed
  BY <1>1, <1>2, Busy
<1>4. PICK f \in FromBroker :
         /\ fromBroker' = fromBroker \/ fromBroker' = Append(fromBroker, f)
         /\ toBroker' = toBroker
         /\ talks' \in 0..MaxTalks
         /\ f.t = "ConvPrompt" => f.n = talks' /\ svc' = "asking"
         /\ f.t = "Success" => svc' = "granted" /\ Granted'
         /\ ServiceTypeOK' /\ (Granted => Granted')
  <2> DEFINE Said(f) ==
         /\ fromBroker' = fromBroker \/ fromBroker' = Append(fromBroker, f)
         /\ toBroker' = toBroker
         /\ talks' \in 0..MaxTalks
         /\ f.t = "ConvPrompt" => f.n = talks' /\ svc' = "asking"
         /\ f.t = "Success" => svc' = "granted" /\ Granted'
         /\ ServiceTypeOK' /\ (Granted => Granted')
  <2> SUFFICES \E f \in FromBroker : Said(f)
    BY Zenon
  <2>1. ASSUME NEW k, NEW n, Says(k, n)
        PROVE  /\ fromBroker' = fromBroker \/ fromBroker' = Append(fromBroker, Frame(k, n))
               /\ toBroker' = toBroker
    BY <2>1 DEF Says
  <2>2. \A k \in PamTalks \cup Outcomes : \A n \in Nat :
           Frame(k, n) \in FromBroker /\ Frame(k, n).t = k /\ Frame(k, n).n = n
    BY DEF FromBroker, Numbered, Frame
  <2>3. CASE ServiceTalks
    <3>1. talks' = talks + 1 /\ talks' \in 0..MaxTalks /\ talks' \in Nat
      BY <1>1, <2>3 DEF ServiceTalks, BrokerTypes
    <3>2. PICK k \in PamTalks : /\ Says(k, talks') /\ told' = told
                                /\ k = "ConvPrompt" => svc' = "asking"
                                /\ svc' \in {"asking", svc}
      BY <2>3, Zenon DEF ServiceTalks, Ask, serviceVars
    <3>3. ServiceTypeOK' /\ (Granted => Granted')
      BY <1>1, <3>2 DEF ServiceTypeOK, Granted
    <3>4. k # "Success"
      BY DEF EpisodeAssumption
    <3>5. Frame(k, talks') \in FromBroker /\ Said(Frame(k, talks'))
      BY <2>1, <2>2, <3>1, <3>2, <3>3, <3>4
    <3> HIDE DEF Said
    <3> QED BY <3>5, Zenon
  <2>4. CASE ServiceReports
    <3>1. PICK k \in Outcomes :
             /\ Says(k, 0) /\ talks' = talks /\ svc' \in {svc, "granted", "over"}
             /\ told' = IF k = "Success" THEN <<"Success">> ELSE Append(told, k)
             /\ k = "Success" => svc' = "granted" /\ told = <<>>
      BY <2>4, Zenon DEF ServiceReports, Grant, Open, Finish, Outcomes
    <3>2. CASE k = "Success"
      <4>1. told' = <<"Success">> /\ told = <<>> /\ svc' = "granted"
        BY <3>1, <3>2
      <4>2. Granted'
        BY <4>1 DEF Granted
      <4>3. ServiceTypeOK'
        BY <4>1 DEF ServiceTypeOK
      <4>4. talks' \in 0..MaxTalks
        BY <1>1, <3>1 DEF BrokerTypes
      <4>5. Frame(k, 0) \in FromBroker /\ Said(Frame(k, 0))
        BY <2>1, <2>2, <3>1, <3>2, <4>1, <4>2, <4>3, <4>4
      <4> HIDE DEF Said
      <4> QED BY <4>5, Zenon
    <3>3. CASE k # "Success"
      <4>1. told' = Append(told, k)
        BY <3>1, <3>3
      <4>2. ServiceTypeOK' /\ (Granted => Granted')
        BY <1>1, <3>1, <4>1, ToldGrows DEF ServiceTypeOK
      <4>3. talks' \in 0..MaxTalks /\ k # "ConvPrompt"
        BY <1>1, <3>1 DEF BrokerTypes, Outcomes
      <4>4. Frame(k, 0) \in FromBroker /\ Said(Frame(k, 0))
        BY <2>1, <2>2, <3>1, <3>3, <4>2, <4>3, Zenon
      <4> HIDE DEF Said
      <4> QED BY <4>4, Zenon
    <3> HIDE DEF Said
    <3> QED BY <3>2, <3>3
  <2> HIDE DEF Said
  <2> QED BY <2>3, <2>4
<1>5. UNCHANGED <<pendingResponses, relay>>
  BY <1>2 DEF ServiceStep, relayVars
<1>6. WiresInv'
  BY <1>1, <1>3, <1>4, <1>5, SayWires
<1>7. BrokerTypes'
  BY <1>1, <1>4, AppendFacts DEF BrokerTypes
<1> QED BY <1>2, <1>3, <1>4, <1>6, <1>7, ServiceKeeps

\* The broker closes the connection.
LEMMA ServiceClosesInv ==
  ASSUME Inv, ServiceCloses, UNCHANGED polite
  PROVE  Inv'
<1>1. WiresInv /\ BrokerTypes /\ ServiceTypeOK
  BY TypeParts, Zenon DEF Inv
<1>2. /\ svc' = "over" /\ UNCHANGED <<told, talks>> /\ ServiceStep
      /\ toBroker' = <<>>
      /\ fromBroker' = IF toBroker = <<>> THEN fromBroker ELSE <<>>
  BY Zenon DEF ServiceCloses, Close
<1>3. UNCHANGED <<pendingResponses, pendingChallenges, relay>>
  BY <1>2 DEF ServiceStep, relayVars
<1>4. WiresInv'
  <2>1. CASE toBroker # <<>>
    <3>1. fromBroker' = <<>> /\ Len(<<>>) = 0
      BY <1>2, <2>1
    <3>2. NothingOwed
      BY <1>1, <2>1, Busy
    <3>3. FramesInv'
      BY <3>1 DEF FramesInv
    <3> QED BY <1>2, <1>3, <3>2, <3>3, Zenon DEF NothingOwed, WiresInv, WireInv, RelayInv,
               ForwardInv
  <2>2. CASE toBroker = <<>>
    <3>1. fromBroker' = fromBroker
      BY <1>2, <2>2
    <3>2. \A s \in {"waiting", "asking", "granted"} : Listening(s) => Listening(s)'
      BY <1>2 DEF Listening
    <3>3. Granted => Granted'
      BY <1>2 DEF Granted
    <3> QED BY <1>1, <1>2, <1>3, <3>1, <3>2, <3>3, Zenon DEF WiresInv, WireInv, RelayInv,
               FramesInv, ForwardInv
  <2> QED BY <2>1, <2>2
<1>5. ServiceTypeOK' /\ BrokerTypes'
  BY <1>1, <1>2 DEF ServiceTypeOK, BrokerTypes
<1>6. Granted => Granted'
  BY <1>2 DEF Granted
<1> QED BY <1>2, <1>4, <1>5, <1>6, ServiceKeeps

----------------------------------------------------------------------------
(* The greeter, and the handlers of its socket.                            *)

\* What says nothing to the broker, nor to the machine, keeps what the two of
\* them have agreed on.
LEMMA QuietKeeps ==
  ASSUME Inv, UNCHANGED <<serviceVars, toBroker, fromBroker, talks>>, UNCHANGED relayVars,
         UNCHANGED <<gstate, shown, awaitingPam, spawned>>,
         closed' = closed \/ closed' = TRUE
  PROVE  WiresInv' /\ MirrorAgrees' /\ QueueInv' /\ GrantInv'
<1>1. /\ UNCHANGED <<svc, told, toBroker, fromBroker, talks, relay, ready>>
      /\ UNCHANGED <<pendingResponses, pendingChallenges>>
  BY DEF serviceVars, relayVars
<1>2. WiresInv'
  BY <1>1, Zenon DEF Inv, WiresInv, WireInv, RelayInv, FramesInv, ForwardInv, Listening, Granted
<1>3. GrantInv'
  BY <1>1, Zenon DEF Inv, GrantInv, SuccessIsGranted, Granted
<1>4. MirrorAgrees' /\ QueueInv'
  BY <1>1, Zenon DEF Inv, MirrorAgrees, QueueInv
<1> QED BY <1>2, <1>3, <1>4

\* The greeter asks, reads a reply, or goes.
LEMMA GreeterInv ==
  ASSUME Inv, GreeterAsks \/ GreeterLearns \/ GreeterGoes, UNCHANGED polite
  PROVE  Inv'
<1>1. /\ UNCHANGED greetdVars /\ UNCHANGED relayVars /\ UNCHANGED connVars
      /\ UNCHANGED <<serviceVars, toBroker, fromBroker, talks>>
      /\ UNCHANGED <<readBuf, writeBuf, replies>>
  BY Zenon DEF GreeterAsks, GreeterLearns, GreeterGoes, brokerVars
<1>2. GreeterTypes /\ readBuf \in Seq(Requests) /\ ReplyTypes
  BY TypeParts, Zenon DEF Inv
<1>3. WiresInv' /\ MirrorAgrees' /\ QueueInv' /\ GrantInv'
  <2>1. UNCHANGED <<gstate, shown, awaitingPam, spawned>> /\ closed' = closed
    BY <1>1 DEF greetdVars, connVars
  <2> QED BY <1>1, <2>1, QuietKeeps
<1>4. GreeterTypes' /\ sent' - Len(toGreetd') = sent - Len(toGreetd)
  <2>1. Len(toGreetd) \in Nat /\ sent \in Nat
    BY <1>2, LenProperties DEF GreeterTypes
  <2>2. CASE GreeterAsks
    <3>1. PICK r \in Requests : /\ toGreetd' = Append(toGreetd, r)
                                /\ asked' = IF polite THEN r ELSE asked
      BY <2>2, Zenon DEF GreeterAsks
    <3>2. /\ sent < MaxRequests /\ sent' = sent + 1 /\ toGreeter' = toGreeter
          /\ view' = IF polite THEN "waiting" ELSE view
      BY <2>2, Zenon DEF GreeterAsks
    <3>3. toGreetd' \in Seq(Requests) /\ Len(toGreetd') = Len(toGreetd) + 1
      BY <1>2, <3>1, AppendFacts DEF GreeterTypes
    <3>4. sent' \in 0..MaxRequests
      BY <1>2, <3>2 DEF GreeterTypes
    <3>5. view' \in Views /\ asked' \in Requests \cup {"nothing"}
      BY <1>2, <3>1, <3>2 DEF GreeterTypes, Views
    <3>6. sent' - Len(toGreetd') = sent - Len(toGreetd)
      BY <2>1, <3>2, <3>3
    <3> QED BY <1>2, <3>2, <3>3, <3>4, <3>5, <3>6 DEF GreeterTypes
  <2>3. CASE GreeterLearns
    <3>1. /\ toGreeter # <<>> /\ toGreeter' = Tail(toGreeter)
          /\ view' \in {"prompted", "started", "idle", "authed"}
          /\ UNCHANGED <<asked, sent, toGreetd>>
      BY <2>3 DEF GreeterLearns
    <3>2. toGreeter' \in Seq(ReplyKinds)
      BY <1>2, <3>1, TailFacts DEF GreeterTypes
    <3> QED BY <1>2, <3>1, <3>2 DEF GreeterTypes, Views
  <2>4. CASE GreeterGoes
    <3>1. view' = "gone" /\ UNCHANGED <<asked, sent, toGreetd, toGreeter>>
      BY <2>4, Zenon DEF GreeterGoes
    <3> QED BY <1>2, <3>1 DEF GreeterTypes, Views
  <2> QED BY <2>2, <2>3, <2>4
<1>5. OneReplyEach'
  <2>1. UNCHANGED <<closed, awaitingPam, replies, readBuf>>
    BY <1>1 DEF greetdVars
  <2> QED BY <1>4, <2>1 DEF Inv, OneReplyEach
<1>6. TypeOK'
  BY <1>1, <1>2, <1>4, TypeParts, SameTypes, Zenon DEF Inv
<1> QED BY <1>3, <1>5, <1>6 DEF Inv

\* The handler reads requests.
LEMMA ReadGreeterInv ==
  ASSUME Inv, ReadGreeter, UNCHANGED polite
  PROVE  Inv'
<1>1. /\ GreetdTypes /\ ConnTypes /\ GreeterTypes /\ ReplyTypes
      /\ readBuf \in Seq(Requests)
  BY TypeParts, Zenon DEF Inv
<1>2. /\ closed' = (closed \/ awaitingPam) /\ terminate' = closed'
      /\ UNCHANGED <<gstate, shown, awaitingPam, conn, spawned, view, asked, sent, toGreeter>>
      /\ UNCHANGED relayVars
      /\ UNCHANGED <<serviceVars, toBroker, fromBroker, talks>>
  BY Zenon DEF ReadGreeter, brokerVars
<1> DEFINE rs == IF awaitingPam /\ ~closed THEN <<"Error">> ELSE <<>>
<1>3. ReplyTypes' /\ replies' = replies + Len(rs)
  <2>1. rs \in Seq(ReplyKinds)
    BY DEF ReplyKinds
  <2>2. Reply(rs)
    BY Zenon DEF ReadGreeter
  <2> HIDE DEF rs
  <2> QED BY <1>1, <2>1, <2>2, ReplyEffect
<1>4. PICK k \in 1..Len(toGreetd) :
         /\ toGreetd' = SubSeq(toGreetd, k + 1, Len(toGreetd))
         /\ readBuf' = IF closed \/ awaitingPam THEN readBuf
                       ELSE readBuf \o SubSeq(toGreetd, 1, k)
  BY Zenon DEF ReadGreeter
<1>5. /\ Len(toGreetd) \in Nat /\ Len(readBuf) \in Nat /\ k \in Int /\ k + 1 \in Int
      /\ \A i \in 1..Len(toGreetd) : toGreetd[i] \in Requests
  BY <1>1, <1>4, LenProperties, ElementOfSeq DEF GreeterTypes
<1>6. /\ toGreetd' \in Seq(Requests) /\ Len(toGreetd') = Len(toGreetd) - k
  <2>1. \A i \in (k + 1)..Len(toGreetd) : toGreetd[i] \in Requests
    BY <1>4, <1>5
  <2>2. /\ toGreetd' \in Seq(Requests)
        /\ Len(toGreetd') = IF k + 1 <= Len(toGreetd) THEN Len(toGreetd) - (k + 1) + 1 ELSE 0
    BY <1>4, <1>5, <2>1, SubSeqProperties
  <2> QED BY <1>4, <1>5, <2>2
<1>7. /\ SubSeq(toGreetd, 1, k) \in Seq(Requests) /\ Len(SubSeq(toGreetd, 1, k)) = k
  <2>1. \A i \in 1..k : toGreetd[i] \in Requests
    BY <1>4, <1>5
  <2>2. /\ SubSeq(toGreetd, 1, k) \in Seq(Requests)
        /\ Len(SubSeq(toGreetd, 1, k)) = IF 1 <= k THEN k - 1 + 1 ELSE 0
    BY <1>4, <1>5, <2>1, SubSeqProperties
  <2> QED BY <1>4, <1>5, <2>2
<1>8. /\ readBuf' \in Seq(Requests)
      /\ ~closed /\ ~awaitingPam => Len(readBuf') = Len(readBuf) + k
  BY <1>1, <1>4, <1>7, ConcatProperties
<1>9. TypeOK'
  <2>1. GreetdTypes' /\ ConnTypes' /\ GreeterTypes'
    BY <1>1, <1>2, <1>6 DEF GreetdTypes, ConnTypes, GreeterTypes
  <2> QED BY <1>2, <1>3, <1>8, <2>1, TypeParts, SameTypes, Zenon DEF Inv
<1>10. OneReplyEach'
  <2> SUFFICES ASSUME ~closed'
               PROVE  replies' + (IF awaitingPam' THEN 1 ELSE 0)
                         = sent' - Len(toGreetd') - Len(readBuf')
    BY DEF OneReplyEach
  <2>1. ~closed /\ ~awaitingPam
    BY <1>2, Zenon
  <2>2. replies' = replies + 0
    BY <1>3, <2>1
  <2>3. replies = sent - Len(toGreetd) - Len(readBuf) /\ sent \in Nat /\ replies \in Nat
    BY <1>1, <2>1 DEF Inv, OneReplyEach, GreeterTypes, ReplyTypes
  <2>4. ~awaitingPam' /\ sent' = sent /\ Len(readBuf') = Len(readBuf) + k
    BY <1>2, <1>8, <2>1
  <2> HIDE DEF rs
  <2>5. replies' = sent' - Len(toGreetd') - Len(readBuf')
    BY <1>5, <1>6, <2>2, <2>3, <2>4
  <2>6. sent' - Len(toGreetd') - Len(readBuf') \in Int
    BY <1>5, <1>6, <2>3, <2>4
  <2> QED BY <2>4, <2>5, <2>6
<1>11. WiresInv' /\ MirrorAgrees' /\ QueueInv' /\ GrantInv'
  <2>1. closed' = closed \/ closed' = TRUE
    BY <1>1, <1>2, Zenon DEF GreetdTypes
  <2> QED BY <1>2, <2>1, QuietKeeps, Zenon
<1> QED BY <1>9, <1>10, <1>11 DEF Inv

\* The handler sees the greeter go, flushes the replies, or drops the connection.
LEMMA ConnInv ==
  ASSUME Inv, ReadGreeterEof \/ FlushGreeter \/ DropConn, UNCHANGED polite
  PROVE  Inv'
<1>1. /\ UNCHANGED greetdVars /\ UNCHANGED relayVars
      /\ UNCHANGED <<serviceVars, toBroker, fromBroker, talks>>
      /\ UNCHANGED <<readBuf, replies, spawned, view, asked, sent, toGreetd>>
  BY Zenon DEF ReadGreeterEof, FlushGreeter, DropConn, brokerVars, greeterVars
<1>2. ConnTypes /\ GreeterTypes /\ ReplyTypes
  BY TypeParts, Zenon DEF Inv
<1>3. ConnTypes' /\ GreeterTypes' /\ ReplyTypes'
  <2>1. CASE ReadGreeterEof
    <3>1. terminate' = TRUE /\ UNCHANGED <<conn, writeBuf, toGreeter>>
      BY <2>1, Zenon DEF ReadGreeterEof, greeterVars
    <3> QED BY <1>1, <1>2, <3>1 DEF ConnTypes, GreeterTypes, ReplyTypes
  <2>2. CASE FlushGreeter
    <3>1. /\ writeBuf' = <<>>
          /\ terminate' = (terminate \/ (view = "gone" /\ writeBuf # <<>> /\ ~spawned))
          /\ conn' \in {"gone", "detached", conn}
      BY <2>2 DEF FlushGreeter
    <3>2. toGreeter' = toGreeter \o writeBuf \/ toGreeter' = toGreeter
      BY <2>2 DEF FlushGreeter
    <3>3. toGreeter' \in Seq(ReplyKinds)
      <4>1. toGreeter \in Seq(ReplyKinds) /\ writeBuf \in Seq(ReplyKinds)
        BY <1>2 DEF GreeterTypes, ReplyTypes
      <4>2. toGreeter \o writeBuf \in Seq(ReplyKinds)
        BY <4>1, ConcatProperties
      <4> QED BY <3>2, <4>1, <4>2, Zenon
    <3>4. ConnTypes'
      BY <1>1, <1>2, <3>1 DEF ConnTypes
    <3>5. GreeterTypes'
      BY <1>1, <1>2, <3>3 DEF GreeterTypes
    <3>6. ReplyTypes'
      BY <1>1, <1>2, <3>1 DEF ReplyTypes
    <3> QED BY <3>4, <3>5, <3>6
  <2>3. CASE DropConn
    <3>1. conn' = "gone" /\ UNCHANGED <<terminate, writeBuf, toGreeter>>
      BY <2>3, Zenon DEF DropConn, greeterVars
    <3> QED BY <1>1, <1>2, <3>1 DEF ConnTypes, GreeterTypes, ReplyTypes
  <2> QED BY <2>1, <2>2, <2>3
<1>4. TypeOK'
  BY <1>1, <1>3, TypeParts, SameTypes, Zenon DEF Inv
<1>5. UNCHANGED <<gstate, shown, awaitingPam, spawned>> /\ closed' = closed
  BY <1>1 DEF greetdVars
<1>6. WiresInv' /\ MirrorAgrees' /\ QueueInv' /\ GrantInv'
  BY <1>1, <1>5, QuietKeeps
<1>7. OneReplyEach'
  BY <1>1, <1>5 DEF Inv, OneReplyEach
<1> QED BY <1>4, <1>6, <1>7 DEF Inv

----------------------------------------------------------------------------
(* Connection::drive.                                                      *)

\* What a request finds, and what it leaves alone.
Handling ==
    /\ readBuf # <<>> /\ ~awaitingPam /\ ~closed
    /\ readBuf' = Tail(readBuf)
    /\ UNCHANGED conn /\ UNCHANGED greeterVars /\ UNCHANGED serviceVars
    /\ UNCHANGED <<fromBroker, talks, polite>>

LEMMA HandlesFacts ==
  ASSUME NEW r, Handles(r), UNCHANGED polite
  PROVE  Handling
  BY Zenon DEF Handles, Settled, Handling

\* Taking a request owes one more reply.
LEMMA HandlingFacts ==
  ASSUME Inv, Handling
  PROVE  /\ GreetdTypes /\ RelayTypes /\ ConnTypes /\ ReplyTypes /\ BrokerTypes
         /\ ServiceTypeOK' /\ GreeterTypes' /\ readBuf' \in Seq(Requests)
         /\ polite' \in Manners
         /\ ~ready /\ gstate # "AuthPending"
         /\ UNCHANGED <<svc, told, sent, toGreetd>>
         /\ replies + 1 = sent' - Len(toGreetd') - Len(readBuf') /\ replies \in Nat
<1>1. /\ GreetdTypes /\ RelayTypes /\ ConnTypes /\ ReplyTypes /\ BrokerTypes
      /\ ServiceTypeOK /\ GreeterTypes /\ readBuf \in Seq(Requests) /\ polite \in Manners
  BY TypeParts, Zenon DEF Inv
<1>2. ServiceTypeOK' /\ GreeterTypes'
  BY <1>1, SameTypes, Zenon DEF Handling
<1>3. readBuf' \in Seq(Requests) /\ Len(readBuf') = Len(readBuf) - 1 /\ Len(readBuf) \in Nat
  BY <1>1, TailFacts DEF Handling
<1>4. ~ready /\ gstate # "AuthPending"
  BY DEF Inv, MirrorAgrees, Handling
<1>5. UNCHANGED <<svc, told, sent, toGreetd>> /\ polite' = polite
  BY DEF Handling, serviceVars, greeterVars
<1>6. replies = sent - Len(toGreetd) - Len(readBuf) /\ replies \in Nat
  BY <1>1 DEF Inv, OneReplyEach, Handling, ReplyTypes
<1>7. sent \in Nat /\ Len(toGreetd) \in Nat
  BY <1>1, LenProperties DEF GreeterTypes
<1>8. replies + 1 = sent' - Len(toGreetd') - Len(readBuf')
  BY <1>3, <1>5, <1>6, <1>7
<1> QED BY <1>1, <1>2, <1>3, <1>4, <1>5, <1>6, <1>8

\* A request that closes the machine has nothing more to keep in step.
LEMMA ClosingKeeps ==
  ASSUME Inv, Handling, GreetdTypes', RelayTypes', ReplyTypes', toBroker' \in Seq(ToBroker),
         spawned' \in BOOLEAN, terminate' \in BOOLEAN, closed' = TRUE,
         WiresInv', GrantInv'
  PROVE  Inv'
<1>1. /\ ConnTypes /\ BrokerTypes /\ ServiceTypeOK' /\ GreeterTypes'
      /\ readBuf' \in Seq(Requests) /\ polite' \in Manners
  BY HandlingFacts
<1>2. ConnTypes' /\ BrokerTypes'
  BY <1>1 DEF ConnTypes, BrokerTypes, Handling
<1>3. TypeOK'
  BY <1>1, <1>2, TypeParts, Zenon
<1>4. MirrorAgrees' /\ QueueInv' /\ OneReplyEach'
  BY DEF MirrorAgrees, QueueInv, OneReplyEach
<1> QED BY <1>3, <1>4 DEF Inv

\* fail_closed on the way.
LEMMA FailingKeeps ==
  ASSUME Inv, Handling, NEW rs \in Seq(ReplyKinds), NEW s \in GState,
         NEW isClosed \in BOOLEAN, FailClosed(rs, s, isClosed),
         s = "Spawning" => Granted, s # "AuthSuccess",
         ready' \in BOOLEAN, UNCHANGED <<toBroker, pendingChallenges>>,
         pendingResponses' = pendingResponses \/ pendingResponses' = <<>>
  PROVE  Inv'
<1>1. /\ GreetdTypes /\ RelayTypes /\ ConnTypes /\ ReplyTypes /\ BrokerTypes
      /\ UNCHANGED <<svc, told>>
  BY HandlingFacts
<1>2. /\ GreetdTypes' /\ ReplyTypes' /\ closed' = TRUE /\ terminate' = TRUE
      /\ spawned' = spawned /\ gstate' \in {s, "Idle"}
      /\ relay' = IF relay = "none" THEN "none" ELSE "Done"
  BY <1>1, FailEffect, Zenon
<1>3. RelayTypes'
  <2>1. relay' \in Phase
    BY <1>2 DEF Phase
  <2>2. pendingResponses' \in Seq({"Swallow", "Forward"})
    <3>1. pendingResponses \in Seq({"Swallow", "Forward"}) /\ <<>> \in Seq({"Swallow", "Forward"})
      BY <1>1 DEF RelayTypes
    <3> QED BY <3>1, Zenon
  <2>3. pendingChallenges' \in Seq(Step)
    BY <1>1 DEF RelayTypes
  <2> QED BY <2>1, <2>2, <2>3 DEF RelayTypes
<1>4. WiresInv'
  <2>1. UNCHANGED <<svc, told, toBroker, fromBroker, talks>>
    BY <1>1 DEF Handling
  <2>2. WireInv' /\ FramesInv'
    BY <2>1, Zenon DEF Inv, WiresInv, WireInv, FramesInv, Listening, Granted
  <2>3. RelayInv'
    <3>1. relay' # "Authed" /\ (relay' = "none" => relay = "none")
      BY <1>2
    <3> QED BY <2>1, <3>1, Zenon DEF Inv, WiresInv, RelayInv, Listening
  <2>4. ForwardInv'
    <3>1. CASE pendingResponses' = pendingResponses
      BY <2>1, <3>1, Zenon DEF Inv, WiresInv, ForwardInv, Listening
    <3>2. CASE pendingResponses' = <<>>
      BY <3>2 DEF ForwardInv
    <3> QED BY <3>1, <3>2
  <2> QED BY <2>2, <2>3, <2>4 DEF WiresInv
<1>5. GrantInv'
  <2>1. Granted' <=> Granted
    BY <1>1 DEF Granted
  <2>2. gstate' \in {"AuthSuccess", "Spawning"} => Granted
    BY <1>2
  <2>3. SuccessIsGranted'
    BY <1>2, <2>1, <2>2 DEF Inv, GrantInv, SuccessIsGranted, Granted
  <2> QED BY <2>1, <2>3, Zenon DEF Inv, GrantInv
<1>6. toBroker' \in Seq(ToBroker) /\ spawned' \in BOOLEAN /\ terminate' \in BOOLEAN
  BY <1>1, <1>2 DEF BrokerTypes, ConnTypes
<1> QED BY <1>2, <1>3, <1>4, <1>5, <1>6, ClosingKeeps

\* A response is swallowed: the next challenge is shown, or waited for.
LEMMA SwallowKeeps ==
  ASSUME Inv, Handling, relay = "Authing", pendingResponses # <<>>,
         pendingResponses' = Tail(pendingResponses), FlushChallenge,
         UNCHANGED <<relay, toBroker>>
  PROVE  Inv'
<1> DEFINE R == pendingResponses
           C == pendingChallenges
<1>1. /\ GreetdTypes /\ RelayTypes /\ ConnTypes /\ ReplyTypes /\ BrokerTypes
      /\ ServiceTypeOK' /\ GreeterTypes' /\ readBuf' \in Seq(Requests) /\ polite' \in Manners
      /\ UNCHANGED <<svc, told, fromBroker, talks, conn>>
      /\ replies + 1 = sent' - Len(toGreetd') - Len(readBuf') /\ replies \in Nat
      /\ WiresInv /\ QueueInv
  BY HandlingFacts DEF Inv, Handling
<1>2. /\ R' \in Seq({"Swallow", "Forward"}) /\ Len(R') = Len(R) - 1
      /\ \A i \in 1..Len(R') : i + 1 \in 1..Len(R) /\ R'[i] = R[i + 1]
      /\ Len(R) = 1 => R' = <<>>
      /\ Len(R) \in Nat /\ Len(R) >= 1
  BY <1>1, TailFacts DEF RelayTypes
<1>3. /\ Len(R) = Len(C) + 1
      /\ \A i \in 1..Len(C) : C[i].t = "Challenge" /\ (R[i + 1] = "Forward" => C[i].n = talks)
  BY <1>1 DEF QueueInv, Handling
<1>4. WiresInv'
  <2>1. WireInv' /\ RelayInv' /\ FramesInv'
    BY <1>1, Zenon DEF WiresInv, WireInv, RelayInv, FramesInv, Listening, Granted
  <2>2. ASSUME NEW i \in 1..Len(R'), R'[i] = "Forward"
        PROVE  i = Len(R') /\ fromBroker' = <<>> /\ Listening("asking")'
    <3>1. i + 1 \in 1..Len(R) /\ R[i + 1] = "Forward"
      BY <1>2, <2>2
    <3>2. i + 1 = Len(R) /\ fromBroker = <<>> /\ Listening("asking")
      BY <1>1, <3>1 DEF WiresInv, ForwardInv
    <3>3. i = Len(R')
      <4>1. i \in Int /\ Len(R') = Len(R) - 1 /\ Len(R) \in Nat
        BY <1>2
      <4> QED BY <3>2, <4>1
    <3> QED BY <1>1, <3>2, <3>3 DEF Listening
  <2>3. ForwardInv'
    BY <2>2, Zenon DEF ForwardInv
  <2> QED BY <2>1, <2>3 DEF WiresInv
<1>5. CASE C = <<>>
  <2>1. /\ gstate' = "AuthPending" /\ awaitingPam' = TRUE /\ ready' = TRUE
        /\ UNCHANGED <<shown, closed, terminate, spawned, writeBuf, replies, C>>
    BY <1>5, Zenon DEF FlushChallenge, Suspend
  <2>2. R' = <<>>
    BY <1>2, <1>3, <1>5
  <2>3. TypeOK'
    <3>1. GreetdTypes'
      BY <1>1, <2>1 DEF GreetdTypes, GState
    <3>2. RelayTypes'
      BY <1>1, <1>2, <2>1 DEF RelayTypes
    <3>3. ConnTypes' /\ ReplyTypes' /\ BrokerTypes'
      BY <1>1, <2>1 DEF ConnTypes, ReplyTypes, BrokerTypes
    <3> QED BY <1>1, <3>1, <3>2, <3>3, TypeParts, Zenon
  <2>4. MirrorAgrees' /\ QueueInv'
    BY <1>5, <2>1, <2>2 DEF MirrorAgrees, QueueInv
  <2>5. GrantInv'
    <3>1. spawned => Granted
      BY DEF Inv, GrantInv, SuccessIsGranted, Granted
    <3>2. C' = <<>>
      BY <1>5, <2>1
    <3> QED BY <1>1, <2>1, <3>1, <3>2 DEF GrantInv, SuccessIsGranted, Granted
  <2>6. OneReplyEach'
    BY <1>1, <2>1 DEF OneReplyEach
  <2> QED BY <1>4, <2>3, <2>4, <2>5, <2>6 DEF Inv
<1>6. CASE C # <<>>
  <2>1. ResumePam(Head(C), "AuthPending", TRUE) /\ C' = Tail(C)
    BY <1>6, Zenon DEF FlushChallenge
  <2>2. /\ Head(C) = C[1] /\ C[1] \in Step /\ Len(C) \in Nat /\ Len(C) >= 1
        /\ C' \in Seq(Step) /\ Len(C') = Len(C) - 1
        /\ \A i \in 1..Len(C') : i + 1 \in 1..Len(C) /\ C'[i] = C[i + 1]
    BY <1>1, <1>6, <2>1, TailFacts DEF RelayTypes
  <2>3. C[1].t = "Challenge" /\ (R[1 + 1] = "Forward" => C[1].n = talks)
    <3>1. 1 \in 1..Len(C)
      BY <2>2
    <3> QED BY <1>3, <3>1, Zenon
  <2>4. ~closed /\ "AuthPending" \in GState
    BY DEF Handling, GState
  <2>5. /\ GreetdTypes' /\ ReplyTypes' /\ spawned' = spawned /\ ready' = FALSE
        /\ terminate' \in BOOLEAN /\ closed' = FALSE /\ awaitingPam' = FALSE
        /\ replies' = replies + 1 /\ gstate' = "Authenticating" /\ shown' = C[1].n
    <3> HIDE DEF C
    <3> QED BY <1>1, <2>1, <2>2, <2>3, <2>4, ResumeEffect, Zenon
  <2>6. TypeOK'
    <3>1. RelayTypes'
      BY <1>1, <1>2, <2>2, <2>5, Zenon DEF RelayTypes
    <3>2. ConnTypes' /\ BrokerTypes'
      BY <1>1, <2>5 DEF ConnTypes, BrokerTypes
    <3> QED BY <1>1, <2>5, <3>1, <3>2, TypeParts, Zenon
  <2>7. MirrorAgrees'
    BY <2>5, Zenon DEF MirrorAgrees
  <2>8. QueueInv'
    <3>1. Len(R') = Len(C') + 1
      BY <1>2, <1>3, <2>2
    <3>2. R'[1] = "Forward" => shown' = talks'
      <4>1. 1 \in 1..Len(R')
        BY <2>2, <3>1
      <4>2. R'[1] = R[1 + 1]
        BY <1>2, <4>1, Zenon
      <4> QED BY <1>1, <2>3, <2>5, <4>2, Zenon
    <3>3. ASSUME NEW i \in 1..Len(C')
          PROVE  C'[i].t = "Challenge" /\ (R'[i + 1] = "Forward" => C'[i].n = talks')
      <4>1. i + 1 \in 1..Len(C) /\ C'[i] = C[i + 1]
        BY <2>2, Zenon
      <4>2. i + 1 \in 1..Len(R')
        BY <2>2, <3>1, <3>3
      <4>3. R'[i + 1] = R[(i + 1) + 1]
        BY <1>2, <4>2, Zenon
      <4>4. C[i + 1].t = "Challenge" /\ (R[(i + 1) + 1] = "Forward" => C[i + 1].n = talks)
        BY <1>3, <4>1, Zenon
      <4> QED BY <1>1, <4>1, <4>3, <4>4, Zenon
    <3> QED BY <2>5, <3>1, <3>2, <3>3, Zenon DEF QueueInv
  <2>9. GrantInv'
    <3>1. spawned => Granted
      BY DEF Inv, GrantInv, SuccessIsGranted, Granted
    <3>2. \A i \in 1..Len(C') : C'[i].t = "Challenge"
      BY <1>3, <2>2
    <3> QED BY <1>1, <2>5, <3>1, <3>2 DEF GrantInv, SuccessIsGranted, Granted
  <2>10. OneReplyEach'
    BY <1>1, <2>5 DEF OneReplyEach
  <2> QED BY <1>4, <2>6, <2>7, <2>8, <2>9, <2>10 DEF Inv
<1> QED BY <1>5, <1>6

\* A frame goes to a broker that waits for it, and the machine suspends.
LEMMA SendingKeeps ==
  ASSUME Inv, Handling, NEW f \in ToBroker, NEW s,
         svc = s, toBroker = <<>>, fromBroker = <<>>,
         \/ s = "waiting" /\ f.t = "BeginAuth"
         \/ s = "asking" /\ f.t = "ConvResponse" /\ f.n \in {0, talks},
         toBroker' = Append(toBroker, f), relay' = "Authing",
         gstate' = "AuthPending", awaitingPam' = TRUE, ready' = TRUE,
         UNCHANGED <<shown, closed, terminate, spawned, writeBuf, replies>>,
         pendingResponses' = <<>>, pendingChallenges' = <<>>
  PROVE  Inv'
<1>1. /\ GreetdTypes /\ ConnTypes /\ ReplyTypes /\ BrokerTypes
      /\ ServiceTypeOK' /\ GreeterTypes' /\ readBuf' \in Seq(Requests) /\ polite' \in Manners
      /\ UNCHANGED <<svc, told, fromBroker, talks, conn>>
      /\ replies + 1 = sent' - Len(toGreetd') - Len(readBuf')
  BY HandlingFacts DEF Handling
<1>2. toBroker' \in Seq(ToBroker) /\ Len(toBroker') = 1 /\ toBroker'[1] = f
  BY <1>1, AppendFacts DEF BrokerTypes
<1>3. TypeOK'
  <2>1. GreetdTypes'
    BY <1>1 DEF GreetdTypes, GState
  <2>2. RelayTypes'
    BY DEF RelayTypes, Phase
  <2>3. ConnTypes' /\ ReplyTypes' /\ BrokerTypes'
    BY <1>1, <1>2 DEF ConnTypes, ReplyTypes, BrokerTypes
  <2> QED BY <1>1, <2>1, <2>2, <2>3, TypeParts, Zenon
<1>4. WiresInv'
  <2>1. WireInv'
    BY <1>1, <1>2 DEF WireInv
  <2>2. RelayInv'
    BY DEF RelayInv
  <2>3. FramesInv' /\ ForwardInv'
    BY <1>1 DEF FramesInv, ForwardInv
  <2> QED BY <2>1, <2>2, <2>3 DEF WiresInv
<1>5. MirrorAgrees' /\ QueueInv'
  BY DEF MirrorAgrees, QueueInv
<1>6. GrantInv'
  <2>1. spawned => Granted
    BY DEF Inv, GrantInv, SuccessIsGranted, Granted
  <2> QED BY <1>1, <2>1 DEF GrantInv, SuccessIsGranted, Granted
<1>7. OneReplyEach'
  BY <1>1 DEF OneReplyEach
<1> QED BY <1>3, <1>4, <1>5, <1>6, <1>7 DEF Inv

\* act_on_demand for Demand::Pam.
LEMMA DemandPamInv ==
  ASSUME Inv, Handling, NEW n \in {0, shown}, DemandPam(n)
  PROVE  Inv'
<1>1. /\ GreetdTypes /\ RelayTypes /\ ConnTypes /\ ReplyTypes /\ BrokerTypes
      /\ UNCHANGED <<svc, told, fromBroker, talks>>
      /\ WiresInv /\ QueueInv
  BY HandlingFacts DEF Inv, Handling
<1>2. n \in Nat /\ <<>> \in Seq(ReplyKinds) /\ "AuthPending" \in GState
  BY <1>1 DEF GreetdTypes, GState
<1>3. CASE relay = "none"
  <2>1. /\ Listening("waiting") /\ fromBroker = <<>>
        /\ pendingResponses = <<>> /\ pendingChallenges = <<>>
    BY <1>1, <1>3 DEF WiresInv, RelayInv
  <2>2. /\ SendSuspended(Frame("BeginAuth", 0), "Authing") /\ ready' = TRUE
        /\ UNCHANGED <<pendingResponses, pendingChallenges>>
    BY <1>3, Zenon DEF DemandPam
  <2>3. CASE SendFails
    <3>1. FailClosed(<<>>, "AuthPending", FALSE) /\ UNCHANGED toBroker
      BY <2>2, <2>3, Zenon DEF SendSuspended
    <3> QED BY <1>2, <2>2, <3>1, FailingKeeps, Zenon
  <2>4. CASE ~SendFails
    <3>1. svc = "waiting" /\ toBroker = <<>>
      BY <2>1, <2>4 DEF Listening, SendFails
    <3>2. Frame("BeginAuth", 0) \in ToBroker /\ Frame("BeginAuth", 0).t = "BeginAuth"
      BY DEF ToBroker, Numbered, Frame
    <3>3. /\ toBroker' = Append(toBroker, Frame("BeginAuth", 0)) /\ relay' = "Authing"
          /\ gstate' = "AuthPending" /\ awaitingPam' = TRUE
          /\ UNCHANGED <<shown, closed, terminate, spawned, writeBuf, replies>>
      BY <2>2, <2>4, Zenon DEF SendSuspended
    <3> QED BY <2>1, <2>2, <3>1, <3>2, <3>3, SendingKeeps
  <2> QED BY <2>3, <2>4
<1>4. CASE relay = "Authing" /\ pendingResponses # <<>> /\ Head(pendingResponses) = "Forward"
  <2>1. /\ Len(pendingResponses) \in Nat /\ Len(pendingResponses) >= 1
        /\ pendingResponses[1] = "Forward"
        /\ Len(pendingResponses) = 1 => Tail(pendingResponses) = <<>>
    BY <1>1, <1>4, TailFacts DEF RelayTypes
  <2>2. Len(pendingResponses) = 1 /\ fromBroker = <<>> /\ Listening("asking")
    <3>1. 1 \in 1..Len(pendingResponses)
      BY <2>1
    <3> QED BY <1>1, <2>1, <3>1, Zenon DEF WiresInv, ForwardInv
  <2>3. shown = talks /\ Len(pendingResponses) = Len(pendingChallenges) + 1
    BY <1>1, <1>4, <2>1 DEF QueueInv, Handling
  <2>4. pendingChallenges = <<>>
    <3>1. pendingChallenges \in Seq(Step)
      BY <1>1 DEF RelayTypes
    <3>2. Len(pendingChallenges) \in Nat
      BY <3>1, LenProperties
    <3>3. Len(pendingChallenges) = 0
      BY <2>2, <2>3, <3>2
    <3> QED BY <3>1, <3>3, NoneLeft
  <2>5. /\ SendSuspended(Frame("ConvResponse", n), "Authing") /\ ready' = TRUE
        /\ pendingResponses' = Tail(pendingResponses)
        /\ pendingChallenges' = pendingChallenges
    BY <1>4, Zenon DEF DemandPam
  <2>6. CASE SendFails
    <3>1. FailClosed(<<>>, "AuthPending", FALSE) /\ UNCHANGED toBroker
      BY <2>5, <2>6, Zenon DEF SendSuspended
    <3> QED BY <1>2, <2>1, <2>2, <2>5, <3>1, FailingKeeps, Zenon
  <2>7. CASE ~SendFails
    <3>1. svc = "asking" /\ toBroker = <<>>
      BY <2>2, <2>7 DEF Listening, SendFails
    <3>2. /\ Frame("ConvResponse", n) \in ToBroker
          /\ Frame("ConvResponse", n).t = "ConvResponse"
          /\ Frame("ConvResponse", n).n \in {0, talks}
      BY <1>2, <2>3 DEF ToBroker, Numbered, Frame
    <3>3. /\ toBroker' = Append(toBroker, Frame("ConvResponse", n)) /\ relay' = "Authing"
          /\ gstate' = "AuthPending" /\ awaitingPam' = TRUE
          /\ UNCHANGED <<shown, closed, terminate, spawned, writeBuf, replies>>
      BY <2>5, <2>7, Zenon DEF SendSuspended
    <3> QED BY <2>1, <2>2, <2>4, <2>5, <3>1, <3>2, <3>3, SendingKeeps
  <2> QED BY <2>6, <2>7
<1>5. CASE relay = "Authing" /\ pendingResponses # <<>> /\ Head(pendingResponses) = "Swallow"
  <2>1. /\ pendingResponses' = Tail(pendingResponses) /\ FlushChallenge
        /\ UNCHANGED <<relay, toBroker>>
    BY <1>5, Zenon DEF DemandPam
  <2> QED BY <1>5, <2>1, SwallowKeeps
<1>6. CASE relay # "none" /\ (relay = "Authing" => pendingResponses = <<>>)
  <2>1. /\ FailClosed(<<>>, "AuthPending", FALSE) /\ ready' = TRUE
        /\ UNCHANGED <<pendingResponses, pendingChallenges, toBroker>>
    BY <1>6, Zenon DEF DemandPam
  <2> QED BY <1>2, <2>1, FailingKeeps, Zenon
<1>7. pendingResponses # <<>> => Head(pendingResponses) \in {"Forward", "Swallow"}
  BY <1>1, TailFacts DEF RelayTypes
<1> QED BY <1>3, <1>4, <1>5, <1>6, <1>7

\* act_on_demand for Demand::Spawn, after PAM granted the login.
LEMMA DemandSpawnInv ==
  ASSUME Inv, Handling, gstate = "AuthSuccess", DemandSpawn
  PROVE  Inv'
<1>1. /\ GreetdTypes /\ RelayTypes /\ ConnTypes /\ ReplyTypes /\ BrokerTypes
      /\ UNCHANGED <<svc, told, fromBroker, talks>> /\ WiresInv
  BY HandlingFacts DEF Inv, Handling
<1>2. Granted
  BY DEF Inv, GrantInv, SuccessIsGranted, Granted
<1>3. <<"Success">> \in Seq(ReplyKinds) /\ "Spawning" \in GState
  BY DEF ReplyKinds, GState
<1>4. UNCHANGED <<ready, pendingResponses, pendingChallenges>>
  BY Zenon DEF DemandSpawn
<1>5. CASE FailClosed(<<"Success">>, "Spawning", TRUE) /\ UNCHANGED toBroker
  <2>1. ready' \in BOOLEAN
    BY <1>1, <1>4 DEF RelayTypes
  <2> QED BY <1>2, <1>3, <1>4, <1>5, <2>1, FailingKeeps, Zenon
<1>6. CASE /\ relay = "Authed" /\ ~SendFails
           /\ toBroker' = Append(toBroker, Frame("StartSession", 0))
           /\ relay' = "Starting" /\ Reply(<<"Success">>)
           /\ gstate' = "Spawning" /\ closed' = TRUE /\ spawned' = TRUE
           /\ UNCHANGED <<shown, awaitingPam, terminate>>
  <2>1. svc = "granted" /\ toBroker = <<>> /\ fromBroker = <<>>
    BY <1>1, <1>6 DEF WiresInv, RelayInv, Listening, SendFails
  <2>2. Frame("StartSession", 0) \in ToBroker /\ Frame("StartSession", 0).t = "StartSession"
    BY DEF ToBroker, Numbered, Frame
  <2>3. /\ toBroker' \in Seq(ToBroker) /\ Len(toBroker') = 1
        /\ toBroker'[1] = Frame("StartSession", 0)
    BY <1>1, <1>6, <2>1, <2>2, AppendFacts, SMTT(30) DEF BrokerTypes
  <2>4. ReplyTypes'
    BY <1>1, <1>3, <1>6, ReplyEffect
  <2>5. GreetdTypes'
    BY <1>1, <1>6 DEF GreetdTypes, GState
  <2>6. RelayTypes'
    BY <1>1, <1>4, <1>6 DEF RelayTypes, Phase
  <2>7. WiresInv'
    <3>1. WireInv'
      BY <1>1, <2>1, <2>2, <2>3 DEF WireInv
    <3>2. RelayInv'
      BY <1>6 DEF RelayInv
    <3>3. FramesInv'
      BY <1>1, <2>1 DEF FramesInv
    <3>4. ~Listening("asking")
      BY <2>1 DEF Listening
    <3>5. ForwardInv'
      BY <1>1, <1>4, <3>4, Zenon DEF WiresInv, ForwardInv
    <3> QED BY <3>1, <3>2, <3>3, <3>5 DEF WiresInv
  <2>8. GrantInv'
    <3>1. Granted'
      BY <1>1, <1>2 DEF Granted
    <3> QED BY <3>1, Zenon DEF GrantInv, SuccessIsGranted, Granted
  <2>9. spawned' \in BOOLEAN /\ terminate' \in BOOLEAN
    BY <1>1, <1>6 DEF ConnTypes
  <2> QED BY <1>6, <2>3, <2>4, <2>5, <2>6, <2>7, <2>8, <2>9, ClosingKeeps
<1> QED BY <1>5, <1>6, Zenon DEF DemandSpawn

\* A reply on the spot: CancelSession, and what violates the protocol.
LEMMA RepliesOnSpot ==
  ASSUME Inv, Handling, NEW r \in ReplyKinds, Reply(<<r>>),
         gstate' \in {gstate, "Idle"},
         UNCHANGED <<shown, awaitingPam, closed, spawned, terminate, toBroker>>,
         UNCHANGED relayVars
  PROVE  Inv'
<1>1. /\ GreetdTypes /\ RelayTypes /\ ConnTypes /\ ReplyTypes /\ BrokerTypes
      /\ ServiceTypeOK' /\ GreeterTypes' /\ readBuf' \in Seq(Requests) /\ polite' \in Manners
      /\ UNCHANGED <<svc, told, fromBroker, talks, conn>> /\ UNCHANGED serviceVars
      /\ gstate # "AuthPending" /\ ~awaitingPam /\ ~ready
      /\ replies + 1 = sent' - Len(toGreetd') - Len(readBuf') /\ replies \in Nat
  BY HandlingFacts DEF Handling
<1>2. ReplyTypes' /\ replies' = replies + 1
  <2>1. <<r>> \in Seq(ReplyKinds) /\ Len(<<r>>) = 1
    OBVIOUS
  <2> QED BY <1>1, <2>1, ReplyEffect, Zenon
<1>3. TypeOK'
  <2>1. GreetdTypes'
    BY <1>1 DEF GreetdTypes, GState
  <2>2. ConnTypes' /\ BrokerTypes'
    BY <1>1 DEF ConnTypes, BrokerTypes
  <2> QED BY <1>1, <1>2, <2>1, <2>2, TypeParts, SameTypes, Zenon
<1>4. /\ UNCHANGED <<relay, ready, pendingResponses, pendingChallenges>>
  BY DEF relayVars
<1>5. WiresInv'
  BY <1>1, <1>4, Zenon DEF Inv, WiresInv, WireInv, RelayInv, FramesInv, ForwardInv, Listening,
     Granted
<1>6. MirrorAgrees' /\ QueueInv'
  <2>1. gstate' # "AuthPending"
    BY <1>1
  <2>2. MirrorAgrees' /\ QueueInv'
    BY <1>1, <1>4, <2>1, Zenon DEF Inv, MirrorAgrees, QueueInv
  <2> QED BY <2>2
<1>7. GrantInv'
  <2>1. gstate' \in {"AuthSuccess", "Spawning"} => gstate' = gstate
    OBVIOUS
  <2> QED BY <1>1, <1>4, <2>1, Zenon DEF Inv, GrantInv, SuccessIsGranted, Granted
<1>8. OneReplyEach'
  BY <1>1, <1>2 DEF OneReplyEach
<1> QED BY <1>3, <1>5, <1>6, <1>7, <1>8 DEF Inv

\* drive takes a request.
LEMMA DriveInv ==
  ASSUME Inv, Drive, UNCHANGED polite
  PROVE  Inv'
<1>1. CASE DriveStarts
  BY <1>1, HandlesFacts, DemandPamInv, Zenon DEF DriveStarts
<1>2. CASE DriveAnswers
  BY <1>2, HandlesFacts, DemandPamInv, Zenon DEF DriveAnswers
<1>3. CASE DriveSpawns
  <2>1. gstate = "AuthSuccess"
    BY <1>3 DEF DriveSpawns, Accepted
  <2> QED BY <1>3, <2>1, HandlesFacts, DemandSpawnInv, Zenon DEF DriveSpawns
<1>4. CASE DriveCancels
  <2>1. /\ Handling /\ Reply(<<"Success">>) /\ gstate' = "Idle"
        /\ UNCHANGED <<shown, awaitingPam, closed, spawned, terminate, toBroker>>
        /\ UNCHANGED relayVars
    BY <1>4, HandlesFacts, Zenon DEF DriveCancels
  <2>2. "Success" \in ReplyKinds
    BY DEF ReplyKinds
  <2> QED BY <2>1, <2>2, RepliesOnSpot
<1>5. CASE DriveRefuses
  <2>1. /\ Handling /\ Reply(<<"Error">>) /\ gstate' = gstate
        /\ UNCHANGED <<shown, awaitingPam, closed, spawned, terminate, toBroker>>
        /\ UNCHANGED relayVars
    BY <1>5, HandlesFacts, Zenon DEF DriveRefuses, greetdVars
  <2>2. "Error" \in ReplyKinds
    BY DEF ReplyKinds
  <2> QED BY <2>1, <2>2, RepliesOnSpot
<1> QED BY <1>1, <1>2, <1>3, <1>4, <1>5 DEF Drive

----------------------------------------------------------------------------
(* Frames from the broker.                                                 *)

\* What a callback on the broker's socket leaves alone.
Hearing ==
    /\ UNCHANGED <<readBuf, greeterVars, serviceVars, toBroker, talks, spawned, polite>>
    /\ Leave

TakesHead == fromBroker # <<>> /\ fromBroker' = Tail(fromBroker)

\* The rest of the invariant follows from what the callback changes.
LEMMA HearKeeps ==
  ASSUME Inv, Hearing, fromBroker' \in Seq(FromBroker),
         GreetdTypes', RelayTypes', ReplyTypes', terminate' \in BOOLEAN,
         WiresInv', MirrorAgrees', QueueInv', GrantInv', OneReplyEach'
  PROVE  Inv'
<1>1. /\ ServiceTypeOK /\ ConnTypes /\ GreeterTypes /\ BrokerTypes
      /\ readBuf \in Seq(Requests) /\ polite \in Manners
  BY TypeParts, Zenon DEF Inv
<1>2. ServiceTypeOK' /\ GreeterTypes'
  BY <1>1, SameTypes, Zenon DEF Hearing
<1>3. ConnTypes'
  <2>1. conn' \in {conn, "dropping"}
    BY DEF Hearing, Leave
  <2> QED BY <1>1, <2>1 DEF ConnTypes, Hearing
<1>4. BrokerTypes'
  BY <1>1 DEF BrokerTypes, Hearing
<1>5. readBuf' \in Seq(Requests) /\ polite' \in Manners
  BY <1>1 DEF Hearing
<1> QED BY <1>2, <1>3, <1>4, <1>5, TypeParts, Zenon DEF Inv

\* A frame on its way means that nothing is owed to the broker, and a prompt or
\* a grant is the last one.
LEMMA HeadFacts ==
  ASSUME BrokerTypes, WiresInv, TakesHead, UNCHANGED <<svc, told, toBroker, talks>>
  PROVE  /\ fromBroker' \in Seq(FromBroker)
         /\ Head(fromBroker) \in FromBroker
         /\ WireInv' /\ FramesInv'
         /\ relay \notin {"none", "Authed"}
         /\ \A i \in 1..Len(pendingResponses) : pendingResponses[i] # "Forward"
         /\ Head(fromBroker).t = "ConvPrompt" =>
               fromBroker' = <<>> /\ Head(fromBroker).n = talks /\ Listening("asking")
         /\ Head(fromBroker).t = "Success" =>
               fromBroker' = <<>> /\ Listening("granted") /\ Granted
<1> DEFINE F == fromBroker
<1>1. /\ Len(F) \in Nat /\ Len(F) >= 1 /\ Head(F) = F[1] /\ F[1] \in FromBroker
      /\ F' \in Seq(FromBroker) /\ Len(F') = Len(F) - 1
      /\ \A i \in 1..Len(F') : i + 1 \in 1..Len(F) /\ F'[i] = F[i + 1]
      /\ Len(F) = 1 => F' = <<>>
  BY TailFacts DEF BrokerTypes, TakesHead
<1>2. WireInv'
  BY Zenon DEF WiresInv, WireInv
<1>3. relay \notin {"none", "Authed"}
  BY DEF WiresInv, RelayInv, TakesHead
<1>4. \A i \in 1..Len(pendingResponses) : pendingResponses[i] # "Forward"
  BY Zenon DEF WiresInv, ForwardInv, TakesHead
<1>5. 1 \in 1..Len(F)
  BY <1>1
<1>6. /\ F[1].t = "ConvPrompt" => 1 = Len(F) /\ F[1].n = talks /\ Listening("asking")
      /\ F[1].t = "Success" => 1 = Len(F) /\ Listening("granted") /\ Granted
  BY <1>5, Zenon DEF WiresInv, FramesInv
<1>7. FramesInv'
  <2>1. \A s : Listening(s)' <=> Listening(s)
    BY Zenon DEF Listening
  <2>2. Granted' <=> Granted
    BY Zenon DEF Granted
  <2>3. ASSUME NEW i \in 1..Len(F')
        PROVE  /\ F'[i].t = "ConvPrompt" =>
                     i = Len(F') /\ F'[i].n = talks' /\ Listening("asking")'
               /\ F'[i].t = "Success" => i = Len(F') /\ Listening("granted")' /\ Granted'
    <3>1. i + 1 \in 1..Len(F) /\ F'[i] = F[i + 1]
      BY <1>1, Zenon
    <3>2. /\ F[i + 1].t = "ConvPrompt" =>
                i + 1 = Len(F) /\ F[i + 1].n = talks /\ Listening("asking")
          /\ F[i + 1].t = "Success" => i + 1 = Len(F) /\ Listening("granted") /\ Granted
      BY <3>1, Zenon DEF WiresInv, FramesInv
    <3>3. i + 1 = Len(F) => i = Len(F')
      BY <1>1, <2>3
    <3> QED BY <2>1, <2>2, <3>1, <3>2, <3>3, Zenon
  <2> QED BY <2>3, Zenon DEF FramesInv
<1> QED BY <1>1, <1>2, <1>3, <1>4, <1>6, <1>7, Zenon

\* A step from PAM goes to the machine or waits for it.
LEMMA DeliverKeeps ==
  ASSUME Inv, Hearing, NEW step \in Step, Deliver(step), step.t = "Success" => Granted
  PROVE  /\ GreetdTypes' /\ ReplyTypes' /\ terminate' \in BOOLEAN /\ ready' \in BOOLEAN
         /\ pendingChallenges' \in Seq(Step)
         /\ MirrorAgrees' /\ GrantInv' /\ OneReplyEach'
         /\ ~closed' =>
              \/ /\ ~closed /\ awaitingPam /\ ~awaitingPam'
                 /\ UNCHANGED pendingChallenges
                 /\ step.t = "Challenge" => shown' = step.n
              \/ /\ ~closed /\ ~awaitingPam /\ ~awaitingPam' /\ UNCHANGED shown
                 /\ pendingChallenges' = Append(pendingChallenges, step)
<1>1. /\ GreetdTypes /\ RelayTypes /\ ConnTypes /\ ReplyTypes
      /\ UNCHANGED <<readBuf, sent, toGreetd, told, spawned>>
      /\ Granted' <=> Granted
  <2>1. GreetdTypes /\ RelayTypes /\ ConnTypes /\ ReplyTypes
    BY TypeParts, Zenon DEF Inv
  <2>2. UNCHANGED <<readBuf, sent, toGreetd, told, spawned>>
    BY DEF Hearing, greeterVars, serviceVars
  <2> QED BY <2>1, <2>2, Zenon DEF Granted
<1>2. CASE ready
  <2>1. ResumePam(step, gstate, awaitingPam) /\ UNCHANGED pendingChallenges
    BY <1>2, Zenon DEF Deliver
  <2>2. gstate \in GState /\ awaitingPam \in BOOLEAN /\ closed \in BOOLEAN
    BY <1>1 DEF GreetdTypes
  <2>3. /\ GreetdTypes' /\ ReplyTypes' /\ ready' = FALSE /\ terminate' \in BOOLEAN
        /\ closed \/ ~awaitingPam => closed' = TRUE /\ gstate' = gstate
        /\ ~closed /\ awaitingPam =>
              /\ closed' = FALSE /\ awaitingPam' = FALSE /\ replies' = replies + 1
              /\ step.t = "Challenge" => gstate' = "Authenticating" /\ shown' = step.n
              /\ step.t = "Success" => gstate' = "AuthSuccess"
              /\ step.t = "Failure" => gstate' = "Idle"
    BY <1>1, <2>1, <2>2, ResumeEffect, Zenon
  <2>4. step.t \in {"Challenge", "Success", "Failure"}
    BY DEF Step, Numbered
  <2>5. closed' = FALSE => gstate' # "AuthPending"
    BY <2>2, <2>3, <2>4
  <2>6. MirrorAgrees'
    BY <2>2, <2>3, <2>5, Zenon DEF MirrorAgrees
  <2>7. GrantInv'
    <3>1. gstate' \in {"AuthSuccess", "Spawning"} => gstate' = gstate \/ Granted
      BY <2>2, <2>3, <2>4
    <3>2. SuccessIsGranted'
      BY <1>1, <3>1, Zenon DEF Inv, GrantInv, SuccessIsGranted, Granted
    <3> QED BY <1>1, <2>1, <3>2, Zenon DEF Inv, GrantInv
  <2>8. OneReplyEach'
    <3>1. ~closed' => ~closed /\ awaitingPam /\ ~awaitingPam' /\ replies' = replies + 1
      BY <2>2, <2>3, Zenon
    <3>2. replies \in Nat
      BY <1>1 DEF ReplyTypes
    <3> QED BY <1>1, <3>1, <3>2 DEF Inv, OneReplyEach
  <2>9. pendingChallenges' \in Seq(Step) /\ ready' \in BOOLEAN
    BY <1>1, <2>1, <2>3, Zenon DEF RelayTypes
  <2> QED BY <2>1, <2>2, <2>3, <2>6, <2>7, <2>8, <2>9, Zenon
<1>3. CASE ~ready
  <2>1. /\ pendingChallenges' = Append(pendingChallenges, step)
        /\ UNCHANGED <<gstate, shown, awaitingPam, closed, ready, terminate, writeBuf, replies>>
    BY <1>3, Zenon DEF Deliver, greetdVars
  <2>2. GreetdTypes' /\ ReplyTypes' /\ terminate' \in BOOLEAN /\ ready' \in BOOLEAN
    BY <1>1, <2>1 DEF GreetdTypes, ReplyTypes, ConnTypes, RelayTypes
  <2> DEFINE C == pendingChallenges
  <2>3. /\ C' \in Seq(Step) /\ Len(C) \in Nat /\ Len(C') = Len(C) + 1
        /\ C'[Len(C) + 1] = step
        /\ \A i \in 1..Len(C) : C'[i] = C[i]
        /\ \A i \in 1..(Len(C) + 1) : i \in 1..Len(C) \/ i = Len(C) + 1
    <3>1. C \in Seq(Step) /\ step \in Step
      BY <1>1, Zenon DEF RelayTypes
    <3>2. C' = Append(C, step)
      BY <2>1
    <3> QED BY <3>1, <3>2, AppendTo, SMTT(30)
  <2>4. MirrorAgrees'
    BY <2>1, Zenon DEF Inv, MirrorAgrees
  <2>5. OneReplyEach'
    BY <1>1, <2>1, Zenon DEF Inv, OneReplyEach
  <2>6. GrantInv'
    <3>1. SuccessIsGranted'
      BY <1>1, <2>1, Zenon DEF Inv, GrantInv, SuccessIsGranted, Granted
    <3>2. \A i \in 1..Len(C) : C[i].t = "Success" => Granted
      BY Zenon DEF Inv, GrantInv
    <3>3. \A i \in 1..Len(C') : C'[i].t = "Success" => Granted'
      BY <1>1, <2>3, <3>2, Zenon
    <3> QED BY <3>1, <3>3 DEF GrantInv
  <2>7. ~closed => ~awaitingPam
    BY <1>1, <1>3, Zenon DEF Inv, MirrorAgrees
  <2> QED BY <2>1, <2>2, <2>3, <2>4, <2>5, <2>6, <2>7, Zenon
<1> QED BY <1>2, <1>3

\* What Takes(f) says, in those terms.
LEMMA TakesFacts ==
  ASSUME Inv, NEW f, Takes(f), Leave, UNCHANGED <<spawned, polite>>
  PROVE  /\ Hearing /\ TakesHead /\ Head(fromBroker) = f /\ BrokerTypes /\ WiresInv
         /\ RelayTypes /\ UNCHANGED <<svc, told, toBroker, talks>>
<1>1. Hearing /\ TakesHead /\ Head(fromBroker) = f
  BY Zenon DEF Takes, Hearing, TakesHead
<1>2. UNCHANGED <<svc, told, toBroker, talks>>
  BY DEF Takes, serviceVars
<1>3. BrokerTypes /\ RelayTypes /\ WiresInv
  BY TypeParts, Zenon DEF Inv
<1> QED BY <1>1, <1>2, <1>3

\* A conversation frame: a response is owed for it, and its challenge is shown
\* or waits.
LEMMA BrokerConversesInv ==
  ASSUME Inv, BrokerConverses, UNCHANGED polite
  PROVE  Inv'
<1>1. PICK t \in PamTalks, n \in 1..talks :
         /\ Takes(Frame(t, n)) /\ relay = "Authing"
         /\ pendingResponses' = Pending(t)
         /\ Deliver(Frame("Challenge", n))
  BY Zenon DEF BrokerConverses
<1> DEFINE R == pendingResponses
           C == pendingChallenges
           x == IF t = "ConvPrompt" THEN "Forward" ELSE "Swallow"
           step == Frame("Challenge", n)
<1>2. relay' = relay /\ Leave
  BY Zenon DEF BrokerConverses
<1>3. spawned' = spawned
  BY <1>1, Zenon DEF Deliver, ResumePam
<1>4. /\ Hearing /\ TakesHead /\ Head(fromBroker) = Frame(t, n) /\ BrokerTypes /\ WiresInv
      /\ RelayTypes /\ UNCHANGED <<svc, told, toBroker, talks>>
  BY <1>1, <1>2, <1>3, TakesFacts, Zenon
<1>5. Frame(t, n).t = t /\ Frame(t, n).n = n
  BY DEF Frame
<1>6. /\ fromBroker' \in Seq(FromBroker) /\ WireInv' /\ FramesInv'
      /\ \A i \in 1..Len(R) : R[i] # "Forward"
      /\ t = "ConvPrompt" => fromBroker' = <<>> /\ n = talks /\ Listening("asking")
  BY <1>4, <1>5, HeadFacts, Zenon
<1>7. step \in Step /\ step.t = "Challenge" /\ step.n = n
  BY <1>4 DEF Frame, Step, Numbered, BrokerTypes
<1>8. x \in {"Swallow", "Forward"} /\ (x = "Forward" => t = "ConvPrompt")
  OBVIOUS
<1>9. R' = Append(R, x)
  BY <1>1, Zenon DEF Pending
<1> HIDE DEF x, step
<1>10. /\ R' \in Seq({"Swallow", "Forward"}) /\ Len(R) \in Nat /\ Len(R') = Len(R) + 1
       /\ R'[Len(R) + 1] = x
       /\ \A i \in 1..Len(R) : R'[i] = R[i]
       /\ \A i \in 1..(Len(R) + 1) : i \in 1..Len(R) \/ i = Len(R) + 1
  BY <1>4, <1>8, <1>9, AppendFacts DEF RelayTypes
<1>11. /\ GreetdTypes' /\ ReplyTypes' /\ terminate' \in BOOLEAN /\ ready' \in BOOLEAN
       /\ C' \in Seq(Step)
       /\ MirrorAgrees' /\ GrantInv' /\ OneReplyEach'
       /\ ~closed' =>
            \/ /\ ~closed /\ awaitingPam /\ ~awaitingPam'
               /\ UNCHANGED C /\ shown' = n
            \/ /\ ~closed /\ ~awaitingPam /\ ~awaitingPam' /\ UNCHANGED shown
               /\ C' = Append(C, step)
  <2>1. Deliver(step) /\ ~(step.t = "Success")
    BY <1>1, <1>7 DEF step
  <2> QED BY <1>4, <1>7, <2>1, DeliverKeeps, Zenon
<1>12. RelayTypes'
  BY <1>2, <1>4, <1>10, <1>11 DEF RelayTypes
<1>13. WiresInv'
  <2>1. RelayInv'
    BY <1>1, <1>2 DEF RelayInv
  <2>2. ASSUME NEW i \in 1..Len(R'), R'[i] = "Forward"
        PROVE  i = Len(R') /\ fromBroker' = <<>> /\ Listening("asking")'
    <3>1. i = Len(R) + 1
      BY <1>6, <1>10, <2>2, Zenon
    <3>2. t = "ConvPrompt"
      BY <1>8, <1>10, <2>2, <3>1, Zenon
    <3> QED BY <1>4, <1>6, <1>10, <3>1, <3>2, Zenon DEF Listening
  <2>3. ForwardInv'
    BY <2>2, Zenon DEF ForwardInv
  <2> QED BY <1>6, <2>1, <2>3 DEF WiresInv
<1>14. QueueInv'
  <2> SUFFICES ASSUME ~closed' PROVE QueueInv'
    BY Zenon DEF QueueInv
  <2>1. CASE ~closed /\ awaitingPam /\ ~awaitingPam' /\ UNCHANGED C /\ shown' = n
    <3>1. R = <<>> /\ C = <<>>
      BY <1>1, <2>1, Zenon DEF Inv, QueueInv
    <3>2. Len(R) = 0 /\ Len(C) = 0
      BY <3>1
    <3>3. Len(R') = Len(C') + 1
      BY <1>10, <2>1, <3>2
    <3>4. R'[1] = x
      BY <1>10, <3>2
    <3>5. R'[1] = "Forward" => shown' = talks'
      BY <1>4, <1>6, <1>8, <2>1, <3>4, Zenon
    <3>6. ~(\E i \in 1..Len(C') : TRUE)
      BY <2>1, <3>2
    <3> QED BY <2>1, <3>3, <3>5, <3>6, Zenon DEF QueueInv
  <2>2. CASE /\ ~closed /\ ~awaitingPam /\ ~awaitingPam' /\ UNCHANGED shown
             /\ C' = Append(C, step)
    <3>1. /\ Len(R) = Len(C) + 1 /\ (R[1] = "Forward" => shown = talks)
          /\ \A i \in 1..Len(C) : C[i].t = "Challenge" /\ (R[i + 1] = "Forward" => C[i].n = talks)
      BY <1>1, <2>2, Zenon DEF Inv, QueueInv
    <3>2. /\ Len(C) \in Nat /\ Len(C') = Len(C) + 1 /\ C'[Len(C) + 1] = step
          /\ \A i \in 1..Len(C) : C'[i] = C[i]
          /\ \A i \in 1..(Len(C) + 1) : i \in 1..Len(C) \/ i = Len(C) + 1
      BY <1>4, <1>7, <2>2, AppendFacts DEF RelayTypes
    <3>3. Len(R') = Len(C') + 1
      BY <1>10, <3>1, <3>2
    <3>4. R'[1] = "Forward" => shown' = talks'
      <4>1. 1 \in 1..Len(R)
        BY <3>1, <3>2
      <4> QED BY <1>4, <1>10, <2>2, <3>1, <4>1, Zenon
    <3>5. ASSUME NEW i \in 1..Len(C')
          PROVE  C'[i].t = "Challenge" /\ (R'[i + 1] = "Forward" => C'[i].n = talks')
      <4>1. CASE i \in 1..Len(C)
        <5>1. i + 1 \in 1..Len(R)
          BY <3>1, <3>2, <4>1
        <5> QED BY <1>4, <1>10, <3>1, <3>2, <4>1, <5>1, Zenon
      <4>2. CASE i = Len(C) + 1
        <5>1. i + 1 = Len(R) + 1
          BY <3>1, <4>2
        <5>2. R'[i + 1] = x /\ C'[i] = step
          BY <1>10, <3>2, <4>2, <5>1, Zenon
        <5> QED BY <1>4, <1>6, <1>7, <1>8, <5>2, Zenon
      <4> QED BY <3>2, <4>1, <4>2, Zenon
    <3> QED BY <2>2, <3>3, <3>4, <3>5, Zenon DEF QueueInv
  <2> QED BY <1>11, <2>1, <2>2, Zenon
<1> QED BY <1>4, <1>6, <1>11, <1>12, <1>13, <1>14, HearKeeps, Zenon

\* Success or Failure: PAM is through.
LEMMA BrokerDecidesInv ==
  ASSUME Inv, BrokerDecides, UNCHANGED polite
  PROVE  Inv'
<1>1. PICK t \in {"Success", "Failure"} :
         /\ Takes(Frame(t, 0)) /\ relay = "Authing"
         /\ relay' = IF t = "Success" THEN "Authed" ELSE "Done"
         /\ Deliver(Frame(t, 0))
  BY Zenon DEF BrokerDecides
<1>2. UNCHANGED pendingResponses /\ Leave
  BY Zenon DEF BrokerDecides
<1>3. spawned' = spawned
  BY <1>1, Zenon DEF Deliver, ResumePam
<1>4. /\ Hearing /\ TakesHead /\ Head(fromBroker) = Frame(t, 0) /\ BrokerTypes /\ WiresInv
      /\ RelayTypes /\ UNCHANGED <<svc, told, toBroker, talks>>
  BY <1>1, <1>2, <1>3, TakesFacts, Zenon
<1>5. Frame(t, 0).t = t /\ Frame(t, 0) \in Step
  BY DEF Frame, Step, Numbered
<1>6. /\ fromBroker' \in Seq(FromBroker) /\ WireInv' /\ FramesInv'
      /\ \A i \in 1..Len(pendingResponses) : pendingResponses[i] # "Forward"
      /\ t = "Success" => fromBroker' = <<>> /\ Listening("granted") /\ Granted
  BY <1>4, <1>5, HeadFacts, Zenon
<1>7. /\ GreetdTypes' /\ ReplyTypes' /\ terminate' \in BOOLEAN /\ ready' \in BOOLEAN
      /\ pendingChallenges' \in Seq(Step)
      /\ MirrorAgrees' /\ GrantInv' /\ OneReplyEach'
  BY <1>1, <1>4, <1>5, <1>6, DeliverKeeps, Zenon
<1>8. relay' \in {"Authed", "Done"} /\ (relay' = "Authed" => t = "Success")
  BY <1>1
<1>9. RelayTypes'
  BY <1>2, <1>4, <1>7, <1>8 DEF RelayTypes, Phase
<1>10. WiresInv'
  <2>1. RelayInv'
    BY <1>4, <1>6, <1>8 DEF RelayInv, Listening
  <2>2. ForwardInv'
    BY <1>2, <1>6, Zenon DEF ForwardInv
  <2> QED BY <1>6, <2>1, <2>2 DEF WiresInv
<1>11. QueueInv'
  BY <1>8 DEF QueueInv
<1> QED BY <1>4, <1>6, <1>7, <1>9, <1>10, <1>11, HearKeeps, Zenon

\* A frame that is no step of PAM, in its phase: only the phase moves on.
LEMMA BrokerMovesInv ==
  ASSUME Inv, BrokerOpens \/ BrokerEnds, UNCHANGED polite
  PROVE  Inv'
<1>1. /\ \E t : Takes(Frame(t, 0))
      /\ relay' \in {"Running", "Done"} /\ terminate' \in {terminate, TRUE}
      /\ UNCHANGED <<gstate, shown, awaitingPam, closed, pendingResponses, pendingChallenges,
                     ready, writeBuf, replies, spawned>>
      /\ Leave
  <2>1. CASE BrokerOpens
    BY <2>1 DEF BrokerOpens, greetdVars
  <2>2. CASE BrokerEnds
    BY <2>2 DEF BrokerEnds, greetdVars
  <2> QED BY <2>1, <2>2, Zenon
<1>2. PICK t : Takes(Frame(t, 0))
  BY <1>1
<1>3. /\ Hearing /\ TakesHead /\ BrokerTypes /\ WiresInv /\ RelayTypes
      /\ UNCHANGED <<svc, told, toBroker, talks>>
  BY <1>1, <1>2, TakesFacts, Zenon
<1>4. /\ fromBroker' \in Seq(FromBroker) /\ WireInv' /\ FramesInv'
      /\ \A i \in 1..Len(pendingResponses) : pendingResponses[i] # "Forward"
  BY <1>3, HeadFacts, Zenon
<1>5. WiresInv'
  <2>1. RelayInv'
    BY <1>1 DEF RelayInv
  <2>2. ForwardInv'
    BY <1>1, <1>4, Zenon DEF ForwardInv
  <2> QED BY <1>4, <2>1, <2>2 DEF WiresInv
<1>6. GreetdTypes' /\ ReplyTypes' /\ RelayTypes' /\ terminate' \in BOOLEAN
  <2>1. GreetdTypes /\ ReplyTypes /\ ConnTypes
    BY TypeParts, Zenon DEF Inv
  <2> QED BY <1>1, <1>3, <2>1, Zenon DEF GreetdTypes, ReplyTypes, RelayTypes, ConnTypes, Phase
<1>7. MirrorAgrees' /\ GrantInv'
  BY <1>1, <1>3, Zenon DEF Inv, MirrorAgrees, GrantInv, SuccessIsGranted, Granted
<1>8. QueueInv'
  BY <1>1 DEF QueueInv
<1>9. OneReplyEach'
  <2>1. UNCHANGED <<sent, toGreetd, readBuf>>
    BY <1>3 DEF Hearing, greeterVars
  <2> QED BY <1>1, <2>1, Zenon DEF Inv, OneReplyEach
<1> QED BY <1>3, <1>4, <1>5, <1>6, <1>7, <1>8, <1>9, HearKeeps, Zenon

\* Out of phase, or the channel has ended: fail_closed.
LEMMA BrokerFailsInv ==
  ASSUME Inv, BrokerFails, UNCHANGED polite
  PROVE  Inv'
<1>1. /\ GreetdTypes /\ RelayTypes /\ ConnTypes /\ ReplyTypes /\ BrokerTypes /\ WiresInv
      /\ gstate \in GState /\ closed \in BOOLEAN /\ <<>> \in Seq(ReplyKinds)
  <2>1. GreetdTypes /\ RelayTypes /\ ConnTypes /\ ReplyTypes /\ BrokerTypes
    BY TypeParts, Zenon DEF Inv
  <2> QED BY <2>1 DEF Inv, GreetdTypes
<1>2. /\ FailClosed(<<>>, gstate, closed) /\ Leave
      /\ UNCHANGED <<readBuf, greeterVars, serviceVars, toBroker, talks>>
      /\ UNCHANGED <<pendingResponses, pendingChallenges, ready>>
  BY Zenon DEF BrokerFails
<1>3. /\ GreetdTypes' /\ ReplyTypes' /\ closed' = TRUE /\ terminate' = TRUE
      /\ spawned' = spawned /\ gstate' \in {gstate, "Idle"}
      /\ relay' = IF relay = "none" THEN "none" ELSE "Done"
  BY <1>1, <1>2, FailEffect, Zenon
<1>4. Hearing
  BY <1>2, <1>3, Zenon DEF Hearing
<1>5. relay' \in Phase /\ relay' # "Authed" /\ relay' # "Authing"
      /\ (relay' = "none" => relay = "none")
  BY <1>3 DEF Phase
<1>6. RelayTypes'
  BY <1>1, <1>2, <1>5 DEF RelayTypes
<1>7. UNCHANGED <<svc, told, toBroker, talks>>
  BY <1>2 DEF serviceVars
<1>8. fromBroker' \in Seq(FromBroker) /\ WiresInv'
  <2>1. CASE TakesHead
    <3>1. /\ fromBroker' \in Seq(FromBroker) /\ WireInv' /\ FramesInv' /\ relay # "none"
          /\ \A i \in 1..Len(pendingResponses) : pendingResponses[i] # "Forward"
      BY <1>1, <1>7, <2>1, HeadFacts
    <3>2. RelayInv'
      BY <1>5, <3>1 DEF RelayInv
    <3>3. ForwardInv'
      BY <1>2, <3>1, Zenon DEF ForwardInv
    <3> QED BY <3>1, <3>2, <3>3 DEF WiresInv
  <2>2. CASE UNCHANGED fromBroker
    <3>1. WireInv' /\ FramesInv' /\ ForwardInv'
      BY <1>1, <1>2, <1>7, <2>2, Zenon
         DEF WiresInv, WireInv, FramesInv, ForwardInv, Listening, Granted
    <3>2. RelayInv'
      BY <1>1, <1>2, <1>5, <1>7, <2>2, Zenon DEF WiresInv, RelayInv, Listening
    <3>3. fromBroker' \in Seq(FromBroker)
      BY <1>1, <2>2 DEF BrokerTypes
    <3> QED BY <3>1, <3>2, <3>3 DEF WiresInv
  <2> QED BY <2>1, <2>2, Zenon DEF BrokerFails, TakesHead
<1>9. GrantInv'
  <2>1. gstate' \in {"AuthSuccess", "Spawning"} => gstate' = gstate
    BY <1>3
  <2> QED BY <1>2, <1>3, <1>7, <2>1, Zenon DEF Inv, GrantInv, SuccessIsGranted, Granted
<1>10. MirrorAgrees' /\ QueueInv' /\ OneReplyEach'
  BY <1>3, Zenon DEF MirrorAgrees, QueueInv, OneReplyEach
<1>11. terminate' \in BOOLEAN
  BY <1>3
<1> QED BY <1>3, <1>4, <1>6, <1>8, <1>9, <1>10, <1>11, HearKeeps, Zenon

----------------------------------------------------------------------------
(* The whole.                                                              *)

\* The initial state satisfies the inductive invariant.
LEMMA InitInv == Init => Inv
<1> SUFFICES ASSUME Init PROVE Inv
  OBVIOUS
<1>0. /\ gstate = "Idle" /\ shown = 0 /\ relay = "none" /\ conn = "open"
      /\ awaitingPam = FALSE /\ closed = FALSE /\ ready = FALSE
      /\ spawned = FALSE /\ terminate = FALSE
      /\ pendingResponses = <<>> /\ pendingChallenges = <<>>
      /\ sent = 0 /\ toGreetd = <<>> /\ readBuf = <<>> /\ replies = 0
  BY Zenon DEF Init
<1>1. TypeOK
  <2>1. ServiceTypeOK
    BY DEF Init, ServiceInit, ServiceTypeOK
  <2>2. GreetdTypes /\ RelayTypes /\ ConnTypes
    <3>1. /\ shown \in Nat /\ pendingResponses \in Seq({"Swallow", "Forward"})
          /\ pendingChallenges \in Seq(Step)
      BY <1>0
    <3> QED BY <1>0, <3>1, Zenon DEF GreetdTypes, RelayTypes, ConnTypes, GState, Phase
  <2>3. GreeterTypes /\ BrokerTypes
    BY DEF Init, GreeterTypes, BrokerTypes, Views
  <2>4. ReplyTypes /\ readBuf \in Seq(Requests) /\ polite \in Manners
    BY DEF Init, ReplyTypes
  <2> QED BY <2>1, <2>2, <2>3, <2>4, TypeParts, Zenon
<1>2. WiresInv
  BY DEF Init, ServiceInit, WiresInv, WireInv, RelayInv, FramesInv, ForwardInv, Listening
<1>3. MirrorAgrees /\ GrantInv
  <2>1. gstate \notin {"AuthSuccess", "Spawning", "AuthPending"}
    BY <1>0
  <2>2. MirrorAgrees /\ SuccessIsGranted
    BY <1>0, <2>1, Zenon DEF MirrorAgrees, SuccessIsGranted
  <2>3. \A i \in 1..Len(pendingChallenges) : FALSE
    BY <1>0
  <2> QED BY <2>2, <2>3, Zenon DEF GrantInv
<1>4. QueueInv
  BY DEF Init, QueueInv
<1>5. OneReplyEach
  <2>1. Len(toGreetd) = 0 /\ Len(readBuf) = 0
    BY <1>0
  <2>2. replies + 0 = sent - Len(toGreetd) - Len(readBuf)
    <3>1. replies = 0 /\ sent = 0
      BY <1>0, Zenon
    <3> QED BY <2>1, <3>1
  <2> QED BY <1>0, <2>2, Zenon DEF OneReplyEach
<1> QED BY <1>1, <1>2, <1>3, <1>4, <1>5 DEF Inv

\* Every step keeps it.
LEMMA NextInv == Inv /\ [Next]_vars => Inv'
<1> SUFFICES ASSUME Inv, [Next]_vars PROVE Inv'
  OBVIOUS
<1>1. CASE Next
  <2>1. CASE GreeterAsks \/ GreeterLearns \/ GreeterGoes
    BY <1>1, <2>1, GreeterInv, Zenon DEF Next
  <2>2. CASE ServiceListens
    BY <1>1, <2>2, ServiceListensInv, Zenon DEF Next
  <2>3. CASE ServiceTalks \/ ServiceReports
    BY <1>1, <2>3, ServiceSaysInv, Zenon DEF Next
  <2>4. CASE ServiceCloses
    BY <1>1, <2>4, ServiceClosesInv, Zenon DEF Next
  <2>5. CASE Drive
    BY <1>1, <2>5, DriveInv, Zenon DEF Next
  <2>6. CASE ReadGreeter
    BY <1>1, <2>6, ReadGreeterInv, Zenon DEF Next
  <2>7. CASE ReadGreeterEof \/ FlushGreeter \/ DropConn
    BY <1>1, <2>7, ConnInv, Zenon DEF Next
  <2>8. CASE BrokerConverses
    BY <1>1, <2>8, BrokerConversesInv, Zenon DEF Next
  <2>9. CASE BrokerDecides
    BY <1>1, <2>9, BrokerDecidesInv, Zenon DEF Next
  <2>10. CASE BrokerOpens \/ BrokerEnds
    BY <1>1, <2>10, BrokerMovesInv, Zenon DEF Next
  <2>11. CASE BrokerFails
    BY <1>1, <2>11, BrokerFailsInv, Zenon DEF Next
  <2> QED BY <1>1, <2>1, <2>2, <2>3, <2>4, <2>5, <2>6, <2>7, <2>8, <2>9, <2>10, <2>11, Zenon
          DEF Next, HandlerStep
<1>2. CASE UNCHANGED vars
  <2>1. /\ UNCHANGED greetdVars /\ UNCHANGED relayVars /\ UNCHANGED connVars
        /\ UNCHANGED greeterVars /\ UNCHANGED serviceVars
        /\ UNCHANGED <<toBroker, fromBroker, talks>> /\ UNCHANGED <<writeBuf, replies>>
        /\ UNCHANGED <<readBuf, polite>>
    BY <1>2, Zenon DEF vars, moving, brokerVars
  <2>2. TypeOK'
    BY <2>1, TypeParts, SameTypes, Zenon DEF Inv
  <2>3. /\ UNCHANGED <<gstate, shown, awaitingPam, closed, spawned>>
        /\ UNCHANGED <<sent, toGreetd, readBuf, replies>>
    BY <2>1 DEF greetdVars, connVars, greeterVars
  <2>4. WiresInv' /\ MirrorAgrees' /\ QueueInv' /\ GrantInv'
    BY <2>1, <2>3, QuietKeeps, Zenon
  <2>5. OneReplyEach'
    BY <2>3, Zenon DEF Inv, OneReplyEach
  <2> QED BY <2>2, <2>4, <2>5 DEF Inv
<1> QED BY <1>1, <1>2

\* The inductive invariant of an episode: the wires to and from the broker, the
\* queues of the relay and the state of the machine fit together.
THEOREM EpisodeInvariant == Spec => []Inv
  BY InitInv, NextInv, PTL DEF Spec

\* Type correctness of the Connection, the episode, the relay and the wires.
THEOREM EpisodeTypeCorrect == Spec => []TypeOK
<1>1. Inv => TypeOK
  BY Zenon DEF Inv
<1> QED BY <1>1, EpisodeInvariant, PTL

\* BrokerEpisode's copy of awaiting_pam agrees with the Connection's, and both
\* with its state, so that no step is resumed into a machine that does not wait
\* (act_on_demand, greetd_ready_for_challenge).
THEOREM MirrorAgreesSafe == Spec => []MirrorAgrees
<1>1. Inv => MirrorAgrees
  BY Zenon DEF Inv
<1> QED BY <1>1, EpisodeInvariant, PTL

\* The first frame on the wire, by its number.
LEMMA HeadOnWire ==
  ASSUME Inv, toBroker # <<>>
  PROVE  Head(toBroker) = toBroker[1]
<1>1. BrokerTypes
  BY TypeParts, Zenon DEF Inv
<1> QED BY <1>1, TailFacts DEF BrokerTypes

\* The relay never sends the broker a frame the broker does not wait for,
\* whatever the greeter pipelines or repeats (on_pam_step, start_session).
THEOREM ExpectedFramesOnlySafe == Spec => []ExpectedFramesOnly
<1>1. Inv => ExpectedFramesOnly
  BY HeadOnWire DEF Inv, WiresInv, WireInv, ExpectedFramesOnly
<1> QED BY <1>1, EpisodeInvariant, PTL

\* An answer that reaches the broker was given to the prompt it waits on, although
\* prompts and displays queue up before the greeter (on_pam_step, pending_responses).
THEOREM AnswersReachTheirPromptSafe == Spec => []AnswersReachTheirPrompt
<1>1. Inv => AnswersReachTheirPrompt
  BY HeadOnWire DEF Inv, WiresInv, WireInv, AnswersReachTheirPrompt
<1> QED BY <1>1, EpisodeInvariant, PTL

\* One reply for each request the Connection has taken, and one owed while PAM
\* works (feed_greeter, resume_pam).
THEOREM OneReplyEachSafe == Spec => []OneReplyEach
<1>1. Inv => OneReplyEach
  BY Zenon DEF Inv
<1> QED BY <1>1, EpisodeInvariant, PTL

\* Success is told, and a session asked for, only once PAM has granted it
\* (on_broker_frame, start_session).
THEOREM SuccessIsGrantedSafe == Spec => []SuccessIsGranted
<1>1. Inv => SuccessIsGranted
  BY Zenon DEF Inv, GrantInv
<1> QED BY <1>1, EpisodeInvariant, PTL

=============================================================================
