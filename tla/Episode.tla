------------------------------ MODULE Episode ------------------------------
(***************************************************************************)
(* One greeter connection inside the compositor: the sans-IO greetd        *)
(* Connection (halmasuit-greetd), the BrokerRelay and its BrokerEpisode    *)
(* (broker_relay.rs, broker_session.rs) and the calloop handlers that own  *)
(* them (ConnState in main.rs), between a greeter and the AuthService.     *)
(*                                                                         *)
(* The loop of Connection::drive takes one step per request.  No other     *)
(* callback runs until it has settled.  Challenges are numbered, so that   *)
(* an answer can be traced to the challenge it was given to.               *)
(***************************************************************************)
EXTENDS AuthService, Integers

CONSTANTS Manners,     \* TRUE: a greeter that waits for each reply before it goes on
          Requests,    \* what it may ask
          PamTalks,    \* what the PAM stack may send
          Faults,      \* "command": the session command is not found
          MaxRequests, \* bound on the requests of a run
          MaxTalks     \* bound on its conversation frames

ASSUME EpisodeAssumption ==
    /\ Manners \subseteq BOOLEAN
    /\ Requests \subseteq {"CreateSession", "PostAuthMessageResponse",
                           "StartSession", "CancelSession"}
    /\ PamTalks \subseteq {"ConvPrompt", "ConvDisplay"}
    /\ Faults \subseteq {"command"}
    /\ MaxRequests \in Nat /\ MaxTalks \in Nat

VARIABLES gstate,      \* Connection::state
          shown,       \* the challenge it showed last
          readBuf,     \* Connection::read_buf, as requests
          awaitingPam, \* Connection::awaiting_pam
          closed,      \* Connection::closed
          relay,       \* BrokerEpisode::relay, as its phase
          pendingResponses,   \* BrokerRelay::pending_responses
          pendingChallenges,  \* BrokerEpisode::pending_challenges
          ready,       \* BrokerEpisode::greetd_ready_for_challenge
          writeBuf,    \* ConnState::write_buf, as replies
          conn,        \* the ConnState and its greeter source
          spawned,     \* ConnState::spawned
          terminate,   \* ConnState::terminate
          polite,      \* the greeter is one of Manners
          view,        \* what a polite one last learnt
          asked,       \* its last request
          sent,        \* how many it has made
          toGreetd, toGreeter,   \* the greeter's socket, as far as it is read
          toBroker, fromBroker,  \* the broker's socket
          talks,       \* conversation frames so far
          replies      \* history: replies made so far

greetdVars == <<gstate, shown, awaitingPam, closed>>
relayVars == <<relay, pendingResponses, pendingChallenges, ready>>
connVars == <<conn, spawned, terminate>>
greeterVars == <<view, asked, sent, toGreetd, toGreeter>>
brokerVars == <<serviceVars, toBroker, fromBroker, talks>>
moving == <<greetdVars, readBuf, relayVars, writeBuf, connVars, greeterVars,
            brokerVars, replies>>
vars == <<moving, polite>>

Numbered(kinds) == [t : kinds, n : Nat]
Frame(k, n) == [t |-> k, n |-> n]
ReplyKinds == {"AuthMessage", "Success", "AuthError", "Error"}
Outcomes == {"Success", "SessionOpened", "SessionEnded", "Failure"}
Views == {"idle", "prompted", "authed", "started", "waiting", "gone"}

TypeOK ==
    /\ ServiceTypeOK
    /\ gstate \in {"Idle", "AuthPending", "Authenticating", "AuthSuccess",
                   "Spawning"}
    /\ shown \in Nat
    /\ readBuf \in Seq(Requests)
    /\ awaitingPam \in BOOLEAN /\ closed \in BOOLEAN /\ ready \in BOOLEAN
    /\ spawned \in BOOLEAN /\ terminate \in BOOLEAN
    /\ relay \in {"none", "Authing", "Authed", "Starting", "Running", "Done"}
    /\ pendingResponses \in Seq({"Swallow", "Forward"})
    /\ pendingChallenges \in Seq(Numbered({"Challenge", "Success", "Failure"}))
    /\ writeBuf \in Seq(ReplyKinds)
    /\ conn \in {"open", "detached", "dropping", "gone"}
    /\ view \in Views
    /\ asked \in Requests \cup {"nothing"}
    /\ sent \in 0..MaxRequests
    /\ toGreetd \in Seq(Requests)
    /\ toGreeter \in Seq(ReplyKinds)
    /\ toBroker \in Seq(Numbered({"BeginAuth", "ConvResponse", "StartSession"}))
    /\ fromBroker \in Seq(Numbered(PamTalks \cup Outcomes))
    /\ talks \in 0..MaxTalks
    /\ replies \in Nat
    /\ polite \in Manners

Init ==
    /\ ServiceInit
    /\ gstate = "Idle" /\ shown = 0 /\ readBuf = <<>>
    /\ awaitingPam = FALSE /\ closed = FALSE
    /\ relay = "none" /\ ready = FALSE
    /\ pendingResponses = <<>> /\ pendingChallenges = <<>>
    /\ writeBuf = <<>>
    /\ conn = "open" /\ spawned = FALSE /\ terminate = FALSE
    /\ view = "idle" /\ asked = "nothing" /\ sent = 0
    /\ toGreetd = <<>> /\ toGreeter = <<>>
    /\ toBroker = <<>> /\ fromBroker = <<>>
    /\ talks = 0
    /\ replies = 0
    /\ polite \in Manners

----------------------------------------------------------------------------
(* The greeter.                                                            *)

\* What a greeter that keeps the greetd protocol may ask next.
Polite ==
    CASE view = "idle" -> {"CreateSession"}
      [] view = "prompted" -> {"PostAuthMessageResponse", "CancelSession"}
      [] view = "authed" -> {"StartSession", "CancelSession"}
      [] OTHER -> {}

\* One that does not keep it asks anything, whatever it is told.
GreeterAsks ==
    /\ view # "gone" /\ conn = "open" /\ sent < MaxRequests
    /\ \E r \in Requests :
          /\ polite => r \in Polite
          /\ toGreetd' = Append(toGreetd, r)
          /\ asked' = IF polite THEN r ELSE asked
    /\ sent' = sent + 1
    /\ view' = IF polite THEN "waiting" ELSE view
    /\ UNCHANGED <<greetdVars, readBuf, relayVars, writeBuf, connVars,
                   toGreeter, brokerVars, replies>>

GreeterLearns ==
    /\ view # "gone" /\ toGreeter # <<>>
    /\ toGreeter' = Tail(toGreeter)
    /\ view' = CASE Head(toGreeter) = "AuthMessage" -> "prompted"
                 [] Head(toGreeter) = "Success" ->
                       IF asked = "StartSession" THEN "started"
                       ELSE IF asked = "CancelSession" THEN "idle" ELSE "authed"
                 [] OTHER -> "idle"
    /\ UNCHANGED <<greetdVars, readBuf, relayVars, writeBuf, connVars, asked,
                   sent, toGreetd, brokerVars, replies>>

GreeterGoes ==
    /\ view # "gone" /\ conn = "open"
    /\ view' = "gone"
    /\ UNCHANGED <<greetdVars, readBuf, relayVars, writeBuf, connVars, asked,
                   sent, toGreetd, toGreeter, brokerVars, replies>>

----------------------------------------------------------------------------
(* The service at the other end of the broker's socket.                    *)

ServiceStep ==
    UNCHANGED <<greetdVars, readBuf, relayVars, writeBuf, connVars,
                greeterVars, replies>>

\* A frame is sent unless the compositor has closed its end.
Says(k, n) ==
    /\ fromBroker' = IF conn = "gone" THEN fromBroker
                     ELSE Append(fromBroker, Frame(k, n))
    /\ UNCHANGED toBroker

Reads(k) ==
    /\ toBroker # <<>> /\ Head(toBroker).t = k
    /\ toBroker' = Tail(toBroker)
    /\ UNCHANGED <<fromBroker, talks>>

ServiceListens ==
    /\ \/ Reads("BeginAuth") /\ Accept
       \/ Reads("ConvResponse") /\ Answered
       \/ Reads("StartSession") /\ Start
    /\ ServiceStep

\* A prompt may come in any call that runs PAM modules, a display too.
ServiceTalks ==
    /\ svc = "working" /\ talks < MaxTalks
    /\ talks' = talks + 1
    /\ \/ /\ "ConvPrompt" \in PamTalks
          /\ Says("ConvPrompt", talks') /\ Ask
       \/ /\ "ConvDisplay" \in PamTalks
          /\ Says("ConvDisplay", talks') /\ UNCHANGED serviceVars
    /\ ServiceStep

ServiceReports ==
    /\ \/ Grant /\ Says("Success", 0)
       \/ Open /\ Says("SessionOpened", 0)
       \/ Finish("SessionEnded") /\ Says("SessionEnded", 0)
       \/ Finish("Failure") /\ Says("Failure", 0)
    /\ UNCHANGED talks
    /\ ServiceStep

\* The service closes the connection.  What it had not read makes the kernel
\* report a reset, ahead of what it had sent.
ServiceCloses ==
    /\ Close
    /\ fromBroker' = IF toBroker = <<>> THEN fromBroker ELSE <<>>
    /\ toBroker' = <<>>
    /\ UNCHANGED talks
    /\ ServiceStep

----------------------------------------------------------------------------
(* BrokerEpisode on top of Connection.                                     *)

\* Connection::drive has consumed what it can.
Settled == readBuf = <<>> \/ awaitingPam \/ closed

Reply(rs) ==
    /\ writeBuf' = writeBuf \o rs
    /\ replies' = replies + Len(rs)

\* fail_closed, after replies rs, in the state s the Connection is in.
FailClosed(rs, s, isClosed) ==
    /\ relay' = IF relay = "none" THEN "none" ELSE "Done"
    /\ Reply(IF isClosed \/ s = "Spawning" THEN rs ELSE Append(rs, "AuthError"))
    /\ gstate' = IF isClosed \/ s = "Spawning" THEN s ELSE "Idle"
    /\ closed' = TRUE /\ terminate' = TRUE
    /\ awaitingPam' = (awaitingPam /\ isClosed)
    /\ UNCHANGED <<shown, spawned>>

\* Connection::resume_pam with a step, in the state s.
ResumePam(step, s, awaiting) ==
    /\ ready' = FALSE
    /\ awaitingPam' = (closed /\ awaiting)
    /\ IF closed \/ ~awaiting
       THEN /\ Reply(IF closed THEN <<>> ELSE <<"Error">>)
            /\ closed' = TRUE /\ terminate' = TRUE
            /\ gstate' = s
            /\ UNCHANGED shown
       ELSE /\ gstate' = CASE step.t = "Challenge" -> "Authenticating"
                           [] step.t = "Success" -> "AuthSuccess"
                           [] step.t = "Failure" -> "Idle"
            /\ Reply(CASE step.t = "Challenge" -> <<"AuthMessage">>
                       [] step.t = "Success" -> <<"Success">>
                       [] step.t = "Failure" -> <<"AuthError">>)
            /\ shown' = IF step.t = "Challenge" THEN step.n ELSE shown
            /\ UNCHANGED <<closed, terminate>>
    /\ UNCHANGED spawned

SendFails == svc = "over"

\* Mutant: sending BeginAuth does not advance the phase.
SendSuspendedPreAuth(f, p) ==
    IF SendFails
    THEN FailClosed(<<>>, "AuthPending", FALSE) /\ UNCHANGED toBroker
    ELSE /\ toBroker' = Append(toBroker, f)
         /\ relay' = IF relay = "none" THEN "PreAuth" ELSE p
         /\ gstate' = "AuthPending" /\ awaitingPam' = TRUE
         /\ UNCHANGED <<shown, closed, terminate, spawned, writeBuf, replies>>

\* chan.send(f), with the relay then in phase p; the machine stays suspended.
SendSuspended(f, p) ==
    IF SendFails
    THEN FailClosed(<<>>, "AuthPending", FALSE) /\ UNCHANGED toBroker
    ELSE /\ toBroker' = Append(toBroker, f)
         /\ relay' = p
         /\ gstate' = "AuthPending" /\ awaitingPam' = TRUE
         /\ UNCHANGED <<shown, closed, terminate, spawned, writeBuf, replies>>

\* Mutant: the mirror of awaiting_pam is not set.
SuspendUnready ==
    /\ gstate' = "AuthPending" /\ awaitingPam' = TRUE /\ ready' = FALSE
    /\ UNCHANGED <<shown, closed, terminate, spawned, writeBuf, replies,
                   pendingChallenges>>

Suspend ==
    /\ gstate' = "AuthPending" /\ awaitingPam' = TRUE /\ ready' = TRUE
    /\ UNCHANGED <<shown, closed, terminate, spawned, writeBuf, replies,
                   pendingChallenges>>

\* Mutant: a challenge that arrived early is never shown.
FlushChallengeNever == Suspend

\* A response was swallowed: the next challenge is shown if it is here.
FlushChallenge ==
    IF pendingChallenges = <<>>
    THEN Suspend
    ELSE /\ ResumePam(Head(pendingChallenges), "AuthPending", TRUE)
         /\ pendingChallenges' = Tail(pendingChallenges)

\* act_on_demand for Demand::Pam, carrying the answer to challenge n (0: the
\* first round).
DemandPam(n) ==
    \/ /\ relay = "none"                 \* the relay is built, PreAuth
       /\ SendSuspended(Frame("BeginAuth", 0), "Authing")
       /\ ready' = TRUE
       /\ UNCHANGED <<pendingResponses, pendingChallenges>>
    \/ /\ relay = "Authing" /\ pendingResponses # <<>>
       /\ Head(pendingResponses) = "Forward"
       /\ SendSuspended(Frame("ConvResponse", n), "Authing")
       /\ pendingResponses' = Tail(pendingResponses)
       /\ ready' = TRUE
       /\ UNCHANGED pendingChallenges
    \/ /\ relay = "Authing" /\ pendingResponses # <<>>
       /\ Head(pendingResponses) = "Swallow"
       /\ pendingResponses' = Tail(pendingResponses)
       /\ FlushChallenge
       /\ UNCHANGED <<relay, toBroker>>
    \/ /\ relay # "none" /\ (relay = "Authing" => pendingResponses = <<>>)
       /\ FailClosed(<<>>, "AuthPending", FALSE)     \* OutOfPhase
       /\ ready' = TRUE
       /\ UNCHANGED <<pendingResponses, pendingChallenges, toBroker>>

\* act_on_demand for Demand::Spawn, after Response::Success.
DemandSpawn ==
    /\ \/ /\ relay # "Authed" \/ "command" \in Faults \/ SendFails
          /\ FailClosed(<<"Success">>, "Spawning", TRUE)
          /\ UNCHANGED toBroker
       \/ /\ relay = "Authed" /\ ~SendFails
          /\ toBroker' = Append(toBroker, Frame("StartSession", 0))
          /\ relay' = "Starting"
          /\ Reply(<<"Success">>)
          /\ gstate' = "Spawning" /\ closed' = TRUE
          /\ spawned' = TRUE
          /\ UNCHANGED <<shown, awaitingPam, terminate>>
    /\ UNCHANGED <<ready, pendingResponses, pendingChallenges>>

\* Mutant: StartSession is accepted before PAM has succeeded.
AcceptedEarly(s, r) ==
    \/ s = "Idle" /\ r = "CreateSession"
    \/ s = "Authenticating" /\ r = "PostAuthMessageResponse"
    \/ s \in {"Authenticating", "AuthSuccess"} /\ r = "StartSession"
    \/ s \in {"AuthPending", "Authenticating", "AuthSuccess"}
          /\ r = "CancelSession"

\* on_request, for the next request of the buffer.
Accepted(s, r) ==
    \/ s = "Idle" /\ r = "CreateSession"
    \/ s = "Authenticating" /\ r = "PostAuthMessageResponse"
    \/ s = "AuthSuccess" /\ r = "StartSession"
    \/ s \in {"AuthPending", "Authenticating", "AuthSuccess"}
          /\ r = "CancelSession"

Handles(r) ==
    /\ conn = "open" /\ ~Settled
    /\ Head(readBuf) = r
    /\ readBuf' = Tail(readBuf)
    /\ UNCHANGED <<conn, greeterVars, serviceVars, fromBroker, talks>>

DriveStarts ==
    /\ Handles("CreateSession") /\ Accepted(gstate, "CreateSession")
    /\ DemandPam(0)

DriveAnswers ==
    /\ Handles("PostAuthMessageResponse")
    /\ Accepted(gstate, "PostAuthMessageResponse")
    /\ DemandPam(shown)

DriveSpawns ==
    /\ Handles("StartSession") /\ Accepted(gstate, "StartSession")
    /\ DemandSpawn

DriveCancels ==
    /\ Handles("CancelSession") /\ Accepted(gstate, "CancelSession")
    /\ gstate' = "Idle"
    /\ Reply(<<"Success">>)
    /\ UNCHANGED <<shown, awaitingPam, closed, relayVars, spawned, terminate,
                   toBroker>>

\* Mutant: a protocol violation is dropped in silence.
DriveRefusesSilently ==
    /\ \E r \in Requests : Handles(r) /\ ~Accepted(gstate, r)
    /\ UNCHANGED <<greetdVars, relayVars, spawned, terminate, toBroker,
                   writeBuf, replies>>

\* A protocol violation: an error reply, and nothing else changes.
DriveRefuses ==
    /\ \E r \in Requests : Handles(r) /\ ~Accepted(gstate, r)
    /\ Reply(<<"Error">>)
    /\ UNCHANGED <<greetdVars, relayVars, spawned, terminate, toBroker>>

Drive == DriveStarts \/ DriveAnswers \/ DriveSpawns \/ DriveCancels \/ DriveRefuses

----------------------------------------------------------------------------
(* The calloop handlers.                                                   *)

\* handle_connection_ready reads a chunk: feed_greeter up to drive.
ReadGreeter ==
    /\ conn = "open" /\ Settled /\ toGreetd # <<>> /\ ~terminate
    /\ \E k \in 1..Len(toGreetd) :
          /\ toGreetd' = SubSeq(toGreetd, k + 1, Len(toGreetd))
          /\ readBuf' = IF closed \/ awaitingPam THEN readBuf
                        ELSE readBuf \o SubSeq(toGreetd, 1, k)
    /\ Reply(IF awaitingPam /\ ~closed THEN <<"Error">> ELSE <<>>)
    /\ closed' = (closed \/ awaitingPam)
    /\ terminate' = closed'
    /\ UNCHANGED <<gstate, shown, awaitingPam, relayVars, conn, spawned, view,
                   asked, sent, toGreeter, brokerVars>>

\* It reads the end of the stream.
ReadGreeterEof ==
    /\ conn = "open" /\ Settled /\ toGreetd = <<>> /\ view = "gone"
    /\ ~terminate /\ ~spawned
    /\ terminate' = TRUE
    /\ UNCHANGED <<greetdVars, readBuf, relayVars, writeBuf, conn, spawned,
                   greeterVars, brokerVars, replies>>

\* It flushes the replies and decides what to tear down.  The socket is
\* watched for writing too, so this callback always comes.
FlushGreeter ==
    /\ conn = "open" /\ Settled
    /\ writeBuf # <<>> \/ terminate \/ spawned
    /\ writeBuf' = <<>>
    /\ toGreeter' = IF polite /\ view # "gone" THEN toGreeter \o writeBuf ELSE toGreeter
    /\ terminate' = (terminate \/ (view = "gone" /\ writeBuf # <<>> /\ ~spawned))
    /\ conn' = IF terminate' THEN "gone" ELSE IF spawned THEN "detached" ELSE conn
    /\ UNCHANGED <<greetdVars, readBuf, relayVars, spawned, view, asked, sent,
                   toGreetd, brokerVars, replies>>

\* on_broker_readable up to the frame.
BrokerReadable == conn \in {"open", "detached"} /\ Settled

\* Mutant: the ConnState outlives its episode.
LeaveStays == conn' = conn

\* What handle_broker_ready leaves of the ConnState: with no greeter source
\* left, it is dropped in an idle callback.
Leave == conn' = IF terminate' /\ conn = "detached" THEN "dropping" ELSE conn

Takes(f) ==
    /\ BrokerReadable /\ fromBroker # <<>> /\ Head(fromBroker) = f
    /\ fromBroker' = Tail(fromBroker)
    /\ UNCHANGED <<readBuf, greeterVars, serviceVars, toBroker, talks>>

\* The step goes to the suspended machine, or waits until it is suspended.
Deliver(step) ==
    IF ready
    THEN ResumePam(step, gstate, awaitingPam) /\ UNCHANGED pendingChallenges
    ELSE /\ pendingChallenges' = Append(pendingChallenges, step)
         /\ UNCHANGED <<greetdVars, ready, spawned, terminate, writeBuf, replies>>

\* Mutant: a display is answered like a prompt.
PendingForwardAlways(t) == Append(pendingResponses, "Forward")

\* Mutant: a flag in place of the queue.
PendingLastOnly(t) == <<IF t = "ConvPrompt" THEN "Forward" ELSE "Swallow">>

\* What the greeter's response to a conversation frame will be good for.
Pending(t) ==
    Append(pendingResponses, IF t = "ConvPrompt" THEN "Forward" ELSE "Swallow")

BrokerConverses ==
    /\ \E t \in PamTalks, n \in 1..talks :
          /\ Takes(Frame(t, n)) /\ relay = "Authing"
          /\ pendingResponses' = Pending(t)
          /\ Deliver(Frame("Challenge", n))
    /\ UNCHANGED relay
    /\ Leave

BrokerDecides ==
    /\ \E t \in {"Success", "Failure"} :
          /\ Takes(Frame(t, 0)) /\ relay = "Authing"
          /\ relay' = IF t = "Success" THEN "Authed" ELSE "Done"
          /\ Deliver(Frame(t, 0))
    /\ UNCHANGED pendingResponses
    /\ Leave

BrokerOpens ==
    /\ Takes(Frame("SessionOpened", 0)) /\ relay = "Starting"
    /\ relay' = "Running"
    /\ UNCHANGED <<greetdVars, pendingResponses, pendingChallenges, ready,
                   writeBuf, replies, spawned, terminate>>
    /\ Leave

BrokerEnds ==
    /\ Takes(Frame("SessionEnded", 0)) /\ relay = "Running"
    /\ relay' = "Done"
    /\ terminate' = TRUE
    /\ UNCHANGED <<greetdVars, pendingResponses, pendingChallenges, ready,
                   writeBuf, replies, spawned>>
    /\ Leave

\* Out of phase, or the end of the channel.
InPhase(t) ==
    \/ relay = "Authing" /\ t \in {"ConvPrompt", "ConvDisplay", "Success", "Failure"}
    \/ relay = "Starting" /\ t = "SessionOpened"
    \/ relay = "Running" /\ t = "SessionEnded"

BrokerFails ==
    /\ BrokerReadable
    /\ \/ /\ fromBroker # <<>> /\ ~InPhase(Head(fromBroker).t)
          /\ fromBroker' = Tail(fromBroker)
       \/ /\ fromBroker = <<>> /\ svc = "over"
          /\ UNCHANGED fromBroker
    /\ FailClosed(<<>>, gstate, closed)
    /\ UNCHANGED <<readBuf, pendingResponses, pendingChallenges, ready,
                   greeterVars, serviceVars, toBroker, talks>>
    /\ Leave

DropConn ==
    /\ conn = "dropping"
    /\ conn' = "gone"
    /\ UNCHANGED <<greetdVars, readBuf, relayVars, writeBuf, spawned, terminate,
                   greeterVars, brokerVars, replies>>

----------------------------------------------------------------------------
HandlerStep ==
    \/ Drive \/ ReadGreeter \/ ReadGreeterEof \/ FlushGreeter
    \/ BrokerConverses \/ BrokerDecides \/ BrokerOpens \/ BrokerEnds
    \/ BrokerFails \/ DropConn

Next ==
    /\ \/ GreeterAsks \/ GreeterLearns \/ GreeterGoes
       \/ ServiceListens \/ ServiceTalks \/ ServiceReports \/ ServiceCloses
       \/ HandlerStep
    /\ UNCHANGED polite

Spec == Init /\ [][Next]_vars

\* calloop serves every source that stays ready; a polite greeter reads what
\* it is sent; the broker reads what it waits for, its PAM calls return, and
\* it notices a hang-up.  A session need not end, nor a greeter go on.
Fairness ==
    /\ WF_moving(Drive) /\ WF_moving(ReadGreeter) /\ WF_moving(ReadGreeterEof)
    /\ WF_moving(FlushGreeter) /\ WF_moving(DropConn)
    /\ WF_moving(BrokerConverses \/ BrokerDecides \/ BrokerOpens \/ BrokerEnds
                  \/ BrokerFails)
    /\ WF_moving(GreeterLearns)
    /\ WF_moving(ServiceListens)
    /\ WF_moving(Len(told) < 2 /\ (ServiceTalks \/ ServiceReports))
    /\ WF_moving(conn = "gone" /\ ServiceCloses)

FairSpec == Spec /\ Fairness

----------------------------------------------------------------------------
(* What an episode promises.                                               *)

\* greetd_ready_for_challenge mirrors awaiting_pam, and both say that the
\* machine is suspended in AuthPending: a step is never resumed into a
\* machine that does not wait for it, nor held back from one that does.
MirrorAgrees ==
    ~closed => /\ ready = awaitingPam
               /\ awaitingPam <=> gstate = "AuthPending"

\* Whatever the greeter does, the compositor never sends the broker a frame
\* the broker does not expect.
ExpectedFramesOnly ==
    toBroker # <<>> /\ svc # "over" =>
        /\ Len(toBroker) = 1
        /\ <<svc, Head(toBroker).t>> \in {<<"waiting", "BeginAuth">>,
               <<"asking", "ConvResponse">>, <<"granted", "StartSession">>}

\* The answer the broker gets was given to the very prompt it asked, or it is
\* the empty one that starting over after a CancelSession sends.
AnswersReachTheirPrompt ==
    toBroker # <<>> /\ Head(toBroker).t = "ConvResponse" =>
        Head(toBroker).n \in {0, talks}

\* Every request gets exactly one reply, in turn, and one is owed exactly
\* while a PAM round is in flight.
OneReplyEach ==
    ~closed => replies + (IF awaitingPam THEN 1 ELSE 0)
                  = sent - Len(toGreetd) - Len(readBuf)

\* The greeter is told Success for a login only when PAM granted it, and the
\* relay asks for a session only then.
SuccessIsGranted ==
    gstate \in {"AuthSuccess", "Spawning"} \/ spawned =>
        told # <<>> /\ told[1] = "Success"

\* A polite greeter that waits for a reply gets one, or the connection ends:
\* it does not wait for ever.
ReplyEventually == []<>(polite /\ view = "waiting" => conn = "gone")

\* Once the broker is through with the connection, so is the compositor, in the
\* end (neither takes it up again).
EpisodeEnds == []<>(svc = "over" => conn = "gone")

----------------------------------------------------------------------------
(* What comments say, and the code does not do.                            *)

\* A login the broker granted is not failed while greeter and broker behave.
GrantSurvives == svc = "granted" /\ view # "gone" => ~terminate
=============================================================================
