--------------------------- MODULE CompositorProofs ---------------------------
(***************************************************************************)
(* Safety of the compositor's process: which signals end it and for which  *)
(* request a passphrase was typed, through the boot pivot; its page flips  *)
(* and the DRM master, for any number of outputs.                          *)
(***************************************************************************)
EXTENDS Boot, Display, TLAPS

USE DEF Senders, Start

\* Why a stop signal that is taken is a stop: the stop signals are armed only
\* after the pivot, when the kill spree's SIGTERM has been dispatched; the lock
\* is let go only with shutting_down latched; and systemd-shutdown comes with a
\* lock that is not held or an announcement that nobody heard.
ArmedAfterPivot ==
    /\ initrd => phase = "Awaiting"
    /\ phase # "Dropped" => ~shutdown_armed
    /\ "spree" \in signals => ~shutdown_armed
LockLetGo == inhibitor = "released" => shutting_down
ShutdownNotHeldBack == "shutdown" \in sent => inhibitor # "held" \/ announced = "missed"
LifeInv == LifeTypeOK /\ ArmedAfterPivot /\ LockLetGo /\ ShutdownNotHeldBack
             /\ ExitsOnlyWhenStopped

USE DEF LifeInv, ArmedAfterPivot, LockLetGo, ShutdownNotHeldBack

\* The compositor starts with it, in the initramfs or in the rootfs.
LEMMA LifeInitInv == LifeInit => LifeInv
  BY LifecycleAssumption, Zenon DEF LifeInit, LifeTypeOK, ExitsOnlyWhenStopped

\* Signals, the announcement, the watcher, the session and switch-root keep it.
LEMMA LifeEnvInv ==
  ASSUME LifeInv, LifeEnv \/ SwitchRoot
  PROVE  LifeInv'
<1>1. CASE \E who \in Senders : StopSent(who)
  BY <1>1 DEF StopSent, LifeTypeOK, ExitsOnlyWhenStopped, pivotVars
<1>2. CASE ShutdownAnnounced
  BY <1>2 DEF ShutdownAnnounced, LifeTypeOK, ExitsOnlyWhenStopped, pivotVars
<1>3. CASE WatcherRuns
  BY <1>3 DEF WatcherRuns, LifeTypeOK, ExitsOnlyWhenStopped, pivotVars, stopVars
<1>4. CASE SessionMoves
  BY <1>4 DEF SessionMoves, LifeTypeOK, ExitsOnlyWhenStopped, pivotVars, stopVars
<1>5. CASE SwitchRoot
  <2>1. /\ initrd' = FALSE
        /\ UNCHANGED <<phase, shutdown_armed, watcher, session, shutting_down, should_exit,
                       inhibitor, announced, signals, sent, graceful_deadline, exited>>
    BY <1>5 DEF SwitchRoot, MarkerGoes, pivotVars, stopVars
  <2>2. LifeTypeOK'
    <3>1. initrd' \in BOOLEAN
      BY <2>1, Zenon
    <3>2. /\ shutdown_armed' \in BOOLEAN /\ shutting_down' \in BOOLEAN
          /\ should_exit' \in BOOLEAN /\ exited' \in BOOLEAN
          /\ session' \in BOOLEAN /\ graceful_deadline' \in BOOLEAN
      BY <2>1 DEF LifeTypeOK
    <3>3. /\ phase' \in {"Awaiting", "Connecting", "AwaitingReply", "Setup", "Dropped"}
          /\ inhibitor' \in {"none", "held", "released"}
          /\ watcher' \in {"starting", "subscribed", "gone"}
          /\ announced' \in {"no", "missed", "sent", "read"}
          /\ signals' \subseteq sent' /\ sent' \subseteq Senders
      BY <2>1 DEF LifeTypeOK
    <3> QED BY <3>1, <3>2, <3>3 DEF LifeTypeOK
  <2>3. ArmedAfterPivot' /\ LockLetGo' /\ ShutdownNotHeldBack' /\ ExitsOnlyWhenStopped'
    BY <2>1 DEF ExitsOnlyWhenStopped
  <2> QED BY <2>2, <2>3
<1> QED BY <1>1, <1>2, <1>3, <1>4, <1>5 DEF LifeEnv

\* So does every callback of the main loop and every tick of the pivot timer.
LEMMA LoopStepInv ==
  ASSUME LifeInv, LoopStep
  PROVE  LifeInv'
<1>1. CASE SignalRead
  <2>1. UNCHANGED <<initrd, phase, shutdown_armed, watcher, session, shutting_down,
                    inhibitor, announced, sent, graceful_deadline, exited>>
        /\ signals' = {}
    BY <1>1 DEF SignalRead, pivotVars
  <2>2. LifeTypeOK' /\ ArmedAfterPivot' /\ LockLetGo' /\ ShutdownNotHeldBack'
    BY <1>1, <2>1 DEF SignalRead, LifeTypeOK
  <2>3. ASSUME should_exit', ~should_exit
        PROVE  "stop" \in sent \/ ("shutdown" \in sent /\ inhibitor # "released")
    <3>1. shutdown_armed /\ ~shutting_down /\ signals # {}
      BY <1>1, <2>3, Zenon DEF SignalRead, StopIgnored
    <3>2. "spree" \notin signals /\ signals \subseteq sent /\ signals \subseteq Senders
      BY <3>1 DEF LifeTypeOK
    <3> QED BY <3>1, <3>2, Zenon
  <2>4. ExitsOnlyWhenStopped'
    BY <2>1, <2>3 DEF ExitsOnlyWhenStopped, LifeTypeOK
  <2> QED BY <2>2, <2>4
<1>2. CASE AnnouncementRead
  <2>1. /\ announced = "sent" /\ announced' = "read" /\ session' = FALSE /\ shutting_down' = TRUE
        /\ inhibitor' = IF inhibitor = "held" THEN "released" ELSE inhibitor
        /\ UNCHANGED <<initrd, phase, shutdown_armed, watcher, should_exit, signals, sent,
                       graceful_deadline, exited>>
    BY <1>2 DEF AnnouncementRead, GracefulShutdown, pivotVars
  <2>2. LifeTypeOK'
    BY <2>1, Zenon DEF LifeTypeOK
  <2>3. ArmedAfterPivot' /\ LockLetGo' /\ ShutdownNotHeldBack' /\ ExitsOnlyWhenStopped'
    BY <2>1 DEF ExitsOnlyWhenStopped
  <2> QED BY <2>2, <2>3
<1>3. CASE AskSessionToClose
  BY <1>3 DEF AskSessionToClose, LifeTypeOK, ExitsOnlyWhenStopped, pivotVars
<1>4. CASE Exit
  BY <1>4 DEF Exit, LifeTypeOK, ExitsOnlyWhenStopped, pivotVars
<1>5. CASE PivotSeen
  BY <1>5 DEF PivotSeen, LifeTypeOK, ExitsOnlyWhenStopped, stopVars
<1>6. CASE PivotConnects
  BY <1>6 DEF PivotConnects, Tick, LifeTypeOK, ExitsOnlyWhenStopped, stopVars
<1>7. CASE PivotReplied
  BY <1>7 DEF PivotReplied, Tick, LifeTypeOK, ExitsOnlyWhenStopped, stopVars
<1>8. CASE PivotSetup
  BY <1>8 DEF PivotSetup, Tick, LifeTypeOK, ExitsOnlyWhenStopped, stopVars
<1> QED BY <1>1, <1>2, <1>3, <1>4, <1>5, <1>6, <1>7, <1>8 DEF LoopStep

\* A step of the LUKS prompt leaves the compositor alone.
LEMMA LifeStutterInv ==
  ASSUME LifeInv, UNCHANGED lifeVars
  PROVE  LifeInv'
  BY DEF lifeVars, LifeTypeOK, ExitsOnlyWhenStopped, pivotVars, stopVars

----------------------------------------------------------------------------

\* Why a passphrase is for its request: every character in the buffer was typed
\* for the current prompt, and a prompt that ends takes the buffer with it.
BufferIsPrompts ==
    /\ Range(passphrase) \subseteq {current_request}
    /\ current_request = None => passphrase = <<>>
LuksInv == LuksTypeOK /\ BufferIsPrompts /\ TypedForThisRequest

\* A buffer that was cleared holds nothing that was typed.
LEMMA EmptyRange == Range(<<>>) = {} /\ <<>> \in Seq(Requests)
<1>1. DOMAIN <<>> = {}
  OBVIOUS
<1> QED BY <1>1 DEF Range

\* The agent starts with an empty buffer and has answered nothing.
LEMMA LuksInitInv == LuksInit /\ initrd \in BOOLEAN => LuksInv
<1> SUFFICES ASSUME LuksInit, initrd \in BOOLEAN
             PROVE  LuksInv
  OBVIOUS
<1>1. LuksTypeOK /\ BufferIsPrompts
  BY EmptyRange, LuksAssumption, Zenon DEF LuksInit, LuksTypeOK, BufferIsPrompts
<1>2. TypedForThisRequest
  BY DEF LuksInit, TypedForThisRequest
<1> QED BY <1>1, <1>2 DEF LuksInv

\* What a request's socket receives keeps the invariant, if it is not a
\* passphrase or one typed for it.
LEMMA SendInv ==
  ASSUME LuksInv, NEW q \in Requests, NEW datagram, Send(q, datagram),
         \/ datagram = [kind |-> "cancel"]
         \/ datagram = [kind |-> "typed", typed |-> passphrase] /\ q = current_request
  PROVE  /\ received' \in [Requests -> [kind : {"none", "cancel", "file"}] \cup
                                        [kind : {"typed"}, typed : Seq(Requests)]]
         /\ \A r \in Requests :
               received'[r].kind = "typed" => Range(received'[r].typed) \subseteq {r}
<1>1. datagram \in [kind : {"none", "cancel", "file"}] \cup
                   [kind : {"typed"}, typed : Seq(Requests)]
  BY DEF LuksInv, LuksTypeOK
<1>2. datagram.kind = "typed" => Range(datagram.typed) \subseteq {q}
  BY DEF LuksInv, BufferIsPrompts
<1> QED BY <1>1, <1>2, Zenon DEF Send, LuksInv, LuksTypeOK, TypedForThisRequest

\* poll_external_state and run_noninteractive never carry typed characters from
\* one request to the next.
LEMMA PollInv ==
  ASSUME LuksInv, initrd \in BOOLEAN, Poll
  PROVE  LuksInv'
<1>1. CASE PollPivotOver
  <2>1. CASE current_request = None
    BY <1>1, <2>1, Zenon DEF PollPivotOver, LuksInv, LuksTypeOK, BufferIsPrompts,
                      TypedForThisRequest, modeVars, promptVars
  <2>2. CASE current_request # None
    <3>1. Send(current_request, [kind |-> "cancel"]) /\ current_request \in Requests
      BY <1>1, <2>2 DEF PollPivotOver, LuksInv, LuksTypeOK
    <3>2. /\ received' \in [Requests -> [kind : {"none", "cancel", "file"}] \cup
                                         [kind : {"typed"}, typed : Seq(Requests)]]
          /\ TypedForThisRequest'
      BY <3>1, SendInv, Zenon DEF TypedForThisRequest
    <3> QED BY <1>1, <3>2 DEF PollPivotOver, LuksInv, LuksTypeOK, BufferIsPrompts,
                              modeVars, promptVars
  <2> QED BY <2>1, <2>2
<1>2. CASE PollRequestGone
  BY <1>2, EmptyRange, Zenon DEF PollRequestGone, Forget, LuksInv, LuksTypeOK,
              BufferIsPrompts, TypedForThisRequest, modeVars
<1>3. CASE PollNewRequest
  <2>1. Head(ask_dir) \in Requests \ garbled
    BY <1>3 DEF PollNewRequest, LuksInv, LuksTypeOK
  <2> QED BY <1>3, <2>1, EmptyRange, LuksAssumption, Zenon
             DEF PollNewRequest, Forget, LuksInv, LuksTypeOK, BufferIsPrompts,
                 TypedForThisRequest, modeVars
<1>4. CASE RespondAll
  BY <1>4, Zenon DEF RespondAll, LuksInv, LuksTypeOK, BufferIsPrompts,
              TypedForThisRequest, modeVars, promptVars
<1>5. CASE RespondPivotOver
  BY <1>5, Zenon DEF RespondPivotOver, LuksInv, LuksTypeOK, BufferIsPrompts,
              TypedForThisRequest, modeVars, promptVars
<1> QED BY <1>1, <1>2, <1>3, <1>4, <1>5 DEF Poll

\* Keys are typed for the request that is prompted for, and sent to it.
LEMMA KeyInv ==
  ASSUME LuksInv, Key
  PROVE  LuksInv'
<1>0. interactive \in BOOLEAN /\ luks_should_exit \in BOOLEAN
  BY DEF LuksInv, LuksTypeOK
<1>1. CASE type_char
  <2>1. current_request \in Requests
    BY <1>1 DEF type_char, LuksInv, LuksTypeOK
  <2>2. passphrase' = Append(passphrase, current_request) /\ passphrase \in Seq(Requests)
    BY <1>1 DEF type_char, LuksInv, LuksTypeOK
  <2>3. passphrase' \in Seq(Requests) /\ Range(passphrase') \subseteq {current_request}
    BY <2>1, <2>2 DEF LuksInv, BufferIsPrompts, Range
  <2> QED BY <1>1, <2>3, Zenon DEF type_char, LuksInv, LuksTypeOK, BufferIsPrompts,
                            TypedForThisRequest, modeVars
<1>2. CASE backspace
  <2>1. /\ passphrase \in Seq(Requests) /\ passphrase # <<>>
        /\ passphrase' = SubSeq(passphrase, 1, Len(passphrase) - 1)
    BY <1>2 DEF backspace, LuksInv, LuksTypeOK
  <2>2. passphrase' \in Seq(Requests) /\ Range(passphrase') \subseteq Range(passphrase)
    BY <2>1 DEF Range
  <2> QED BY <1>2, <2>2, Zenon DEF backspace, LuksInv, LuksTypeOK, BufferIsPrompts,
                            TypedForThisRequest, modeVars
<1>3. CASE submit
  <2>1. /\ Send(current_request, [kind |-> "typed", typed |-> passphrase])
        /\ current_request \in Requests
    BY <1>3 DEF submit, LuksInv, LuksTypeOK
  <2>2. /\ received' \in [Requests -> [kind : {"none", "cancel", "file"}] \cup
                                       [kind : {"typed"}, typed : Seq(Requests)]]
        /\ TypedForThisRequest'
    BY <2>1, SendInv, Zenon DEF TypedForThisRequest
  <2> QED BY <1>3, <2>2, EmptyRange, Zenon DEF submit, Forget, LuksInv, LuksTypeOK,
                                        BufferIsPrompts, modeVars
<1>4. CASE cancel /\ current_request = None
  BY <1>4, Zenon DEF cancel, LuksInv, LuksTypeOK, BufferIsPrompts, TypedForThisRequest,
              modeVars, promptVars
<1>5. CASE cancel /\ current_request # None
  <2>1. Send(current_request, [kind |-> "cancel"]) /\ current_request \in Requests
    BY <1>5 DEF cancel, LuksInv, LuksTypeOK
  <2>2. /\ received' \in [Requests -> [kind : {"none", "cancel", "file"}] \cup
                                       [kind : {"typed"}, typed : Seq(Requests)]]
        /\ TypedForThisRequest'
    BY <2>1, SendInv, Zenon DEF TypedForThisRequest
  <2> QED BY <1>5, <2>2, EmptyRange, Zenon DEF cancel, Forget, LuksInv, LuksTypeOK,
                                        BufferIsPrompts, modeVars
<1> QED BY <1>1, <1>2, <1>3, <1>4, <1>5 DEF Key

\* Request files that come and go change nothing that was typed or sent.
LEMMA LuksEnvInv ==
  ASSUME LuksInv, LuksEnv
  PROVE  LuksInv'
<1>1. ASSUME NEW q \in Requests, RequestMade(q)
      PROVE  LuksInv'
  <2>1. ask_dir \in Seq(Requests) /\ <<q>> \in Seq(Requests)
    BY DEF LuksInv, LuksTypeOK
  <2>2. <<q>> \o ask_dir \in Seq(Requests) /\ Append(ask_dir, q) \in Seq(Requests)
    BY <2>1
  <2>3. ask_dir' \in Seq(Requests)
    BY <1>1, <2>2, Zenon DEF RequestMade
  <2> QED BY <1>1, <2>3, Zenon DEF RequestMade, LuksInv, LuksTypeOK, BufferIsPrompts,
                            TypedForThisRequest, modeVars, promptVars
<1>2. ASSUME NEW q \in Requests, RequestRemoved(q)
      PROVE  LuksInv'
  <2>1. PICK i \in 1..Len(ask_dir) :
           ask_dir' = SubSeq(ask_dir, 1, i - 1) \o SubSeq(ask_dir, i + 1, Len(ask_dir))
    BY <1>2, Zenon DEF RequestRemoved
  <2>2. /\ SubSeq(ask_dir, 1, i - 1) \in Seq(Requests)
        /\ SubSeq(ask_dir, i + 1, Len(ask_dir)) \in Seq(Requests)
    BY DEF LuksInv, LuksTypeOK
  <2>3. ask_dir' \in Seq(Requests)
    BY <2>1, <2>2
  <2> QED BY <1>2, <2>3, Zenon DEF RequestRemoved, LuksInv, LuksTypeOK, BufferIsPrompts,
                            TypedForThisRequest, modeVars, promptVars
<1> QED BY <1>1, <1>2 DEF LuksEnv

\* A step of the compositor leaves the LUKS prompt alone.
LEMMA LuksStutterInv ==
  ASSUME LuksInv, UNCHANGED luksVars
  PROVE  LuksInv'
  BY Zenon DEF LuksInv, LuksTypeOK, BufferIsPrompts, TypedForThisRequest,
         luksVars, modeVars, promptVars

----------------------------------------------------------------------------

\* Every step of the prompt keeps its invariant.
LEMMA LuksStepInv ==
  ASSUME LuksInv, initrd \in BOOLEAN, LuksStep
  PROVE  LuksInv'
  BY PollInv, KeyInv, LuksEnvInv DEF LuksStep

\* Every step of the boot keeps both invariants.
LEMMA BootStepInv ==
  ASSUME LifeInv, LuksInv, [Next]_vars
  PROVE  LifeInv' /\ LuksInv'
<1>0. initrd \in BOOLEAN
  BY DEF LifeTypeOK
<1>1. CASE LifeNext /\ UNCHANGED luksVars
  BY <1>1, LifeEnvInv, LoopStepInv, LuksStutterInv DEF LifeNext
<1>2. CASE SwitchRoot /\ UNCHANGED luksVars
  BY <1>2, LifeEnvInv, LuksStutterInv
<1>3. CASE LuksStep /\ UNCHANGED lifeVars
  BY <1>0, <1>3, LuksStepInv, LifeStutterInv
<1>4. CASE UNCHANGED vars
  BY <1>4, LifeStutterInv, LuksStutterInv DEF vars
<1> QED BY <1>1, <1>2, <1>3, <1>4 DEF Next

\* Along every behaviour, however the compositor was started, whoever sends the
\* signals and whatever requests come and go, both invariants hold.
LEMMA BootInv == Spec => [](LifeInv /\ LuksInv)
<1>1. Init => LifeInv /\ LuksInv
  BY LifeInitInv, LuksInitInv DEF Init, LifeTypeOK
<1>2. (LifeInv /\ LuksInv) /\ [Next]_vars => (LifeInv /\ LuksInv)'
  BY BootStepInv
<1> QED BY <1>1, <1>2, PTL DEF Spec

\* Types, for any set of request files and any passphrase length.
THEOREM BootTypeCorrect == Spec => []TypeOK
<1>1. LifeInv /\ LuksInv => TypeOK
  BY DEF TypeOK, LuksInv
<1> QED BY <1>1, BootInv, PTL

\* The SIGTERM of the kill spree never ends the compositor, and a shutdown of
\* the system does so only where the delay lock or the announcement is missing
\* (the signal source of main.rs, graceful_shutdown).
THEOREM ExitsOnlyWhenStoppedSafe == Spec => []ExitsOnlyWhenStopped
<1>1. LifeInv /\ LuksInv => ExitsOnlyWhenStopped
  OBVIOUS
<1> QED BY <1>1, BootInv, PTL

\* A passphrase only reaches the request it was typed for, however files come
\* and go between two polls (poll_external_state, submit).
THEOREM TypedForThisRequestSafe == Spec => []TypedForThisRequest
<1>1. LifeInv /\ LuksInv => TypedForThisRequest
  BY DEF LuksInv
<1> QED BY <1>1, BootInv, PTL

----------------------------------------------------------------------------
(* The display.                                                            *)

HIDE DEF LifeInv, ArmedAfterPivot, LockLetGo, ShutdownNotHeldBack
USE DisplayAssumption DEF Output, Frame, NoFrame, flagVars

\* One output's share of FlipsAccountedFor.
Accounted(r) ==
    /\ r.pending <=> r.flip # NoFrame
    /\ r.queued # NoFrame => r.pending

\* A render of an output makes an output state of it, and keeps count.
LEMMA RenderAccounted ==
  ASSUME NEW r \in OutState, NEW f \in Frame, NEW forced \in BOOLEAN, master \in BOOLEAN
  PROVE  /\ render_one_output(r, f, forced) \in OutState
         /\ Accounted(r) => Accounted(render_one_output(r, f, forced))
<1>1. CASE ~Damaged(r, f, forced)
  BY <1>1 DEF render_one_output
<1>2. CASE Damaged(r, f, forced) /\ r.pending
  BY <1>2, Zenon DEF render_one_output, queue_frame, OutState, Accounted
<1>3. CASE Damaged(r, f, forced) /\ ~r.pending /\ master
  <2> DEFINE s == [[r EXCEPT !.rendered = f] EXCEPT !.flip = f, !.pending = TRUE]
  <2>1. render_one_output(r, f, forced) = s
    BY <1>3 DEF render_one_output, queue_frame, Submit, OutState
  <2>2. s \in OutState /\ s.flip = f /\ s.pending /\ s.queued = r.queued
    BY Zenon DEF OutState
  <2> QED BY <2>1, <2>2 DEF Accounted
<1>4. CASE Damaged(r, f, forced) /\ ~r.pending /\ ~master
  BY <1>4 DEF render_one_output, queue_frame, Submit, OutState, Accounted
<1> QED BY <1>1, <1>2, <1>3, <1>4

\* So does render_all, wherever its loop ends.
LEMMA RenderAllAccounted ==
  ASSUME DisplayTypeOK, NEW f \in Frame, NEW forced \in BOOLEAN, render_all(f, forced)
  PROVE  /\ out' \in [Output -> OutState]
         /\ \A o \in Output : Accounted(out[o]) => Accounted(out'[o])
<1>1. \A o \in Output : out'[o] \in {out[o], render_one_output(out[o], f, forced)}
  BY DEF render_all
<1>2. DOMAIN out' = Output /\ out' = [o \in Output |-> out'[o]]
  BY DEF render_all
<1>3. master \in BOOLEAN /\ \A o \in Output : out[o] \in OutState
  BY DEF DisplayTypeOK
<1> QED BY <1>1, <1>2, <1>3, RenderAccounted

\* The end of a flip: the kernel's flip is over and the pending one is cleared,
\* or replaced by the queued frame.
LEMMA SubmittedAccounted ==
  ASSUME NEW r \in OutState, r.flip = NoFrame, master \in BOOLEAN
  PROVE  frame_submitted(r) \in OutState /\ Accounted(frame_submitted(r))
<1> DEFINE done == [r EXCEPT !.pending = FALSE, !.queued = NoFrame]
<1>1. done \in OutState /\ done.flip = NoFrame /\ ~done.pending /\ done.queued = NoFrame
  BY Zenon DEF OutState
<1>2. CASE r.queued = NoFrame
  BY <1>1, <1>2 DEF frame_submitted, Accounted
<1>3. CASE r.queued # NoFrame
  <2>1. r.queued \in Frame
    BY <1>3 DEF OutState
  <2> QED BY <1>1, <1>3, <2>1, Zenon DEF frame_submitted, Submit, Accounted, OutState
<1> QED BY <1>2, <1>3

----------------------------------------------------------------------------

\* The inductive invariant.  A pending acqsig says that the VT is ours.
Inv == /\ DisplayTypeOK /\ FlipsAccountedFor /\ MasterFollowsVt
       /\ "acq" \in vtSignals => vt = "home"

FlipInv == out \in [Output -> OutState] /\ FlipsAccountedFor

\* render_all keeps FlipsAccountedFor.
LEMMA RenderAllFlips ==
  ASSUME DisplayTypeOK, FlipsAccountedFor, NEW f \in Frame, NEW forced \in BOOLEAN,
         render_all(f, forced), ~shutdown' => ~shutdown
  PROVE  FlipInv'
<1>1. ~shutdown => \A o \in Output : Accounted(out[o])
  BY DEF FlipsAccountedFor, Accounted
<1>2. ~shutdown' => \A o \in Output : Accounted(out'[o])
  BY <1>1, RenderAllAccounted
<1> QED BY <1>2, RenderAllAccounted DEF FlipInv, FlipsAccountedFor, Accounted

\* So does handle_drm_event, for the output whose flip ended and for the others.
LEMMA VBlankFlips ==
  ASSUME DisplayTypeOK, FlipsAccountedFor, NEW o \in Output, VBlank(o)
  PROVE  FlipInv'
<1> DEFINE shown == [out[o] EXCEPT !.scanout = out[o].flip, !.flip = NoFrame]
           r == frame_submitted(shown)
<1>1. shown \in OutState /\ shown.flip = NoFrame
  <2>1. out[o] \in OutState
    BY DEF DisplayTypeOK
  <2>2. out[o].flip \in Frame
    BY <2>1 DEF VBlank, OutState
  <2> QED BY <2>1, <2>2, Zenon DEF OutState
<1>2. r \in OutState /\ Accounted(r)
  BY <1>1, SubmittedAccounted, Zenon DEF DisplayTypeOK
<1>3. render_one_output(r, content, FALSE) \in OutState
      /\ Accounted(render_one_output(r, content, FALSE))
  BY <1>2, RenderAccounted, Zenon DEF DisplayTypeOK
<1>4. CASE shutdown
  <2>1. out' = [out EXCEPT ![o] = shown] /\ shutdown'
    BY <1>4 DEF VBlank
  <2> QED BY <1>1, <2>1 DEF FlipInv, FlipsAccountedFor, DisplayTypeOK
<1>5. CASE ~shutdown
  <2>1. PICK s \in OutState : Accounted(s) /\ out' = [out EXCEPT ![o] = s]
    BY <1>2, <1>3, <1>5, Zenon DEF VBlank
  <2>2. \A p \in Output : Accounted(out[p])
    BY <1>5 DEF FlipsAccountedFor, Accounted
  <2>3. out' \in [Output -> OutState] /\ \A p \in Output : Accounted(out'[p])
    BY <2>1, <2>2 DEF DisplayTypeOK
  <2> QED BY <2>3 DEF FlipInv, FlipsAccountedFor, Accounted
<1> QED BY <1>4, <1>5 DEF DisplayTypeOK

\* A frame that is rendered is a version of the toplevel or the wallpaper alone.
LEMMA NextVersion == DisplayTypeOK => 1 + (content % NVersions) \in Frame
<1> SUFFICES ASSUME content \in Nat PROVE 1 + (content % NVersions) \in Frame
  BY DEF DisplayTypeOK
<1>1. content % NVersions \in 0..(NVersions - 1)
  OBVIOUS
<1> QED BY <1>1

\* The steps that do not touch the VT.
LEMMA RenderStepInv ==
  ASSUME Inv, \/ Commit \/ Repaint \/ ToplevelDestroyed \/ LayerDestroyed
              \/ ApplySwapAction \/ Keepalive \/ FallbackSwapped \/ DisplayShutdown
              \/ \E o \in Output : VBlank(o)
  PROVE  Inv'
<1>0. DisplayTypeOK /\ FlipsAccountedFor /\ MasterFollowsVt /\ content \in Frame
      /\ ("acq" \in vtSignals => vt = "home") /\ 0 \in Frame
  BY DEF Inv, DisplayTypeOK
<1>1. UNCHANGED vtVars
  BY Zenon DEF Commit, Repaint, ToplevelDestroyed, LayerDestroyed, ApplySwapAction, Keepalive,
         FallbackSwapped, DisplayShutdown, VBlank
<1>2. FlipInv'
  <2>1. CASE Repaint
    <3>1. PICK f \in Frame : render_all(f, FALSE)
      BY <1>0, <2>1, Zenon DEF Repaint
    <3> QED BY <1>0, <2>1, <3>1, RenderAllFlips, Zenon DEF Repaint
  <2>2. CASE ToplevelDestroyed
    BY <1>0, <2>2, RenderAllFlips, Zenon DEF ToplevelDestroyed
  <2>3. CASE LayerDestroyed
    BY <1>0, <2>3, RenderAllFlips, Zenon DEF LayerDestroyed
  <2>4. CASE Keepalive
    BY <1>0, <2>4, RenderAllFlips, Zenon DEF Keepalive
  <2>5. CASE FallbackSwapped
    BY <1>0, <2>5, RenderAllFlips, Zenon DEF FallbackSwapped
  <2>6. CASE DisplayShutdown
    BY <1>0, <2>6, RenderAllFlips, Zenon DEF DisplayShutdown
  <2>7. CASE \E o \in Output : VBlank(o)
    BY <1>0, <2>7, VBlankFlips
  <2>8. CASE ApplySwapAction
    <3>1. PICK f \in {0, content} : render_all(f, FALSE)
      BY <2>8, Zenon DEF ApplySwapAction
    <3>2. UNCHANGED shutdown
      BY <2>8 DEF ApplySwapAction
    <3> QED BY <1>0, <3>1, <3>2, RenderAllFlips, Zenon
  <2>9. CASE Commit
    BY <1>0, <2>9 DEF Commit, FlipInv, DisplayTypeOK, FlipsAccountedFor
  <2> QED BY <2>1, <2>2, <2>3, <2>4, <2>5, <2>6, <2>7, <2>8, <2>9
<1>3. content' \in Frame
  BY <1>0, NextVersion, Zenon DEF Commit, Repaint, ToplevelDestroyed, LayerDestroyed,
                      ApplySwapAction, Keepalive, FallbackSwapped, DisplayShutdown, VBlank
<1>4. waiting' \in BOOLEAN /\ shutdown' \in BOOLEAN
  BY <1>0, Zenon DEF Commit, Repaint, ToplevelDestroyed, LayerDestroyed,
              ApplySwapAction, Keepalive, FallbackSwapped, DisplayShutdown, VBlank, DisplayTypeOK
<1>5. continuous' \in BOOLEAN /\ reverted' \in BOOLEAN /\ frame_pending' \in BOOLEAN
  BY <1>0, Zenon DEF Commit, Repaint, ToplevelDestroyed, LayerDestroyed,
              ApplySwapAction, Keepalive, FallbackSwapped, DisplayShutdown, VBlank, DisplayTypeOK
<1>6. stale' \in BOOLEAN
  BY <1>0, Zenon DEF Commit, Repaint, ToplevelDestroyed, LayerDestroyed,
              ApplySwapAction, Keepalive, FallbackSwapped, DisplayShutdown, VBlank, DisplayTypeOK, StaleAfter, QueueFails
<1> QED BY <1>0, <1>1, <1>2, <1>3, <1>4, <1>5, <1>6
           DEF Inv, DisplayTypeOK, FlipInv, MasterFollowsVt, vtVars

\* The VT handshake.
LEMMA VtStepInv ==
  ASSUME Inv, SwitchAway \/ SwitchBack \/ VtSignalsRead
  PROVE  Inv'
<1>1. UNCHANGED <<content, waiting, continuous, out, stale, reverted, frame_pending,
                shutdown>>
  BY Zenon DEF SwitchAway, SwitchBack, VtSignalsRead
<1>2. FlipsAccountedFor'
  BY <1>1 DEF Inv, FlipsAccountedFor
<1>3. /\ master' \in BOOLEAN /\ leaving' \in BOOLEAN /\ overtaken' \in BOOLEAN
      /\ vt' \in {"home", "away"} /\ vtSignals' \subseteq {"rel", "acq"}
      /\ "acq" \in vtSignals' => vt' = "home"
      /\ MasterFollowsVt'
  <2>1. CASE SwitchAway
    BY <2>1 DEF SwitchAway, Inv, DisplayTypeOK, MasterFollowsVt
  <2>2. CASE SwitchBack
    BY <2>2 DEF SwitchBack, Inv, DisplayTypeOK, MasterFollowsVt
  <2>3. CASE VtSignalsRead
    BY <2>3, Zenon DEF VtSignalsRead, Inv, DisplayTypeOK, MasterFollowsVt
  <2> QED BY <2>1, <2>2, <2>3
<1> QED BY <1>1, <1>2, <1>3 DEF Inv, DisplayTypeOK

\* The invariant holds in every reachable state.
LEMMA DisplayInv == DisplaySpec => []Inv
<1>1. DisplayInit => Inv
  <2> SUFFICES ASSUME DisplayInit PROVE Inv
    OBVIOUS
  <2>1. /\ out \in [Output -> OutState]
        /\ \A o \in Output : /\ ~out[o].pending /\ out[o].flip = NoFrame
                             /\ out[o].queued = NoFrame
    <3>1. [rendered |-> 0, queued |-> NoFrame, pending |-> FALSE,
           flip |-> NoFrame, scanout |-> 0] \in OutState
      BY DEF OutState
    <3> QED BY <3>1 DEF DisplayInit
  <2>2. DisplayTypeOK
    <3>1. content \in Frame
      BY DEF DisplayInit
    <3>2. /\ waiting \in BOOLEAN /\ stale \in BOOLEAN /\ shutdown \in BOOLEAN
          /\ continuous \in BOOLEAN /\ reverted \in BOOLEAN /\ frame_pending \in BOOLEAN
          /\ master \in BOOLEAN /\ leaving \in BOOLEAN /\ overtaken \in BOOLEAN
          /\ vt \in {"home", "away"} /\ vtSignals \subseteq {"rel", "acq"}
      BY Zenon DEF DisplayInit
    <3> QED BY <2>1, <3>1, <3>2 DEF DisplayTypeOK
  <2>3. FlipsAccountedFor /\ MasterFollowsVt
    BY <2>1 DEF DisplayInit, FlipsAccountedFor, MasterFollowsVt
  <2> QED BY <2>2, <2>3 DEF DisplayInit, Inv
<1>2. Inv /\ [DisplayNext]_displayVars => Inv'
  <2> SUFFICES ASSUME Inv, [DisplayNext]_displayVars PROVE Inv'
    OBVIOUS
  <2>1. CASE DisplayNext
    BY <2>1, RenderStepInv, VtStepInv DEF DisplayNext
  <2>2. CASE UNCHANGED displayVars
    BY <2>2 DEF displayVars, vtVars, Inv, DisplayTypeOK, FlipsAccountedFor, MasterFollowsVt
  <2> QED BY <2>1, <2>2
<1> QED BY <1>1, <1>2, PTL DEF DisplaySpec

\* Types, for any number of outputs and of versions of the toplevel.
THEOREM DisplayTypeCorrect == DisplaySpec => []DisplayTypeOK
  BY DisplayInv, PTL DEF Inv

\* On any number of outputs the backend and the kernel agree on which flips are
\* in flight, whatever commits, ticks and VT switches come between them
\* (render_one_output, frame_submitted).
THEOREM FlipsAccountedForSafe == DisplaySpec => []FlipsAccountedFor
  BY DisplayInv, PTL DEF Inv

\* Once its signals are handled the DRM master follows the VT (handle_vt_relsig,
\* handle_vt_acqsig).
THEOREM MasterFollowsVtSafe == DisplaySpec => []MasterFollowsVt
  BY DisplayInv, PTL DEF Inv
===============================================================================
