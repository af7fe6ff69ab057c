---------------------------- MODULE DecoderRelay ----------------------------
(***************************************************************************)
(* The video wallpaper (wallpaper/decoder_relay.rs, video.rs, mod.rs) and  *)
(* the sandboxed halmasuit-decoder process it feeds on: a decoder that     *)
(* fails is restarted on a fresh channel, at most MaxRestarts times in     *)
(* Window seconds, after which the fallback image takes over.              *)
(*                                                                         *)
(* A session is one decoder process and its socket.  Frames carry the      *)
(* wire index of the decoder and an image; the relay numbers them anew.    *)
(* Instants are ages in seconds, and an age of Window is as good as none.  *)
(***************************************************************************)
EXTENDS Naturals, Sequences, FiniteSets

CONSTANTS Sessions, Images, None,
          MaxRestarts, Window,
          FileLength,  \* frames of the wallpaper file
          MaxUnread,   \* datagrams a socket holds
          MaxFrames    \* bound on the frames of a run

ASSUME RelayAssumption ==
    /\ None \notin Sessions \cup Images \cup Nat
    /\ MaxRestarts \in Nat /\ Window \in Nat \ {0}
    /\ FileLength \in Nat \ {0} /\ MaxUnread \in Nat \ {0} /\ MaxFrames \in Nat

VARIABLES sess,          \* the decoders and their sockets
          relay,         \* VideoBackend::relay
          spawn_attempted, backend,
          fallback,      \* an image is configured and can be loaded
          current_buffer, last_uploaded_idx

uploadVars == <<current_buffer, last_uploaded_idx>>
vars == <<sess, relay, spawn_attempted, fallback, backend, uploadVars>>

Message == [kind : {"Ready", "DecoderError", "Garbled"}] \cup
           [kind : {"Frame"}, frame_idx : 0..FileLength, image : Images]

\* load: a LoadFile to read; open: the relay's end of the socket.
Session == [state : {"Starting", "Idle", "Decoding", "exited"},
            out : Seq(Message), load : BOOLEAN, open : BOOLEAN,
            next_frame_idx : 0..FileLength]

Ages == 0..Window

Relay == [chan : Sessions, ready : BOOLEAN, dead : BOOLEAN,
          latest : [frame_idx : Nat, image : Images] \cup {None},
          next_frame_idx : Nat, restart_history : Seq(Ages)]

TypeOK ==
    /\ sess \in [Sessions -> Session]
    /\ relay \in Relay \cup {None}
    /\ spawn_attempted \in BOOLEAN /\ fallback \in BOOLEAN
    /\ backend \in {"video", "image"}
    /\ current_buffer \in Images \cup {None}
    /\ last_uploaded_idx \in Nat \cup {None}

\* What is left of a session once the relay's end of the socket is closed.
Closed(st) == [state |-> st, out |-> <<>>, load |-> FALSE, open |-> FALSE,
               next_frame_idx |-> 0]

Init ==
    /\ sess = [s \in Sessions |-> Closed("exited")]
    /\ relay = None /\ spawn_attempted = FALSE
    /\ fallback \in BOOLEAN /\ backend = "video"
    /\ current_buffer = None /\ last_uploaded_idx = None

----------------------------------------------------------------------------
(* The decoder process (halmasuit-decoder, main.rs).                       *)

Running(s) == sess[s].state \in {"Starting", "Idle", "Decoding"}

Emit(s, m) == IF Len(sess[s].out) < MaxUnread THEN Append(sess[s].out, m) ELSE sess[s].out

\* The relay's end is closed, so the next recv or send fails.
DecoderHangup(s) ==
    /\ Running(s) /\ ~sess[s].open
    /\ sess' = [sess EXCEPT ![s] = Closed("exited")]
    /\ UNCHANGED <<relay, spawn_attempted, fallback, backend, uploadVars>>

send_ready(s) ==
    /\ sess[s].state = "Starting" /\ sess[s].open
    /\ sess' = [sess EXCEPT ![s].state = "Idle", ![s].out = Emit(s, [kind |-> "Ready"])]

\* apply_control of LoadFile: a file that does not open ends the process.
LoadFile(s) ==
    /\ sess[s].state = "Idle" /\ sess[s].open /\ sess[s].load
    /\ \/ sess' = [sess EXCEPT ![s].state = "Decoding", ![s].load = FALSE,
                               ![s].next_frame_idx = 0]
       \/ sess' = [sess EXCEPT ![s].state = "exited",
                               ![s].out = Emit(s, [kind |-> "DecoderError"])]

Delivered == IF relay = None THEN 0 ELSE relay.next_frame_idx

\* One frame of run: sent, or dropped when the socket is full.
DecodeFrame(s) ==
    /\ sess[s].state = "Decoding" /\ sess[s].open
    /\ sess[s].next_frame_idx < FileLength
    /\ Delivered + Len(sess[s].out) < MaxFrames
    /\ \E image \in Images :
          sess' = [sess EXCEPT ![s].next_frame_idx = @ + 1,
                               ![s].out = Emit(s, [kind |-> "Frame",
                                                   frame_idx |-> sess[s].next_frame_idx,
                                                   image |-> image])]

\* The end of the file: rewind.
DecodeEof(s) ==
    /\ sess[s].state = "Decoding" /\ sess[s].open
    /\ sess[s].next_frame_idx = FileLength
    /\ sess' = [sess EXCEPT ![s].next_frame_idx = 0]

\* The stream cannot be decoded or rewound.
DecodeFails(s) ==
    /\ sess[s].state = "Decoding" /\ sess[s].open
    /\ sess' = [sess EXCEPT ![s].state = "exited",
                            ![s].out = Emit(s, [kind |-> "DecoderError"])]

\* The process is killed, or sends what recv_one rejects.
DecoderFault(s) ==
    /\ Running(s)
    /\ \/ sess' = [sess EXCEPT ![s].state = "exited"]
       \/ /\ sess[s].open
          /\ sess' = [sess EXCEPT ![s].out = Emit(s, [kind |-> "Garbled"])]

DecoderStep(s) ==
    /\ \/ send_ready(s) \/ LoadFile(s)
       \/ DecodeFrame(s) \/ DecodeEof(s)
       \/ DecodeFails(s) \/ DecoderFault(s)
    /\ UNCHANGED <<relay, spawn_attempted, fallback, backend, uploadVars>>

----------------------------------------------------------------------------
(* The relay.  A relay and its sessions are threaded through the steps of  *)
(* a callback as a pair.                                                   *)

\* A slot for the next decoder; a decoder is only spawned while there is one.
Free == {s \in Sessions : sess[s].state = "exited"}
Slot == CHOOSE s \in Free : TRUE

\* spawn_decoder_session
Spawned == [state |-> "Starting", out |-> <<>>, load |-> TRUE, open |-> TRUE,
            next_frame_idx |-> 0]

\* DecoderRelay::spawn, tried once.
ensure_relay_spawned(ok) ==
    IF spawn_attempted \/ ~ok THEN [relay |-> relay, sess |-> sess]
    ELSE [relay |-> [chan |-> Slot, ready |-> FALSE, dead |-> FALSE, latest |-> None,
                     next_frame_idx |-> 0, restart_history |-> <<>>],
          sess |-> [sess EXCEPT ![Slot] = Spawned]]

\* Mutant: the old channel is not closed.
respawn_leaks(p) ==
    [relay |-> [p.relay EXCEPT !.chan = Slot, !.ready = FALSE],
     sess |-> [p.sess EXCEPT ![Slot] = Spawned]]

\* The old socket closes, and the last frame stays.
respawn(p) ==
    [relay |-> [p.relay EXCEPT !.chan = Slot, !.ready = FALSE],
     sess |-> [p.sess EXCEPT ![p.relay.chan] = Closed(@.state), ![Slot] = Spawned]]

\* restart_history, oldest first, without what has left the window, and with the
\* failure of this moment.
Expired(hist) == {i \in DOMAIN hist : hist[i] >= Window}
Noted(hist) == Append(SubSeq(hist, Cardinality(Expired(hist)) + 1, Len(hist)), 0)

\* Mutant: the budget is off by one.
note_failure_late(p, ok) ==
    LET r == [p.relay EXCEPT !.restart_history = Noted(@)]
    IN IF Len(r.restart_history) > MaxRestarts + 1 \/ ~ok
       THEN [relay |-> [r EXCEPT !.dead = TRUE], sess |-> p.sess]
       ELSE respawn([relay |-> r, sess |-> p.sess])

\* One failure more than the budget, or a respawn that fails, ends the relay.
note_failure(p, ok) ==
    LET r == [p.relay EXCEPT !.restart_history = Noted(@)]
    IN IF Len(r.restart_history) > MaxRestarts \/ ~ok
       THEN [relay |-> [r EXCEPT !.dead = TRUE], sess |-> p.sess]
       ELSE respawn([relay |-> r, sess |-> p.sess])

\* The messages of the socket that end the session: an error, one that does
\* not decode, and a frame before Ready.
Rejected(r, q) ==
    {i \in 1..Len(q) : \/ q[i].kind \in {"DecoderError", "Garbled"}
                       \/ /\ q[i].kind = "Frame" /\ ~r.ready
                          /\ \A j \in 1..i : q[j].kind # "Ready"}
Failing(r, ss) ==
    ~r.dead /\ (Rejected(r, ss[r.chan].out) # {} \/ ss[r.chan].state = "exited")

\* The callback starts a decoder, which may fail.
Spawning == ~spawn_attempted \/ (relay # None /\ Failing(relay, sess))
SpawnResults == IF Spawning THEN BOOLEAN ELSE {TRUE}

\* The messages poll_frames takes, up to the one that is rejected; the frames
\* among them, and the last of those.
Taken(r, q) == {i \in 1..Len(q) : \A j \in 1..i : j \notin Rejected(r, q)}
Frames(r, q) == {i \in Taken(r, q) : q[i].kind = "Frame"}
LastFrame(r, q) == q[CHOOSE i \in Frames(r, q) : \A j \in Frames(r, q) : j <= i]

\* Mutant: the decoder's own index is kept.
relabel_wire(r, q) == [frame_idx |-> LastFrame(r, q).frame_idx, image |-> LastFrame(r, q).image]

\* Frames are numbered over the relay's whole life; the last one is kept.
relabel(r, q) == [frame_idx |-> r.next_frame_idx + Cardinality(Frames(r, q)) - 1,
                  image |-> LastFrame(r, q).image]

\* The relay and its session with the socket drained; what follows a rejected
\* message is never read.
Drained(p) ==
    LET r == p.relay
        q == p.sess[r.chan].out
    IN [relay |-> [r EXCEPT
                     !.ready = r.ready \/ \E i \in Taken(r, q) : q[i].kind = "Ready",
                     !.latest = IF Frames(r, q) = {} THEN @ ELSE relabel(r, q),
                     !.next_frame_idx = @ + Cardinality(Frames(r, q))],
        sess |-> [p.sess EXCEPT ![r.chan].out = <<>>]]

poll_frames(p, ok) ==
    IF p.relay.dead THEN p
    ELSE IF Failing(p.relay, p.sess) THEN note_failure(Drained(p), ok)
    ELSE Drained(p)

\* Drop of the relay: Shutdown and SIGKILL.
Dropped(p) ==
    [relay |-> None,
     sess |-> [p.sess EXCEPT ![p.relay.chan] = Closed("exited")]]

requested_fallback(r) == r # None /\ r.dead /\ fallback

maybe_swap_fallback(p) ==
    IF requested_fallback(p.relay)
    THEN /\ backend' = "image"
         /\ relay' = Dropped(p).relay /\ sess' = Dropped(p).sess
    ELSE /\ relay' = p.relay /\ sess' = p.sess
         /\ UNCHANGED backend

\* Mutant: the swap is left to the render path, which takes no tick.
TickNoSwap ==
    /\ backend = "video"
    /\ Spawning => Free # {}
    /\ \E ok \in SpawnResults :
          LET p == ensure_relay_spawned(ok)
              q == IF p.relay = None THEN p ELSE poll_frames(p, ok)
          IN relay' = q.relay /\ sess' = q.sess
    /\ spawn_attempted' = TRUE
    /\ UNCHANGED <<fallback, backend, uploadVars>>

\* The wallpaper tick: spawn on the first one, poll, swap.
Tick ==
    /\ backend = "video"
    /\ Spawning => Free # {}
    /\ \E ok \in SpawnResults : \E p \in {ensure_relay_spawned(ok)} :
          \E q \in {IF p.relay = None THEN p ELSE poll_frames(p, ok)} :
             maybe_swap_fallback(q)
    /\ spawn_attempted' = TRUE
    /\ UNCHANGED <<fallback, uploadVars>>

\* VideoBackend::render_element: poll, and upload a frame that is new, which
\* the driver may refuse.
RenderVideo(ok, imported) ==
    \E p \in {poll_frames([relay |-> relay, sess |-> sess], ok)} :
       LET frame == p.relay.latest
       IN /\ relay' = p.relay /\ sess' = p.sess
          /\ IF frame # None /\ frame.frame_idx # last_uploaded_idx /\ imported
             THEN current_buffer' = frame.image /\ last_uploaded_idx' = frame.frame_idx
             ELSE UNCHANGED uploadVars
          /\ UNCHANGED backend

\* WallpaperEngine::render_element: swap first.
Render ==
    /\ backend = "video" /\ relay # None
    /\ IF requested_fallback(relay)
       THEN /\ maybe_swap_fallback([relay |-> relay, sess |-> sess])
            /\ UNCHANGED uploadVars
       ELSE /\ Spawning => Free # {}
            /\ \E ok \in SpawnResults, imported \in BOOLEAN : RenderVideo(ok, imported)
    /\ UNCHANGED <<spawn_attempted, fallback>>

\* A second passes.
Age ==
    /\ relay # None /\ relay.restart_history # <<>>
    /\ relay' = [relay EXCEPT !.restart_history =
                   [i \in DOMAIN @ |-> IF @[i] < Window THEN @[i] + 1 ELSE Window]]
    /\ UNCHANGED <<sess, spawn_attempted, fallback, backend, uploadVars>>

Next == (\E s \in Sessions : DecoderHangup(s) \/ DecoderStep(s)) \/ Tick \/ Render \/ Age

Spec == Init /\ [][Next]_vars

\* The wallpaper timer goes on, and a process that can run runs.  Nothing is
\* asked of the render path, which idles.
Fairness ==
    /\ WF_vars(Tick)
    /\ WF_vars(\E s \in Sessions : DecoderHangup(s))

FairSpec == Spec /\ Fairness

----------------------------------------------------------------------------
(* Properties.                                                             *)

\* A frame that counts as uploaded is the one on the screen: the cache on
\* last_uploaded_idx never takes a frame of a new decoder, or of the next turn
\* of the loop, for one it has (the relabelling in poll_frames).
UploadedIsLatest ==
    relay # None => (relay.latest # None =>
        (relay.latest.frame_idx = last_uploaded_idx => current_buffer = relay.latest.image))

\* A relay that still restarts its decoder has charged at most MaxRestarts
\* failures in any window, whatever the tick and the render path poll and
\* however old failures expire (note_failure).
RestartBudget ==
    relay # None => (~relay.dead =>
        Cardinality(DOMAIN relay.restart_history \ Expired(relay.restart_history))
            <= MaxRestarts)

\* A relay that is dead gives way to the fallback image without a render, the
\* tick alone (WallpaperEngine::tick: "the timer is the only thing that keeps
\* firing").
FallbackComes ==
    (relay # None /\ relay.dead /\ fallback) ~> backend = "image"

\* A decoder the relay has left behind exits: its socket is closed with the
\* respawn, or with the swap it is killed (respawn, Drop).
OldDecodersExit ==
    \A s \in Sessions :
        (Running(s) /\ (relay = None \/ relay.chan # s)) ~> ~Running(s)

=============================================================================
