------------------------------ MODULE Display ------------------------------
(***************************************************************************)
(* From a commit to the screen (drm.rs, vt_switch.rs and the callbacks of  *)
(* main.rs): every output has a flip in flight and one queued frame, the   *)
(* wallpaper may want a frame at every vblank, a keepalive timer restarts  *)
(* a stalled chain, and the VT handshake takes the DRM master away and     *)
(* gives it back.                                                          *)
(*                                                                         *)
(* A frame is the version of the foreground toplevel it shows, 0 for the   *)
(* wallpaper alone.  What smithay's DrmCompositor does is taken from how   *)
(* drm.rs uses it: a frame is submitted when no flip is in flight, else it *)
(* replaces the queued one; without master a submit fails and the frame is *)
(* lost; the end of a flip submits the queued frame.  A moving wallpaper   *)
(* damages every frame.                                                    *)
(***************************************************************************)
EXTENDS Integers, FiniteSets

CONSTANTS NOutputs, NVersions

ASSUME DisplayAssumption == NOutputs \in Nat \ {0} /\ NVersions \in Nat \ {0}

Output == 1..NOutputs
Frame == 0..NVersions
NoFrame == -1

VARIABLES content,       \* the foreground toplevel's current version
          waiting,       \* its client waits for a frame callback
          continuous,    \* the wallpaper wants every vblank
          out,           \* per output: the frame rendered last, the queued one, a
                         \* flip pending; in the kernel: the flip and the scanout
          master,        \* the DRM master is ours
          vt, leaving,   \* the active VT, and a switch that waits for VT_RELDISP
          vtSignals,     \* pending relsig and acqsig
          overtaken,     \* a relsig overtook the acqsig before it
          stale,         \* nobody will draw the toplevel again before its next commit
          frame_pending, \* a commit waits for the end of the dispatch cycle
          reverted,      \* the hand-off's gate is done
          shutdown       \* shutting_down

vtVars == <<master, vt, leaving, vtSignals, overtaken>>
flagVars == <<reverted, frame_pending, shutdown>>
displayVars == <<content, waiting, continuous, out, vtVars, stale, flagVars>>

OutState == [rendered : Frame, queued : Frame \cup {NoFrame}, pending : BOOLEAN,
             flip : Frame \cup {NoFrame}, scanout : Frame]

DisplayTypeOK ==
    /\ content \in Frame
    /\ waiting \in BOOLEAN /\ stale \in BOOLEAN
    /\ reverted \in BOOLEAN /\ shutdown \in BOOLEAN
    /\ continuous \in BOOLEAN /\ frame_pending \in BOOLEAN
    /\ master \in BOOLEAN /\ leaving \in BOOLEAN /\ overtaken \in BOOLEAN
    /\ out \in [Output -> OutState]
    /\ vt \in {"home", "away"}
    /\ vtSignals \subseteq {"rel", "acq"}

\* The modeset has put the wallpaper on every output.
DisplayInit ==
    /\ content = 0 /\ waiting = FALSE
    /\ continuous \in BOOLEAN
    /\ out = [o \in Output |-> [rendered |-> 0, queued |-> NoFrame, pending |-> FALSE,
                                flip |-> NoFrame, scanout |-> 0]]
    /\ master = TRUE /\ vt = "home" /\ leaving = FALSE /\ vtSignals = {}
    /\ overtaken = FALSE /\ stale = FALSE
    /\ reverted = FALSE /\ frame_pending = FALSE /\ shutdown = FALSE

----------------------------------------------------------------------------
(* Rendering.                                                              *)

\* A page flip.
Submit(r, f) ==
    IF master THEN [r EXCEPT !.flip = f, !.pending = TRUE] ELSE r

queue_frame(r, f) ==
    IF r.pending THEN [r EXCEPT !.queued = f] ELSE Submit(r, f)

Damaged(r, f, forced) == forced \/ continuous \/ r.rendered # f

\* render_one_output
render_one_output(r, f, forced) ==
    IF Damaged(r, f, forced) THEN queue_frame([r EXCEPT !.rendered = f], f) ELSE r

QueueFails(r, f, forced) == Damaged(r, f, forced) /\ ~r.pending /\ ~master

\* Mutant: only the first output is rendered.
RenderPrimary(f, forced) ==
    out' = [out EXCEPT ![1] = render_one_output(@, f, forced)]

\* render_all: the first output that fails ends the loop.
render_all(f, forced) ==
    out' = [o \in Output |->
              IF \E p \in 1..o-1 : QueueFails(out[p], f, forced) THEN out[o]
              ELSE render_one_output(out[o], f, forced)]

\* What is known of the toplevel on the screens after such a loop: a frame was
\* lost, or one lost before is taken for drawn.
StaleAfter(f, forced) ==
    \/ \E o \in Output : QueueFails(out[o], f, forced)
    \/ stale /\ \E o \in Output : ~Damaged(out[o], f, forced)

----------------------------------------------------------------------------
(* Clients.                                                                *)

\* A commit of the foreground toplevel; a client draws when its last frame
\* callback has come, and callbacks are flushed after the repaint.
Commit ==
    /\ ~waiting /\ ~frame_pending
    /\ content' = 1 + (content % NVersions) /\ waiting' = TRUE
    /\ frame_pending' = TRUE
    /\ UNCHANGED <<continuous, out, vtVars, stale, reverted, shutdown>>

\* The end of a dispatch cycle: one repaint for all of its commits.
Repaint ==
    LET f == IF shutdown THEN 0 ELSE content
    IN /\ frame_pending
       /\ frame_pending' = FALSE
       /\ render_all(f, FALSE)
       /\ stale' = StaleAfter(f, FALSE)
       /\ UNCHANGED <<content, waiting, continuous, vtVars, reverted, shutdown>>

\* toplevel_destroyed
ToplevelDestroyed ==
    /\ content # 0
    /\ content' = 0 /\ waiting' = FALSE
    /\ render_all(0, FALSE)
    /\ stale' = StaleAfter(0, FALSE)
    /\ UNCHANGED <<continuous, vtVars, flagVars>>

\* layer_destroyed
LayerDestroyed ==
    /\ render_all(content, TRUE)
    /\ stale' = StaleAfter(content, TRUE)
    /\ UNCHANGED <<content, waiting, continuous, vtVars, flagVars>>

\* apply_swap_action: a swap draws the toplevel, a revert the layers without
\* it, even if it is still there.  The first frame of a session is seen once in
\* the life of the process (maybe_emit_session_first_frame), so there is one
\* revert, and no swap after it.
ApplySwapAction ==
    /\ ~reverted
    /\ reverted' \in BOOLEAN
    /\ \E f \in {IF reverted' THEN 0 ELSE content} :
          /\ render_all(f, FALSE)
          /\ stale' = (f # content \/ StaleAfter(f, FALSE))
    /\ UNCHANGED <<content, waiting, continuous, vtVars, frame_pending, shutdown>>

----------------------------------------------------------------------------
(* Vblanks and the wallpaper.                                              *)

\* frame_submitted
frame_submitted(r) ==
    LET done == [r EXCEPT !.pending = FALSE, !.queued = NoFrame]
    IN IF r.queued = NoFrame THEN done ELSE Submit(done, r.queued)

\* Mutant: a flip that ended is not acknowledged.
VBlankUnacknowledged(o) ==
    /\ out[o].flip # NoFrame
    /\ out' = [out EXCEPT ![o].scanout = out[o].flip, ![o].flip = NoFrame]
    /\ waiting' = IF shutdown THEN waiting ELSE FALSE
    /\ UNCHANGED <<content, continuous, vtVars, stale, flagVars>>

\* The flip of an output ends, and handle_drm_event runs: nothing during a
\* shutdown; no callbacks if the queued frame cannot be submitted; else frame
\* callbacks, and the next frame of a moving wallpaper.
VBlank(o) ==
    LET shown == [out[o] EXCEPT !.scanout = out[o].flip, !.flip = NoFrame]
        r == frame_submitted(shown)
        lost == out[o].queued # NoFrame /\ ~master
    IN /\ out[o].flip # NoFrame
       /\ IF shutdown
          THEN /\ out' = [out EXCEPT ![o] = shown]
               /\ UNCHANGED <<waiting, stale>>
          ELSE /\ out' = [out EXCEPT ![o] =
                            IF continuous /\ ~lost
                            THEN render_one_output(r, content, FALSE) ELSE r]
               /\ waiting' = (waiting /\ lost)
               /\ stale' = (stale \/ lost \/ (continuous /\ QueueFails(r, content, FALSE)))
       /\ UNCHANGED <<content, continuous, vtVars, flagVars>>

\* No vblank is noted for two ticks.
vblank_stale == shutdown \/ \A o \in Output : out[o].flip = NoFrame

\* Mutant: the keepalive never steps in.
KeepaliveIdle == FALSE /\ UNCHANGED displayVars

\* The wallpaper tick, a timer that is registered for a moving wallpaper,
\* restarts a stalled chain, with the wallpaper alone.
Keepalive ==
    /\ continuous /\ vblank_stale
    /\ render_all(0, FALSE)
    /\ stale' = (stale \/ StaleAfter(0, FALSE))
    /\ UNCHANGED <<content, waiting, continuous, vtVars, flagVars>>

\* The wallpaper tick swaps a dead video for its fallback image.  The toplevel
\* is left out of the frame.
FallbackSwapped ==
    /\ continuous
    /\ continuous' = FALSE
    /\ render_all(0, TRUE)
    /\ stale' = (content # 0 \/ StaleAfter(0, TRUE))
    /\ UNCHANGED <<content, waiting, vtVars, flagVars>>

----------------------------------------------------------------------------
(* The VT handshake.                                                       *)

\* A chord (trigger_vt_switch) or another process asks for a switch.  The
\* kernel signals the owner of the VT and waits.
SwitchAway ==
    /\ vt = "home" /\ ~leaving
    /\ leaving' = TRUE
    /\ vtSignals' = vtSignals \cup {"rel"}
    /\ UNCHANGED <<content, waiting, continuous, out, master, vt, overtaken, stale,
                   flagVars>>

\* Switching to our VT does not wait for us.
SwitchBack ==
    /\ vt = "away"
    /\ vt' = "home"
    /\ vtSignals' = vtSignals \cup {"acq"}
    /\ UNCHANGED <<content, waiting, continuous, out, master, leaving, overtaken,
                   stale, flagVars>>

\* Mutant: the VT is given up with the master held.
VtSignalsReadKeeps ==
    /\ vtSignals # {}
    /\ vtSignals' = {}
    /\ master' = (master \/ "acq" \in vtSignals)
    /\ IF "rel" \in vtSignals
       THEN vt' = "away" /\ leaving' = FALSE
       ELSE UNCHANGED <<vt, leaving>>
    /\ overtaken' = (vtSignals = {"rel", "acq"})
    /\ UNCHANGED <<content, waiting, continuous, out, stale, flagVars>>

\* read_vt_signals: a signalfd hands out the lower number first, so relsig
\* before acqsig; then handle_vt_relsig and handle_vt_acqsig.
VtSignalsRead ==
    /\ vtSignals # {}
    /\ vtSignals' = {}
    /\ master' = IF "acq" \in vtSignals THEN TRUE
                 ELSE master /\ "rel" \notin vtSignals
    /\ IF "rel" \in vtSignals
       THEN vt' = "away" /\ leaving' = FALSE
       ELSE UNCHANGED <<vt, leaving>>
    /\ overtaken' = (vtSignals = {"rel", "acq"})
    /\ UNCHANGED <<content, waiting, continuous, out, stale, flagVars>>

----------------------------------------------------------------------------

\* graceful_shutdown
DisplayShutdown ==
    /\ ~shutdown
    /\ shutdown' = TRUE
    /\ content' = 0
    /\ render_all(0, FALSE)
    /\ UNCHANGED <<waiting, continuous, vtVars, stale, reverted, frame_pending>>

DisplayNext ==
    \/ Commit \/ Repaint
    \/ ToplevelDestroyed \/ LayerDestroyed \/ ApplySwapAction
    \/ \E o \in Output : VBlank(o)
    \/ Keepalive \/ FallbackSwapped
    \/ SwitchAway \/ SwitchBack \/ VtSignalsRead
    \/ DisplayShutdown

DisplaySpec == DisplayInit /\ [][DisplayNext]_displayVars

\* A dispatch cycle ends; a flip ends at the next vblank, and its event, the
\* VT's signals and the timer are dispatched.
DisplayFairness ==
    /\ \A o \in Output : WF_displayVars(VBlank(o))
    /\ WF_displayVars(Repaint)
    /\ WF_displayVars(Keepalive)
    /\ WF_displayVars(VtSignalsRead)

DisplayFairSpec == DisplaySpec /\ DisplayFairness

----------------------------------------------------------------------------

\* drm.rs and the kernel agree on which flips are in flight: a pending flip
\* ends in a vblank, and a frame is queued only behind one, whatever render_all,
\* frame_submitted and a lost master leave behind.  A shutdown stops
\* acknowledging (handle_drm_event).
FlipsAccountedFor ==
    ~shutdown =>
        \A o \in Output : /\ out[o].pending <=> out[o].flip # NoFrame
                          /\ out[o].queued # NoFrame => out[o].pending

\* Once read_vt_signals, handle_vt_relsig and handle_vt_acqsig have handled the
\* signals, the master is ours at home and released away, unless the two signals
\* were pending together and were read in the order of their numbers.
MasterFollowsVt ==
    vtSignals = {} => /\ vt = "home" => master
                      /\ vt = "away" => (~master \/ overtaken)

AtHome == vt = "home" /\ ~leaving
Shows(v) == \A o \in Output : out[o].scanout = v

\* A version of the toplevel never stays off the screens for good (commit,
\* repaint, render_all): it gets to every one of them, or is replaced, or we
\* leave the VT, or something was drawn over it without it.  A moving wallpaper
\* also repairs that, but the keepalive only sees to it that one of the screens
\* comes back.
CommitShown ==
    \A v \in Frame :
        []<>(\/ Shows(v) \/ content # v
             \/ ~AtHome \/ shutdown
             \/ stale /\ (continuous => \E o \in Output : out[o].scanout = v))

\* A client never waits for its frame callback for good (handle_drm_event sends
\* them, the keepalive timer restarts a chain of vblanks that broke), on the same
\* terms.
CallbackComes ==
    []<>(\/ ~waiting \/ ~AtHome \/ shutdown
         \/ ~continuous /\ stale)

\* "The screen is wallpaper-only from this point until kernel halt", as
\* graceful_shutdown says: it becomes so, if no client maps a toplevel again.
ShutdownShowsWallpaper ==
    (shutdown /\ content = 0) ~> (Shows(0) \/ content # 0 \/ ~AtHome)

=============================================================================
