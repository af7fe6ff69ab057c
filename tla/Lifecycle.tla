----------------------------- MODULE Lifecycle -----------------------------
(***************************************************************************)
(* The life of the compositor process (main.rs): the boot pivot it         *)
(* survives, the stop signals, and the two ways it ends.  A plain stop     *)
(* asks the session to close and breaks the main loop; a shutdown of the   *)
(* system, which logind announces first, paints until the kernel halts.    *)
(*                                                                         *)
(* systemd, logind and the session move between any two callbacks.         *)
(***************************************************************************)
EXTENDS Initramfs

CONSTANT Starts  \* where the process may have been started

Start == {"initrd", "rootfs"}
Senders == {"spree", "stop", "shutdown"}  \* who sends a SIGTERM

ASSUME LifecycleAssumption == Starts \subseteq Start

VARIABLES phase,            \* of the pivot timer; "Dropped" without one
          shutdown_armed, shutting_down, should_exit,
          inhibitor,        \* logind's delay lock: "none", "held", "released"
          watcher,          \* the login1-watcher thread
          announced,        \* PrepareForShutdown(true)
          signals, sent,    \* SIGTERMs to dispatch, and all of them
          session,          \* a session's toplevel is in the foreground
          graceful_deadline, exited

stopVars == <<shutting_down, should_exit, inhibitor, announced, signals, sent,
              graceful_deadline, exited>>
pivotVars == <<phase, shutdown_armed>>
lifeVars == <<initrd, pivotVars, stopVars, watcher, session>>

LifeTypeOK ==
    /\ initrd \in BOOLEAN
    /\ phase \in {"Awaiting", "Connecting", "AwaitingReply", "Setup", "Dropped"}
    /\ shutdown_armed \in BOOLEAN /\ shutting_down \in BOOLEAN
    /\ should_exit \in BOOLEAN /\ exited \in BOOLEAN
    /\ session \in BOOLEAN /\ graceful_deadline \in BOOLEAN
    /\ inhibitor \in {"none", "held", "released"}
    /\ watcher \in {"starting", "subscribed", "gone"}
    /\ announced \in {"no", "missed", "sent", "read"}
    /\ signals \subseteq sent /\ sent \subseteq Senders

\* In the initramfs there is no logind to take the delay lock from, and a watcher
\* that finds a bus there loses it in the pivot: its stream ends, for good.
LifeInit ==
    /\ \E start \in Starts :
          /\ initrd = (start = "initrd")
          /\ shutdown_armed = (start = "rootfs")
          /\ phase = IF start = "initrd" THEN "Awaiting" ELSE "Dropped"
          /\ inhibitor \in IF start = "initrd" THEN {"none"} ELSE {"none", "held"}
    /\ watcher = IF initrd THEN "gone" ELSE "starting"
    /\ announced = "no" /\ signals = {} /\ sent = {}
    /\ shutting_down = FALSE /\ should_exit = FALSE /\ exited = FALSE
    /\ session = FALSE /\ graceful_deadline = FALSE

----------------------------------------------------------------------------
(* systemd, logind and the session.                                        *)

\* The kill spree of switch-root, systemctl stop, systemd-shutdown.  The lock
\* holds the last one back while somebody is there to hear the announcement.
StopSent(who) ==
    /\ who \notin sent
    /\ who = "spree" => initrd
    /\ who = "shutdown" => /\ announced # "no"
                           /\ inhibitor # "held" \/ announced = "missed"
    /\ signals' = signals \cup {who}
    /\ sent' = sent \cup {who}
    /\ UNCHANGED <<initrd, pivotVars, watcher, session, shutting_down,
                   should_exit, inhibitor, announced, graceful_deadline, exited>>

\* logind broadcasts PrepareForShutdown(true) to whoever subscribed.
ShutdownAnnounced ==
    /\ announced = "no" /\ ~initrd
    /\ announced' = IF watcher = "subscribed" THEN "sent" ELSE "missed"
    /\ UNCHANGED <<initrd, pivotVars, watcher, session, shutting_down,
                   should_exit, inhibitor, signals, sent, graceful_deadline, exited>>

\* prepare_for_shutdown_loop subscribes, or gives up for good.
WatcherRuns ==
    /\ watcher = "starting"
    /\ watcher' \in {"subscribed", "gone"}
    /\ UNCHANGED <<initrd, pivotVars, stopVars, session>>

SwitchRoot ==
    /\ MarkerGoes
    /\ UNCHANGED <<pivotVars, stopVars, watcher, session>>

\* A session swaps in, or its toplevel goes; it may also ignore a close.
SessionMoves ==
    /\ phase = "Dropped"
    /\ session' = ~session
    /\ UNCHANGED <<initrd, pivotVars, stopVars, watcher>>

----------------------------------------------------------------------------
(* Stop signals and the announcement.                                      *)

\* Mutant: a stop signal is taken at its word, armed or not.
StopIgnoredNever == FALSE

StopIgnored == ~shutdown_armed

\* The signal source: ignored during the boot pivot, a plain stop, or the
\* re-entry of graceful_shutdown, which bails out.
SignalRead ==
    /\ signals # {}
    /\ signals' = {}
    /\ should_exit' = (should_exit \/ (~StopIgnored /\ ~shutting_down))
    /\ UNCHANGED <<initrd, pivotVars, watcher, session, shutting_down,
                   inhibitor, announced, sent, graceful_deadline, exited>>

\* graceful_shutdown: nothing but the wallpaper is shown, the flag is latched,
\* and only then the lock is let go.
GracefulShutdown ==
    /\ session' = FALSE
    /\ shutting_down' = TRUE
    /\ inhibitor' = IF inhibitor = "held" THEN "released" ELSE inhibitor

\* The watcher's channel.
AnnouncementRead ==
    /\ announced = "sent"
    /\ announced' = "read"
    /\ GracefulShutdown
    /\ UNCHANGED <<initrd, pivotVars, watcher, should_exit, signals, sent,
                   graceful_deadline, exited>>

\* The end of a loop iteration: begin_graceful_session_close.
AskSessionToClose ==
    /\ should_exit /\ ~graceful_deadline /\ session
    /\ graceful_deadline' = TRUE
    /\ UNCHANGED <<initrd, pivotVars, watcher, session, shutting_down,
                   should_exit, inhibitor, announced, signals, sent, exited>>

\* Mutant: the loop waits for the session, whatever it takes.
ExitWithoutDeadline ==
    /\ should_exit /\ ~session
    /\ exited' = TRUE
    /\ UNCHANGED <<initrd, pivotVars, watcher, session, shutting_down,
                   should_exit, inhibitor, announced, signals, sent,
                   graceful_deadline>>

\* The loop breaks: there is nothing to close, or it is closed, or
\* GRACEFUL_SESSION_CLOSE_GRACE is over.
Exit ==
    /\ should_exit
    /\ graceful_deadline \/ ~session
    /\ exited' = TRUE
    /\ UNCHANGED <<initrd, pivotVars, watcher, session, shutting_down,
                   should_exit, inhibitor, announced, signals, sent,
                   graceful_deadline>>

----------------------------------------------------------------------------
(* The boot pivot: a timer that takes one step at a time.                  *)

\* A signal that was pending at the last tick has been dispatched by now.
Tick(from, to) ==
    /\ phase = from /\ "spree" \notin signals
    /\ phase' = to
    /\ UNCHANGED <<initrd, watcher, session, stopVars>>

\* The kill spree's SIGTERM may still be pending.
PivotSeen ==
    /\ phase = "Awaiting" /\ ~initrd
    /\ phase' = "Connecting"
    /\ UNCHANGED <<initrd, shutdown_armed, watcher, session, stopVars>>

\* A connect that fails before the deadline is tried again.
PivotConnects ==
    /\ \E to \in {"AwaitingReply", "Setup"} : Tick("Connecting", to)
    /\ UNCHANGED shutdown_armed

\* Mutant: a reply that never comes is waited for.
PivotRepliedOnly == FALSE

\* The root fd, an error, or the deadline.
PivotReplied ==
    /\ Tick("AwaitingReply", "Setup")
    /\ UNCHANGED shutdown_armed

\* run_post_pivot_setup: stop signals are armed once privileges are dropped.
PivotSetup ==
    /\ Tick("Setup", "Dropped")
    /\ shutdown_armed' \in BOOLEAN

----------------------------------------------------------------------------

LoopStep ==
    \/ SignalRead \/ AnnouncementRead \/ AskSessionToClose \/ Exit
    \/ PivotSeen \/ PivotConnects \/ PivotReplied \/ PivotSetup

LifeEnv ==
    \/ \E who \in Senders : StopSent(who)
    \/ ShutdownAnnounced \/ WatcherRuns \/ SessionMoves

LifeNext == ~exited /\ (LoopStep \/ LifeEnv)

\* calloop dispatches every source that stays ready and fires every timer.
LifeFairness ==
    /\ WF_lifeVars(~exited /\ SignalRead)
    /\ WF_lifeVars(~exited /\ AnnouncementRead)
    /\ WF_lifeVars(~exited /\ (AskSessionToClose \/ Exit))
    /\ WF_lifeVars(~exited /\ (PivotSeen \/ PivotConnects \/ PivotReplied \/ PivotSetup))

----------------------------------------------------------------------------

\* A shutdown of the system makes the compositor leave the screen only when it
\* could not be told apart: without the delay lock, or when the announcement
\* was missed (the signal source, graceful_shutdown, the delay inhibitor).  The
\* kill spree of the boot pivot never does.
ExitsOnlyWhenStopped ==
    should_exit => \/ "stop" \in sent
                   \/ "shutdown" \in sent /\ (inhibitor = "none" \/ announced = "missed")

\* "A real shutdown NEVER sets this", as the main loop says of should_exit.
RealShutdownNeverExits == should_exit => "stop" \in sent

\* A stop that was taken ends the process, whatever the session does
\* (begin_graceful_session_close and the deadline at the end of the main loop).
StopExits == should_exit ~> exited

\* The pivot timer runs to its end, whatever the broker answers.
PivotCompletes == ~initrd ~> (phase = "Dropped" \/ exited)

=============================================================================
