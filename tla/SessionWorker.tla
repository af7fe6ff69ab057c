--------------------------- MODULE SessionWorker ---------------------------
(***************************************************************************)
(* The session worker of halmasuit-session: the process the broker forks   *)
(* for one BeginAuth.  It owns one PAM handle from pam_start to pam_end    *)
(* (session.rs, run_session), converses over its socket pair               *)
(* (responder.rs) and forks the session leader (worker.rs).                *)
(*                                                                         *)
(* A worker is named by the connection it was forked for, since a          *)
(* connection gets at most one.  The PAM library is the environment: each  *)
(* call may prompt or display any number of times, and may fail.           *)
(***************************************************************************)
EXTENDS Integers, Sequences

CONSTANTS Conns,      \* connections to the broker, hence workers
          PamTalks,   \* the kinds of message the PAM stack sends
          Faults,     \* what may go wrong: see FaultKinds
          MaxUnread   \* frames the worker's socket buffer holds (send blocks)

\* A worker dies, fork fails, a loop source cannot be registered, the broker
\* is told to stop.
FaultKinds == {"crash", "fork", "source", "sigterm"}

ASSUME WorkerAssumption ==
    /\ Faults \subseteq FaultKinds
    /\ PamTalks \subseteq {"ConvPrompt", "ConvDisplay"}
    /\ MaxUnread \in Nat \ {0}

VARIABLES proc,       \* process state of each worker
          step,       \* the call of run_session the worker is in
          blocked,    \* workers waiting in ChannelResponder::respond
          toWorker,   \* frames the broker sent and the worker has not read
          fromWorker, \* frames the worker sent and the broker has not read
          pam,        \* what has been established on the PAM handle
          leader,     \* the session leader the worker forked
          brokerEnd,  \* workers whose channel is still open on the other side
          children    \* workers whose parent broker process still runs

wvars == <<proc, step, blocked, toWorker, fromWorker, pam, leader,
           brokerEnd, children>>

GreeterFrames == {"BeginAuth", "ConvResponse", "StartSession", "Cancel",
                  "RequestRootFd", "SpawnGreeter"}
WorkerFrames == {"ConvPrompt", "ConvDisplay", "AuthOk", "SessionOpened",
                 "SessionEnded", "Failure"}

\* The calls that run PAM modules, in the order run_session makes them.
PamCalls == {"authenticate", "acct_mgmt", "setcred", "open_session",
             "close_session", "delete_cred"}
Steps == PamCalls \cup {"spec", "spawn", "wait", "exited"}
PamFacts == {"auth", "acct", "cred", "session", "ended"}

WorkerTypeOK ==
    /\ proc \in [Conns -> {"none", "live", "zombie", "reaped"}]
    /\ step \in [Conns -> Steps]
    /\ blocked \subseteq Conns
    /\ toWorker \in [Conns -> Seq(GreeterFrames)]
    /\ fromWorker \in [Conns -> Seq(WorkerFrames)]
    /\ pam \in [Conns -> SUBSET PamFacts]
    /\ leader \in [Conns -> {"none", "running", "exited"}]
    /\ brokerEnd \subseteq Conns
    /\ children \subseteq Conns

WorkerInit ==
    /\ proc = [w \in Conns |-> "none"]
    /\ step = [w \in Conns |-> "authenticate"]
    /\ blocked = {}
    /\ toWorker = [w \in Conns |-> <<>>]
    /\ fromWorker = [w \in Conns |-> <<>>]
    /\ pam = [w \in Conns |-> {}]
    /\ leader = [w \in Conns |-> "none"]
    /\ brokerEnd = {}
    /\ children = {}

----------------------------------------------------------------------------
Running(w) == proc[w] = "live" /\ w \notin blocked

\* send(2) on the worker's end: blocks while the buffer is full, and the
\* frame is lost (EPIPE) once nobody holds the broker's end.
Send(w, f) ==
    /\ Len(fromWorker[w]) < MaxUnread
    /\ fromWorker' = IF w \in brokerEnd
                     THEN [fromWorker EXCEPT ![w] = Append(@, f)]
                     ELSE fromWorker

\* Processes W are gone, and what they had not read with them.
Gone(W) ==
    /\ step' = [w \in Conns |-> IF w \in W THEN "exited" ELSE step[w]]
    /\ blocked' = blocked \ W
    /\ toWorker' = [w \in Conns |-> IF w \in W THEN <<>> ELSE toWorker[w]]

\* Worker w exits; init reaps it when its parent broker is gone.
Exit(w) ==
    /\ proc' = [proc EXCEPT ![w] = IF w \in children THEN "zombie" ELSE "reaped"]
    /\ Gone({w})

\* run_session returned Err: Pam's Drop has run pam_end, and nothing else,
\* when spawn_session_worker reports Failure and the child exits.
Fail(w) ==
    /\ Send(w, "Failure")
    /\ pam' = [pam EXCEPT ![w] = @ \cup {"ended"}]
    /\ Exit(w)

\* ChannelResponder::display: one frame, nothing is read.
Display(w) ==
    /\ Running(w) /\ step[w] \in PamCalls /\ w \in brokerEnd
    /\ "ConvDisplay" \in PamTalks
    /\ Send(w, "ConvDisplay")
    /\ UNCHANGED <<proc, step, blocked, toWorker, pam, leader, brokerEnd,
                   children>>

\* ChannelResponder::respond, up to the blocking recv.
Prompt(w) ==
    /\ Running(w) /\ step[w] \in PamCalls /\ w \in brokerEnd
    /\ "ConvPrompt" \in PamTalks
    /\ Send(w, "ConvPrompt")
    /\ blocked' = blocked \cup {w}
    /\ UNCHANGED <<proc, step, toWorker, pam, leader, brokerEnd, children>>

\* Mutant: respond ignores EOF on its channel.
RespondIgnoresEof(w) ==
    /\ proc[w] = "live" /\ w \in blocked /\ toWorker[w] # <<>>
    /\ toWorker' = [toWorker EXCEPT ![w] = Tail(@)]
    /\ blocked' = blocked \ {w}
    /\ UNCHANGED <<proc, step, fromWorker, pam, leader, brokerEnd, children>>

\* ChannelResponder::respond, from the recv on.  EOF and any frame other
\* than ConvResponse give PAM_CONV_ERR; what the modules make of an answer
\* or of that error is up to PAM.
Respond(w) ==
    /\ proc[w] = "live" /\ w \in blocked
    /\ IF toWorker[w] # <<>>
       THEN toWorker' = [toWorker EXCEPT ![w] = Tail(@)]
       ELSE w \notin brokerEnd /\ UNCHANGED toWorker
    /\ blocked' = blocked \ {w}
    /\ UNCHANGED <<proc, step, fromWorker, pam, leader, brokerEnd, children>>

\* Call p returned PAM_SUCCESS, leaving the handle with facts F; next is q.
PamReturns(w, p, q, F) ==
    /\ Running(w) /\ step[w] = p
    /\ step' = [step EXCEPT ![w] = q]
    /\ pam' = [pam EXCEPT ![w] = F]
    /\ UNCHANGED <<proc, blocked, toWorker, fromWorker, leader, brokerEnd,
                   children>>

\* Mutant: pam_acct_mgmt is skipped.
PamSucceedsNoAcct(w) ==
    \/ PamReturns(w, "authenticate", "setcred", pam[w] \cup {"auth"})
    \/ PamReturns(w, "open_session", "spawn", pam[w] \cup {"session"})
    \/ PamReturns(w, "close_session", "delete_cred", pam[w] \ {"session"})

\* A PAM call succeeds that is neither the last of the authentication phase
\* nor the last of all.
PamSucceeds(w) ==
    \/ PamReturns(w, "authenticate", "acct_mgmt", pam[w] \cup {"auth"})
    \/ PamReturns(w, "acct_mgmt", "setcred", pam[w] \cup {"acct"})
    \/ PamReturns(w, "open_session", "spawn", pam[w] \cup {"session"})
    \/ PamReturns(w, "close_session", "delete_cred", pam[w] \ {"session"})

\* set_cred_established returned: report AuthOk, then block for the spec;
\* with nobody left to report to, give up.
AuthOk(w) ==
    /\ Running(w) /\ step[w] = "setcred"
    /\ IF w \in brokerEnd
       THEN /\ Send(w, "AuthOk")
            /\ step' = [step EXCEPT ![w] = "spec"]
            /\ pam' = [pam EXCEPT ![w] = @ \cup {"cred"}]
            /\ UNCHANGED <<proc, blocked, toWorker>>
       ELSE /\ pam' = [pam EXCEPT ![w] = @ \cup {"cred", "ended"}]
            /\ Exit(w)
            /\ UNCHANGED fromWorker
    /\ UNCHANGED <<leader, brokerEnd, children>>

\* The spec is StartSession, and its environment went into the handle.
ReadSpec(w) ==
    /\ Running(w) /\ step[w] = "spec"
    /\ toWorker[w] # <<>> /\ Head(toWorker[w]) = "StartSession"
    /\ toWorker' = [toWorker EXCEPT ![w] = Tail(@)]
    /\ step' = [step EXCEPT ![w] = "open_session"]
    /\ UNCHANGED <<proc, blocked, fromWorker, pam, leader, brokerEnd, children>>

\* Cancel, another frame or EOF instead of the spec; or putenv failed.
RefuseSpec(w) ==
    /\ Running(w) /\ step[w] = "spec"
    /\ toWorker[w] # <<>> \/ w \notin brokerEnd
    /\ Fail(w)
    /\ UNCHANGED <<leader, brokerEnd, children>>

\* A PAM call, or what lies between open_session and the fork
\* (getenvlist, validate, user_groups, the gates before fork), failed.
CallFails(w) ==
    /\ Running(w) /\ step[w] \in PamCalls \cup {"spawn"}
    /\ Fail(w)
    /\ UNCHANGED <<leader, brokerEnd, children>>

\* spawn_session_leader and the SessionOpened frame that follows it.
SpawnLeader(w) ==
    /\ Running(w) /\ step[w] = "spawn" /\ w \in brokerEnd
    /\ Send(w, "SessionOpened")
    /\ leader' = [leader EXCEPT ![w] = "running"]
    /\ step' = [step EXCEPT ![w] = "wait"]
    /\ UNCHANGED <<proc, blocked, toWorker, pam, brokerEnd, children>>

\* The leader was forked but pidfd_open or the SessionOpened frame failed.
SpawnLeaderFails(w) ==
    /\ Running(w) /\ step[w] = "spawn"
    /\ leader' = [leader EXCEPT ![w] = "running"]
    /\ Fail(w)
    /\ UNCHANGED <<brokerEnd, children>>

\* WorkerHandle::wait on the leader returns.
LeaderReaped(w) ==
    /\ Running(w) /\ step[w] = "wait" /\ leader[w] = "exited"
    /\ step' = [step EXCEPT ![w] = "close_session"]
    /\ UNCHANGED <<proc, blocked, toWorker, fromWorker, pam, leader,
                   brokerEnd, children>>

\* set_cred_deleted returned: SessionEnded, pam_end, exit (the frame is lost,
\* and so is the Failure that follows, when nobody reads it).
SessionEnds(w) ==
    /\ Running(w) /\ step[w] = "delete_cred"
    /\ Send(w, "SessionEnded")
    /\ pam' = [pam EXCEPT ![w] = (@ \ {"cred"}) \cup {"ended"}]
    /\ Exit(w)
    /\ UNCHANGED <<leader, brokerEnd, children>>

\* The process dies without a frame (RLIMIT_CPU, a signal, a panic).
Crash(w) ==
    /\ "crash" \in Faults /\ proc[w] = "live"
    /\ Exit(w)
    /\ UNCHANGED <<fromWorker, pam, leader, brokerEnd, children>>

\* The user's session is over.
LeaderExits(w) ==
    /\ leader[w] = "running"
    /\ leader' = [leader EXCEPT ![w] = "exited"]
    /\ UNCHANGED <<proc, step, blocked, toWorker, fromWorker, pam, brokerEnd,
                   children>>

\* What a worker does by itself, once its PAM calls return.
WorkerStep(w) ==
    \/ Respond(w) \/ PamSucceeds(w) \/ AuthOk(w) \/ ReadSpec(w)
    \/ RefuseSpec(w) \/ CallFails(w) \/ SpawnLeader(w) \/ SpawnLeaderFails(w)
    \/ LeaderReaped(w) \/ SessionEnds(w)

WorkerNext(w) ==
    WorkerStep(w) \/ Display(w) \/ Prompt(w) \/ Crash(w) \/ LeaderExits(w)

----------------------------------------------------------------------------
\* recv on the broker's end meets EOF: nothing buffered, and no process holds
\* the worker's end (the leader inherits it across its exec).
WorkerEndOpen(w) == proc[w] = "live" \/ leader[w] = "running"
WorkerReadable(w) == fromWorker[w] # <<>> \/ ~WorkerEndOpen(w)
=============================================================================
