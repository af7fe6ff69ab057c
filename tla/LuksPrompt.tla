----------------------------- MODULE LuksPrompt -----------------------------
(***************************************************************************)
(* halmasuit-luks (main.rs, agent.rs): the password agent of the           *)
(* initramfs.  systemd writes a request file with the socket to answer on; *)
(* the agent polls the directory, prompts for one request at a time, and   *)
(* sends what was typed.  Without a display it sends the contents of a     *)
(* file to every request instead.  It ends when the pivot is over.         *)
(*                                                                         *)
(* A typed character is the request that was prompted for when it was      *)
(* typed; the character itself does not matter.                            *)
(***************************************************************************)
EXTENDS Initramfs, Naturals, Sequences, Functions

CONSTANTS Requests,   \* names of request files
          None,
          MaxTyped    \* bound on the characters of a passphrase

ASSUME LuksAssumption ==
    /\ None \notin Requests
    /\ MaxTyped \in Nat

VARIABLES interactive,      \* no --passphrase-from
          garbled,          \* request files without a Socket= line
          ask_dir,          \* request files, in directory order
          current_request, passphrase, active,
          tint,             \* what paint put on the surface last
          received,         \* the last datagram of each request's socket
          luks_should_exit

promptVars == <<current_request, passphrase, active, tint>>
modeVars == <<interactive, garbled>>
luksVars == <<modeVars, ask_dir, promptVars, received, luks_should_exit>>

LuksTypeOK ==
    /\ interactive \in BOOLEAN /\ garbled \subseteq Requests
    /\ ask_dir \in Seq(Requests)
    /\ current_request \in (Requests \ garbled) \cup {None}
    /\ passphrase \in Seq(Requests)
    /\ active \in BOOLEAN /\ tint \in BOOLEAN /\ luks_should_exit \in BOOLEAN
    /\ received \in [Requests -> [kind : {"none", "cancel", "file"}] \cup
                                 [kind : {"typed"}, typed : Seq(Requests)]]

LuksInit ==
    /\ interactive \in BOOLEAN /\ garbled \in SUBSET Requests
    /\ ask_dir = <<>>
    /\ current_request = None /\ passphrase = <<>>
    /\ active = FALSE /\ tint = FALSE
    /\ received = [q \in Requests |-> [kind |-> "none"]]
    /\ luks_should_exit = ~initrd  \* it is not started in the rootfs

----------------------------------------------------------------------------
(* systemd.  What it does once the agent has ended does not matter here.    *)

Asked == Range(ask_dir)

\* A request is made once; its file name is never used again.
RequestMade(q) ==
    /\ initrd /\ ~luks_should_exit /\ q \notin Asked /\ received[q].kind = "none"
    /\ ask_dir' \in {<<q>> \o ask_dir, Append(ask_dir, q)}
    /\ UNCHANGED <<modeVars, promptVars, received, luks_should_exit>>

\* A request is answered, answered elsewhere, or given up.
RequestRemoved(q) ==
    /\ ~luks_should_exit
    /\ \E i \in 1..Len(ask_dir) :
          /\ ask_dir[i] = q
          /\ ask_dir' = SubSeq(ask_dir, 1, i - 1) \o SubSeq(ask_dir, i + 1, Len(ask_dir))
    /\ UNCHANGED <<modeVars, promptVars, received, luks_should_exit>>

----------------------------------------------------------------------------
(* The prompt.                                                             *)

\* send_datagram: the socket lives as long as the request.
Send(q, datagram) ==
    received' = IF q \in Asked THEN [received EXCEPT ![q] = datagram] ELSE received

\* Mutant: what was typed for a request that is gone is kept.
ForgetKeeps ==
    /\ active' = FALSE /\ tint' = FALSE
    /\ UNCHANGED passphrase

\* The buffer is cleared and the idle tint painted.
Forget ==
    /\ passphrase' = <<>>
    /\ active' = FALSE /\ tint' = FALSE

\* Mutant: an open prompt keeps the agent.
PollPivotOverIdle ==
    /\ interactive /\ ~luks_should_exit /\ ~initrd /\ current_request = None
    /\ luks_should_exit' = TRUE
    /\ UNCHANGED <<modeVars, ask_dir, promptVars, received>>

\* poll_external_state once the marker is gone.
PollPivotOver ==
    /\ interactive /\ ~luks_should_exit /\ ~initrd
    /\ IF current_request = None THEN UNCHANGED received
       ELSE Send(current_request, [kind |-> "cancel"])
    /\ luks_should_exit' = TRUE
    /\ UNCHANGED <<modeVars, ask_dir, promptVars>>

\* poll_external_state: the prompt's request file is gone.
PollRequestGone ==
    /\ interactive /\ ~luks_should_exit /\ initrd
    /\ current_request # None /\ current_request \notin Asked
    /\ current_request' = None
    /\ Forget
    /\ UNCHANGED <<modeVars, ask_dir, received, luks_should_exit>>

\* poll_external_state: prompt for the first request of the directory.  If its
\* file cannot be parsed, nothing happens.
PollNewRequest ==
    /\ interactive /\ ~luks_should_exit /\ initrd
    /\ current_request = None /\ ask_dir # <<>>
    /\ Head(ask_dir) \notin garbled
    /\ current_request' = Head(ask_dir)
    /\ Forget
    /\ UNCHANGED <<modeVars, ask_dir, received, luks_should_exit>>

type_char ==
    /\ interactive /\ ~luks_should_exit
    /\ current_request # None
    /\ Len(passphrase) < MaxTyped
    /\ passphrase' = Append(passphrase, current_request)
    /\ active' = TRUE /\ tint' = TRUE
    /\ UNCHANGED <<modeVars, ask_dir, current_request, received, luks_should_exit>>

\* The tint stays, even when nothing is left.
backspace ==
    /\ interactive /\ ~luks_should_exit
    /\ current_request # None /\ passphrase # <<>>
    /\ passphrase' = SubSeq(passphrase, 1, Len(passphrase) - 1)
    /\ UNCHANGED <<modeVars, ask_dir, current_request, active, tint, received,
                   luks_should_exit>>

submit ==
    /\ interactive /\ ~luks_should_exit
    /\ current_request # None
    /\ Send(current_request, [kind |-> "typed", typed |-> passphrase])
    /\ current_request' = None
    /\ Forget
    /\ UNCHANGED <<modeVars, ask_dir, luks_should_exit>>

\* cancel, and request_close, which also ends the agent.
cancel ==
    /\ interactive /\ ~luks_should_exit
    /\ luks_should_exit' \in BOOLEAN
    /\ IF current_request = None
       THEN /\ luks_should_exit'
            /\ UNCHANGED <<promptVars, received>>
       ELSE /\ Send(current_request, [kind |-> "cancel"])
            /\ current_request' = None
            /\ Forget
    /\ UNCHANGED <<modeVars, ask_dir>>

----------------------------------------------------------------------------
(* run_noninteractive: one pass over the directory.                        *)

\* Mutant: a request that cannot be parsed ends the pass.
RespondAllStops ==
    /\ ~interactive /\ ~luks_should_exit /\ initrd
    /\ Asked \cap garbled = {}
    /\ received' = [q \in Requests |-> IF q \in Asked THEN [kind |-> "file"] ELSE received[q]]
    /\ UNCHANGED <<modeVars, ask_dir, promptVars, luks_should_exit>>

\* A request that cannot be parsed is passed over.
RespondAll ==
    /\ ~interactive /\ ~luks_should_exit /\ initrd
    /\ received' = [q \in Requests |->
                      IF q \in Asked \ garbled THEN [kind |-> "file"] ELSE received[q]]
    /\ UNCHANGED <<modeVars, ask_dir, promptVars, luks_should_exit>>

RespondPivotOver ==
    /\ ~interactive /\ ~luks_should_exit /\ ~initrd
    /\ luks_should_exit' = TRUE
    /\ UNCHANGED <<modeVars, ask_dir, promptVars, received>>

----------------------------------------------------------------------------

Poll == PollPivotOver \/ PollRequestGone \/ PollNewRequest \/ RespondAll \/ RespondPivotOver

Key == type_char \/ backspace \/ submit \/ cancel

LuksEnv == \E q \in Requests : RequestMade(q) \/ RequestRemoved(q)

\* Everything but the end of the pivot.
LuksStep == (Poll \/ Key \/ LuksEnv) /\ UNCHANGED initrd

\* The poll timer keeps firing.
LuksFairness == WF_luksVars(Poll)

----------------------------------------------------------------------------

\* What reaches a request's socket was typed while that very request was
\* prompted for, although request files come and go between two polls
\* (poll_external_state, type_char, submit).
TypedForThisRequest ==
    \A q \in Requests :
        received[q].kind = "typed" => Range(received[q].typed) \subseteq {q}

\* Every mode serves its requests: a prompt with nothing to do takes up the
\* request at the head of the directory, unless a file that cannot be parsed is
\* in the way (poll_external_state), and without a display every request that
\* can be parsed is answered, whatever lies beside it (run_noninteractive).
RequestsServed ==
    /\ (initrd /\ interactive /\ current_request = None /\ ask_dir # <<>>)
          ~> \/ current_request # None \/ ask_dir = <<>> \/ luks_should_exit \/ ~initrd
             \/ garbled \cap Asked # {}
    /\ \A q \in Requests :
          (~interactive /\ initrd /\ q \in Asked \ garbled)
             ~> (received[q].kind = "file" \/ q \notin Asked \/ ~initrd)

\* The agent ends when the pivot is over, with a prompt open or without one
\* (poll_external_state, run_noninteractive).
AgentExits == ~initrd ~> luks_should_exit

=============================================================================
