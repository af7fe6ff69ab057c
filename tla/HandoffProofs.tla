---------------------------- MODULE HandoffProofs ----------------------------
(***************************************************************************)
(* What Handoff promises for any number of logins, greeters, users and     *)
(* toplevels: its types, that no greeter the compositor knows of runs      *)
(* behind a session, that only a session disarms the gate, and that the    *)
(* two keys of a swap are of one session.                                  *)
(***************************************************************************)
EXTENDS Handoff, SequenceTheorems, TLAPS

Frame == {"SessionOpened", "SessionEnded", "EOF"}

\* The gate has swapped exactly while the session is the foreground; then the
\* handle is empty, and a greeter that runs under a handle is the handle's.
ForegroundInv ==
    /\ swap.phase = "Swapped" <=> foreground = "Session"
    /\ foreground = "Session" => greeter = 0
    /\ \A g \in Greeter : greeters[g] = "live" => g = greeter

\* A login has no session before its StartSession, and SessionEnded follows the
\* leader's exit.
SessionInv ==
    /\ \A c \in Login : connections[c].greeter => connections[c].here
    /\ \A c \in Login : connections[c].here => c < next_conn_id
    /\ \A c \in Login : ~connections[c].spawned /\ connections[c].here
                           => session[c].leader = "none"
    /\ \A c \in Login : c >= next_conn_id => session[c].leader = "none"
    /\ \A c \in Login : \A i \in 1..Len(fromBroker[c]) :
          fromBroker[c][i] = "SessionEnded" => session[c].leader = "exited"

Inv == TypeOK /\ ForegroundInv /\ SessionInv

----------------------------------------------------------------------------
(* The gate.                                                               *)

\* Turning a key gives a gate, which has swapped exactly when the action says
\* so or it had swapped before.
LEMMA ArmFacts ==
  ASSUME NEW g \in Gate(Login), NEW key \in {"opened", "frame"}, NEW by \in Login
  PROVE  /\ Arm(g, key, by) \in Gate(Login)
         /\ ArmAction(g, key, by) = "Swap" => Arm(g, key, by).phase = "Swapped"
         /\ ArmAction(g, key, by) = "None" =>
               (Arm(g, key, by).phase = "Swapped" <=> g.phase = "Swapped")
         /\ Arm(g, key, by).phase = "Done" => g.phase = "Done"
<1>1. CASE g.phase # "Arming"
  BY <1>1 DEF Arm, ArmAction, Gate
<1>2. CASE g.phase = "Arming"
  <2> DEFINE armed == [g EXCEPT ![key] = by]
             ph == IF BothKeys(armed) THEN "Swapped" ELSE "Arming"
  <2>1. armed \in Gate(Login)
    <3>1. CASE key = "opened"
      BY <3>1 DEF Gate
    <3>2. CASE key = "frame"
      BY <3>2 DEF Gate
    <3> QED BY <3>1, <3>2
  <2>2. Arm(g, key, by) = [armed EXCEPT !.phase = ph]
    BY <1>2 DEF Arm
  <2>3. ph \in {"Swapped", "Arming"}
    OBVIOUS
  <2> HIDE DEF armed, ph
  <2>4. Arm(g, key, by) \in Gate(Login) /\ Arm(g, key, by).phase = ph
    BY <2>1, <2>2, <2>3 DEF Gate
  <2> QED BY <1>2, <2>3, <2>4 DEF ArmAction
<1> QED BY <1>1, <1>2

\* revert_or_disarm gives a gate that is done, and a fresh gate is arming.
LEMMA RevertFacts ==
  ASSUME NEW g \in Gate(Login)
  PROVE  /\ RevertOrDisarm(g) \in Gate(Login)
         /\ RevertOrDisarm(g).phase = "Done"
         /\ NewGate \in Gate(Login) /\ NewGate.phase = "Arming"
  BY DEF RevertOrDisarm, NewGate, Gate

\* The part of the type invariant the hand-off changes.
HandoffTypes ==
    /\ swap \in Gate(Login)
    /\ foreground \in {"Greeter", "Session"}
    /\ session_uid \in Users \cup {None}
    /\ greeter \in Greeter \cup {0}
    /\ greeters \in [Greeter -> {"unborn", "live", "orphan", "dead"}]

\* A key keeps the hand-off's invariant, and disarms nothing.
LEMMA TurnKeyInv ==
  ASSUME HandoffTypes, ForegroundInv, NEW key \in {"opened", "frame"},
         NEW by \in Login, TurnKey(key, by)
  PROVE  /\ HandoffTypes' /\ ForegroundInv'
         /\ swap'.phase = "Done" => swap.phase = "Done"
<1> DEFINE gate == Arm(swap, key, by)
<1>1. /\ gate \in Gate(Login)
      /\ ArmAction(swap, key, by) = "Swap" => gate.phase = "Swapped"
      /\ ArmAction(swap, key, by) = "None" =>
            (gate.phase = "Swapped" <=> swap.phase = "Swapped")
      /\ gate.phase = "Done" => swap.phase = "Done"
  BY ArmFacts DEF HandoffTypes
<1>2. CASE ArmAction(swap, key, by) = "None" /\ ApplyNone(gate)
  BY <1>1, <1>2 DEF ApplyNone, HandoffTypes, ForegroundInv
<1>3. CASE ArmAction(swap, key, by) = "Swap" /\ ApplySwap(gate)
  <2> HIDE DEF gate
  <2>1. /\ swap' = gate /\ foreground' = "Session" /\ session_uid' = session_uid
        /\ greeter' = 0
        /\ greeters' = [g \in Greeter |-> IF g = greeter THEN "dead" ELSE greeters[g]]
    BY <1>3 DEF ApplySwap, KillGreeter
  <2>2. greeters' \in [Greeter -> {"unborn", "live", "orphan", "dead"}]
    BY <2>1 DEF HandoffTypes
  <2>3. \A g \in Greeter : greeters'[g] # "live"
    BY <2>1 DEF ForegroundInv
  <2>4. HandoffTypes'
    BY <1>1, <2>1, <2>2 DEF HandoffTypes
  <2>5. ForegroundInv'
    BY <1>1, <1>3, <2>1, <2>3 DEF ForegroundInv
  <2> QED BY <1>1, <2>1, <2>4, <2>5
<1> QED BY <1>2, <1>3 DEF TurnKey

\* The end of a session keeps it, too.
LEMMA EndSessionInv ==
  ASSUME HandoffTypes, ForegroundInv, EndSession
  PROVE  HandoffTypes' /\ ForegroundInv'
<1>1. CASE RevertAction(swap) = "None" /\ ApplyNone(RevertOrDisarm(swap))
  <2>1. swap.phase # "Swapped"
    BY <1>1 DEF RevertAction
  <2>2. /\ swap' = RevertOrDisarm(swap)
        /\ UNCHANGED <<foreground, session_uid, greeter, greeters>>
    BY <1>1 DEF ApplyNone
  <2>3. swap' \in Gate(Login) /\ swap'.phase = "Done"
    BY <2>2, RevertFacts DEF HandoffTypes
  <2> QED BY <2>1, <2>2, <2>3 DEF HandoffTypes, ForegroundInv
<1>2. CASE RevertAction(swap) = "Revert" /\ ApplyRevert
  <2>1. foreground = "Session" /\ greeter = 0
    BY <1>2 DEF RevertAction, ForegroundInv
  <2>2. swap' = NewGate /\ foreground' = "Greeter" /\ session_uid' = None /\ SpawnGreeter
    BY <1>2 DEF ApplyRevert
  <2>3. swap' \in Gate(Login) /\ swap'.phase = "Arming"
    BY <2>2, RevertFacts DEF HandoffTypes
  <2>4. \A g \in Greeter : greeters[g] # "live"
    BY <2>1, HandoffAssumption DEF ForegroundInv, Greeter
  <2>5. /\ greeter' \in Greeter \cup {0}
        /\ greeters' \in [Greeter -> {"unborn", "live", "orphan", "dead"}]
        /\ \A g \in Greeter : greeters'[g] = "live" => g = greeter'
    <3>1. CASE UNCHANGED <<greeter, greeters>>
      BY <2>4, <3>1 DEF HandoffTypes
    <3>2. ASSUME NEW g \in Greeter, greeter' = g, greeters' = [greeters EXCEPT ![g] = "live"]
          PROVE  <2>5!1 /\ <2>5!2 /\ <2>5!3
      BY <2>4, <3>2 DEF HandoffTypes
    <3>3. ASSUME NEW g \in Greeter, greeters' = [greeters EXCEPT ![g] = "orphan"],
                 UNCHANGED greeter
          PROVE  <2>5!1 /\ <2>5!2 /\ <2>5!3
      BY <2>4, <3>3 DEF HandoffTypes
    <3> QED BY <2>2, <3>1, <3>2, <3>3 DEF SpawnGreeter
  <2> QED BY <2>2, <2>3, <2>5 DEF HandoffTypes, ForegroundInv
<1> QED BY <1>1, <1>2 DEF EndSession

----------------------------------------------------------------------------
(* The connections and the sessions.                                       *)

\* The other parts of the type invariant, one per group of variables.
SurfaceTypes ==
    /\ foreground_toplevel \in Top \cup {None}
    /\ session_first_frame_emitted \in BOOLEAN
    /\ clients \subseteq Login
    /\ tops \subseteq Top /\ painted \subseteq tops
ConnTypes ==
    /\ connections \in [Login -> ConnState]
    /\ next_conn_id \in 1..(MaxLogins + 1)
    /\ idle \subseteq Login
Session == [leader : {"none", "starting", "running", "exited"},
            uid : Users \cup {None}, lost : BOOLEAN]
SessionTypes ==
    /\ session \in [Login -> Session]
    /\ fromBroker \in [Login -> Seq(Frame)]

\* TypeOK by groups of variables.
LEMMA TypeParts ==
  /\ TypeOK <=> HandoffTypes /\ SurfaceTypes /\ ConnTypes /\ SessionTypes
  /\ TypeOK' <=> HandoffTypes' /\ SurfaceTypes' /\ ConnTypes' /\ SessionTypes'
  BY DEF TypeOK, HandoffTypes, SurfaceTypes, ConnTypes, SessionTypes, Session, Frame

\* What a variable group that is left alone keeps.
LEMMA Same ==
  /\ UNCHANGED handoffVars /\ HandoffTypes /\ ForegroundInv => HandoffTypes' /\ ForegroundInv'
  /\ UNCHANGED surfaceVars /\ SurfaceTypes => SurfaceTypes'
  /\ UNCHANGED connVars /\ ConnTypes => ConnTypes'
  /\ UNCHANGED sessionVars /\ SessionTypes => SessionTypes'
  /\ UNCHANGED connVars /\ UNCHANGED sessionVars /\ SessionInv => SessionInv'
<1>1. UNCHANGED handoffVars /\ HandoffTypes /\ ForegroundInv => HandoffTypes' /\ ForegroundInv'
  BY DEF handoffVars, HandoffTypes, ForegroundInv
<1>2. UNCHANGED surfaceVars /\ SurfaceTypes => SurfaceTypes'
  BY DEF surfaceVars, SurfaceTypes
<1>3. UNCHANGED connVars /\ ConnTypes => ConnTypes'
  BY DEF connVars, ConnTypes
<1>4. UNCHANGED sessionVars /\ SessionTypes => SessionTypes'
  BY DEF sessionVars, SessionTypes
<1>5. UNCHANGED connVars /\ UNCHANGED sessionVars /\ SessionInv => SessionInv'
  BY DEF connVars, sessionVars, SessionInv
<1> QED BY <1>1, <1>2, <1>3, <1>4, <1>5

\* A connection that changes, or goes, says nothing new of its session.
LEMMA ConnUpdate ==
  ASSUME ConnTypes, SessionTypes, SessionInv, NEW c \in Login, NEW v \in ConnState,
         connections' = [connections EXCEPT ![c] = v],
         v.greeter => v.here,
         v.here => connections[c].here /\ (connections[c].spawned => v.spawned),
         UNCHANGED next_conn_id, UNCHANGED session,
         \/ UNCHANGED fromBroker
         \/ /\ fromBroker[c] # <<>>
            /\ fromBroker' = [fromBroker EXCEPT ![c] = Tail(@)]
  PROVE  /\ connections' \in [Login -> ConnState]
         /\ SessionTypes' /\ SessionInv'
<1>1. connections' \in [Login -> ConnState]
  BY DEF ConnTypes
<1>2. /\ SessionTypes'
      /\ \A d \in Login : \A i \in 1..Len(fromBroker'[d]) :
            fromBroker'[d][i] = "SessionEnded" => session[d].leader = "exited"
  <2>1. CASE UNCHANGED fromBroker
    BY <2>1 DEF SessionTypes, SessionInv
  <2>2. CASE fromBroker[c] # <<>> /\ fromBroker' = [fromBroker EXCEPT ![c] = Tail(@)]
    <3> DEFINE q == fromBroker[c]
    <3>1. q \in Seq(Frame) /\ q # <<>>
      BY <2>2 DEF SessionTypes
    <3>2. /\ Tail(q) \in Seq(Frame) /\ Len(Tail(q)) = Len(q) - 1
          /\ \A i \in 1..Len(Tail(q)) : Tail(q)[i] = q[i + 1]
      BY <3>1, HeadTailProperties
    <3>3. \A d \in Login : fromBroker'[d] = IF d = c THEN Tail(q) ELSE fromBroker[d]
      BY <2>2 DEF SessionTypes
    <3>4. fromBroker' \in [Login -> Seq(Frame)]
      BY <2>2, <3>2, Zenon DEF SessionTypes
    <3>5. \A i \in 1..Len(Tail(q)) : i + 1 \in 1..Len(q)
      BY <3>1, <3>2
    <3>6. \A i \in 1..Len(q) : q[i] = "SessionEnded" => session[c].leader = "exited"
      BY DEF SessionInv
    <3>7. \A i \in 1..Len(Tail(q)) :
            Tail(q)[i] = "SessionEnded" => session[c].leader = "exited"
      <4> HIDE DEF q
      <4> QED BY <3>2, <3>5, <3>6
    <3> HIDE DEF q
    <3>8. \A i \in 1..Len(fromBroker'[c]) :
            fromBroker'[c][i] = "SessionEnded" => session[c].leader = "exited"
      <4>1. fromBroker'[c] = Tail(q)
        BY <3>3, Zenon
      <4> QED BY <3>7, <4>1, Zenon
    <3>9. ASSUME NEW d \in Login, d # c
          PROVE  \A i \in 1..Len(fromBroker'[d]) :
                    fromBroker'[d][i] = "SessionEnded" => session[d].leader = "exited"
      <4>1. fromBroker'[d] = fromBroker[d]
        BY <3>3, <3>9
      <4>2. \A i \in 1..Len(fromBroker[d]) :
               fromBroker[d][i] = "SessionEnded" => session[d].leader = "exited"
        BY Zenon DEF SessionInv
      <4> QED BY <4>1, <4>2, Zenon
    <3>10. SessionTypes'
      BY <3>4 DEF SessionTypes
    <3> QED BY <3>8, <3>9, <3>10, Zenon
  <2> QED BY <2>1, <2>2
<1>3. \A d \in Login : connections'[d] = IF d = c THEN v ELSE connections[d]
  BY DEF ConnTypes
<1>4. SessionInv'
  BY <1>2, <1>3 DEF SessionInv
<1> QED BY <1>1, <1>2, <1>4

\* A dropped connection is none, and has no greeter.
LEMMA AbsentType == Absent \in ConnState /\ ~Absent.here /\ ~Absent.greeter
  BY DEF Absent, ConnState

\* Settle drops the connection or lets its greeter's end go.
LEMMA SettleFacts ==
  ASSUME NEW cs \in ConnState
  PROVE  /\ Settle(cs) \in ConnState /\ ~Settle(cs).greeter
         /\ Settle(cs).here => cs.here /\ Settle(cs).spawned = cs.spawned
<1>1. CASE cs.terminate
  BY <1>1, AbsentType DEF Settle
<1>2. CASE ~cs.terminate
  BY <1>2, Zenon DEF Settle, ConnState
<1> QED BY <1>1, <1>2

----------------------------------------------------------------------------
(* The steps.                                                              *)

\* What a step may do to the gate.
DisarmOK ==
    swap.phase = "Arming" /\ swap'.phase = "Done" =>
        \E c \in Login : session[c].leader = "exited" \/ Owned(c) # Owned(c)'

\* main() enters the loop with it.
LEMMA InvInit ==
  ASSUME Init PROVE Inv
<1>1. HandoffTypes /\ ForegroundInv
  <2>1. swap \in Gate(Login) /\ swap.phase = "Arming"
    BY DEF Init, NewGate, Gate
  <2>2. greeter \in Greeter \cup {0}
    BY HandoffAssumption DEF Init, Greeter
  <2>3. /\ greeters \in [Greeter -> {"unborn", "live", "orphan", "dead"}]
        /\ \A g \in Greeter : greeters[g] = "live" => g = greeter
    BY DEF Init
  <2> QED BY <2>1, <2>2, <2>3 DEF Init, HandoffTypes, ForegroundInv
<1>2. ConnTypes
  BY AbsentType, HandoffAssumption DEF Init, ConnTypes
<1>3. SurfaceTypes
  BY Zenon DEF Init, SurfaceTypes
<1>4. SessionTypes
  <2>1. <<>> \in Seq(Frame)
    OBVIOUS
  <2> QED BY <2>1 DEF Init, SessionTypes, Session
<1>5. SessionInv
  <2>1. \A c \in Login : /\ connections[c] = Absent /\ session[c].leader = "none"
                         /\ fromBroker[c] = <<>>
    BY DEF Init
  <2>2. \A c \in Login : 1..Len(fromBroker[c]) = {}
    BY <2>1
  <2> QED BY <2>1, <2>2, AbsentType DEF SessionInv
<1> QED BY <1>1, <1>2, <1>3, <1>4, <1>5, TypeParts DEF Inv

\* A connection that handle_listener_ready keeps is a new login.
LEMMA AcceptInv ==
  ASSUME Inv, Accept PROVE Inv' /\ DisarmOK
<1>1. HandoffTypes /\ SurfaceTypes /\ ConnTypes /\ SessionTypes /\ ForegroundInv /\ SessionInv
  BY TypeParts DEF Inv
<1> DEFINE n == next_conn_id
           v == [Absent EXCEPT !.here = TRUE, !.greeter = TRUE]
<1>2. /\ n \in Login /\ n \in Nat /\ connections' = [connections EXCEPT ![n] = v]
      /\ next_conn_id' = n + 1
      /\ UNCHANGED handoffVars /\ UNCHANGED surfaceVars /\ UNCHANGED idle
      /\ UNCHANGED sessionVars
  BY DEF Accept, Login
<1>3. v \in ConnState /\ v.here
  BY Zenon DEF Absent, ConnState
<1> HIDE DEF v
<1>4. ConnTypes'
  BY <1>1, <1>2, <1>3, HandoffAssumption DEF ConnTypes, Login
<1>5. SessionInv'
  <2>1. \A c \in Login : connections'[c] = IF c = n THEN v ELSE connections[c]
    BY <1>1, <1>2 DEF ConnTypes
  <2>2. session[n].leader = "none"
    BY <1>1, <1>2 DEF SessionInv
  <2>3. session' = session /\ fromBroker' = fromBroker
    BY <1>2 DEF sessionVars
  <2>4. \A c \in Login : connections'[c].greeter => connections'[c].here
    BY <1>1, <1>3, <2>1 DEF SessionInv
  <2>5. \A c \in Login : connections'[c].here => c < next_conn_id'
    BY <1>1, <1>2, <2>1 DEF SessionInv, Login
  <2>6. \A c \in Login : ~connections'[c].spawned /\ connections'[c].here
                             => session[c].leader = "none"
    BY <1>1, <2>1, <2>2 DEF SessionInv
  <2>7. \A c \in Login : c >= next_conn_id' => session[c].leader = "none"
    BY <1>1, <1>2 DEF SessionInv, Login
  <2> QED BY <1>1, <2>3, <2>4, <2>5, <2>6, <2>7 DEF SessionInv
<1>6. HandoffTypes' /\ ForegroundInv' /\ SurfaceTypes' /\ SessionTypes'
  BY <1>1, <1>2, Same
<1>7. DisarmOK
  BY <1>2 DEF DisarmOK, handoffVars
<1> QED BY <1>4, <1>5, <1>6, <1>7, TypeParts DEF Inv

\* StartSession starts the session of a login that had none.
LEMMA StartSessionInv ==
  ASSUME Inv, NEW c \in Login, NEW u \in Users, StartSession(c, u)
  PROVE  Inv' /\ DisarmOK
<1>1. HandoffTypes /\ SurfaceTypes /\ ConnTypes /\ SessionTypes /\ ForegroundInv /\ SessionInv
  BY TypeParts DEF Inv
<1>2. /\ connections[c].greeter /\ ~connections[c].spawned
      /\ connections' = [connections EXCEPT ![c].spawned = TRUE]
      /\ session_uid' = IF session_uid = None THEN u ELSE session_uid
      /\ session' = [session EXCEPT ![c].leader = "starting", ![c].uid = u]
      /\ UNCHANGED <<swap, foreground, greeter, greeters, next_conn_id, idle, fromBroker>>
      /\ UNCHANGED surfaceVars
  BY DEF StartSession
<1>3. connections[c].here /\ session[c].leader = "none" /\ c < next_conn_id
  BY <1>1, <1>2 DEF SessionInv
<1>4. HandoffTypes' /\ ForegroundInv' /\ SurfaceTypes'
  BY <1>1, <1>2, Same DEF HandoffTypes, ForegroundInv
<1>5. ConnTypes'
  BY <1>1, <1>2, Zenon DEF ConnTypes, ConnState
<1>6. SessionTypes'
  <2> DEFINE v == [session[c] EXCEPT !.leader = "starting", !.uid = u]
  <2>1. session[c] \in Session
    BY <1>1 DEF SessionTypes
  <2>2. v \in Session
    BY <2>1, Zenon DEF Session
  <2>3. session' = [session EXCEPT ![c] = v]
    BY <1>1, <1>2, Zenon DEF SessionTypes
  <2> HIDE DEF v
  <2> QED BY <1>1, <1>2, <2>2, <2>3, Zenon DEF SessionTypes
<1>7. SessionInv'
  <2>1. \A d \in Login : d # c => connections'[d] = connections[d] /\ session'[d] = session[d]
    BY <1>1, <1>2 DEF ConnTypes, SessionTypes
  <2>2. /\ connections'[c].spawned = TRUE
        /\ connections'[c].here = connections[c].here
        /\ connections'[c].greeter = connections[c].greeter
    BY <1>1, <1>2, Zenon DEF ConnTypes, ConnState
  <2>3. \A i \in 1..Len(fromBroker[c]) : fromBroker[c][i] # "SessionEnded"
    BY <1>1, <1>3 DEF SessionInv
  <2>4. c \in Nat /\ next_conn_id \in Nat
    BY <1>1 DEF Login, ConnTypes
  <2>5. ~(c >= next_conn_id)
    BY <1>3, <2>4
  <2>6. \A d \in Login : /\ connections'[d].greeter = connections[d].greeter
                         /\ connections'[d].here = connections[d].here
    BY <2>1, <2>2
  <2>7. \A d \in Login : \A i \in 1..Len(fromBroker[d]) :
          fromBroker[d][i] = "SessionEnded" => session'[d].leader = "exited"
    BY <1>1, <2>1, <2>3 DEF SessionInv
  <2>8. \A d \in Login : ~connections'[d].spawned /\ connections'[d].here
                             => session'[d].leader = "none"
    BY <1>1, <2>1, <2>2 DEF SessionInv
  <2>9. \A d \in Login : d >= next_conn_id => session'[d].leader = "none"
    BY <1>1, <2>1, <2>5 DEF SessionInv
  <2>10. next_conn_id' = next_conn_id /\ fromBroker' = fromBroker
    BY <1>2
  <2> QED BY <1>1, <2>6, <2>7, <2>8, <2>9, <2>10 DEF SessionInv
<1>8. DisarmOK
  BY <1>2 DEF DisarmOK
<1> QED BY <1>4, <1>5, <1>6, <1>7, <1>8, TypeParts DEF Inv

\* The callbacks that only let go of a connection.
LEMMA ReleaseInv ==
  ASSUME Inv, NEW c \in Login,
         GreeterCloses(c) \/ GreeterWritable(c) \/ IdleDrop(c)
  PROVE  Inv' /\ DisarmOK
<1>1. HandoffTypes /\ SurfaceTypes /\ ConnTypes /\ SessionTypes /\ ForegroundInv /\ SessionInv
  BY TypeParts DEF Inv
<1>2. /\ UNCHANGED handoffVars /\ UNCHANGED surfaceVars /\ UNCHANGED next_conn_id
      /\ UNCHANGED sessionVars
  BY DEF GreeterCloses, GreeterWritable, IdleDrop
<1>3. connections[c] \in ConnState
  BY <1>1 DEF ConnTypes
<1>4. /\ idle' \subseteq Login
      /\ \/ connections' = [connections EXCEPT ![c] = Absent]
         \/ connections' = [connections EXCEPT ![c] = Settle(connections[c])]
  BY <1>1 DEF GreeterCloses, GreeterWritable, IdleDrop, ConnTypes
<1>5. UNCHANGED session /\ UNCHANGED fromBroker
  BY <1>2 DEF sessionVars
<1>6. connections' \in [Login -> ConnState] /\ SessionTypes' /\ SessionInv'
  <2>1. CASE connections' = [connections EXCEPT ![c] = Absent]
    BY <1>1, <1>2, <1>5, <2>1, AbsentType, ConnUpdate, Zenon
  <2>2. CASE connections' = [connections EXCEPT ![c] = Settle(connections[c])]
    <3> DEFINE v == Settle(connections[c])
    <3>1. /\ v \in ConnState /\ ~v.greeter
          /\ v.here => connections[c].here /\ (connections[c].spawned => v.spawned)
      BY <1>3, SettleFacts
    <3> HIDE DEF v
    <3>2. connections' = [connections EXCEPT ![c] = v]
      BY <2>2 DEF v
    <3> QED BY <1>1, <1>2, <1>5, <3>1, <3>2, ConnUpdate, Zenon
  <2> QED BY <1>4, <2>1, <2>2
<1>7. ConnTypes'
  BY <1>1, <1>2, <1>4, <1>6 DEF ConnTypes
<1>8. DisarmOK
  BY <1>2 DEF DisarmOK, handoffVars
<1>9. HandoffTypes' /\ ForegroundInv' /\ SurfaceTypes'
  BY <1>1, <1>2, Same
<1> QED BY <1>6, <1>7, <1>8, <1>9, TypeParts DEF Inv

\* The frames of the broker.
LEMMA BrokerFrameInv ==
  ASSUME Inv, NEW c \in Login,
         BrokerSaysOpened(c) \/ BrokerSaysEnded(c) \/ BrokerGone(c)
  PROVE  Inv' /\ DisarmOK
<1>1. HandoffTypes /\ SurfaceTypes /\ ConnTypes /\ SessionTypes /\ ForegroundInv /\ SessionInv
  BY TypeParts DEF Inv
<1>2. /\ connections[c].here /\ fromBroker[c] # <<>>
      /\ fromBroker' = [fromBroker EXCEPT ![c] = Tail(@)]
      /\ UNCHANGED surfaceVars /\ UNCHANGED next_conn_id /\ UNCHANGED session
  BY DEF BrokerSaysOpened, BrokerSaysEnded, BrokerGone, BrokerReads
<1>3. connections[c] \in ConnState
  BY <1>1 DEF ConnTypes
<1>4. \E v \in ConnState :
         /\ connections' = [connections EXCEPT ![c] = v]
         /\ v.here = connections[c].here /\ v.greeter = connections[c].greeter
         /\ v.spawned = connections[c].spawned
  <2>1. CASE BrokerSaysOpened(c)
    <3>1. PICK armed \in BOOLEAN : connections' = [connections EXCEPT ![c].pidfd = armed]
      BY <2>1, Zenon DEF BrokerSaysOpened
    <3> DEFINE v == [connections[c] EXCEPT !.pidfd = armed]
    <3>2. connections' = [connections EXCEPT ![c] = v]
      BY <3>1
    <3>3. /\ v \in ConnState /\ v.here = connections[c].here
          /\ v.greeter = connections[c].greeter /\ v.spawned = connections[c].spawned
      BY <1>3 DEF ConnState
    <3> HIDE DEF v
    <3> QED BY <3>2, <3>3, Zenon
  <2>2. CASE BrokerTerminates(c)
    <3> DEFINE v == [connections[c] EXCEPT !.terminate = TRUE]
    <3>1. connections' = [connections EXCEPT ![c] = v]
      BY <2>2 DEF BrokerTerminates
    <3>2. /\ v \in ConnState /\ v.here = connections[c].here
          /\ v.greeter = connections[c].greeter /\ v.spawned = connections[c].spawned
      BY <1>3, Zenon DEF ConnState
    <3> HIDE DEF v
    <3> QED BY <3>1, <3>2, Zenon
  <2> QED BY <2>1, <2>2 DEF BrokerSaysEnded, BrokerGone
<1>5. connections' \in [Login -> ConnState] /\ SessionTypes' /\ SessionInv'
  <2>1. PICK v \in ConnState :
         /\ connections' = [connections EXCEPT ![c] = v]
         /\ v.here = connections[c].here /\ v.greeter = connections[c].greeter
         /\ v.spawned = connections[c].spawned
    BY <1>4, Zenon
  <2>2. v.greeter => v.here
    BY <1>2, <2>1
  <2> QED BY <1>1, <1>2, <2>1, <2>2, ConnUpdate, Zenon
<1>6. idle' \subseteq Login
  BY <1>1 DEF BrokerSaysOpened, BrokerSaysEnded, BrokerGone, BrokerTerminates, ConnTypes
<1>7. ConnTypes' /\ SurfaceTypes'
  BY <1>1, <1>2, <1>5, <1>6, Same DEF ConnTypes
<1>8. HandoffTypes' /\ ForegroundInv' /\ DisarmOK
  <2>1. CASE BrokerSaysOpened(c)
    BY <1>1, <2>1, TurnKeyInv DEF BrokerSaysOpened, DisarmOK
  <2>2. CASE BrokerSaysEnded(c)
    <3>1. HandoffTypes' /\ ForegroundInv'
      BY <1>1, <2>2, EndSessionInv DEF BrokerSaysEnded
    <3>2. Head(fromBroker[c]) = "SessionEnded"
      BY <2>2 DEF BrokerSaysEnded, BrokerReads
    <3>3. 1 \in 1..Len(fromBroker[c]) /\ fromBroker[c][1] = "SessionEnded"
      BY <1>1, <1>2, <3>2 DEF SessionTypes
    <3>4. session[c].leader = "exited"
      BY <1>1, <3>3 DEF SessionInv
    <3> QED BY <3>1, <3>4 DEF DisarmOK
  <2>3. CASE BrokerGone(c)
    <3>1. UNCHANGED handoffVars
      BY <2>3 DEF BrokerGone
    <3> QED BY <1>1, <3>1, Same DEF DisarmOK, handoffVars
  <2> QED BY <2>1, <2>2, <2>3
<1> QED BY <1>5, <1>7, <1>8, TypeParts DEF Inv

\* The backstop fires only once the leader has exited.
LEMMA LeaderPidfdInv ==
  ASSUME Inv, NEW c \in Login, LeaderPidfdReady(c)
  PROVE  Inv' /\ DisarmOK
<1>1. HandoffTypes /\ SurfaceTypes /\ ConnTypes /\ SessionTypes /\ ForegroundInv /\ SessionInv
  BY TypeParts DEF Inv
<1> DEFINE v == [connections[c] EXCEPT !.pidfd = FALSE]
<1>2. /\ session[c].leader = "exited" /\ EndSession
      /\ connections' = [connections EXCEPT ![c] = v]
      /\ UNCHANGED surfaceVars /\ UNCHANGED next_conn_id /\ UNCHANGED idle
      /\ UNCHANGED session /\ UNCHANGED fromBroker
  BY DEF LeaderPidfdReady, sessionVars
<1>3. /\ v \in ConnState /\ v.here = connections[c].here
      /\ v.greeter = connections[c].greeter /\ v.spawned = connections[c].spawned
  BY <1>1, Zenon DEF ConnTypes, ConnState
<1> HIDE DEF v
<1>4. v.greeter => v.here
  BY <1>1, <1>3, Zenon DEF SessionInv
<1>5. connections' \in [Login -> ConnState] /\ SessionTypes' /\ SessionInv'
  BY <1>1, <1>2, <1>3, <1>4, ConnUpdate, Zenon
<1>6. ConnTypes' /\ SurfaceTypes'
  BY <1>1, <1>2, <1>5, Same DEF ConnTypes
<1>7. HandoffTypes' /\ ForegroundInv'
  BY <1>1, <1>2, EndSessionInv
<1>8. DisarmOK
  BY <1>2 DEF DisarmOK
<1> QED BY <1>5, <1>6, <1>7, <1>8, TypeParts DEF Inv

\* The sessions behind the broker: a frame is appended to a channel, and
\* SessionEnded only as the leader exits.
LEMMA SessionsInv ==
  ASSUME Inv, NEW c \in Login,
         SessionOpens(c) \/ LeaderExits(c) \/ BrokerHangsUp(c)
  PROVE  Inv' /\ DisarmOK
<1>1. HandoffTypes /\ SurfaceTypes /\ ConnTypes /\ SessionTypes /\ ForegroundInv /\ SessionInv
  BY TypeParts DEF Inv
<1>2. UNCHANGED handoffVars /\ UNCHANGED surfaceVars /\ UNCHANGED connVars
  BY DEF SessionOpens, LeaderExits, BrokerHangsUp
<1>3. session[c] \in Session /\ fromBroker[c] \in Seq(Frame)
  BY <1>1 DEF SessionTypes
<1>4. \E v \in Session :
         /\ session' = [session EXCEPT ![c] = v]
         /\ session[c].leader = "none" => v.leader = "none"
         /\ session[c].leader = "exited" => v.leader = "exited"
         /\ \/ UNCHANGED fromBroker
            \/ \E f \in Frame :
                  /\ f = "SessionEnded" => v.leader = "exited"
                  /\ fromBroker' = [fromBroker EXCEPT ![c] = Append(@, f)]
  <2>1. CASE SessionOpens(c)
    <3> DEFINE v == [session[c] EXCEPT !.leader = "running"]
    <3>1. /\ session[c].leader = "starting" /\ session' = [session EXCEPT ![c] = v]
          /\ fromBroker' = [fromBroker EXCEPT ![c] = Append(@, "SessionOpened")]
      BY <2>1 DEF SessionOpens
    <3>2. v \in Session
      BY <1>3 DEF Session
    <3> QED BY <3>1, <3>2, Zenon DEF Frame
  <2>2. CASE LeaderExits(c)
    <3> DEFINE v == [session[c] EXCEPT !.leader = "exited"]
    <3>1. /\ session[c].leader = "running" /\ session' = [session EXCEPT ![c] = v]
          /\ \/ fromBroker' = [fromBroker EXCEPT ![c] = Append(@, "SessionEnded")]
             \/ UNCHANGED fromBroker
      BY <2>2 DEF LeaderExits
    <3>2. v \in Session /\ v.leader = "exited"
      BY <1>3 DEF Session
    <3> HIDE DEF v
    <3> QED BY <3>1, <3>2, Zenon DEF Frame
  <2>3. CASE BrokerHangsUp(c)
    <3> DEFINE l == IF session[c].leader = "starting" THEN "exited" ELSE session[c].leader
               v == [session[c] EXCEPT !.leader = l, !.lost = TRUE]
    <3>1. /\ session[c].leader # "exited" /\ session' = [session EXCEPT ![c] = v]
          /\ fromBroker' = [fromBroker EXCEPT ![c] = Append(@, "EOF")]
      BY <2>3, Zenon DEF BrokerHangsUp
    <3>2. l \in {"none", "starting", "running", "exited"}
      BY <1>3 DEF Session
    <3>3. session[c].leader = "none" => l = "none"
      OBVIOUS
    <3> HIDE DEF l
    <3>4. v \in Session /\ v.leader = l
      BY <1>3, <3>2, Zenon DEF Session
    <3> HIDE DEF v
    <3> QED BY <3>1, <3>3, <3>4, Zenon DEF Frame
  <2> QED BY <2>1, <2>2, <2>3
<1>5. PICK v \in Session :
         /\ session' = [session EXCEPT ![c] = v]
         /\ session[c].leader = "none" => v.leader = "none"
         /\ session[c].leader = "exited" => v.leader = "exited"
         /\ \/ UNCHANGED fromBroker
            \/ \E f \in Frame :
                  /\ f = "SessionEnded" => v.leader = "exited"
                  /\ fromBroker' = [fromBroker EXCEPT ![c] = Append(@, f)]
  BY <1>4, Zenon
<1>6. \A d \in Login : session'[d] = IF d = c THEN v ELSE session[d]
  BY <1>1, <1>5 DEF SessionTypes
<1>7. session' \in [Login -> Session]
  BY <1>1, <1>5 DEF SessionTypes
<1>8. /\ fromBroker' \in [Login -> Seq(Frame)]
      /\ \A d \in Login : \A i \in 1..Len(fromBroker'[d]) :
            fromBroker'[d][i] = "SessionEnded" => session'[d].leader = "exited"
  <2>1. CASE UNCHANGED fromBroker
    BY <1>1, <1>5, <1>6, <2>1 DEF SessionTypes, SessionInv
  <2>2. ASSUME NEW f \in Frame, f = "SessionEnded" => v.leader = "exited",
               fromBroker' = [fromBroker EXCEPT ![c] = Append(@, f)]
        PROVE  <1>8!1 /\ <1>8!2
    <3> DEFINE q == fromBroker[c]
               r == Append(q, f)
    <3>1. r \in Seq(Frame) /\ Len(r) = Len(q) + 1
      BY <1>3
    <3>2. \A d \in Login : fromBroker'[d] = IF d = c THEN r ELSE fromBroker[d]
      BY <1>1, <2>2 DEF SessionTypes
    <3>3. fromBroker' \in [Login -> Seq(Frame)]
      BY <1>1, <2>2, <3>1 DEF SessionTypes
    <3>4. \A i \in 1..Len(q) : q[i] = "SessionEnded" => v.leader = "exited"
      BY <1>1, <1>5 DEF SessionInv
    <3>5. \A i \in 1..Len(r) : r[i] = "SessionEnded" => v.leader = "exited"
      <4>1. \A i \in 1..Len(r) : (i \in 1..Len(q) /\ r[i] = q[i]) \/ r[i] = f
        BY <1>3, <3>1
      <4> HIDE DEF q, r
      <4> QED BY <2>2, <3>4, <4>1
    <3> HIDE DEF r, q
    <3>6. \A i \in 1..Len(fromBroker'[c]) :
            fromBroker'[c][i] = "SessionEnded" => session'[c].leader = "exited"
      <4>1. fromBroker'[c] = r /\ session'[c] = v
        BY <1>6, <3>2
      <4> QED BY <3>5, <4>1, Zenon
    <3>7. ASSUME NEW d \in Login, d # c
          PROVE  \A i \in 1..Len(fromBroker'[d]) :
                    fromBroker'[d][i] = "SessionEnded" => session'[d].leader = "exited"
      <4>1. fromBroker'[d] = fromBroker[d] /\ session'[d] = session[d]
        BY <1>6, <3>2, <3>7
      <4>2. \A i \in 1..Len(fromBroker[d]) :
               fromBroker[d][i] = "SessionEnded" => session[d].leader = "exited"
        BY <1>1, Zenon DEF SessionInv
      <4> QED BY <4>1, <4>2, Zenon
    <3> QED BY <3>3, <3>6, <3>7, Zenon
  <2> QED BY <1>5, <2>1, <2>2
<1>9. SessionInv'
  <2>1. connections' = connections /\ next_conn_id' = next_conn_id
    BY <1>2 DEF connVars
  <2> QED BY <1>1, <1>5, <1>6, <1>8, <2>1 DEF SessionInv
<1>10. SessionTypes'
  BY <1>7, <1>8 DEF SessionTypes
<1>11. HandoffTypes' /\ ForegroundInv' /\ SurfaceTypes' /\ ConnTypes'
  BY <1>1, <1>2, Same
<1>12. DisarmOK
  BY <1>2 DEF DisarmOK, handoffVars
<1> QED BY <1>9, <1>10, <1>11, <1>12, TypeParts DEF Inv

\* Clients and greeters that come and go leave the gate alone.
LEMMA ClientsInv ==
  ASSUME Inv,
         \/ \E c \in Login : ClientConnects(c) \/ ClientLeaves(c)
         \/ \E g \in Greeter : GreeterExits(g)
         \/ \E t \in Top : NewToplevel(t)
  PROVE  Inv' /\ DisarmOK
<1>1. HandoffTypes /\ SurfaceTypes /\ ConnTypes /\ SessionTypes /\ ForegroundInv /\ SessionInv
  BY TypeParts DEF Inv
<1>2. UNCHANGED connVars /\ UNCHANGED sessionVars /\ swap' = swap
  BY DEF ClientConnects, ClientLeaves, GreeterExits, NewToplevel, handoffVars
<1>3. SurfaceTypes'
  <2>1. CASE \E c \in Login : ClientConnects(c) \/ ClientLeaves(c)
    BY <1>1, <2>1 DEF ClientConnects, ClientLeaves, SurfaceTypes
  <2>2. CASE \E g \in Greeter : GreeterExits(g)
    BY <1>1, <2>2, Same DEF GreeterExits
  <2>3. CASE \E t \in Top : NewToplevel(t)
    BY <1>1, <2>3 DEF NewToplevel, SurfaceTypes
  <2> QED BY <2>1, <2>2, <2>3
<1>4. HandoffTypes' /\ ForegroundInv'
  <2>1. CASE UNCHANGED handoffVars
    BY <1>1, <2>1, Same
  <2>2. CASE \E g \in Greeter : GreeterExits(g)
    <3>1. PICK g \in Greeter : GreeterExits(g)
      BY <2>2
    <3>2. /\ greeters' = [greeters EXCEPT ![g] = "dead"]
          /\ UNCHANGED <<swap, foreground, session_uid, greeter>>
      BY <3>1 DEF GreeterExits
    <3> QED BY <1>1, <3>2 DEF HandoffTypes, ForegroundInv
  <2> QED BY <2>1, <2>2 DEF ClientConnects, ClientLeaves, NewToplevel
<1>5. ConnTypes' /\ SessionTypes' /\ SessionInv'
  BY <1>1, <1>2, Same
<1>6. DisarmOK
  BY <1>2 DEF DisarmOK
<1> QED BY <1>3, <1>4, <1>5, <1>6, TypeParts DEF Inv

\* ApplyNone with the gate as it is.
LEMMA ApplyNoneSame ==
  ASSUME HandoffTypes, ForegroundInv, ApplyNone(swap)
  PROVE  HandoffTypes' /\ ForegroundInv' /\ DisarmOK
  BY DEF ApplyNone, HandoffTypes, ForegroundInv, DisarmOK

\* A commit may turn the second key; the toplevel is of a login then.
LEMMA CommitInv ==
  ASSUME Inv, NEW t \in Top, Commit(t) PROVE Inv' /\ DisarmOK
<1>1. HandoffTypes /\ SurfaceTypes /\ ConnTypes /\ SessionTypes /\ ForegroundInv /\ SessionInv
  BY TypeParts DEF Inv
<1>2. /\ t \in tops /\ painted' = painted \cup {t}
      /\ UNCHANGED <<clients, tops, foreground_toplevel>>
      /\ UNCHANGED connVars /\ UNCHANGED sessionVars
  BY DEF Commit
<1>3. \/ OfSession(t) /\ session_first_frame_emitted' = TRUE /\ TurnKey("frame", t[1])
      \/ ApplyNone(swap) /\ UNCHANGED session_first_frame_emitted
  BY DEF Commit
<1>4. SurfaceTypes'
  BY <1>1, <1>2, <1>3, Zenon DEF SurfaceTypes
<1>5. HandoffTypes' /\ ForegroundInv' /\ DisarmOK
  <2>1. CASE OfSession(t) /\ TurnKey("frame", t[1])
    <3>1. t[1] \in Login
      BY <2>1 DEF OfSession, Top
    <3> QED BY <1>1, <2>1, <3>1, TurnKeyInv DEF DisarmOK
  <2>2. CASE ApplyNone(swap)
    BY <1>1, <2>2, ApplyNoneSame
  <2> QED BY <1>3, <2>1, <2>2
<1>6. ConnTypes' /\ SessionTypes' /\ SessionInv'
  BY <1>1, <1>2, Same
<1> QED BY <1>4, <1>5, <1>6, TypeParts DEF Inv

\* A toplevel that goes ends the session only if it is the session's.
LEMMA DestroyedInv ==
  ASSUME Inv, NEW t \in Top, ToplevelDestroyed(t) PROVE Inv' /\ DisarmOK
<1>1. HandoffTypes /\ SurfaceTypes /\ ConnTypes /\ SessionTypes /\ ForegroundInv /\ SessionInv
  BY TypeParts DEF Inv
<1>2. /\ t \in tops /\ tops' = tops \ {t} /\ painted' = painted \ {t}
      /\ foreground_toplevel' \in {foreground_toplevel, None}
      /\ UNCHANGED <<clients, session_first_frame_emitted>>
      /\ UNCHANGED connVars /\ UNCHANGED sessionVars
  BY DEF ToplevelDestroyed
<1>3. (OfSession(t) /\ EndSession) \/ ApplyNone(swap)
  BY DEF ToplevelDestroyed
<1>4. SurfaceTypes'
  BY <1>1, <1>2 DEF SurfaceTypes
<1>5. HandoffTypes' /\ ForegroundInv' /\ DisarmOK
  <2>1. CASE OfSession(t) /\ EndSession
    <3>1. t[1] \in Login
      BY <2>1 DEF OfSession, Top
    <3>2. t \in Owned(t[1]) /\ t \notin Owned(t[1])'
      BY <1>2 DEF Owned
    <3>3. DisarmOK
      BY <3>1, <3>2 DEF DisarmOK
    <3> QED BY <1>1, <2>1, <3>3, EndSessionInv
  <2>2. CASE ApplyNone(swap)
    BY <1>1, <2>2, ApplyNoneSame
  <2> QED BY <1>3, <2>1, <2>2
<1>6. ConnTypes' /\ SessionTypes' /\ SessionInv'
  BY <1>1, <1>2, Same
<1> QED BY <1>4, <1>5, <1>6, TypeParts DEF Inv

\* Every callback and every step of the environment keeps it.
LEMMA InvStep ==
  ASSUME Inv, Next PROVE Inv' /\ DisarmOK
<1>1. CASE Accept
  BY <1>1, AcceptInv
<1>2. ASSUME NEW c \in Login, ConnectionStep(c) PROVE Inv' /\ DisarmOK
  BY <1>2, StartSessionInv, ReleaseInv, BrokerFrameInv, LeaderPidfdInv DEF ConnectionStep
<1>3. ASSUME NEW c \in Login, SessionStep(c) PROVE Inv' /\ DisarmOK
  BY <1>3, SessionsInv, ClientsInv DEF SessionStep
<1>4. CASE \E g \in Greeter : GreeterExits(g)
  BY <1>4, ClientsInv
<1>5. CASE SurfaceStep
  BY <1>5, ClientsInv, CommitInv, DestroyedInv DEF SurfaceStep
<1> QED BY <1>1, <1>2, <1>3, <1>4, <1>5 DEF Next

\* And so does a step that changes nothing.
LEMMA InvStutter ==
  ASSUME Inv, UNCHANGED vars PROVE Inv'
<1>1. /\ UNCHANGED handoffVars /\ UNCHANGED surfaceVars
      /\ UNCHANGED connVars /\ UNCHANGED sessionVars
  BY DEF vars
<1> QED BY <1>1, Same, TypeParts DEF Inv
----------------------------------------------------------------------------
(* The keys of one session.                                                *)

\* The session of login c, whose channel is not lost, runs, or its end is still
\* to be read.
EndsIn(c) == \E i \in 1..Len(fromBroker[c]) : fromBroker[c][i] = "SessionEnded"
Current(c) ==
    /\ ~session[c].lost
    /\ session[c].leader \in {"starting", "running"} \/ EndsIn(c)
Accounted(c) == Current(c) \/ session[c].lost

\* SessionEnded is the last frame of a channel, EOF comes from a lost one, and
\* SessionOpened is of a session that is not over yet.
ChannelOk(c) ==
    \A i \in 1..Len(fromBroker[c]) :
       /\ fromBroker[c][i] = "SessionEnded" => i = Len(fromBroker[c])
       /\ fromBroker[c][i] = "EOF" => session[c].lost
       /\ fromBroker[c][i] = "SessionOpened" => Accounted(c)

\* A session that is not over has its ConnState.
LoginOk(c) ==
    /\ ChannelOk(c)
    /\ Current(c) => connections[c].here /\ ~connections[c].terminate
    /\ c \in idle => /\ connections[c].here /\ connections[c].terminate
                     /\ ~connections[c].greeter
    /\ c \in clients => session[c].leader \in {"running", "exited"}

OneCurrent == \A c, d \in Login : Current(c) /\ Current(d) => c = d

\* A key that has been turned is of such a session, or of one that was lost.
GateInv ==
    /\ swap.phase # "Done" => \A k \in {swap.opened, swap.frame} : k # 0 => Accounted(k)
    /\ swap.phase = "Swapped" => BothKeys(swap)

KeyInv == (\A c \in Login : LoginOk(c)) /\ OneCurrent /\ GateInv

\* What a step that does not touch a login keeps of it.
LEMMA OtherLogin ==
  ASSUME NEW d, LoginOk(d), fromBroker'[d] = fromBroker[d],
         session'[d].leader = session[d].leader, session'[d].lost = session[d].lost,
         connections'[d].here = connections[d].here,
         connections'[d].terminate = connections[d].terminate,
         connections'[d].greeter = connections[d].greeter,
         d \in idle' <=> d \in idle, d \in clients' <=> d \in clients
  PROVE  LoginOk(d)' /\ (Current(d)' <=> Current(d)) /\ (Accounted(d)' <=> Accounted(d))
<1>1. (EndsIn(d)' <=> EndsIn(d)) /\ (Current(d)' <=> Current(d))
  BY Zenon DEF EndsIn, Current
<1>2. Accounted(d)' <=> Accounted(d)
  BY <1>1, Zenon DEF Accounted
<1>3. ChannelOk(d)'
  BY <1>2, Zenon DEF LoginOk, ChannelOk
<1> QED BY <1>1, <1>2, <1>3, Zenon DEF LoginOk

\* Who is current does not grow, and the gate is left alone.
LEMMA GateKept ==
  ASSUME HandoffTypes, GateInv, swap' = swap,
         \A d \in Login : Accounted(d) => Accounted(d)'
  PROVE  GateInv'
<1>1. swap.opened \in Login \cup {0} /\ swap.frame \in Login \cup {0}
  BY DEF HandoffTypes, Gate
<1>2. swap.phase = "Swapped" => BothKeys(swap')
  BY DEF GateInv
<1>3. swap.phase # "Done" => \A k \in {swap.opened, swap.frame} : k # 0 => Accounted(k)'
  BY <1>1 DEF GateInv
<1> QED BY <1>2, <1>3, Zenon DEF GateInv

\* The end of a session leaves no key in a gate that counts.
LEMMA GateEnds ==
  ASSUME HandoffTypes, EndSession
  PROVE  GateInv'
<1>1. CASE swap' = RevertOrDisarm(swap)
  <2>1. swap'.phase = "Done"
    BY <1>1, RevertFacts DEF HandoffTypes
  <2> QED BY <2>1 DEF GateInv
<1>2. CASE swap' = NewGate
  <2>1. swap'.phase = "Arming" /\ swap'.opened = 0 /\ swap'.frame = 0
    BY <1>2 DEF NewGate
  <2> QED BY <2>1 DEF GateInv
<1> QED BY <1>1, <1>2 DEF EndSession, ApplyNone, ApplyRevert

\* A key that a session turns is its own.
LEMMA GateTurns ==
  ASSUME HandoffTypes, GateInv, NEW key \in {"opened", "frame"}, NEW by \in Login,
         TurnKey(key, by), Accounted(by)', \A d \in Login : Accounted(d) => Accounted(d)'
  PROVE  GateInv'
<1>1. swap' = Arm(swap, key, by) /\ swap \in Gate(Login)
  BY DEF TurnKey, ApplyNone, ApplySwap, HandoffTypes
<1>2. CASE swap.phase # "Arming"
  BY <1>1, <1>2, GateKept DEF Arm
<1>3. CASE swap.phase = "Arming"
  <2> DEFINE armed == [swap EXCEPT ![key] = by]
             ph == IF BothKeys(armed) THEN "Swapped" ELSE "Arming"
  <2>1. armed \in Gate(Login) /\ armed.opened \in {swap.opened, by}
        /\ armed.frame \in {swap.frame, by}
    <3>1. CASE key = "opened"
      BY <1>1, <3>1 DEF Gate
    <3>2. CASE key = "frame"
      BY <1>1, <3>2 DEF Gate
    <3> QED BY <3>1, <3>2
  <2>2. swap' = [armed EXCEPT !.phase = ph]
    BY <1>1, <1>3, Zenon DEF Arm
  <2>3. ph = "Swapped" => BothKeys(armed)
    OBVIOUS
  <2> HIDE DEF armed, ph
  <2>4. swap'.phase = ph /\ swap'.opened = armed.opened /\ swap'.frame = armed.frame
    BY <2>1, <2>2 DEF Gate
  <2>5. swap'.phase = "Swapped" => BothKeys(swap')
    BY <2>3, <2>4 DEF BothKeys, Turned
  <2>6. ASSUME NEW k \in {swap'.opened, swap'.frame}, k # 0 PROVE Accounted(k)'
    <3>1. k = by \/ k \in {swap.opened, swap.frame}
      BY <2>1, <2>4
    <3>2. swap.opened \in Login \cup {0} /\ swap.frame \in Login \cup {0}
      BY <1>1 DEF Gate
    <3> QED BY <1>3, <2>6, <3>1, <3>2 DEF GateInv
  <2> QED BY <2>5, <2>6, Zenon DEF GateInv
<1> QED BY <1>2, <1>3

\* Reading the head of a channel.
LEMMA ReadChannel ==
  ASSUME SessionTypes, NEW c \in Login, ChannelOk(c), fromBroker[c] # <<>>,
         fromBroker' = [fromBroker EXCEPT ![c] = Tail(@)], session' = session
  PROVE  /\ \A d \in Login : d # c => fromBroker'[d] = fromBroker[d]
         /\ ChannelOk(c)'
         /\ Current(c)' => Current(c)
         /\ Head(fromBroker[c]) # "SessionEnded" => (Current(c) => Current(c)')
         /\ Head(fromBroker[c]) = "SessionEnded" => ~EndsIn(c)'
         /\ Head(fromBroker[c]) = "SessionOpened" => Accounted(c)
         /\ Head(fromBroker[c]) = "EOF" => session[c].lost
<1> DEFINE q == fromBroker[c]
           r == Tail(q)
<1>1. \A d \in Login : fromBroker'[d] = IF d = c THEN r ELSE fromBroker[d]
  BY DEF SessionTypes
<1>2. fromBroker'[c] = r /\ q \in Seq(Frame) /\ q # <<>>
  BY <1>1 DEF SessionTypes
<1>3. /\ Len(q) \in Nat /\ Len(q) >= 1 /\ Head(q) = q[1]
      /\ Len(r) = Len(q) - 1 /\ \A i \in 1..Len(r) : r[i] = q[i + 1]
  BY <1>2, HeadTailProperties, EmptySeq, LenProperties
<1> HIDE DEF r
<1>4. /\ \A i \in 1..Len(q) : q[i] = "SessionEnded" => i = Len(q)
      /\ \A i \in 1..Len(q) : q[i] = "EOF" => session[c].lost
      /\ \A i \in 1..Len(q) : q[i] = "SessionOpened" => Accounted(c)
  BY Zenon DEF ChannelOk
<1> DEFINE X == \E i \in 1..Len(q) : q[i] = "SessionEnded"
           Y == \E i \in 1..Len(r) : r[i] = "SessionEnded"
<1>5. (EndsIn(c) <=> X) /\ (EndsIn(c)' <=> Y)
  BY <1>2, Zenon DEF EndsIn
<1> HIDE DEF q
<1>6. \A i \in 1..Len(r) : i + 1 \in 1..Len(q)
  BY <1>3
<1>7. Y => X
  BY <1>3, <1>6
<1>8. X /\ (q[1] # "SessionEnded" \/ Len(r) >= 1) => Y
  <2> SUFFICES ASSUME NEW i \in 1..Len(q), q[i] = "SessionEnded",
                      q[1] # "SessionEnded" \/ Len(r) >= 1
               PROVE  Y
    BY Zenon
  <2>1. i = Len(q)
    BY <1>4
  <2>2. i - 1 \in 1..Len(r) /\ (i - 1) + 1 = i
    BY <1>3, <2>1
  <2> QED BY <1>3, <2>2, Zenon
<1>9. q[1] = "SessionEnded" => ~Y
  <2>1. 1 \in 1..Len(q)
    BY <1>3
  <2> QED BY <1>3, <1>4, <2>1
<1> HIDE DEF X, Y
<1>10. /\ Current(c)' => Current(c)
       /\ q[1] # "SessionEnded" \/ Len(r) >= 1 => (Current(c) => Current(c)')
  BY <1>5, <1>7, <1>8, Zenon DEF Current
<1>11. ChannelOk(c)'
  <2> SUFFICES ASSUME NEW i \in 1..Len(r)
               PROVE  /\ r[i] = "SessionEnded" => i = Len(r)
                      /\ r[i] = "EOF" => session'[c].lost
                      /\ r[i] = "SessionOpened" => Accounted(c)'
    BY <1>2, Zenon DEF ChannelOk
  <2>1. r[i] = q[i + 1] /\ i + 1 \in 1..Len(q) /\ Len(r) >= 1
    BY <1>3, <1>6
  <2>2. i + 1 = Len(q) => i = Len(r)
    BY <1>3
  <2>3. Accounted(c) => Accounted(c)'
    BY <1>10, <2>1, Zenon DEF Accounted
  <2> QED BY <1>4, <2>1, <2>2, <2>3, Zenon
<1>12. /\ q[1] = "SessionOpened" => Accounted(c)
       /\ q[1] = "EOF" => session[c].lost
  <2>1. 1 \in 1..Len(q)
    BY <1>3
  <2> QED BY <1>4, <2>1, Zenon
<1>13. \A d \in Login : d # c => fromBroker'[d] = fromBroker[d]
  BY <1>1
<1>14. Head(fromBroker[c]) = q[1]
  BY <1>3 DEF q
<1> QED BY <1>5, <1>9, <1>10, <1>11, <1>12, <1>13, <1>14, Zenon

\* Adding a frame to a channel.
LEMMA SayChannel ==
  ASSUME SessionTypes, NEW c \in Login, NEW f \in Frame,
         fromBroker' = [fromBroker EXCEPT ![c] = Append(@, f)]
  PROVE  /\ \A d \in Login : d # c => fromBroker'[d] = fromBroker[d]
         /\ EndsIn(c)' <=> EndsIn(c) \/ f = "SessionEnded"
         /\ \A i \in 1..Len(fromBroker'[c]) :
               \/ i \in 1..Len(fromBroker[c]) /\ fromBroker'[c][i] = fromBroker[c][i]
               \/ i = Len(fromBroker'[c]) /\ fromBroker'[c][i] = f
<1> DEFINE q == fromBroker[c]
           r == Append(q, f)
<1>1. \A d \in Login : fromBroker'[d] = IF d = c THEN r ELSE fromBroker[d]
  BY DEF SessionTypes
<1>2. fromBroker'[c] = r /\ q \in Seq(Frame)
  BY <1>1 DEF SessionTypes
<1>3. /\ Len(q) \in Nat /\ Len(r) = Len(q) + 1 /\ r[Len(r)] = f
      /\ \A i \in 1..Len(q) : r[i] = q[i]
  BY <1>2, AppendProperties, LenProperties
<1> HIDE DEF r
<1>4. \A i \in 1..Len(r) : i \in 1..Len(q) \/ i = Len(r)
  BY <1>3
<1>5. Len(r) \in 1..Len(r) /\ \A i \in 1..Len(q) : i \in 1..Len(r)
  BY <1>3
<1>6. EndsIn(c)' <=> EndsIn(c) \/ f = "SessionEnded"
  <2>1. EndsIn(c)' <=> \E i \in 1..Len(r) : r[i] = "SessionEnded"
    BY <1>2, Zenon DEF EndsIn
  <2>2. EndsIn(c) <=> \E i \in 1..Len(q) : q[i] = "SessionEnded"
    BY Zenon DEF EndsIn
  <2> HIDE DEF q
  <2> QED BY <1>3, <1>4, <1>5, <2>1, <2>2, Zenon
<1>7. \A d \in Login : d # c => fromBroker'[d] = fromBroker[d]
  BY <1>1
<1>8. \A i \in 1..Len(r) : (i \in 1..Len(q) /\ r[i] = q[i]) \/ (i = Len(r) /\ r[i] = f)
  BY <1>3, <1>4, Zenon
<1> QED BY <1>2, <1>6, <1>7, <1>8, Zenon

\* A connection that handle_listener_ready keeps has no session yet.
LEMMA AcceptKeys ==
  ASSUME Inv, KeyInv, Accept PROVE KeyInv'
<1>1. HandoffTypes /\ ConnTypes /\ SessionInv /\ GateInv
  BY TypeParts DEF Inv, KeyInv
<1>n. PICK n \in Login : n = next_conn_id
  BY DEF Accept
<1> DEFINE v == [Absent EXCEPT !.here = TRUE, !.greeter = TRUE]
<1>2. /\ n \in Nat /\ connections' = [connections EXCEPT ![n] = v]
      /\ swap' = swap /\ session' = session /\ fromBroker' = fromBroker
      /\ idle' = idle /\ clients' = clients
  BY <1>n DEF Accept, Login, handoffVars, surfaceVars, sessionVars
<1> HIDE DEF v
<1>3. \A c \in Login : c # n => connections'[c] = connections[c]
  BY <1>1, <1>2 DEF ConnTypes
<1>4. ~connections[n].here
  BY <1>n, <1>1, <1>2 DEF SessionInv
<1>5. LoginOk(n)
  BY DEF KeyInv
<1>6. ~Current(n) /\ n \notin idle
  BY <1>4, <1>5, Zenon DEF LoginOk
<1>7. \A c \in Login : (Current(c)' <=> Current(c)) /\ (Accounted(c)' <=> Accounted(c))
  BY <1>2, Zenon DEF Current, EndsIn, Accounted
<1>8. LoginOk(n)'
  <2>1. ChannelOk(n)'
    BY <1>2, <1>5, <1>7, Zenon DEF LoginOk, ChannelOk
  <2> QED BY <1>2, <1>5, <1>6, <1>7, <2>1, Zenon DEF LoginOk
<1>9. \A c \in Login : LoginOk(c)'
  BY <1>2, <1>3, <1>8, OtherLogin, Zenon DEF KeyInv
<1>10. OneCurrent'
  BY <1>7, Zenon DEF KeyInv, OneCurrent
<1>11. GateInv'
  BY <1>1, <1>2, <1>7, GateKept
<1> QED BY <1>9, <1>10, <1>11 DEF KeyInv

\* StartSession comes when no other session is current.
LEMMA StartKeys ==
  ASSUME Inv, KeyInv, NEW c \in Login, NEW u \in Users, StartSession(c, u)
  PROVE  KeyInv'
<1>1. HandoffTypes /\ ConnTypes /\ SessionTypes /\ SessionInv /\ GateInv
  BY TypeParts DEF Inv, KeyInv
<1>2. /\ connections[c].greeter /\ ~connections[c].spawned /\ ~connections[c].terminate
      /\ ~session[c].lost /\ \A d \in Login \ {c} : Settled(d)
      /\ connections' = [connections EXCEPT ![c].spawned = TRUE]
      /\ session' = [session EXCEPT ![c].leader = "starting", ![c].uid = u]
      /\ swap' = swap /\ fromBroker' = fromBroker /\ idle' = idle /\ clients' = clients
  BY DEF StartSession, surfaceVars
<1>3. /\ connections'[c].here = connections[c].here
      /\ connections'[c].terminate = connections[c].terminate
      /\ connections'[c].greeter = connections[c].greeter
  BY <1>1, <1>2, Zenon DEF ConnTypes, ConnState
<1>4. session'[c].leader = "starting" /\ session'[c].lost = session[c].lost
  <2>1. session[c] \in Session
    BY <1>1 DEF SessionTypes
  <2>2. session'[c] = [session[c] EXCEPT !.leader = "starting", !.uid = u]
    BY <1>1, <1>2, Zenon DEF SessionTypes
  <2> QED BY <2>1, <2>2, Zenon DEF Session
<1>5. \A d \in Login : d # c => connections'[d] = connections[d] /\ session'[d] = session[d]
  BY <1>1, <1>2 DEF ConnTypes, SessionTypes
<1>6. connections[c].here /\ session[c].leader = "none"
  BY <1>1, <1>2, Zenon DEF SessionInv
<1>7. ASSUME NEW d \in Login, d # c
      PROVE  LoginOk(d)' /\ ~Current(d)' /\ (Accounted(d) => Accounted(d)')
  <2>1. LoginOk(d) /\ Settled(d)
    BY <1>2, <1>7 DEF KeyInv
  <2>2. LoginOk(d)' /\ (Current(d)' <=> Current(d)) /\ (Accounted(d)' <=> Accounted(d))
    BY <1>2, <1>5, <1>7, <2>1, OtherLogin, Zenon
  <2>3. ~Current(d)
    <3> SUFFICES ASSUME Current(d) PROVE FALSE
      OBVIOUS
    <3>1. fromBroker[d] = <<>> /\ ~Served(d)
      BY <2>1, Zenon DEF LoginOk, Settled
    <3>2. ~EndsIn(d)
      BY <3>1 DEF EndsIn
    <3> QED BY <3>1, <3>2, Zenon DEF Current, Served
  <2> QED BY <2>2, <2>3
<1>8. Current(c)'
  BY <1>2, <1>4, Zenon DEF Current
<1>9. LoginOk(c)'
  <2>1. LoginOk(c)
    BY DEF KeyInv
  <2>2. ChannelOk(c)'
    BY <1>2, <1>4, <1>8, <2>1, Zenon DEF LoginOk, ChannelOk, Accounted
  <2>3. c \notin clients
    BY <1>6, <2>1 DEF LoginOk
  <2> QED BY <1>2, <1>3, <1>6, <2>1, <2>2, <2>3, Zenon DEF LoginOk
<1>10. OneCurrent'
  BY <1>7, Zenon DEF OneCurrent
<1>11. GateInv'
  BY <1>1, <1>2, <1>7, <1>8, GateKept, Zenon DEF Accounted
<1>12. \A d \in Login : LoginOk(d)'
  BY <1>7, <1>9, Zenon
<1> QED BY <1>10, <1>11, <1>12 DEF KeyInv

\* The callbacks that only let go of something: a current session keeps its
\* ConnState.
LEMMA ReleaseKeys ==
  ASSUME Inv, KeyInv, NEW c \in Login, GreeterCloses(c) \/ GreeterWritable(c) \/ IdleDrop(c)
  PROVE  KeyInv'
<1>1. /\ HandoffTypes /\ ConnTypes /\ SessionTypes /\ SessionInv /\ GateInv /\ LoginOk(c)
      /\ connections[c] \in ConnState
  BY TypeParts DEF Inv, KeyInv, ConnTypes
<1>2. /\ swap' = swap /\ session' = session /\ fromBroker' = fromBroker /\ clients' = clients
      /\ idle' \in {idle, idle \ {c}}
  BY DEF GreeterCloses, GreeterWritable, IdleDrop, handoffVars, surfaceVars, sessionVars
<1>3. \A d \in Login : (Current(d)' <=> Current(d)) /\ (Accounted(d)' <=> Accounted(d))
  BY <1>2, Zenon DEF Current, EndsIn, Accounted
<1>4. \A d \in Login : d # c => connections'[d] = connections[d]
  BY <1>1 DEF GreeterCloses, GreeterWritable, IdleDrop, ConnTypes
<1>5. c \notin idle'
  <2>1. CASE connections[c].greeter
    BY <1>1, <1>2, <2>1 DEF LoginOk
  <2>2. CASE IdleDrop(c)
    BY <2>2 DEF IdleDrop
  <2> QED BY <2>1, <2>2 DEF GreeterCloses, GreeterWritable
<1>6. Current(c) => connections'[c].here /\ ~connections'[c].terminate
  <2> SUFFICES ASSUME Current(c)
               PROVE  connections'[c].here /\ ~connections'[c].terminate
    OBVIOUS
  <2>1. connections[c].here /\ ~connections[c].terminate
    BY <1>1, Zenon DEF LoginOk
  <2>2. session[c].leader # "none"
    BY <1>1 DEF Current, EndsIn, SessionInv
  <2>3. connections[c].spawned
    BY <1>1, <2>1, <2>2, Zenon DEF SessionInv
  <2>4. ~IdleDrop(c)
    BY <1>1, <2>1, Zenon DEF IdleDrop, LoginOk
  <2>5. connections' = [connections EXCEPT ![c] = Settle(connections[c])]
    BY <2>3, <2>4, Zenon DEF GreeterCloses, GreeterWritable
  <2>6. connections'[c] = Settle(connections[c])
    BY <1>1, <2>5, Zenon DEF ConnTypes
  <2>7. Settle(connections[c]) = [connections[c] EXCEPT !.greeter = FALSE]
    BY <2>1, Zenon DEF Settle
  <2>8. /\ connections'[c].here = connections[c].here
        /\ connections'[c].terminate = connections[c].terminate
    BY <1>1, <2>6, <2>7, Zenon DEF ConnState
  <2> QED BY <2>1, <2>8, Zenon
<1>7. LoginOk(c)'
  <2>1. ChannelOk(c)'
    BY <1>1, <1>2, <1>3, Zenon DEF LoginOk, ChannelOk
  <2> QED BY <1>1, <1>2, <1>3, <1>5, <1>6, <2>1, Zenon DEF LoginOk
<1>8. ASSUME NEW d \in Login, d # c PROVE LoginOk(d)'
  <2>1. d \in idle' <=> d \in idle
    BY <1>2, <1>8
  <2> QED BY <1>2, <1>4, <1>8, <2>1, OtherLogin, Zenon DEF KeyInv
<1>9. OneCurrent'
  BY <1>3, Zenon DEF KeyInv, OneCurrent
<1>10. GateInv'
  BY <1>1, <1>2, <1>3, GateKept
<1>11. \A d \in Login : LoginOk(d)'
  BY <1>7, <1>8, Zenon
<1> QED BY <1>9, <1>10, <1>11 DEF KeyInv

\* The frames of the broker: a key is turned by a session that is not over, and
\* the end of a session takes its keys away.
LEMMA FrameKeys ==
  ASSUME Inv, KeyInv, NEW c \in Login,
         BrokerSaysOpened(c) \/ BrokerSaysEnded(c) \/ BrokerGone(c)
  PROVE  KeyInv'
<1> DEFINE q == fromBroker[c]
<1>1. /\ HandoffTypes /\ ConnTypes /\ SessionTypes /\ SessionInv /\ GateInv /\ LoginOk(c)
      /\ connections[c] \in ConnState
  BY TypeParts DEF Inv, KeyInv, ConnTypes
<1>2. /\ connections[c].here /\ c \notin idle /\ q # <<>>
      /\ fromBroker' = [fromBroker EXCEPT ![c] = Tail(@)]
      /\ session' = session /\ clients' = clients
  BY DEF BrokerSaysOpened, BrokerSaysEnded, BrokerGone, BrokerReads, surfaceVars
<1>3. /\ \A d \in Login : d # c => fromBroker'[d] = fromBroker[d]
      /\ ChannelOk(c)' /\ (Current(c)' => Current(c))
      /\ Head(q) # "SessionEnded" => (Current(c) => Current(c)')
      /\ Head(q) = "SessionEnded" => ~EndsIn(c)'
      /\ Head(q) = "SessionOpened" => Accounted(c)
      /\ Head(q) = "EOF" => session[c].lost
  BY <1>1, <1>2, ReadChannel, Zenon DEF LoginOk
<1>4. ASSUME NEW d \in Login, d # c
      PROVE  /\ connections'[d] = connections[d] /\ (d \in idle' <=> d \in idle)
             /\ LoginOk(d)' /\ (Current(d)' <=> Current(d)) /\ (Accounted(d)' <=> Accounted(d))
  <2>1. connections'[d] = connections[d] /\ (d \in idle' <=> d \in idle)
    BY <1>1, <1>4 DEF BrokerSaysOpened, BrokerSaysEnded, BrokerGone, BrokerTerminates, ConnTypes
  <2> QED BY <1>2, <1>3, <1>4, <2>1, OtherLogin, Zenon DEF KeyInv
<1>5. OneCurrent'
  <2>1. \A d \in Login : Current(d)' => Current(d)
    BY <1>3, <1>4, Zenon
  <2> QED BY <2>1, Zenon DEF KeyInv, OneCurrent
<1>6. ASSUME BrokerTerminates(c), ~Current(c)' PROVE LoginOk(c)'
  <2>1. connections'[c] = [connections[c] EXCEPT !.terminate = TRUE]
    BY <1>1, <1>6 DEF BrokerTerminates, ConnTypes
  <2>2. /\ connections'[c].here = connections[c].here
        /\ connections'[c].greeter = connections[c].greeter /\ connections'[c].terminate
    BY <1>1, <2>1, Zenon DEF ConnState
  <2>3. c \in idle' => ~connections[c].greeter
    BY <1>2, <1>6, Zenon DEF BrokerTerminates
  <2> QED BY <1>1, <1>2, <1>3, <1>6, <2>2, <2>3, Zenon DEF LoginOk
<1>7. CASE BrokerSaysOpened(c)
  <2>1. Head(q) = "SessionOpened" /\ TurnKey("opened", c) /\ idle' = idle
    BY <1>7 DEF BrokerSaysOpened, BrokerReads
  <2>2. Head(q) # "SessionEnded"
    BY <2>1
  <2>3. Accounted(c)'
    BY <1>2, <1>3, <2>1, <2>2, Zenon DEF Accounted
  <2>4. \A d \in Login : Accounted(d) => Accounted(d)'
    BY <1>4, <2>3, Zenon
  <2>5. GateInv'
    BY <1>1, <2>1, <2>3, <2>4, GateTurns
  <2>6. PICK armed \in BOOLEAN : connections' = [connections EXCEPT ![c].pidfd = armed]
    BY <1>7, Zenon DEF BrokerSaysOpened
  <2>7. connections'[c] = [connections[c] EXCEPT !.pidfd = armed]
    BY <1>1, <2>6, Zenon DEF ConnTypes
  <2>8. /\ connections'[c].here = connections[c].here
        /\ connections'[c].terminate = connections[c].terminate
    BY <1>1, <2>7, Zenon DEF ConnState
  <2>9. LoginOk(c)'
    BY <1>1, <1>2, <1>3, <2>1, <2>8, Zenon DEF LoginOk
  <2>10. \A d \in Login : LoginOk(d)'
    BY <1>4, <2>9, Zenon
  <2> QED BY <1>5, <2>5, <2>10 DEF KeyInv
<1>8. CASE BrokerSaysEnded(c)
  <2>1. Head(q) = "SessionEnded" /\ EndSession /\ BrokerTerminates(c)
    BY <1>8 DEF BrokerSaysEnded, BrokerReads
  <2>2. session[c].leader = "exited"
    <3>1. 1 \in 1..Len(q) /\ q[1] = "SessionEnded"
      BY <1>1, <1>2, <2>1 DEF SessionTypes
    <3> QED BY <1>1, <3>1 DEF SessionInv
  <2>3. session[c].leader \notin {"starting", "running"}
    BY <2>2
  <2>4. ~Current(c)'
    BY <1>2, <1>3, <2>1, <2>3, Zenon DEF Current
  <2>5. \A d \in Login : LoginOk(d)'
    BY <1>4, <1>6, <2>1, <2>4, Zenon
  <2>6. GateInv'
    BY <1>1, <2>1, GateEnds
  <2> QED BY <1>5, <2>5, <2>6 DEF KeyInv
<1>9. CASE BrokerGone(c)
  <2>1. Head(q) = "EOF" /\ BrokerTerminates(c) /\ swap' = swap
    BY <1>9 DEF BrokerGone, BrokerReads, handoffVars
  <2>2. ~Current(c)' /\ Accounted(c)'
    BY <1>2, <1>3, <2>1, Zenon DEF Current, Accounted
  <2>3. \A d \in Login : LoginOk(d)' /\ (Accounted(d) => Accounted(d)')
    BY <1>4, <1>6, <2>1, <2>2, Zenon
  <2>4. GateInv'
    BY <1>1, <2>1, <2>3, GateKept
  <2> QED BY <1>5, <2>3, <2>4 DEF KeyInv
<1> QED BY <1>7, <1>8, <1>9

\* The logins are as before when only a client may have come, of a session that
\* runs.
LEMMA SameLogins ==
  ASSUME KeyInv, session' = session, fromBroker' = fromBroker, idle' = idle,
         \A d \in Login : /\ connections'[d].here = connections[d].here
                          /\ connections'[d].terminate = connections[d].terminate
                          /\ connections'[d].greeter = connections[d].greeter,
         \A d \in clients' : d \in clients \/ session[d].leader = "running"
  PROVE  /\ \A d \in Login : LoginOk(d)' /\ (Accounted(d)' <=> Accounted(d))
         /\ OneCurrent'
<1>1. \A d \in Login : (Current(d)' <=> Current(d)) /\ (Accounted(d)' <=> Accounted(d))
  BY Zenon DEF Current, EndsIn, Accounted
<1>2. ASSUME NEW d \in Login PROVE LoginOk(d)'
  <2>1. LoginOk(d)
    BY DEF KeyInv
  <2>2. ChannelOk(d)'
    BY <1>1, <2>1, Zenon DEF LoginOk, ChannelOk
  <2>3. d \in clients' => session[d].leader \in {"running", "exited"}
    BY <2>1 DEF LoginOk
  <2> QED BY <1>1, <2>1, <2>2, <2>3, Zenon DEF LoginOk
<1>3. OneCurrent'
  BY <1>1, Zenon DEF KeyInv, OneCurrent
<1> QED BY <1>1, <1>2, <1>3, Zenon

\* The backstop of a leader that has exited.
LEMMA PidfdKeys ==
  ASSUME Inv, KeyInv, NEW c \in Login, LeaderPidfdReady(c)
  PROVE  KeyInv'
<1>1. HandoffTypes /\ ConnTypes
  BY TypeParts DEF Inv
<1>2. /\ EndSession /\ session' = session /\ fromBroker' = fromBroker /\ idle' = idle
      /\ clients' = clients
      /\ connections' = [connections EXCEPT ![c].pidfd = FALSE]
  BY DEF LeaderPidfdReady, sessionVars, surfaceVars
<1>3. \A d \in Login : /\ connections'[d].here = connections[d].here
                       /\ connections'[d].terminate = connections[d].terminate
                       /\ connections'[d].greeter = connections[d].greeter
  BY <1>1, <1>2, Zenon DEF ConnTypes, ConnState
<1>4. (\A d \in Login : LoginOk(d)') /\ OneCurrent'
  BY <1>2, <1>3, SameLogins, Zenon
<1>5. GateInv'
  BY <1>1, <1>2, GateEnds
<1> QED BY <1>4, <1>5 DEF KeyInv

\* The sessions behind the broker: one that is over says so to its ConnState.
LEMMA SessionKeys ==
  ASSUME Inv, KeyInv, NEW c \in Login,
         SessionOpens(c) \/ LeaderExits(c) \/ BrokerHangsUp(c)
  PROVE  KeyInv'
<1> DEFINE q == fromBroker[c]
<1>1. /\ HandoffTypes /\ SessionTypes /\ SessionInv /\ GateInv /\ LoginOk(c)
      /\ session[c] \in Session
  BY TypeParts DEF Inv, KeyInv, SessionTypes
<1>2. /\ swap' = swap /\ connections' = connections /\ idle' = idle /\ clients' = clients
  BY DEF SessionOpens, LeaderExits, BrokerHangsUp, handoffVars, connVars, surfaceVars
<1>3. \A d \in Login : d # c => session'[d] = session[d] /\ fromBroker'[d] = fromBroker[d]
  BY <1>1 DEF SessionOpens, LeaderExits, BrokerHangsUp, SessionTypes
<1>4. ~EndsIn(c)
  <2>1. session[c].leader # "exited"
    BY DEF SessionOpens, LeaderExits, BrokerHangsUp
  <2> QED BY <1>1, <2>1, Zenon DEF SessionInv, EndsIn
<1>5. \A i \in 1..Len(q) : /\ q[i] # "SessionEnded"
                           /\ q[i] = "EOF" => session[c].lost
  BY <1>1, <1>4, Zenon DEF EndsIn, LoginOk, ChannelOk
<1>6. ASSUME session'[c].lost \/ (session[c].lost = session'[c].lost /\ Current(c)'),
             Current(c)' => Current(c), session[c].lost => session'[c].lost,
             \A i \in 1..Len(fromBroker'[c]) :
                \/ i \in 1..Len(q) /\ fromBroker'[c][i] = q[i]
                \/ i = Len(fromBroker'[c]) /\ (fromBroker'[c][i] = "EOF" => session'[c].lost),
             session[c].leader \in {"running", "exited"} =>
                session'[c].leader \in {"running", "exited"}
      PROVE  KeyInv'
  <2>1. Accounted(c)'
    BY <1>6, Zenon DEF Accounted
  <2>2. ChannelOk(c)'
    BY <1>5, <1>6, <2>1, Zenon DEF ChannelOk
  <2>3. LoginOk(c)'
    BY <1>1, <1>2, <1>6, <2>2, Zenon DEF LoginOk
  <2>4. ASSUME NEW d \in Login, d # c
        PROVE  LoginOk(d)' /\ (Current(d)' <=> Current(d)) /\ (Accounted(d)' <=> Accounted(d))
    BY <1>2, <1>3, <2>4, OtherLogin, Zenon DEF KeyInv
  <2>5. \A d \in Login : LoginOk(d)' /\ (Current(d)' => Current(d)) /\ (Accounted(d) => Accounted(d)')
    BY <1>6, <2>1, <2>3, <2>4, Zenon
  <2>6. OneCurrent'
    BY <2>5, Zenon DEF KeyInv, OneCurrent
  <2>7. GateInv'
    BY <1>1, <1>2, <2>5, GateKept
  <2> QED BY <2>5, <2>6, <2>7 DEF KeyInv
<1>7. CASE SessionOpens(c)
  <2>1. /\ session[c].leader = "starting" /\ ~session[c].lost
        /\ session' = [session EXCEPT ![c].leader = "running"]
        /\ fromBroker' = [fromBroker EXCEPT ![c] = Append(@, "SessionOpened")]
    BY <1>7 DEF SessionOpens
  <2>2. session'[c] = [session[c] EXCEPT !.leader = "running"]
    BY <1>1, <2>1, Zenon DEF SessionTypes
  <2>3. session'[c].leader = "running" /\ session'[c].lost = session[c].lost
    BY <1>1, <2>2, Zenon DEF Session
  <2>4. Current(c) /\ Current(c)'
    BY <2>1, <2>3, Zenon DEF Current
  <2>5. "SessionOpened" \in Frame /\ "SessionOpened" # "EOF"
    BY DEF Frame
  <2>6. \A i \in 1..Len(fromBroker'[c]) :
           \/ i \in 1..Len(q) /\ fromBroker'[c][i] = q[i]
           \/ i = Len(fromBroker'[c]) /\ fromBroker'[c][i] # "EOF"
    BY <1>1, <2>1, <2>5, SayChannel, Zenon
  <2>7. session'[c].leader \in {"running", "exited"}
    BY <2>3
  <2> QED BY <1>6, <2>3, <2>4, <2>6, <2>7, Zenon
<1>8. CASE LeaderExits(c)
  <2>1. /\ session[c].leader = "running"
        /\ session' = [session EXCEPT ![c].leader = "exited"]
    BY <1>8 DEF LeaderExits
  <2>2. session'[c] = [session[c] EXCEPT !.leader = "exited"]
    BY <1>1, <2>1, Zenon DEF SessionTypes
  <2>3. session'[c].leader = "exited" /\ session'[c].lost = session[c].lost
    BY <1>1, <2>2, Zenon DEF Session
  <2>4. session'[c].leader \in {"running", "exited"}
        /\ session'[c].leader \notin {"starting", "running"}
    BY <2>3
  <2>5. ~session[c].lost => Current(c) /\ connections[c].here
    BY <1>1, <2>1, Zenon DEF LoginOk, Current
  <2>6. CASE ~session[c].lost
    <3>1. fromBroker' = [fromBroker EXCEPT ![c] = Append(@, "SessionEnded")]
      BY <1>8, <2>5, <2>6, Zenon DEF LeaderExits
    <3>2. "SessionEnded" \in Frame /\ "SessionEnded" # "EOF"
      BY DEF Frame
    <3>3. /\ EndsIn(c)'
          /\ \A i \in 1..Len(fromBroker'[c]) :
                \/ i \in 1..Len(q) /\ fromBroker'[c][i] = q[i]
                \/ i = Len(fromBroker'[c]) /\ fromBroker'[c][i] # "EOF"
      BY <1>1, <3>1, <3>2, SayChannel, Zenon
    <3>4. Current(c)'
      BY <2>3, <2>6, <3>3, Zenon DEF Current
    <3> QED BY <1>6, <2>3, <2>4, <2>5, <2>6, <3>3, <3>4, Zenon
  <2>7. CASE session[c].lost
    <3>1. fromBroker' = fromBroker
      BY <1>8, <2>7, Zenon DEF LeaderExits
    <3>2. ~Current(c)' /\ session'[c].lost
      BY <2>3, <2>7, Zenon DEF Current
    <3> QED BY <1>6, <2>3, <2>4, <2>7, <3>1, <3>2, Zenon
  <2> QED BY <2>6, <2>7
<1>9. CASE BrokerHangsUp(c)
  <2> DEFINE l == IF session[c].leader = "starting" THEN "exited" ELSE session[c].leader
  <2>1. /\ session' = [session EXCEPT ![c] = [session[c] EXCEPT !.leader = l, !.lost = TRUE]]
        /\ fromBroker' = [fromBroker EXCEPT ![c] = Append(@, "EOF")]
    BY <1>9, Zenon DEF BrokerHangsUp
  <2>2. session[c].leader \in {"running", "exited"} => l \in {"running", "exited"}
    OBVIOUS
  <2> HIDE DEF l
  <2>3. session'[c] = [session[c] EXCEPT !.leader = l, !.lost = TRUE]
    BY <1>1, <2>1, Zenon DEF SessionTypes
  <2>4. session'[c].leader = l /\ session'[c].lost
    BY <1>1, <2>3, Zenon DEF Session
  <2>5. ~Current(c)'
    BY <2>4, Zenon DEF Current
  <2>6. "EOF" \in Frame
    BY DEF Frame
  <2>7. \A i \in 1..Len(fromBroker'[c]) :
           \/ i \in 1..Len(q) /\ fromBroker'[c][i] = q[i]
           \/ i = Len(fromBroker'[c]) /\ (fromBroker'[c][i] = "EOF" => session'[c].lost)
    BY <1>1, <2>1, <2>4, <2>6, SayChannel, Zenon
  <2> QED BY <1>6, <2>2, <2>4, <2>5, <2>7, Zenon
<1> QED BY <1>7, <1>8, <1>9

\* Clients, greeters and toplevels that come turn no key.
LEMMA ClientKeys ==
  ASSUME Inv, KeyInv,
         \/ \E c \in Login : ClientConnects(c) \/ ClientLeaves(c)
         \/ \E g \in Greeter : GreeterExits(g)
         \/ \E t \in Top : NewToplevel(t)
  PROVE  KeyInv'
<1>1. HandoffTypes /\ GateInv
  BY TypeParts DEF Inv, KeyInv
<1>2. /\ swap' = swap /\ session' = session /\ fromBroker' = fromBroker /\ idle' = idle
      /\ connections' = connections
      /\ \A d \in clients' : d \in clients \/ session[d].leader = "running"
  BY DEF ClientConnects, ClientLeaves, GreeterExits, NewToplevel, handoffVars, sessionVars,
         connVars, surfaceVars
<1>3. (\A d \in Login : LoginOk(d)' /\ (Accounted(d)' <=> Accounted(d))) /\ OneCurrent'
  BY <1>2, SameLogins, Zenon
<1>4. GateInv'
  BY <1>1, <1>2, <1>3, GateKept
<1> QED BY <1>3, <1>4 DEF KeyInv

\* A commit turns the second key for a session that runs; a toplevel that goes
\* may end one.
LEMMA SurfaceKeys ==
  ASSUME Inv, KeyInv, NEW t \in Top, Commit(t) \/ ToplevelDestroyed(t)
  PROVE  KeyInv'
<1>1. HandoffTypes /\ GateInv
  BY TypeParts DEF Inv, KeyInv
<1>2. /\ session' = session /\ fromBroker' = fromBroker /\ idle' = idle
      /\ connections' = connections /\ clients' = clients
  BY DEF Commit, ToplevelDestroyed, sessionVars, connVars
<1>3. (\A d \in Login : LoginOk(d)' /\ (Accounted(d)' <=> Accounted(d))) /\ OneCurrent'
  BY <1>2, SameLogins, Zenon
<1>4. CASE ApplyNone(swap)
  <2>1. swap' = swap
    BY <1>4 DEF ApplyNone
  <2>2. GateInv'
    BY <1>1, <1>3, <2>1, GateKept
  <2> QED BY <1>3, <2>2 DEF KeyInv
<1>5. CASE EndSession
  <2>1. GateInv'
    BY <1>1, <1>5, GateEnds
  <2> QED BY <1>3, <2>1 DEF KeyInv
<1>6. CASE OfSession(t) /\ Alive(t[1]) /\ TurnKey("frame", t[1])
  <2>1. t[1] \in Login /\ t[1] \in clients /\ session[t[1]].leader # "exited"
    BY <1>6 DEF OfSession, Alive, Top
  <2>2. session[t[1]].leader \in {"running", "exited"}
    BY <2>1 DEF KeyInv, LoginOk
  <2>3. session[t[1]].leader \in {"starting", "running"}
    BY <2>1, <2>2
  <2>4. Accounted(t[1])'
    BY <1>2, <2>3, Zenon DEF Accounted, Current
  <2>5. GateInv'
    BY <1>1, <1>3, <1>6, <2>1, <2>4, GateTurns
  <2> QED BY <1>3, <2>5 DEF KeyInv
<1> QED BY <1>4, <1>5, <1>6, Zenon DEF Commit, ToplevelDestroyed

\* Every step keeps the keys' invariant.
LEMMA KeyStep == Inv /\ KeyInv /\ [Next]_vars => KeyInv'
<1> SUFFICES ASSUME Inv, KeyInv, [Next]_vars PROVE KeyInv'
  OBVIOUS
<1>1. CASE Accept
  BY <1>1, AcceptKeys
<1>2. ASSUME NEW c \in Login, ConnectionStep(c) PROVE KeyInv'
  BY <1>2, StartKeys, ReleaseKeys, FrameKeys, PidfdKeys, Zenon DEF ConnectionStep
<1>3. ASSUME NEW c \in Login, SessionStep(c) PROVE KeyInv'
  BY <1>3, SessionKeys, ClientKeys, Zenon DEF SessionStep
<1>4. CASE \E g \in Greeter : GreeterExits(g)
  BY <1>4, ClientKeys, Zenon
<1>5. CASE SurfaceStep
  BY <1>5, ClientKeys, SurfaceKeys, Zenon DEF SurfaceStep
<1>6. CASE UNCHANGED vars
  <2>1. /\ swap' = swap /\ session' = session /\ fromBroker' = fromBroker /\ idle' = idle
        /\ connections' = connections /\ clients' = clients
    BY <1>6 DEF vars, handoffVars, sessionVars, connVars, surfaceVars
  <2>2. (\A d \in Login : LoginOk(d)' /\ (Accounted(d)' <=> Accounted(d))) /\ OneCurrent'
    BY <2>1, SameLogins, Zenon
  <2>3. GateInv'
    <3>1. HandoffTypes /\ GateInv
      BY TypeParts DEF Inv, KeyInv
    <3> QED BY <2>1, <2>2, <3>1, GateKept
  <2> QED BY <2>2, <2>3 DEF KeyInv
<1> QED BY <1>1, <1>2, <1>3, <1>4, <1>5, <1>6, Zenon DEF Next

\* No session and no key: it holds at first.
LEMMA KeyInit == Init => KeyInv
<1> SUFFICES ASSUME Init PROVE KeyInv
  OBVIOUS
<1>1. \A c \in Login : session[c].leader = "none" /\ fromBroker[c] = <<>>
  BY DEF Init
<1>2. \A c \in Login : 1..Len(fromBroker[c]) = {}
  BY <1>1
<1>3. \A c \in Login : ~Current(c)
  BY <1>1, <1>2 DEF Current, EndsIn
<1>4. \A c \in Login : LoginOk(c)
  BY <1>2, <1>3 DEF Init, LoginOk, ChannelOk
<1>5. swap.phase = "Arming" /\ swap.opened = 0 /\ swap.frame = 0
  BY DEF Init, NewGate
<1>6. GateInv
  BY <1>5 DEF GateInv
<1>7. OneCurrent
  BY <1>3, Zenon DEF OneCurrent
<1> QED BY <1>4, <1>6, <1>7 DEF KeyInv

----------------------------------------------------------------------------
(* The theorems.                                                           *)

\* The invariant holds in every reachable state.
THEOREM HandoffInvariant == Spec => []Inv
<1>1. Init => Inv
  BY InvInit
<1>2. Inv /\ [Next]_vars => Inv'
  BY InvStep, InvStutter
<1> QED BY <1>1, <1>2, PTL DEF Spec

\* The hand-off's state keeps its types (HalmasuitState, ConnState, SwapGate).
THEOREM HandoffTypeCorrect == Spec => []TypeOK
<1>1. Inv => TypeOK
  BY DEF Inv
<1> QED BY <1>1, HandoffInvariant, PTL

\* No greeter the compositor was told of runs while the session is the
\* foreground (apply_swap_action, broker_spawn_greeter).
THEOREM NoGreeterBehindSessionSafe == Spec => []NoGreeterBehindSession
<1>1. Inv => NoGreeterBehindSession
  <2> SUFFICES ASSUME Inv, foreground = "Session", NEW g \in Greeter
               PROVE  greeters[g] # "live"
    BY DEF NoGreeterBehindSession
  <2>1. greeter = 0 /\ (greeters[g] = "live" => g = greeter)
    BY DEF Inv, ForegroundInv
  <2>2. g # 0
    BY HandoffAssumption DEF Greeter
  <2> QED BY <2>1, <2>2
<1> QED BY <1>1, HandoffInvariant, PTL

\* Only the end of a session, or of one of its toplevels, disarms a gate that
\* waits for its keys (toplevel_destroyed, handle_broker_ready).
THEOREM DisarmedBySessionSafe == Spec => DisarmedBySession
<1>1. Inv /\ [Next]_vars => [DisarmOK]_vars
  BY InvStep
<1>2. Spec => [][DisarmOK]_vars
  BY <1>1, HandoffInvariant, PTL DEF Spec
<1> QED BY <1>2 DEF DisarmedBySession, DisarmOK

\* The two keys of a swap are of one session, unless a channel was lost: what
\* an ended session left in the gate goes with its SessionEnded, and no other
\* session starts before that has been read (TurnKey, handle_broker_ready).
THEOREM KeysOfOneSessionSafe == Spec => []KeysOfOneSession
<1>1. Spec => []KeyInv
  BY KeyInit, KeyStep, HandoffInvariant, PTL DEF Spec
<1>2. Inv /\ KeyInv => KeysOfOneSession
  <2> SUFFICES ASSUME Inv, KeyInv, swap.phase = "Swapped",
                      ~session[swap.opened].lost, ~session[swap.frame].lost
               PROVE  swap.opened = swap.frame
    BY Zenon DEF KeysOfOneSession
  <2>1. swap.opened \in Login \cup {0} /\ swap.frame \in Login \cup {0}
    BY DEF Inv, TypeOK, Gate
  <2>2. swap.opened # 0 /\ swap.frame # 0
    BY DEF KeyInv, GateInv, BothKeys, Turned
  <2>3. Accounted(swap.opened) /\ Accounted(swap.frame)
    BY <2>2 DEF KeyInv, GateInv
  <2>4. Current(swap.opened) /\ Current(swap.frame)
    BY <2>3, Zenon DEF Accounted
  <2> QED BY <2>1, <2>2, <2>4 DEF KeyInv, OneCurrent
<1> QED BY <1>1, <1>2, HandoffInvariant, PTL
=============================================================================
