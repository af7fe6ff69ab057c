----------------------------- MODULE RelayProofs -----------------------------
(***************************************************************************)
(* What DecoderRelay promises for any wallpaper file, any restart budget   *)
(* and any number of decoders: its types, that a frame counted as uploaded *)
(* is the one shown, and that the restart budget is kept.                  *)
(***************************************************************************)
EXTENDS DecoderRelay, FiniteSetTheorems, SequenceTheorems, TLAPS

\* What holds of the relay while there is one: its own numbering is ahead of
\* every index it has handed out, so a new frame never bears an old number.
Sound(r) ==
    /\ r \in Relay
    /\ r.latest # None =>
          /\ r.latest.frame_idx < r.next_frame_idx
          /\ r.latest.frame_idx = last_uploaded_idx => current_buffer = r.latest.image
    /\ last_uploaded_idx # None => last_uploaded_idx < r.next_frame_idx
    /\ ~r.dead => Len(r.restart_history) <= MaxRestarts

\* The inductive invariant.
Inv ==
    /\ TypeOK
    /\ relay # None => Sound(relay)
    /\ ~spawn_attempted => relay = None /\ last_uploaded_idx = None

----------------------------------------------------------------------------
(* Lemmas about the operators.                                             *)

\* A set of indices that is not empty has a last one.
LEMMA MaxExists ==
  ASSUME NEW n \in Nat, NEW S \in SUBSET (1..n), S # {}
  PROVE  \E x \in S : \A y \in S : y <= x
<1> DEFINE R == OpToRel(<, Nat)
           T == {u \in Nat : n - u \in S}
<1>1. IsWellFoundedOn(R, Nat)
  BY NatLessThanWellFounded, Zenon
<1>2. T \subseteq Nat /\ T # {}
  <2>1. PICK x \in S : TRUE
    BY Zenon
  <2>2. n - x \in T
    BY <2>1
  <2> QED BY <2>2
<1>3. PICK t \in T : \A u \in T : ~(<<u, t>> \in R)
  BY <1>1, <1>2, WFMin, Zenon
<1>4. \A u \in T : ~(u < t)
  BY <1>2, <1>3, Zenon DEF OpToRel
<1>5. ASSUME NEW y \in S PROVE y <= n - t
  <2>1. n - y \in T
    OBVIOUS
  <2> QED BY <1>4, <2>1
<1> QED BY <1>5

\* A set of indices is finite, and no larger than the sequence.
LEMMA IndexSets ==
  ASSUME NEW n \in Nat, NEW S \in SUBSET (1..n)
  PROVE  /\ Cardinality(S) \in Nat
         /\ Cardinality(S) <= n
         /\ S # {} => Cardinality(S) >= 1
<1>1. IsFiniteSet(1..n) /\ Cardinality(1..n) = n
  BY FS_Interval
<1>2. IsFiniteSet(S) /\ Cardinality(S) <= Cardinality(1..n)
  BY <1>1, FS_Subset, Zenon
<1>3. Cardinality(S) \in Nat
  BY <1>2, FS_CardinalityType
<1>4. S # {} => Cardinality(S) # 0
  BY <1>2, FS_EmptySet
<1> QED BY <1>1, <1>2, <1>3, <1>4

\* The history after a failure is a history of the failures still in the window
\* and the new one.
LEMMA NotedType ==
  ASSUME NEW h \in Seq(Ages)
  PROVE  Noted(h) \in Seq(Ages) /\ Len(Noted(h)) \in Nat
<1> DEFINE k == Cardinality(Expired(h))
<1>1. Len(h) \in Nat /\ Expired(h) \in SUBSET (1..Len(h))
  BY DEF Expired
<1>2. k \in Nat /\ k <= Len(h)
  BY <1>1, IndexSets
<1> HIDE DEF k
<1>3. SubSeq(h, k + 1, Len(h)) \in Seq(Ages)
  <2>1. k + 1 \in Int /\ Len(h) \in Int
    BY <1>1, <1>2
  <2>2. \A i \in (k + 1)..Len(h) : h[i] \in Ages
    <3>1. \A i \in 1..Len(h) : h[i] \in Ages
      OBVIOUS
    <3>2. \A i \in (k + 1)..Len(h) : i \in 1..Len(h)
      BY <1>1, <1>2
    <3> QED BY <3>1, <3>2, Zenon
  <2> QED BY <2>1, <2>2, SubSeqProperties, Zenon
<1>4. 0 \in Ages
  BY RelayAssumption DEF Ages
<1>5. Append(SubSeq(h, k + 1, Len(h)), 0) \in Seq(Ages)
  BY <1>3, <1>4
<1> QED BY <1>5 DEF Noted, k

\* Draining the socket keeps the relay sound: the frames it takes are numbered
\* past every one before.
LEMMA DrainedSound ==
  ASSUME TypeOK, NEW r, NEW ss \in [Sessions -> Session], Sound(r)
  PROVE  LET d == Drained([relay |-> r, sess |-> ss])
         IN /\ Sound(d.relay) /\ d.sess \in [Sessions -> Session]
            /\ d.relay.chan = r.chan /\ d.relay.dead = r.dead
<1> DEFINE q == ss[r.chan].out
           F == Frames(r, q)
           d == Drained([relay |-> r, sess |-> ss])
<1>1. r \in Relay /\ r.chan \in Sessions /\ q \in Seq(Message)
  BY DEF Sound, Relay, Session
<1>2. Len(q) \in Nat /\ F \in SUBSET (1..Len(q))
  BY <1>1 DEF Frames, Taken
<1>3. Cardinality(F) \in Nat /\ (F # {} => Cardinality(F) >= 1)
  BY <1>2, IndexSets, Zenon
<1>4. d.sess \in [Sessions -> Session]
  <2>1. <<>> \in Seq(Message)
    OBVIOUS
  <2>2. d.sess = [ss EXCEPT ![r.chan].out = <<>>]
    BY DEF Drained
  <2>3. [ss[r.chan] EXCEPT !.out = <<>>] \in Session
    <3>1. ss[r.chan] \in Session
      BY <1>1
    <3> QED BY <2>1, <3>1, Zenon DEF Session
  <2>4. d.sess = [ss EXCEPT ![r.chan] = [ss[r.chan] EXCEPT !.out = <<>>]]
    BY <2>2
  <2> HIDE DEF d, q
  <2> QED BY <1>1, <2>3, <2>4
<1>5. F # {} => LastFrame(r, q).image \in Images
  <2> SUFFICES ASSUME F # {} PROVE LastFrame(r, q).image \in Images
    OBVIOUS
  <2> DEFINE m == CHOOSE i \in F : \A j \in F : j <= i
  <2>1. \E i \in F : \A j \in F : j <= i
    BY <1>2, MaxExists, Zenon
  <2>2. m \in F
    BY <2>1
  <2>3. m \in 1..Len(q) /\ q[m].kind = "Frame"
    <3> HIDE DEF m, q
    <3> QED BY <1>2, <2>2 DEF Frames
  <2>4. q[m] \in Message
    <3> HIDE DEF m, q
    <3> QED BY <1>1, <2>3
  <2>5. q[m].image \in Images
    <3> HIDE DEF m, q
    <3> QED BY <2>3, <2>4 DEF Message
  <2> QED BY <2>5 DEF LastFrame
<1> DEFINE rdy == r.ready \/ \E i \in Taken(r, q) : q[i].kind = "Ready"
           c == Cardinality(F)
           new == relabel(r, q)
           l == IF F = {} THEN r.latest ELSE new
<1>6. d.relay = [r EXCEPT !.ready = rdy, !.latest = l,
                          !.next_frame_idx = r.next_frame_idx + c]
  BY DEF Drained
<1>7. rdy \in BOOLEAN
  BY <1>1 DEF Relay
<1>8. c \in Nat /\ r.next_frame_idx \in Nat
  BY <1>1, <1>3 DEF Relay
<1>9. F # {} => /\ new \in [frame_idx : Nat, image : Images]
                /\ new.frame_idx = r.next_frame_idx + c - 1
                /\ c >= 1
  <2> HIDE DEF F, c
  <2> SUFFICES ASSUME F # {}
               PROVE  /\ new \in [frame_idx : Nat, image : Images]
                      /\ new.frame_idx = r.next_frame_idx + c - 1
                      /\ c >= 1
    OBVIOUS
  <2>1. c >= 1
    BY <1>3 DEF c
  <2>2. new = [frame_idx |-> r.next_frame_idx + c - 1, image |-> LastFrame(r, q).image]
    BY DEF relabel, c, F
  <2> QED BY <1>5, <1>8, <2>1, <2>2
<1>10. l \in [frame_idx : Nat, image : Images] \cup {None}
  BY <1>1, <1>9 DEF Relay
<1> HIDE DEF rdy, c, new, l, d
<1>11. /\ d.relay \in Relay /\ d.relay.latest = l
       /\ d.relay.next_frame_idx = r.next_frame_idx + c
       /\ d.relay.restart_history = r.restart_history
       /\ d.relay.chan = r.chan /\ d.relay.dead = r.dead
  <2> DEFINE n == r.next_frame_idx + c
  <2>1. n \in Nat
    BY <1>8
  <2>2. d.relay = [r EXCEPT !.ready = rdy, !.latest = l, !.next_frame_idx = n]
    BY <1>6
  <2> HIDE DEF n, q, F
  <2>3. /\ d.relay \in Relay /\ d.relay.latest = l /\ d.relay.next_frame_idx = n
        /\ d.relay.restart_history = r.restart_history
        /\ d.relay.chan = r.chan /\ d.relay.dead = r.dead
    BY <1>1, <1>7, <1>10, <2>1, <2>2, Zenon DEF Relay
  <2> QED BY <2>3 DEF n
<1>12. last_uploaded_idx # None =>
          last_uploaded_idx \in Nat /\ last_uploaded_idx < r.next_frame_idx
  BY DEF TypeOK, Sound
<1>13. Sound(d.relay)
  <2> HIDE DEF F
  <2>1. last_uploaded_idx # None => last_uploaded_idx < d.relay.next_frame_idx
    BY <1>8, <1>11, <1>12
  <2>2. ~d.relay.dead => Len(d.relay.restart_history) <= MaxRestarts
    BY <1>11 DEF Sound
  <2>3. CASE F = {}
    <3>1. d.relay.latest = r.latest
      BY <1>11, <2>3 DEF l
    <3>2. r.latest # None => r.latest.frame_idx \in Nat
      BY <1>1 DEF Relay
    <3> QED BY <1>8, <1>11, <2>1, <2>2, <3>1, <3>2 DEF Sound
  <2>4. CASE F # {}
    <3>1. d.relay.latest = new
      BY <1>11, <2>4 DEF l
    <3>2. /\ new.frame_idx \in Nat
          /\ new.frame_idx >= r.next_frame_idx
          /\ new.frame_idx < r.next_frame_idx + c
      BY <1>8, <1>9, <2>4
    <3>3. new.frame_idx # last_uploaded_idx
      BY <1>8, <1>12, <3>2, RelayAssumption
    <3> QED BY <1>11, <2>1, <2>2, <3>1, <3>2, <3>3 DEF Sound
  <2> QED BY <2>3, <2>4
<1> QED BY <1>4, <1>11, <1>13 DEF d

\* A failure is charged, and the relay restarted or given up, without losing
\* its frame or its numbering.
LEMMA NoteFailureSound ==
  ASSUME NEW r, NEW ss \in [Sessions -> Session], Sound(r), NEW ok \in BOOLEAN,
         Free # {}
  PROVE  LET n == note_failure([relay |-> r, sess |-> ss], ok)
         IN Sound(n.relay) /\ n.sess \in [Sessions -> Session]
<1> DEFINE n == note_failure([relay |-> r, sess |-> ss], ok)
           h == Noted(r.restart_history)
           charged == [r EXCEPT !.restart_history = h]
<1>1. r \in Relay /\ h \in Seq(Ages) /\ Len(h) \in Nat
  BY NotedType DEF Sound, Relay
<1>2. Slot \in Sessions
  BY DEF Slot, Free
<1>3. Spawned \in Session
  <2>1. <<>> \in Seq(Message)
    OBVIOUS
  <2> QED BY <2>1, RelayAssumption DEF Spawned, Session
<1>4. Closed(ss[r.chan].state) \in Session
  <2>1. <<>> \in Seq(Message)
    OBVIOUS
  <2>2. ss[r.chan].state \in {"Starting", "Idle", "Decoding", "exited"}
    BY <1>1 DEF Session, Relay
  <2> QED BY <2>1, <2>2, RelayAssumption DEF Closed, Session
<1>5. /\ charged \in Relay /\ charged.restart_history = h /\ charged.chan = r.chan
      /\ charged.latest = r.latest /\ charged.next_frame_idx = r.next_frame_idx
  <2> HIDE DEF h
  <2> QED BY <1>1 DEF Relay
<1> HIDE DEF h
<1>6. CASE Len(h) > MaxRestarts \/ ~ok
  <2>1. n = [relay |-> [charged EXCEPT !.dead = TRUE], sess |-> ss]
    BY <1>6 DEF note_failure, h
  <2>2. /\ n.sess = ss
        /\ n.relay = [charged EXCEPT !.dead = TRUE]
    BY <2>1
  <2> HIDE DEF charged, n
  <2>3. /\ n.relay \in Relay /\ n.relay.dead = TRUE
        /\ n.relay.latest = r.latest /\ n.relay.next_frame_idx = r.next_frame_idx
    BY <1>5, <2>2, Zenon DEF Relay
  <2>4. Sound(n.relay)
    BY <2>3 DEF Sound
  <2> QED BY <2>2, <2>4 DEF n
<1>7. CASE ~(Len(h) > MaxRestarts \/ ~ok)
  <2>1. n = respawn([relay |-> charged, sess |-> ss])
    BY <1>7 DEF note_failure, h
  <2>2. /\ n.sess = [ss EXCEPT ![charged.chan] = Closed(@.state), ![Slot] = Spawned]
        /\ n.relay = [charged EXCEPT !.chan = Slot, !.ready = FALSE]
    <3> HIDE DEF charged, n
    <3> QED BY <2>1 DEF respawn
  <2> HIDE DEF charged, n
  <2>3. n.sess \in [Sessions -> Session]
    BY <1>1, <1>2, <1>3, <1>4, <1>5, <2>2
  <2>4. /\ n.relay \in Relay /\ n.relay.restart_history = h
        /\ n.relay.latest = r.latest /\ n.relay.next_frame_idx = r.next_frame_idx
    BY <1>2, <1>5, <2>2, Zenon DEF Relay
  <2>5. Len(h) <= MaxRestarts
    BY <1>1, <1>7, RelayAssumption
  <2>6. Sound(n.relay)
    BY <2>4, <2>5 DEF Sound
  <2> QED BY <2>3, <2>6 DEF n
<1> QED BY <1>6, <1>7

\* poll_frames keeps the relay sound, provided a decoder can be started when
\* this one fails.
LEMMA PollSound ==
  ASSUME TypeOK, NEW r, NEW ss \in [Sessions -> Session], Sound(r),
         NEW ok \in BOOLEAN, Failing(r, ss) => Free # {}
  PROVE  LET p == poll_frames([relay |-> r, sess |-> ss], ok)
         IN Sound(p.relay) /\ p.sess \in [Sessions -> Session]
<1> DEFINE in == [relay |-> r, sess |-> ss]
           d == Drained(in)
           p == poll_frames(in, ok)
<1>1. Sound(d.relay) /\ d.sess \in [Sessions -> Session]
  BY DrainedSound
<1>2. d = [relay |-> d.relay, sess |-> d.sess]
  BY DEF Drained
<1>3. in.relay = r /\ in.sess = ss
  OBVIOUS
<1>4. CASE r.dead
  <2>1. p = in
    BY <1>3, <1>4 DEF poll_frames
  <2> QED BY <1>3, <2>1
<1>5. CASE ~r.dead /\ Failing(r, ss)
  <2>1. p = note_failure(d, ok)
    BY <1>3, <1>5 DEF poll_frames
  <2> HIDE DEF d
  <2>2. Free # {}
    BY <1>5
  <2> DEFINE n == note_failure([relay |-> d.relay, sess |-> d.sess], ok)
  <2>3. Sound(n.relay) /\ n.sess \in [Sessions -> Session]
    BY <1>1, <2>2, NoteFailureSound
  <2> QED BY <1>2, <2>1, <2>3
<1>6. CASE ~r.dead /\ ~Failing(r, ss)
  <2>1. p = d
    BY <1>3, <1>6 DEF poll_frames
  <2> QED BY <1>1, <2>1
<1> QED BY <1>4, <1>5, <1>6

----------------------------------------------------------------------------
(* The invariant is inductive.                                             *)

\* There is no relay before the first tick.
LEMMA InvInit ==
  ASSUME Init PROVE Inv
<1>1. Closed("exited") \in Session
  <2>1. <<>> \in Seq(Message)
    OBVIOUS
  <2> QED BY <2>1, RelayAssumption DEF Closed, Session
<1>2. TypeOK
  BY <1>1, Zenon DEF Init, TypeOK
<1> QED BY <1>2 DEF Init, Inv

\* A step of a decoder touches its own session only.
LEMMA DecoderInv ==
  ASSUME Inv, NEW s \in Sessions, DecoderHangup(s) \/ DecoderStep(s)
  PROVE  Inv'
<1>1. /\ sess \in [Sessions -> Session]
      /\ sess[s] \in Session /\ sess[s].out \in Seq(Message)
      /\ sess[s].next_frame_idx \in 0..FileLength
  BY DEF Inv, TypeOK, Session
<1>2. ASSUME NEW m \in Message PROVE Emit(s, m) \in Seq(Message)
  BY <1>1 DEF Emit
<1>3. /\ [kind |-> "Ready"] \in Message
      /\ [kind |-> "DecoderError"] \in Message
      /\ [kind |-> "Garbled"] \in Message
  BY DEF Message
<1>4. UNCHANGED <<relay, spawn_attempted, fallback, backend, uploadVars>>
  BY DEF DecoderHangup, DecoderStep
<1>5. sess' \in [Sessions -> Session]
  <2>1. CASE DecoderHangup(s)
    <3>1. Closed("exited") \in Session
      <4>1. <<>> \in Seq(Message)
        OBVIOUS
      <4> QED BY <4>1, RelayAssumption DEF Closed, Session
    <3> QED BY <1>1, <2>1, <3>1 DEF DecoderHangup
  <2>2. CASE send_ready(s)
    BY <1>1, <1>2, <1>3, <2>2, Zenon DEF send_ready, Session
  <2>3. CASE LoadFile(s)
    <3>1. 0 \in 0..FileLength
      BY RelayAssumption
    <3>2. CASE sess' = [sess EXCEPT ![s].state = "Decoding", ![s].load = FALSE,
                                    ![s].next_frame_idx = 0]
      BY <1>1, <3>1, <3>2, Zenon DEF Session
    <3>3. CASE sess' = [sess EXCEPT ![s].state = "exited",
                                    ![s].out = Emit(s, [kind |-> "DecoderError"])]
      BY <1>1, <1>2, <1>3, <3>3, Zenon DEF Session
    <3> QED BY <2>3, <3>2, <3>3 DEF LoadFile
  <2>4. CASE DecodeFrame(s)
    <3>1. PICK image \in Images :
            sess' = [sess EXCEPT ![s].next_frame_idx = @ + 1,
                                 ![s].out = Emit(s, [kind |-> "Frame",
                                                     frame_idx |-> sess[s].next_frame_idx,
                                                     image |-> image])]
      BY <2>4, Zenon DEF DecodeFrame
    <3> DEFINE f == [kind |-> "Frame", frame_idx |-> sess[s].next_frame_idx,
                     image |-> image]
    <3>2. f \in Message
      BY <1>1 DEF Message
    <3>3. Emit(s, f) \in Seq(Message)
      BY <1>2, <3>2
    <3>4. sess[s].next_frame_idx + 1 \in 0..FileLength
      BY <1>1, <2>4, RelayAssumption DEF DecodeFrame
    <3> HIDE DEF f
    <3>5. sess' = [sess EXCEPT ![s].next_frame_idx = sess[s].next_frame_idx + 1,
                               ![s].out = Emit(s, f)]
      BY <3>1 DEF f
    <3> QED BY <1>1, <3>3, <3>4, <3>5, Zenon DEF Session
  <2>5. CASE DecodeEof(s)
    <3>1. 0 \in 0..FileLength
      BY RelayAssumption
    <3> QED BY <1>1, <2>5, <3>1, Zenon DEF DecodeEof, Session
  <2>6. CASE DecodeFails(s)
    BY <1>1, <1>2, <1>3, <2>6, Zenon DEF DecodeFails, Session
  <2>7. CASE DecoderFault(s)
    <3>1. CASE sess' = [sess EXCEPT ![s].state = "exited"]
      BY <1>1, <3>1, Zenon DEF Session
    <3>2. CASE sess' = [sess EXCEPT ![s].out = Emit(s, [kind |-> "Garbled"])]
      BY <1>1, <1>2, <1>3, <3>2, Zenon DEF Session
    <3> QED BY <2>7, <3>1, <3>2 DEF DecoderFault
  <2> QED BY <2>1, <2>2, <2>3, <2>4, <2>5, <2>6, <2>7 DEF DecoderStep
<1> QED BY <1>4, <1>5 DEF Inv, TypeOK, Sound, uploadVars

\* The step of a callback that ends with maybe_swap_fallback.
LEMMA SwapInv ==
  ASSUME Inv, NEW p, maybe_swap_fallback(p),
         p.sess \in [Sessions -> Session], p.relay # None => Sound(p.relay),
         UNCHANGED uploadVars, UNCHANGED fallback, spawn_attempted' = TRUE
  PROVE  Inv'
<1>1. CASE requested_fallback(p.relay)
  <2>1. /\ backend' = "image" /\ relay' = None
        /\ sess' = [p.sess EXCEPT ![p.relay.chan] = Closed("exited")]
    BY <1>1 DEF maybe_swap_fallback, Dropped
  <2>2. Closed("exited") \in Session
    <3>1. <<>> \in Seq(Message)
      OBVIOUS
    <3> QED BY <3>1, RelayAssumption DEF Closed, Session
  <2>3. sess' \in [Sessions -> Session]
    BY <2>1, <2>2, Zenon
  <2> QED BY <2>1, <2>3 DEF Inv, TypeOK, uploadVars
<1>2. CASE ~requested_fallback(p.relay)
  <2>1. relay' = p.relay /\ sess' = p.sess /\ backend' = backend
    BY <1>2 DEF maybe_swap_fallback
  <2>2. relay' # None => Sound(relay)'
    BY <2>1 DEF Sound, uploadVars
  <2>3. TypeOK'
    BY <2>1, <2>2 DEF Inv, TypeOK, Sound, uploadVars
  <2> QED BY <2>2, <2>3 DEF Inv
<1> QED BY <1>1, <1>2

\* The wallpaper tick keeps it: spawn, poll, swap.
LEMMA TickInv ==
  ASSUME Inv, Tick PROVE Inv'
<1>1. /\ Spawning => Free # {}
      /\ spawn_attempted' = TRUE /\ UNCHANGED fallback /\ UNCHANGED uploadVars
  BY DEF Tick
<1>2. PICK ok \in SpawnResults :
        \E p \in {ensure_relay_spawned(ok)} :
          \E q \in {IF p.relay = None THEN p ELSE poll_frames(p, ok)} :
             maybe_swap_fallback(q)
  BY DEF Tick
<1>3. ok \in BOOLEAN
  BY <1>2, Zenon DEF SpawnResults
<1> DEFINE p == ensure_relay_spawned(ok)
           q == IF p.relay = None THEN p ELSE poll_frames(p, ok)
<1>4. maybe_swap_fallback(q)
  BY <1>2
<1>5. /\ p = [relay |-> p.relay, sess |-> p.sess]
      /\ p.sess \in [Sessions -> Session]
      /\ p.relay # None => Sound(p.relay) /\ (Failing(p.relay, p.sess) => Free # {})
  <2>1. CASE spawn_attempted \/ ~ok
    <3>1. p = [relay |-> relay, sess |-> sess]
      BY <2>1 DEF ensure_relay_spawned
    <3>2. relay # None => (Failing(relay, sess) => Free # {})
      BY <1>1 DEF Spawning
    <3> QED BY <3>1, <3>2 DEF Inv, TypeOK
  <2>2. CASE ~spawn_attempted /\ ok
    <3> DEFINE r == [chan |-> Slot, ready |-> FALSE, dead |-> FALSE, latest |-> None,
                     next_frame_idx |-> 0, restart_history |-> <<>>]
               ss == [sess EXCEPT ![Slot] = Spawned]
    <3>1. p = [relay |-> r, sess |-> ss]
      BY <2>2 DEF ensure_relay_spawned
    <3>2. Free # {} /\ Slot \in Sessions
      BY <1>1, <2>2 DEF Spawning, Slot, Free
    <3>3. Spawned \in Session
      <4>1. <<>> \in Seq(Message)
        OBVIOUS
      <4> QED BY <4>1, RelayAssumption DEF Spawned, Session
    <3>4. ss \in [Sessions -> Session]
      BY <3>2, <3>3 DEF Inv, TypeOK
    <3>5. r \in Relay
      <4>1. <<>> \in Seq(Ages)
        OBVIOUS
      <4> QED BY <3>2, <4>1 DEF Relay
    <3>6. Sound(r)
      <4>1. last_uploaded_idx = None
        BY <2>2 DEF Inv
      <4>2. Len(r.restart_history) <= MaxRestarts
        BY RelayAssumption
      <4>3. r.latest = None
        OBVIOUS
      <4> HIDE DEF r
      <4> QED BY <3>5, <4>1, <4>2, <4>3 DEF Sound
    <3> QED BY <3>1, <3>2, <3>4, <3>6
  <2> QED BY <1>3, <2>1, <2>2
<1> HIDE DEF p
<1>6. q.sess \in [Sessions -> Session] /\ (q.relay # None => Sound(q.relay))
  <2>1. CASE p.relay = None
    BY <1>5, <2>1
  <2>2. CASE p.relay # None
    <3> DEFINE u == poll_frames([relay |-> p.relay, sess |-> p.sess], ok)
    <3>1. TypeOK
      BY DEF Inv
    <3>2. Sound(u.relay) /\ u.sess \in [Sessions -> Session]
      BY <1>3, <1>5, <2>2, <3>1, PollSound
    <3>3. q = u
      BY <1>5, <2>2
    <3> HIDE DEF u, q
    <3> QED BY <3>2, <3>3
  <2> QED BY <2>1, <2>2
<1> HIDE DEF q
<1> QED BY <1>1, <1>4, <1>6, SwapInv

\* So does the render path, which polls and uploads.
LEMMA RenderInv ==
  ASSUME Inv, Render PROVE Inv'
<1>1. relay # None /\ UNCHANGED spawn_attempted /\ UNCHANGED fallback
  BY DEF Render
<1>2. spawn_attempted = TRUE
  BY <1>1 DEF Inv, TypeOK
<1>3. CASE requested_fallback(relay)
  <2> DEFINE p == [relay |-> relay, sess |-> sess]
  <2>1. maybe_swap_fallback(p) /\ UNCHANGED uploadVars
    BY <1>3 DEF Render
  <2>2. p.sess \in [Sessions -> Session] /\ (p.relay # None => Sound(p.relay))
    BY DEF Inv, TypeOK
  <2> HIDE DEF p
  <2> QED BY <1>1, <1>2, <2>1, <2>2, SwapInv
<1>4. CASE ~requested_fallback(relay)
  <2>1. PICK ok \in SpawnResults, imported \in BOOLEAN : RenderVideo(ok, imported)
    BY <1>4 DEF Render
  <2>2. ok \in BOOLEAN /\ (Failing(relay, sess) => Free # {})
    BY <1>1, <1>4, <2>1, Zenon DEF Render, SpawnResults, Spawning
  <2> DEFINE p == poll_frames([relay |-> relay, sess |-> sess], ok)
  <2>3. Sound(p.relay) /\ p.sess \in [Sessions -> Session]
    BY <1>1, <2>2, PollSound DEF Inv, TypeOK
  <2>4. /\ relay' = p.relay /\ sess' = p.sess /\ backend' = backend
        /\ \/ /\ p.relay.latest # None
              /\ current_buffer' = p.relay.latest.image
              /\ last_uploaded_idx' = p.relay.latest.frame_idx
           \/ UNCHANGED uploadVars
    BY <2>1 DEF RenderVideo
  <2> HIDE DEF p
  <2>5. p.relay \in Relay
    BY <2>3 DEF Sound
  <2>6. Sound(relay)'
    <3>1. CASE UNCHANGED uploadVars
      BY <2>3, <2>4, <3>1 DEF Sound, uploadVars
    <3>2. CASE /\ p.relay.latest # None
               /\ current_buffer' = p.relay.latest.image
               /\ last_uploaded_idx' = p.relay.latest.frame_idx
      BY <2>3, <2>4, <3>2 DEF Sound
    <3> QED BY <2>4, <3>1, <3>2
  <2>7. current_buffer' \in Images \cup {None} /\ last_uploaded_idx' \in Nat \cup {None}
    <3>1. p.relay.latest # None => p.relay.latest \in [frame_idx : Nat, image : Images]
      BY <2>5 DEF Relay
    <3> QED BY <2>4, <3>1 DEF Inv, TypeOK, uploadVars
  <2>8. TypeOK'
    BY <1>1, <2>3, <2>4, <2>5, <2>7 DEF Inv, TypeOK
  <2> QED BY <1>1, <1>2, <2>6, <2>8 DEF Inv
<1> QED BY <1>3, <1>4

\* Failures that grow old only leave the window.
LEMMA AgeInv ==
  ASSUME Inv, Age PROVE Inv'
<1> DEFINE h == relay.restart_history
           older == [i \in DOMAIN h |-> IF h[i] < Window THEN h[i] + 1 ELSE Window]
<1>1. relay # None /\ relay \in Relay /\ h \in Seq(Ages)
  BY DEF Age, Inv, TypeOK, Relay
<1>2. relay' = [relay EXCEPT !.restart_history = older]
  BY DEF Age
<1>3. older \in Seq(Ages) /\ Len(older) = Len(h)
  <2> HIDE DEF h
  <2>1. Len(h) \in Nat /\ DOMAIN h = 1..Len(h)
    BY <1>1
  <2>2. \A i \in 1..Len(h) : h[i] \in Ages
    BY <1>1
  <2>3. \A i \in 1..Len(h) : older[i] \in Ages
    BY <2>1, <2>2, RelayAssumption DEF Ages
  <2>4. DOMAIN older = 1..Len(h)
    BY <2>1
  <2>5. older \in [1..Len(h) -> Ages]
    BY <2>1, <2>3, <2>4
  <2> HIDE DEF older
  <2> QED BY <2>1, <2>5
<1> HIDE DEF older
<1>4. /\ relay' \in Relay /\ relay'.restart_history = older
      /\ relay'.latest = relay.latest /\ relay'.dead = relay.dead
      /\ relay'.next_frame_idx = relay.next_frame_idx
  BY <1>1, <1>2, <1>3 DEF Relay
<1>5. Sound(relay)'
  BY <1>1, <1>3, <1>4 DEF Inv, Sound, Age, uploadVars
<1>6. TypeOK'
  BY <1>4 DEF Inv, TypeOK, Age, uploadVars
<1> QED BY <1>1, <1>5, <1>6 DEF Inv, Age

\* Every step keeps the invariant.
LEMMA InvStep ==
  ASSUME Inv, [Next]_vars PROVE Inv'
<1>1. CASE \E s \in Sessions : DecoderHangup(s) \/ DecoderStep(s)
  BY <1>1, DecoderInv
<1>2. CASE Tick
  BY <1>2, TickInv
<1>3. CASE Render
  BY <1>3, RenderInv
<1>4. CASE Age
  BY <1>4, AgeInv
<1>5. CASE UNCHANGED vars
  BY <1>5 DEF vars, uploadVars, Inv, TypeOK, Sound
<1> QED BY <1>1, <1>2, <1>3, <1>4, <1>5 DEF Next

----------------------------------------------------------------------------
(* The theorems.                                                           *)

\* The invariant holds in every reachable state.
THEOREM RelayInvariant == Spec => []Inv
<1>1. Init => Inv
  BY InvInit
<1>2. Inv /\ [Next]_vars => Inv'
  BY InvStep
<1> QED BY <1>1, <1>2, PTL DEF Spec

\* The variables of the decoder relay and of the video backend keep their types
\* (struct DecoderRelay, struct VideoBackend, LifecycleState).
THEOREM RelayTypeCorrect == Spec => []TypeOK
<1>1. Inv => TypeOK
  BY DEF Inv
<1> QED BY <1>1, RelayInvariant, PTL

\* A frame that counts as uploaded is the one on the screen, however often the
\* decoder is restarted (the relabelling in poll_frames).
THEOREM UploadedIsLatestSafe == Spec => []UploadedIsLatest
<1>1. Inv => UploadedIsLatest
  BY DEF Inv, Sound, UploadedIsLatest
<1> QED BY <1>1, RelayInvariant, PTL

\* A relay that still restarts its decoder is within its budget in every window
\* (note_failure).
THEOREM RestartBudgetSafe == Spec => []RestartBudget
<1>1. Inv => RestartBudget
  <2> SUFFICES ASSUME Inv, relay # None, ~relay.dead
               PROVE  Cardinality(DOMAIN relay.restart_history
                                    \ Expired(relay.restart_history)) <= MaxRestarts
    BY DEF RestartBudget
  <2> DEFINE h == relay.restart_history
             S == DOMAIN h \ Expired(h)
  <2>1. h \in Seq(Ages) /\ Len(h) <= MaxRestarts
    BY DEF Inv, Sound, Relay
  <2> HIDE DEF h
  <2>2. Len(h) \in Nat /\ S \in SUBSET (1..Len(h))
    BY <2>1
  <2>3. Cardinality(S) \in Nat /\ Cardinality(S) <= Len(h)
    BY <2>2, IndexSets
  <2>4. Cardinality(S) <= MaxRestarts
    <3> HIDE DEF S
    <3> QED BY <2>1, <2>2, <2>3, RelayAssumption
  <2> QED BY <2>4 DEF h
<1> QED BY <1>1, RelayInvariant, PTL
=============================================================================
