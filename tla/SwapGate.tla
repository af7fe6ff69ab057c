------------------------------ MODULE SwapGate ------------------------------
(***************************************************************************)
(* The two-key gates of swap_gate.rs, as functions from a gate and an      *)
(* input to the gate after it and the SwapAction the caller must apply.    *)
(* The code keeps two flags per gate.  The keys here also record which     *)
(* login turned them, 0 standing for a key that has not been turned: the   *)
(* code cannot see it, and no guard reads more than "turned or not".       *)
(***************************************************************************)
EXTENDS Naturals

Gate(Login) == [phase : {"Arming", "Swapped", "Done"},
                opened : Login \cup {0}, frame : Login \cup {0}]

NewGate == [phase |-> "Arming", opened |-> 0, frame |-> 0]

Turned(key) == key # 0

BothKeys(g) == Turned(g.opened) /\ Turned(g.frame)

\* SwapGate::arm: the key is recorded while the gate is arming, and the second
\* key swaps.
Arm(g, key, by) ==
    LET armed == [g EXCEPT ![key] = by]
    IN IF g.phase # "Arming" THEN g
       ELSE [armed EXCEPT !.phase = IF BothKeys(armed) THEN "Swapped" ELSE "Arming"]

ArmAction(g, key, by) ==
    IF g.phase = "Arming" /\ Arm(g, key, by).phase = "Swapped"
    THEN "Swap" ELSE "None"

\* Mutant: a gate that has not swapped is left as it is.
RevertOrDisarmKeeps(g) == IF g.phase = "Swapped" THEN [g EXCEPT !.phase = "Done"] ELSE g

\* revert_or_disarm: terminal either way.
RevertOrDisarm(g) == [g EXCEPT !.phase = "Done"]

RevertAction(g) == IF g.phase = "Swapped" THEN "Revert" ELSE "None"

=============================================================================
