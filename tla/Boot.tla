------------------------------- MODULE Boot -------------------------------
(***************************************************************************)
(* The compositor and the LUKS prompt in the initramfs, across the pivot.  *)
(* They share nothing but the marker file.                                 *)
(***************************************************************************)
EXTENDS Lifecycle, LuksPrompt

vars == <<lifeVars, luksVars>>

TypeOK == LifeTypeOK /\ LuksTypeOK

Init == LifeInit /\ LuksInit

Next ==
    \/ LifeNext /\ UNCHANGED luksVars
    \/ SwitchRoot /\ UNCHANGED luksVars
    \/ LuksStep /\ UNCHANGED lifeVars

Spec == Init /\ [][Next]_vars

FairSpec == Spec /\ LifeFairness /\ LuksFairness

=============================================================================
