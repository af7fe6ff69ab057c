----------------------------- MODULE Initramfs -----------------------------
(***************************************************************************)
(* The marker file /etc/initrd-release, which the compositor and the LUKS  *)
(* prompt both watch for the end of the boot pivot.                        *)
(***************************************************************************)

VARIABLE initrd  \* the file exists

\* systemd leaves the initramfs; the daemons of the initramfs die with it.
MarkerGoes == initrd /\ initrd' = FALSE

=============================================================================
