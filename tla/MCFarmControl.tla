--------------------------- MODULE MCFarmControl ---------------------------
(***************************************************************************)
(* Small instances of FarmControl.                                         *)
(***************************************************************************)
EXTENDS FarmControl

\* A control that shows its key, and one that only writes it.
OneSwitch     == {"light"}
PlatformMode  == {"mode"}
PlatformReset == {"reset"}

=============================================================================
