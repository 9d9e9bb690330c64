-------------------------------- MODULE MCVnc -------------------------------
(* Small instances of Vnc for TLC.                                         *)
EXTENDS Vnc
=============================================================================
