------------------------------ MODULE MCScreen ------------------------------
(* Small instances of Screen for TLC.                                      *)
EXTENDS Screen

Modes == {<<3, 2>>, <<2, 3>>, <<3, 3>>}
UpTo3 == 0..3
=============================================================================
