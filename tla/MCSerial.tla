------------------------------ MODULE MCSerial ------------------------------
(* Small instances of Serial for TLC.                                      *)
EXTENDS Serial, TLC

CONSTANTS c1, c2

\* One caller whose lines may be empty, one whose lines may look like a prompt.
MCLines == (c1 :> {"empty", "text"}) @@ (c2 :> {"text", "sign", "inner"})
=============================================================================
