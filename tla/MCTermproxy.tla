------------------------------ MODULE MCTermproxy ---------------------------
(* Small instances of Termproxy for TLC.                                   *)
EXTENDS Termproxy, TLC

CONSTANTS c1, c2, c3, c4

TwoRuns == {c1, c2}
FourRuns == {c1, c2, c3, c4}
StubbornRun == {c1}
LongRun == {c4}
NoRun == {}
=============================================================================
