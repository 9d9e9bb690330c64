----------------------------- MODULE MCTransfers ----------------------------
(* Small instances of Transfers for TLC.                                   *)
EXTENDS Transfers, TLC

Symmetry == Permutations(Callers)
=============================================================================
