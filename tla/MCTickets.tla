------------------------------ MODULE MCTickets -----------------------------
(* Small instances of Tickets for TLC.                                     *)
EXTENDS Tickets, TLC

Symmetry == Permutations(Requests)
=============================================================================
