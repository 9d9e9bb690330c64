----------------------------- MODULE MCSessions -----------------------------
(* Small instances of Sessions for TLC.                                    *)
EXTENDS Sessions, TLC

Symmetry ==
  Permutations(ShellKeys) \cup Permutations(ConsoleKeys)
    \cup Permutations(Sessions) \cup Permutations(Callers)
=============================================================================
