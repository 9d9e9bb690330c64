---------------------------- MODULE ConsoleLife -----------------------------
(***************************************************************************)
(* What the cluster promises about consoles, without promises, phases or   *)
(* callers: a console is owned by one key from the moment it is opened,    *)
(* at most one per key, until it ends or somebody condemns it; a condemned *)
(* console is not offered again and ends.                                  *)
(***************************************************************************)
EXTENDS FiniteSets

CONSTANTS ConsoleKeys, Sessions, None

VARIABLES
  owner,      \* owner[k]: the console offered to whoever asks for key k
  condemned,  \* consoles taken out of the stores that may still be connected
  born        \* consoles that were ever opened

vars == <<owner, condemned, born>>

Owned == {owner[k] : k \in ConsoleKeys} \ {None}

Init ==
  /\ owner = [k \in ConsoleKeys |-> None]
  /\ condemned = {}
  /\ born = {}

Begin(k, s) ==
  /\ owner[k] = None
  /\ s \notin born
  /\ owner' = [owner EXCEPT ![k] = s]
  /\ born' = born \cup {s}
  /\ UNCHANGED condemned

\* A console that ends on its own leaves its key free.
End(k) ==
  /\ owner[k] # None
  /\ owner' = [owner EXCEPT ![k] = None]
  /\ UNCHANGED <<condemned, born>>

\* A close call condemns the consoles of the keys K.
Condemn(K) ==
  /\ \A k \in K : owner[k] # None
  /\ owner' = [k \in ConsoleKeys |-> IF k \in K THEN None ELSE owner[k]]
  /\ condemned' = condemned \cup {owner[k] : k \in K}
  /\ UNCHANGED born

Retire(S) ==
  /\ S # {}
  /\ S \subseteq condemned
  /\ condemned' = condemned \ S
  /\ UNCHANGED <<owner, born>>

Next ==
  \/ \E k \in ConsoleKeys, s \in Sessions : Begin(k, s)
  \/ \E k \in ConsoleKeys : End(k)
  \/ \E K \in SUBSET ConsoleKeys : Condemn(K)
  \/ \E S \in SUBSET Sessions : Retire(S)

\* What may happen, and what must: a condemned console ends.
Safety == Init /\ [][Next]_vars

Spec ==
  /\ Safety
  /\ \A s \in Sessions :
       WF_vars(\E S \in SUBSET Sessions : s \in S /\ Retire(S))
=============================================================================
