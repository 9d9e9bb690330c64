--------------------------- MODULE SessionsProofs ---------------------------
(***************************************************************************)
(* The safety of the session stores for every set of keys, sessions and    *)
(* callers: the type invariant, no orphaned session, one closer per        *)
(* session, and the completeness of close().                               *)
(*                                                                         *)
(* None of these is inductive alone.  The completeness of close() needs to *)
(* know, while a drain still waits, that whatever it covers is in some     *)
(* caller's hands (Covered); that needs every connected session to be in   *)
(* a store or in a caller's hands when drain() runs (NoOrphan); and that   *)
(* needs the sets in the callers' hands to be disjoint from the stores and *)
(* from each other (HeldOut), which close calls keep only because an entry *)
(* is always of its own key (EntriesLive).                                 *)
(***************************************************************************)
EXTENDS Sessions, TLAPS

\* A session has a key exactly when it was opened, and one that has not
\* settled was never notified.
Born ==
  \A s \in Sessions :
    /\ phase[s] = "unused" <=> keyOf[s] = None
    /\ phase[s] \in {"unused", "opening"} => ~notified[s]

\* What a caller holds was opened, is in no store and is in no other hands.
HeldOut ==
  \A c \in Callers : \A s \in held[c] :
    /\ phase[s] # "unused"
    /\ ~Reachable(s)
    /\ \A d \in Callers : s \in held[d] => d = c

\* Only a caller that waits for sessions to settle holds any.
HeldWhileWaiting ==
  \A c \in Callers : op[c] \notin {"taking", "draining"} => held[c] = {}

\* From the drain on, a close() accounts for everything it covers.
Covered ==
  \A c \in Callers : op[c] \in {"draining", "closing", "returned"} =>
    \A s \in before[c] :
      /\ phase[s] # "unused"
      /\ Alive(s) => (BeingClosed(s) \/ GaveUp(s))

IInv ==
  /\ TypeOK
  /\ EntriesLive
  /\ Born
  /\ HeldOut
  /\ HeldWhileWaiting
  /\ NoOrphan
  /\ Covered

-----------------------------------------------------------------------------
(* Every action preserves the inductive invariant.                         *)

LEMMA InitInv == Init => IInv
<1> SUFFICES ASSUME Init PROVE IInv
  OBVIOUS
<1> USE DEF Init, Keys
<1>1. TypeOK
  BY DEF TypeOK, Phase, Op
<1>2. EntriesLive /\ Born /\ NoOrphan
  BY KeysAssumption DEF EntriesLive, Born, NoOrphan, Alive
<1>3. HeldOut /\ HeldWhileWaiting /\ Covered
  BY DEF HeldOut, HeldWhileWaiting, Covered
<1> QED
  BY <1>1, <1>2, <1>3 DEF IInv

LEMMA OpenInv ==
  ASSUME IInv, NEW k \in Keys, NEW s \in Sessions, Open(k, s)
  PROVE  IInv'
<1> USE KeysAssumption, NoneAssumption DEF IInv, Open, TypeOK
<1>1. TypeOK'
  BY DEF Phase
<1>2. EntriesLive' /\ Born'
  BY DEF EntriesLive, Born, Alive, Phase
<1>3. HeldOut' /\ HeldWhileWaiting'
  BY DEF HeldOut, HeldWhileWaiting, Reachable, Born
<1>4. NoOrphan' /\ Covered'
  BY DEF NoOrphan, Covered, Alive, Reachable, BeingClosed, GaveUp, IsShell,
         Born
<1> QED
  BY <1>1, <1>2, <1>3, <1>4
LEMMA OpenSucceedsInv ==
  ASSUME IInv, NEW s \in Sessions, OpenSucceeds(s)
  PROVE  IInv'
<1> USE KeysAssumption, NoneAssumption DEF IInv, TypeOK, OpenSucceeds, IsShell
<1>1. TypeOK'
  BY DEF Phase, Op
<1>2. EntriesLive' /\ Born'
  BY DEF EntriesLive, Born, HeldOut, Alive, Reachable, Phase
<1>3. HeldOut' /\ HeldWhileWaiting'
  BY DEF HeldOut, HeldWhileWaiting, EntriesLive, Reachable, Born
<1>4. NoOrphan'
  BY DEF NoOrphan, EntriesLive, Alive, Reachable, BeingClosed, GaveUp, Born
<1>5. Covered'
  BY DEF Covered, NoOrphan, EntriesLive, Alive, Reachable, BeingClosed,
         GaveUp, Born
<1> QED
  BY <1>1, <1>2, <1>3, <1>4, <1>5

LEMMA OpenFailsInv ==
  ASSUME IInv, NEW s \in Sessions, OpenFails(s)
  PROVE  IInv'
<1> USE KeysAssumption, NoneAssumption DEF IInv, TypeOK, OpenFails, Forget, IsShell
<1>1. TypeOK'
  BY DEF Phase, Op
<1>2. EntriesLive' /\ Born'
  BY DEF EntriesLive, Born, HeldOut, Alive, Reachable, Phase
<1>3. HeldOut' /\ HeldWhileWaiting'
  BY DEF HeldOut, HeldWhileWaiting, EntriesLive, Reachable, Born
<1>4. NoOrphan'
  BY DEF NoOrphan, EntriesLive, Alive, Reachable, BeingClosed, GaveUp, Born
<1>5. Covered'
  BY DEF Covered, NoOrphan, EntriesLive, Alive, Reachable, BeingClosed,
         GaveUp, Born
<1> QED
  BY <1>1, <1>2, <1>3, <1>4, <1>5

LEMMA ConsoleClosesInv ==
  ASSUME IInv, NEW s \in Sessions, ConsoleCloses(s)
  PROVE  IInv'
<1> USE KeysAssumption, NoneAssumption DEF IInv, TypeOK, ConsoleCloses, Forget, IsShell,
          IsConsole
<1>1. TypeOK'
  BY DEF Phase, Op
<1>2. EntriesLive' /\ Born'
  BY DEF EntriesLive, Born, HeldOut, Alive, Reachable, Phase
<1>3. HeldOut' /\ HeldWhileWaiting'
  BY DEF HeldOut, HeldWhileWaiting, EntriesLive, Reachable, Born
<1>4. NoOrphan'
  BY DEF NoOrphan, EntriesLive, Alive, Reachable, BeingClosed, GaveUp, Born
<1>5. Covered'
  BY DEF Covered, NoOrphan, EntriesLive, Alive, Reachable, BeingClosed,
         GaveUp, Born
<1> QED
  BY <1>1, <1>2, <1>3, <1>4, <1>5

LEMMA ShellLostInv ==
  ASSUME IInv, NEW s \in Sessions, ShellLost(s)
  PROVE  IInv'
<1> USE KeysAssumption, NoneAssumption DEF IInv, TypeOK, ShellLost, IsShell
<1>1. TypeOK'
  BY DEF Phase, Op
<1>2. EntriesLive' /\ Born'
  BY DEF EntriesLive, Born, HeldOut, Alive, Reachable, Phase
<1>3. HeldOut' /\ HeldWhileWaiting'
  BY DEF HeldOut, HeldWhileWaiting, EntriesLive, Reachable, Born
<1>4. NoOrphan'
  BY DEF NoOrphan, EntriesLive, Alive, Reachable, BeingClosed, GaveUp, Born
<1>5. Covered'
  BY DEF Covered, NoOrphan, EntriesLive, Alive, Reachable, BeingClosed,
         GaveUp, Born
<1> QED
  BY <1>1, <1>2, <1>3, <1>4, <1>5

LEMMA ShellRunFailsInv ==
  ASSUME IInv, NEW s \in Sessions, ShellRunFails(s)
  PROVE  IInv'
<1> USE KeysAssumption, NoneAssumption DEF IInv, TypeOK, ShellRunFails,
          NotifyClosed, Forget, IsShell
<1>1. TypeOK'
  BY DEF Phase, Op
<1>2. EntriesLive' /\ Born'
  BY DEF EntriesLive, Born, HeldOut, Alive, Reachable, Phase
<1>3. HeldOut' /\ HeldWhileWaiting'
  BY DEF HeldOut, HeldWhileWaiting, EntriesLive, Reachable, Born
<1>4. NoOrphan'
  BY DEF NoOrphan, EntriesLive, Alive, Reachable, BeingClosed, GaveUp, Born
<1>5. Covered'
  BY DEF Covered, NoOrphan, EntriesLive, Alive, Reachable, BeingClosed,
         GaveUp, Born
<1> QED
  BY <1>1, <1>2, <1>3, <1>4, <1>5

LEMMA ShellClosesInv ==
  ASSUME IInv, NEW s \in Sessions, ShellCloses(s)
  PROVE  IInv'
<1> USE KeysAssumption, NoneAssumption DEF IInv, TypeOK, ShellCloses,
          NotifyClosed, Forget, IsShell
<1>1. TypeOK'
  BY DEF Phase, Op
<1>2. EntriesLive' /\ Born'
  BY DEF EntriesLive, Born, HeldOut, Alive, Reachable, Phase
<1>3. HeldOut' /\ HeldWhileWaiting'
  BY DEF HeldOut, HeldWhileWaiting, EntriesLive, Reachable, Born
<1>4. NoOrphan'
  BY DEF NoOrphan, EntriesLive, Alive, Reachable, BeingClosed, GaveUp, Born
<1>5. Covered'
  BY DEF Covered, NoOrphan, EntriesLive, Alive, Reachable, BeingClosed,
         GaveUp, Born
<1> QED
  BY <1>1, <1>2, <1>3, <1>4, <1>5

LEMMA TakeInv ==
  ASSUME IInv, NEW c \in Callers, NEW k \in Keys, Take(c, k)
  PROVE  IInv'
<1> USE KeysAssumption, NoneAssumption DEF IInv, TypeOK, Take, Free, IsShell
<1>1. TypeOK'
  BY DEF Phase, Op
<1>2. EntriesLive' /\ Born'
  BY DEF EntriesLive, Born, HeldOut, Alive, Reachable, Phase
<1>3. HeldOut' /\ HeldWhileWaiting'
  BY DEF HeldOut, HeldWhileWaiting, EntriesLive, Reachable, Born
<1>4. \A t \in Sessions : BeingClosed(t) => BeingClosed(t)'
  BY DEF BeingClosed, HeldWhileWaiting
<1>5. \A t \in Sessions : Reachable(t) => (Reachable(t)' \/ BeingClosed(t)')
  BY DEF Reachable, BeingClosed
<1>6. NoOrphan'
  BY <1>4, <1>5 DEF NoOrphan, Alive, GaveUp
<1>7. Covered'
  BY <1>4 DEF Covered, Alive, GaveUp
<1> QED
  BY <1>1, <1>2, <1>3, <1>6, <1>7

LEMMA TakeSettlesInv ==
  ASSUME IInv, NEW c \in Callers, TakeSettles(c)
  PROVE  IInv'
<1> USE KeysAssumption, NoneAssumption DEF IInv, TypeOK, TakeSettles,
          CloseAll, Settled, IsShell
<1>1. TypeOK'
  BY DEF Phase, Op
<1>2. EntriesLive' /\ Born'
  BY DEF EntriesLive, Born, HeldOut, Alive, Reachable, Phase
<1>3. HeldOut' /\ HeldWhileWaiting'
  BY DEF HeldOut, HeldWhileWaiting, EntriesLive, Reachable, Born
<1>4. NoOrphan'
  BY DEF NoOrphan, EntriesLive, Alive, Reachable, BeingClosed, GaveUp, Born
<1>5. Covered'
  BY DEF Covered, NoOrphan, EntriesLive, Alive, Reachable, BeingClosed,
         GaveUp, Born
<1> QED
  BY <1>1, <1>2, <1>3, <1>4, <1>5

LEMMA DrainInv ==
  ASSUME IInv, NEW c \in Callers, Drain(c)
  PROVE  IInv'
<1> USE KeysAssumption, NoneAssumption DEF IInv, TypeOK, Drain, Free, IsShell
<1>1. TypeOK'
  BY DEF Phase, Op
<1>2. EntriesLive' /\ Born'
  BY DEF EntriesLive, Born, HeldOut, Alive, Reachable, Phase
<1>3. HeldOut' /\ HeldWhileWaiting'
  BY DEF HeldOut, HeldWhileWaiting, EntriesLive, Reachable, Born
<1>4. \A t \in Sessions : BeingClosed(t) => BeingClosed(t)'
  BY DEF BeingClosed, HeldWhileWaiting
<1>5. \A t \in Sessions : Reachable(t) => (Reachable(t)' \/ BeingClosed(t)')
  BY DEF Reachable, BeingClosed
<1>6. NoOrphan'
  BY <1>4, <1>5 DEF NoOrphan, Alive, GaveUp
<1>7. Covered'
  <2> SUFFICES ASSUME NEW d \in Callers,
                      op'[d] \in {"draining", "closing", "returned"},
                      NEW t \in before'[d]
               PROVE  /\ phase[t] # "unused"
                      /\ Alive(t) => (BeingClosed(t)' \/ GaveUp(t))
    BY DEF Covered, Alive, GaveUp
  <2>1. CASE d = c
    <3>1. t \in Sessions /\ Alive(t)
      BY <2>1
    <3> QED
      BY <3>1, <1>4, <1>5 DEF NoOrphan, Reachable, Keys, Alive
  <2>2. CASE d # c
    BY <2>2, <1>4 DEF Covered
  <2> QED
    BY <2>1, <2>2
<1> QED
  BY <1>1, <1>2, <1>3, <1>6, <1>7

LEMMA DrainSettlesInv ==
  ASSUME IInv, NEW c \in Callers, DrainSettles(c)
  PROVE  IInv'
<1> USE KeysAssumption, NoneAssumption DEF IInv, TypeOK, DrainSettles,
          CloseAll, Settled, IsShell
<1>1. TypeOK'
  BY DEF Phase, Op
<1>2. EntriesLive' /\ Born'
  BY DEF EntriesLive, Born, HeldOut, Alive, Reachable, Phase
<1>3. HeldOut' /\ HeldWhileWaiting'
  BY DEF HeldOut, HeldWhileWaiting, EntriesLive, Reachable, Born
<1>4. NoOrphan'
  BY DEF NoOrphan, EntriesLive, Alive, Reachable, BeingClosed, GaveUp, Born
<1>5. Covered'
  BY DEF Covered, NoOrphan, EntriesLive, Alive, Reachable, BeingClosed,
         GaveUp, Born
<1> QED
  BY <1>1, <1>2, <1>3, <1>4, <1>5

LEMMA CloseReturnsInv ==
  ASSUME IInv, NEW c \in Callers, CloseReturns(c)
  PROVE  IInv'
<1> USE KeysAssumption, NoneAssumption DEF IInv, TypeOK, CloseReturns, IsShell
<1>1. TypeOK'
  BY DEF Phase, Op
<1>2. EntriesLive' /\ Born'
  BY DEF EntriesLive, Born, HeldOut, Alive, Reachable, Phase
<1>3. HeldOut' /\ HeldWhileWaiting'
  BY DEF HeldOut, HeldWhileWaiting, EntriesLive, Reachable, Born
<1>4. NoOrphan'
  BY DEF NoOrphan, EntriesLive, Alive, Reachable, BeingClosed, GaveUp, Born
<1>5. Covered'
  BY DEF Covered, NoOrphan, EntriesLive, Alive, Reachable, BeingClosed,
         GaveUp, Born
<1> QED
  BY <1>1, <1>2, <1>3, <1>4, <1>5

-----------------------------------------------------------------------------
LEMMA NextInv == IInv /\ [Next]_vars => IInv'
<1> SUFFICES ASSUME IInv, [Next]_vars PROVE IInv'
  OBVIOUS
<1>1. CASE \E k \in Keys, s \in Sessions : Open(k, s)
  BY <1>1, OpenInv
<1>2. CASE \E s \in Sessions : SessionStep(s)
  BY <1>2, OpenSucceedsInv, OpenFailsInv, ConsoleClosesInv, ShellLostInv,
     ShellRunFailsInv, ShellClosesInv
     DEF SessionStep
<1>3. CASE \E c \in Callers : CallerStep(c)
  BY <1>3, TakeInv, TakeSettlesInv, DrainInv, DrainSettlesInv,
     CloseReturnsInv
     DEF CallerStep
<1>4. CASE UNCHANGED vars
  BY <1>4 DEF IInv, TypeOK, EntriesLive, Born, HeldOut, HeldWhileWaiting,
     NoOrphan, Covered, Alive, Reachable, BeingClosed, GaveUp, IsShell, vars
<1> QED
  BY <1>1, <1>2, <1>3, <1>4 DEF Next

LEMMA Invariance == Spec => []IInv
BY InitInv, NextInv, PTL DEF Spec

(***************************************************************************)
(* Type correctness of the stores and of every close call.                 *)
(***************************************************************************)
THEOREM TypeCorrect == Spec => []TypeOK
<1>1. IInv => TypeOK
  BY DEF IInv
<1> QED
  BY Invariance, <1>1, PTL

(***************************************************************************)
(* open() never offers a session that was closed or whose open failed.     *)
(***************************************************************************)
THEOREM OffersAreLive == Spec => []EntriesLive
<1>1. IInv => EntriesLive
  BY DEF IInv
<1> QED
  BY Invariance, <1>1, PTL

(***************************************************************************)
(* A connected session is in its store or in the hands of a close call,    *)
(* where close() can reach it, unless it is a shell that gave its entry up *)
(* on a command the transport did not carry.                               *)
(***************************************************************************)
THEOREM SessionsReachable == Spec => []NoOrphan
<1>1. IInv => NoOrphan
  BY DEF IInv
<1> QED
  BY Invariance, <1>1, PTL

(***************************************************************************)
(* When close() has returned, what was connected when it was called has    *)
(* been closed, or is in the hands of another close call, or gave up.      *)
(***************************************************************************)
THEOREM CloseComplete == Spec => []CloseIsComplete
<1>1. IInv => CloseIsComplete
  BY DEF IInv, Covered, CloseIsComplete, GaveUp
<1> QED
  BY Invariance, <1>1, PTL

(***************************************************************************)
(* No session is in two close calls' hands, nor on offer once in one.      *)
(***************************************************************************)
THEOREM SingleCloser == Spec => []OneCloser
<1>1. IInv => OneCloser
  BY DEF IInv, HeldOut, OneCloser
<1> QED
  BY Invariance, <1>1, PTL

-----------------------------------------------------------------------------
(* The stores implement ConsoleLife, step by step.                         *)

Owner == [k \in ConsoleKeys |-> entries[k]]
Condemned == {s \in Sessions : IsConsole(s) /\ Alive(s) /\ ~Reachable(s)}
Consoles == {s \in Sessions : IsConsole(s)}

\* What a step that touches no console is to ConsoleLife: nothing.
Stutters == Owner' = Owner /\ Condemned' = Condemned /\ Consoles' = Consoles

LEMMA StutterMaps == Stutters => UNCHANGED Life!vars
BY DEF Stutters, Life!vars, Owner, Condemned, Consoles

LEMMA InitMaps == Init => Life!Init
<1> SUFFICES ASSUME Init PROVE Life!Init
  OBVIOUS
<1>1. \A k \in ConsoleKeys : entries[k] = None
  BY DEF Init, Keys
<1>2. \A s \in Sessions : ~IsConsole(s)
  BY KeysAssumption DEF Init, IsConsole, Keys
<1> QED BY <1>1, <1>2 DEF Life!Init

LEMMA OpenMaps ==
  ASSUME IInv, NEW k \in Keys, NEW s \in Sessions, Open(k, s)
  PROVE  [Life!Next]_(Life!vars)
<1> USE KeysAssumption, NoneAssumption DEF IInv, TypeOK
<1>1. /\ entries[k] = None /\ keyOf[s] = None
      /\ entries' = [entries EXCEPT ![k] = s] /\ keyOf' = [keyOf EXCEPT ![s] = k]
      /\ phase' = [phase EXCEPT ![s] = "opening"]
  BY DEF Open, Born
<1>2. Condemned' = Condemned
  <2>1. ASSUME NEW t \in Sessions
        PROVE  (IsConsole(t) /\ Alive(t) /\ ~Reachable(t))'
                 <=> IsConsole(t) /\ Alive(t) /\ ~Reachable(t)
    <3>1. CASE t = s
      BY <1>1, <3>1 DEF IsConsole, Reachable, Keys
    <3>2. CASE t # s
      BY <1>1, <3>2 DEF IsConsole, Alive, Reachable
    <3> QED BY <3>1, <3>2
  <2> QED BY <2>1 DEF Condemned
<1>3. CASE k \in ConsoleKeys
  <2>1. Owner[k] = None /\ Owner' = [Owner EXCEPT ![k] = s]
    BY <1>1, <1>3 DEF Owner, Keys
  <2>2. s \notin Consoles /\ Consoles' = Consoles \cup {s}
    BY <1>1, <1>3 DEF Consoles, IsConsole, Keys
  <2>3. Life!Begin(k, s)
    BY <1>2, <2>1, <2>2 DEF Life!Begin, Owner, Condemned, Consoles
  <2> QED BY <1>3, <2>3 DEF Life!Next
<1>4. CASE k \in ShellKeys
  <2>1. Owner' = Owner
    BY <1>1, <1>4 DEF Owner, Keys
  <2>2. Consoles' = Consoles
    BY <1>1, <1>4 DEF Consoles, IsConsole, Keys
  <2> QED BY <1>2, <2>1, <2>2, StutterMaps DEF Stutters
<1> QED BY <1>3, <1>4 DEF Keys

\* A session that ends by itself or does not come up, forgotten by its own
\* entry if it has one.
LEMMA EndsMaps ==
  ASSUME IInv, NEW s \in Sessions, phase[s] \in {"opening", "open"},
         NEW next \in {"failed", "closed"},
         phase' = [phase EXCEPT ![s] = next], entries' = Forget(keyOf[s], s),
         keyOf' = keyOf
  PROVE  [Life!Next]_(Life!vars)
<1> USE KeysAssumption, NoneAssumption DEF IInv, TypeOK
<1>0. keyOf[s] \in Keys /\ Alive(s) /\ ~Alive(s)' /\ Consoles' = Consoles
  BY DEF Born, Alive, Consoles, IsConsole
<1>1. \A t \in Sessions \ {s} : Alive(t)' = Alive(t) /\ Reachable(t)' = Reachable(t)
  BY <1>0 DEF Alive, Reachable, Forget
<1>2. Condemned' = Condemned \ {s}
  BY <1>0, <1>1 DEF Condemned, IsConsole
<1>3. CASE IsConsole(s) /\ Reachable(s)
  <2>1. PICK k \in ConsoleKeys : k = keyOf[s]
    BY <1>3 DEF IsConsole
  <2>2. Owner[k] = s /\ Owner' = [Owner EXCEPT ![k] = None]
    BY <1>0, <1>3, <2>1 DEF Owner, Reachable, Forget, Keys
  <2>3. s \notin Condemned
    BY <1>3 DEF Condemned
  <2>4. Life!End(k)
    BY <1>0, <1>2, <2>2, <2>3 DEF Life!End, Owner, Condemned, Consoles
  <2> QED BY <2>4 DEF Life!Next
<1>4. CASE IsConsole(s) /\ ~Reachable(s)
  <2>1. s \in Condemned
    BY <1>0, <1>4 DEF Condemned
  <2>2. Owner' = Owner
    BY <1>0, <1>4 DEF Owner, Reachable, Forget
  <2>3. Life!Retire({s})
    BY <1>0, <1>2, <2>1, <2>2 DEF Life!Retire, Owner, Condemned, Consoles
  <2> QED BY <2>3 DEF Life!Next
<1>5. CASE ~IsConsole(s)
  <2>1. s \notin Condemned
    BY <1>5 DEF Condemned
  <2>2. Owner' = Owner
    BY <1>0, <1>5 DEF Owner, IsConsole, Forget, Keys
  <2> QED BY <1>0, <1>2, <2>1, <2>2, StutterMaps DEF Stutters
<1> QED BY <1>3, <1>4, <1>5

\* What happens to a shell is no concern of the consoles.
LEMMA ShellMaps ==
  ASSUME IInv, NEW s \in Sessions,
         OpenSucceeds(s) \/ ShellLost(s) \/ ShellRunFails(s) \/ ShellCloses(s)
  PROVE  [Life!Next]_(Life!vars)
<1> USE KeysAssumption, NoneAssumption DEF IInv, TypeOK
<1>1. CASE OpenSucceeds(s)
  <2>1. entries' = entries /\ keyOf' = keyOf /\ \A t \in Sessions : Alive(t)' = Alive(t)
    BY <1>1 DEF OpenSucceeds, Alive
  <2>2. Stutters
    BY <2>1 DEF Stutters, Owner, Condemned, Consoles, IsConsole, Reachable
  <2> QED BY <2>2, StutterMaps
<1>2. CASE ShellLost(s) \/ ShellRunFails(s) \/ ShellCloses(s)
  <2>1. /\ ~IsConsole(s) /\ keyOf[s] \in ShellKeys /\ keyOf' = keyOf
        /\ entries' \in {entries, Forget(keyOf[s], s)}
        /\ \A t \in Sessions \ {s} : Alive(t)' = Alive(t)
    BY <1>2 DEF ShellLost, ShellRunFails, ShellCloses, NotifyClosed, IsShell, IsConsole, Alive
  <2>2. \A k \in ConsoleKeys : entries'[k] = entries[k]
    BY <2>1 DEF Forget, Keys
  <2>3. \A t \in Sessions : IsConsole(t)' = IsConsole(t)
                            /\ (IsConsole(t) => t # s /\ Reachable(t)' = Reachable(t))
    BY <2>1, <2>2 DEF IsConsole, Reachable
  <2>4. Stutters
    BY <2>1, <2>2, <2>3 DEF Stutters, Owner, Condemned, Consoles
  <2> QED BY <2>4, StutterMaps
<1> QED BY <1>1, <1>2

\* A close call takes the entries of some keys.
LEMMA TakesMaps ==
  ASSUME IInv, NEW T \in SUBSET Keys, keyOf' = keyOf, phase' = phase,
         \A k \in T : entries[k] # None,
         \A k \in Keys : entries'[k] = IF k \in T THEN None ELSE entries[k]
  PROVE  [Life!Next]_(Life!vars)
<1> USE KeysAssumption, NoneAssumption DEF IInv, TypeOK
<1> DEFINE L == T \cap ConsoleKeys
<1>1. Consoles' = Consoles
  BY DEF Consoles, IsConsole
<1>2. /\ \A k \in L : Owner[k] # None
      /\ Owner' = [k \in ConsoleKeys |-> IF k \in L THEN None ELSE Owner[k]]
  BY DEF Owner, Keys
<1>3. Condemned' = Condemned \cup {Owner[k] : k \in L}
  <2>1. \A k \in L : /\ Owner[k] = entries[k] /\ entries[k] \in Sessions
                     /\ keyOf[entries[k]] = k /\ Alive(entries[k])
    BY DEF Owner, Keys, EntriesLive
  <2>2. \A t \in Sessions : Alive(t)' = Alive(t) /\ IsConsole(t)' = IsConsole(t)
    BY DEF Alive, IsConsole
  <2>3. ASSUME NEW t \in Sessions, IsConsole(t)
        PROVE  ~Reachable(t)' <=> ~Reachable(t) \/ t \in {Owner[k] : k \in L}
    <3>1. keyOf[t] \in ConsoleKeys /\ keyOf[t] \in Keys
      BY <2>3 DEF IsConsole, Keys
    <3>2. Reachable(t) <=> entries[keyOf[t]] = t
      BY <3>1 DEF Reachable
    <3>3. Reachable(t)' <=> entries'[keyOf[t]] = t
      BY <3>1 DEF Reachable
    <3>4. CASE keyOf[t] \in T
      BY <2>1, <3>1, <3>2, <3>3, <3>4
    <3>5. CASE keyOf[t] \notin T
      BY <2>1, <3>1, <3>2, <3>3, <3>5
    <3> QED BY <3>4, <3>5
  <2>4. {Owner[k] : k \in L} \subseteq {t \in Sessions : IsConsole(t) /\ Alive(t)}
    BY <2>1 DEF IsConsole
  <2> HIDE DEF L
  <2> QED BY <2>2, <2>3, <2>4 DEF Condemned
<1>4. Life!Condemn(L)
  BY <1>1, <1>2, <1>3 DEF Life!Condemn, Owner, Condemned, Consoles
<1> QED BY <1>4 DEF Life!Next

LEMMA TakeMaps ==
  ASSUME IInv, NEW c \in Callers, NEW k \in Keys, Take(c, k)
  PROVE  [Life!Next]_(Life!vars)
<1>1. \A j \in Keys : entries'[j] = IF j \in {k} THEN None ELSE entries[j]
  BY DEF Take, IInv, TypeOK
<1>2. entries[k] # None /\ keyOf' = keyOf /\ phase' = phase
  BY DEF Take
<1> QED BY <1>1, <1>2, TakesMaps

LEMMA DrainMaps ==
  ASSUME IInv, NEW c \in Callers, Drain(c)
  PROVE  [Life!Next]_(Life!vars)
<1> DEFINE T == {j \in Keys : entries[j] # None}
<1>1. \A j \in Keys : entries'[j] = IF j \in T THEN None ELSE entries[j]
  BY DEF Drain, IInv, TypeOK
<1>2. (\A j \in T : entries[j] # None) /\ keyOf' = keyOf /\ phase' = phase
  BY DEF Drain
<1> HIDE DEF T
<1>3. T \in SUBSET Keys
  BY DEF T
<1> QED BY <1>1, <1>2, <1>3, TakesMaps

\* Everything a caller holds is closed; what did not come up has ended before.
LEMMA ClosesMaps ==
  ASSUME IInv, NEW c \in Callers, CloseAll(held[c]), entries' = entries, keyOf' = keyOf
  PROVE  [Life!Next]_(Life!vars)
<1> USE KeysAssumption, NoneAssumption DEF IInv, TypeOK
<1> DEFINE S == held[c] \cap Condemned
<1>1. Owner' = Owner /\ Consoles' = Consoles
  BY DEF Owner, Consoles, IsConsole
<1>2. Condemned' = Condemned \ S
  <2>1. \A t \in Sessions : IsConsole(t)' = IsConsole(t) /\ Reachable(t)' = Reachable(t)
    BY DEF IsConsole, Reachable
  <2>2. \A t \in Sessions : Alive(t)' <=> Alive(t) /\ t \notin held[c]
    BY DEF CloseAll, Alive
  <2> QED BY <2>1, <2>2 DEF Condemned
<1>3. CASE S = {}
  BY <1>1, <1>2, <1>3, StutterMaps DEF Stutters
<1>4. CASE S # {}
  <2>1. Life!Retire(S)
    BY <1>1, <1>2, <1>4 DEF Life!Retire, Owner, Condemned, Consoles
  <2>2. S \in SUBSET Sessions
    BY DEF Condemned
  <2> QED BY <2>1, <2>2 DEF Life!Next
<1> QED BY <1>3, <1>4

LEMMA NextMaps == IInv /\ [Next]_vars => [Life!Next]_(Life!vars)
<1> SUFFICES ASSUME IInv, [Next]_vars PROVE [Life!Next]_(Life!vars)
  OBVIOUS
<1>1. CASE \E k \in Keys, s \in Sessions : Open(k, s)
  BY <1>1, OpenMaps
<1>2. ASSUME NEW s \in Sessions, SessionStep(s)
      PROVE  [Life!Next]_(Life!vars)
  <2>1. CASE OpenFails(s)
    BY <2>1, EndsMaps DEF OpenFails
  <2>2. CASE ConsoleCloses(s)
    BY <2>2, EndsMaps DEF ConsoleCloses
  <2> QED BY <1>2, <2>1, <2>2, ShellMaps DEF SessionStep
<1>3. ASSUME NEW c \in Callers, CallerStep(c)
      PROVE  [Life!Next]_(Life!vars)
  <2>1. CASE TakeSettles(c)
    BY <2>1, ClosesMaps DEF TakeSettles
  <2>2. CASE DrainSettles(c)
    BY <2>2, ClosesMaps DEF DrainSettles
  <2>3. CASE CloseReturns(c)
    <3>1. UNCHANGED <<entries, keyOf, phase>>
      BY <2>3 DEF CloseReturns
    <3> QED BY <3>1, StutterMaps
            DEF Stutters, Owner, Condemned, Consoles, IsConsole, Alive, Reachable
  <2> QED BY <1>3, <2>1, <2>2, <2>3, TakeMaps, DrainMaps DEF CallerStep
<1>4. CASE UNCHANGED vars
  <2>1. UNCHANGED <<entries, keyOf, phase>>
    BY <1>4 DEF vars
  <2> QED BY <2>1, StutterMaps
          DEF Stutters, Owner, Condemned, Consoles, IsConsole, Alive, Reachable
<1> QED BY <1>1, <1>2, <1>3, <1>4 DEF Next

(***************************************************************************)
(* The stores implement the life of a console that ConsoleLife states, for *)
(* every set of keys, sessions and callers: a console is offered under one *)
(* key from its opening on, at most one per key, until it ends or a close  *)
(* call condemns it, and a condemned one is never offered again.  That the *)
(* condemned ones end is the part with fairness, which TLC checks.         *)
(***************************************************************************)
THEOREM ConsolesRefine == Spec => Life!Safety
<1>1. Spec => []IInv
  BY Invariance
<1> QED BY <1>1, InitMaps, NextMaps, PTL DEF Spec, Life!Safety
=============================================================================
