------------------------------ MODULE Sessions ------------------------------
(***************************************************************************)
(* The sessions a PveCluster holds: one SessionStore of node shells keyed  *)
(* by node name, and two of consoles (VNC and serial) keyed by vmid        *)
(* (pve/cluster.ts), together with the part of NodeShell that decides when *)
(* a shell drops its own entry (shell/node-shell.ts).                      *)
(*                                                                         *)
(* Everything runs on one event loop, so an action is one uninterrupted    *)
(* piece of JavaScript: from a call or a callback to its next await.  What *)
(* interleaves are the callers of open, of closeX(key) and of close(), the *)
(* promises they wait on, and the sockets that die underneath.             *)
(*                                                                         *)
(* A definition named X_Something and commented "Wrong:" is a mutant of X, *)
(* a bug the properties below must catch.  Nothing in the specification    *)
(* uses it.                                                                *)
(***************************************************************************)
EXTENDS Naturals, FiniteSets

CONSTANTS
  ShellKeys,    \* node names: the keys of PveCluster.shells
  ConsoleKeys,  \* the keys of vncSessions and of serialConsoles, kept apart
  Sessions,     \* session objects, each with the promise open() stores for it
  Callers,      \* callers of closeNodeShell, closeVncSession,
                \* closeSerialConsole and close
  None          \* what a Map answers for a key it does not hold

Keys == ShellKeys \cup ConsoleKeys

ASSUME KeysAssumption == ShellKeys \cap ConsoleKeys = {} /\ None \notin Keys
ASSUME NoneAssumption == None \notin Sessions

VARIABLES
  entries,   \* entries[k]: the session whose promise the store holds under k
  keyOf,     \* keyOf[s]: the key the closure of s's forget() captured
  phase,     \* phase[s]: how far the session is in its life, see Phase
  notified,  \* notified[s]: NodeShell.closed, set by notifyClosed()
  op,        \* op[c]: where caller c stands in the close call it made
  held,      \* held[c]: sessions c took out of the stores and waits for
  before,    \* before[c]: sessions connected when c called close() (history)
  client     \* whether PveClient.close() has run

vars == <<entries, keyOf, phase, notified, op, held, before, client>>

(***************************************************************************)
(* "opening": the promise is pending, the handshake may hold a connection. *)
(* "open":    the promise is fulfilled and a connection is held.           *)
(* "lost":    the transport of a shell died and nobody has noticed yet.    *)
(* "closed":  fulfilled, and the connection was given up.                  *)
(* "failed":  the promise was rejected; connect() gave the socket up.      *)
(***************************************************************************)
Phase == {"unused", "opening", "open", "lost", "closed", "failed"}
Op == {"idle", "taking", "draining", "closing", "returned"}

\* The session holds, or is acquiring, a connection to the node.
Alive(s) == phase[s] \in {"opening", "open"}
Settled(s) == phase[s] \notin {"unused", "opening"}
IsShell(s) == keyOf[s] \in ShellKeys
IsConsole(s) == keyOf[s] \in ConsoleKeys

Init ==
  /\ entries = [k \in Keys |-> None]
  /\ keyOf = [s \in Sessions |-> None]
  /\ phase = [s \in Sessions |-> "unused"]
  /\ notified = [s \in Sessions |-> FALSE]
  /\ op = [c \in Callers |-> "idle"]
  /\ held = [c \in Callers |-> {}]
  /\ before = [c \in Callers |-> {}]
  /\ client = "up"

-----------------------------------------------------------------------------
(* SessionStore.open and what start() runs.                                *)

\* Wrong: forget() without the identity check on the promise.
Forget_Unchecked(k, s) == [entries EXCEPT ![k] = None]

\* The entry after forget(): only the session that owns the entry removes it.
Forget(k, s) ==
  IF entries[k] = s THEN [entries EXCEPT ![k] = None] ELSE entries

\* Wrong: open() never looks for an existing entry.
Open_Always(k, s) ==
  /\ phase[s] = "unused"
  /\ entries' = [entries EXCEPT ![k] = s]
  /\ keyOf' = [keyOf EXCEPT ![s] = k]
  /\ phase' = [phase EXCEPT ![s] = "opening"]
  /\ UNCHANGED <<notified, op, held, before, client>>

\* open() with no entry starts a session and stores its promise.  With an
\* entry it returns that promise and changes nothing, so it has no action.
Open(k, s) ==
  /\ entries[k] = None
  /\ phase[s] = "unused"
  /\ entries' = [entries EXCEPT ![k] = s]
  /\ keyOf' = [keyOf EXCEPT ![s] = k]
  /\ phase' = [phase EXCEPT ![s] = "opening"]
  /\ UNCHANGED <<notified, op, held, before, client>>

OpenSucceeds(s) ==
  /\ phase[s] = "opening"
  /\ phase' = [phase EXCEPT ![s] = "open"]
  /\ UNCHANGED <<entries, keyOf, notified, op, held, before, client>>

\* Wrong: a failed open keeps its entry.
OpenFails_Kept(s) ==
  /\ phase[s] = "opening"
  /\ phase' = [phase EXCEPT ![s] = "failed"]
  /\ UNCHANGED <<entries, keyOf, notified, op, held, before, client>>

\* A rejected start: the catch in open() forgets the entry and rethrows.
OpenFails(s) ==
  /\ phase[s] = "opening"
  /\ phase' = [phase EXCEPT ![s] = "failed"]
  /\ entries' = Forget(keyOf[s], s)
  /\ UNCHANGED <<keyOf, notified, op, held, before, client>>

-----------------------------------------------------------------------------
(* A session that ends underneath the store.                               *)

\* A console emits 'close' whenever it is torn down, by its socket or by a
\* holder's own close(); the listener is the store's forget.
ConsoleCloses(s) ==
  /\ IsConsole(s)
  /\ phase[s] = "open"
  /\ phase' = [phase EXCEPT ![s] = "closed"]
  /\ entries' = Forget(keyOf[s], s)
  /\ UNCHANGED <<keyOf, notified, op, held, before, client>>

\* A shell's transport dies between two commands; NodeShell hears nothing.
ShellLost(s) ==
  /\ IsShell(s)
  /\ phase[s] = "open"
  /\ phase' = [phase EXCEPT ![s] = "lost"]
  /\ UNCHANGED <<entries, keyOf, notified, op, held, before, client>>

\* NodeShell.notifyClosed: once, and the listener is the store's forget.
NotifyClosed(s) ==
  /\ notified' = [notified EXCEPT ![s] = TRUE]
  /\ entries' = IF notified[s] THEN entries ELSE Forget(keyOf[s], s)

\* NodeShell.run rethrows a PveShellTransportError after notifyClosed().  The
\* transport throws it when it is dead, and also when it is alive and the
\* wrapped command is longer than the pty takes.
ShellRunFails(s) ==
  /\ IsShell(s)
  /\ phase[s] \in {"open", "lost"}
  /\ NotifyClosed(s)
  /\ UNCHANGED <<keyOf, phase, op, held, before, client>>

\* NodeShell.close by whoever holds the shell.
ShellCloses(s) ==
  /\ IsShell(s)
  /\ phase[s] \in {"open", "lost"}
  /\ NotifyClosed(s)
  /\ phase' = [phase EXCEPT ![s] = "closed"]
  /\ UNCHANGED <<keyOf, op, held, before, client>>

-----------------------------------------------------------------------------
(* closeNodeShell, closeVncSession, closeSerialConsole: take one entry.    *)

Free(c) == op[c] \in {"idle", "returned"}

\* Wrong: take() does not return early when there is no entry.
Take_Unchecked(c, k) ==
  /\ Free(c)
  /\ op' = [op EXCEPT ![c] = "taking"]
  /\ held' = [held EXCEPT ![c] = {entries[k]}]
  /\ entries' = [entries EXCEPT ![k] = None]
  /\ before' = [before EXCEPT ![c] = {}]
  /\ UNCHANGED <<keyOf, phase, notified, client>>

\* take(): the entry goes at once, the session follows when it has settled.
Take(c, k) ==
  /\ Free(c)
  /\ entries[k] # None
  /\ op' = [op EXCEPT ![c] = "taking"]
  /\ held' = [held EXCEPT ![c] = {entries[k]}]
  /\ entries' = [entries EXCEPT ![k] = None]
  /\ before' = [before EXCEPT ![c] = {}]
  /\ UNCHANGED <<keyOf, phase, notified, client>>

\* Wrong: close() forgets to close the shells it drained.
CloseAll_ConsolesOnly(S) ==
  /\ phase' = [s \in Sessions |->
       IF s \in S /\ phase[s] # "failed" /\ IsConsole(s)
       THEN "closed" ELSE phase[s]]
  /\ UNCHANGED notified

\* The phases and flags once close() was called on every session of S that
\* opened; one whose open failed is skipped.
CloseAll(S) ==
  /\ phase' = [s \in Sessions |->
       IF s \in S /\ phase[s] # "failed" THEN "closed" ELSE phase[s]]
  /\ notified' = [s \in Sessions |->
       notified[s] \/ (s \in S /\ phase[s] # "failed" /\ IsShell(s))]

TakeSettles(c) ==
  /\ op[c] = "taking"
  /\ \A s \in held[c] : Settled(s)
  /\ CloseAll(held[c])
  /\ op' = [op EXCEPT ![c] = "idle"]
  /\ held' = [held EXCEPT ![c] = {}]
  /\ UNCHANGED <<entries, keyOf, before, client>>

-----------------------------------------------------------------------------
(* PveCluster.close: drain the three stores, close, release the client.    *)

\* Wrong: drain() does not clear the store.
Drain_Uncleared(c) ==
  /\ Free(c)
  /\ op' = [op EXCEPT ![c] = "draining"]
  /\ held' = [held EXCEPT ![c] = {entries[k] : k \in Keys} \ {None}]
  /\ before' = [before EXCEPT ![c] = {s \in Sessions : Alive(s)}]
  /\ UNCHANGED <<entries, keyOf, phase, notified, client>>

\* Wrong: close() drains the two console stores and only clears the shells.
Drain_NoShells(c) ==
  /\ Free(c)
  /\ op' = [op EXCEPT ![c] = "draining"]
  /\ held' = [held EXCEPT ![c] = {entries[k] : k \in ConsoleKeys} \ {None}]
  /\ entries' = [k \in Keys |-> None]
  /\ before' = [before EXCEPT ![c] = {s \in Sessions : Alive(s)}]
  /\ UNCHANGED <<keyOf, phase, notified, client>>

Drain(c) ==
  /\ Free(c)
  /\ op' = [op EXCEPT ![c] = "draining"]
  /\ held' = [held EXCEPT ![c] = {entries[k] : k \in Keys} \ {None}]
  /\ entries' = [k \in Keys |-> None]
  /\ before' = [before EXCEPT ![c] = {s \in Sessions : Alive(s)}]
  /\ UNCHANGED <<keyOf, phase, notified, client>>

\* Wrong: drain() waits for every open to succeed, not to settle.
DrainSettles_AllOpen(c) ==
  /\ op[c] = "draining"
  /\ \A s \in held[c] : phase[s] \in {"open", "lost", "closed"}
  /\ CloseAll(held[c])
  /\ op' = [op EXCEPT ![c] = "closing"]
  /\ held' = [held EXCEPT ![c] = {}]
  /\ UNCHANGED <<entries, keyOf, before, client>>

\* Promise.all over the three drains: nothing is closed before every drained
\* open has settled, then everything is.
DrainSettles(c) ==
  /\ op[c] = "draining"
  /\ \A s \in held[c] : Settled(s)
  /\ CloseAll(held[c])
  /\ op' = [op EXCEPT ![c] = "closing"]
  /\ held' = [held EXCEPT ![c] = {}]
  /\ UNCHANGED <<entries, keyOf, before, client>>

\* The shells' close() promises have settled and client.close() runs.
CloseReturns(c) ==
  /\ op[c] = "closing"
  /\ op' = [op EXCEPT ![c] = "returned"]
  /\ client' = "released"
  /\ UNCHANGED <<entries, keyOf, phase, notified, held, before>>

-----------------------------------------------------------------------------
SessionStep(s) ==
  \/ OpenSucceeds(s)
  \/ OpenFails(s)
  \/ ConsoleCloses(s)
  \/ ShellLost(s)
  \/ ShellRunFails(s)
  \/ ShellCloses(s)

CallerStep(c) ==
  \/ \E k \in Keys : Take(c, k)
  \/ TakeSettles(c)
  \/ Drain(c)
  \/ DrainSettles(c)
  \/ CloseReturns(c)

Next ==
  \/ \E k \in Keys, s \in Sessions : Open(k, s)
  \/ \E s \in Sessions : SessionStep(s)
  \/ \E c \in Callers : CallerStep(c)

\* Every handshake runs under a timeout, and a settled promise runs its
\* continuation; nobody is obliged to open, to close or to lose a session.
Fairness ==
  /\ \A s \in Sessions : WF_vars(OpenSucceeds(s) \/ OpenFails(s))
  /\ \A c \in Callers :
       WF_vars(TakeSettles(c) \/ DrainSettles(c) \/ CloseReturns(c))

Spec == Init /\ [][Next]_vars
FairSpec == Spec /\ Fairness
-----------------------------------------------------------------------------
(* Properties.                                                             *)

\* Type invariant of every variable above.
TypeOK ==
  /\ entries \in [Keys -> Sessions \cup {None}]
  /\ keyOf \in [Sessions -> Keys \cup {None}]
  /\ phase \in [Sessions -> Phase]
  /\ notified \in [Sessions -> BOOLEAN]
  /\ op \in [Callers -> Op]
  /\ held \in [Callers -> SUBSET Sessions]
  /\ before \in [Callers -> SUBSET Sessions]
  /\ client \in {"up", "released"}

\* What open() hands to a second caller is never a session somebody closed or
\* one whose open failed: an entry is of its own key and still opening or open
\* (a shell may have lost its transport, which only a command finds out).
EntriesLive ==
  \A k \in Keys : entries[k] # None =>
    /\ keyOf[entries[k]] = k
    /\ Alive(entries[k]) \/ (phase[entries[k]] = "lost" /\ k \in ShellKeys)
    /\ ~notified[entries[k]]

Reachable(s) == keyOf[s] # None /\ entries[keyOf[s]] = s
BeingClosed(s) == \E c \in Callers : s \in held[c]

\* A shell that gave its own entry up, for a command that was not carried.
GaveUp(s) == IsShell(s) /\ notified[s]

\* No session is ever out of everybody's reach: one that holds a connection is
\* in its store, where close() finds it, or in the hands of a close call that
\* is waiting for it.  A late 'close' of an old session, a failed open and a
\* close call during an open must all leave this true.  Only a shell that gave
\* its entry up is forgotten on purpose.
NoOrphan ==
  \A s \in Sessions : Alive(s) => (Reachable(s) \/ BeingClosed(s) \/ GaveUp(s))

\* When close() has returned, every session that was connected when it was
\* called has let go, or another close call took it first and still waits for
\* its handshake, or it is a shell that dropped its entry earlier.
CloseIsComplete ==
  \A c \in Callers : op[c] = "returned" =>
    \A s \in before[c] :
      Alive(s) => (BeingClosed(s) \/ (IsShell(s) /\ notified[s]))

\* Two close calls never both hold a session, so nothing is closed twice by
\* the cluster, and a session somebody is closing is no longer on offer.
OneCloser ==
  \A c \in Callers : \A s \in held[c] :
    /\ ~Reachable(s)
    /\ \A d \in Callers : s \in held[d] => d = c

\* Whatever close calls took is closed in the end, and close() returns: no
\* handshake and no other caller can hold it up for ever.
CloseTerminates ==
  \A c \in Callers :
    (op[c] \in {"taking", "draining", "closing"}) ~> Free(c)

\* The stores implement the life of a console as ConsoleLife states it.
Life == INSTANCE ConsoleLife WITH
  owner <- [k \in ConsoleKeys |-> entries[k]],
  condemned <- {s \in Sessions : IsConsole(s) /\ Alive(s) /\ ~Reachable(s)},
  born <- {s \in Sessions : IsConsole(s)}

\* Refinement, liveness included: a console a close call took is given up in
\* the end, whatever the other callers do.
ImplementsConsoleLife == Life!Spec

\* What the documentation says of close(): "Closes every VNC session, serial
\* console and node shell this cluster opened" (pve/cluster.ts).
CloseClosesEverySession ==
  \A c \in Callers : op[c] = "returned" =>
    \A s \in before[c] : ~Alive(s)
=============================================================================
