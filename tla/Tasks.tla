-------------------------------- MODULE Tasks --------------------------------
(***************************************************************************)
(* A mutating guest call of the facade: PveGuestBase.retryOnLock           *)
(* (pve/guest.ts) posts it, waitForTask (core/tasks.ts) polls its worker   *)
(* until it stops, and the call is posted again while the worker fails on  *)
(* the guest's config lock.  Both waits are pollUntil (core/poll.ts), the  *)
(* outer one with a probe that is itself a whole wait.                     *)
(*                                                                         *)
(* Several callers contend for the lock of one guest.  The node's workers  *)
(* are external: they wait for the lock, fail without having done anything *)
(* when it is not free in time, or take it, do the work and stop.  Time is *)
(* counted in ticks; timers are punctual.  X_Something, commented "Wrong:",*)
(* is a mutant of X.                                                       *)
(***************************************************************************)
EXTENDS Naturals

CONSTANTS
  Callers,      \* guest calls on one guest
  LockRetry,    \* LOCK_RETRY_MS
  TaskTimeout,  \* timeoutMs of waitForTask
  FirstDelay,   \* initialDelayMs
  MaxDelay,     \* maxDelayMs
  Latency,      \* the HTTP timeout
  LockWait,     \* how long a worker waits for the config lock
  StartBy,      \* bound: calls begin until then
  MaxTime,      \* bound on the clock, later than any call can last
  MaxForeign,   \* bound: how often somebody else takes the lock
  Foreign, None

ASSUME TimeAssumption ==
  /\ LockRetry \in Nat /\ TaskTimeout \in Nat /\ Latency \in Nat /\ LockWait \in Nat
  /\ FirstDelay \in Nat \ {0} /\ MaxDelay \in Nat /\ FirstDelay <= MaxDelay
  /\ StartBy \in Nat /\ MaxForeign \in Nat
  /\ MaxTime \in Nat
  /\ MaxTime > StartBy + LockRetry + TaskTimeout + 5 * Latency

VARIABLES
  now,       \* Date.now()
  pc,        \* pc[c]: what the call waits for, or how it settled
  began,     \* began[c]: when the request under way was sent
  reply,     \* reply[c]: the answer to it that is under way to the client
  call,      \* call[c]: the locals of the call, see Call
  posts,     \* posts[c]: how many workers the call has started
  task,      \* task[c][i]: the state of its i-th worker
  since,     \* since[c]: when its last worker began to wait for the lock
  effects,   \* effects[c]: how often the operation was carried out
  lock,      \* who holds the guest's config lock: a worker <<c, i>>, Foreign
  foreign    \* how often Foreign took it

request == <<began, reply>>
node == <<posts, task, since, effects, lock, foreign>>
vars == <<now, pc, request, call, node>>

\* No more attempts than ticks in the window, and the first.
Attempts == 1..(LockRetry + 1)
Workers == Callers \X Attempts

ASSUME HolderAssumption == Foreign \notin Workers /\ None \notin Workers

InFlight == {"posting", "status", "log"}
Asleep == {"sleep", "again"}
Over == {"ok", "locked", "timeout", "error", "failed"}
Stopped == {"ok", "locked", "error"}

\* What a call keeps across its awaits: the deadline and the delay of
\* retryOnLock's poll and of waitForTask's, when the sleep of either ends, and
\* the failure waitForTask is about to throw.
Call == [window : Nat, backoff : Nat, deadline : Nat, delay : Nat, wake : Nat,
         verdict : {"none"} \cup (Stopped \ {"ok"})]
NoCall == [window |-> 0, backoff |-> FirstDelay, deadline |-> 0,
           delay |-> FirstDelay, wake |-> 0, verdict |-> "none"]

Least(a, b) == IF a < b THEN a ELSE b

Init ==
  /\ now = 0
  /\ pc = [c \in Callers |-> "new"]
  /\ began = [c \in Callers |-> 0]
  /\ reply = [c \in Callers |-> "none"]
  /\ call = [c \in Callers |-> NoCall]
  /\ posts = [c \in Callers |-> 0]
  /\ task = [c \in Callers |-> [i \in Attempts |-> "none"]]
  /\ since = [c \in Callers |-> 0]
  /\ effects = [c \in Callers |-> 0]
  /\ lock = None
  /\ foreign = 0

-----------------------------------------------------------------------------
(* pollUntil: what the loop does after a probe that was not final.         *)

\* Wrong: the sleep is not cut off at the deadline.
PollSleep_Uncut(d, until) == Least(d, MaxDelay)

\* Math.min(delay, maxDelayMs, Math.max(deadline - Date.now(), 0))
PollSleep(d, until) == Least(Least(d, MaxDelay), until - now)

NextDelay(d) == Least(2 * d, MaxDelay)

Ask(c, what) ==
  /\ pc' = [pc EXCEPT ![c] = what]
  /\ began' = [began EXCEPT ![c] = now]
  /\ reply' = [reply EXCEPT ![c] = "none"]

\* No request is under way.
Rest(c, where) ==
  /\ pc' = [pc EXCEPT ![c] = where]
  /\ began' = [began EXCEPT ![c] = 0]
  /\ reply' = [reply EXCEPT ![c] = "none"]

\* The call settles and its locals are gone.
Settle(c, outcome) ==
  /\ Rest(c, outcome)
  /\ call' = [call EXCEPT ![c] = NoCall]

-----------------------------------------------------------------------------
(* retryOnLock and waitForTask.                                            *)

\* The window opens, and the first attempt is posted.
Begin(c) ==
  /\ pc[c] = "new" /\ now <= StartBy
  /\ call' = [call EXCEPT ![c].window = now + LockRetry]
  /\ Ask(c, "posting")
  /\ UNCHANGED <<now, node>>

\* The POST answers with a UPID: waitForTask begins with a status request.
PostReturns(c) ==
  /\ pc[c] = "posting" /\ reply[c] # "none"
  /\ call' = [call EXCEPT ![c].deadline = now + TaskTimeout, ![c].delay = FirstDelay]
  /\ Ask(c, "status")
  /\ UNCHANGED <<now, node>>

\* The probe was not final: sleep, and double the delay.
SleepOn(c) ==
  /\ call' = [call EXCEPT ![c].wake = now + PollSleep(call[c].delay, call[c].deadline),
                          ![c].delay = NextDelay(@)]
  /\ Rest(c, "sleep")

\* The worker failed: read its log, then throw.
FailWith(c, verdict) ==
  /\ call' = [call EXCEPT ![c].verdict = verdict]
  /\ Ask(c, "log")

\* Wrong: a wait that timed out counts as a lock timeout.
StatusReturns_RetriesTimeout(c) ==
  /\ pc[c] = "status" /\ reply[c] # "none"
  /\ IF reply[c] \notin Stopped
     THEN IF now >= call[c].deadline THEN FailWith(c, "locked") ELSE SleepOn(c)
     ELSE IF reply[c] = "ok" THEN Settle(c, "ok") ELSE FailWith(c, reply[c])
  /\ UNCHANGED <<now, node>>

\* Wrong: the deadline is never looked at.
StatusReturns_Forever(c) ==
  /\ pc[c] = "status" /\ reply[c] # "none"
  /\ IF reply[c] \notin Stopped
     THEN /\ call' = [call EXCEPT ![c].wake = now + 1]
          /\ Rest(c, "sleep")
     ELSE IF reply[c] = "ok" THEN Settle(c, "ok") ELSE FailWith(c, reply[c])
  /\ UNCHANGED <<now, node>>

\* The status answers.  A worker still running is asked about again later, or
\* given up on; one that stopped badly has its log read for the error.
StatusReturns(c) ==
  /\ pc[c] = "status" /\ reply[c] # "none"
  /\ IF reply[c] \notin Stopped
     THEN IF now >= call[c].deadline THEN Settle(c, "timeout") ELSE SleepOn(c)
     ELSE IF reply[c] = "ok" THEN Settle(c, "ok") ELSE FailWith(c, reply[c])
  /\ UNCHANGED <<now, node>>

\* The attempt lost the lock: sleep, and double the backoff.
BackOff(c) ==
  /\ call' = [call EXCEPT ![c] =
       [NoCall EXCEPT !.window = call[c].window,
                      !.wake = now + PollSleep(call[c].backoff, call[c].window),
                      !.backoff = NextDelay(call[c].backoff)]]
  /\ Rest(c, "again")

\* Wrong: every failed task is posted again.
LogReturns_RetriesAll(c) ==
  /\ pc[c] = "log"
  /\ IF now < call[c].window THEN BackOff(c) ELSE Settle(c, call[c].verdict)
  /\ UNCHANGED <<now, node>>

\* The log arrives or its request fails, which is ignored, and the error is
\* thrown.  A lock timeout is the answer of retryOnLock's probe, not final
\* before the window closes; any other error ends the call.
LogReturns(c) ==
  /\ pc[c] = "log"
  /\ IF call[c].verdict = "locked" /\ now < call[c].window
     THEN BackOff(c)
     ELSE Settle(c, call[c].verdict)
  /\ UNCHANGED <<now, node>>

\* sleep() resolves: the next probe, of the worker or of the whole call.
Wake(c) ==
  /\ pc[c] \in Asleep /\ now >= call[c].wake
  /\ Ask(c, IF pc[c] = "sleep" THEN "status" ELSE "posting")
  /\ call' = [call EXCEPT ![c].wake = 0]
  /\ UNCHANGED <<now, node>>

\* A request of the call fails, refused or lost: the error goes to the caller.
RequestFails(c) ==
  /\ pc[c] \in {"posting", "status"}
  /\ Settle(c, "failed")
  /\ UNCHANGED <<now, node>>

-----------------------------------------------------------------------------
(* The node: external.                                                     *)

Current(c) == task[c][posts[c]]

\* The node starts a worker and answers with its UPID.
NodePosts(c) ==
  /\ pc[c] = "posting" /\ reply[c] = "none"
  /\ posts' = [posts EXCEPT ![c] = @ + 1]
  /\ task' = [task EXCEPT ![c][posts[c] + 1] = "queued"]
  /\ since' = [since EXCEPT ![c] = now]
  /\ reply' = [reply EXCEPT ![c] = "upid"]
  /\ UNCHANGED <<now, pc, began, call, effects, lock, foreign>>

NodeStatus(c) ==
  /\ pc[c] = "status" /\ reply[c] = "none"
  /\ reply' = [reply EXCEPT ![c] = Current(c)]
  /\ UNCHANGED <<now, pc, began, call, node>>

WorkerLocks(w) ==
  /\ task[w[1]][w[2]] = "queued" /\ lock = None
  /\ lock' = w
  /\ task' = [task EXCEPT ![w[1]][w[2]] = "working"]
  /\ since' = [since EXCEPT ![w[1]] = 0]
  /\ UNCHANGED <<now, pc, request, call, posts, effects, foreign>>

\* can't lock file ... got timeout
WorkerGivesUp(w) ==
  /\ task[w[1]][w[2]] = "queued" /\ now >= since[w[1]] + LockWait
  /\ task' = [task EXCEPT ![w[1]][w[2]] = "locked"]
  /\ since' = [since EXCEPT ![w[1]] = 0]
  /\ UNCHANGED <<now, pc, request, call, posts, effects, lock, foreign>>

\* The work is done, "error": any exit status but a lock timeout, or none at all.
WorkerStops(w) ==
  /\ lock = w
  /\ lock' = None
  /\ \E exit \in {"ok", "error"} :
       /\ task' = [task EXCEPT ![w[1]][w[2]] = exit]
       /\ effects' = [effects EXCEPT ![w[1]] = @ + 1]
  /\ UNCHANGED <<now, pc, request, call, posts, since, foreign>>

\* qm cleanup, a rollback that loads its RAM, another user.
ForeignLocks ==
  /\ lock = None /\ foreign < MaxForeign
  /\ lock' = Foreign /\ foreign' = foreign + 1
  /\ UNCHANGED <<now, pc, request, call, posts, task, since, effects>>

ForeignUnlocks ==
  /\ lock = Foreign
  /\ lock' = None
  /\ UNCHANGED <<now, pc, request, call, posts, task, since, effects, foreign>>

\* No request outlives the HTTP timeout, no timer is late, no worker waits for
\* the lock longer than it may.  The clock stops once nobody waits.
Tick ==
  /\ now < MaxTime /\ \E c \in Callers : pc[c] \in InFlight \cup Asleep
  /\ \A c \in Callers :
       /\ pc[c] \in InFlight => now < began[c] + Latency
       /\ pc[c] \in Asleep => now < call[c].wake
       /\ posts[c] > 0 /\ Current(c) = "queued" => now < since[c] + LockWait
  /\ now' = now + 1
  /\ UNCHANGED <<pc, request, call, node>>

-----------------------------------------------------------------------------
CallStep(c) ==
  PostReturns(c) \/ StatusReturns(c) \/ LogReturns(c) \/ Wake(c) \/ RequestFails(c)

WorkerStep(w) == WorkerLocks(w) \/ WorkerGivesUp(w) \/ WorkerStops(w)

Next ==
  \/ \E c \in Callers : Begin(c) \/ CallStep(c) \/ NodePosts(c) \/ NodeStatus(c)
  \/ \E w \in Workers : WorkerStep(w)
  \/ ForeignLocks \/ ForeignUnlocks \/ Tick

\* Time passes; a request that is answered or timed out, and a timer that
\* fired, run on.  A worker that holds the lock may never stop.
Fairness ==
  /\ WF_vars(Tick)
  /\ \A c \in Callers : WF_vars(CallStep(c))
  /\ \A w \in Workers : WF_vars(WorkerGivesUp(w))

Spec == Init /\ [][Next]_vars
FairSpec == Spec /\ Fairness

-----------------------------------------------------------------------------
(* Properties.                                                             *)

\* Type invariant.  Attempts bounds the workers of a call, and a backoff ends in
\* the call's window ("posting again for up to 45 s").
TypeOK ==
  /\ now \in 0..MaxTime
  /\ pc \in [Callers -> {"new"} \cup InFlight \cup Asleep \cup Over]
  /\ began \in [Callers -> 0..MaxTime]
  /\ reply \in [Callers -> {"none", "upid", "queued", "working"} \cup Stopped]
  /\ call \in [Callers -> Call]
  /\ \A c \in Callers : {call[c].backoff, call[c].delay} \subseteq FirstDelay..MaxDelay
  /\ \A c \in Callers : pc[c] = "again" => call[c].wake <= call[c].window
  /\ posts \in [Callers -> 0..(LockRetry + 1)]
  /\ task \in [Callers -> [Attempts -> {"none", "queued", "working"} \cup Stopped]]
  /\ since \in [Callers -> Nat] /\ effects \in [Callers -> Nat]
  /\ lock \in Workers \cup {Foreign, None}
  /\ foreign \in 0..MaxForeign

\* However often a call is posted again, its operation is carried out at most
\* once: only an attempt that did nothing is repeated.
CarriedOutOnce == \A c \in Callers : effects[c] <= 1

\* The outcome tells the truth: success means the operation was carried out,
\* a lock error that it never was and that no worker of the call is left that
\* might still do it.
OutcomeIsTrue ==
  \A c \in Callers :
    /\ pc[c] = "ok" => effects[c] = 1
    /\ pc[c] = "locked" => /\ effects[c] = 0
                           /\ \A i \in Attempts : task[c][i] \in {"none", "locked"}

\* Every call settles, whatever the workers and whoever holds the lock.
EveryCallSettles == \A c \in Callers : pc[c] = "posting" ~> pc[c] \in Over
=============================================================================
