----------------------------- MODULE GuestProofs -----------------------------
(* Theorems about what a caller does with a guest.  Of Tasks, for any       *)
(* callers, delays and timeouts: a call is posted a bounded number of       *)
(* times, its operation is carried out at most once, and its outcome is     *)
(* true.  Of Updates, for any formats, stored texts and changes: a bag      *)
(* holds sub-keys under their own names, what is written reads back in any  *)
(* order, and the call goes out with the credential it needs.               *)
EXTENDS Tasks, Updates, FiniteSetTheorems, WellFoundedInduction, TLAPS

(***************************************************************************)
(* Tasks.                                                                  *)
(***************************************************************************)
States == {"queued", "working"} \cup Stopped

Typed ==
  /\ now \in 0..MaxTime
  /\ pc \in [Callers -> {"new"} \cup InFlight \cup Asleep \cup Over]
  /\ began \in [Callers -> 0..MaxTime]
  /\ reply \in [Callers -> {"none", "upid"} \cup States]
  /\ call \in [Callers -> Call]
  /\ \A c \in Callers : /\ call[c].backoff \in FirstDelay..MaxDelay
                        /\ call[c].delay \in FirstDelay..MaxDelay
                        /\ began[c] <= now
  /\ posts \in [Callers -> Nat]
  /\ task \in [Callers -> [Attempts -> {"none"} \cup States]]
  /\ since \in [Callers -> Nat] /\ effects \in [Callers -> Nat]
  /\ lock \in Workers \cup {Foreign, None}
  /\ foreign \in 0..MaxForeign

(* A worker that holds the lock is at work.                                *)
HolderWorks == lock \in Workers => task[lock[1]][lock[2]] = "working"

(* The workers of a call before its last one lost the lock and did nothing;*)
(* the last one did the work if it stopped in any other way.               *)
Counted(c) ==
  /\ \A i \in Attempts : /\ i < posts[c] => task[c][i] = "locked"
                         /\ i = posts[c] => task[c][i] # "none"
                         /\ i > posts[c] => task[c][i] = "none"
  /\ posts[c] = 0 => effects[c] = 0
  /\ posts[c] > 0 => effects[c] = IF Current(c) \in {"ok", "error"} THEN 1 ELSE 0

(* What a call was told of its last worker is still so: it posts again, or *)
(* ends in a lock error, only over a worker that lost the lock.            *)
Informed(c) ==
  /\ pc[c] = "new" => posts[c] = 0
  /\ pc[c] = "posting" =>
       /\ reply[c] \in {"none", "upid"}
       /\ reply[c] = "none" /\ posts[c] > 0 => Current(c) = "locked"
       /\ reply[c] = "upid" => posts[c] > 0
  /\ pc[c] \in {"status", "sleep"} => posts[c] > 0
  /\ pc[c] = "status" => reply[c] # "upid" /\ (reply[c] \in Stopped => Current(c) = reply[c])
  /\ pc[c] = "log" => posts[c] > 0 /\ call[c].verdict \in {"locked", "error"}
                      /\ Current(c) = call[c].verdict
  /\ pc[c] = "again" => posts[c] > 0 /\ Current(c) = "locked"
  /\ pc[c] \in {"ok", "locked"} => posts[c] > 0 /\ Current(c) = pc[c]

(* Two posts are at least a tick apart and the last is sent no later than  *)
(* the window closes, so the workers of a call fit into its Attempts.      *)
InWindow(c) ==
  /\ posts[c] <= LockRetry + 1
  /\ pc[c] = "posting" /\ reply[c] = "none" =>
       began[c] <= call[c].window /\ posts[c] + call[c].window <= began[c] + LockRetry
  /\ pc[c] \in {"status", "sleep", "log"} \/ (pc[c] = "posting" /\ reply[c] # "none") =>
       posts[c] + call[c].window <= now + LockRetry + 1
  /\ pc[c] = "again" =>
       /\ now <= call[c].wake /\ call[c].wake <= call[c].window
       /\ posts[c] + call[c].window <= call[c].wake + LockRetry

IInv ==
  /\ Typed /\ HolderWorks
  /\ \A c \in Callers : Counted(c) /\ Informed(c) /\ InWindow(c)

-----------------------------------------------------------------------------
(* Steps of one call.                                                      *)

(* What is known of a call stays so when a step leaves its state alone.    *)
LEMMA Others ==
  ASSUME IInv, NEW d \in Callers, now' = now,
         pc'[d] = pc[d], began'[d] = began[d], reply'[d] = reply[d],
         call'[d] = call[d], posts'[d] = posts[d], task'[d] = task[d],
         effects'[d] = effects[d]
  PROVE  Counted(d)' /\ Informed(d)' /\ InWindow(d)'
<1>1. Counted(d) /\ Informed(d) /\ InWindow(d)
  BY DEF IInv
<1>2. Counted(d)'
  BY <1>1 DEF Counted, Current
<1>3. Informed(d)'
  BY <1>1 DEF Informed, Current
<1>4. InWindow(d)'
  BY <1>1 DEF InWindow
<1>5. QED
  BY <1>2, <1>3, <1>4

(* A step of the client changes the locals and the request of one call.    *)
LEMMA ClientStep ==
  ASSUME IInv, NEW c \in Callers,
         UNCHANGED <<now, node>>,
         NEW where \in {"new"} \cup InFlight \cup Asleep \cup Over,
         pc' = [pc EXCEPT ![c] = where],
         NEW b \in {0, now}, began' = [began EXCEPT ![c] = b],
         reply' = [reply EXCEPT ![c] = "none"],
         call' \in [Callers -> Call],
         \A d \in Callers \ {c} : call'[d] = call[d],
         call'[c].backoff \in FirstDelay..MaxDelay,
         call'[c].delay \in FirstDelay..MaxDelay,
         Informed(c)', InWindow(c)'
  PROVE  IInv'
<1>1. Typed'
  <2>1. began' \in [Callers -> 0..MaxTime] /\ \A d \in Callers : began'[d] <= now
    BY TimeAssumption DEF IInv, Typed
  <2>2. \A d \in Callers : /\ call'[d].backoff \in FirstDelay..MaxDelay
                           /\ call'[d].delay \in FirstDelay..MaxDelay
    BY DEF IInv, Typed
  <2>3. pc' \in [Callers -> {"new"} \cup InFlight \cup Asleep \cup Over]
    BY DEF IInv, Typed
  <2>4. reply' \in [Callers -> {"none", "upid"} \cup States]
    BY DEF IInv, Typed
  <2>5. QED
    BY <2>1, <2>2, <2>3, <2>4 DEF IInv, Typed, node
<1>2. HolderWorks'
  BY DEF IInv, HolderWorks, node
<1>3. ASSUME NEW d \in Callers PROVE Counted(d)' /\ Informed(d)' /\ InWindow(d)'
  <2>1. CASE d = c
    <3>1. Counted(c)'
      BY DEF IInv, Counted, Current, node
    <3>2. QED
      BY <2>1, <3>1
  <2>2. CASE d # c
    BY <2>2, Others DEF IInv, Typed, node
  <2>3. QED
    BY <2>1, <2>2
<1>4. QED
  BY <1>1, <1>2, <1>3 DEF IInv

LEMMA BeginIInv ==
  ASSUME IInv, NEW c \in Callers, Begin(c)
  PROVE  IInv'
<1> USE DEF Begin, Ask, node
<1>1. call' \in [Callers -> Call]
  <2>1. now + LockRetry \in Nat /\ call \in [Callers -> Call]
    BY TimeAssumption DEF IInv, Typed
  <2>2. [call[c] EXCEPT !.window = now + LockRetry] \in Call
    BY <2>1 DEF Call
  <2>3. QED
    BY <2>1, <2>2
<1>2. Informed(c)'
  BY DEF IInv, Typed, Informed, Current
<1>3. InWindow(c)'
  BY <1>1, TimeAssumption DEF IInv, Typed, Informed, InWindow, Call
<1>4. call'[c].backoff \in FirstDelay..MaxDelay /\ call'[c].delay \in FirstDelay..MaxDelay
  BY DEF IInv, Typed, Call
<1>5. QED
  BY <1>1, <1>2, <1>3, <1>4, ClientStep DEF IInv, Typed, InFlight

LEMMA Delays ==
  ASSUME NEW d \in FirstDelay..MaxDelay
  PROVE  /\ d \in Nat \ {0}
         /\ NextDelay(d) \in FirstDelay..MaxDelay
         /\ \A until \in Nat : now \in Nat /\ now < until => PollSleep(d, until) \in 1..(until - now)
BY TimeAssumption DEF NextDelay, PollSleep, Least

LEMMA PostReturnsIInv ==
  ASSUME IInv, NEW c \in Callers, PostReturns(c)
  PROVE  IInv'
<1> USE DEF PostReturns, Ask, node
<1>1. call[c] \in Call /\ now \in Nat /\ call \in [Callers -> Call]
  BY TimeAssumption DEF IInv, Typed
<1>2. /\ call' \in [Callers -> Call]
      /\ call'[c].delay = FirstDelay /\ call'[c].backoff = call[c].backoff
      /\ call'[c].window = call[c].window
  <2>1. call'[c] = [window |-> call[c].window, backoff |-> call[c].backoff,
                    deadline |-> now + TaskTimeout, delay |-> FirstDelay,
                    wake |-> call[c].wake, verdict |-> call[c].verdict]
    BY <1>1 DEF Call
  <2>2. call'[c] \in Call
    BY <1>1, <2>1, TimeAssumption DEF Call
  <2>3. QED
    BY <1>1, <2>1, <2>2
<1>3. Informed(c)'
  BY <1>1 DEF IInv, Typed, Informed, Current, Stopped
<1>4. InWindow(c)'
  BY <1>1, <1>2, TimeAssumption DEF IInv, Typed, Informed, InWindow, Call
<1>5. call'[c].backoff \in FirstDelay..MaxDelay /\ call'[c].delay \in FirstDelay..MaxDelay
  BY <1>2, TimeAssumption DEF IInv, Typed
<1>6. \A d \in Callers \ {c} : call'[d] = call[d]
  BY <1>1
<1>7. QED
  BY <1>2, <1>3, <1>4, <1>5, <1>6, ClientStep DEF IInv, Typed, InFlight

(* The call settles: in success or a lock error over a worker that says so.  *)
LEMMA SettleIInv ==
  ASSUME IInv, NEW c \in Callers, NEW outcome \in Over, Settle(c, outcome),
         UNCHANGED <<now, node>>,
         outcome \in {"ok", "locked"} => posts[c] > 0 /\ Current(c) = outcome
  PROVE  IInv'
<1> USE DEF Settle, Rest, node
<1>1. /\ call' \in [Callers -> Call] /\ call'[c] = NoCall
      /\ \A d \in Callers \ {c} : call'[d] = call[d]
  BY TimeAssumption DEF IInv, Typed, NoCall, Call
<1>2. pc'[c] = outcome /\ outcome \notin {"new"} \cup InFlight \cup Asleep
  BY DEF IInv, Typed, Over, InFlight, Asleep
<1>3. Informed(c)'
  BY <1>2 DEF Informed, Current, InFlight, Asleep
<1>4. InWindow(c)'
  BY <1>2 DEF IInv, InWindow, InFlight, Asleep
<1>5. call'[c].backoff \in FirstDelay..MaxDelay /\ call'[c].delay \in FirstDelay..MaxDelay
  BY <1>1, TimeAssumption DEF NoCall
<1>6. QED
  BY <1>1, <1>3, <1>4, <1>5, ClientStep

LEMMA SleepOnIInv ==
  ASSUME IInv, NEW c \in Callers, SleepOn(c), UNCHANGED <<now, node>>,
         pc[c] = "status", reply[c] # "none", now < call[c].deadline
  PROVE  IInv'
<1> USE DEF SleepOn, Rest, node
<1>1. /\ call[c] \in Call /\ now \in Nat /\ call \in [Callers -> Call]
      /\ call[c].delay \in FirstDelay..MaxDelay /\ call[c].backoff \in FirstDelay..MaxDelay
  BY TimeAssumption DEF IInv, Typed
<1> DEFINE wake == now + PollSleep(call[c].delay, call[c].deadline)
           delay == NextDelay(call[c].delay)
<1>2. wake \in Nat /\ delay \in FirstDelay..MaxDelay
  BY <1>1, Delays DEF Call
<1>3. call' = [call EXCEPT ![c].wake = wake, ![c].delay = delay]
  OBVIOUS
<1> HIDE DEF wake, delay
<1>4. call'[c] = [window |-> call[c].window, backoff |-> call[c].backoff,
                  deadline |-> call[c].deadline, delay |-> delay,
                  wake |-> wake, verdict |-> call[c].verdict]
  BY <1>1, <1>3 DEF Call
<1>5. /\ call' \in [Callers -> Call] /\ \A d \in Callers \ {c} : call'[d] = call[d]
      /\ call'[c].delay = delay /\ call'[c].backoff = call[c].backoff
      /\ call'[c].window = call[c].window
  <2>1. call'[c] \in Call
    BY <1>1, <1>2, <1>4, TimeAssumption DEF Call
  <2>2. call' \in [Callers -> Call] /\ \A d \in Callers \ {c} : call'[d] = call[d]
    <3>1. DOMAIN call' = Callers /\ call' = [d \in Callers |-> call'[d]]
      BY ONLY <1>1, <1>3, Zenon
    <3>2. \A d \in Callers \ {c} : call'[d] = call[d]
      BY ONLY <1>1, <1>3
    <3>3. \A d \in Callers : call'[d] \in Call
      BY ONLY <1>1, <2>1, <3>2
    <3>4. QED
      BY ONLY <3>1, <3>2, <3>3
  <2>3. /\ call'[c].delay = delay /\ call'[c].backoff = call[c].backoff
        /\ call'[c].window = call[c].window
    BY ONLY <1>4
  <2>4. QED
    BY <2>2, <2>3
<1>6. Informed(c)'
  BY DEF IInv, Typed, Informed
<1>7. InWindow(c)'
  BY <1>5 DEF IInv, Typed, Informed, InWindow
<1>8. QED
  BY <1>1, <1>2, <1>5, <1>6, <1>7, ClientStep DEF Asleep

LEMMA FailWithIInv ==
  ASSUME IInv, NEW c \in Callers, NEW verdict \in {"locked", "error"}, FailWith(c, verdict),
         UNCHANGED <<now, node>>, pc[c] = "status", reply[c] = verdict
  PROVE  IInv'
<1> USE DEF FailWith, Ask, node
<1>1. call[c] \in Call /\ now \in Nat /\ call \in [Callers -> Call]
  BY TimeAssumption DEF IInv, Typed
<1>2. [call[c] EXCEPT !.verdict = verdict] \in Call
  BY <1>1 DEF Call, Stopped
<1>3. /\ call' \in [Callers -> Call] /\ \A d \in Callers \ {c} : call'[d] = call[d]
      /\ call'[c].delay = call[c].delay /\ call'[c].backoff = call[c].backoff
      /\ call'[c].window = call[c].window /\ call'[c].verdict = verdict
  BY <1>1, <1>2 DEF Call
<1>4. Informed(c)'
  BY <1>3 DEF IInv, Typed, Informed, Current, Stopped
<1>5. InWindow(c)'
  BY <1>3 DEF IInv, Typed, Informed, InWindow
<1>6. call'[c].backoff \in FirstDelay..MaxDelay /\ call'[c].delay \in FirstDelay..MaxDelay
  BY <1>3 DEF IInv, Typed
<1>7. QED
  BY <1>3, <1>4, <1>5, <1>6, ClientStep DEF InFlight

LEMMA StatusReturnsIInv ==
  ASSUME IInv, NEW c \in Callers, StatusReturns(c)
  PROVE  IInv'
<1> USE DEF StatusReturns
<1>1. /\ posts[c] > 0 /\ reply[c] \in {"queued", "working"} \cup Stopped
      /\ reply[c] \in Stopped => Current(c) = reply[c]
  BY DEF IInv, Typed, Informed, States
<1>2. CASE reply[c] \notin Stopped /\ now >= call[c].deadline
  BY <1>2, SettleIInv DEF Over
<1>3. CASE reply[c] \notin Stopped /\ ~(now >= call[c].deadline)
  <2>1. now < call[c].deadline
    BY <1>3, TimeAssumption DEF IInv, Typed, Call
  <2>2. QED
    BY <1>3, <2>1, SleepOnIInv
<1>4. CASE reply[c] = "ok"
  BY <1>1, <1>4, SettleIInv DEF Over, Stopped
<1>5. CASE reply[c] \in {"locked", "error"}
  BY <1>5, FailWithIInv DEF Stopped
<1>6. QED
  BY <1>1, <1>2, <1>3, <1>4, <1>5 DEF Stopped

LEMMA BackOffIInv ==
  ASSUME IInv, NEW c \in Callers, BackOff(c), UNCHANGED <<now, node>>,
         pc[c] = "log", call[c].verdict = "locked", now < call[c].window
  PROVE  IInv'
<1> USE DEF BackOff, Rest, node
<1>1. /\ call[c] \in Call /\ now \in Nat /\ call \in [Callers -> Call]
      /\ call[c].backoff \in FirstDelay..MaxDelay
  BY TimeAssumption DEF IInv, Typed
<1> DEFINE wake == now + PollSleep(call[c].backoff, call[c].window)
           backoff == NextDelay(call[c].backoff)
<1>2. wake \in (now + 1)..call[c].window /\ backoff \in FirstDelay..MaxDelay
  <2>1. PollSleep(call[c].backoff, call[c].window) \in 1..(call[c].window - now)
    BY <1>1, Delays DEF Call
  <2>2. QED
    BY <1>1, <2>1, Delays DEF Call
<1>3. call' = [call EXCEPT ![c] = [NoCall EXCEPT !.window = call[c].window,
                                                 !.wake = wake, !.backoff = backoff]]
  OBVIOUS
<1> HIDE DEF wake, backoff
<1>4. call'[c] = [window |-> call[c].window, backoff |-> backoff, deadline |-> 0,
                  delay |-> FirstDelay, wake |-> wake, verdict |-> "none"]
  BY <1>1, <1>3 DEF NoCall
<1>5. call' \in [Callers -> Call] /\ \A d \in Callers \ {c} : call'[d] = call[d]
  <2>1. /\ call[c].window \in Nat /\ wake \in Nat /\ backoff \in Nat
        /\ FirstDelay \in Nat
    BY <1>1, <1>2, TimeAssumption DEF Call
  <2>2. call'[c] \in Call
    BY ONLY <1>4, <2>1 DEF Call
  <2>3. QED
    BY <1>1, <1>3, <2>2
<1>6. Informed(c)'
  BY DEF IInv, Typed, Informed, Current
<1>7. InWindow(c)'
  <2>1. posts[c] <= LockRetry + 1 /\ posts[c] + call[c].window <= now + LockRetry + 1
    BY DEF IInv, InWindow
  <2>2. /\ now <= wake /\ wake <= call[c].window
        /\ posts[c] + call[c].window <= wake + LockRetry
    BY <1>1, <1>2, <2>1, TimeAssumption DEF IInv, Typed, Call
  <2>3. pc'[c] = "again" /\ call'[c].window = call[c].window /\ call'[c].wake = wake
    BY <1>4 DEF IInv, Typed
  <2>4. QED
    BY <2>1, <2>2, <2>3 DEF InWindow
<1>8. call'[c].backoff \in FirstDelay..MaxDelay /\ call'[c].delay \in FirstDelay..MaxDelay
  BY ONLY <1>2, <1>4, TimeAssumption
<1>9. QED
  BY <1>5, <1>6, <1>7, <1>8, ClientStep DEF Asleep

LEMMA LogReturnsIInv ==
  ASSUME IInv, NEW c \in Callers, LogReturns(c)
  PROVE  IInv'
<1> USE DEF LogReturns
<1>1. CASE call[c].verdict = "locked" /\ now < call[c].window
  BY <1>1, BackOffIInv
<1>2. CASE ~(call[c].verdict = "locked" /\ now < call[c].window)
  <2>1. /\ call[c].verdict \in Over
        /\ call[c].verdict \in {"ok", "locked"} =>
             posts[c] > 0 /\ Current(c) = call[c].verdict
    BY DEF IInv, Informed, Over
  <2>2. QED
    BY <1>2, <2>1, SettleIInv
<1>3. QED
  BY <1>1, <1>2

LEMMA WakeIInv ==
  ASSUME IInv, NEW c \in Callers, Wake(c)
  PROVE  IInv'
<1> USE DEF Wake, Ask, node
<1> DEFINE next == IF pc[c] = "sleep" THEN "status" ELSE "posting"
<1>1. call[c] \in Call /\ now \in Nat /\ call \in [Callers -> Call]
  BY TimeAssumption DEF IInv, Typed
<1>2. [call[c] EXCEPT !.wake = 0] \in Call
  BY <1>1 DEF Call
<1>3. /\ call' \in [Callers -> Call] /\ \A d \in Callers \ {c} : call'[d] = call[d]
      /\ call'[c].delay = call[c].delay /\ call'[c].backoff = call[c].backoff
      /\ call'[c].window = call[c].window
  BY <1>1, <1>2 DEF Call
<1>4. Informed(c)'
  BY DEF IInv, Typed, Informed, Current, Asleep, Stopped
<1>5. InWindow(c)'
  <2>1. CASE pc[c] = "sleep"
    BY <1>3, <2>1 DEF IInv, Typed, InWindow
  <2>2. CASE pc[c] = "again"
    <3>1. now = call[c].wake
      <4>1. InWindow(c) /\ now >= call[c].wake
        BY DEF IInv
      <4>2. now <= call[c].wake /\ call[c].wake \in Nat
        BY <1>1, <2>2, <4>1 DEF InWindow, Call
      <4>3. QED
        BY ONLY <1>1, <4>1, <4>2
    <3>2. QED
      BY <1>3, <2>2, <3>1 DEF IInv, Typed, InWindow
  <2>3. QED
    BY <2>1, <2>2 DEF Asleep
<1>6. call'[c].backoff \in FirstDelay..MaxDelay /\ call'[c].delay \in FirstDelay..MaxDelay
  BY <1>3 DEF IInv, Typed
<1>7. next \in InFlight
  BY DEF InFlight
<1>8. QED
  BY <1>3, <1>4, <1>5, <1>6, <1>7, ClientStep

LEMMA RequestFailsIInv ==
  ASSUME IInv, NEW c \in Callers, RequestFails(c)
  PROVE  IInv'
BY SettleIInv DEF RequestFails, Over

-----------------------------------------------------------------------------
(* Steps of the node and of the clock.                                     *)

LEMMA NodePostsIInv ==
  ASSUME IInv, NEW c \in Callers, NodePosts(c)
  PROVE  IInv'
<1> USE DEF NodePosts
<1>1. posts[c] \in Nat /\ posts[c] <= LockRetry
  BY TimeAssumption DEF IInv, Typed, InWindow, Call
<1>2. posts[c] + 1 \in Attempts
  BY <1>1, TimeAssumption DEF Attempts
<1>3. posts[c] \in Attempts \/ posts[c] = 0
  BY <1>1, TimeAssumption DEF Attempts
<1>4. /\ posts'[c] = posts[c] + 1 /\ reply'[c] = "upid"
      /\ task'[c][posts[c] + 1] = "queued"
      /\ \A i \in Attempts : i # posts[c] + 1 => task'[c][i] = task[c][i]
      /\ task' \in [Callers -> [Attempts -> {"none"} \cup States]]
  BY <1>2 DEF IInv, Typed, States
<1>5. Typed'
  BY <1>4, TimeAssumption DEF IInv, Typed, States
<1>6. HolderWorks'
  <2>1. SUFFICES ASSUME lock \in Workers PROVE task'[lock[1]][lock[2]] = "working"
    BY DEF HolderWorks
  <2>2. task[lock[1]][lock[2]] = "working" /\ lock[1] \in Callers /\ lock[2] \in Attempts
    BY <2>1 DEF IInv, HolderWorks, Workers
  <2>3. task[c][posts[c] + 1] = "none"
    BY <1>1, <1>2 DEF IInv, Counted
  <2>4. QED
    BY <2>2, <2>3 DEF IInv, Typed
<1>7. Counted(c)'
  <2>1. \A i \in Attempts : i <= posts[c] => task[c][i] = "locked"
    BY <1>1, <1>3 DEF IInv, Counted, Informed, Current, Attempts
  <2>2. effects[c] = 0
    BY <1>1, <1>3 DEF IInv, Counted, Informed, Current
  <2>3. \A i \in Attempts : i > posts[c] + 1 => task[c][i] = "none"
    BY <1>1 DEF IInv, Counted, Attempts
  <2>4. QED
    BY <1>1, <1>4, <2>1, <2>2, <2>3 DEF Counted, Current, Attempts
<1>8. Informed(c)'
  BY <1>1, <1>4 DEF Informed
<1>9. InWindow(c)'
  BY <1>1, <1>4, TimeAssumption DEF IInv, Typed, InWindow, Call
<1>10. ASSUME NEW d \in Callers PROVE Counted(d)' /\ Informed(d)' /\ InWindow(d)'
  BY <1>7, <1>8, <1>9, Others DEF IInv, Typed
<1>11. QED
  BY <1>5, <1>6, <1>10 DEF IInv

LEMMA NodeStatusIInv ==
  ASSUME IInv, NEW c \in Callers, NodeStatus(c)
  PROVE  IInv'
<1> USE DEF NodeStatus, node
<1>1. posts[c] \in Attempts /\ Current(c) \in States
  BY TimeAssumption DEF IInv, Typed, Informed, InWindow, Counted, Current, Attempts
<1>2. Typed'
  BY <1>1 DEF IInv, Typed
<1>3. HolderWorks'
  BY DEF IInv, HolderWorks
<1>4. Counted(c)'
  BY DEF IInv, Counted, Current
<1>5. Informed(c)'
  BY <1>1 DEF IInv, Typed, Informed, Current, States, Stopped
<1>6. InWindow(c)'
  BY DEF IInv, Typed, InWindow
<1>7. ASSUME NEW d \in Callers PROVE Counted(d)' /\ Informed(d)' /\ InWindow(d)'
  BY <1>4, <1>5, <1>6, Others DEF IInv, Typed
<1>8. QED
  BY <1>2, <1>3, <1>7 DEF IInv

(* A worker that has not stopped is the last of its call and did nothing.  *)
LEMMA LastWorker ==
  ASSUME IInv, NEW c \in Callers, NEW i \in Attempts, task[c][i] \in {"queued", "working"}
  PROVE  i = posts[c] /\ effects[c] = 0
<1>1. i \in Nat /\ posts[c] \in Nat
  BY DEF IInv, Typed, Attempts
<1>2. i = posts[c]
  BY <1>1 DEF IInv, Counted
<1>3. posts[c] > 0
  BY <1>2 DEF Attempts
<1>4. QED
  BY <1>2, <1>3 DEF IInv, Counted, Current

(* Such a worker may change its state: no call was told of it yet.         *)
LEMMA WorkerMoves ==
  ASSUME IInv, NEW c \in Callers, NEW i \in Attempts, task[c][i] \in {"queued", "working"},
         NEW state \in States, task' = [task EXCEPT ![c][i] = state],
         effects' = [effects EXCEPT ![c] = IF state \in {"ok", "error"} THEN 1 ELSE 0],
         UNCHANGED <<now, pc, request, call, posts>>
  PROVE  \A d \in Callers : Counted(d)' /\ Informed(d)' /\ InWindow(d)'
<1> USE DEF request
<1>1. i = posts[c] /\ posts[c] > 0
  BY LastWorker DEF Attempts
<1>2. /\ task'[c][i] = state /\ Current(c)' = state
      /\ \A j \in Attempts \ {i} : task'[c][j] = task[c][j]
  BY <1>1 DEF IInv, Typed, Current
<1>3. Counted(c)'
  BY <1>1, <1>2 DEF IInv, Typed, Counted, States, Stopped
<1>4. Informed(c)'
  <2>1. Current(c) \notin Stopped
    BY <1>1 DEF Current, Stopped
  <2>2. QED
    BY <1>1, <2>1 DEF IInv, Informed, Stopped
<1>5. InWindow(c)'
  BY DEF IInv, InWindow
<1>6. \A d \in Callers \ {c} : task'[d] = task[d] /\ effects'[d] = effects[d]
  BY DEF IInv, Typed
<1>7. QED
  BY <1>3, <1>4, <1>5, <1>6, Others

LEMMA WorkerLocksIInv ==
  ASSUME IInv, NEW w \in Workers, WorkerLocks(w)
  PROVE  IInv'
<1> USE DEF WorkerLocks
<1>1. w[1] \in Callers /\ w[2] \in Attempts
  BY DEF Workers
<1>2. effects[w[1]] = 0
  BY <1>1, LastWorker
<1>3. \A d \in Callers : Counted(d)' /\ Informed(d)' /\ InWindow(d)'
  <2>1. effects' = [effects EXCEPT ![w[1]] = IF "working" \in {"ok", "error"} THEN 1 ELSE 0]
    BY <1>2 DEF IInv, Typed
  <2>2. QED
    BY <1>1, <2>1, WorkerMoves DEF States
<1>4. Typed'
  BY <1>1 DEF IInv, Typed, request, States
<1>5. HolderWorks'
  BY <1>1 DEF IInv, Typed, HolderWorks
<1>6. QED
  BY <1>3, <1>4, <1>5 DEF IInv

LEMMA WorkerGivesUpIInv ==
  ASSUME IInv, NEW w \in Workers, WorkerGivesUp(w)
  PROVE  IInv'
<1> USE DEF WorkerGivesUp
<1>1. w[1] \in Callers /\ w[2] \in Attempts
  BY DEF Workers
<1>2. effects[w[1]] = 0
  BY <1>1, LastWorker
<1>3. \A d \in Callers : Counted(d)' /\ Informed(d)' /\ InWindow(d)'
  <2>1. effects' = [effects EXCEPT ![w[1]] = IF "locked" \in {"ok", "error"} THEN 1 ELSE 0]
    BY <1>2 DEF IInv, Typed
  <2>2. QED
    BY <1>1, <2>1, WorkerMoves DEF States, Stopped
<1>4. Typed'
  BY <1>1 DEF IInv, Typed, request, States, Stopped
<1>5. HolderWorks'
  BY <1>1 DEF IInv, Typed, HolderWorks, Workers
<1>6. QED
  BY <1>3, <1>4, <1>5 DEF IInv

LEMMA WorkerStopsIInv ==
  ASSUME IInv, NEW w \in Workers, WorkerStops(w)
  PROVE  IInv'
<1> USE DEF WorkerStops
<1>1. w[1] \in Callers /\ w[2] \in Attempts
  BY DEF Workers
<1>2. task[w[1]][w[2]] = "working"
  BY DEF IInv, HolderWorks
<1>3. effects[w[1]] = 0
  BY <1>1, <1>2, LastWorker
<1>4. PICK exit \in {"ok", "error"} :
        /\ task' = [task EXCEPT ![w[1]][w[2]] = exit]
        /\ effects' = [effects EXCEPT ![w[1]] = @ + 1]
  OBVIOUS
<1>5. \A d \in Callers : Counted(d)' /\ Informed(d)' /\ InWindow(d)'
  <2>1. effects' = [effects EXCEPT ![w[1]] = IF exit \in {"ok", "error"} THEN 1 ELSE 0]
    BY <1>1, <1>3, <1>4 DEF IInv, Typed
  <2>2. QED
    BY <1>1, <1>2, <1>4, <2>1, WorkerMoves DEF States, Stopped
<1>6. Typed'
  BY <1>1, <1>4 DEF IInv, Typed, request, States, Stopped
<1>7. HolderWorks'
  BY HolderAssumption DEF HolderWorks
<1>8. QED
  BY <1>5, <1>6, <1>7 DEF IInv

LEMMA ForeignIInv ==
  ASSUME IInv, ForeignLocks \/ ForeignUnlocks
  PROVE  IInv'
<1> USE DEF ForeignLocks, ForeignUnlocks, request
<1>1. Typed'
  BY TimeAssumption DEF IInv, Typed
<1>2. HolderWorks'
  BY HolderAssumption DEF HolderWorks
<1>3. \A d \in Callers : Counted(d)' /\ Informed(d)' /\ InWindow(d)'
  BY Others
<1>4. QED
  BY <1>1, <1>2, <1>3 DEF IInv

LEMMA TickIInv ==
  ASSUME IInv, Tick
  PROVE  IInv'
<1> USE DEF Tick, request, node
<1>1. now \in Nat /\ now + 1 \in 0..MaxTime
  BY TimeAssumption DEF IInv, Typed
<1>2. Typed'
  BY <1>1, TimeAssumption DEF IInv, Typed
<1>3. HolderWorks'
  BY DEF IInv, HolderWorks
<1>4. ASSUME NEW d \in Callers PROVE Counted(d)' /\ Informed(d)' /\ InWindow(d)'
  <2>1. Counted(d)' /\ Informed(d)'
    BY DEF IInv, Counted, Informed, Current
  <2>2. pc[d] = "again" => now + 1 <= call[d].wake
    BY <1>1 DEF IInv, Typed, Call, Asleep
  <2>3. InWindow(d)'
    BY <1>1, <2>2, TimeAssumption DEF IInv, Typed, InWindow, Call
  <2>4. QED
    BY <2>1, <2>3
<1>5. QED
  BY <1>2, <1>3, <1>4 DEF IInv

-----------------------------------------------------------------------------
(* The invariant and what follows from it.                                 *)

LEMMA InitIInv == Init => IInv
<1> SUFFICES ASSUME Init PROVE IInv
  OBVIOUS
<1> USE DEF Init
<1>1. Typed
  BY TimeAssumption DEF Typed, Call, NoCall
<1>2. HolderWorks
  BY HolderAssumption DEF HolderWorks
<1>3. ASSUME NEW c \in Callers PROVE Counted(c) /\ Informed(c) /\ InWindow(c)
  BY TimeAssumption DEF Counted, Informed, InWindow, Attempts
<1>4. QED
  BY <1>1, <1>2, <1>3 DEF IInv

LEMMA NextIInv == IInv /\ [Next]_vars => IInv'
<1> SUFFICES ASSUME IInv, [Next]_vars PROVE IInv'
  OBVIOUS
<1>1. ASSUME NEW c \in Callers, Begin(c) \/ CallStep(c) \/ NodePosts(c) \/ NodeStatus(c)
      PROVE  IInv'
  BY <1>1, BeginIInv, PostReturnsIInv, StatusReturnsIInv, LogReturnsIInv, WakeIInv,
     RequestFailsIInv, NodePostsIInv, NodeStatusIInv DEF CallStep
<1>2. ASSUME NEW w \in Workers, WorkerStep(w) PROVE IInv'
  BY <1>2, WorkerLocksIInv, WorkerGivesUpIInv, WorkerStopsIInv DEF WorkerStep
<1>3. CASE UNCHANGED vars
  <2>1. Typed' /\ HolderWorks'
    BY <1>3 DEF IInv, Typed, HolderWorks, vars, request, node
  <2>2. \A d \in Callers : Counted(d)' /\ Informed(d)' /\ InWindow(d)'
    BY <1>3, Others DEF vars, request, node
  <2>3. QED
    BY <2>1, <2>2 DEF IInv
<1>4. QED
  BY <1>1, <1>2, <1>3, ForeignIInv, TickIInv DEF Next

LEMMA Invariance == Spec => []IInv
BY InitIInv, NextIInv, PTL DEF Spec

(* The state is well typed.  In particular, the retries of retryOnLock are *)
(* bounded by its window: a call starts no more workers than ticks in the  *)
(* window and one, and each backoff ends in the window.                    *)
THEOREM TypeCorrect == Spec => []TypeOK
<1>1. IInv => TypeOK
  <2> SUFFICES ASSUME IInv PROVE TypeOK
    OBVIOUS
  <2>1. posts \in [Callers -> 0..(LockRetry + 1)]
    BY TimeAssumption DEF IInv, Typed, InWindow
  <2>2. QED
    BY <2>1 DEF IInv, Typed, TypeOK, InWindow, States, Stopped
<1>2. QED
  BY <1>1, Invariance, PTL

(* However often retryOnLock posts a call again, the node carries its      *)
(* operation out at most once.                                             *)
THEOREM DoneOnce == Spec => []CarriedOutOnce
<1>1. IInv => CarriedOutOnce
  <2> SUFFICES ASSUME IInv, NEW c \in Callers PROVE effects[c] <= 1
    BY DEF CarriedOutOnce
  <2>1. posts[c] = 0 \/ posts[c] > 0
    BY DEF IInv, Typed
  <2>2. effects[c] = 0 \/ effects[c] = 1
    BY <2>1 DEF IInv, Counted
  <2>3. QED
    BY <2>2
<1>2. QED
  BY <1>1, Invariance, PTL

(* A call that returns was carried out; one that ends in a lock error never*)
(* was, and none of its workers may still do it.                           *)
THEOREM TrueOutcome == Spec => []OutcomeIsTrue
<1>1. IInv => OutcomeIsTrue
  <2> SUFFICES ASSUME IInv, NEW c \in Callers
               PROVE  /\ pc[c] = "ok" => effects[c] = 1
                      /\ pc[c] = "locked" =>
                           /\ effects[c] = 0
                           /\ \A i \in Attempts : task[c][i] \in {"none", "locked"}
    BY DEF OutcomeIsTrue
  <2>1. Counted(c) /\ Informed(c) /\ posts[c] \in Nat
    BY DEF IInv, Typed
  <2>2. \A i \in Attempts : i < posts[c] \/ i = posts[c] \/ i > posts[c]
    BY <2>1 DEF Attempts
  <2>3. QED
    BY <2>1, <2>2 DEF Counted, Informed, Current
<1>2. QED
  BY <1>1, Invariance, PTL

(***************************************************************************)
(* Updates.                                                                *)
(***************************************************************************)
(* Words as a value may have them, values of one word and more, and parts. *)
Word == STRING \cup {"0", "1", "10"}
Words == Seq(Word) \ {<<>>}
PartSet == {part \in Words : Len(part) > 1 => part[1] # Unset}

(* The value a sub-key may have, and a bag that parsing can return.        *)
FitsKey(f, s, k, v) ==
  /\ k \in Word \ {Empty, Unset} /\ (s => k \in Keys(f)) /\ Entry(f, k).alias = Unset
  /\ v.words \in Words /\ v = Coerce(v.words, Entry(f, k).type)

Clean(f, s, b) ==
  /\ b = [k \in DOMAIN b |-> b[k]] /\ IsFiniteSet(DOMAIN b)
  /\ \A k \in DOMAIN b : FitsKey(f, s, k, b[k])

OwnNames(f, read) == \A k \in DOMAIN read.bag : Entry(f, k).alias = Unset

(* Sequences of one element and more.                                      *)
LEMMA Single ==
  ASSUME NEW q, NEW e, q = <<e>>
  PROVE  Len(q) = 1 /\ q[1] = e
<1>1. Len(<<e>>) = 1 /\ <<e>>[1] = e
  OBVIOUS
<1>2. QED
  BY ONLY <1>1, q = <<e>>

LEMMA Shape ==
  ASSUME NEW q \in Words
  PROVE  /\ Len(q) \in Nat \ {0} /\ q[1] \in Word
         /\ Len(q) = 1 => q = <<q[1]>>
         /\ Len(q) > 1 => Tail(q) \in Words /\ \A e : q # <<e>>
<1>1. q \in Seq(Word) /\ Len(q) \in Nat \ {0} /\ q[1] \in Word /\ (Len(q) = 1 => q = <<q[1]>>)
  BY DEF Words
<1>2. ASSUME Len(q) > 1 PROVE Tail(q) \in Words
  <2>1. Len(Tail(q)) = Len(q) - 1 /\ Tail(q) \in Seq(Word)
    BY <1>1, <1>2
  <2>2. Len(Tail(q)) # 0
    BY <1>1, <1>2, <2>1
  <2>3. \A r \in Seq(Word) : r = <<>> => Len(r) = 0
    OBVIOUS
  <2>4. QED
    BY <2>1, <2>2, <2>3 DEF Words
<1>3. ASSUME Len(q) > 1, NEW e PROVE q # <<e>>
  <2>1. q = <<e>> => Len(q) = 1
    BY Single, Zenon
  <2>2. Len(q) \in Nat
    BY ONLY <1>1, Zenon
  <2>3. \A m \in Nat : m > 1 => m # 1
    OBVIOUS
  <2>4. Len(q) # 1
    BY ONLY <1>3, <2>2, <2>3, Zenon
  <2>5. QED
    BY ONLY <2>1, <2>4, Zenon
<1>4. QED
  BY <1>1, <1>2, <1>3

LEMMA Longer ==
  ASSUME NEW k \in Word, NEW q \in Words
  PROVE  <<k>> \o q \in Words /\ Len(<<k>> \o q) > 1 /\ Tail(<<k>> \o q) = q /\ (<<k>> \o q)[1] = k
<1>1. <<k>> \o q \in Seq(Word) /\ Len(<<k>> \o q) = 1 + Len(q) /\ Len(q) \in Nat \ {0}
  BY DEF Words
<1>2. Tail(<<k>> \o q) = q /\ (<<k>> \o q)[1] = k
  BY DEF Words
<1>3. \A r \in Seq(Word) : r = <<>> => Len(r) = 0
  OBVIOUS
<1>4. QED
  BY <1>1, <1>2, <1>3 DEF Words

LEMMA Written ==
  /\ Seq(STRING) \ {<<>>} \subseteq Words
  /\ \A w \in Word : <<w>> \in Words
  /\ {"0", "1", "10"} \subseteq Word
<1>1. ASSUME NEW q \in Seq(STRING) PROVE q \in Seq(Word)
  BY DEF Word
<1>2. ASSUME NEW w \in Word PROVE <<w>> \in Words
  BY DEF Words
<1>3. QED
  BY <1>1, <1>2 DEF Word, Words

LEMMA Coerced ==
  ASSUME NEW words \in Words, NEW type
  PROVE  Coerce(words, type).words \in Words /\ Coerce(Coerce(words, type).words, type) = Coerce(words, type)
<1>1. CASE type = "boolean" /\ words \in {<<w>> : w \in Yes}
  <2>0. words \notin {<<w>> : w \in No} /\ <<"1">> \notin {<<w>> : w \in No}
    BY <1>1 DEF Yes, No
  <2>1. Coerce(words, type) = Flag("1") /\ Flag("1").words = <<"1">> /\ <<"1">> \in Words
    BY <1>1, <2>0, Written DEF Coerce, Flag
  <2>2. "1" \in Yes
    BY DEF Yes
  <2>3. Coerce(<<"1">>, type) = Flag("1")
    BY <1>1, <2>0, <2>2 DEF Coerce
  <2>4. QED
    BY <2>1, <2>3
<1>2. CASE type = "boolean" /\ words \in {<<w>> : w \in No}
  <2>1. words \notin {<<w>> : w \in Yes}
    BY <1>2 DEF Yes, No
  <2>2. Coerce(words, type) = Flag("0") /\ Flag("0").words = <<"0">> /\ <<"0">> \in Words
    BY <1>2, <2>1, Written DEF Coerce, Flag
  <2>3. "0" \in No /\ <<"0">> \notin {<<w>> : w \in Yes}
    BY DEF Yes, No
  <2>4. Coerce(<<"0">>, type) = Flag("0")
    BY <1>2, <2>3 DEF Coerce
  <2>5. QED
    BY <2>2, <2>4
<1>3. CASE type = "integer" /\ words \in {<<w>> : w \in DOMAIN Decimal}
  <2>1. PICK w \in DOMAIN Decimal : words = <<w>>
    BY <1>3
  <2>2. Decimal[w] = "10" /\ words[1] = w /\ type # "boolean"
    BY <1>3, <2>1 DEF Decimal
  <2>3. Coerce(words, type) = Number("10") /\ Number("10").words = <<"10">> /\ <<"10">> \in Words
    BY <1>3, <2>2, Written DEF Coerce, Number
  <2>4. "10" \in DOMAIN Decimal /\ Decimal["10"] = "10" /\ <<"10">>[1] = "10"
    BY DEF Decimal
  <2>5. Coerce(<<"10">>, type) = Number("10")
    BY <1>3, <2>4 DEF Coerce
  <2>6. QED
    BY <2>3, <2>5
<1>4. CASE /\ ~(type = "boolean" /\ words \in {<<w>> : w \in Yes})
           /\ ~(type = "boolean" /\ words \in {<<w>> : w \in No})
           /\ ~(type = "integer" /\ words \in {<<w>> : w \in DOMAIN Decimal})
  <2>1. Coerce(words, type) = Text(words) /\ Text(words).words = words
    BY <1>4 DEF Coerce, Text
  <2>2. QED
    BY <2>1
<1>5. QED
  BY <1>1, <1>2, <1>3, <1>4

LEMMA Defaulted ==
  ASSUME NEW f, IsFormat(f), DefaultKey(f) # Unset
  PROVE  /\ DefaultKey(f) \in Keys(f) /\ Entry(f, DefaultKey(f)).default
         /\ Entry(f, DefaultKey(f)).alias = Unset /\ DefaultKey(f) # Empty
<1>1. \E k \in Keys(f) : Entry(f, k).default
  BY DEF DefaultKey
<1>2. DefaultKey(f) \in Keys(f) /\ Entry(f, DefaultKey(f)).default
  BY <1>1 DEF DefaultKey
<1>3. QED
  BY <1>2 DEF IsFormat

LEMMA TheDefault ==
  ASSUME NEW f, IsFormat(f), NEW k \in Keys(f), Entry(f, k).default
  PROVE  DefaultKey(f) = k
<1>1. DefaultKey(f) \in Keys(f) /\ Entry(f, DefaultKey(f)).default
  BY DEF DefaultKey
<1>2. QED
  BY <1>1 DEF IsFormat

LEMMA KeyIsWord ==
  ASSUME NEW f, IsFormat(f), NEW k \in Keys(f)
  PROVE  k \in Word \ {Empty, Unset}
<1>1. f.keys \in Seq(STRING) /\ Keys(f) \cap {Empty, Unset} = {}
  BY DEF IsFormat
<1>2. k \in STRING
  BY <1>1 DEF Keys, Range
<1>3. QED
  BY <1>1, <1>2 DEF Word

(* A short name stands for one declared sub-key, which is no short name.    *)
LEMMA AliasLeads ==
  ASSUME NEW f, IsFormat(f), NEW k \in Keys(f), Entry(f, k).alias # Unset
  PROVE  Entry(f, k).alias \in Keys(f) /\ Entry(f, Entry(f, k).alias).alias = Unset
BY DEF IsFormat

(* A sub-key that names another by its own name has a short name for its
   value, and the other is the sub-key a bare value goes to.               *)
LEMMA PairLeads ==
  ASSUME NEW f, IsFormat(f), NEW k \in Keys(f), Entry(f, k).keyAlias # Unset
  PROVE  LET first == Entry(f, k).keyAlias IN
         /\ Entry(f, k).alias # Unset /\ first \in Keys(f) /\ first # Entry(f, k).alias
         /\ Entry(f, first).default /\ Entry(f, first).type = "string"
<1>1. k \in {j \in Keys(f) : Entry(f, j).keyAlias # Unset}
  OBVIOUS
<1>2. QED
  BY <1>1 DEF IsFormat

(* A sub-key that is not declared is one like any other.                   *)
LEMMA Undeclared ==
  ASSUME NEW f, NEW k, k \notin Keys(f)
  PROVE  Entry(f, k) = NoEntry /\ Entry(f, k).alias = Unset /\ Entry(f, k).keyAlias = Unset /\ Entry(f, k).enum = {}
  BY DEF Entry, NoEntry

(* Reading a part puts nothing, fails, or puts one sub-key or two.         *)
Skips(f, s, part) == \A r : OwnNames(f, r) => ReadPart(f, s, r, part) = r
Fails(f, s, part) == \A r : OwnNames(f, r) => ReadPart(f, s, r, part) = Refused
PutsOne(f, s, part, k, v) ==
  FitsKey(f, s, k, v) /\ \A r : OwnNames(f, r) => ReadPart(f, s, r, part) = Put(r, k, v)
PutsTwo(f, s, part, j, u, k, v) ==
  /\ FitsKey(f, s, j, u) /\ FitsKey(f, s, k, v) /\ j # k
  /\ \A r : OwnNames(f, r) => ReadPart(f, s, r, part) = Put(Put(r, j, u), k, v)

LEMMA BarePart ==
  ASSUME NEW f, IsFormat(f), NEW s \in BOOLEAN, NEW part \in PartSet, Len(part) = 1, part # <<Empty>>,
         DefaultKey(f) # Unset
  PROVE  PutsOne(f, s, part, DefaultKey(f), Coerce(part, Entry(f, DefaultKey(f)).type))
<1> DEFINE k == DefaultKey(f)
<1>1. FitsKey(f, s, k, Coerce(part, Entry(f, k).type))
  BY Defaulted, KeyIsWord, Coerced DEF FitsKey, PartSet
<1>2. ASSUME NEW r PROVE ReadPart(f, s, r, part) = Put(r, k, Coerce(part, Entry(f, k).type))
  BY DEF ReadPart
<1>3. QED
  BY <1>1, <1>2 DEF PutsOne

LEMMA NamedPart ==
  ASSUME NEW f, IsFormat(f), NEW s \in BOOLEAN, NEW part \in PartSet, Len(part) > 1,
         ~Malformed(part), s => part[1] \in Keys(f)
  PROVE  LET key == part[1]
             entry == Entry(f, key)
             named == IF entry.alias = Unset THEN key ELSE entry.alias
             value == Coerce(Tail(part), Entry(f, named).type) IN
         IF entry.keyAlias = Unset THEN PutsOne(f, s, part, named, value)
         ELSE PutsTwo(f, s, part, entry.keyAlias, Text(<<key>>), named, value)
<1> DEFINE key == part[1]
           entry == Entry(f, key)
           named == IF entry.alias = Unset THEN key ELSE entry.alias
           value == Coerce(Tail(part), Entry(f, named).type)
<1>1. Tail(part) \in Words /\ key # Empty /\ key # Unset /\ key \in Word /\ part # <<Empty>>
  BY Shape DEF PartSet, Malformed
<1>2. FitsKey(f, s, named, value)
  <2>1. CASE entry.alias = Unset
    BY <1>1, <2>1, Coerced DEF FitsKey
  <2>2. CASE entry.alias # Unset
    <3>1. key \in Keys(f)
      BY <2>2, Undeclared
    <3>2. named \in Keys(f) /\ Entry(f, named).alias = Unset /\ named \in Word \ {Empty, Unset}
      <4>1. named = Entry(f, key).alias /\ Entry(f, key).alias # Unset
        BY <2>2
      <4> HIDE DEF named, entry, key
      <4>2. named \in Keys(f) /\ Entry(f, named).alias = Unset
        BY <3>1, <4>1, AliasLeads
      <4>3. QED
        BY <4>2, KeyIsWord
    <3>3. QED
      BY <1>1, <3>2, Coerced DEF FitsKey
  <2>3. QED
    BY <2>1, <2>2
<1>3. ASSUME NEW r, OwnNames(f, r)
      PROVE  ReadPart(f, s, r, part) = PutNamed(f, r, key, Tail(part))
  BY <1>1 DEF ReadPart
<1>4. ASSUME entry.keyAlias = Unset, NEW r, OwnNames(f, r)
      PROVE  PutNamed(f, r, key, Tail(part)) = Put(r, named, value)
  <2>1. CASE key \notin DOMAIN r.bag
    BY <1>4, <2>1 DEF PutNamed
  <2>2. CASE key \in DOMAIN r.bag
    <3>1. entry.alias = Unset /\ named = key
      BY <1>4, <2>2 DEF OwnNames
    <3>2. Put(r, named, value) = Refused
      BY <2>2, <3>1 DEF Put
    <3>3. QED
      BY <2>2, <3>2 DEF PutNamed
  <2>3. QED
    BY <2>1, <2>2
<1>5. CASE entry.keyAlias = Unset
  BY <1>2, <1>3, <1>4, <1>5 DEF PutsOne
<1>6. CASE entry.keyAlias # Unset
  <2>1. key \in Keys(f)
    BY <1>6, Undeclared
  <2> DEFINE first == entry.keyAlias
  <2>2. /\ entry.alias # Unset /\ first \in Keys(f) /\ first # entry.alias
        /\ Entry(f, first).default /\ Entry(f, first).type = "string"
    BY <1>6, <2>1, PairLeads
  <2>3. first = DefaultKey(f) /\ DefaultKey(f) # Unset
    <3>1. DefaultKey(f) = first
      BY <2>2, TheDefault
    <3>2. first # Unset
      BY <2>2, KeyIsWord
    <3>3. QED
      BY <3>1, <3>2
  <2>4. Entry(f, first).alias = Unset /\ first \in Word \ {Empty, Unset}
    BY <2>3, Defaulted, KeyIsWord
  <2>5. Text(<<key>>).words = <<key>> /\ <<key>> \in Words
    BY <1>1, Written DEF Text
  <2>6. Text(<<key>>) = Coerce(<<key>>, Entry(f, first).type)
    BY <2>2 DEF Coerce
  <2>7. FitsKey(f, s, first, Text(<<key>>))
    BY <2>2, <2>4, <2>5, <2>6 DEF FitsKey
  <2>8. ASSUME NEW r, OwnNames(f, r)
        PROVE  PutNamed(f, r, key, Tail(part)) = Put(Put(r, first, Text(<<key>>)), named, value)
    BY <2>2, <2>8, <1>6 DEF PutNamed, OwnNames
  <2>9. PutsTwo(f, s, part, first, Text(<<key>>), named, value)
    BY <1>2, <1>3, <2>2, <2>7, <2>8 DEF PutsTwo
  <2>10. QED
    BY <1>6, <2>9
<1>7. QED
  BY <1>5, <1>6

LEMMA PartKinds ==
  ASSUME NEW f, IsFormat(f), NEW s \in BOOLEAN, NEW part \in PartSet
  PROVE  \/ Skips(f, s, part) \/ Fails(f, s, part)
         \/ \E k, v : PutsOne(f, s, part, k, v)
         \/ \E j, u, k, v : PutsTwo(f, s, part, j, u, k, v)
<1>1. CASE part = <<Empty>>
  BY <1>1 DEF Skips, ReadPart
<1>2. CASE Len(part) = 1 /\ part # <<Empty>> /\ DefaultKey(f) = Unset
  BY <1>2 DEF Fails, ReadPart
<1>3. CASE Len(part) = 1 /\ part # <<Empty>> /\ DefaultKey(f) # Unset
  BY <1>3, BarePart
<1>4. CASE Len(part) > 1 /\ (Malformed(part) \/ (s /\ part[1] \notin Keys(f)))
  <2>1. part # <<Empty>>
    BY <1>4, Shape DEF PartSet
  <2>2. QED
    BY <1>4, <2>1 DEF Fails, ReadPart
<1>5. CASE Len(part) > 1 /\ ~Malformed(part) /\ (s => part[1] \in Keys(f))
  BY <1>5, NamedPart
<1>6. Len(part) \in Nat \ {0}
  BY Shape DEF PartSet
<1>7. Len(part) = 1 \/ Len(part) > 1
  BY <1>6
<1>8. QED
  BY <1>1, <1>2, <1>3, <1>4, <1>5, <1>7, Zenon

-----------------------------------------------------------------------------
(* What a part puts into an empty bag, and what it adds to any other.      *)
Piece(f, s, part) == ReadPart(f, s, Bag(NoKeys), part)
Merge(b, c) == [k \in DOMAIN b \cup DOMAIN c |-> IF k \in DOMAIN c THEN c[k] ELSE b[k]]
Apart(b, c) == DOMAIN b \cap DOMAIN c = {}

Adds(f, s, part) ==
  /\ Piece(f, s, part) = Refused \/ Piece(f, s, part) = Bag(Piece(f, s, part).bag)
  /\ Clean(f, s, Piece(f, s, part).bag)
  /\ ReadPart(f, s, Refused, part) = Refused
  /\ \A b : Clean(f, s, b) =>
       ReadPart(f, s, Bag(b), part) =
         IF Piece(f, s, part).ok /\ Apart(b, Piece(f, s, part).bag)
         THEN Bag(Merge(b, Piece(f, s, part).bag)) ELSE Refused

LEMMA Emptied == DOMAIN NoKeys = {} /\ Refused.bag = NoKeys /\ ~Refused.ok /\ (\A b : Bag(b).bag = b /\ Bag(b).ok)
  BY DEF Refused, Bag, NoKeys

LEMMA CleanEmpty ==
  ASSUME NEW f, NEW s
  PROVE  Clean(f, s, NoKeys) /\ OwnNames(f, Refused) /\ \A b : Clean(f, s, b) => OwnNames(f, Bag(b))
<1>1. DOMAIN NoKeys = {} /\ NoKeys = [k \in DOMAIN NoKeys |-> NoKeys[k]] /\ IsFiniteSet({})
  BY FS_EmptySet DEF NoKeys
<1>2. Clean(f, s, NoKeys)
  BY <1>1 DEF Clean
<1>3. QED
  BY <1>2, Emptied DEF OwnNames, Clean, FitsKey

LEMMA Puts ==
  ASSUME NEW k, NEW v
  PROVE  /\ Put(Refused, k, v) = Refused
         /\ \A b : Put(Bag(b), k, v) = IF k \in DOMAIN b THEN Refused ELSE Bag(With(b, k, v))
  BY Emptied DEF Put

LEMMA Withs ==
  ASSUME NEW f, NEW s, NEW b, Clean(f, s, b), NEW k, NEW v, FitsKey(f, s, k, v)
  PROVE  Clean(f, s, With(b, k, v)) /\ DOMAIN With(b, k, v) = DOMAIN b \cup {k}
<1>1. DOMAIN With(b, k, v) = DOMAIN b \cup {k} /\ With(b, k, v)[k] = v
  BY DEF With
<1>2. \A x \in DOMAIN b : x # k => With(b, k, v)[x] = b[x]
  BY DEF With
<1>3. With(b, k, v) = [x \in DOMAIN With(b, k, v) |-> With(b, k, v)[x]]
  BY DEF With
<1>4. IsFiniteSet(DOMAIN b \cup {k})
  BY FS_AddElement DEF Clean
<1>5. QED
  BY <1>1, <1>2, <1>3, <1>4 DEF Clean

LEMMA First ==
  ASSUME NEW f, NEW s, NEW k, NEW v, FitsKey(f, s, k, v)
  PROVE  Clean(f, s, With(NoKeys, k, v))
  BY CleanEmpty, Withs

LEMMA FirstIs == \A k, v : DOMAIN With(NoKeys, k, v) = {k} /\ With(NoKeys, k, v)[k] = v
  BY Emptied DEF With

LEMMA PieceOne ==
  ASSUME NEW f, NEW s, NEW part, NEW k, NEW v, PutsOne(f, s, part, k, v)
  PROVE  Piece(f, s, part) = Bag(With(NoKeys, k, v)) /\ ReadPart(f, s, Refused, part) = Refused
<1>1. FitsKey(f, s, k, v) /\ \A r : OwnNames(f, r) => ReadPart(f, s, r, part) = Put(r, k, v)
  BY DEF PutsOne
<1>2. ReadPart(f, s, Refused, part) = Put(Refused, k, v) /\ Piece(f, s, part) = Put(Bag(NoKeys), k, v)
  BY <1>1, CleanEmpty DEF Piece
<1>3. Put(Bag(NoKeys), k, v) = Bag(With(NoKeys, k, v))
  BY Puts, Emptied
<1>4. QED
  BY <1>2, <1>3, Puts

LEMMA PieceTwo ==
  ASSUME NEW f, NEW s, NEW part, NEW j, NEW u, NEW k, NEW v, PutsTwo(f, s, part, j, u, k, v)
  PROVE  /\ Piece(f, s, part) = Bag(With(With(NoKeys, j, u), k, v))
         /\ ReadPart(f, s, Refused, part) = Refused
<1>1. FitsKey(f, s, j, u) /\ FitsKey(f, s, k, v) /\ j # k
  BY DEF PutsTwo
<1>2. \A r : OwnNames(f, r) => ReadPart(f, s, r, part) = Put(Put(r, j, u), k, v)
  BY DEF PutsTwo
<1>3. /\ ReadPart(f, s, Refused, part) = Put(Put(Refused, j, u), k, v)
      /\ Piece(f, s, part) = Put(Put(Bag(NoKeys), j, u), k, v)
  BY <1>2, CleanEmpty DEF Piece
<1>4. Put(Bag(NoKeys), j, u) = Bag(With(NoKeys, j, u))
  BY Puts, Emptied
<1>5. k \notin DOMAIN With(NoKeys, j, u)
  <2>1. DOMAIN With(NoKeys, j, u) = {j}
    BY FirstIs
  <2>2. QED
    BY <1>1, <2>1
<1>6. Put(Bag(With(NoKeys, j, u)), k, v) = Bag(With(With(NoKeys, j, u), k, v))
  BY <1>5, Puts
<1>7. QED
  BY <1>3, <1>4, <1>6, Puts

LEMMA Pieces ==
  ASSUME NEW f, IsFormat(f), NEW s \in BOOLEAN, NEW part \in PartSet
  PROVE  Adds(f, s, part)
<1> DEFINE P == Piece(f, s, part)
<1>1. CASE Skips(f, s, part)
  <2>1. P = Bag(NoKeys) /\ ReadPart(f, s, Refused, part) = Refused
    BY <1>1, CleanEmpty DEF Skips, Piece
  <2>2. ASSUME NEW b, Clean(f, s, b)
        PROVE  ReadPart(f, s, Bag(b), part) = Bag(b) /\ Apart(b, P.bag) /\ Merge(b, P.bag) = b
    <3>1. P.bag = NoKeys /\ b = [k \in DOMAIN b |-> b[k]]
      BY <2>1, <2>2, Emptied DEF Clean
    <3>2. Merge(b, NoKeys) = b
      BY <3>1, Emptied DEF Merge
    <3>3. QED
      BY <1>1, <2>2, <3>1, <3>2, CleanEmpty, Emptied DEF Skips, Apart
  <2> HIDE DEF P
  <2>0. P.bag = NoKeys
    BY <2>1, Emptied
  <2>3. P.ok /\ P = Bag(P.bag)
    <3>1. P = Bag(NoKeys)
      BY <2>1
    <3>2. P.ok
      BY <3>1, Emptied
    <3>3. QED
      BY <2>0, <3>1, <3>2
  <2>4. Clean(f, s, P.bag)
    BY <2>0, CleanEmpty
  <2>5. QED
    BY <2>1, <2>2, <2>3, <2>4 DEF Adds, P
<1>2. CASE Fails(f, s, part)
  <2>1. P = Refused /\ \A b : Clean(f, s, b) => ReadPart(f, s, Bag(b), part) = Refused
    BY <1>2, CleanEmpty DEF Fails, Piece
  <2>2. ReadPart(f, s, Refused, part) = Refused
    BY <1>2, CleanEmpty DEF Fails
  <2> HIDE DEF P
  <2>3. ~P.ok /\ P.bag = NoKeys
    BY <2>1, Emptied
  <2>4. Clean(f, s, P.bag)
    BY <2>3, CleanEmpty
  <2>5. QED
    BY <2>1, <2>2, <2>3, <2>4 DEF Adds, P
<1>3. ASSUME NEW k, NEW v, PutsOne(f, s, part, k, v) PROVE Adds(f, s, part)
  <2>1. FitsKey(f, s, k, v) /\ \A r : OwnNames(f, r) => ReadPart(f, s, r, part) = Put(r, k, v)
    BY <1>3 DEF PutsOne
  <2> DEFINE c == With(NoKeys, k, v)
  <2>2. ReadPart(f, s, Refused, part) = Refused /\ P = Bag(c)
    BY <1>3, PieceOne
  <2>3. Clean(f, s, c) /\ DOMAIN c = {k} /\ c[k] = v
    BY <2>1, First, FirstIs
  <2>4. P.ok /\ P.bag = c
    BY <2>2, Emptied
  <2> HIDE DEF c
  <2>5. ASSUME NEW b, Clean(f, s, b)
        PROVE  ReadPart(f, s, Bag(b), part) = IF P.ok /\ Apart(b, P.bag) THEN Bag(Merge(b, P.bag)) ELSE Refused
    <3>1. ReadPart(f, s, Bag(b), part) = IF k \in DOMAIN b THEN Refused ELSE Bag(With(b, k, v))
      BY <2>1, <2>5, CleanEmpty, Puts
    <3>2. Apart(b, c) <=> k \notin DOMAIN b
      BY <2>3 DEF Apart
    <3>3. Merge(b, c) = With(b, k, v)
      BY <2>3 DEF Merge, With
    <3>4. QED
      BY <2>4, <3>1, <3>2, <3>3
  <2> HIDE DEF P
  <2>6. QED
    BY <2>2, <2>3, <2>4, <2>5 DEF Adds, P
<1>4. ASSUME NEW j, NEW u, NEW k, NEW v, PutsTwo(f, s, part, j, u, k, v) PROVE Adds(f, s, part)
  <2>1. /\ FitsKey(f, s, k, v) /\ FitsKey(f, s, j, u) /\ j # k
        /\ \A r : OwnNames(f, r) => ReadPart(f, s, r, part) = Put(Put(r, j, u), k, v)
    BY <1>4 DEF PutsTwo
  <2> DEFINE d == With(NoKeys, j, u)
             c == With(d, k, v)
  <2>2. Clean(f, s, d) /\ DOMAIN d = {j} /\ d[j] = u
    BY <2>1, First, FirstIs
  <2> HIDE DEF d
  <2>4. Clean(f, s, c) /\ DOMAIN c = {j, k} /\ c[k] = v /\ c[j] = u
    BY <2>1, <2>2, Withs DEF With
  <2>6. ReadPart(f, s, Refused, part) = Refused /\ P = Bag(c)
    BY <1>4, PieceTwo DEF d
  <2>7. P.ok /\ P.bag = c
    BY <2>6, Emptied
  <2> HIDE DEF c
  <2>8. ASSUME NEW b, Clean(f, s, b)
        PROVE  ReadPart(f, s, Bag(b), part) = IF P.ok /\ Apart(b, P.bag) THEN Bag(Merge(b, P.bag)) ELSE Refused
    <3>1. ReadPart(f, s, Bag(b), part) = Put(Put(Bag(b), j, u), k, v)
      BY <2>1, <2>8, CleanEmpty
    <3>2. Apart(b, c) <=> k \notin DOMAIN b /\ j \notin DOMAIN b
      BY <2>4 DEF Apart
    <3>3. Merge(b, c) = With(With(b, j, u), k, v)
      BY <2>1, <2>4 DEF Merge, With
    <3>4. DOMAIN With(b, j, u) = DOMAIN b \cup {j}
      BY DEF With
    <3>5. CASE j \in DOMAIN b
      BY <2>7, <3>1, <3>2, <3>5, Puts
    <3>6. CASE j \notin DOMAIN b
      <4>1. Put(Bag(b), j, u) = Bag(With(b, j, u))
        BY <3>6, Puts
      <4>2. Put(Bag(With(b, j, u)), k, v) = IF k \in DOMAIN With(b, j, u) THEN Refused ELSE Bag(With(With(b, j, u), k, v))
        BY Puts
      <4>3. QED
        BY <2>1, <2>7, <3>1, <3>2, <3>3, <3>4, <3>6, <4>1, <4>2
    <3>7. QED
      BY <3>5, <3>6
  <2> HIDE DEF P
  <2>9. QED
    BY <2>4, <2>6, <2>7, <2>8 DEF Adds, P
<1>5. QED
  BY <1>1, <1>2, <1>3, <1>4, PartKinds

-----------------------------------------------------------------------------
(* Induction up to a number.                                               *)
LEMMA Reaches ==
  ASSUME NEW k \in Nat, NEW S, 0 \in S, \A n \in 0..(k - 1) : n \in S => n + 1 \in S
  PROVE  \A n \in 0..k : n \in S
<1> DEFINE R == OpToRel(<, Nat)
           T == (0..k) \ S
<1>1. IsWellFoundedOn(R, Nat)
  BY NatLessThanWellFounded
<1>2. \A m, n \in Nat : m < n => <<m, n>> \in R
  BY DEF OpToRel
<1>3. T \subseteq Nat /\ \A n \in 0..k : n \in S \/ n \in T
  OBVIOUS
<1>4. \A n \in T : n \in 0..k /\ n \notin S
  OBVIOUS
<1> HIDE DEF R, T
<1>5. ASSUME T # {} PROVE FALSE
  <2>1. PICK m \in T : \A n \in T : ~(<<n, m>> \in R)
    BY <1>1, <1>3, <1>5, WFMin
  <2>2. m \in 0..k /\ m # 0
    BY <1>4, <2>1
  <2>3. m - 1 \in 0..(k - 1) /\ (m - 1) + 1 = m /\ m - 1 \in 0..k /\ m - 1 \in Nat /\ m - 1 < m /\ m \in Nat
    BY ONLY <2>2, k \in Nat
  <2>4. m - 1 \notin T
    BY <1>2, <2>1, <2>3
  <2>5. m - 1 \in S
    BY <1>3, <2>3, <2>4
  <2>6. m \in S
    BY <2>3, <2>5
  <2>7. QED
    BY <1>4, <2>1, <2>6
<1>6. QED
  BY <1>3, <1>5

(* The bags that a text is read through.                                   *)
ReadFrom(f, s, t, n, g) ==
  g = [i \in 0..n |-> IF i = 0 THEN Bag(NoKeys) ELSE ReadPart(f, s, g[i - 1], t[i])]

LEMMA Reading ==
  ASSUME NEW f, NEW s, NEW t, Len(t) \in Nat
  PROVE  \E g : ReadFrom(f, s, t, Len(t), g) /\ Parse(f, t, s) = g[Len(t)]
<1> DEFINE S == {n \in Nat : \E g : ReadFrom(f, s, t, n, g)}
<1>1. 0 \in S
  <2>1. ReadFrom(f, s, t, 0, [i \in 0..0 |-> Bag(NoKeys)])
    BY DEF ReadFrom
  <2>2. QED
    BY <2>1
<1>2. ASSUME NEW n \in 0..(Len(t) - 1), n \in S PROVE n + 1 \in S
  <2>1. PICK g : ReadFrom(f, s, t, n, g)
    BY <1>2
  <2>2. g = [i \in 0..n |-> IF i = 0 THEN Bag(NoKeys) ELSE ReadPart(f, s, g[i - 1], t[i])]
    BY <2>1 DEF ReadFrom
  <2> DEFINE h == [i \in 0..(n + 1) |-> IF i <= n THEN g[i] ELSE ReadPart(f, s, g[n], t[n + 1])]
  <2>3. ASSUME NEW i \in 0..(n + 1)
        PROVE  h[i] = IF i = 0 THEN Bag(NoKeys) ELSE ReadPart(f, s, h[i - 1], t[i])
    <3>1. CASE i = 0
      <4>1. h[i] = g[0] /\ g[0] = Bag(NoKeys)
        BY <2>2, <3>1
      <4>2. QED
        BY <3>1, <4>1
    <3>2. CASE i # 0 /\ i <= n
      <4>1. i \in 0..n /\ i - 1 \in 0..(n + 1) /\ i - 1 <= n
        BY <3>2
      <4>2. h[i] = g[i] /\ h[i - 1] = g[i - 1]
        BY <3>2, <4>1
      <4>3. g[i] = ReadPart(f, s, g[i - 1], t[i])
        BY ONLY <2>2, <3>2, <4>1
      <4> HIDE DEF h
      <4>4. QED
        BY <3>2, <4>2, <4>3
    <3>3. CASE i = n + 1
      <4>1. n \in 0..(n + 1) /\ i - 1 = n /\ i # 0
        BY <3>3
      <4>2. h[i] = ReadPart(f, s, g[n], t[n + 1]) /\ h[n] = g[n]
        BY <3>3, <4>1
      <4> HIDE DEF h
      <4>3. QED
        BY <3>3, <4>1, <4>2
    <3>4. QED
      BY <3>1, <3>2, <3>3
  <2>4. ReadFrom(f, s, t, n + 1, h)
    <3>1. h = [i \in 0..(n + 1) |-> h[i]]
      OBVIOUS
    <3> HIDE DEF h
    <3>2. QED
      BY <2>3, <3>1 DEF ReadFrom
  <2> HIDE DEF h
  <2>5. QED
    BY <2>4
<1> HIDE DEF S
<1>3. Len(t) \in S
  <2>1. \A n \in 0..Len(t) : n \in S
    BY <1>1, <1>2, Reaches
  <2>2. Len(t) \in 0..Len(t)
    OBVIOUS
  <2>3. QED
    BY <2>1, <2>2
<1>4. \E g : ReadFrom(f, s, t, Len(t), g)
  BY <1>3 DEF S
<1> DEFINE h == CHOOSE g : g = [i \in 0..Len(t) |-> IF i = 0 THEN Bag(NoKeys) ELSE ReadPart(f, s, g[i - 1], t[i])]
<1>5. ReadFrom(f, s, t, Len(t), h)
  BY <1>4 DEF ReadFrom
<1>6. Parse(f, t, s) = h[Len(t)]
  BY DEF Parse
<1> HIDE DEF h
<1>7. QED
  BY <1>5, <1>6

(* The first parts of a text can be read: each puts something or nothing   *)
(* and no two put the same sub-key.                                        *)
Fit(f, s, t, n) ==
  \A i \in 1..n : /\ Piece(f, s, t[i]).ok
                  /\ \A j \in 1..n : j # i => Apart(Piece(f, s, t[i]).bag, Piece(f, s, t[j]).bag)

(* What they put together.                                                 *)
Joins(f, s, t, n, b) ==
  /\ Clean(f, s, b)
  /\ \A k : k \in DOMAIN b <=> \E i \in 1..n : k \in DOMAIN Piece(f, s, t[i]).bag
  /\ \A i \in 1..n : \A k \in DOMAIN Piece(f, s, t[i]).bag : b[k] = Piece(f, s, t[i]).bag[k]

Reads(f, s, t, n, r) ==
  \/ Fit(f, s, t, n) /\ \E b : Joins(f, s, t, n, b) /\ r = Bag(b)
  \/ ~Fit(f, s, t, n) /\ r = Refused

LEMMA Merges ==
  ASSUME NEW f, NEW s, NEW b, Clean(f, s, b), NEW c, Clean(f, s, c)
  PROVE  /\ Clean(f, s, Merge(b, c))
         /\ \A k : k \in DOMAIN Merge(b, c) <=> k \in DOMAIN b \/ k \in DOMAIN c
         /\ \A k \in DOMAIN c : Merge(b, c)[k] = c[k]
         /\ \A k \in DOMAIN b : k \notin DOMAIN c => Merge(b, c)[k] = b[k]
<1>1. /\ DOMAIN Merge(b, c) = DOMAIN b \cup DOMAIN c
      /\ \A k \in DOMAIN c : Merge(b, c)[k] = c[k]
      /\ \A k \in DOMAIN b : k \notin DOMAIN c => Merge(b, c)[k] = b[k]
  BY DEF Merge
<1>2. Merge(b, c) = [k \in DOMAIN Merge(b, c) |-> Merge(b, c)[k]]
  BY DEF Merge
<1>3. IsFiniteSet(DOMAIN b \cup DOMAIN c)
  BY FS_Union DEF Clean
<1>4. QED
  BY <1>1, <1>2, <1>3 DEF Clean

LEMMA ReadsOn ==
  ASSUME NEW f, IsFormat(f), NEW s \in BOOLEAN, NEW t \in Seq(PartSet),
         NEW n \in 0..(Len(t) - 1), NEW r, Reads(f, s, t, n, r)
  PROVE  Reads(f, s, t, n + 1, ReadPart(f, s, r, t[n + 1]))
<1> DEFINE P(i) == Piece(f, s, t[i])
<1>1. n \in Nat /\ n + 1 \in 1..Len(t) /\ (\A i : i \in 1..(n + 1) <=> i \in 1..n \/ i = n + 1) /\ n + 1 \notin 1..n
  OBVIOUS
<1>2. Adds(f, s, t[n + 1])
  BY <1>1, Pieces
<1>3. CASE ~Fit(f, s, t, n) /\ r = Refused
  <2>1. ~Fit(f, s, t, n + 1)
    BY <1>1, <1>3 DEF Fit
  <2>2. ReadPart(f, s, r, t[n + 1]) = Refused
    BY <1>2, <1>3 DEF Adds
  <2>3. QED
    BY <2>1, <2>2 DEF Reads
<1>4. ASSUME Fit(f, s, t, n), NEW b, Joins(f, s, t, n, b), r = Bag(b)
      PROVE  Reads(f, s, t, n + 1, ReadPart(f, s, r, t[n + 1]))
  <2>1. Clean(f, s, b) /\ Clean(f, s, P(n + 1).bag)
    BY <1>2, <1>4 DEF Joins, Adds
  <2>2. ReadPart(f, s, r, t[n + 1]) =
          IF P(n + 1).ok /\ Apart(b, P(n + 1).bag) THEN Bag(Merge(b, P(n + 1).bag)) ELSE Refused
    BY <1>2, <1>4, <2>1 DEF Adds
  <2>3. Apart(b, P(n + 1).bag) <=> \A i \in 1..n : Apart(P(i).bag, P(n + 1).bag)
    BY <1>4 DEF Joins, Apart
  <2>4. \A i, j : Apart(P(i).bag, P(j).bag) <=> Apart(P(j).bag, P(i).bag)
    BY DEF Apart
  <2> HIDE DEF P
  <2>5. Fit(f, s, t, n + 1) <=> P(n + 1).ok /\ Apart(b, P(n + 1).bag)
    <3>1. ASSUME NEW m \in {n, n + 1}
          PROVE  Fit(f, s, t, m) <=> \A i \in 1..m : P(i).ok /\ \A j \in 1..m : j # i => Apart(P(i).bag, P(j).bag)
      BY DEF Fit, P
    <3>2. QED
      BY <1>1, <1>4, <2>3, <2>4, <3>1
  <2>6. CASE P(n + 1).ok /\ Apart(b, P(n + 1).bag)
    <3> DEFINE c == Merge(b, P(n + 1).bag)
    <3>1. /\ Clean(f, s, c)
          /\ \A k : k \in DOMAIN c <=> k \in DOMAIN b \/ k \in DOMAIN P(n + 1).bag
          /\ \A k \in DOMAIN P(n + 1).bag : c[k] = P(n + 1).bag[k]
          /\ \A k \in DOMAIN b : k \notin DOMAIN P(n + 1).bag => c[k] = b[k]
      BY <2>1, Merges DEF P
    <3>2. /\ \A k : k \in DOMAIN b <=> \E i \in 1..n : k \in DOMAIN P(i).bag
          /\ \A i \in 1..n : \A k \in DOMAIN P(i).bag : b[k] = P(i).bag[k]
      BY <1>4 DEF Joins, P
    <3> HIDE DEF c
    <3>3. \A k : k \in DOMAIN c <=> \E i \in 1..(n + 1) : k \in DOMAIN P(i).bag
      BY <1>1, <3>1, <3>2
    <3>4. \A i \in 1..(n + 1) : \A k \in DOMAIN P(i).bag : c[k] = P(i).bag[k]
      BY <1>1, <2>6, <3>1, <3>2 DEF Apart
    <3>5. Joins(f, s, t, n + 1, c)
      BY <3>1, <3>3, <3>4 DEF Joins, P
    <3>6. ReadPart(f, s, r, t[n + 1]) = Bag(c)
      BY <2>2, <2>6 DEF c
    <3>7. QED
      BY <2>5, <2>6, <3>5, <3>6 DEF Reads
  <2>7. CASE ~(P(n + 1).ok /\ Apart(b, P(n + 1).bag))
    BY <2>2, <2>5, <2>7 DEF Reads
  <2>8. QED
    BY <2>6, <2>7
<1>5. QED
  BY <1>3, <1>4 DEF Reads

LEMMA ParseReads ==
  ASSUME NEW f, IsFormat(f), NEW s \in BOOLEAN, NEW t \in Seq(PartSet)
  PROVE  Reads(f, s, t, Len(t), Parse(f, t, s))
<1>1. PICK g : ReadFrom(f, s, t, Len(t), g) /\ Parse(f, t, s) = g[Len(t)]
  BY Reading
<1>2. g = [i \in 0..Len(t) |-> IF i = 0 THEN Bag(NoKeys) ELSE ReadPart(f, s, g[i - 1], t[i])]
  BY <1>1 DEF ReadFrom
<1> DEFINE S == {n \in 0..Len(t) : Reads(f, s, t, n, g[n])}
<1>3. 0 \in S
  <2>1. g[0] = Bag(NoKeys)
    BY <1>2
  <2>2. Joins(f, s, t, 0, NoKeys)
    BY CleanEmpty, Emptied DEF Joins
  <2>3. Fit(f, s, t, 0)
    BY DEF Fit
  <2>4. Reads(f, s, t, 0, g[0])
    BY <2>1, <2>2, <2>3 DEF Reads
  <2>5. QED
    BY <2>4
<1>4. ASSUME NEW n \in 0..(Len(t) - 1), n \in S PROVE n + 1 \in S
  <2>1. n + 1 \in 0..Len(t) /\ n + 1 # 0 /\ (n + 1) - 1 = n
    OBVIOUS
  <2>2. g[n + 1] = ReadPart(f, s, g[n], t[n + 1])
    BY <1>2, <2>1
  <2>3. Reads(f, s, t, n + 1, g[n + 1])
    BY <1>4, <2>2, ReadsOn
  <2>4. QED
    BY <2>1, <2>3
<1> HIDE DEF S
<1>5. \A n \in 0..Len(t) : n \in S
  BY ONLY <1>3, <1>4, Len(t) \in Nat, Reaches
<1>6. Reads(f, s, t, Len(t), g[Len(t)])
  BY <1>5 DEF S
<1>7. QED
  BY <1>1, <1>6

(* What the parts put decides what is read.                                *)
LEMMA Joined ==
  ASSUME NEW f, NEW s, NEW t, NEW n, NEW b, NEW c, Joins(f, s, t, n, b), Joins(f, s, t, n, c)
  PROVE  b = c
<1>1. b = [k \in DOMAIN b |-> b[k]] /\ c = [k \in DOMAIN c |-> c[k]]
  BY DEF Joins, Clean
<1>2. \A k : k \in DOMAIN b <=> k \in DOMAIN c
  BY DEF Joins
<1>3. \A k \in DOMAIN b : b[k] = c[k]
  BY DEF Joins
<1>4. DOMAIN b = DOMAIN c
  BY <1>2
<1>5. QED
  BY ONLY <1>1, <1>3, <1>4

LEMMA ReadsOne ==
  ASSUME NEW f, NEW s, NEW t, NEW n, NEW q, NEW r, Reads(f, s, t, n, q), Reads(f, s, t, n, r)
  PROVE  q = r
  BY Joined DEF Reads

(* The node may hand the parts of a text back in any order: it reads the   *)
(* same, or is refused in each (parsePropertyString, props.ts).            *)
THEOREM AnyOrder ==
  ASSUME NEW f, IsFormat(f), NEW s \in BOOLEAN, NEW t \in Seq(PartSet),
         NEW p \in Bijection(DOMAIN t, DOMAIN t)
  PROVE  Parse(f, [i \in DOMAIN t |-> t[p[i]]], s) = Parse(f, t, s)
<1> DEFINE n == Len(t)
           u == [i \in DOMAIN t |-> t[p[i]]]
<1>1. /\ DOMAIN t = 1..n /\ n \in Nat
      /\ \A i \in 1..n : p[i] \in 1..n
      /\ \A i, j \in 1..n : p[i] = p[j] => i = j
      /\ \A j \in 1..n : \E i \in 1..n : p[i] = j
  <2>1. DOMAIN t = 1..n /\ n \in Nat
    OBVIOUS
  <2>2. /\ p \in [1..n -> 1..n]
        /\ \A i, j \in DOMAIN p : p[i] = p[j] => i = j
        /\ \A j \in 1..n : \E i \in 1..n : p[i] = j
    BY <2>1, Zenon DEF Bijection, Injection, Surjection, IsInjective
  <2>3. QED
    BY ONLY <2>1, <2>2
<1>2. u \in Seq(PartSet) /\ Len(u) = n /\ \A i \in 1..n : u[i] = t[p[i]]
  BY <1>1
<1>3. Reads(f, s, t, n, Parse(f, t, s)) /\ Reads(f, s, u, n, Parse(f, u, s))
  BY <1>2, ParseReads
<1> HIDE DEF u, n
<1> DEFINE P(i) == Piece(f, s, t[i])
           Q(i) == Piece(f, s, u[i])
<1>8. \A i \in 1..n : Q(i) = P(p[i])
  BY <1>2
<1>9. /\ Fit(f, s, t, n) <=> \A i \in 1..n : P(i).ok /\ \A j \in 1..n : j # i => Apart(P(i).bag, P(j).bag)
      /\ Fit(f, s, u, n) <=> \A i \in 1..n : Q(i).ok /\ \A j \in 1..n : j # i => Apart(Q(i).bag, Q(j).bag)
  BY DEF Fit
<1>4. Fit(f, s, t, n) <=> Fit(f, s, u, n)
  <2> HIDE DEF P, Q
  <2>1. ASSUME Fit(f, s, t, n), NEW i \in 1..n
        PROVE  Q(i).ok /\ \A j \in 1..n : j # i => Apart(Q(i).bag, Q(j).bag)
    <3>1. p[i] \in 1..n /\ Q(i) = P(p[i]) /\ P(p[i]).ok
      BY <1>1, <1>8, <1>9, <2>1
    <3>2. ASSUME NEW j \in 1..n, j # i PROVE Apart(Q(i).bag, Q(j).bag)
      <4>1. p[j] \in 1..n /\ p[j] # p[i] /\ Q(j) = P(p[j])
        BY <1>1, <1>8, <3>2
      <4>2. QED
        BY <1>9, <2>1, <3>1, <4>1
    <3>3. QED
      BY <3>1, <3>2
  <2>2. ASSUME Fit(f, s, u, n), NEW i \in 1..n
        PROVE  P(i).ok /\ \A j \in 1..n : j # i => Apart(P(i).bag, P(j).bag)
    <3>1. PICK k \in 1..n : p[k] = i
      BY <1>1
    <3>2. Q(k).ok /\ P(i) = Q(k)
      BY <1>8, <1>9, <2>2, <3>1
    <3>3. ASSUME NEW j \in 1..n, j # i PROVE Apart(P(i).bag, P(j).bag)
      <4>1. PICK m \in 1..n : p[m] = j
        BY <1>1
      <4>2. m # k /\ P(j) = Q(m)
        BY <1>8, <3>1, <3>3, <4>1
      <4>3. QED
        BY <1>9, <2>2, <3>2, <4>2
    <3>4. QED
      BY <3>2, <3>3
  <2>3. QED
    BY <1>9, <2>1, <2>2
<1>5. ASSUME NEW b, Joins(f, s, u, n, b) PROVE Joins(f, s, t, n, b)
  <2>1. /\ Clean(f, s, b)
        /\ \A k : k \in DOMAIN b <=> \E i \in 1..n : k \in DOMAIN Q(i).bag
        /\ \A i \in 1..n : \A k \in DOMAIN Q(i).bag : b[k] = Q(i).bag[k]
    BY <1>5 DEF Joins
  <2> HIDE DEF P, Q
  <2>2. ASSUME NEW k
        PROVE  k \in DOMAIN b <=> \E i \in 1..n : k \in DOMAIN P(i).bag
    <3>1. ASSUME k \in DOMAIN b PROVE \E i \in 1..n : k \in DOMAIN P(i).bag
      <4>1. PICK j \in 1..n : k \in DOMAIN Q(j).bag
        BY <2>1, <3>1
      <4>2. p[j] \in 1..n /\ Q(j) = P(p[j])
        BY <1>1, <1>8
      <4>3. QED
        BY <4>1, <4>2
    <3>2. ASSUME NEW i \in 1..n, k \in DOMAIN P(i).bag PROVE k \in DOMAIN b
      <4>1. PICK j \in 1..n : p[j] = i
        BY <1>1
      <4>2. QED
        BY <1>8, <2>1, <3>2, <4>1
    <3>3. QED
      BY <3>1, <3>2
  <2>3. ASSUME NEW i \in 1..n, NEW k \in DOMAIN P(i).bag PROVE b[k] = P(i).bag[k]
    <3>1. PICK j \in 1..n : p[j] = i
      BY <1>1
    <3>2. QED
      BY <1>8, <2>1, <3>1
  <2>4. QED
    BY <2>1, <2>2, <2>3 DEF Joins, P
<1>6. Reads(f, s, t, n, Parse(f, u, s))
  BY <1>3, <1>4, <1>5 DEF Reads
<1>7. QED
  BY <1>3, <1>6, ReadsOne DEF u

-----------------------------------------------------------------------------
(* The order that sub-keys are written in.  What is listed first are those *)
(* that are not declared.                                                  *)
LEMMA Listing ==
  ASSUME NEW S, IsFiniteSet(S)
  PROVE  SetToSeq(S) \in Seq(S) /\ Range(SetToSeq(S)) = S
<1> DEFINE n == Cardinality(S)
           q == SetToSeq(S)
<1>1. n \in Nat /\ ExistsBijection(1..n, S) /\ IsFiniteSet(1..n) /\ Cardinality(1..n) = n
  BY FS_CardinalityType, FS_Interval
<1>2. \E g \in [1..n -> S] : IsInjective(g)
  BY <1>1 DEF ExistsBijection, Bijection, Injection
<1>3. q \in [1..n -> S] /\ IsInjective(q)
  BY <1>2 DEF SetToSeq
<1> HIDE DEF q
<1>4. q \in Injection(1..n, S)
  BY <1>3 DEF Injection
<1>5. q \in Surjection(1..n, S)
  BY <1>1, <1>4, FS_Injection
<1>6. \A k \in S : \E i \in 1..n : q[i] = k
  BY <1>5 DEF Surjection
<1>7. q \in Seq(S) /\ Range(q) = S
  BY <1>1, <1>3, <1>6 DEF Range
<1>8. QED
  BY <1>7 DEF q

(* Keys that pair up are those of the default key.                         *)
LEMMA Partners ==
  ASSUME NEW f, IsFormat(f), NEW k, k # Unset, Partner(f, k) # Unset
  PROVE  /\ k = DefaultKey(f) /\ k \in Keys(f) /\ Entry(f, k).type = "string"
         /\ Partner(f, k) # k
         /\ Entry(f, k).enum # {}
         /\ Entry(f, k).enum \subseteq {j \in Keys(f) : Entry(f, j).keyAlias # Unset}
         /\ \A j \in Keys(f) : Entry(f, j).keyAlias # Unset =>
              Entry(f, j).keyAlias = k /\ Entry(f, j).alias = Partner(f, k)
<1> DEFINE pairs == {j \in Keys(f) : Entry(f, j).keyAlias = k}
           pairing == {j \in Keys(f) : Entry(f, j).keyAlias # Unset}
<1>1. pairs # {} /\ Partner(f, k) = Entry(f, CHOOSE j \in pairs : TRUE).alias
  BY DEF Partner
<1>2. PICK j \in pairs : Partner(f, k) = Entry(f, j).alias
  BY <1>1
<1>3. ASSUME NEW i \in pairing
      PROVE  LET first == Entry(f, i).keyAlias IN
             /\ \A m \in pairing : Entry(f, m).alias = Entry(f, i).alias
             /\ first \in Keys(f) /\ first # Entry(f, i).alias
             /\ Entry(f, first).default /\ Entry(f, first).type = "string"
             /\ Entry(f, first).enum # {} /\ Entry(f, first).enum \subseteq pairing
  BY DEF IsFormat
<1>4. j \in pairing /\ Entry(f, j).keyAlias = k
  OBVIOUS
<1>5. /\ k \in Keys(f) /\ k # Partner(f, k) /\ Entry(f, k).default /\ Entry(f, k).type = "string"
      /\ Entry(f, k).enum # {} /\ Entry(f, k).enum \subseteq pairing
  BY <1>2, <1>3, <1>4
<1>6. k = DefaultKey(f)
  BY <1>5, TheDefault
<1>7. ASSUME NEW i \in pairing PROVE Entry(f, i).keyAlias = k /\ Entry(f, i).alias = Partner(f, k)
  <2>1. Entry(f, i).alias = Partner(f, k)
    BY <1>2, <1>3, <1>4
  <2>2. Entry(f, i).keyAlias \in Keys(f) /\ Entry(f, Entry(f, i).keyAlias).default
    BY <1>3
  <2>3. QED
    BY <1>6, <2>1, <2>2, TheDefault
<1>8. QED
  BY <1>5, <1>6, <1>7

(* The keys that one pass of addKey goes through.                          *)
Settled(f, w) == Range(w) \cup {Partner(f, k) : k \in Range(w)}

AddFrom(f, b, w, keys, wanted, n, g) ==
  g = [i \in 0..n |->
        IF i = 0 THEN w
        ELSE LET before == g[i - 1]
                 done == Range(before) \cup {Partner(f, k) : k \in Range(before)} IN
             IF keys[i] \in (DOMAIN b \cap wanted) \ done
             THEN Append(before, keys[i])
             ELSE before]

AddOne(f, b, before, key, wanted) ==
  IF key \in (DOMAIN b \cap wanted) \ Settled(f, before) THEN Append(before, key) ELSE before

LEMMA AddsOn ==
  ASSUME NEW f, NEW b, NEW w, NEW keys, NEW wanted, NEW n \in Nat, NEW g
  PROVE  AddFrom(f, b, w, keys, wanted, n, g) <=>
           g = [i \in 0..n |-> IF i = 0 THEN w ELSE AddOne(f, b, g[i - 1], keys[i], wanted)]
  BY DEF AddFrom, AddOne, Settled

LEMMA Adding ==
  ASSUME NEW f, NEW b, NEW w, NEW keys, NEW wanted, Len(keys) \in Nat
  PROVE  \E g : AddFrom(f, b, w, keys, wanted, Len(keys), g) /\ AddKeys(f, b, w, keys, wanted) = g[Len(keys)]
<1> DEFINE Some(n) == \E g : AddFrom(f, b, w, keys, wanted, n, g)
           S == {n \in Nat : Some(n)}
<1>1. 0 \in S
  <2>1. AddFrom(f, b, w, keys, wanted, 0, [i \in 0..0 |-> w])
    BY DEF AddFrom
  <2>2. QED
    BY <2>1
<1>2. ASSUME NEW n \in 0..(Len(keys) - 1), n \in S PROVE n + 1 \in S
  <2>1. PICK g : AddFrom(f, b, w, keys, wanted, n, g)
    BY <1>2
  <2>2. g = [i \in 0..n |-> IF i = 0 THEN w ELSE AddOne(f, b, g[i - 1], keys[i], wanted)]
    BY <2>1, AddsOn
  <2> DEFINE h == [i \in 0..(n + 1) |-> IF i <= n THEN g[i] ELSE AddOne(f, b, g[n], keys[n + 1], wanted)]
  <2>3. ASSUME NEW i \in 0..(n + 1)
        PROVE  h[i] = IF i = 0 THEN w ELSE AddOne(f, b, h[i - 1], keys[i], wanted)
    <3>1. CASE i = 0
      <4>1. h[i] = g[0] /\ g[0] = w
        BY <2>2, <3>1
      <4>2. QED
        BY <3>1, <4>1
    <3>2. CASE i # 0 /\ i <= n
      <4>1. i \in 0..n /\ i - 1 \in 0..(n + 1) /\ i - 1 <= n
        BY <3>2
      <4>2. h[i] = g[i] /\ h[i - 1] = g[i - 1]
        BY <3>2, <4>1
      <4>3. g[i] = AddOne(f, b, g[i - 1], keys[i], wanted)
        BY ONLY <2>2, <3>2, <4>1
      <4> HIDE DEF h
      <4>4. QED
        BY <3>2, <4>2, <4>3
    <3>3. CASE i = n + 1
      <4>1. n \in 0..(n + 1) /\ i - 1 = n /\ i # 0
        BY <3>3
      <4>2. h[i] = AddOne(f, b, g[n], keys[n + 1], wanted) /\ h[n] = g[n]
        BY <3>3, <4>1
      <4> HIDE DEF h
      <4>3. QED
        BY <3>3, <4>1, <4>2
    <3>4. QED
      BY <3>1, <3>2, <3>3
  <2>4. AddFrom(f, b, w, keys, wanted, n + 1, h)
    <3>1. h = [i \in 0..(n + 1) |-> h[i]]
      OBVIOUS
    <3> HIDE DEF h
    <3>2. h = [i \in 0..(n + 1) |-> IF i = 0 THEN w ELSE AddOne(f, b, h[i - 1], keys[i], wanted)]
      BY ONLY <2>3, <3>1, Zenon
    <3>3. n + 1 \in Nat
      OBVIOUS
    <3>4. QED
      BY <3>2, <3>3, AddsOn
  <2> HIDE DEF h
  <2>5. QED
    BY <2>4
<1> HIDE DEF S
<1>3. Len(keys) \in S
  <2>1. \A n \in 0..Len(keys) : n \in S
    BY <1>1, <1>2, Reaches
  <2>2. Len(keys) \in 0..Len(keys)
    OBVIOUS
  <2>3. QED
    BY <2>1, <2>2
<1>4. \E g : AddFrom(f, b, w, keys, wanted, Len(keys), g)
  <2> HIDE DEF Some
  <2>1. Some(Len(keys))
    BY ONLY <1>3, Zenon DEF S
  <2>2. QED
    BY ONLY <2>1, Zenon DEF Some
<1> DEFINE h == CHOOSE g : g =
      [i \in 0..Len(keys) |->
        IF i = 0 THEN w
        ELSE LET before == g[i - 1]
                 done == Range(before) \cup {Partner(f, k) : k \in Range(before)} IN
             IF keys[i] \in (DOMAIN b \cap wanted) \ done
             THEN Append(before, keys[i])
             ELSE before]
<1>5. AddFrom(f, b, w, keys, wanted, Len(keys), h)
  BY <1>4 DEF AddFrom
<1>6. AddKeys(f, b, w, keys, wanted) = h[Len(keys)]
  BY DEF AddKeys
<1> HIDE DEF h
<1>7. QED
  BY <1>5, <1>6

(* What addKey has written so far: sub-keys that are set, none twice, none *)
(* that went out with another; the default key, if set, is among them.     *)
Lists(f, b, w) ==
  /\ w \in Seq(DOMAIN b)
  /\ \A i, j \in 1..Len(w) : w[i] = w[j] => i = j
  /\ \A i, j \in 1..Len(w) : w[i] # Partner(f, w[j])

Started(f, b, w) ==
  Lists(f, b, w) /\ (DefaultKey(f) \in DOMAIN b => DefaultKey(f) \in Range(w))

(* A key after the first.                                                  *)
LEMMA AddOneMore ==
  ASSUME NEW f, IsFormat(f), NEW b, Unset \notin DOMAIN b, NEW w, Started(f, b, w), NEW key, NEW wanted
  PROVE  LET u == AddOne(f, b, w, key, wanted) IN
         /\ Started(f, b, u)
         /\ Range(w) \subseteq Range(u) /\ Settled(f, w) \subseteq Settled(f, u)
         /\ key \in DOMAIN b \cap wanted => key \in Settled(f, u)
<1> DEFINE u == AddOne(f, b, w, key, wanted)
<1>1. CASE ~(key \in (DOMAIN b \cap wanted) \ Settled(f, w))
  <2>1. u = w
    BY <1>1 DEF AddOne
  <2>2. QED
    BY <1>1, <2>1
<1>2. CASE key \in (DOMAIN b \cap wanted) \ Settled(f, w)
  <2> DEFINE n == Len(w)
  <2>1. n \in Nat /\ w \in Seq(DOMAIN b) /\ DOMAIN w = 1..n
    BY DEF Started, Lists
  <2>2. u = Append(w, key) /\ key \in DOMAIN b
    BY <1>2 DEF AddOne
  <2>3. /\ u \in Seq(DOMAIN b) /\ Len(u) = n + 1 /\ DOMAIN u = 1..(n + 1)
        /\ u[n + 1] = key /\ \A i \in 1..n : u[i] = w[i]
    BY <2>1, <2>2
  <2>4. \A i : i \in 1..(n + 1) <=> i \in 1..n \/ i = n + 1
    BY <2>1
  <2> HIDE DEF n, u
  <2>5. Range(u) = Range(w) \cup {key}
    <3>1. ASSUME NEW x \in Range(u) PROVE x \in Range(w) \cup {key}
      BY <2>1, <2>3, <2>4 DEF Range
    <3>2. ASSUME NEW x \in Range(w) PROVE x \in Range(u)
      BY <2>1, <2>3, <2>4 DEF Range
    <3>3. key \in Range(u)
      BY <2>1, <2>3, <2>4 DEF Range
    <3>4. QED
      BY <3>1, <3>2, <3>3
  <2>6. \A i \in 1..n : w[i] \in Range(w) /\ w[i] # key /\ key # Partner(f, w[i])
    BY <1>2, <2>1 DEF Range, Settled
  <2>7. Partner(f, key) # key /\ \A i \in 1..n : w[i] # Partner(f, key)
    <3>1. key # Unset
      BY <2>2
    <3>2. CASE Partner(f, key) = Unset
      BY <2>1, <3>1, <3>2
    <3>3. CASE Partner(f, key) # Unset
      <4>1. key = DefaultKey(f) /\ Partner(f, key) # key
        BY <3>1, <3>3, Partners
      <4>2. key \in Range(w)
        BY <2>2, <4>1 DEF Started
      <4>3. QED
        BY <1>2, <4>2 DEF Settled
    <3>4. QED
      BY <3>2, <3>3
  <2>8. \A i, j \in 1..(n + 1) : u[i] = u[j] => i = j
    BY <2>3, <2>4, <2>6 DEF Started, Lists, n
  <2>9. \A i, j \in 1..(n + 1) : u[i] # Partner(f, u[j])
    BY <2>3, <2>4, <2>6, <2>7 DEF Started, Lists, n
  <2>10. Started(f, b, u)
    BY <2>3, <2>5, <2>8, <2>9 DEF Started, Lists
  <2>11. QED
    BY <2>5, <2>10 DEF Settled, u
<1>3. QED
  BY <1>1, <1>2

Covers(f, b, w, keys, wanted, n) ==
  \A i \in 1..n : keys[i] \in DOMAIN b \cap wanted => keys[i] \in Settled(f, w)

LEMMA AddKeysAdds ==
  ASSUME NEW f, IsFormat(f), NEW b, Unset \notin DOMAIN b, NEW w, Started(f, b, w),
         NEW keys, Len(keys) \in Nat, NEW wanted
  PROVE  /\ Started(f, b, AddKeys(f, b, w, keys, wanted))
         /\ Covers(f, b, AddKeys(f, b, w, keys, wanted), keys, wanted, Len(keys))
<1>1. PICK g : AddFrom(f, b, w, keys, wanted, Len(keys), g) /\ AddKeys(f, b, w, keys, wanted) = g[Len(keys)]
  BY Adding
<1>2. g = [i \in 0..Len(keys) |-> IF i = 0 THEN w ELSE AddOne(f, b, g[i - 1], keys[i], wanted)]
  BY <1>1, AddsOn
<1> DEFINE Good(n) == Started(f, b, g[n]) /\ Covers(f, b, g[n], keys, wanted, n)
           S == {n \in 0..Len(keys) : Good(n)}
<1>3. 0 \in S
  BY <1>2 DEF Covers
<1>4. ASSUME NEW n \in 0..(Len(keys) - 1), n \in S PROVE n + 1 \in S
  <2>1. /\ n + 1 \in 0..Len(keys) /\ n + 1 # 0 /\ (n + 1) - 1 = n
        /\ \A i : i \in 1..(n + 1) <=> i \in 1..n \/ i = n + 1
    OBVIOUS
  <2>2. g[n + 1] = AddOne(f, b, g[n], keys[n + 1], wanted)
    BY <1>2, <2>1
  <2>3. Good(n)
    BY <1>4
  <2>4. /\ Started(f, b, g[n + 1]) /\ Settled(f, g[n]) \subseteq Settled(f, g[n + 1])
        /\ keys[n + 1] \in DOMAIN b \cap wanted => keys[n + 1] \in Settled(f, g[n + 1])
    BY <2>2, <2>3, AddOneMore
  <2>5. Covers(f, b, g[n + 1], keys, wanted, n + 1)
    BY <2>1, <2>3, <2>4 DEF Covers
  <2>6. QED
    BY <2>1, <2>4, <2>5
<1> HIDE DEF S
<1>5. \A n \in 0..Len(keys) : n \in S
  BY <1>3, <1>4, Reaches
<1>6. Len(keys) \in 0..Len(keys)
  OBVIOUS
<1>7. Good(Len(keys))
  BY <1>5, <1>6 DEF S
<1>8. QED
  BY <1>1, <1>7

(* Every sub-key that is set is written once, or goes out with another.    *)
LEMMA Ordered ==
  ASSUME NEW f, IsFormat(f), NEW s, NEW b, Clean(f, s, b)
  PROVE  Lists(f, b, Order(f, b)) /\ DOMAIN b \subseteq Settled(f, Order(f, b))
<1> DEFINE rest == SetToSeq(DOMAIN b \ Keys(f))
           keys == f.keys \o rest
           required == {k \in Keys(f) : ~Entry(f, k).optional}
           first == AddKeys(f, b, <<>>, <<DefaultKey(f)>>, DOMAIN b)
           second == AddKeys(f, b, first, keys, required)
           third == AddKeys(f, b, second, keys, DOMAIN b)
<1>1. Unset \notin DOMAIN b
  BY DEF Clean, FitsKey
<1>2. Order(f, b) = third
  BY DEF Order
<1>3. f.keys \in Seq(STRING) /\ Range(f.keys) = Keys(f)
  BY DEF IsFormat, Keys
<1>4. rest \in Seq(DOMAIN b \ Keys(f)) /\ Range(rest) = DOMAIN b \ Keys(f)
  <2>1. IsFiniteSet(DOMAIN b) /\ DOMAIN b \ Keys(f) \in SUBSET DOMAIN b
    BY DEF Clean
  <2>2. IsFiniteSet(DOMAIN b \ Keys(f))
    BY <2>1, FS_Subset
  <2>3. QED
    BY <2>2, Listing
<1> HIDE DEF rest
<1>5. Len(keys) \in Nat /\ \A k \in DOMAIN b : \E i \in 1..Len(keys) : keys[i] = k
  <2> DEFINE T == STRING \cup (DOMAIN b \ Keys(f))
  <2>1. f.keys \in Seq(T) /\ rest \in Seq(T)
    BY <1>3, <1>4
  <2>2. /\ Len(keys) = Len(f.keys) + Len(rest) /\ Len(f.keys) \in Nat /\ Len(rest) \in Nat
        /\ \A i \in 1..Len(f.keys) : keys[i] = f.keys[i]
        /\ \A i \in 1..Len(rest) : keys[Len(f.keys) + i] = rest[i]
        /\ DOMAIN f.keys = 1..Len(f.keys) /\ DOMAIN rest = 1..Len(rest)
    BY <2>1
  <2> HIDE DEF keys, T
  <2>3. ASSUME NEW k \in DOMAIN b PROVE \E i \in 1..Len(keys) : keys[i] = k
    <3>1. CASE k \in Keys(f)
      <4>1. PICK i \in 1..Len(f.keys) : f.keys[i] = k
        BY <1>3, <2>2, <3>1 DEF Range
      <4>2. i \in 1..Len(keys) /\ keys[i] = k
        BY <2>2, <4>1
      <4>3. QED
        BY <4>2
    <3>2. CASE k \notin Keys(f)
      <4>1. PICK i \in 1..Len(rest) : rest[i] = k
        BY <1>4, <2>2, <3>2 DEF Range
      <4>2. Len(f.keys) + i \in 1..Len(keys) /\ keys[Len(f.keys) + i] = k
        BY <2>2, <4>1
      <4>3. QED
        BY <4>2
    <3>3. QED
      BY <3>1, <3>2
  <2>4. QED
    BY <2>2, <2>3
<1> HIDE DEF keys
<1>6. Started(f, b, first)
  <2>1. PICK e : e = <<>>
    OBVIOUS
  <2>2. PICK one : one = <<DefaultKey(f)>>
    OBVIOUS
  <2>3. Len(one) = 1 /\ Len(one) \in Nat /\ one[1] = DefaultKey(f)
    BY <2>2
  <2>4. first = AddOne(f, b, e, DefaultKey(f), DOMAIN b)
    <3>1. first = AddKeys(f, b, e, one, DOMAIN b)
      BY <2>1, <2>2
    <3> DEFINE W == DOMAIN b
    <3> HIDE DEF W
    <3>7. Len(one) \in Nat
      BY <2>3
    <3>8. \E g : AddFrom(f, b, e, one, W, Len(one), g) /\ AddKeys(f, b, e, one, W) = g[Len(one)]
      BY ONLY <3>7, Adding
    <3>2. PICK g : AddFrom(f, b, e, one, W, Len(one), g) /\ AddKeys(f, b, e, one, W) = g[Len(one)]
      BY ONLY <3>8
    <3>9. g = [i \in 0..Len(one) |-> IF i = 0 THEN e ELSE AddOne(f, b, g[i - 1], one[i], W)]
      BY ONLY <3>2, <3>7, AddsOn
    <3>3. g = [i \in 0..Len(one) |-> IF i = 0 THEN e ELSE AddOne(f, b, g[i - 1], one[i], DOMAIN b)]
      BY <3>9 DEF W
    <3>4. 0 \in 0..Len(one) /\ 1 \in 0..Len(one) /\ 1 - 1 = 0 /\ 1 # 0
      BY <2>3
    <3>5. g[0] = e /\ g[1] = AddOne(f, b, g[0], one[1], DOMAIN b)
      BY <3>3, <3>4
    <3>6. QED
      BY <2>3, <3>1, <3>2, <3>5 DEF W
  <2> HIDE DEF first
  <2>5. Range(e) = {} /\ Settled(f, e) = {}
    BY <2>1 DEF Range, Settled
  <2>6. CASE DefaultKey(f) \notin DOMAIN b
    <3>1. first = <<>>
      BY <2>1, <2>4, <2>6 DEF AddOne
    <3>2. QED
      BY <2>6, <3>1 DEF Started, Lists
  <2>7. CASE DefaultKey(f) \in DOMAIN b
    <3>1. first = Append(e, DefaultKey(f))
      BY <2>4, <2>5, <2>7 DEF AddOne
    <3>2. first = <<DefaultKey(f)>>
      BY <2>1, <3>1
    <3>3. /\ first \in Seq(DOMAIN b) /\ Len(first) = 1 /\ first[1] = DefaultKey(f) /\ DOMAIN first = 1..1
      BY <2>7, <3>2
    <3>4. first[1] # Partner(f, first[1])
      BY <1>1, <2>7, <3>3, Partners
    <3>5. \A i : i \in 1..1 <=> i = 1
      OBVIOUS
    <3>6. Lists(f, b, first)
      BY <3>3, <3>4, <3>5 DEF Lists
    <3>7. DefaultKey(f) \in Range(first)
      BY <3>3, <3>5 DEF Range
    <3>8. QED
      BY <3>6, <3>7 DEF Started
  <2>8. QED
    BY <2>6, <2>7
<1> HIDE DEF first
<1>7. Started(f, b, second)
  BY <1>1, <1>5, <1>6, AddKeysAdds
<1> HIDE DEF second
<1>8. Started(f, b, third) /\ Covers(f, b, third, keys, DOMAIN b, Len(keys))
  BY <1>1, <1>5, <1>7, AddKeysAdds
<1>9. DOMAIN b \subseteq Settled(f, third)
  BY <1>5, <1>8 DEF Covers
<1>10. QED
  BY <1>2, <1>8, <1>9 DEF Started, second, first, keys, rest

-----------------------------------------------------------------------------
(* What can be written so that it reads back.                              *)
Pairing(f) == {j \in Keys(f) : Entry(f, j).keyAlias # Unset}
Writable(f, b) ==
  /\ \A k \in DOMAIN b : b[k].words # <<Empty>>
  /\ DefaultKey(f) \in DOMAIN b => Len(b[DefaultKey(f)].words) = 1
  /\ \A k \in DOMAIN b : Partner(f, k) \in DOMAIN b => \E j \in Pairing(f) : b[k].words = <<j>>

PairPart(f, b, k, part) ==
  /\ Partner(f, k) \in DOMAIN b
  /\ Len(part) > 1 /\ part[1] \in Pairing(f) /\ b[k].words = <<part[1]>>
  /\ Tail(part) = b[Partner(f, k)].words
BarePartOf(f, b, k, part) ==
  Partner(f, k) \notin DOMAIN b /\ k = DefaultKey(f) /\ part = b[k].words /\ Len(part) = 1
NamedPartOf(f, b, k, part) ==
  /\ Partner(f, k) \notin DOMAIN b /\ k # DefaultKey(f)
  /\ Len(part) > 1 /\ part[1] = k /\ Tail(part) = b[k].words

LEMMA WrittenPart ==
  ASSUME NEW f, IsFormat(f), NEW s, NEW b, Clean(f, s, b), Writable(f, b), NEW k \in DOMAIN b
  PROVE  /\ WritePart(f, b, k) \in PartSet /\ WritePart(f, b, k) # <<Empty>>
         /\ \/ PairPart(f, b, k, WritePart(f, b, k))
            \/ BarePartOf(f, b, k, WritePart(f, b, k))
            \/ NamedPartOf(f, b, k, WritePart(f, b, k))
<1> DEFINE part == WritePart(f, b, k)
           p == Partner(f, k)
<1>1. \A j \in DOMAIN b : j \in Word \ {Empty, Unset} /\ b[j].words \in Words
  BY DEF Clean, FitsKey
<1>2. CASE p \in DOMAIN b
  <2>1. PICK j \in Pairing(f) : b[k].words = <<j>>
    BY <1>2 DEF Writable
  <2>2. j \in Word \ {Empty, Unset}
    BY KeyIsWord DEF Pairing
  <2>3. part = <<j>> \o b[p].words
    BY <1>2, <2>1 DEF WritePart
  <2> HIDE DEF part
  <2>4. part \in Words /\ Len(part) > 1 /\ Tail(part) = b[p].words /\ part[1] = j
    BY <1>1, <1>2, <2>2, <2>3, Longer
  <2>5. part \in PartSet /\ part # <<Empty>>
    BY <2>2, <2>4, Shape DEF PartSet
  <2>6. PairPart(f, b, k, part)
    BY <1>2, <2>1, <2>4 DEF PairPart
  <2>7. QED
    BY <2>5, <2>6 DEF part
<1>3. CASE p \notin DOMAIN b /\ k = DefaultKey(f)
  <2>1. part = b[k].words
    BY <1>3 DEF WritePart
  <2>2. part \in Words /\ Len(part) = 1 /\ part # <<Empty>>
    BY <1>1, <1>3, <2>1 DEF Writable
  <2> HIDE DEF part
  <2>3. ~(Len(part) > 1)
    BY ONLY <2>2
  <2>4. part \in PartSet
    BY <2>2, <2>3 DEF PartSet
  <2>5. BarePartOf(f, b, k, part)
    BY <1>3, <2>1, <2>2 DEF BarePartOf
  <2>6. QED
    BY <2>2, <2>4, <2>5 DEF part
<1>4. CASE p \notin DOMAIN b /\ k # DefaultKey(f)
  <2>1. part = <<k>> \o b[k].words
    BY <1>4 DEF WritePart
  <2> HIDE DEF part
  <2>2. part \in Words /\ Len(part) > 1 /\ Tail(part) = b[k].words /\ part[1] = k
    BY <1>1, <2>1, Longer
  <2>3. part \in PartSet /\ part # <<Empty>>
    BY <1>1, <2>2, Shape DEF PartSet
  <2>4. NamedPartOf(f, b, k, part)
    BY <1>4, <2>2 DEF NamedPartOf
  <2>5. QED
    BY <2>3, <2>4 DEF part
<1>5. QED
  BY <1>2, <1>3, <1>4

(* A part that is written reads as the sub-keys it stands for.             *)
Reread(f, s, b, k, part) ==
  /\ Piece(f, s, part).ok
  /\ \A j : j \in DOMAIN Piece(f, s, part).bag <=> (j = k \/ (j = Partner(f, k) /\ j \in DOMAIN b))
  /\ \A j \in DOMAIN Piece(f, s, part).bag : Piece(f, s, part).bag[j] = b[j]

LEMMA PartRereads ==
  ASSUME NEW f, IsFormat(f), NEW s \in BOOLEAN, NEW b, Clean(f, s, b), Writable(f, b), NEW k \in DOMAIN b
  PROVE  Reread(f, s, b, k, WritePart(f, b, k))
<1> DEFINE p == Partner(f, k)
<1> PICK part : part = WritePart(f, b, k)
  OBVIOUS
<1>1. /\ part \in PartSet /\ part # <<Empty>>
      /\ PairPart(f, b, k, part) \/ BarePartOf(f, b, k, part) \/ NamedPartOf(f, b, k, part)
  BY WrittenPart
<1>2. \A j \in DOMAIN b : FitsKey(f, s, j, b[j]) /\ j # Empty /\ j # Unset
  BY DEF Clean, FitsKey
<1>3. \A j \in DOMAIN b : /\ s => j \in Keys(f)
                          /\ Entry(f, j).alias = Unset
                          /\ b[j] = Coerce(b[j].words, Entry(f, j).type)
                          /\ b[j].words # <<Empty>>
  BY DEF Clean, FitsKey, Writable
<1>4. ASSUME PutsOne(f, s, part, k, b[k]), p \notin DOMAIN b PROVE Reread(f, s, b, k, part)
  <2>1. PICK c : Piece(f, s, part) = Bag(c) /\ c = With(NoKeys, k, b[k])
    BY <1>4, PieceOne
  <2>2. DOMAIN c = {k} /\ c[k] = b[k]
    BY <2>1, FirstIs
  <2>3. Piece(f, s, part).ok /\ Piece(f, s, part).bag = c
    BY <2>1, Emptied
  <2>4. QED
    BY <1>4, <2>2, <2>3 DEF Reread
<1>5. CASE PairPart(f, b, k, part)
  <2> DEFINE j == part[1]
  <2>1. p \in DOMAIN b /\ Len(part) > 1 /\ j \in Pairing(f) /\ b[k].words = <<j>> /\ Tail(part) = b[p].words
    BY <1>5 DEF PairPart
  <2>2. p # Unset /\ k # Unset
    BY <1>2, <2>1
  <2>3. /\ Entry(f, k).type = "string" /\ p # k
        /\ j \in Keys(f) /\ Entry(f, j).keyAlias = k /\ Entry(f, j).alias = p
    BY <2>1, <2>2, Partners DEF Pairing
  <2>4. ~Malformed(part)
    BY <1>3, <2>1, <2>3, KeyIsWord DEF Malformed
  <2>5. b[k] = Text(<<j>>)
    BY <1>3, <2>1, <2>3 DEF Coerce
  <2>6. b[p] = Coerce(Tail(part), Entry(f, p).type)
    BY <1>3, <2>1
  <2>7. PutsTwo(f, s, part, k, Text(<<j>>), p, Coerce(Tail(part), Entry(f, p).type))
    <3>1. IF Entry(f, j).keyAlias = Unset
          THEN PutsOne(f, s, part, IF Entry(f, j).alias = Unset THEN j ELSE Entry(f, j).alias,
                       Coerce(Tail(part), Entry(f, IF Entry(f, j).alias = Unset THEN j ELSE Entry(f, j).alias).type))
          ELSE PutsTwo(f, s, part, Entry(f, j).keyAlias, Text(<<j>>),
                       IF Entry(f, j).alias = Unset THEN j ELSE Entry(f, j).alias,
                       Coerce(Tail(part), Entry(f, IF Entry(f, j).alias = Unset THEN j ELSE Entry(f, j).alias).type))
      BY <1>1, <2>1, <2>3, <2>4, NamedPart
    <3>2. (IF Entry(f, j).alias = Unset THEN j ELSE Entry(f, j).alias) = p
      BY <2>2, <2>3
    <3>3. QED
      BY <2>2, <2>3, <3>1, <3>2
  <2>8. PutsTwo(f, s, part, k, b[k], p, b[p])
    BY <2>5, <2>6, <2>7
  <2>9. PICK d, c : Piece(f, s, part) = Bag(c) /\ c = With(d, p, b[p]) /\ d = With(NoKeys, k, b[k])
    BY <2>8, PieceTwo
  <2>10. DOMAIN d = {k} /\ d[k] = b[k]
    BY <2>9, FirstIs
  <2>11. DOMAIN c = {k, p} /\ c[k] = b[k] /\ c[p] = b[p]
    BY <2>3, <2>9, <2>10 DEF With
  <2>12. Piece(f, s, part).ok /\ Piece(f, s, part).bag = c
    BY <2>9, Emptied
  <2>13. Reread(f, s, b, k, part)
    BY <2>1, <2>11, <2>12 DEF Reread
  <2>14. QED
    BY <2>13
<1>6. CASE BarePartOf(f, b, k, part)
  <2>1. p \notin DOMAIN b /\ k = DefaultKey(f) /\ part = b[k].words /\ Len(part) = 1
    BY <1>6 DEF BarePartOf
  <2>2. DefaultKey(f) # Unset /\ b[k] = Coerce(part, Entry(f, k).type)
    BY <1>2, <1>3, <2>1
  <2>3. PutsOne(f, s, part, k, Coerce(part, Entry(f, k).type))
    BY <1>1, <2>1, <2>2, BarePart
  <2>4. PutsOne(f, s, part, k, b[k])
    BY <2>2, <2>3
  <2>5. QED
    BY <1>4, <2>1, <2>4
<1>7. CASE NamedPartOf(f, b, k, part)
  <2>1. p \notin DOMAIN b /\ Len(part) > 1 /\ part[1] = k /\ Tail(part) = b[k].words
    BY <1>7 DEF NamedPartOf
  <2>2. ~Malformed(part) /\ (s => part[1] \in Keys(f))
    BY <1>2, <1>3, <2>1 DEF Malformed
  <2>3. Entry(f, k).alias = Unset /\ Entry(f, k).keyAlias = Unset
    <3>1. CASE k \in Keys(f)
      BY <1>3, <3>1 DEF IsFormat
    <3>2. CASE k \notin Keys(f)
      BY <3>2, Undeclared
    <3>3. QED
      BY <3>1, <3>2
  <2>4. PutsOne(f, s, part, k, Coerce(Tail(part), Entry(f, k).type))
    <3>1. IF Entry(f, k).keyAlias = Unset
          THEN PutsOne(f, s, part, IF Entry(f, k).alias = Unset THEN k ELSE Entry(f, k).alias,
                       Coerce(Tail(part), Entry(f, IF Entry(f, k).alias = Unset THEN k ELSE Entry(f, k).alias).type))
          ELSE PutsTwo(f, s, part, Entry(f, k).keyAlias, Text(<<k>>),
                       IF Entry(f, k).alias = Unset THEN k ELSE Entry(f, k).alias,
                       Coerce(Tail(part), Entry(f, IF Entry(f, k).alias = Unset THEN k ELSE Entry(f, k).alias).type))
      BY <1>1, <2>1, <2>2, NamedPart
    <3>2. (IF Entry(f, k).alias = Unset THEN k ELSE Entry(f, k).alias) = k
      BY <2>3
    <3>3. QED
      BY <2>3, <3>1, <3>2
  <2>5. b[k] = Coerce(Tail(part), Entry(f, k).type)
    BY <1>3, <2>1
  <2>6. PutsOne(f, s, part, k, b[k])
    BY <2>4, <2>5
  <2>7. QED
    BY <1>4, <2>1, <2>6
<1>8. QED
  BY <1>1, <1>5, <1>6, <1>7

(* The text of a bag, and what it reads as.                                *)
TextOf(f, b) == [i \in DOMAIN Order(f, b) |-> WritePart(f, b, Order(f, b)[i])]

LEMMA TextParts ==
  ASSUME NEW f, IsFormat(f), NEW s, NEW b, Clean(f, s, b), Writable(f, b)
  PROVE  LET w == Order(f, b)
             t == TextOf(f, b) IN
         /\ Len(w) \in Nat /\ DOMAIN w = 1..Len(w) /\ DOMAIN t = 1..Len(w) /\ Len(t) = Len(w)
         /\ t \in Seq(PartSet)
         /\ \A i \in 1..Len(w) : w[i] \in DOMAIN b /\ t[i] = WritePart(f, b, w[i])
<1>1. PICK w : w = Order(f, b)
  OBVIOUS
<1>2. w \in Seq(DOMAIN b)
  BY <1>1, Ordered DEF Lists
<1>3. Len(w) \in Nat /\ DOMAIN w = 1..Len(w) /\ \A i \in 1..Len(w) : w[i] \in DOMAIN b
  BY <1>2
<1>4. PICK t : t = [i \in DOMAIN w |-> WritePart(f, b, w[i])]
  OBVIOUS
<1>5. \A i \in 1..Len(w) : t[i] = WritePart(f, b, w[i]) /\ t[i] \in PartSet
  BY <1>3, <1>4, WrittenPart
<1>6. t \in Seq(PartSet) /\ DOMAIN t = 1..Len(w) /\ Len(t) = Len(w)
  BY <1>3, <1>4, <1>5
<1>7. t = TextOf(f, b)
  BY <1>1, <1>4 DEF TextOf
<1>8. QED
  BY <1>1, <1>3, <1>5, <1>6, <1>7

(* The text of any bag that parsing can return and that can be written     *)
(* reads as that bag again (addKey and parsePropertyString, props.ts).     *)
THEOREM RoundTrip ==
  ASSUME NEW f, IsFormat(f), NEW s \in BOOLEAN, NEW b, Clean(f, s, b), Writable(f, b)
  PROVE  TextOf(f, b) \in Seq(PartSet) /\ Parse(f, TextOf(f, b), s) = Bag(b)
<1>1. PICK w, t : w = Order(f, b) /\ t = TextOf(f, b)
  OBVIOUS
<1>2. PICK n : n = Len(w)
  OBVIOUS
<1>3. /\ n \in Nat /\ DOMAIN w = 1..n /\ Len(t) = n /\ t \in Seq(PartSet)
      /\ \A i \in 1..n : w[i] \in DOMAIN b /\ t[i] = WritePart(f, b, w[i])
  BY <1>1, <1>2, TextParts
<1>4. /\ \A i, j \in 1..n : w[i] = w[j] => i = j
      /\ \A i, j \in 1..n : w[i] # Partner(f, w[j])
      /\ DOMAIN b \subseteq Settled(f, w)
  BY <1>1, <1>2, Ordered DEF Lists
<1> DEFINE P(i) == Piece(f, s, t[i])
<1>5. ASSUME NEW i \in 1..n
      PROVE  /\ P(i).ok
             /\ \A j : j \in DOMAIN P(i).bag <=> (j = w[i] \/ (j = Partner(f, w[i]) /\ j \in DOMAIN b))
             /\ \A j \in DOMAIN P(i).bag : P(i).bag[j] = b[j]
  BY <1>3, PartRereads DEF Reread
<1>6. \A k \in DOMAIN b : k # Unset
  BY DEF Clean, FitsKey
<1> HIDE DEF P
<1>7. ASSUME NEW i \in 1..n, NEW j \in 1..n, j # i PROVE Apart(P(i).bag, P(j).bag)
  <2>1. ASSUME NEW k, k \in DOMAIN P(i).bag, k \in DOMAIN P(j).bag PROVE FALSE
    <3>1. k = w[i] \/ (k = Partner(f, w[i]) /\ k \in DOMAIN b)
      BY <1>5, <2>1
    <3>2. k = w[j] \/ (k = Partner(f, w[j]) /\ k \in DOMAIN b)
      BY <1>5, <2>1
    <3>3. k = Partner(f, w[i]) /\ k = Partner(f, w[j]) /\ k \in DOMAIN b
      BY <1>4, <1>7, <3>1, <3>2
    <3>4. w[i] # Unset /\ w[j] # Unset /\ k # Unset
      BY <1>3, <1>6, <3>3
    <3>5. w[i] = DefaultKey(f) /\ w[j] = DefaultKey(f)
      BY <3>3, <3>4, Partners
    <3>6. QED
      BY <1>4, <1>7, <3>5
  <2>2. QED
    BY <2>1 DEF Apart
<1>8. Fit(f, s, t, n)
  BY <1>5, <1>7 DEF Fit, P
<1>9. ASSUME NEW k PROVE k \in DOMAIN b <=> \E i \in 1..n : k \in DOMAIN P(i).bag
  <2>1. ASSUME k \in DOMAIN b PROVE \E i \in 1..n : k \in DOMAIN P(i).bag
    <3>1. PICK j \in Range(w) : k = j \/ k = Partner(f, j)
      BY <1>4, <2>1 DEF Settled
    <3>2. PICK i \in 1..n : w[i] = j
      BY <1>3, <3>1 DEF Range
    <3>3. QED
      BY <1>5, <2>1, <3>1, <3>2
  <2>2. ASSUME NEW i \in 1..n, k \in DOMAIN P(i).bag PROVE k \in DOMAIN b
    BY <1>3, <1>5, <2>2
  <2>3. QED
    BY <2>1, <2>2
<1>10. Joins(f, s, t, n, b)
  BY <1>5, <1>9 DEF Joins, P
<1>11. Reads(f, s, t, n, Bag(b))
  BY <1>8, <1>10 DEF Reads
<1>12. Reads(f, s, t, n, Parse(f, t, s))
  BY <1>3, ParseReads
<1>13. QED
  BY <1>1, <1>3, <1>11, <1>12, ReadsOne

-----------------------------------------------------------------------------
(* The rules of privileges.ts look into a text without its format.  Where  *)
(* no sub-keys pair up, what they find in a text that was written is what  *)
(* the bag holds.                                                          *)
LEMMA MinIn ==
  ASSUME NEW S, S \subseteq Nat, S # {}
  PROVE  Min(S) \in S
<1> DEFINE R == OpToRel(<, Nat)
<1>1. IsWellFoundedOn(R, Nat)
  BY NatLessThanWellFounded
<1>2. \A m, n \in Nat : m < n => <<m, n>> \in R
  BY DEF OpToRel
<1> HIDE DEF R
<1>3. PICK m \in S : \A n \in S : ~(<<n, m>> \in R)
  BY <1>1, WFMin
<1>4. \A n \in S : m \in Nat /\ n \in Nat /\ ~(n < m)
  BY <1>2, <1>3
<1>5. \A n \in S : m <= n
  BY <1>4
<1>6. QED
  BY <1>3, <1>5 DEF Min

Unpaired(f) == \A k \in Keys(f) : Entry(f, k).keyAlias = Unset

(* A text and the sub-keys it was written from.                            *)
Spells(f, b, t) ==
  /\ BareAt(t) \subseteq Nat /\ NamedAt(t) \subseteq Nat
  /\ BareAt(t) # {} <=> DefaultKey(f) \in DOMAIN b
  /\ \A i \in BareAt(t) : t[i] = b[DefaultKey(f)].words
  /\ \A i \in NamedAt(t) : /\ t[i][1] \in DOMAIN b \ {DefaultKey(f)}
                           /\ Tail(t[i]) = b[t[i][1]].words
  /\ \A k \in DOMAIN b \ {DefaultKey(f)} : \E i \in NamedAt(t) : t[i][1] = k
  /\ IsOff(t) <=> DOMAIN b = {DefaultKey(f)} /\ b[DefaultKey(f)].words = <<"0">>

LEMMA Spelt ==
  ASSUME NEW f, IsFormat(f), Unpaired(f), NEW s, NEW b, Clean(f, s, b), Writable(f, b)
  PROVE  Spells(f, b, TextOf(f, b))
<1>1. PICK w, t : w = Order(f, b) /\ t = TextOf(f, b)
  OBVIOUS
<1>2. PICK n : n = Len(w)
  OBVIOUS
<1>3. /\ n \in Nat /\ DOMAIN w = 1..n /\ DOMAIN t = 1..n /\ t \in Seq(PartSet) /\ Len(t) = n
      /\ \A i \in 1..n : w[i] \in DOMAIN b /\ t[i] = WritePart(f, b, w[i])
  BY <1>1, <1>2, TextParts
<1>4. \A k \in DOMAIN b : k # Unset /\ k # Empty
  BY DEF Clean, FitsKey
<1>5. \A k \in DOMAIN b : Partner(f, k) \notin DOMAIN b
  <2>1. ASSUME NEW k \in DOMAIN b, Partner(f, k) \in DOMAIN b PROVE FALSE
    <3>1. PICK j \in Pairing(f) : b[k].words = <<j>>
      BY <2>1 DEF Writable
    <3>2. QED
      BY <3>1 DEF Pairing, Unpaired
  <2>2. QED
    BY <2>1
<1>6. \A k \in DOMAIN b : \E i \in 1..n : w[i] = k
  <2>1. ASSUME NEW k \in DOMAIN b PROVE \E i \in 1..n : w[i] = k
    <3>1. k \in Settled(f, w)
      BY <1>1, Ordered
    <3>2. k \in Range(w)
      BY <1>3, <1>5, <3>1 DEF Settled, Range
    <3>3. QED
      BY <1>3, <3>2 DEF Range
  <2>2. QED
    BY <2>1
<1>7. ASSUME NEW i \in 1..n
      PROVE  /\ t[i] \in PartSet /\ t[i] # <<Empty>>
             /\ BarePartOf(f, b, w[i], t[i]) \/ NamedPartOf(f, b, w[i], t[i])
  BY <1>3, <1>5, WrittenPart DEF PairPart
<1>8. ASSUME NEW i \in 1..n, w[i] = DefaultKey(f)
      PROVE  i \in BareAt(t) /\ i \notin NamedAt(t) /\ t[i] = b[DefaultKey(f)].words
  <2>1. Len(t[i]) = 1 /\ t[i] = b[DefaultKey(f)].words /\ t[i] # <<Empty>>
    BY <1>7, <1>8 DEF BarePartOf, NamedPartOf
  <2>2. ~(Len(t[i]) > 1)
    BY ONLY <2>1
  <2>3. QED
    BY <1>3, <2>1, <2>2 DEF BareAt, NamedAt, IsBare
<1>9. ASSUME NEW i \in 1..n, w[i] # DefaultKey(f)
      PROVE  i \notin BareAt(t) /\ i \in NamedAt(t) /\ t[i][1] = w[i] /\ Tail(t[i]) = b[w[i]].words
  <2>1. Len(t[i]) > 1 /\ t[i][1] = w[i] /\ Tail(t[i]) = b[w[i]].words
    BY <1>7, <1>9 DEF BarePartOf, NamedPartOf
  <2>2. Len(t[i]) # 1
    BY <1>7, <2>1, Shape DEF PartSet
  <2>3. t[i][1] # Empty
    BY <1>3, <1>4, <2>1
  <2>4. QED
    BY <1>3, <2>1, <2>2, <2>3 DEF BareAt, NamedAt, IsBare
<1>10. BareAt(t) \subseteq 1..n /\ NamedAt(t) \subseteq 1..n
  BY <1>3 DEF BareAt, NamedAt
<1>11. BareAt(t) # {} <=> DefaultKey(f) \in DOMAIN b
  BY <1>3, <1>6, <1>8, <1>9, <1>10
<1>12. \A i \in BareAt(t) : t[i] = b[DefaultKey(f)].words
  BY <1>8, <1>9, <1>10
<1>13. \A i \in NamedAt(t) : t[i][1] \in DOMAIN b \ {DefaultKey(f)} /\ Tail(t[i]) = b[t[i][1]].words
  BY <1>3, <1>8, <1>9, <1>10
<1>14. \A k \in DOMAIN b \ {DefaultKey(f)} : \E i \in NamedAt(t) : t[i][1] = k
  BY <1>6, <1>9
<1>15. ASSUME IsOff(t) PROVE DOMAIN b = {DefaultKey(f)} /\ b[DefaultKey(f)].words = <<"0">>
  <2>1. Len(t) = 1 /\ t[1] = <<"0">>
    BY <1>15, Single DEF IsOff
  <2>2. n = 1 /\ 1 \in 1..n
    BY <1>3, <2>1
  <2>3. ~(Len(t[1]) > 1)
    <3>1. Len(t[1]) = 1
      BY <2>1, Single
    <3>2. QED
      BY ONLY <3>1
  <2>4. 1 \notin NamedAt(t)
    BY <2>3 DEF NamedAt
  <2>5. w[1] = DefaultKey(f)
    BY <1>9, <2>2, <2>4
  <2>6. t[1] = b[DefaultKey(f)].words
    BY <1>8, <2>2, <2>5
  <2>7. \A k \in DOMAIN b : k = w[1]
    BY <1>6, <2>2
  <2>8. w[1] \in DOMAIN b
    BY <1>3, <2>2
  <2>9. QED
    BY <2>1, <2>5, <2>6, <2>7, <2>8
<1>16. ASSUME DOMAIN b = {DefaultKey(f)}, b[DefaultKey(f)].words = <<"0">> PROVE IsOff(t)
  <2>1. \A i \in 1..n : w[i] = DefaultKey(f)
    BY <1>3, <1>16
  <2>2. \A i, j \in 1..n : w[i] = w[j] => i = j
    BY <1>1, <1>2, Ordered DEF Lists
  <2>3. \A i, j \in 1..n : i = j
    BY <2>1, <2>2
  <2>4. \E i \in 1..n : TRUE
    BY <1>6, <1>16
  <2>5. n = 1
    BY <1>3, <2>3, <2>4
  <2>6. t[1] = <<"0">>
    BY <1>8, <1>16, <2>1, <2>5
  <2>7. QED
    BY <1>3, <2>5, <2>6 DEF IsOff
<1>17. QED
  BY <1>1, <1>10, <1>11, <1>12, <1>13, <1>14, <1>15, <1>16 DEF Spells

(* The value of a sub-key other than the default, and of the default.      *)
LEMMA Found ==
  ASSUME NEW f, NEW b, NEW t, Spells(f, b, t), NEW k
  PROVE  /\ k \in DOMAIN b \ {DefaultKey(f)} => SubKey(t, k) = b[k].words
         /\ k \notin DOMAIN b \ {DefaultKey(f)} => SubKey(t, k) = <<>>
         /\ k = DefaultKey(f) /\ k \in DOMAIN b => BareOr(t, k) = b[k].words
         /\ k = DefaultKey(f) /\ k \notin DOMAIN b => BareOr(t, k) = <<>>
<1> DEFINE at == {i \in NamedAt(t) : t[i][1] = k}
<1>1. ASSUME k \in DOMAIN b \ {DefaultKey(f)} PROVE SubKey(t, k) = b[k].words
  <2>1. at # {} /\ at \subseteq Nat
    BY <1>1 DEF Spells
  <2>2. Min(at) \in at
    BY <2>1, MinIn
  <2>3. SubKey(t, k) = Tail(t[Min(at)])
    BY <2>1 DEF SubKey
  <2> HIDE DEF at
  <2>4. PICK i \in at : SubKey(t, k) = Tail(t[i])
    BY <2>2, <2>3
  <2>5. i \in NamedAt(t) /\ t[i][1] = k
    BY <2>4 DEF at
  <2>6. QED
    BY <2>4, <2>5 DEF Spells
<1>2. ASSUME k \notin DOMAIN b \ {DefaultKey(f)} PROVE SubKey(t, k) = <<>>
  <2>1. at = {}
    BY <1>2 DEF Spells
  <2>2. QED
    BY <2>1 DEF SubKey
<1>3. ASSUME k = DefaultKey(f), k \in DOMAIN b PROVE BareOr(t, k) = b[k].words
  <2>1. BareAt(t) # {} /\ BareAt(t) \subseteq Nat
    BY <1>3 DEF Spells
  <2>2. Min(BareAt(t)) \in BareAt(t)
    BY <2>1, MinIn
  <2>3. BareOr(t, k) = t[Min(BareAt(t))]
    BY <2>1 DEF BareOr
  <2>4. PICK i \in BareAt(t) : BareOr(t, k) = t[i]
    BY <2>2, <2>3
  <2>5. QED
    BY <1>3, <2>4 DEF Spells
<1>4. ASSUME k = DefaultKey(f), k \notin DOMAIN b PROVE BareOr(t, k) = <<>>
  <2>1. BareAt(t) = {}
    BY <1>4 DEF Spells
  <2>2. BareOr(t, k) = SubKey(t, k)
    BY <2>1 DEF BareOr
  <2>3. QED
    BY <1>2, <1>4, <2>2
<1>5. QED
  BY <1>1, <1>2, <1>3, <1>4

LEMMA Featured ==
  ASSUME NEW f, NEW b, NEW t, Spells(f, b, t), DefaultKey(f) = Unset, Unset \notin DOMAIN b
  PROVE  UsesPrivilegedFeature(t) <=> \E k \in DOMAIN b : k # "nesting"
<1>1. BareAt(t) = {}
  BY DEF Spells
<1>2. ASSUME NEW i \in NamedAt(t), t[i][1] # "nesting" PROVE \E k \in DOMAIN b : k # "nesting"
  BY <1>2 DEF Spells
<1>3. ASSUME NEW k \in DOMAIN b, k # "nesting" PROVE \E i \in NamedAt(t) : t[i][1] # "nesting"
  <2>1. k \in DOMAIN b \ {DefaultKey(f)}
    OBVIOUS
  <2>2. QED
    BY <1>3, <2>1 DEF Spells
<1>4. QED
  BY <1>1, <1>2, <1>3 DEF UsesPrivilegedFeature

-----------------------------------------------------------------------------
(* The inductive invariant.  Known: the types.  Kept: the bag is one that  *)
(* parsing can return.  AsWritten: a text that was written is that of the  *)
(* bag, which is valid if it was to be.  AsDecided: the call that went out *)
(* did so with the credential that was decided on.                         *)
Known ==
  /\ option \in Options /\ strict \in BOOLEAN /\ validated \in BOOLEAN
  /\ phase \in {"stored", "read", "written", "sent", "refused"}
  /\ edits \in 0..MaxEdits
  /\ credentials \in Credentials
  /\ asked \in {Unset, "token", "ticket"}
  /\ endpoint \in {"plain", "ticketOnly", "rootOnly", "unknown"}
  /\ sent \in {"none", "token", "ticket", "refused"}
Kept == Clean(format, strict, bag)
AsStored == phase = "stored" => text \in Seq(PartSet)
AsWritten ==
  phase \in {"written", "sent"} => text = TextOf(format, bag) /\ (validated => Valid(format, bag))
AsDecided ==
  phase = "sent" =>
    sent = Decision(credentials, endpoint, endpoint = "plain" /\ HitsRootOnly(option, text), asked)
UpdInv == Known /\ Kept /\ AsStored /\ AsWritten /\ AsDecided

LEMMA InitUpdInv == UpdInit => UpdInv
<1> SUFFICES ASSUME UpdInit PROVE UpdInv
  OBVIOUS
<1>1. option \in Options /\ text \in SeqOf(Parts(option), MaxParts) /\ strict \in BOOLEAN
  BY DEF UpdInit
<1>2. Known
  <2>1. credentials \in Credentials
    BY DEF UpdInit, Credentials
  <2>2. MaxEdits \in Nat
    BY InputAssumption
  <2>3. 0 \in 0..MaxEdits /\ FALSE \in BOOLEAN
    BY <2>2
  <2>4. QED
    BY <2>1, <2>3 DEF UpdInit, Known
<1>3. Kept
  BY CleanEmpty DEF UpdInit, Kept
<1>4. text \in Seq(PartSet)
  <2>1. \A part \in Parts(option) : part \in Seq(STRING) /\ part # <<>> /\ (Len(part) > 1 => part[1] # Unset)
    BY <1>1, InputAssumption
  <2>2. \A part \in Parts(option) : part \in PartSet
    BY <2>1, Written DEF PartSet
  <2>3. PICK m \in 0..MaxParts : text \in [1..m -> Parts(option)]
    BY <1>1 DEF SeqOf
  <2>4. m \in Nat
    BY <2>3, InputAssumption
  <2>5. QED
    BY <2>2, <2>3, <2>4
<1>5. QED
  BY <1>2, <1>3, <1>4 DEF UpdInit, UpdInv, AsStored, AsWritten, AsDecided

LEMMA FormatOut ==
  ASSUME NEW f, NEW b, NEW s \in BOOLEAN, NEW v \in BOOLEAN, Format(f, b, s, v).ok
  PROVE  Format(f, b, s, v).text = TextOf(f, b) /\ (v => Valid(f, b))
<1>1. ~NoText.ok
  BY DEF NoText
<1>2. Format(f, b, s, v) # NoText
  BY <1>1
<1>3. ~(v /\ ~Valid(f, b))
  BY <1>2 DEF Format
<1>4. Format(f, b, s, v) = [ok |-> TRUE, text |-> TextOf(f, b)]
  BY <1>2 DEF Format, TextOf
<1>5. QED
  BY <1>3, <1>4

LEMMA DecisionIs ==
  ASSUME NEW c, NEW e, NEW hits \in BOOLEAN, NEW a \in {Unset, "token", "ticket"}
  PROVE  Decision(c, e, hits, a) \in {"token", "ticket", "refused"}
<1>1. RequiredTier(c, e, hits).tier \in {"token", "ticket"}
  BY DEF RequiredTier
<1>2. QED
  BY <1>1 DEF Decision

LEMMA NextUpdInv == UpdInv /\ [UpdNext]_updVars => UpdInv'
<1> SUFFICES ASSUME UpdInv, [UpdNext]_updVars PROVE UpdInv'
  OBVIOUS
<1>1. IsFormat(format) /\ option \in Options /\ strict \in BOOLEAN
  BY FormatAssumption DEF UpdInv, Known, format
<1>2. CASE Read
  <2>1. Reads(format, strict, text, Len(text), Parse(format, text, strict))
    BY <1>1, <1>2, ParseReads DEF Read, UpdInv, AsStored
  <2>2. Clean(format, strict, Parse(format, text, strict).bag)
    <3>1. CASE Parse(format, text, strict) = Refused
      BY <3>1, CleanEmpty, Emptied
    <3>2. ASSUME NEW c, Clean(format, strict, c), Parse(format, text, strict) = Bag(c)
          PROVE  Clean(format, strict, Parse(format, text, strict).bag)
      BY <3>2, Emptied
    <3>3. QED
      BY <2>1, <3>1, <3>2 DEF Reads, Joins
  <2>3. Kept'
    BY <1>2, <2>2 DEF Read, Kept, format, caller
  <2>4. Known'
    BY <1>2 DEF Read, UpdInv, Known, caller
  <2>5. phase' \in {"read", "refused"}
    BY <1>2 DEF Read
  <2>6. QED
    BY <2>3, <2>4, <2>5 DEF UpdInv, AsStored, AsWritten, AsDecided
<1>3. ASSUME NEW k \in Keys(FormatOf(option)), NEW v \in Values(option, k), SetKey(k, v) PROVE UpdInv'
  <2>1. FitsKey(format, strict, k, v)
    <3>1. /\ Entry(format, k).alias = Unset /\ v.words \in Seq(STRING) /\ v.words # <<>>
          /\ v = Coerce(v.words, Entry(format, k).type)
      BY <1>1, InputAssumption DEF format
    <3>2. v.words \in Words
      BY <3>1, Written
    <3>3. QED
      BY <1>1, <3>1, <3>2, KeyIsWord DEF FitsKey, format
  <2>2. Clean(format, strict, With(bag, k, v))
    BY <2>1, Withs DEF UpdInv, Kept
  <2>3. Kept'
    BY <1>3, <2>2 DEF SetKey, Kept, format, caller
  <2>4. Known'
    BY <1>3, InputAssumption DEF SetKey, UpdInv, Known, caller
  <2>5. phase' = "read"
    BY <1>3 DEF SetKey
  <2>6. QED
    BY <2>3, <2>4, <2>5 DEF UpdInv, AsStored, AsWritten, AsDecided
<1>4. ASSUME NEW k \in Keys(FormatOf(option)), ClearKey(k) PROVE UpdInv'
  <2> DEFINE c == [j \in DOMAIN bag \ {k} |-> bag[j]]
  <2>1. DOMAIN c = DOMAIN bag \ {k} /\ c = [j \in DOMAIN c |-> c[j]] /\ \A j \in DOMAIN c : c[j] = bag[j]
    OBVIOUS
  <2>2. IsFiniteSet(DOMAIN bag \ {k})
    BY FS_Subset DEF UpdInv, Kept, Clean
  <2>3. \A j \in DOMAIN bag : FitsKey(format, strict, j, bag[j])
    BY DEF UpdInv, Kept, Clean
  <2>4. bag' = c
    BY <1>4 DEF ClearKey
  <2> HIDE DEF c
  <2>5. Clean(format, strict, c)
    BY <2>1, <2>2, <2>3 DEF Clean
  <2>6. Kept'
    BY <1>4, <2>4, <2>5 DEF ClearKey, Kept, format, caller
  <2>7. Known'
    BY <1>4, InputAssumption DEF ClearKey, UpdInv, Known, caller
  <2>8. phase' = "read"
    BY <1>4 DEF ClearKey
  <2>9. QED
    BY <2>6, <2>7, <2>8 DEF UpdInv, AsStored, AsWritten, AsDecided
<1>5. ASSUME NEW v \in BOOLEAN, Write(v) PROVE UpdInv'
  <2> DEFINE out == Format(format, bag, strict, v)
  <2>1. /\ phase' = (IF out.ok THEN "written" ELSE "refused") /\ text' = out.text /\ validated' = v
        /\ option' = option /\ strict' = strict /\ bag' = bag
    BY <1>5 DEF Write, format, caller
  <2>2. out.ok => out.text = TextOf(format, bag) /\ (v => Valid(format, bag))
    BY <1>1, FormatOut
  <2> HIDE DEF out
  <2>3. format' = format
    BY <2>1 DEF format
  <2>4. AsWritten'
    BY <2>1, <2>2, <2>3 DEF AsWritten
  <2>5. Kept'
    BY <2>1, <2>3 DEF UpdInv, Kept
  <2>6. Known'
    BY <1>5, <2>1 DEF Write, UpdInv, Known, caller
  <2>7. phase' \in {"written", "refused"}
    BY <2>1
  <2>8. QED
    BY <2>4, <2>5, <2>6, <2>7 DEF UpdInv, AsStored, AsDecided
<1>6. CASE Send
  <2>1. /\ phase = "written" /\ phase' = "sent" /\ option' = option /\ text' = text
        /\ bag' = bag /\ strict' = strict /\ validated' = validated /\ format' = format
    BY <1>6 DEF Send, format
  <2>2. sent' = Decision(credentials', endpoint', endpoint' = "plain" /\ HitsRootOnly(option, text), asked')
    BY <1>6 DEF Send
  <2>3. asked' \in {Unset, "token", "ticket"}
    BY <1>6 DEF Send
  <2>4. (endpoint' = "plain" /\ HitsRootOnly(option, text)) \in BOOLEAN
    OBVIOUS
  <2>5. sent' \in {"token", "ticket", "refused"}
    BY <2>2, <2>3, <2>4, DecisionIs
  <2>6. Known'
    BY <1>6, <2>1, <2>5 DEF Send, UpdInv, Known
  <2>7. AsDecided'
    BY <2>1, <2>2 DEF AsDecided
  <2>8. AsWritten'
    BY <2>1 DEF UpdInv, AsWritten
  <2>9. QED
    BY <2>1, <2>6, <2>7, <2>8 DEF UpdInv, Kept, AsStored
<1>7. CASE UNCHANGED updVars
  BY <1>7 DEF updVars, UpdInv, Known, Kept, AsStored, AsWritten, AsDecided, format
<1>8. QED
  BY <1>2, <1>3, <1>4, <1>5, <1>6, <1>7 DEF UpdNext

LEMMA UpdInvariance == UpdSpec => []UpdInv
<1>1. QED
  BY InitUpdInv, NextUpdInv, PTL DEF UpdSpec

(* What cannot be written is what Writable excludes.                       *)
LEMMA WritableBag ==
  ASSUME UpdInv, ~Unwritable, phase \in {"written", "sent"}
  PROVE  Writable(format, bag)
<1>1. IsFormat(format) /\ Clean(format, strict, bag) /\ (validated => Valid(format, bag))
  BY FormatAssumption DEF UpdInv, Known, Kept, AsWritten, format
<1>2. \A k \in DOMAIN bag : k # Unset /\ bag[k].words \in Words
  BY <1>1 DEF Clean, FitsKey
<1>3. \A k \in DOMAIN bag : bag[k].words # <<Empty>>
  BY DEF Unwritable
<1>4. ASSUME DefaultKey(format) \in DOMAIN bag PROVE Len(bag[DefaultKey(format)].words) = 1
  <2>1. ~(Len(bag[DefaultKey(format)].words) > 1)
    BY <1>4 DEF Unwritable, IsSet
  <2>2. PICK n : n = Len(bag[DefaultKey(format)].words)
    OBVIOUS
  <2>3. n \in Nat \ {0}
    BY <1>2, <1>4, <2>2, Shape
  <2>4. ~(n > 1)
    BY ONLY <2>1, <2>2, Zenon
  <2>5. n = 1
    BY ONLY <2>3, <2>4
  <2>6. QED
    BY <2>2, <2>5
<1>5. ASSUME NEW k \in DOMAIN bag, Partner(format, k) \in DOMAIN bag
      PROVE  \E j \in Pairing(format) : bag[k].words = <<j>>
  <2>1. CASE ~validated
    <3>1. bag[k].words \in {<<j>> : j \in Pairing(format)}
      BY <1>5, <2>1 DEF Unwritable, IsSet, Pairing
    <3>2. QED
      BY <3>1
  <2>2. CASE validated
    <3>1. Entry(format, k).enum = {} \/ bag[k].words \in {<<j>> : j \in Entry(format, k).enum}
      BY <1>1, <2>2 DEF Valid
    <3>2. k # Unset /\ Partner(format, k) # Unset
      BY <1>2, <1>5
    <3>3. Entry(format, k).enum # {} /\ Entry(format, k).enum \subseteq Pairing(format)
      BY <1>1, <3>2, Partners DEF Pairing
    <3>4. QED
      BY <3>1, <3>3
  <2>3. QED
    BY <2>1, <2>2
<1>6. QED
  BY <1>3, <1>4, <1>5 DEF Writable

(* The rules agree with the meaning.                                       *)
LEMMA RulesAgree ==
  ASSUME UpdInv, ~Unwritable, phase = "sent"
  PROVE  HitsRootOnly(option, text) <=> NeedsRoot
<1>1. IsFormat(format) /\ Clean(format, strict, bag) /\ option \in Options /\ text = TextOf(format, bag)
  BY FormatAssumption DEF UpdInv, Known, Kept, AsWritten, format
<1>2. Writable(format, bag)
  BY WritableBag
<1>3. \A k \in DOMAIN bag : k # Unset /\ bag[k].words \in Words
  BY <1>1 DEF Clean, FitsKey
<1>4. \A q \in Words : q # <<>>
  BY DEF Words
<1>5. ASSUME option \in {"mp", "usb", "hostpci", "features"} PROVE Spells(format, bag, text)
  <2>1. Unpaired(format)
    BY <1>1, <1>5, OptionAssumption DEF Unpaired, format
  <2>2. QED
    BY <1>1, <1>2, <2>1, Spelt
<1>6. option \in {"mp", "usb", "hostpci", "features"} => (IsOff(text) <=> Off)
  BY <1>5 DEF Spells, Off
<1>7. CASE option = "mp"
  <2>1. DefaultKey(format) = "volume" /\ Spells(format, bag, text)
    BY <1>1, <1>5, <1>7, OptionAssumption DEF format
  <2>2. /\ "volume" \in DOMAIN bag => BareOr(text, "volume") = bag["volume"].words
        /\ "volume" \notin DOMAIN bag => BareOr(text, "volume") = <<>>
    BY <2>1, Found
  <2>3. HitsRootOnly(option, text) <=> ~IsOff(text) /\ IsRooted(BareOr(text, "volume"))
    BY <1>7 DEF HitsRootOnly
  <2>4. NeedsRoot <=> ~Off /\ "volume" \in DOMAIN bag /\ IsRooted(bag["volume"].words)
    BY <1>7 DEF NeedsRoot, IsSet
  <2>5. ~IsRooted(<<>>)
    BY DEF IsRooted
  <2>6. QED
    BY <1>6, <1>7, <2>2, <2>3, <2>4, <2>5
<1>8. CASE option = "usb"
  <2>1. DefaultKey(format) = "host" /\ Spells(format, bag, text)
    BY <1>1, <1>5, <1>8, OptionAssumption DEF format
  <2>2. /\ "host" \in DOMAIN bag => BareOr(text, "host") = bag["host"].words
        /\ "host" \notin DOMAIN bag => BareOr(text, "host") = <<>>
    BY <2>1, Found
  <2>3. HitsRootOnly(option, text) <=> ~IsOff(text) /\ BareOr(text, "host") \notin {<<>>} \cup {<<w>> : w \in Spice}
    BY <1>8 DEF HitsRootOnly
  <2>4. NeedsRoot <=> ~Off /\ "host" \in DOMAIN bag /\ bag["host"].words \notin {<<w>> : w \in Spice}
    BY <1>8 DEF NeedsRoot, IsSet
  <2>5. "host" \in DOMAIN bag => bag["host"].words # <<>>
    BY <1>3, <1>4
  <2>6. QED
    BY <1>6, <1>8, <2>2, <2>3, <2>4, <2>5
<1>9. CASE option = "hostpci"
  <2>1. DefaultKey(format) = "host" /\ Spells(format, bag, text)
    BY <1>1, <1>5, <1>9, OptionAssumption DEF format
  <2>2. /\ "host" \in DOMAIN bag => BareOr(text, "host") = bag["host"].words
        /\ "host" \notin DOMAIN bag => BareOr(text, "host") = <<>>
        /\ "romfile" \in DOMAIN bag => SubKey(text, "romfile") = bag["romfile"].words
        /\ "romfile" \notin DOMAIN bag => SubKey(text, "romfile") = <<>>
    BY <2>1, Found
  <2>3. HitsRootOnly(option, text) <=> ~IsOff(text) /\ (BareOr(text, "host") # <<>> \/ SubKey(text, "romfile") # <<>>)
    BY <1>9 DEF HitsRootOnly
  <2>4. NeedsRoot <=> ~Off /\ ("host" \in DOMAIN bag \/ "romfile" \in DOMAIN bag)
    BY <1>9 DEF NeedsRoot, IsSet
  <2>5. /\ "host" \in DOMAIN bag => bag["host"].words # <<>>
        /\ "romfile" \in DOMAIN bag => bag["romfile"].words # <<>>
    BY <1>3, <1>4
  <2>6. QED
    BY <1>6, <1>9, <2>2, <2>3, <2>4, <2>5
<1>10. CASE option = "features"
  <2>1. DefaultKey(format) = Unset /\ Spells(format, bag, text)
    BY <1>1, <1>5, <1>10, OptionAssumption DEF format
  <2>2. UsesPrivilegedFeature(text) <=> \E k \in DOMAIN bag : k # "nesting"
    BY <1>3, <2>1, Featured
  <2>3. HitsRootOnly(option, text) <=> ~IsOff(text) /\ UsesPrivilegedFeature(text)
    BY <1>10 DEF HitsRootOnly
  <2>4. NeedsRoot <=> ~Off /\ (\E k \in DOMAIN bag : k # "nesting")
    BY <1>10 DEF NeedsRoot
  <2>5. QED
    BY <1>6, <1>10, <2>2, <2>3, <2>4
<1>11. CASE option \notin {"mp", "usb", "hostpci", "features"}
  BY <1>11 DEF HitsRootOnly, NeedsRoot
<1>12. QED
  BY <1>7, <1>8, <1>9, <1>10, <1>11

LEMMA Decided ==
  ASSUME NEW c \in Credentials, NEW e \in {"plain", "ticketOnly", "rootOnly", "unknown"},
         e # "unknown", NEW hits \in BOOLEAN, hits => e = "plain"
  PROVE  LET root == e = "rootOnly" \/ hits IN
         Decision(c, e, hits, Unset) =
           IF c.token /\ e # "ticketOnly" /\ ~root THEN "token"
           ELSE IF c.ticket # "none" /\ (root => c.ticket = "root") THEN "ticket"
           ELSE "refused"
<1> DEFINE root == e = "rootOnly" \/ hits
           r == RequiredTier(c, e, hits)
<1>1. CASE root
  <2>1. r = [tier |-> "ticket", root |-> TRUE]
    BY <1>1 DEF RequiredTier
  <2>2. QED
    BY <1>1, <2>1 DEF Decision, Configured
<1>2. CASE ~root /\ e = "ticketOnly"
  <2>1. r = [tier |-> "ticket", root |-> FALSE]
    BY <1>2 DEF RequiredTier
  <2>2. QED
    BY <1>2, <2>1 DEF Decision, Configured
<1>3. CASE ~root /\ e # "ticketOnly"
  <2>1. r = [tier |-> IF c.token THEN "token" ELSE "ticket", root |-> FALSE]
    BY <1>3 DEF RequiredTier
  <2>2. QED
    BY <1>3, <2>1 DEF Decision, Configured, Credentials
<1>4. QED
  BY <1>1, <1>2, <1>3

-----------------------------------------------------------------------------
(* Whatever parts are stored and whatever a caller changes, the bag holds  *)
(* sub-keys of the format under their own names only, each with a value of *)
(* the type that reading it gives (parsePropertyString, props.ts).         *)
THEOREM UpdTypes == UpdSpec => []UpdTypeOK
<1>1. UpdInv => UpdTypeOK
  BY DEF UpdInv, Known, Kept, Clean, FitsKey, UpdTypeOK, format
<1>2. QED
  BY <1>1, UpdInvariance, PTL

(* What a caller wrote reads back sub-key for sub-key, in whatever order   *)
(* the node hands the parts back, and so does what was stored              *)
(* (formatPropertyString and parsePropertyString, props.ts).               *)
THEOREM WrittenReadsBack == UpdSpec => []ReadsBack
<1>1. ASSUME UpdInv PROVE ReadsBack
  <2>1. IsFormat(format) /\ strict \in BOOLEAN /\ Clean(format, strict, bag)
    BY <1>1, FormatAssumption DEF UpdInv, Known, Kept, format
  <2>2. ASSUME phase = "stored", NEW p \in Bijection(DOMAIN text, DOMAIN text)
        PROVE  Parse(format, [i \in DOMAIN text |-> text[p[i]]], strict) = Parse(format, text, strict)
    BY <1>1, <2>1, <2>2, AnyOrder DEF UpdInv, AsStored
  <2>3. ASSUME phase = "written", ~Unwritable, NEW p \in Bijection(DOMAIN text, DOMAIN text)
        PROVE  Parse(format, [i \in DOMAIN text |-> text[p[i]]], strict) = Bag(bag)
    <3>1. text = TextOf(format, bag) /\ Writable(format, bag)
      BY <1>1, <2>3, WritableBag DEF UpdInv, AsWritten
    <3>2. text \in Seq(PartSet) /\ Parse(format, text, strict) = Bag(bag)
      BY <2>1, <3>1, RoundTrip
    <3>3. QED
      BY <2>1, <2>3, <3>2, AnyOrder
  <2>4. QED
    BY <2>2, <2>3 DEF ReadsBack
<1>2. QED
  BY <1>1, UpdInvariance, PTL

(* A call whose tier the client chooses goes out with a credential that    *)
(* the endpoint and the parameters need, the token when it does, and is    *)
(* refused only when the client has none (requiredTier and                 *)
(* resolveDecision, client.ts; the rules of privileges.ts).                *)
THEOREM TierFits == UpdSpec => []CredentialFits
<1>1. ASSUME UpdInv PROVE CredentialFits
  <2> SUFFICES ASSUME phase = "sent", asked = Unset, endpoint # "unknown", ~Unwritable
               PROVE  IF Suffices("token") THEN sent = "token"
                      ELSE IF Suffices("ticket") THEN sent = "ticket"
                      ELSE sent = "refused"
    BY DEF CredentialFits
  <2> DEFINE hits == endpoint = "plain" /\ HitsRootOnly(option, text)
             root == endpoint = "rootOnly" \/ (endpoint = "plain" /\ NeedsRoot)
  <2>1. sent = Decision(credentials, endpoint, hits, Unset)
    BY <1>1 DEF UpdInv, AsDecided
  <2>2. /\ credentials \in Credentials /\ endpoint \in {"plain", "ticketOnly", "rootOnly", "unknown"}
        /\ hits \in BOOLEAN /\ (hits => endpoint = "plain")
    BY <1>1 DEF UpdInv, Known
  <2>3. HitsRootOnly(option, text) <=> NeedsRoot
    BY <1>1, RulesAgree
  <2>4. (endpoint = "rootOnly" \/ hits) <=> root
    BY <2>3
  <2> HIDE DEF hits
  <2>5. sent = IF credentials.token /\ endpoint # "ticketOnly" /\ ~(endpoint = "rootOnly" \/ hits) THEN "token"
               ELSE IF credentials.ticket # "none"
                       /\ ((endpoint = "rootOnly" \/ hits) => credentials.ticket = "root") THEN "ticket"
               ELSE "refused"
    BY <2>1, <2>2, Decided
  <2>6. Suffices("token") <=> credentials.token /\ endpoint # "ticketOnly" /\ ~root
    BY DEF Suffices, Configured
  <2>7. Suffices("ticket") <=> credentials.ticket # "none" /\ (root => credentials.ticket = "root")
    BY DEF Suffices, Configured
  <2> HIDE DEF root
  <2>8. QED
    BY <2>4, <2>5, <2>6, <2>7
<1>2. QED
  BY <1>1, UpdInvariance, PTL
=============================================================================
