------------------------------ MODULE Termproxy ------------------------------
(***************************************************************************)
(* TermproxyTransport (shell/termproxy.ts): one root shell behind a        *)
(* websocket.  run() serializes the commands; each is wrapped in three     *)
(* marks, BEGIN, ERR and END, which parse() finds in the pty's output.     *)
(* The marks are the same for every command of a session.  A deadline that *)
(* passes sends ^C and leaves the session open.                            *)
(*                                                                         *)
(* An action is one macrotask of the event loop with the microtasks it     *)
(* causes, except that the next queued run starts in an action of its own, *)
(* Start, before any other macrotask (Idle).  The output between marks is  *)
(* abstracted away: a mark carries the command that printed it, which the  *)
(* client cannot see.  The pty, its line discipline and the shell are      *)
(* external.  X_Something, commented "Wrong:", is a mutant of X.           *)
(***************************************************************************)
EXTENDS Naturals, Sequences, SequencesExt, FiniteSetsExt

CONSTANTS
  Commands,  \* calls of run()
  Probe,     \* connect's own command, printf ready
  TooLong,   \* commands whose wrapped line passes maxCommandBytes
  Stubborn,  \* commands that ignore SIGINT
  Floods,    \* commands that can print more than maxOutputBytes
  Login,     \* what the waiter waits for when it waits for the login
  None

Runs == Commands \cup {Probe}

ASSUME CommandsAssumption ==
  /\ TooLong \cup Stubborn \cup Floods \subseteq Commands
  /\ Probe \notin Commands /\ Login \notin Runs /\ None \notin Runs \cup {Login}

VARIABLES
  sock,      \* readyState of the websocket
  attached,  \* this.socket is not undefined
  stage,     \* how far connect() came
  failure,   \* this.failure is set
  buffer,    \* this.buffer: the marks in it
  waiter,    \* this.waiter: None, Login or the command whose result it wants
  queue,     \* this.queue: the runs that have not settled, in call order
  pc,        \* pc[c]: "new", "queued", or how run(c) settled
  got,       \* got[c]: the commands whose marks bound and fill c's result
  up, down,  \* frames under way in the websocket
  lines,     \* the tty's input queue
  fg, next,  \* the command the shell runs, and the mark it prints next
  killed     \* commands a ^C killed, or flushed from the tty unread

client == <<sock, attached, stage, failure, buffer, waiter, queue, pc, got>>
shell == <<lines, fg, next, killed>>
vars == <<client, up, down, shell>>

Frame(k, c) == [kind |-> k, of |-> c]
Over == {"ok", "timeout", "unheard", "dead", "refused"}

Init ==
  /\ sock = "connecting" /\ attached = TRUE
  /\ stage = "opening" /\ failure = FALSE
  /\ buffer = <<>> /\ waiter = None /\ queue = <<>>
  /\ pc = [c \in Commands |-> "new"]
  /\ got = [c \in Commands |-> {}]
  /\ up = <<>> /\ down = <<>>
  /\ lines = <<>> /\ fg = None /\ next = "BEGIN" /\ killed = {}

\* The head of the queue can start: no microtask is left but its own.
Startable == stage = "ready" /\ queue # <<>> /\ waiter = None
Idle == ~Startable

-----------------------------------------------------------------------------
(* Parsing.                                                                *)

\* Position of the first mark of a kind from a position on, 0 if none.
IndexOf(s, kind, from) ==
  LET at == {i \in from..Len(s) : s[i].kind = kind}
  IN IF from = 0 \/ at = {} THEN 0 ELSE Min(at)

BeginOf(s) == IndexOf(s, "BEGIN", 1)
EndOf(s) == IndexOf(s, "END", IndexOf(s, "ERR", BeginOf(s)))

Complete(s) == EndOf(s) # 0
ResultOf(s) == {s[i].of : i \in BeginOf(s)..EndOf(s)}

-----------------------------------------------------------------------------
(* Ends of the session.                                                    *)

\* this.socket?.close(); this.socket = undefined
Detach ==
  /\ attached' = FALSE
  /\ sock' = IF attached /\ sock \in {"connecting", "open"} THEN "closing" ELSE sock

\* The pending wait rejects: the run settles, or connect() throws, closing.
Reject(outcome) ==
  IF waiter \in Commands
  THEN /\ pc' = [pc EXCEPT ![waiter] = outcome]
       /\ queue' = Tail(queue)
       /\ waiter' = None
       /\ UNCHANGED stage
  ELSE /\ waiter' = None
       /\ stage' = IF stage = "ready" THEN stage ELSE "failed"
       /\ UNCHANGED <<pc, queue>>

\* Connecting: the rejection ends in close().
Connecting == stage \in {"opening", "login", "probe"}

\* ^C for the remote command, while the socket can take it.
Interrupt(c) == IF sock = "open" THEN Append(up, Frame("intr", c)) ELSE up

-----------------------------------------------------------------------------
(* connect().                                                              *)

SocketOpens ==
  /\ sock = "connecting"
  /\ sock' = "open"
  /\ stage' = "login"
  /\ waiter' = Login
  /\ up' = Append(up, Frame("login", Probe))
  /\ UNCHANGED <<attached, failure, buffer, queue, pc, got, down, shell>>

\* The websocket did not open, or the login or the probe was not answered.
ConnectTimeout ==
  /\ Connecting
  /\ Detach
  /\ Reject("timeout")
  /\ up' = IF waiter = Probe THEN Interrupt(Probe) ELSE up
  /\ UNCHANGED <<failure, buffer, got, down, shell>>

-----------------------------------------------------------------------------
(* run().                                                                  *)

\* serialize(): the call takes its place behind the runs before it.
Run(c) ==
  /\ stage = "ready" /\ pc[c] = "new"
  /\ pc' = [pc EXCEPT ![c] = "queued"]
  /\ queue' = Append(queue, c)
  /\ UNCHANGED <<sock, attached, stage, failure, buffer, waiter, got, up, down, shell>>

\* Wrong: what is left of the last run's output stays in the buffer.
Start_KeepsBuffer ==
  /\ Startable
  /\ LET c == Head(queue) IN
     IF failure \/ ~attached \/ c \in TooLong
     THEN /\ pc' = [pc EXCEPT ![c] = IF failure \/ ~attached THEN "dead" ELSE "refused"]
          /\ queue' = Tail(queue)
          /\ UNCHANGED <<buffer, waiter, up>>
     ELSE /\ up' = Append(up, Frame("line", c))
          /\ waiter' = c
          /\ UNCHANGED <<buffer, pc, queue>>
  /\ UNCHANGED <<sock, attached, stage, failure, got, down, shell>>

\* runNow(): refuse, or empty the buffer, send the wrapped line and wait.
Start ==
  /\ Startable
  /\ LET c == Head(queue) IN
     IF failure \/ ~attached \/ c \in TooLong
     THEN /\ pc' = [pc EXCEPT ![c] = IF failure \/ ~attached THEN "dead" ELSE "refused"]
          /\ queue' = Tail(queue)
          /\ UNCHANGED <<buffer, waiter, up>>
     ELSE /\ buffer' = <<>>
          /\ up' = Append(up, Frame("line", c))
          /\ waiter' = c
          /\ UNCHANGED <<pc, queue>>
  /\ UNCHANGED <<sock, attached, stage, failure, got, down, shell>>

\* A timeout, told apart by whether any output of the command had arrived.
TimeoutOf(c) ==
  IF \E i \in 1..Len(buffer) : buffer[i].of = c THEN "timeout" ELSE "unheard"

\* Wrong: the next run is started before the ^C is sent.
Deadline_LateInterrupt(c) ==
  /\ Idle /\ waiter = c
  /\ pc' = [pc EXCEPT ![c] = TimeoutOf(c)]
  /\ queue' = Tail(queue)
  /\ IF Len(queue) > 1 /\ sock = "open"
     THEN /\ waiter' = queue[2]
          /\ buffer' = <<>>
          /\ up' = up \o <<Frame("line", queue[2]), Frame("intr", c)>>
     ELSE /\ waiter' = None
          /\ up' = Interrupt(c)
          /\ UNCHANGED buffer
  /\ UNCHANGED <<sock, attached, stage, failure, got, down, shell>>

\* Wrong: the timer rejects and leaves the waiter in place.
Deadline_KeepsWaiter(c) ==
  /\ Idle /\ waiter = c
  /\ pc' = [pc EXCEPT ![c] = TimeoutOf(c)]
  /\ queue' = Tail(queue)
  /\ up' = Interrupt(c)
  /\ UNCHANGED <<sock, attached, stage, failure, buffer, waiter, got, down, shell>>

\* Wrong: only a run that succeeds hands the queue on.
Deadline_KeepsQueue(c) ==
  /\ Idle /\ waiter = c
  /\ pc' = [pc EXCEPT ![c] = TimeoutOf(c)]
  /\ stage' = "stuck"
  /\ waiter' = None
  /\ up' = Interrupt(c)
  /\ UNCHANGED <<sock, attached, failure, buffer, queue, got, down, shell>>

\* The timer of waitFor() fires: interrupt the command, give up on it.
Deadline(c) ==
  /\ Idle /\ waiter = c
  /\ Reject(TimeoutOf(c))
  /\ up' = Interrupt(c)
  /\ UNCHANGED <<sock, attached, failure, buffer, got, down, shell>>

\* append(): the output outgrew the cap.
Overflow ==
  /\ buffer' = <<>> /\ failure' = TRUE
  /\ Detach
  /\ Reject("dead")
  /\ UNCHANGED <<got, up>>

\* append(): a login prompt where a root shell should be.
LoginPrompt(text) ==
  /\ buffer' = text /\ failure' = TRUE
  /\ Detach
  /\ Reject("dead")
  /\ up' = IF waiter = Probe THEN Interrupt(Probe) ELSE up
  /\ UNCHANGED got

\* connect(): the probe answered, but not with ready and 0.
ProbeFails(text) ==
  /\ waiter = Probe /\ Complete(text)
  /\ buffer' = SubSeq(text, EndOf(text) + 1, Len(text))
  /\ Detach
  /\ Reject("dead")
  /\ UNCHANGED <<failure, got, up>>

\* append(): let the waiter look.  A login starts the probe, the probe's
\* result makes the session ready, a run's result settles it.
Check(text) ==
  IF waiter = Login /\ IndexOf(text, "OK", 1) # 0
  THEN /\ buffer' = <<>> /\ stage' = "probe" /\ waiter' = Probe
       /\ up' = Append(up, Frame("line", Probe))
       /\ UNCHANGED <<queue, pc, got>>
  ELSE IF waiter \in Runs /\ Complete(text)
  THEN /\ buffer' = SubSeq(text, EndOf(text) + 1, Len(text))
       /\ waiter' = None
       /\ IF waiter = Probe
          THEN stage' = "ready" /\ UNCHANGED <<queue, pc, got>>
          ELSE /\ pc' = [pc EXCEPT ![waiter] = "ok"]
               /\ got' = [got EXCEPT ![waiter] = ResultOf(text)]
               /\ queue' = Tail(queue)
               /\ UNCHANGED stage
       /\ UNCHANGED up
  ELSE buffer' = text /\ UNCHANGED <<stage, waiter, queue, pc, got, up>>

\* A chunk of n marks arrives.
Message(n) ==
  /\ Idle /\ sock \in {"open", "closing"} /\ n <= Len(down)
  /\ down' = SubSeq(down, n + 1, Len(down))
  /\ LET text == buffer \o SubSeq(down, 1, n) IN
     IF IndexOf(text, "flood", 1) # 0 THEN Overflow
     ELSE IF Connecting /\ Last(text).kind = "ask" THEN LoginPrompt(text)
     ELSE ProbeFails(text) \/ (Check(text) /\ UNCHANGED <<sock, attached, failure>>)
  /\ UNCHANGED shell

\* The websocket reports an error or a close, its own or the node's.
SocketCloses ==
  /\ Idle /\ sock \in {"connecting", "open", "closing"}
  /\ sock' = "closed" /\ failure' = TRUE
  /\ attached' = (attached /\ ~Connecting)
  /\ Reject("dead")
  /\ up' = <<>> /\ down' = <<>>
  /\ UNCHANGED <<buffer, got, shell>>

\* close(): a pending wait is left to the close event or to its deadline.
Close ==
  /\ stage = "ready" /\ attached
  /\ Detach
  /\ UNCHANGED <<stage, failure, buffer, waiter, queue, pc, got, up, down, shell>>

-----------------------------------------------------------------------------
(* The node's pty and shell: external.                                     *)

Emit(marks) == down' = IF sock = "closed" THEN down ELSE down \o marks

\* The login is answered, for root@pam by a shell, else by a login prompt.
NodeLogin ==
  /\ up # <<>> /\ Head(up).kind = "login"
  /\ up' = Tail(up)
  /\ \E greeting \in {<<Frame("OK", Probe)>>, <<Frame("OK", Probe), Frame("ask", Probe)>>} :
       /\ down' = down \o greeting
       /\ next' = IF Len(greeting) = 1 THEN next ELSE "ask"
  /\ UNCHANGED <<client, lines, fg, killed>>

TtyLine ==
  /\ up # <<>> /\ Head(up).kind = "line"
  /\ up' = Tail(up)
  /\ lines' = Append(lines, Head(up).of)
  /\ UNCHANGED <<client, down, fg, next, killed>>

\* ^C flushes the input queue and interrupts the command that runs.
TtyInterrupt ==
  /\ up # <<>> /\ Head(up).kind = "intr"
  /\ up' = Tail(up)
  /\ lines' = <<>>
  /\ LET hit == {fg} \ ({None} \cup Stubborn) IN
     /\ killed' = killed \cup ToSet(lines) \cup hit
     /\ fg' = IF hit = {} THEN fg ELSE None
     /\ next' = IF hit = {} THEN next ELSE "BEGIN"
  /\ UNCHANGED <<client, down>>

ShellReads ==
  /\ fg = None /\ lines # <<>> /\ next = "BEGIN"
  /\ fg' = Head(lines)
  /\ lines' = Tail(lines)
  /\ UNCHANGED <<client, up, down, next, killed>>

\* The wrapped line prints BEGIN, runs the command, prints ERR, then END.
ShellPrints ==
  /\ fg # None
  /\ Emit(<<Frame(next, fg)>>)
  /\ next' = [BEGIN |-> "ERR", ERR |-> "END", END |-> "BEGIN"][next]
  /\ fg' = IF next = "END" THEN None ELSE fg
  /\ UNCHANGED <<client, up, lines, killed>>

ShellFloods ==
  /\ fg \in Floods /\ next = "ERR"
  /\ Emit(<<Frame("flood", fg), Frame("ERR", fg)>>)
  /\ next' = "END"
  /\ UNCHANGED <<client, up, lines, fg, killed>>

-----------------------------------------------------------------------------
Node == NodeLogin \/ TtyLine \/ TtyInterrupt \/ ShellReads \/ ShellPrints

Next ==
  \/ SocketOpens \/ ConnectTimeout \/ Start \/ SocketCloses \/ Close
  \/ \E c \in Commands : Run(c) \/ Deadline(c)
  \/ \E n \in 1..Len(down) : Message(n)
  \/ Node \/ ShellFloods

\* Timers fire and promises run on; nothing is assumed of the network.
Fairness ==
  /\ WF_vars(Start)
  /\ \A c \in Commands : WF_vars(Deadline(c))

Spec == Init /\ [][Next]_vars
FairSpec == Spec /\ Fairness

-----------------------------------------------------------------------------
(* Properties.                                                             *)

\* Type invariant: what is told of a session agrees with what became of it.
\* The waiter is the head of the queue, a session that died has nobody waiting,
\* one whose connect() threw has let go of its websocket, and a run is told of
\* a dead session only when it is dead.
TypeOK ==
  /\ sock \in {"connecting", "open", "closing", "closed"}
  /\ attached \in BOOLEAN /\ failure \in BOOLEAN
  /\ stage \in {"opening", "login", "probe", "ready", "failed"}
  /\ waiter \in Runs \cup {Login, None}
  /\ waiter \in Commands => queue # <<>> /\ waiter = Head(queue)
  /\ ToSet(queue) = {c \in Commands : pc[c] = "queued"} /\ IsInjective(queue)
  /\ pc \in [Commands -> {"new", "queued"} \cup Over]
  /\ got \in [Commands -> SUBSET Runs]
  /\ \A s \in {buffer, down, up} : \A i \in 1..Len(s) : s[i].of \in Runs
  /\ fg \in Runs \cup {None} /\ next \in {"BEGIN", "ERR", "END", "ask"}
  /\ ToSet(lines) \subseteq Runs /\ killed \subseteq Runs
  /\ failure => waiter = None
  /\ stage = "failed" => ~attached /\ sock \in {"closing", "closed"}
  /\ (\E c \in Commands : pc[c] = "dead") => failure \/ ~attached

\* No run gave up before anything of its command had arrived.
AllHeard == \A c \in Commands : pc[c] # "unheard"

\* A run's stdout, stderr and exit status are its own, although the marks do
\* not say whose they are: while all timeouts were of commands that were
\* heard, what an interrupted command still prints never becomes part of the
\* result of a later one.
ResultIsOwnOnceHeard ==
  AllHeard => \A c \in Commands : pc[c] = "ok" => got[c] = {c}

\* The same with no such condition, which is what the interrupt is for:
\* "Interrupt the remote command so the session stays usable".
ResultIsOwn == \A c \in Commands : pc[c] = "ok" => got[c] = {c}

\* The ^C of a run that timed out reaches no other command: what it kills or
\* flushes is a command whose caller was told it failed.
InterruptHitsItsOwn ==
  AllHeard => \A c \in killed \cap Commands : pc[c] \in {"timeout", "dead"}

\* Every run settles, whatever the network and the command do.
EveryRunSettles == \A c \in Commands : pc[c] = "queued" ~> pc[c] \in Over
=============================================================================
