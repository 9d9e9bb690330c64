------------------------------- MODULE Serial -------------------------------
(***************************************************************************)
(* SerialConsole (console/terminal.ts): a guest's serial port behind a     *)
(* terminal proxy.  The proxy answers the login with an OK that has no     *)
(* framing; everything behind it is terminal output, which goes into an    *)
(* emulator that parses it later; callers type lines and wait for a prompt *)
(* to be rendered behind what they typed.                                  *)
(*                                                                         *)
(* An action is one macrotask.  A chunk of the websocket ends anywhere,    *)
(* also between the O and the K and between a carriage return and its      *)
(* newline.  Of the screen the model keeps the cursor and what the cursor's *)
(* line ends in; a prompt has a number, which the client cannot see, and a  *)
(* text that ends in a $ or # looks like one.  The proxy, the tty and the  *)
(* shell are external.  X_Something, commented "Wrong:", is a mutant of X. *)
(***************************************************************************)
EXTENDS Naturals, Sequences, FiniteSets

CONSTANTS
  Callers,  \* callers of sendLine followed by waitForPrompt, or of the latter
  Lines,    \* what the lines a caller sends hold, by caller
  Outputs,  \* what commands print
  MaxQueue, \* bound: no chunk arrives while the emulator has so many to parse
  None

\* Nothing (or blanks), text, and text with a $ or # in it: at its end, or with
\* more text behind it.
Wordings == {"empty", "text", "sign", "inner"}
Signs == {"sign", "inner"}

ASSUME QueueAssumption ==
  /\ MaxQueue \in Nat \ {0} /\ IsFiniteSet(Callers) /\ None \notin Nat \X Nat
  /\ Lines \in [Callers -> SUBSET Wordings] /\ Outputs \subseteq Wordings

VARIABLES
  sock,       \* readyState of the websocket
  attached,   \* this.socket is not undefined
  auth,       \* this.authenticated
  answer,     \* this.answer
  connect,    \* the promise of attach()
  keepalive,  \* the keepalive interval runs
  writing,    \* chunks the emulator has yet to parse
  screen,     \* the emulator's screen, see Screen
  mark,       \* this.sentMark: a cursor position
  wait,       \* wait[c]: where the wait stands, or how it settled
  line,       \* line[c]: the number of the line c sent, while c waits (history)
  shown,      \* shown[c]: the last prompt rendered by then (history)
  quiet,      \* quiet[c]: nothing but c's line was under way since (history)
  decoy,      \* what may pass for a prompt was sent or printed (history)
  typed,      \* lines under way to the guest's tty
  down,       \* what is under way from the proxy
  greeted,    \* the proxy has answered the login
  input,      \* how many lines the tty holds for the shell
  prompts,    \* how many prompts the shell has printed
  backlog     \* how much the guest printed that is not rendered yet (history)

session == <<sock, attached, auth, answer, connect, keepalive>>
emulator == <<writing, screen, mark>>
history == <<line, shown, quiet, decoy>>
guest == <<greeted, input, prompts, backlog>>
vars == <<session, emulator, wait, history, typed, down, guest>>

\* The cursor, what its line ends in, and the number of the last prompt.  A
\* line typed ahead is echoed before the prompt it is read at, so the prompts
\* of all lines may come to stand on one.
Columns == 0..(Cardinality(Callers) + 2)
Screen == [row : Nat, col : Columns, text : {"blank", "prompt", "sign", "other"},
           prompt : Nat]
Cursor(s) == <<s.row, s.col>>

Item(k) == [kind |-> k, number |-> 0]
Prompt(n) == [kind |-> "prompt", number |-> n]

Text(wording) ==
  CASE wording = "empty" -> <<>>
    [] wording = "text" -> <<Item("text")>>
    [] wording = "sign" -> <<Item("sign")>>
    [] wording = "inner" -> <<Item("sign"), Item("text")>>

\* A shell that printed its first prompt before the console opened, or one
\* that is still to start.
Init ==
  /\ sock = "connecting" /\ attached = TRUE /\ auth = FALSE /\ answer = <<>>
  /\ connect = "pending" /\ keepalive = FALSE
  /\ writing = <<>> /\ mark = None
  /\ screen = [row |-> 0, col |-> 0, text |-> "blank", prompt |-> 0]
  /\ wait = [c \in Callers |-> "new"]
  /\ line = [c \in Callers |-> 0] /\ shown = [c \in Callers |-> 0]
  /\ quiet = [c \in Callers |-> FALSE] /\ decoy = FALSE
  /\ typed = <<>> /\ down = <<>> /\ greeted = FALSE
  /\ input = 0 /\ prompts \in {0, 1} /\ backlog = 0

-----------------------------------------------------------------------------
(* Waits.                                                                  *)

\* waitForPrompt's probe: the cursor's line ends in a $ or #, and unread() is
\* not empty.  After the mark that is the text up to the cursor, before the
\* mark it is the whole screen, so it is empty at the mark only.
Ready(s, m) == s.text \in {"prompt", "sign"} /\ (m = None \/ Cursor(s) # m)

\* How a wait that resolves on screen s turns out: with no prompt but those
\* that were there before its line was sent, with one the shell printed before
\* it read the line, or with one behind it.
Verdict(c, s) ==
  IF s.prompt > line[c] THEN "answered"
  ELSE IF s.prompt > shown[c] THEN "early"
  ELSE "stale"

Settle(settled) ==
  /\ wait' = settled
  /\ line' = [c \in Callers |-> IF settled[c] = "waiting" THEN line[c] ELSE 0]
  /\ shown' = [c \in Callers |-> IF settled[c] = "waiting" THEN shown[c] ELSE 0]

\* Wrong: the waiters of a console that ends are left to their timers.
Failed_Never == wait

\* teardown: waiter.fail() for every waiter.
Failed == [c \in Callers |-> IF wait[c] = "waiting" THEN "failed" ELSE wait[c]]

-----------------------------------------------------------------------------
(* The ends of the session.                                                *)

Teardown(next) ==
  /\ sock' = next
  /\ attached' = FALSE /\ auth' = FALSE /\ answer' = <<>> /\ keepalive' = FALSE
  /\ connect' = IF connect = "pending" THEN "rejected" ELSE connect
  /\ Settle(Failed)
  /\ typed' = <<>> /\ down' = <<>>
  /\ UNCHANGED <<emulator, quiet, decoy, guest>>

Closing == IF sock \in {"connecting", "open"} THEN "closing" ELSE sock

Close == attached /\ Teardown(Closing)

SocketError == attached /\ Teardown(Closing)

ConnectTimeout == connect = "pending" /\ Teardown(Closing)

\* onClose, also of a socket that the session closed and dropped before.
SocketCloses ==
  /\ sock # "closed"
  /\ IF attached
     THEN Teardown("closed")
     ELSE /\ sock' = "closed"
          /\ UNCHANGED <<attached, auth, answer, connect, keepalive, emulator,
                         wait, history, typed, down, guest>>

-----------------------------------------------------------------------------
(* receive() and feed().                                                   *)

\* terminal.write: the emulator parses the chunk later.
Feed(chunk) == writing' = IF chunk = <<>> THEN writing ELSE Append(writing, chunk)

\* Wrong: what shares a frame with the OK is dropped.
Rest_Dropped(a) == <<>>

Rest(a) == SubSeq(a, 3, Len(a))

\* The answer so far: too short, a refusal, or the OK, behind which the
\* console's output begins.
Receive(chunk, remaining) ==
  LET a == answer \o chunk IN
  IF auth
  THEN /\ Feed(chunk)
       /\ down' = remaining
       /\ UNCHANGED <<session, wait, history, typed>>
  ELSE IF Head(a).kind = "no" THEN Teardown(Closing)
  ELSE IF Len(a) < 2
  THEN /\ answer' = a
       /\ down' = remaining
       /\ UNCHANGED <<sock, attached, auth, connect, keepalive, writing, wait,
                      history, typed>>
  ELSE /\ answer' = <<>> /\ auth' = TRUE /\ keepalive' = TRUE
       /\ connect' = "resolved"
       /\ Feed(Rest(a))
       /\ down' = remaining
       /\ UNCHANGED <<sock, attached, wait, history, typed>>

Deliver(n) ==
  /\ attached /\ sock = "open" /\ n \in 1..Len(down) /\ Len(writing) < MaxQueue
  /\ Receive(SubSeq(down, 1, n), SubSeq(down, n + 1, Len(down)))
  /\ UNCHANGED <<screen, mark, guest>>

\* Wrong: a newline leaves the cursor in its column.
Put_BareNewline(s, item) ==
  CASE item.kind = "prompt" ->
         [s EXCEPT !.text = "prompt", !.col = @ + 1, !.prompt = item.number]
    [] item.kind = "text" -> [s EXCEPT !.text = "other", !.col = @ + 1]
    [] item.kind = "sign" -> [s EXCEPT !.text = "sign", !.col = @ + 1]
    [] item.kind = "cr" -> [s EXCEPT !.col = 0]
    [] item.kind = "nl" -> [s EXCEPT !.row = @ + 1, !.text = "blank"]

\* The screen with one more item on it, which xterm renders with convertEol.
Put(s, item) ==
  CASE item.kind = "prompt" ->
         [s EXCEPT !.text = "prompt", !.col = @ + 1, !.prompt = item.number]
    [] item.kind = "text" -> [s EXCEPT !.text = "other", !.col = @ + 1]
    [] item.kind = "sign" -> [s EXCEPT !.text = "sign", !.col = @ + 1]
    [] item.kind = "cr" -> [s EXCEPT !.col = 0]
    [] item.kind = "nl" -> [s EXCEPT !.row = @ + 1, !.col = 0, !.text = "blank"]

Parsed(s, chunk) ==
  LET f[i \in 0..Len(chunk)] == IF i = 0 THEN s ELSE Put(f[i - 1], chunk[i])
  IN  f[Len(chunk)]

\* waiter.check() for every waiter, on screen s.
Checked(s) ==
  [c \in Callers |-> IF wait[c] = "waiting" /\ Ready(s, mark)
                     THEN Verdict(c, s) ELSE wait[c]]

\* Wrong: the waiters are checked when the chunk arrives, not once it shows.
Render_ChecksFirst ==
  /\ writing # <<>>
  /\ writing' = Tail(writing)
  /\ screen' = Parsed(screen, Head(writing))
  /\ backlog' = backlog - Len(Head(writing))
  /\ Settle(Checked(screen))
  /\ UNCHANGED <<session, mark, quiet, decoy, typed, down, greeted, input, prompts>>

\* The emulator has parsed a chunk and calls back.
Render ==
  /\ writing # <<>>
  /\ writing' = Tail(writing)
  /\ screen' = Parsed(screen, Head(writing))
  /\ backlog' = backlog - Len(Head(writing))
  /\ Settle(Checked(screen'))
  /\ UNCHANGED <<session, mark, quiet, decoy, typed, down, greeted, input, prompts>>

-----------------------------------------------------------------------------
(* The callers.                                                            *)

\* The last prompt the shell prints before it reads a line sent now.
Before == (IF prompts = 0 THEN 1 ELSE prompts) + input + Len(typed)

Quiet == /\ typed = <<>> /\ input = 0 /\ prompts > 0
         /\ down = <<>> /\ writing = <<>>
         /\ \A c \in Callers : wait[c] # "waiting"

\* Wrong: the mark stays where the line before was sent.
SendLine_KeepsMark == UNCHANGED mark

SendLine == mark' = Cursor(screen)

\* sendLine, and waitForPrompt behind it.  The mark is at the cursor, so the
\* first probe finds nothing.  A socket that is not open throws.
Command(c) ==
  /\ wait[c] = "new" /\ connect # "pending"
  /\ IF auth /\ sock = "open"
     THEN /\ SendLine
          /\ \E wording \in Lines[c] :
               /\ typed' = Append(typed, wording)
               /\ decoy' = (decoy \/ wording # "text")
          /\ wait' = [wait EXCEPT ![c] =
               IF Ready(screen, mark') THEN "stale" ELSE "waiting"]
          /\ line' = [line EXCEPT ![c] = IF wait'[c] = "waiting" THEN Before ELSE 0]
          /\ shown' = [shown EXCEPT ![c] = IF wait'[c] = "waiting" THEN screen.prompt ELSE 0]
          /\ quiet' = [d \in Callers |-> IF d = c THEN Quiet
                                         ELSE quiet[d] /\ wait[d] # "waiting"]
     ELSE /\ wait' = [wait EXCEPT ![c] = "failed"]
          /\ UNCHANGED <<mark, typed, history>>
  /\ UNCHANGED <<session, writing, screen, down, guest>>

\* waitForPrompt alone: it may resolve at once, also on a closed console.
Wait(c) ==
  /\ wait[c] = "new" /\ connect # "pending"
  /\ wait' = [wait EXCEPT ![c] =
       IF Ready(screen, mark) THEN "answered"
       ELSE IF auth THEN "waiting" ELSE "failed"]
  /\ UNCHANGED <<session, emulator, history, typed, down, guest>>

WaitTimeout(c) ==
  /\ wait[c] = "waiting"
  /\ Settle([wait EXCEPT ![c] = "timeout"])
  /\ UNCHANGED <<session, emulator, quiet, decoy, typed, down, guest>>

-----------------------------------------------------------------------------
(* The proxy, the tty and the shell: external.                             *)

\* The login went out when the socket opened; the proxy answers it.
SocketOpens ==
  /\ sock = "connecting"
  /\ sock' = "open"
  /\ UNCHANGED <<attached, auth, answer, connect, keepalive, emulator, wait,
                 history, typed, down, guest>>

ProxyAnswers ==
  /\ sock = "open" /\ ~greeted
  /\ greeted' = TRUE
  /\ \E a \in {<<Item("O"), Item("K")>>, <<Item("no")>>} : down' = a
  /\ UNCHANGED <<session, emulator, wait, history, typed, input, prompts, backlog>>

Prints(items) ==
  /\ down' = down \o items
  /\ backlog' = backlog + Len(items)

Piped == sock = "open" /\ greeted /\ \A i \in 1..Len(down) : down[i].kind # "no"

ShellStarts ==
  /\ Piped /\ prompts = 0
  /\ prompts' = 1
  /\ Prints(<<Prompt(1)>>)
  /\ UNCHANGED <<session, emulator, wait, history, typed, greeted, input>>

\* The tty echoes the line and its end as it arrives.
TtyEchoes ==
  /\ Piped /\ typed # <<>>
  /\ typed' = Tail(typed)
  /\ input' = input + 1
  /\ Prints(Text(Head(typed)) \o <<Item("cr"), Item("nl")>>)
  /\ UNCHANGED <<session, emulator, wait, history, greeted, prompts>>

\* The shell reads a line, runs it and prints the next prompt.
ShellRuns ==
  /\ Piped /\ input > 0 /\ prompts > 0
  /\ input' = input - 1
  /\ prompts' = prompts + 1
  /\ \E output \in Outputs :
       /\ decoy' = (decoy \/ output \in Signs)
       /\ Prints((IF output = "empty" THEN <<>> ELSE Append(Text(output), Item("nl")))
                   \o <<Prompt(prompts + 1)>>)
  /\ UNCHANGED <<session, emulator, wait, line, shown, quiet, typed, greeted>>

Guest == ShellStarts \/ TtyEchoes \/ ShellRuns

-----------------------------------------------------------------------------
Next ==
  \/ Close \/ SocketError \/ ConnectTimeout \/ SocketCloses
  \/ \E n \in 1..Len(down) : Deliver(n)
  \/ Render
  \/ \E c \in Callers : Command(c) \/ Wait(c) \/ WaitTimeout(c)
  \/ SocketOpens \/ ProxyAnswers \/ Guest

\* The emulator parses what it was given, what was sent arrives, and the shell
\* comes back to its prompt.  Timers may be as long as they like.
Fairness ==
  /\ WF_vars(Render)
  /\ WF_vars(\E n \in 1..Len(down) : Deliver(n)) /\ WF_vars(Guest)

Spec == Init /\ [][Next]_vars
FairSpec == Spec /\ Fairness

-----------------------------------------------------------------------------
(* Properties.                                                             *)

\* Type invariant.
TypeOK ==
  /\ sock \in {"connecting", "open", "closing", "closed"}
  /\ attached \in BOOLEAN /\ auth \in BOOLEAN /\ keepalive \in BOOLEAN
  /\ connect \in {"pending", "resolved", "rejected"}
  /\ answer \in {<<>>, <<Item("O")>>}
  /\ screen \in Screen
  /\ mark = None \/ mark \in Nat \X Columns
  /\ wait \in [Callers -> {"new", "waiting", "answered", "early", "stale",
                           "timeout", "failed"}]
  /\ line \in [Callers -> Nat] /\ shown \in [Callers -> Nat]
  /\ quiet \in [Callers -> BOOLEAN] /\ decoy \in BOOLEAN
  /\ {input, prompts, backlog} \subseteq Nat /\ greeted \in BOOLEAN

\* Nothing the guest prints is lost or shown twice: it is under way, with the
\* emulator or on the screen, also what shared a frame with the OK.
NothingLost ==
  LET Size[i \in 0..Len(writing)] ==
        IF i = 0 THEN 0 ELSE Size[i - 1] + Len(writing[i])
      Output == Cardinality({i \in 1..Len(down) : down[i].kind \notin {"O", "K", "no"}})
  IN  attached => backlog = Output + Size[Len(writing)]

\* A console that ended leaves nothing behind: neither the caller of attach()
\* nor a wait is pending, and no keepalive runs.
NothingLeftBehind ==
  ~attached => /\ connect # "pending" /\ ~auth /\ ~keepalive
               /\ \A c \in Callers : wait[c] # "waiting"

\* "After a sendLine the prompt has to be one rendered after the line went
\* out" (docs/consoles.md), and if the shell sat at its prompt with nothing
\* under way until the wait is over, it is the one that answers the line.
\* It holds as long as every line sent has text and no $ or # is sent or
\* printed but in a prompt, of which docs/consoles.md says nothing.  An echo or
\* an output that a chunk cuts behind a $ or # is taken for a prompt, and so is
\* the old prompt when the echo of an empty line, cut behind its carriage
\* return, moves the cursor before the mark.
PromptIsNew ==
  ~decoy => \A c \in Callers : wait[c] # "stale" /\ (quiet[c] => wait[c] # "early")

\* Who sent a line and waits for the prompt is woken by it, without the help
\* of its own timeout, whatever the other callers type meanwhile.
PromptWakes ==
  \A c \in Callers : (wait[c] = "waiting" /\ line[c] > 0) ~> wait[c] # "waiting"
=============================================================================
