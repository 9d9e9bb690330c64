# A verification development for pve-agent

pve-agent is a TypeScript library that drives a Proxmox VE cluster: a REST
client with three credential tiers, typed wrappers over the API, guest handles
that post tasks and wait for them, VNC and serial consoles, and a root shell on
the nodes. This directory holds TLA+ models of the parts of it that keep state
across an `await` or compute something a test hardly covers, the TLC runs that
check them on small instances, and proofs that TLAPS checks for every instance.

The program is single-threaded. What makes it hard is asynchronous: callers
that share one promise, sockets that die between two steps, timers that race
late answers, one pty that carries the output of every command. Each model's
action is one uninterrupted piece of JavaScript, from a call or a callback to
its next `await`; the interleavings are those of the event loop. All paths
below are relative to `src/src/` unless they say otherwise.

## Inventory

The layers, from below: a registry generated from the API schema
(`generated/`), the core (`core/`), typed wrappers (`access/`, `cluster/`,
`node/`, `guest/`, `guest-os/`), the consoles and the shell (`console/`,
`shell/`), and the facade that ties them together (`pve/`).

| Component | State | Operations | What is hard | What makes it correct |
|---|---|---|---|---|
| Session stores: `pve/cluster.ts`, `shell/node-shell.ts` | a map from key to the promise of a session, one each for node shells, VNC and serial consoles; `NodeShell.closed` | `open`, `forget`, `take`, `drain`; `closeX`, `close()`; `run`, `close`, `notifyClosed` | a close call while an open is in flight; a late close event of an old session; concurrent `close()`s; a shell that drops its entry | no session out of reach, none offered dead, none closed by two callers, `close()` complete and terminating |
| Ticket authentication: `core/auth.ts`, `core/client.ts` | `currentTicket`, `pending`; per request its attempt and ticket | `getTicket`, `login`, `forceRefresh`, `destroy`; `request` with one retry after 401 | renewals shared in flight, a refresh over a renewal of the refused ticket, key rotation, ticket age | no expired ticket sent, a retry uses a new login, one rotation is invisible, requests settle |
| Termproxy shell: `shell/termproxy.ts` | `socket`, `buffer`, `waiter`, `queue`, `failure`, `ready` | `connect`, `run`, `append`/`parse`, deadlines and ^C, `fail`, `close` | output of a command that timed out, ^C racing the next command, overflow, a connection lost with runs queued | results belong to their commands, ^C hits only its own, runs settle |
| Files over a shell: `shell/termproxy.ts`, `shell/lxc.ts`, `guest-os/posix.ts`, `guest-os/executor.ts`, `pve/guest.ts` | files on the node and in the container; the container's kept helper | `upload`, `download`, `pushLocalFile`, `pullToLocalFile`, `writeFile`, `readFileBytes` | a failure between two commands, several jobs on one file, a write that outlives its deadline, a shell lost under any command | files replaced whole, nothing left on the node, no failed command passed over (but for a `base64` in a pipe), a lost shell not offered again |
| Task waiting and lock retries: `core/tasks.ts`, `core/poll.ts`, `pve/guest.ts` | deadlines and delays of two nested polls | `pollUntil`, `waitForTask`, `retryOnLock` | posting an operation again after it failed on the guest's lock; a timeout while the task goes on | nothing is done twice, outcomes are true, calls settle |
| VNC session: `console/vnc.ts`, `console/screenshot.ts` | RFB state, held keys, waiters, the `attach` promise | `attach`, `receive`, `keyDown`/`keyUp`/`press`, `waitForUpdate`, `close`, `fail` | frames split anywhere, three ways to end, update requests that must never be missed, a fresh screenshot during an update | nobody left waiting, no stuck key, the picture never freezes, fresh means fresh |
| Framebuffer: `console/vnc.ts`, `console/rfb.ts` | mode and pixels | `parseRectangle`, `applyRaw`, `applyCopyRect`, change of mode | copies that overlap their source, rectangles at an edge, a mode that changed before a rectangle | a rectangle changes its pixels and no others, as if at once |
| Serial console: `console/terminal.ts` | `answer`, waiters, marks, timers, the emulator | `attach`, `receive`, `sendLine`, `waitForPrompt`, `close` | an OK without framing, an emulator that parses later, prompts of older lines, text that looks like one, waiters on teardown | output is not lost, a prompt answers its line, every wait is woken or settled |
| Property strings: `core/props.ts`, `core/schema.ts` | none | parse, format, split | default keys, aliases, pairs, any order of parts | what is written reads back, in any order |
| Credential tiers: `core/privileges.ts`, `core/client.ts` | none | the rules, `requiredTier`, `resolveDecision` | rules that read a property string without its format | the lowest sufficient credential, refused only when none suffices |
| Guest agent: `guest/agent.ts` | a pid | `exec` | a deadline with the process running | the process is known to run on |
| Node network, allocation of vmids: `node/network.ts`, `guest/discovery.ts` | on the node | staged edits, `createVm` | what another client did in between | checks not stale when used |
| Shell policy, quoting: `shell/policy.ts`, `shell/escape.ts` | none | `checkCommand` | quoting and operators | refuses what it cannot read |
| REST wrappers, registry, codecs, formatting, ssh processes | none of their own | one call each | - | - |

They interact by calls and callbacks. A guest or node handle asks the cluster
for a session; the store starts one, which opens a proxy through the client
(and so through a ticket) and then a websocket; sockets call back with chunks
and closes; a session's `close` event removes its entry from the store. A file
goes through the shell's queue one command at a time, with the commands of
others between. Everything that waits does so on a promise or in `pollUntil`.

## Modules

| Module | Models | Uses |
|---|---|---|
| `ConsoleLife` | abstract: what the stores promise of a console | |
| `Sessions` | the three session stores, their openers and closers, the shell's own entry | implements `ConsoleLife` |
| `SessionsProofs` | theorems about `Sessions`, the refinement among them | `Sessions`, `TLAPS` |
| `Tickets` | the ticket cache under concurrent requests | |
| `TicketsProofs` | theorems about `Tickets` | `Tickets`, `TLAPS` |
| `Termproxy` | one pty shell, its serialized runs, the tty and the shell | |
| `TermproxyProofs` | theorems about `Termproxy` | `Termproxy`, `FiniteSetTheorems`, `TLAPS` |
| `Transfers` | jobs that move files by commands over node shells | |
| `TransfersProofs` | theorems about `Transfers` | `Transfers`, `TLAPS` |
| `Tasks` | guest calls posted again while the lock is held | |
| `Vnc` | one RFB session and fresh screenshots | |
| `VncProofs` | theorems about `Vnc` | `Vnc`, `FiniteSetTheorems`, `TLAPS` |
| `Display` | abstract: a screen whose rectangles change at once | |
| `Screen` | the framebuffer, row by row, and the checks of a rectangle | implements `Display` |
| `ScreenProofs` | theorems about `Screen`, the refinement among them | `Screen`, `TLAPS` |
| `Serial` | one serial console, its emulator and the waits for a prompt | |
| `SerialProofs` | theorems about `Serial` | `Serial`, `FiniteSetTheorems`, `WellFoundedInduction`, `TLAPS` |
| `Props` | property strings: reading and writing | |
| `Tiers` | which credential a call needs and gets | `Props` |
| `Updates` | a caller that reads an option, changes it, writes and sends it | `Tiers` |
| `GuestProofs` | theorems about `Tasks` and about `Updates` | `Tasks`, `Updates`, `FiniteSetTheorems`, `WellFoundedInduction`, `TLAPS` |
| `MC*` | instances for TLC: sets, symmetry, formats | the module each names |

A definition `X_Something` commented "Wrong:" changes `X` as a plausible bug
would. No specification uses one; each shows that a property notices that bug.

### Sessions

`entries` is the `Map` of each of the stores together (a node name and a vmid
never collide, and the VNC and serial stores differ only in their keys);
`phase[s]` is the state of the promise and of the connection behind it;
`op[c]` and `held[c]` are where a close call stands and the promises it awaits.
`Open` is `SessionStore.open` when there is no entry; with one it changes
nothing. `Take`/`TakeSettles` and `Drain`/`DrainSettles`/`CloseReturns` are the
two sides of each `await`. A session's `close` listener is `Forget` with its
check that the entry is still its own. `ShellRunFails` is the catch of
`NodeShell.run`: any `PveShellTransportError`, including the one for a line too
long for the pty, which leaves the connection up.

`ConsoleLife` says the same without stores or promises: a console is its key's
owner or condemned, and what is condemned retires. `Sessions` implements it
under a refinement mapping (condemned: alive, and not in the store).

### Tickets

`cached` and `pending` are `PveAuth`'s two fields. A ticket is what the
properties tell apart: the password login it descends from (a renewal keeps
that), the key that signed it, the time of issue, and `expiresAt` as the
client computes it from the *arrival* of the answer. `Answered` is the 401
branch with `Refresh`, which first waits for whatever is pending. The node may
rotate its key, may refuse everything (`skewed`), and the password may become
wrong. The HTTP timeout appears as `Latency`: no flight is older.

The promises of a settled login wake their waiters in one action. A refresh
that waited for the login is fewer promise hops away than the callers that
return its ticket, so it runs first; that order is in the model because one of
the hazards depends on it.

### Termproxy

Output is abstracted to the marks of a command. A mark carries the command that
printed it, which the client cannot see and `parse` does not use: it takes the
first BEGIN, the ERR behind it and the END behind that, as `indexOf` does.
`got[c]` records whose marks those were. The tty has its input queue, ^C
flushes it and kills the foreground command, a command may ignore ^C, and a
command may print past the cap. `Start` is a microtask and so comes before any
other event (`Idle`). A deadline is either "timeout" (something of the command
had arrived) or "unheard" (nothing had): the buffer is cleared when the next
line is *sent*, so only the first kind is safe. `ProbeFails` is a probe that
answers something else than `ready` and 0, after which `connect` closes.

### Transfers

A job is a caller's `upload`, `download`, `pushLocalFile`, `pullToLocalFile`,
`writeFile` or `readFileBytes`; `job[c].pc` names the command it is at and
`job[c].raised` the error on its way out. The transport runs one command at a
time, so a command is one step, and the jobs interleave between commands.
`Effect` is what a command does, `OnOk` and `OnError` where the job goes on,
through the `finally` blocks it is inside. A command that exits non-zero, gets
no answer or loses its shell leaves a state of `Partial`: nothing done, all of
it, a file beside the target, or a cut piece of a guest write. A command in the
container may outlive its deadline (`running`, `LateWrite`). A piece of a guest
write goes through `printf | base64 | tee`, whose exit code is `tee`'s alone:
`AnswersShort` is a piece that answers 0 with nothing or a cut piece in place,
and `short` remembers it. A guest write may set the file's mode as well, by one
more command (`writeMode`, "chmod"). `entry` is the shell the cluster's store
offers and `helper` the one the container's os helper was opened over, which is
kept; `FindsLost` drops the entry only where the command goes through
`NodeShell.run`. That a result is the result of its own command is
`ResultIsOwnOnceHeard` of `Termproxy`.

### Tasks

`retryOnLock` is a `pollUntil` whose probe is itself a post and a
`waitForTask`, which is another `pollUntil`. `call[c]` holds the locals of both.
`StatusReturns` and `LogReturns` are the continuations after a status and after
the log that a failed task fetches; `SleepOn` and `BackOff` are the tail of the
polling loop with `NextDelay` and `PollSleep`. The node's workers queue for the
config lock, give up having done nothing, or take it and work, possibly for
ever; somebody else takes the lock too.

### Vnc

A websocket chunk holds any number of protocol units, `receive` steps through
them one by one and no promise continuation runs until the chunk is used up
(`Idle`, `Deliver`). The split of a unit over two chunks changes nothing but
when it is seen, so a chunk ends between units. A screen is a few parts, the
content of a part a counter. Sequence numbers are abstracted to what they
decide: an update that finishes after the wait began wakes the waiter. Whether
vncproxy issued a password is chosen where it matters, in `ReadSecurityTypes`.

### Screen and Display

`Screen` is what `Vnc` leaves out of a rectangle: the pixels of a mode in one
buffer, `Accepted` the checks of `parseRectangle`, and one `PaintRow` per turn
of the loop of `applyRaw` or `applyCopyRect`, each a `Buffer.copy` of one
stretch. `BottomUp` is the order in which a copy's rows are taken. `Resize` is
the DesktopSize pseudo-encoding, with a fresh buffer. The loop is synchronous,
so a reader sees the buffer before a rectangle or after it: that is the mapping
to `Display`, where `Paint`, `Copy` and `Resize` change all pixels at once.

### Serial

Chunks end anywhere: between the O and the K of the proxy's answer, between
them and the first output, between a carriage return and its newline. `feed`
hands a chunk to the emulator, which parses it in a later macrotask (`Render`)
and only then has the waits checked. Of the screen the model keeps what the
waits look at: the cursor, and what its line ends in. That is a prompt, or a
sign: text that ends in a `$` or `#`, which the pattern matches as well. A line
holds, and a command prints, nothing, text, or text with such a sign at its end
or inside, and a chunk may end behind it (`Lines`, `Outputs`, `Text`).
`unread()` is then empty exactly when the cursor is at the mark (`Ready`): left
of it the code falls back to the whole screen. Prompts carry a number the client cannot
see, so that `Verdict` can say whose prompt a wait took: one behind the line
("answered"), one the shell printed before it read the line ("early"), or one
that was on the screen when the line was sent, or none at all ("stale").
`decoy` remembers that something may pass for a new prompt without being one:
an empty line, or a sign sent or printed. `Command` is `sendLine` with
`waitForPrompt` behind it, which run in one macrotask.

### Props, Tiers and Updates

A property string is the sequence of its comma-separated parts, a part the
sequence of its words between equals signs, so that the ambiguities of the
format are there without characters: a bare word, an empty part, a value with
an equals sign in it. `Parse` and `AddKeys` (the loop of `addKey`) are recursive
functions of a position, `Put` refuses a sub-key set twice, `PutNamed` is the
renaming by `alias` and `keyAlias`.
`Coerce` keeps a value's words with the type it was read as. `Tiers` has the
rules of `privileges.ts` that look into such a text, through
`splitPropertyParts` and without a format, and the decision of the client. As
in `isSet`, no rule fires on the bare text `0` (`IsOff`).
`Updates` is the use the documentation describes: read, change sub-keys, write,
send with whatever credentials the client has. Its formats are parameters;
`FormatAssumption` and `OptionAssumption` are what the 144 formats of
`generated/formats.ts` keep to. The names begin with `Upd` where `Tasks` has the
same ones, since `GuestProofs` extends both.

## What the runs check

| Run | Instance | States | Checks |
|---|---|---|---|
| `sessions` | 1 shell key, 2 console keys, 2 sessions, 2 close callers, fair | 81 099 | `TypeOK`, `EntriesLive`, `NoOrphan`, `CloseIsComplete`, `OneCloser`, `CloseTerminates`, `ImplementsConsoleLife` |
| `sessions_shell_leak` | 1 shell key, 1 close caller | - | finds `CloseClosesEverySession` violated |
| `tickets` | 2 requests, 1 rotation, 5 ticks, fair | 506 428 | `TypeOK`, `NeverSendsExpired`, `RetryUsesNewLogin`, `RotationIsInvisible`, `RequestsSettle` |
| `termproxy` | 4 runs, fair | 714 423 | `TypeOK`, `ResultIsOwnOnceHeard`, `InterruptHitsItsOwn`, `EveryRunSettles` |
| `termproxy_late_output` | 2 runs | - | finds `ResultIsOwn` violated |
| `transfers` | 2 callers, 3 jobs, 2 pieces, 2 faults | 4 745 621 | `TypeOK`, `TargetIsWhole`, `ResolvedIsGenuine`, `NothingLeftOnNode`, `LostShellIsDropped` |
| `tasks` | 2 calls, a third lock holder, fair | 563 873 | `TypeOK`, `CarriedOutOnce`, `OutcomeIsTrue`, `EveryCallSettles` |
| `vnc` | 2 parts, 1 key, 1 screenshot, fair | 399 513 | `TypeOK`, `NobodyLeftWaiting`, `NoStuckKeys`, `FreshWhenQuiet`, `ScreenConverges` |
| `vnc_stale_fresh` | 1 screenshot | - | finds `FreshIsFresh` violated |
| `screen` | 2 modes of 6 pixels and one too large, 2 colours, every rectangle | 151 554 | `TypeOK`, `RectanglesAreWhole` |
| `serial` | 2 callers, lines that may be empty or look like a prompt, fair | 1 073 579 | `TypeOK`, `NothingLost`, `NothingLeftBehind`, `PromptIsNew`, `PromptWakes` |
| `updates` | 6 options, texts of up to 3 parts, 2 changes | 1 646 698 | `UpdTypeOK`, `ReadsBack`, `CredentialFits` |

Deadlock is not checked: every component may stop, with all its calls over or
its bounds used up.

### What the violations show

* `sessions_shell_leak`: a command over the pty line limit makes a live shell
  drop its entry, so `close()` does not close it although its comment says so.
* `termproxy_late_output`: a run that gave up before anything of its command
  arrived spills that command's marks into the result of the next run.
* `vnc_stale_fresh`: an update already under way when `fresh` is asked for
  wakes the waiter, and the frame encoded is older than the request. With no
  update under way it is not (`FreshWhenQuiet`).

Five more disagreements are in the models, and the properties are stated
around them:

* `ARCHITECTURE.md` promises one open per key in flight. A close call during an
  open takes the entry at once (`pve/cluster.ts:103`), and the next open for
  the key starts beside the first. Both are closed in the end (`NoOrphan`,
  `OneCloser`).
* `docs/shell.md` says that a shell whose transport fails to carry a command is
  dropped. `upload` and `download` (`shell/node-shell.ts:110`) call the
  transport past the catch that drops it, so the shell stays on offer until a
  `run` fails over it: `LostShellIsDropped` excepts the two.
* The interface of the guest helpers says that `writeFile` replaces the file
  with the content (`guest-os/types.ts:83`). A `base64` that is killed or
  missing in the guest leaves an empty or cut piece, its line exits with `tee`'s
  0 (`guest-os/posix.ts:93`; no `pipefail`), `checkResult` passes and the write
  resolves. `AnswersShort` is that step; `ResolvedIsGenuine` excepts the writes
  it happened to (`short`), and TLC shows it as soon as that is dropped.
* `waitForPrompt` is documented not to count the prompt the line was typed at
  (`console/terminal.ts:361`, `docs/consoles.md:263`). Its pattern is matched
  against whatever line the cursor is on, so a chunk that ends behind the `$` in
  the echo of `echo $HOME` ends the wait, at a quiet shell and with no new
  prompt. So does output that stands at `####`. An empty line, or one of blanks,
  does it too: its echo is a carriage return and a newline, and if the websocket
  splits them, the cursor stands left of the mark on the line of the old prompt,
  which the code takes for a redrawn screen. `PromptIsNew` is stated of the
  behaviours with none of this (`~decoy`), and TLC shows either as soon as that
  is dropped.
* Some bags have no text, though the header of `core/props.ts` names only the
  comma as what a value cannot hold: an empty value, a default key's value with
  an equals sign, and without `validate` a first half of a pair that is not the
  name of a sub-key that pairs. `model=firewall` with a `macaddr` is written
  `firewall=...` and reads as another sub-key, though `firewall` is declared:
  the attempt to prove `ReadsBack` brought that up. `ReadsBack` and
  `CredentialFits` except them by name (`Unwritable`).

### Bounds, and why they are enough

* Sessions: two sessions are an older one with a closer, or dead with its event
  still to come, and a newer one that holds the key; two callers are two
  `close()`s, or one and a `closeX`. The proofs lift all of the safety
  properties to any number.
* Tickets: the client starts new or with a ticket an earlier request got. Then
  one request holds the refused ticket while the other has the renewal in
  flight, which is the case `forceRefresh` was written for. Five ticks let a
  ticket reach its renewal and, unrenewed, its expiry. A second rotation within
  one request would show to the caller, and the source allows for one.
* Termproxy: four runs are a run that times out, one that ignores ^C or floods,
  one refused for its length and one behind them.
* Transfers: two pieces have a first, which replaces, and a last; three jobs
  are two at once and one that begins after a fault; the second fault is the
  failure of a clean-up, or the loss of the shell in it. A piece cut short with
  exit 0 counts as a fault too. The callers are symmetric. The proofs lift all of the properties to any number of all of
  these.
* Tasks: the window is 4 ticks and the wait 2, delays 1 and 2, so that a call
  backs off to the maximum and its last sleep is cut at the end of the window.
  "error" stands for every exit status but OK and a lock timeout, and for none.
  `MaxTime` exceeds what any call can last, an assumption TLC checks; the clock
  also stops once nobody waits.
* Vnc: `MaxUp` keeps keys from piling up before the server reads them; update
  requests and handshake answers are never held back by it. `MaxChanges` lets
  a part change while an update of its older content is on its way.
* Screen: fields up to 3 on screens of 3 by 2 and 2 by 3 give every rectangle
  that fits, every overlap of a copy with its source and every way to miss an
  edge. The proofs lift it to any mode and rectangle.
* Serial: `MaxQueue` keeps further chunks in the network while the emulator has
  one to parse; the waits are checked after each chunk in any case. Two callers
  are one whose command is disturbed and one who disturbs it. One types empty
  lines and text, the other text with and without signs, and commands print
  text or text that ends in a sign. That leaves out two empty lines, two lines
  with a sign, and commands that print nothing: their prompt stands behind the
  newline of the echo as another does behind that of the output. The proofs
  have any lines and outputs.
* Updates: the formats of a network card, a disk, a mount point and so on, cut
  to the sub-keys with a default, an alias, a pair, an enum or a rule, and a
  plain one of each type. Three parts hold a pair and what collides with it.
  The proofs lift all of it to any formats and rules' words, any number and
  kind of parts, and any changes.

### Fairness

* `Sessions`: an open settles, since each handshake runs under a timeout, and
  a settled promise runs its continuation. Nobody has to open, close or fail.
* `Tickets`: a flight is answered or ended by the HTTP timeout.
* `Termproxy`: the queue starts its next run, a run's deadline timer fires.
  Nothing is assumed of the network, the node or the command.
* `Tasks`: time passes, answered and timed-out requests and timers run on, a
  worker that cannot get the lock gives up. A worker holding it may hang.
* `Vnc`: the event loop runs on, what was sent arrives, and the server does
  not answer with empty updates for ever (strong fairness of its paint). The
  caller, the guest and the timers stay free not to act.
* `Serial`: the emulator parses what it has, what was sent arrives, the shell
  returns to its prompt. No timer has to fire, so `PromptWakes` does not hold
  by a wait's own timeout.

`Transfers`, `Screen` and `Updates` have safety properties only.

## What is proved

| Module | Theorem | Establishes |
|---|---|---|
| `SessionsProofs` | `TypeCorrect`, `OffersAreLive`, `SessionsReachable`, `CloseComplete`, `SingleCloser` | `TypeOK`, `EntriesLive`, `NoOrphan`, `CloseIsComplete`, `OneCloser`, for any keys, sessions and callers |
| `SessionsProofs` | `ConsolesRefine` | `Spec => Life!Safety`: the stores implement the safety part of `ConsoleLife` |
| `TicketsProofs` | `TypeCorrect`, `NothingExpired`, `FreshRetry` | `TypeOK`, `NeverSendsExpired`, `RetryUsesNewLogin`, for any requests, rotations, lifetime, margin and latency |
| `TicketsProofs` | `OneRotation` | `RotationIsInvisible` as long as the key has changed at most once |
| `TermproxyProofs` | `TypeCorrect`, `OwnResult`, `OwnInterrupt` | `TypeOK`, `ResultIsOwnOnceHeard`, `InterruptHitsItsOwn`, for any commands |
| `TransfersProofs` | `TypeCorrect`, `UploadsAreWhole`, `ResolvedGenuine`, `NothingLeft`, `LostShellDropped` | `TypeOK`, `TargetIsWhole`, `ResolvedIsGenuine`, `NothingLeftOnNode`, `LostShellIsDropped`, for any callers, pieces, faults and jobs; of `ResolvedIsGenuine` as far as no `base64` failed in the pipe of a guest write |
| `GuestProofs` | `TypeCorrect`, `DoneOnce`, `TrueOutcome` | `TypeOK`, `CarriedOutOnce`, `OutcomeIsTrue` of `Tasks`, for any callers, delays and timeouts |
| `GuestProofs` | `UpdTypes`, `WrittenReadsBack`, `TierFits` | `UpdTypeOK`, `ReadsBack`, `CredentialFits` of `Updates`, for any formats like the registry's, any texts and any changes |
| `GuestProofs` | `AnyOrder`, `RoundTrip` | of `Props` alone: a text reads the same in any order of its parts, and a bag that can be written reads back |
| `VncProofs` | `TypeCorrect`, `NobodyLeft`, `KeysReturned`, `QuietIsFresh` | `TypeOK`, `NobodyLeftWaiting`, `NoStuckKeys`, `FreshWhenQuiet`, for any keys, screenshots and finitely many parts |
| `ScreenProofs` | `TypeCorrect`, `PaintedWhole` | `TypeOK`, `RectanglesAreWhole`, for screens of any size and any rectangles |
| `ScreenProofs` | `Refinement` | `Spec => D!Spec`: the framebuffer implements `Display` |
| `SerialProofs` | `TypeCorrect`, `NothingIsLost`, `NothingLeft`, `PromptNew` | `TypeOK`, `NothingLost`, `NothingLeftBehind`, `PromptIsNew`, for any finite number of callers and any cutting of the stream into chunks; of `PromptIsNew` as long as nothing but a prompt looks like one |

They assume only what the modules assume of their constants, which TLC
evaluates in every run: that model values which stand for different things are
different (`KeysAssumption`, `NoneAssumption`, `ValuesAssumption`,
`HolderAssumption`, `CommandsAssumption`, `TransfersAssumption`), that counts
and times are natural numbers, that the renewal margin covers two flights and
leaves some of the lifetime (`TimeAssumption` of `Tickets`; the source has 15
minutes, two hours and an HTTP timeout of 60 seconds, which the caller can
set: the theorems are about clients whose timeout is at most half the margin), that the clock of `Tasks` runs
longer than a call can, that a screen has finitely many parts and a console
finitely many callers, with texts of the kinds there are (`QueueAssumption`), and what the formats and the caller
of `Updates` keep to (below).

In each module the property is not inductive alone. What follows is the
invariant that is, by what each part of it is needed for. Its proof has one
lemma per action; the lemmas before them say what a helper does to one part.

**Sessions.** `NoOrphan` breaks if a close call could forget what it holds, or
if two calls held one session and the first to settle emptied its hands while
the other still counted on it. `IInv` adds: `Born`, a session has a key exactly
when it was started; `HeldOut`, what a close call holds is in no store and in
no other call's hands; `HeldWhileWaiting`, a call holds something only while it
waits; and `Covered`, what a `close()` set out to close is, while the call goes
on, in somebody's hands, dead, or a shell that dropped its entry. The
refinement rests on the same invariant: an open maps to `Begin` as the key is
free and the session new, the end of a console to `End` or, if a close call has
taken its entry, to `Retire`; a take and a drain are one `Condemn`, for which
`EntriesLive` says that every entry is of its own key and connected; and what a
close call holds is not on offer (`HeldOut`), so that closing it is a `Retire`.

**Tickets.** `NeverSendsExpired` needs `CacheKept`: the client's `expiresAt` is
late by at most the flight of the answer; the margin covers that flight and
that of the request, so a ticket found fresh `Lasts`. `RetryUsesNewLogin` needs
`Renewed`: whoever waits for its second attempt waits for a login with the
password and not for a renewal, begun after the refusal. `InLine` says that
nobody waits without a login in flight, and `LoginKept` what such a flight
brings. `Followed` is `OneRotation`: with one change of the key a refusal means
that it has happened, so the next login is signed with the new key and the
retry is not refused. The theorem names the condition that the run has in its
bound.

**Termproxy.** The marks of different commands differ only in a history
variable, so the invariant has to say where every one of them can be. `Aimed`
is the heart of `InterruptHitsItsOwn`: a ^C on its way is the first thing on
its way, the shell has no line behind it, and its foreground is the ^C's own
command or none; it holds as long as everybody was heard, as a command that was
heard has been read by the shell. `Underway` is that of `ResultIsOwnOnceHeard`:
the line of the run in progress is still `Ahead` and nothing that can begin an
output is under way, or the shell is `Inside` the command and the first BEGIN
in the buffer or on its way is the command's, with only its own marks behind
it; between two runs no BEGIN is under way at all (`Between`). `Opening` and
`ProbeCut` say the same of login and probe, `NotYet` that nothing is anywhere
of a run that has not started, and `Life` ties the stages to the websocket.
What `parse` cuts is then reasoned about with `FirstMark`, for `indexOf`.

**Transfers.** `TargetIsWhole` rests on the staging file at the moment of the
rename: `Staged`, while its shell lives a job at its n-th chunk has n - 1
pieces in its staging file and at its install all of them. That no other job
touches that file is `Contained`, a property of every command. `OnCourse` keeps
a job at steps of its own kind, so that each way out of it passes the clean-up
it needs; `Owed` says that what is on the node is there for a clean-up still to
come, or for a job yet to find that its shell died under the command that made
it. `Dropped` keeps a job's shell off the store once the job met it lost: no
action puts an old shell back. `ResolvedIsGenuine` needs more (`GInv`): a job
that raised never comes to "done" (`Leaving`); a reader that did not has a
content of its source on the node, and then in hand (`Read`, over `Sees`); a
writer that did not has what it has sent so far where it belongs, unless
somebody else touched it or a piece was cut short in its pipe (`Written`). The loss of a shell suspends the claim on
a guest write, since its piece may get there or not and the job is yet to
notice.

**Tasks.** `Counted` ties the effects of a call to its workers: all but the
last lost the lock and did nothing. To keep it, `Informed` says that what a
call was told of its last worker is still so when it acts on it, which is what
makes posting again safe. `InWindow` bounds the number of posts: two are at
least a tick apart and the last one is sent no later than the window closes, so
that a call's workers fit into `Attempts`, with which the model numbers them.

**Vnc.** `NobodyLeftWaiting` needs `Life` alone. `NoStuckKeys` is inductive
with it: it speaks of the last frame about a key on its way. `FreshWhenQuiet`
needs the stream: `Grouped`, an update is followed by its rectangles and the
client knows how many are left, so that the wake comes at the last one;
`Ordered`, a part's contents under way only get newer and the newest is what
the server has sent; and `NewEnough`, at the end of every update still to come
each part is at least as new as when a quiet screenshot was asked for.

**Screen.** `RectanglesAreWhole` speaks of a finished rectangle, so the
induction needs the unfinished one: `HalfPainted`, the rows painted so far show
the new pixels and everything else the old ones. Its step for a copy is where
the order of the rows matters: the row read now has not been painted over
(`SourceIsOld`), since with the source above, or left on the same row, the rows
are taken from the bottom. Under it lie lemmas of addresses: rows of a buffer
do not overlap, and a stretch that begins and ends in a row touches no other.
The refinement follows, as `before` changes only when a finished rectangle is
taken over.

**Serial.** What is under way lies in two places, cut anywhere, and a property
of it would have to be said of every cut. `Stream` lays it out as one sequence:
`Laid` says which stretch of it each chunk of the emulator is and what of it is
behind the proxy's answer in `down`, so that a chunk that arrives or is
rendered only moves a boundary. `NothingLost` is then a matter of lengths.
`PromptIsNew` rests on the grammar of that stream (`Legal`): text is followed
by the end of its line, a carriage return by its newline, prompts come in the
order of their numbers, above the one on the screen. A lone carriage return
moves the cursor off the mark and would leave an old prompt to be taken; with
text in every line it is always behind text, which has hidden that prompt by
then, and this is one place where `~decoy` is needed. The other is a sign, of
which there are none on the screen or under way then. So a screen that looks
like a prompt after a chunk shows a later one than before it
(`ChunkRendered`), and a waiting caller's `shown` is not above the screen's (`AtRest`). `Undisturbed` says that
with nothing under way when the line went out, every prompt still to come is
behind it. `Budget`, the prompts printed and owed are no more than one and one
for every caller, bounds the cursor's column (`Bounded`). What a chunk does to
the screen is a recursive function of the chunk; its lemma is an induction up
to a number, done with the least element of the set of the numbers it fails
for (`Reaches`), since the induction theorems cannot be instantiated.

**Updates.** `UpdInv` keeps the bag `Kept`: what `Clean` says of it is true of
what reading returns and of every change, and is what writing needs. With
`AsWritten`, the text is the bag's (`TextOf`), the three properties become
statements about `Props` and `Tiers`. The argument has four parts.

Reading: a part puts into any bag what it puts into the empty one, its `Piece`,
and fails if the two share a sub-key (`Pieces`). So a text is refused exactly
if a piece is or two of them overlap, and else reads as the union of the
pieces (`ParseReads`), which does not mention their order (`AnyOrder`).

Writing: `addKey`, called for one key after the other, writes each sub-key once,
or leaves it to the one it pairs with (`Ordered`). That needs the default key to
come first: the first half of a pair is the default key in every format, so it
is there before its partner can be written alone.

Round trip: a part that was written has as its piece the sub-key, or the two,
it was written for, with the same values (`PartRereads`, for which `Coerced`
says that reading a value twice changes nothing). Together they cover the bag
and do not overlap (`RoundTrip`).

Rules: where nothing pairs up, what `BareAt` and `NamedAt` find in a written
text is the default key and the others, and it is the bare `0` exactly if the
bag is a default key of `0` alone (`Spelt`), so the rules that look into
the text agree with the bag (`RulesAgree`), and `Decided` follows the client
through its cases.

Of the constants this assumes `FormatAssumption`, that an alias leads to a
declared sub-key without one, and that keys which pair up pair the same two, of
which the first is the default key and has an enum of such keys; all 144
formats of the registry (1 209 sub-keys) are like that. `OptionAssumption` has
the default keys of the four options with a rule. `InputAssumption` says that a
caller sets a sub-key by its own name, to a value of a type that it reads as:
a caller that sets an alias itself, or the text `yes` where a boolean is read,
gets back the sub-key it stands for, or the flag `1`. The recursion over parts
and keys is dealt with by `Reaches`, as in `SerialProofs`; for this the
definitions are functions of a position, since the library's folds take an
operator as a parameter, which the prover cannot instantiate.

### Only model-checked

Liveness, and with it the fair part of `ConsoleLife`: fairness and `ENABLED`
are out of the prover's reach. Every invariant of a passing run is proved.

## What is not modelled

`PROJECT.json` lists every component with its status. More than half of the
implementation's lines are generated from the API schema (types, endpoints,
formats), and most of the rest are wrappers of one REST call each, whose state
is the node's. There is no behaviour in them to model beyond a request, which
`Tickets` and `Tasks` have, so the models stand for a small share of the lines
and for nearly all of the state the library keeps.

Left out for good: the wrappers, the registry, formatting, pixel comparison and
encoders, processes started for ssh. Left out of the models there are:

* `Tasks`: abort signals, which the facade's calls never pass, and `stopTask`.
* `Transfers`: the limits on a transfer's size, checked before a file is
  touched; the other guest operating systems.
* `Vnc`: attaching a session again, which nothing in the source does; the
  pointer and the clipboard, which only send; the pauses of `type`.
* `Serial`: `waitForText`, `login`, `readNew` and resizing; guests that redraw
  the screen or edit the line they echo, lines that wrap, and output so long
  that the marked line leaves the buffer.
* `Tiers`: rules that go by a parameter's name or by one plain value.
* `Props`: sizes with a unit and indexed names.
* The agent's exec loop, `waitForScreen` and the shell policy have no module.

Hazards without a property are in `PROJECT.json` with the reason. Most are
behaviour a model contains and no document forbids: a login that caches its
ticket after `destroy()`, a failed line that leaves a file beside its target, a
container helper kept over a closed shell. Two are behaviour that a comment does
forbid and a property excepts: the short pieces and the false prompts above.

## Plan

1. The modules above, with the proofs listed: done.
2. `login` of a serial console against a getty, and the exec loop of the guest
   agent.

## Running

    tlc -workers 2 -config Sessions.cfg MCSessions
    tlapm SessionsProofs.tla

Each run is a configuration and the `MC` module named in `PROJECT.json`; each
`...Proofs` module is checked by itself.
