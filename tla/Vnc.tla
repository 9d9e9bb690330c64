--------------------------------- MODULE Vnc ---------------------------------
(***************************************************************************)
(* VncSession (console/vnc.ts): one RFB connection to one guest, and the   *)
(* fresh screenshots taken over it (console/screenshot.ts).  The client    *)
(* runs the handshake under a timer, keeps a framebuffer that incremental  *)
(* updates repaint, remembers which keys it holds down, and is torn down   *)
(* by its caller, by an error or by the socket.                            *)
(*                                                                         *)
(* A chunk of the websocket holds any number of protocol units; receive()  *)
(* steps through them one by one, and no promise continuation runs before  *)
(* the chunk is used up (Idle).  The screen is split into parts, and the   *)
(* content of a part is the number of times the guest has changed it.  The *)
(* RFB server is external.  X_Something, commented "Wrong:", is a mutant   *)
(* of X.                                                                   *)
(***************************************************************************)
EXTENDS Naturals, Sequences, SequencesExt, FiniteSets

CONSTANTS
  Keys,        \* keysyms
  Parts,       \* parts of the screen
  Shots,       \* calls of captureScreenshot with fresh
  MaxChanges,  \* bound: how often the guest changes a part
  MaxUp        \* bound: no key is sent while so many frames are under way

ASSUME BoundsAssumption ==
  MaxChanges \in Nat \ {0} /\ MaxUp \in Nat /\ IsFiniteSet(Parts)

VARIABLES
  sock,      \* readyState of the websocket
  attached,  \* this.socket is not undefined
  state,     \* what the next unit must be
  connect,   \* the promise of attach()
  closes,    \* how often 'close' was emitted
  ended,     \* "close" or "failed" once close() or fail() tore down
  rects,     \* pendingRects
  frame,     \* the framebuffer
  chunk,     \* units of the current chunk that receive() has yet to see
  held,      \* the keys keyDown() is holding
  shots,     \* shots[s]: where the screenshot stands; how old it turned out
  asked,     \* asked[s]: the screen when it was asked for (history)
  quiet,     \* quiet[s]: no update was under way then (history)
  up, down,  \* frames under way to the server, units under way from it
  screen,    \* what the guest shows
  sent,      \* what the server last sent of it
  wants,     \* the update request the server has not answered
  pressed    \* the keys that are down at the guest

session == <<state, connect, closes, ended, rects, held>>
screenshot == <<shots, asked, quiet>>
server == <<screen, sent, wants, pressed>>
vars == <<sock, attached, session, frame, chunk, screenshot, up, down, server>>

Plain(k) == [kind |-> k]
Key(d, k) == [kind |-> "key", down |-> d, key |-> k]
Update(n) == [kind |-> "update", rects |-> n]
Rect(p) == [kind |-> "rect", part |-> p, content |-> screen[p]]

Init ==
  /\ sock = "connecting" /\ attached = TRUE
  /\ state = "version" /\ connect = "pending" /\ closes = 0 /\ ended = "no"
  /\ rects = 0 /\ chunk = 0 /\ held = {}
  /\ frame = [p \in Parts |-> 0]
  /\ shots = [s \in Shots |-> "new"]
  /\ asked = [s \in Shots |-> [p \in Parts |-> 0]]
  /\ quiet = [s \in Shots |-> FALSE]
  /\ up = <<>> /\ down = <<>>
  /\ screen = [p \in Parts |-> 1] /\ sent = [p \in Parts |-> 0]
  /\ wants = "none" /\ pressed = {}

\* The event loop is between two macrotasks.
Idle == chunk = 0 /\ \A s \in Shots : shots[s] # "woken"

-----------------------------------------------------------------------------
(* Ends of the session.                                                    *)

\* socket.close() of a socket that is still up.
Closing == IF attached /\ sock \in {"connecting", "open"} THEN "closing" ELSE sock

\* Wrong: a second teardown emits again.
Emitted_Again == closes + 1

\* emit('close'), once.
Emitted == IF closes = 0 THEN 1 ELSE closes

\* settler?.reject()
Rejected == IF connect = "pending" THEN "rejected" ELSE connect

\* Wrong: waitForUpdate listens for updates only.
Woken_OnUpdateOnly(outcome) ==
  [s \in Shots |-> IF shots[s] = "waiting" /\ outcome = "woken" THEN outcome ELSE shots[s]]

\* The listeners of waitForUpdate run.
Woken(outcome) ==
  [s \in Shots |-> IF shots[s] = "waiting" THEN outcome ELSE shots[s]]

\* teardown(), which leaves the websocket in readyState next.
Teardown(next) ==
  /\ sock' = next
  /\ attached' = FALSE /\ state' = "version" /\ rects' = 0
  /\ held' = {} /\ chunk' = 0 /\ down' = <<>>
  /\ closes' = Emitted
  /\ connect' = Rejected
  /\ shots' = Woken("failed")
  /\ UNCHANGED <<frame, asked, quiet>>

\* fail()
Fail ==
  /\ Teardown(Closing)
  /\ ended' = "failed"
  /\ UNCHANGED <<up, server>>

HandshakeTimeout ==
  /\ Idle /\ connect = "pending"
  /\ Fail

SocketError ==
  /\ Idle /\ attached
  /\ Fail

\* onClose: the socket is gone, its frames with it.
SocketCloses ==
  /\ Idle /\ sock # "closed"
  /\ Teardown("closed")
  /\ ended' = IF connect = "pending" THEN "failed" ELSE ended
  /\ up' = <<>> /\ pressed' = {} /\ wants' = "none"
  /\ UNCHANGED <<screen, sent>>

\* A key-up for every held key, while the socket takes it.
ReleaseKeys ==
  IF sock = "open" THEN SetToSeq({Key(FALSE, k) : k \in held}) ELSE <<>>

\* Wrong: teardown() first, which clears the held keys.
Close_TearsDownFirst ==
  /\ Idle /\ attached
  /\ Teardown(Closing)
  /\ ended' = "close"
  /\ UNCHANGED <<up, server>>

\* close(): releaseKeys(), then teardown().  Closed already, it does nothing.
Close ==
  /\ Idle /\ attached
  /\ up' = up \o ReleaseKeys
  /\ Teardown(Closing)
  /\ ended' = "close"
  /\ UNCHANGED server

-----------------------------------------------------------------------------
(* receive(): one unit of the chunk.                                       *)

\* A chunk of n units arrives.
Deliver(n) ==
  /\ Idle /\ attached /\ sock = "open" /\ n \in 1..Len(down)
  /\ chunk' = n
  /\ UNCHANGED <<sock, attached, session, frame, screenshot, up, down, server>>

Unit(s, kind) == chunk > 0 /\ state = s /\ Head(down).kind = kind
Consume == chunk' = chunk - 1 /\ down' = Tail(down)

\* A unit of the handshake is answered, and the next one is due.
Reply(s, kind, answer, next) ==
  /\ Unit(s, kind)
  /\ Consume
  /\ up' = Append(up, Plain(answer))
  /\ state' = next
  /\ UNCHANGED <<sock, attached, connect, closes, ended, rects, held,
                 frame, screenshot, server>>

\* chooseSecurity: VNC authentication when there is a password, else none.
Choice(offers, password) ==
  CASE "vnc" \in offers /\ password -> "vnc"
    [] "none" \in offers /\ ~("vnc" \in offers /\ password) -> "none"
    [] OTHER -> "unusable"

ReadVersion == Reply("version", "version", "version", "security-types")

ReadSecurityTypes ==
  /\ Unit("security-types", "types")
  /\ \E password \in BOOLEAN :  \* vncproxy issued one
     LET choice == Choice(Head(down).offers, password) IN
     IF choice = "unusable"
     THEN Fail
     ELSE Reply("security-types", "types", choice,
                IF choice = "vnc" THEN "challenge" ELSE "security-result")

ReadChallenge == Reply("challenge", "challenge", "response", "security-result")

ReadSecurityResult == Reply("security-result", "granted", "clientinit", "server-init")

\* The framebuffer is there, all of it is requested, attach() resolves.
ReadServerInit ==
  /\ Unit("server-init", "init")
  /\ Consume
  /\ up' = Append(up, Plain("full"))
  /\ state' = "message"
  /\ connect' = "resolved"
  /\ UNCHANGED <<sock, attached, closes, ended, rects, held, frame,
                 screenshot, server>>

\* requestIncremental()
NextRequest == Append(up, Plain("inc"))

\* An update begins; one without rectangles is over, and the next is asked for.
ReadUpdate ==
  /\ Unit("message", "update")
  /\ Consume
  /\ rects' = Head(down).rects
  /\ IF Head(down).rects = 0
     THEN up' = NextRequest /\ UNCHANGED state
     ELSE state' = "rectangles" /\ UNCHANGED up
  /\ UNCHANGED <<sock, attached, connect, closes, ended, held, frame,
                 screenshot, server>>

\* apply()
Paint(rect) == [frame EXCEPT ![rect.part] = rect.content]

\* Wrong: the next update is not asked for.
ReadRectangle_NoRequest ==
  /\ Unit("rectangles", "rect")
  /\ Consume
  /\ frame' = Paint(Head(down))
  /\ rects' = rects - 1
  /\ IF rects = 1
     THEN state' = "message" /\ shots' = Woken("woken")
     ELSE UNCHANGED <<state, shots>>
  /\ UNCHANGED <<sock, attached, connect, closes, ended, held, up,
                 asked, quiet, server>>

\* Wrong: every rectangle emits 'update'.
ReadRectangle_EmitsEach ==
  /\ Unit("rectangles", "rect")
  /\ Consume
  /\ frame' = Paint(Head(down))
  /\ rects' = rects - 1
  /\ shots' = Woken("woken")
  /\ IF rects = 1
     THEN state' = "message" /\ up' = NextRequest
     ELSE UNCHANGED <<state, up>>
  /\ UNCHANGED <<sock, attached, connect, closes, ended, held,
                 asked, quiet, server>>

\* A rectangle is painted; the last one asks for the next update and emits
\* 'update', which is newer than what any waiter saw when it began to wait.
ReadRectangle ==
  /\ Unit("rectangles", "rect")
  /\ Consume
  /\ frame' = Paint(Head(down))
  /\ rects' = rects - 1
  /\ IF rects = 1
     THEN /\ state' = "message"
          /\ up' = NextRequest
          /\ shots' = Woken("woken")
     ELSE UNCHANGED <<state, up, shots>>
  /\ UNCHANGED <<sock, attached, connect, closes, ended, held,
                 asked, quiet, server>>

\* A unit that does not parse, that is too long, or a refused password.
ReadBad ==
  /\ chunk > 0 /\ Head(down).kind \in {"garbage", "denied"}
  /\ Fail

-----------------------------------------------------------------------------
(* The keyboard.                                                           *)

CanSend == Idle /\ connect = "resolved" /\ attached /\ Len(up) < MaxUp

KeyDown(k) ==
  /\ CanSend
  /\ up' = Append(up, Key(TRUE, k))
  /\ held' = held \cup {k}
  /\ UNCHANGED <<sock, attached, state, connect, closes, ended, rects,
                 frame, chunk, screenshot, down, server>>

KeyUp(k) ==
  /\ CanSend
  /\ up' = Append(up, Key(FALSE, k))
  /\ held' = held \ {k}
  /\ UNCHANGED <<sock, attached, state, connect, closes, ended, rects,
                 frame, chunk, screenshot, down, server>>

\* press(), and a character of type()
Press(k) ==
  /\ CanSend
  /\ up' = up \o <<Key(TRUE, k), Key(FALSE, k)>>
  /\ UNCHANGED <<sock, attached, session, frame, chunk, screenshot, down, server>>

-----------------------------------------------------------------------------
(* captureScreenshot with fresh.                                           *)

\* requestUpdate() throws without a socket, else waitForUpdate() begins.
AskFresh(s) ==
  /\ Idle /\ connect = "resolved" /\ shots[s] = "new"
  /\ IF attached
     THEN /\ up' = Append(up, Plain("full"))
          /\ shots' = [shots EXCEPT ![s] = "waiting"]
          /\ asked' = [asked EXCEPT ![s] = screen]
          /\ quiet' = [quiet EXCEPT ![s] = (down = <<>> /\ state = "message")]
     ELSE /\ shots' = [shots EXCEPT ![s] = "failed"]
          /\ UNCHANGED <<up, asked, quiet>>
  /\ UNCHANGED <<sock, attached, session, frame, chunk, down, server>>

ShotTimeout(s) ==
  /\ Idle /\ shots[s] = "waiting"
  /\ shots' = [shots EXCEPT ![s] = "failed"]
  /\ asked' = [asked EXCEPT ![s] = [p \in Parts |-> 0]]
  /\ UNCHANGED <<sock, attached, session, frame, chunk, quiet, up, down, server>>

\* The wait resolved: the frame of this moment is encoded.
Encode(s) ==
  /\ chunk = 0 /\ shots[s] = "woken"
  /\ shots' = [shots EXCEPT ![s] =
       IF \A p \in Parts : frame[p] >= asked[s][p] THEN "fresh" ELSE "stale"]
  /\ asked' = [asked EXCEPT ![s] = [p \in Parts |-> 0]]
  /\ UNCHANGED <<sock, attached, session, frame, chunk, quiet, up, down, server>>

-----------------------------------------------------------------------------
(* The network, the RFB server and the guest: external.                    *)

\* The server speaks first.
SocketOpens ==
  /\ Idle /\ sock = "connecting"
  /\ sock' = "open"
  /\ down' = <<Plain("version")>>
  /\ UNCHANGED <<attached, session, frame, chunk, screenshot, up, server>>

Offers == {{"vnc"}, {"none"}, {"none", "vnc"}, {}}

Answers(m) ==
  CASE m.kind = "version" -> {[kind |-> "types", offers |-> o] : o \in Offers}
    [] m.kind = "vnc" -> {Plain("challenge")}
    [] m.kind = "none" -> {Plain("granted")}
    [] m.kind = "response" -> {Plain("granted"), Plain("denied")}
    [] m.kind = "clientinit" -> {Plain("init")}
    [] OTHER -> {}

\* The server reads a frame.  A full request outranks an incremental one.
ServerReads ==
  /\ chunk = 0 /\ up # <<>>
  /\ up' = Tail(up)
  /\ LET m == Head(up) IN
     /\ IF attached /\ Answers(m) # {}
        THEN \E a \in Answers(m) : down' = Append(down, a)
        ELSE UNCHANGED down
     /\ wants' = IF m.kind = "full" \/ (m.kind = "inc" /\ wants = "none")
                 THEN m.kind ELSE wants
     /\ pressed' = IF m.kind # "key" THEN pressed
                   ELSE IF m.down THEN pressed \cup {m.key} ELSE pressed \ {m.key}
  /\ UNCHANGED <<sock, attached, session, frame, chunk, screenshot, screen, sent>>

\* What a request is answered with: everything, or what changed.
Due == IF wants = "full" THEN Parts ELSE {p \in Parts : screen[p] # sent[p]}

ServerPaints ==
  /\ chunk = 0 /\ attached /\ wants # "none" /\ Due # {}
  /\ down' = down \o <<Update(Cardinality(Due))>>
                  \o [i \in 1..Cardinality(Due) |-> Rect(SetToSeq(Due)[i])]
  /\ sent' = screen
  /\ wants' = "none"
  /\ UNCHANGED <<sock, attached, session, frame, chunk, screenshot, up, screen, pressed>>

\* An incremental request may be answered by an update of nothing.
ServerPaintsNothing ==
  /\ chunk = 0 /\ attached /\ wants = "inc" /\ down = <<>>
  /\ down' = <<Update(0)>>
  /\ wants' = "none"
  /\ UNCHANGED <<sock, attached, session, frame, chunk, screenshot, up, screen, sent, pressed>>

ServerBreaks ==
  /\ chunk = 0 /\ attached /\ sock = "open"
  /\ \A i \in 1..Len(down) : down[i].kind # "garbage"
  /\ down' = Append(down, Plain("garbage"))
  /\ UNCHANGED <<sock, attached, session, frame, chunk, screenshot, up, server>>

GuestChanges(p) ==
  /\ chunk = 0 /\ attached /\ connect = "resolved" /\ screen[p] <= MaxChanges
  /\ screen' = [screen EXCEPT ![p] = @ + 1]
  /\ UNCHANGED <<sock, attached, session, frame, chunk, screenshot, up, down,
                 sent, wants, pressed>>

-----------------------------------------------------------------------------
Read ==
  \/ ReadVersion \/ ReadSecurityTypes \/ ReadChallenge \/ ReadSecurityResult
  \/ ReadServerInit \/ ReadUpdate \/ ReadRectangle \/ ReadBad

Next ==
  \/ HandshakeTimeout \/ SocketError \/ SocketCloses \/ Close
  \/ \E n \in 1..Len(down) : Deliver(n)
  \/ Read
  \/ \E k \in Keys : KeyDown(k) \/ KeyUp(k) \/ Press(k)
  \/ \E s \in Shots : AskFresh(s) \/ ShotTimeout(s) \/ Encode(s)
  \/ SocketOpens \/ ServerReads \/ ServerPaints \/ ServerPaintsNothing
  \/ ServerBreaks \/ \E p \in Parts : GuestChanges(p)

\* The event loop runs on, what was sent arrives, and the server does not
\* answer with an update of nothing for ever.
Fairness ==
  /\ WF_vars(Read)
  /\ \A s \in Shots : WF_vars(Encode(s))
  /\ WF_vars(\E n \in 1..Len(down) : Deliver(n))
  /\ WF_vars(ServerReads) /\ SF_vars(ServerPaints)

Spec == Init /\ [][Next]_vars
FairSpec == Spec /\ Fairness

-----------------------------------------------------------------------------
(* Properties.                                                             *)

\* Type invariant: rectangles are awaited exactly in the state for them, and
\* 'close' is emitted when the session ends, once, although a close() or an
\* error is followed by the event of the socket it closed.
TypeOK ==
  /\ sock \in {"connecting", "open", "closing", "closed"}
  /\ attached \in BOOLEAN
  /\ state \in {"version", "security-types", "challenge", "security-result",
                "server-init", "message", "rectangles"}
  /\ connect \in {"pending", "resolved", "rejected"}
  /\ closes = (IF attached THEN 0 ELSE 1) /\ ended \in {"no", "close", "failed"}
  /\ rects \in Nat /\ (state = "rectangles" <=> rects > 0)
  /\ frame \in [Parts -> Nat] /\ chunk \in 0..Len(down)
  /\ held \subseteq Keys /\ pressed \subseteq Keys
  /\ shots \in [Shots -> {"new", "waiting", "woken", "fresh", "stale", "failed"}]
  /\ asked \in [Shots -> [Parts -> Nat]] /\ quiet \in [Shots -> BOOLEAN]
  /\ screen \in [Parts -> Nat] /\ sent \in [Parts -> Nat]
  /\ wants \in {"none", "inc", "full"}

\* Nobody is left behind by a session that ended: neither the caller of
\* attach() nor a screenshot waits for a socket that is gone.
NobodyLeftWaiting ==
  ~attached => connect # "pending" /\ \A s \in Shots : shots[s] # "waiting"

\* Key k is down once the frames q have arrived at a guest with the keys d down:
\* the last frame about it says so.
About(q, k) == {i \in 1..Len(q) : q[i].kind = "key" /\ q[i].key = k}
IsDown(q, d, k) ==
  \/ About(q, k) = {} /\ k \in d
  \/ \E i \in About(q, k) : q[i].down /\ \A j \in About(q, k) : j <= i

\* The keys that are down at the guest once all that was sent has arrived.
DownAfter == {k \in Keys : IsDown(up, pressed, k)}

\* No key sticks: what is down at the guest is held by the session, so after a
\* close() the guest gets every key back, whatever was pressed meanwhile.
\* (A session torn down by an error sends nothing more.)
NoStuckKeys ==
  (sock \in {"open", "closing"} /\ ended # "failed") => DownAfter \subseteq held

\* A fresh screenshot shows nothing older than the screen at the time of the
\* call, part by part, if no update was under way to the client then.
FreshWhenQuiet == \A s \in Shots : shots[s] = "stale" => ~quiet[s]

\* The same without the condition, as the documentation has it: "`fresh` asks
\* the guest for a full repaint and encodes the frame that answers it, so a
\* stale screen is never mistaken for the current one" (docs/consoles.md).
FreshIsFresh == \A s \in Shots : shots[s] # "stale"

\* While the session lasts, the framebuffer becomes what the guest shows.
ScreenConverges == connect = "resolved" ~> (~attached \/ frame = screen)
=============================================================================
