------------------------------ MODULE VncProofs ------------------------------
(* Theorems about Vnc, for any keys, parts of the screen and screenshots:  *)
(* nobody waits for a session that ended, no key sticks, and a screenshot  *)
(* asked for while no update was under way is not stale.                   *)
EXTENDS Vnc, FiniteSetTheorems, TLAPS

(* What travels to the server and from it.                                 *)
Frames == [kind : {"version", "vnc", "none", "response", "clientinit", "full", "inc"}]
          \cup [kind : {"key"}, down : BOOLEAN, key : Keys]
Units == [kind : {"version", "challenge", "granted", "denied", "init", "garbage"}]
         \cup [kind : {"types"}, offers : Offers]
         \cup [kind : {"update"}, rects : Nat]
         \cup [kind : {"rect"}, part : Parts, content : Nat]

Typed == TypeOK /\ up \in Seq(Frames) /\ down \in Seq(Units) /\ IsFiniteSet(held)

(* A session that is attached has not ended, and a socket that never was   *)
(* open has carried nothing.                                               *)
Life ==
  /\ attached => ended = "no" /\ sock \in {"connecting", "open"}
  /\ ~attached => sock \in {"closing", "closed"} /\ down = <<>>
  /\ sock = "connecting" =>
       /\ up = <<>> /\ down = <<>> /\ pressed = {}
       /\ wants = "none" /\ connect = "pending"

(* The i-th unit under way is a rectangle, the last one of its update.     *)
IsRect(i) == down[i].kind = "rect"
Ends(i) == IsRect(i) /\ (i < Len(down) => ~IsRect(i + 1))

(* Every update is followed by its rectangles, and they by something else. *)
Following ==
  /\ \A i \in 1..Len(down) : down[i].kind = "update" =>
       /\ i + down[i].rects <= Len(down)
       /\ \A j \in (i + 1)..(i + down[i].rects) : IsRect(j)
       /\ i + down[i].rects < Len(down) => ~IsRect(i + down[i].rects + 1)
  /\ \A i \in 2..Len(down) : IsRect(i) => down[i - 1].kind \in {"update", "rect"}

(* The client awaits the rectangles of the update that it has begun.       *)
Grouped ==
  /\ Following
  /\ state = "rectangles" => /\ rects <= Len(down) /\ \A i \in 1..rects : IsRect(i)
                             /\ Ends(rects)
  /\ state # "rectangles" => down = <<>> \/ ~IsRect(1)

(* Part p will show a or something newer once the first i units are read.  *)
Shows(p, i, a) ==
  \/ frame[p] >= a
  \/ \E j \in 1..i : IsRect(j) /\ down[j].part = p /\ down[j].content >= a

(* Contents only get newer, and everything the server sent is under way.   *)
Ordered ==
  /\ \A p \in Parts : sent[p] <= screen[p]
  /\ \A i \in 1..Len(down) : IsRect(i) =>
       /\ frame[down[i].part] <= down[i].content
       /\ \A j \in 1..i : IsRect(j) /\ down[j].part = down[i].part =>
            down[j].content <= down[i].content
       /\ down[i].content <= screen[down[i].part]
  /\ \A p \in Parts : frame[p] <= screen[p]
  /\ attached => \A p \in Parts : Shows(p, Len(down), sent[p])

(* Every update still to come is new enough for a screenshot that was asked*)
(* for while none was under way.                                           *)
NewEnough(s) ==
  /\ shots[s] \in {"waiting", "woken"} => \A p \in Parts : asked[s][p] <= screen[p]
  /\ quiet[s] =>
       /\ shots[s] = "waiting" =>
            \A i \in 1..Len(down) : Ends(i) => \A p \in Parts : Shows(p, i, asked[s][p])
       /\ shots[s] = "woken" => \A p \in Parts : frame[p] >= asked[s][p]
       /\ shots[s] # "stale"

Picture == Grouped /\ Ordered /\ \A s \in Shots : NewEnough(s)

IInv == Typed /\ Life /\ NobodyLeftWaiting /\ NoStuckKeys /\ Picture

-----------------------------------------------------------------------------
(* The session and what travels.                                           *)

LEMMA PlainFrames ==
  \A x \in {"version", "vnc", "none", "response", "clientinit", "full", "inc"} :
    Plain(x) \in Frames /\ Plain(x).kind = x
BY DEF Plain, Frames

LEMMA PlainUnits ==
  \A x \in {"version", "challenge", "granted", "denied", "init", "garbage"} :
    Plain(x) \in Units /\ Plain(x).kind = x
BY DEF Plain, Units

LEMMA KeyFrames ==
  \A b \in BOOLEAN, k \in Keys :
    /\ Key(b, k) \in Frames /\ Key(b, k).kind = "key"
    /\ Key(b, k).key = k /\ Key(b, k).down = b
BY DEF Key, Frames

(* Sequences of frames, and of units, that grow at the end or lose the head. *)
LEMMA Queues ==
  ASSUME NEW S, NEW q \in Seq(S)
  PROVE  /\ Len(q) \in Nat /\ \A i \in 1..Len(q) : q[i] \in S
         /\ q = <<>> <=> Len(q) = 0
         /\ \A x \in S : /\ Append(q, x) \in Seq(S) /\ Len(Append(q, x)) = Len(q) + 1
                         /\ Append(q, x)[Len(q) + 1] = x
                         /\ \A i \in 1..Len(q) : Append(q, x)[i] = q[i]
         /\ q # <<>> => /\ Head(q) = q[1] /\ Tail(q) \in Seq(S) /\ Len(Tail(q)) = Len(q) - 1
                       /\ \A i \in 1..(Len(q) - 1) : Tail(q)[i] = q[i + 1]
OBVIOUS

(* The session part of the invariant is kept by a teardown.                *)
LEMMA TeardownSession ==
  ASSUME IInv, NEW next, Teardown(next), next \in {"closing", "closed"},
         ended' \in {"no", "close", "failed"},
         up' \in Seq(Frames), pressed' \subseteq Keys, UNCHANGED <<screen, sent>>,
         wants' \in {"none", "inc", "full"}
  PROVE  Typed' /\ Life' /\ NobodyLeftWaiting'
<1> USE DEF Teardown, Emitted, Rejected, Woken
<1>1. Typed'
  <2>1. TypeOK'
    <3>1. closes' = 1 /\ connect' \in {"pending", "resolved", "rejected"}
      BY DEF IInv, Typed, TypeOK
    <3>2. shots' \in [Shots -> {"new", "waiting", "woken", "fresh", "stale", "failed"}]
      BY DEF IInv, Typed, TypeOK
    <3>3. chunk' \in 0..Len(down') /\ rects' = 0 /\ state' = "version"
      OBVIOUS
    <3>4. attached' \in BOOLEAN /\ closes' = (IF attached' THEN 0 ELSE 1)
      BY <3>1
    <3>5. /\ frame' \in [Parts -> Nat] /\ screen' \in [Parts -> Nat] /\ sent' \in [Parts -> Nat]
          /\ asked' \in [Shots -> [Parts -> Nat]] /\ quiet' \in [Shots -> BOOLEAN]
      BY DEF IInv, Typed, TypeOK
    <3>6. QED
      BY <3>1, <3>2, <3>3, <3>4, <3>5 DEF TypeOK
  <2>2. down' \in Seq(Units)
    OBVIOUS
  <2>3. IsFiniteSet(held')
    BY FS_EmptySet
  <2>4. QED
    BY <2>1, <2>2, <2>3 DEF Typed
<1>2. Life'
  BY DEF Life
<1>3. NobodyLeftWaiting'
  BY DEF IInv, Typed, TypeOK, NobodyLeftWaiting
<1>4. QED
  BY <1>1, <1>2, <1>3

LEMMA FailSession ==
  ASSUME IInv, Fail, attached
  PROVE  Typed' /\ Life' /\ NobodyLeftWaiting'
<1>1. Closing \in {"closing", "closed"}
  BY DEF IInv, Life, Closing
<1>2. QED
  BY <1>1, TeardownSession DEF Fail, IInv, Typed, TypeOK, server

LEMMA SocketClosesSession ==
  ASSUME IInv, SocketCloses
  PROVE  Typed' /\ Life' /\ NobodyLeftWaiting'
<1>1. ended' \in {"no", "close", "failed"}
  BY DEF SocketCloses, IInv, Typed, TypeOK, Life, NobodyLeftWaiting
<1>2. QED
  BY <1>1, TeardownSession DEF SocketCloses

LEMMA CloseSession ==
  ASSUME IInv, Close, up' \in Seq(Frames)
  PROVE  Typed' /\ Life' /\ NobodyLeftWaiting'
<1>1. Closing \in {"closing", "closed"}
  BY DEF IInv, Life, Closing, Close
<1>2. QED
  BY <1>1, TeardownSession DEF Close, IInv, Typed, TypeOK, server

(* receive() has a unit to step through: the socket is open.               *)
LEMMA AtHead ==
  ASSUME IInv, chunk > 0
  PROVE  /\ down # <<>> /\ Head(down) = down[1] /\ down[1] \in Units
         /\ attached /\ sock = "open" /\ 1 \in 1..Len(down)
         /\ Tail(down) \in Seq(Units) /\ Len(Tail(down)) = Len(down) - 1
         /\ \A i \in 1..(Len(down) - 1) : Tail(down)[i] = down[i + 1]
         /\ chunk - 1 \in 0..Len(Tail(down))
<1>1. down \in Seq(Units) /\ chunk \in 1..Len(down)
  BY DEF IInv, Typed, TypeOK
<1>2. Len(down) # 0
  BY <1>1
<1>3. /\ down # <<>> /\ Head(down) = down[1] /\ down[1] \in Units /\ 1 \in 1..Len(down)
      /\ Tail(down) \in Seq(Units) /\ Len(Tail(down)) = Len(down) - 1
      /\ \A i \in 1..(Len(down) - 1) : Tail(down)[i] = down[i + 1]
  BY <1>1, <1>2, Queues
<1>4. attached /\ sock = "open"
  BY <1>3 DEF IInv, Life, Typed, TypeOK
<1>5. chunk - 1 \in 0..Len(Tail(down))
  BY <1>1, <1>3
<1>6. QED
  BY <1>3, <1>4, <1>5

(* A unit of the handshake is read.                                        *)
LEMMA HandshakeSession ==
  ASSUME IInv, chunk > 0, Consume,
         NEW x \in {"version", "vnc", "none", "response", "clientinit", "full", "inc"},
         up' = Append(up, Plain(x)), state # "rectangles",
         state' \in {"security-types", "challenge", "security-result", "server-init", "message"},
         connect' \in {connect, "resolved"},
         UNCHANGED <<sock, attached, closes, ended, rects, held, frame, screenshot, server>>
  PROVE  Typed' /\ Life' /\ NobodyLeftWaiting'
<1> USE AtHead DEF Consume, screenshot, server
<1>1. up' \in Seq(Frames) /\ down' \in Seq(Units) /\ IsFiniteSet(held')
  BY PlainFrames, Queues DEF IInv, Typed
<1>2. TypeOK'
  BY DEF IInv, Typed, TypeOK
<1>3. QED
  BY <1>1, <1>2 DEF IInv, Typed, Life, NobodyLeftWaiting

LEMMA ReplySession ==
  ASSUME IInv, NEW s, NEW kind,
         NEW answer \in {"version", "vnc", "none", "response", "clientinit"},
         NEW next \in {"security-types", "challenge", "security-result", "server-init"},
         s # "rectangles", Reply(s, kind, answer, next)
  PROVE  Typed' /\ Life' /\ NobodyLeftWaiting'
BY HandshakeSession DEF Reply, Unit

LEMMA ReadServerInitSession ==
  ASSUME IInv, ReadServerInit
  PROVE  Typed' /\ Life' /\ NobodyLeftWaiting'
BY HandshakeSession DEF ReadServerInit, Unit

LEMMA ReadUpdateSession ==
  ASSUME IInv, ReadUpdate
  PROVE  Typed' /\ Life' /\ NobodyLeftWaiting'
<1> USE DEF ReadUpdate, Unit, Consume, NextRequest, screenshot, server
<1>1. chunk > 0 /\ down[1].rects \in Nat /\ rects' = down[1].rects /\ rects = 0
  <2>1. down[1] \in Units /\ down[1].kind = "update" /\ Head(down) = down[1]
    BY AtHead
  <2>2. down[1].rects \in Nat
    BY <2>1 DEF Units
  <2>3. rects = 0
    BY DEF IInv, Typed, TypeOK
  <2>4. QED
    BY <2>1, <2>2, <2>3
<1>2. up' \in Seq(Frames) /\ down' \in Seq(Units) /\ IsFiniteSet(held')
  <2>1. up \in Seq(Frames) /\ down \in Seq(Units) /\ IsFiniteSet(held)
    BY DEF IInv, Typed
  <2>2. down' = Tail(down) /\ down # <<>> /\ held' = held
    BY AtHead
  <2>3. up' = up \/ up' = Append(up, Plain("inc"))
    OBVIOUS
  <2>4. Plain("inc") \in Frames
    BY PlainFrames
  <2>5. up' \in Seq(Frames)
    BY ONLY <2>1, <2>3, <2>4
  <2>6. down' \in Seq(Units)
    BY ONLY <2>1, <2>2
  <2>7. QED
    BY <2>1, <2>2, <2>5, <2>6
<1>3. state' = IF rects' = 0 THEN "message" ELSE "rectangles"
  BY <1>1, AtHead
<1>4. TypeOK'
  BY <1>1, <1>3, AtHead DEF IInv, Typed, TypeOK
<1>5. QED
  BY <1>1, <1>2, <1>4, AtHead DEF IInv, Typed, Life, NobodyLeftWaiting

LEMMA ReadRectangleSession ==
  ASSUME IInv, ReadRectangle
  PROVE  Typed' /\ Life' /\ NobodyLeftWaiting'
<1> USE DEF ReadRectangle, Unit, Consume, NextRequest, server
<1>1. /\ chunk > 0 /\ down[1].part \in Parts /\ down[1].content \in Nat
      /\ Head(down) = down[1] /\ rects \in Nat /\ rects > 0
  <2>1. chunk > 0 /\ down[1] \in Units /\ down[1].kind = "rect" /\ Head(down) = down[1]
    BY AtHead
  <2>2. down[1].part \in Parts /\ down[1].content \in Nat
    BY <2>1 DEF Units
  <2>3. QED
    BY <2>1, <2>2 DEF IInv, Typed, TypeOK
<1>2. up' \in Seq(Frames) /\ down' \in Seq(Units) /\ IsFiniteSet(held')
  <2>1. up \in Seq(Frames) /\ down \in Seq(Units) /\ IsFiniteSet(held)
    BY DEF IInv, Typed
  <2>2. down' = Tail(down) /\ down # <<>> /\ held' = held
    BY AtHead
  <2>3. up' = up \/ up' = Append(up, Plain("inc"))
    OBVIOUS
  <2>4. Plain("inc") \in Frames
    BY PlainFrames
  <2>5. up' \in Seq(Frames)
    BY ONLY <2>1, <2>3, <2>4
  <2>6. down' \in Seq(Units)
    BY ONLY <2>1, <2>2
  <2>7. QED
    BY <2>1, <2>2, <2>5, <2>6
<1>3. /\ frame' \in [Parts -> Nat] /\ rects' \in Nat
      /\ state' = IF rects' = 0 THEN "message" ELSE "rectangles"
  BY <1>1 DEF IInv, Typed, TypeOK, Paint
<1>4. /\ shots' \in [Shots -> {"new", "waiting", "woken", "fresh", "stale", "failed"}]
  BY DEF IInv, Typed, TypeOK, Woken
<1>5. TypeOK'
  BY <1>1, <1>3, <1>4, AtHead DEF IInv, Typed, TypeOK
<1>6. QED
  BY <1>1, <1>2, <1>5, AtHead DEF IInv, Typed, Life, NobodyLeftWaiting

LEMMA TwoMore ==
  ASSUME NEW S, NEW q \in Seq(S), NEW a \in S, NEW b \in S
  PROVE  q \o <<a, b>> = Append(Append(q, a), b)
OBVIOUS

LEMMA KeyboardSession ==
  ASSUME IInv, NEW k \in Keys, KeyDown(k) \/ KeyUp(k) \/ Press(k)
  PROVE  Typed' /\ Life' /\ NobodyLeftWaiting'
<1> USE DEF CanSend, server, screenshot, session
<1>1. /\ up \in Seq(Frames) /\ held \subseteq Keys /\ IsFiniteSet(held)
      /\ Key(TRUE, k) \in Frames /\ Key(FALSE, k) \in Frames
  BY KeyFrames DEF IInv, Typed, TypeOK
<1>2. held' \subseteq Keys /\ IsFiniteSet(held') /\ up' \in Seq(Frames)
  <2>1. CASE KeyDown(k)
    <3>1. IsFiniteSet(held \cup {k})
      BY <1>1, FS_AddElement
    <3>2. up' = Append(up, Key(TRUE, k)) /\ held' = held \cup {k}
      BY <2>1 DEF KeyDown
    <3>3. QED
      BY <1>1, <3>1, <3>2, Queues
  <2>2. CASE KeyUp(k)
    <3>1. IsFiniteSet(held \ {k})
      BY <1>1, FS_RemoveElement
    <3>2. up' = Append(up, Key(FALSE, k)) /\ held' = held \ {k}
      BY <2>2 DEF KeyUp
    <3>3. QED
      BY <1>1, <3>1, <3>2, Queues
  <2>3. CASE Press(k)
    <3> DEFINE press == Key(TRUE, k)
               release == Key(FALSE, k)
    <3>1. up' = up \o <<press, release>> /\ held' = held
      BY <2>3 DEF Press
    <3>2. press \in Frames /\ release \in Frames
      BY <1>1
    <3> HIDE DEF press, release
    <3>3. up' = Append(Append(up, press), release)
      BY ONLY <1>1, <3>1, <3>2, TwoMore
    <3>4. Append(up, press) \in Seq(Frames)
      BY ONLY <1>1, <3>2
    <3>5. up' \in Seq(Frames)
      BY ONLY <3>2, <3>3, <3>4
    <3>6. QED
      BY <1>1, <3>1, <3>5
  <2>4. QED
    BY <2>1, <2>2, <2>3
<1>3. TypeOK'
  <2>1. UNCHANGED <<sock, attached, state, connect, closes, ended, rects, frame, chunk, shots,
                    asked, quiet, down, screen, sent, wants, pressed>>
    BY DEF KeyDown, KeyUp, Press
  <2>2. QED
    BY <1>2, <2>1 DEF IInv, Typed, TypeOK
<1>4. QED
  BY <1>2, <1>3 DEF IInv, Typed, Life, NobodyLeftWaiting, KeyDown, KeyUp, Press

LEMMA AskFreshSession ==
  ASSUME IInv, NEW s \in Shots, AskFresh(s)
  PROVE  Typed' /\ Life' /\ NobodyLeftWaiting'
<1> USE DEF AskFresh, server, session
<1>1. CASE attached
  <2>1. up' \in Seq(Frames)
    BY <1>1, PlainFrames, Queues DEF IInv, Typed
  <2>2. quiet' \in [Shots -> BOOLEAN]
    <3> DEFINE now == down = <<>> /\ state = "message"
    <3>1. quiet' = [quiet EXCEPT ![s] = now] /\ now \in BOOLEAN
      BY <1>1
    <3> HIDE DEF now
    <3>2. QED
      BY <3>1 DEF IInv, Typed, TypeOK
  <2>3. /\ shots' \in [Shots -> {"new", "waiting", "woken", "fresh", "stale", "failed"}]
        /\ asked' \in [Shots -> [Parts -> Nat]]
    BY <1>1 DEF IInv, Typed, TypeOK
  <2>4. TypeOK'
    BY <2>2, <2>3 DEF IInv, Typed, TypeOK
  <2>5. QED
    BY <1>1, <2>1, <2>4 DEF IInv, Typed, Life, NobodyLeftWaiting
<1>2. CASE ~attached
  <2>1. shots' = [shots EXCEPT ![s] = "failed"] /\ UNCHANGED <<up, asked, quiet>>
    BY <1>2
  <2>2. TypeOK' /\ NobodyLeftWaiting'
    BY <2>1 DEF IInv, Typed, TypeOK, NobodyLeftWaiting
  <2>3. QED
    BY <2>1, <2>2 DEF IInv, Typed, Life
<1>3. QED
  BY <1>1, <1>2

LEMMA ShotEndsSession ==
  ASSUME IInv, NEW s \in Shots, ShotTimeout(s) \/ Encode(s)
  PROVE  Typed' /\ Life' /\ NobodyLeftWaiting'
<1> USE DEF ShotTimeout, Encode, server, session
<1>1. /\ asked' = [asked EXCEPT ![s] = [p \in Parts |-> 0]]
      /\ UNCHANGED <<sock, attached, session, frame, chunk, quiet, up, down, server>>
  OBVIOUS
<1>2. \E x \in {"fresh", "stale", "failed"} : shots' = [shots EXCEPT ![s] = x]
  OBVIOUS
<1>3. TypeOK' /\ NobodyLeftWaiting'
  BY <1>1, <1>2 DEF IInv, Typed, TypeOK, NobodyLeftWaiting
<1>4. QED
  BY <1>1, <1>3 DEF IInv, Typed, Life

LEMMA SocketOpensSession ==
  ASSUME IInv, SocketOpens
  PROVE  Typed' /\ Life' /\ NobodyLeftWaiting'
<1> USE DEF SocketOpens, Idle, server, session, screenshot
<1>1. down' \in Seq(Units) /\ Len(down') = 1
  BY PlainUnits
<1>2. TypeOK'
  BY <1>1 DEF IInv, Typed, TypeOK
<1>3. attached
  BY DEF IInv, Typed, TypeOK, Life
<1>4. QED
  BY <1>1, <1>2, <1>3 DEF IInv, Typed, Life, NobodyLeftWaiting

(* What the server answers a frame with.                                   *)
LEMMA AnswersAreUnits ==
  ASSUME NEW m, NEW a \in Answers(m)
  PROVE  a \in Units /\ a.kind \notin {"update", "rect"}
<1>1. a \in Units
  <2>1. CASE m.kind = "version"
    BY <2>1 DEF Answers, Units
  <2>2. CASE m.kind # "version"
    BY <2>2, PlainUnits DEF Answers
  <2>3. QED
    BY <2>1, <2>2
<1>2. a.kind \notin {"update", "rect"}
  BY DEF Answers, Plain
<1>3. QED
  BY <1>1, <1>2

LEMMA ServerReadsSession ==
  ASSUME IInv, ServerReads
  PROVE  Typed' /\ Life' /\ NobodyLeftWaiting'
<1> USE DEF ServerReads, screenshot, session
<1>1. /\ up \in Seq(Frames) /\ up # <<>> /\ Head(up) \in Frames /\ up' \in Seq(Frames)
      /\ down \in Seq(Units)
  BY Queues DEF IInv, Typed
<1>2. down' = down \/ (attached /\ \E a \in Units : down' = Append(down, a))
  BY AnswersAreUnits
<1>3. down' \in Seq(Units) /\ Len(down) <= Len(down')
  <2>1. Len(down) \in Nat
    BY <1>1
  <2>2. CASE down' = down
    BY ONLY <1>1, <2>1, <2>2
  <2>3. ASSUME NEW a \in Units, down' = Append(down, a)
        PROVE  down' \in Seq(Units) /\ Len(down') = Len(down) + 1
    BY ONLY <1>1, <2>3
  <2>4. QED
    BY <1>2, <2>1, <2>2, <2>3
<1>4. wants' \in {"none", "inc", "full"}
  BY DEF IInv, Typed, TypeOK
<1>5. pressed' \subseteq Keys
  <2>1. Head(up).kind = "key" => Head(up).key \in Keys
    BY <1>1 DEF Frames
  <2>2. QED
    BY <2>1 DEF IInv, Typed, TypeOK
<1>6. TypeOK'
  BY <1>1, <1>3, <1>4, <1>5 DEF IInv, Typed, TypeOK
<1>7. Life'
  BY <1>1, <1>2 DEF IInv, Typed, TypeOK, Life
<1>8. QED
  BY <1>1, <1>3, <1>6, <1>7 DEF IInv, Typed, NobodyLeftWaiting

(* The parts an update is about, in some order, each of them once.         *)
LEMMA Listed ==
  ASSUME NEW S, IsFiniteSet(S)
  PROVE  /\ Cardinality(S) \in Nat
         /\ SetToSeq(S) \in Seq(S) /\ Len(SetToSeq(S)) = Cardinality(S)
         /\ \A x \in S : \E i \in 1..Cardinality(S) : SetToSeq(S)[i] = x
<1> DEFINE n == Cardinality(S)
           q == SetToSeq(S)
<1>1. n \in Nat /\ ExistsBijection(1..n, S)
  BY FS_CardinalityType
<1>2. q \in [1..n -> S] /\ IsInjective(q)
  <2>1. PICK f \in Bijection(1..n, S) : TRUE
    BY <1>1 DEF ExistsBijection
  <2>2. f \in [1..n -> S] /\ IsInjective(f)
    BY <2>1 DEF Bijection, Injection
  <2>3. QED
    BY <2>2 DEF SetToSeq
<1> HIDE DEF q
<1>3. q \in Injection(1..n, S)
  BY <1>2 DEF Injection
<1>4. Cardinality(1..n) = n
  BY <1>1, FS_Interval
<1>5. q \in Surjection(1..n, S)
  BY <1>1, <1>3, <1>4, FS_Injection
<1>6. \A x \in S : \E i \in 1..n : q[i] = x
  BY <1>5 DEF Surjection
<1>7. q \in Seq(S) /\ Len(q) = n
  BY <1>1, <1>2
<1>8. QED
  BY <1>1, <1>6, <1>7 DEF q

LEMMA Joined ==
  ASSUME NEW S, NEW q \in Seq(S), NEW r \in Seq(S)
  PROVE  /\ q \o r \in Seq(S) /\ Len(q \o r) = Len(q) + Len(r)
         /\ \A i \in 1..Len(q) : (q \o r)[i] = q[i]
         /\ \A i \in 1..Len(r) : (q \o r)[Len(q) + i] = r[i]
OBVIOUS

(* The units of an update: its head and a rectangle for every part due.    *)
LEMMA Painted ==
  ASSUME IInv, ServerPaints
  PROVE  LET n == Cardinality(Due) IN
         /\ n \in Nat \ {0} /\ Due \subseteq Parts
         /\ down' \in Seq(Units) /\ Len(down') = Len(down) + 1 + n
         /\ \A i \in 1..Len(down) : down'[i] = down[i]
         /\ down'[Len(down) + 1] = Update(n)
         /\ \A i \in 1..n : \E p \in Due : down'[Len(down) + 1 + i] = Rect(p)
         /\ \A p \in Due : \E i \in 1..n : down'[Len(down) + 1 + i] = Rect(p)
<1> DEFINE n == Cardinality(Due)
           order == SetToSeq(Due)
           new == [i \in 1..n |-> Rect(order[i])]
<1>1. Due \subseteq Parts /\ IsFiniteSet(Due) /\ Due # {}
  BY BoundsAssumption, FS_Subset DEF Due, ServerPaints
<1>2. /\ n \in Nat /\ order \in Seq(Due) /\ Len(order) = n
      /\ \A p \in Due : \E i \in 1..n : order[i] = p
  BY <1>1, Listed
<1>3. n # 0
  BY <1>1, FS_EmptySet
<1>4. down' = down \o <<Update(n)>> \o new /\ down \in Seq(Units)
  BY DEF ServerPaints, IInv, Typed
<1>5. \A p \in Parts : Rect(p) \in Units
  BY DEF IInv, Typed, TypeOK, Rect, Units
<1>6. Update(n) \in Units
  BY <1>2 DEF Update, Units
<1> HIDE DEF n, order
<1>7. \A i \in 1..n : order[i] \in Due
  BY <1>2
<1>8. new \in Seq(Units) /\ Len(new) = n /\ \A i \in 1..n : new[i] = Rect(order[i])
  BY <1>1, <1>2, <1>5, <1>7
<1> HIDE DEF new
<1>9. /\ down' \in Seq(Units) /\ Len(down') = Len(down) + 1 + n
      /\ \A i \in 1..Len(down) : down'[i] = down[i]
      /\ down'[Len(down) + 1] = Update(n)
      /\ \A i \in 1..n : down'[Len(down) + 1 + i] = new[i]
  <2> DEFINE u == Update(n)
             q == down \o <<u>>
  <2>1. u \in Units
    BY <1>6
  <2> HIDE DEF u
  <2>2. /\ q \in Seq(Units) /\ Len(q) = Len(down) + 1 /\ q[Len(down) + 1] = u
        /\ \A i \in 1..Len(down) : q[i] = down[i]
    BY ONLY <1>4, <2>1
  <2>3. down' = q \o new
    BY <1>4 DEF u
  <2> HIDE DEF q
  <2>4. q \in Seq(Units) /\ new \in Seq(Units)
    BY <1>8, <2>2
  <2>5. Len(new) = n
    BY <1>8
  <2>6. q \o new \in Seq(Units) /\ Len(q \o new) = Len(q) + n
    BY ONLY <2>4, <2>5, Joined
  <2>7. \A i \in 1..Len(q) : (q \o new)[i] = q[i]
    BY ONLY <2>4, Joined
  <2>8. \A i \in 1..n : (q \o new)[Len(q) + i] = new[i]
    BY ONLY <2>4, <2>5, Joined
  <2>9. Len(down) \in Nat
    BY <1>4
  <2>10. QED
    BY ONLY <1>2, <2>2, <2>3, <2>6, <2>7, <2>8, <2>9 DEF u
<1>10. \A i \in 1..n : \E p \in Due : down'[Len(down) + 1 + i] = Rect(p)
  BY <1>7, <1>8, <1>9
<1>11. \A p \in Due : \E i \in 1..n : down'[Len(down) + 1 + i] = Rect(p)
  <2>1. SUFFICES ASSUME NEW p \in Due PROVE \E i \in 1..n : down'[Len(down) + 1 + i] = Rect(p)
    OBVIOUS
  <2>2. PICK i \in 1..n : order[i] = p
    BY <1>2
  <2>3. new[i] = Rect(p)
    BY <1>8, <2>2
  <2>4. QED
    BY ONLY <1>9, <2>3
<1>12. QED
  BY <1>1, <1>2, <1>3, <1>9, <1>10, <1>11 DEF n

LEMMA ServerWritesSession ==
  ASSUME IInv, ServerPaints \/ ServerPaintsNothing \/ ServerBreaks
  PROVE  Typed' /\ Life' /\ NobodyLeftWaiting'
<1> USE DEF screenshot, session, server
<1>1. down' \in Seq(Units) /\ Len(down) <= Len(down') /\ down \in Seq(Units)
  <2>1. CASE ServerPaints
    BY <2>1, Painted DEF IInv, Typed
  <2>2. CASE ServerPaintsNothing
    BY <2>2 DEF ServerPaintsNothing, Update, Units, IInv, Typed
  <2>3. CASE ServerBreaks
    BY <2>3, PlainUnits, Queues DEF ServerBreaks, IInv, Typed
  <2>4. QED
    BY <2>1, <2>2, <2>3
<1>2. /\ UNCHANGED <<sock, attached, session, frame, chunk, screenshot, up, screen, pressed>>
      /\ chunk = 0 /\ sent' \in {sent, screen} /\ wants' \in {"none", wants} /\ attached
      /\ sock = "connecting" => wants # "none" \/ sock = "open"
  BY DEF ServerPaints, ServerPaintsNothing, ServerBreaks
<1>3. TypeOK'
  BY <1>1, <1>2 DEF IInv, Typed, TypeOK
<1>4. QED
  BY <1>1, <1>2, <1>3 DEF IInv, Typed, Life, NobodyLeftWaiting

LEMMA GuestChangesSession ==
  ASSUME IInv, NEW p \in Parts, GuestChanges(p)
  PROVE  Typed' /\ Life' /\ NobodyLeftWaiting'
<1> USE DEF GuestChanges, screenshot, session
<1>1. screen' \in [Parts -> Nat]
  BY DEF IInv, Typed, TypeOK
<1>2. TypeOK'
  BY <1>1 DEF IInv, Typed, TypeOK
<1>3. QED
  BY <1>2 DEF IInv, Typed, Life, NobodyLeftWaiting

LEMMA DeliverSession ==
  ASSUME IInv, NEW n \in 1..Len(down), Deliver(n)
  PROVE  Typed' /\ Life' /\ NobodyLeftWaiting'
<1> USE DEF Deliver, screenshot, session, server
<1>1. TypeOK'
  BY DEF IInv, Typed, TypeOK
<1>2. QED
  BY <1>1 DEF IInv, Typed, Life, NobodyLeftWaiting

-----------------------------------------------------------------------------
(* The keys.                                                               *)

(* What the frames under way do to a key, when a frame is sent or arrives. *)
LEMMA AppendPlain ==
  ASSUME NEW q \in Seq(Frames), NEW m \in Frames, m.kind # "key", NEW d, NEW k,
         IsDown(Append(q, m), d, k)
  PROVE  IsDown(q, d, k)
<1>1. /\ Len(q) \in Nat /\ Len(Append(q, m)) = Len(q) + 1 /\ Append(q, m)[Len(q) + 1] = m
      /\ \A i \in 1..Len(q) : Append(q, m)[i] = q[i]
  BY Queues
<1>2. About(Append(q, m), k) = About(q, k)
  BY <1>1 DEF About
<1>3. About(q, k) \subseteq 1..Len(q)
  BY DEF About
<1>4. QED
  BY <1>1, <1>2, <1>3 DEF IsDown

LEMMA AppendKey ==
  ASSUME NEW q \in Seq(Frames), NEW b \in BOOLEAN, NEW kk \in Keys, NEW d, NEW k,
         IsDown(Append(q, Key(b, kk)), d, k)
  PROVE  IF k = kk THEN b ELSE IsDown(q, d, k)
<1> DEFINE m == Key(b, kk)
<1>1. m \in Frames /\ m.kind = "key" /\ m.key = kk /\ m.down = b
  BY KeyFrames
<1> HIDE DEF m
<1>2. /\ Len(q) \in Nat /\ Len(Append(q, m)) = Len(q) + 1 /\ Append(q, m)[Len(q) + 1] = m
      /\ \A i \in 1..Len(q) : Append(q, m)[i] = q[i]
  BY <1>1, Queues
<1>3. About(q, k) \subseteq 1..Len(q)
  BY DEF About
<1>4. IsDown(Append(q, m), d, k)
  BY DEF m
<1>5. CASE k = kk
  <2>1. Len(q) + 1 \in About(Append(q, m), k)
    BY <1>1, <1>2, <1>5 DEF About
  <2>2. PICK i \in About(Append(q, m), k) :
          Append(q, m)[i].down /\ \A j \in About(Append(q, m), k) : j <= i
    BY <1>4, <2>1 DEF IsDown
  <2>3. i = Len(q) + 1
    BY <1>2, <2>1, <2>2 DEF About
  <2>4. QED
    BY <1>1, <1>2, <1>5, <2>2, <2>3
<1>6. CASE k # kk
  <2>1. About(Append(q, m), k) = About(q, k)
    BY <1>1, <1>2, <1>6 DEF About
  <2>2. QED
    BY <1>2, <1>3, <1>4, <1>6, <2>1 DEF IsDown
<1>7. QED
  BY <1>5, <1>6

LEMMA ArrivesPlain ==
  ASSUME NEW q \in Seq(Frames), q # <<>>, Head(q).kind # "key", NEW d, NEW k,
         IsDown(Tail(q), d, k)
  PROVE  IsDown(q, d, k)
<1>1. /\ Len(q) \in Nat /\ Len(q) # 0 /\ Head(q) = q[1] /\ Len(Tail(q)) = Len(q) - 1
      /\ \A i \in 1..(Len(q) - 1) : Tail(q)[i] = q[i + 1]
  BY Queues
<1>2. \A i \in 1..Len(q) : i = 1 \/ (i - 1 \in 1..(Len(q) - 1) /\ (i - 1) + 1 = i)
  BY <1>1
<1>3. \A i : i \in About(q, k) => i # 1 /\ i - 1 \in About(Tail(q), k)
  BY <1>1, <1>2 DEF About
<1>4. \A i \in About(Tail(q), k) : i + 1 \in About(q, k) /\ q[i + 1] = Tail(q)[i] /\ i \in Nat
  BY <1>1 DEF About
<1>5. \A i \in About(q, k) : i \in Nat
  BY DEF About
<1>6. CASE About(Tail(q), k) = {}
  BY <1>3, <1>6 DEF IsDown
<1>7. CASE About(Tail(q), k) # {}
  <2>1. PICK i \in About(Tail(q), k) :
          Tail(q)[i].down /\ \A j \in About(Tail(q), k) : j <= i
    BY <1>7 DEF IsDown
  <2>2. ASSUME NEW j \in About(q, k) PROVE j <= i + 1
    <3>1. j - 1 <= i /\ i \in Nat /\ j \in Nat
      BY <1>3, <1>4, <1>5, <2>1
    <3>2. QED
      BY <3>1
  <2>3. QED
    BY <1>4, <2>1, <2>2 DEF IsDown
<1>8. QED
  BY <1>6, <1>7

LEMMA ArrivesKey ==
  ASSUME NEW q \in Seq(Frames), q # <<>>, Head(q).kind = "key", NEW d, NEW k,
         IsDown(Tail(q), IF Head(q).down THEN d \cup {Head(q).key} ELSE d \ {Head(q).key}, k)
  PROVE  IsDown(q, d, k)
<1>1. /\ Len(q) \in Nat /\ Len(q) # 0 /\ Head(q) = q[1] /\ Len(Tail(q)) = Len(q) - 1
      /\ \A i \in 1..(Len(q) - 1) : Tail(q)[i] = q[i + 1]
  BY Queues
<1>2. \A i \in 1..Len(q) : i = 1 \/ (i - 1 \in 1..(Len(q) - 1) /\ (i - 1) + 1 = i)
  BY <1>1
<1>3. \A i : i \in About(q, k) => i = 1 \/ i - 1 \in About(Tail(q), k)
  BY <1>1, <1>2 DEF About
<1>4. \A i \in About(Tail(q), k) : i + 1 \in About(q, k) /\ q[i + 1] = Tail(q)[i] /\ i \in Nat
  BY <1>1 DEF About
<1>5. \A i \in About(q, k) : i \in Nat
  BY DEF About
<1>6. 1 \in About(q, k) <=> Head(q).key = k
  BY <1>1 DEF About
<1>7. CASE About(Tail(q), k) = {}
  <2>1. CASE Head(q).key = k
    <3>1. Head(q).down
      BY <1>7, <2>1 DEF IsDown
    <3>2. QED
      BY <1>1, <1>3, <1>6, <1>7, <2>1, <3>1 DEF IsDown
  <2>2. CASE Head(q).key # k
    BY <1>3, <1>6, <1>7, <2>2 DEF IsDown
  <2>3. QED
    BY <2>1, <2>2
<1>8. CASE About(Tail(q), k) # {}
  <2>1. PICK i \in About(Tail(q), k) :
          Tail(q)[i].down /\ \A j \in About(Tail(q), k) : j <= i
    BY <1>8 DEF IsDown
  <2>2. ASSUME NEW j \in About(q, k) PROVE j <= i + 1
    <3>1. i \in Nat /\ j \in Nat
      BY <1>4, <1>5, <2>1
    <3>2. j = 1 \/ j - 1 <= i
      BY <1>3, <2>1
    <3>3. QED
      BY <3>1, <3>2
  <2>3. QED
    BY <1>4, <2>1, <2>2 DEF IsDown
<1>9. QED
  BY <1>7, <1>8

(* close() sends the guest a key-up for every key that is held.            *)
LEMMA Released ==
  ASSUME IInv, sock = "open"
  PROVE  /\ up \o ReleaseKeys \in Seq(Frames)
         /\ \A k \in Keys : IsDown(up \o ReleaseKeys, pressed, k) =>
              k \notin held /\ IsDown(up, pressed, k)
<1> DEFINE ups == {Key(FALSE, k) : k \in held}
           r == SetToSeq(ups)
           q == up \o r
<1>1. up \in Seq(Frames) /\ held \subseteq Keys /\ IsFiniteSet(held) /\ ReleaseKeys = r
  BY DEF IInv, Typed, TypeOK, ReleaseKeys
<1>2. \A k \in held : /\ Key(FALSE, k) \in Frames /\ Key(FALSE, k).kind = "key"
                      /\ Key(FALSE, k).key = k /\ ~Key(FALSE, k).down
  BY <1>1, KeyFrames
<1>3. IsFiniteSet(ups)
  <2> DEFINE f == [k \in held |-> Key(FALSE, k)]
  <2>1. f \in Bijection(held, ups)
    <3>1. f \in [held -> ups] /\ \A x \in ups : \E k \in held : f[k] = x
      OBVIOUS
    <3>2. ASSUME NEW k \in held, NEW l \in held, f[k] = f[l] PROVE k = l
      <4>1. Key(FALSE, k) = Key(FALSE, l)
        BY <3>2
      <4>2. QED
        BY ONLY <1>2, <4>1
    <3>3. QED
      BY <3>1, <3>2 DEF Bijection, Injection, Surjection, IsInjective
  <2>2. QED
    BY <1>1, <2>1, FS_Bijection DEF ExistsBijection
<1>4. ups \subseteq Frames /\ \A x \in ups : x.kind = "key" /\ ~x.down
  BY <1>2
<1>5. /\ Len(r) \in Nat /\ r \in Seq(Frames)
      /\ \A i \in 1..Len(r) : r[i].kind = "key" /\ ~r[i].down
      /\ \A k \in held : \E i \in 1..Len(r) : r[i] = Key(FALSE, k)
  <2>1. /\ Cardinality(ups) \in Nat /\ r \in Seq(ups) /\ Len(r) = Cardinality(ups)
        /\ \A x \in ups : \E i \in 1..Cardinality(ups) : r[i] = x
    BY <1>3, Listed
  <2>2. \A k \in held : Key(FALSE, k) \in ups
    OBVIOUS
  <2> HIDE DEF ups, r
  <2>3. \A i \in 1..Len(r) : r[i] \in ups
    BY <2>1
  <2>4. r \in Seq(Frames)
    BY <1>4, <2>1, <2>3
  <2>5. QED
    BY <1>4, <2>1, <2>2, <2>3, <2>4
<1> HIDE DEF ups, r
<1>6. q \in Seq(Frames) /\ Len(q) = Len(up) + Len(r)
  BY <1>1, <1>5, Joined
<1>7. \A i \in 1..Len(up) : q[i] = up[i]
  BY <1>1, <1>5, Joined
<1>8. \A i \in 1..Len(r) : q[Len(up) + i] = r[i]
  BY <1>1, <1>5, Joined
<1> HIDE DEF q
<1>9. ASSUME NEW k \in Keys, IsDown(q, pressed, k)
      PROVE  k \notin held /\ IsDown(up, pressed, k)
  <2>1. Len(up) \in Nat /\ Len(r) \in Nat
    BY <1>1, <1>5
  <2>2. \A i \in About(q, k) : i \in About(up, k) \/ (~q[i].down /\ i > Len(up))
    <3> SUFFICES ASSUME NEW i \in About(q, k), ~(i \in About(up, k))
                 PROVE  ~q[i].down /\ i > Len(up)
      OBVIOUS
    <3>1. i \in 1..(Len(up) + Len(r)) /\ q[i].kind = "key" /\ q[i].key = k
      BY <1>6 DEF About
    <3>2. i > Len(up)
      BY <1>7, <2>1, <3>1 DEF About
    <3>3. i - Len(up) \in 1..Len(r) /\ Len(up) + (i - Len(up)) = i
      BY <2>1, <3>1, <3>2
    <3>4. QED
      BY <1>5, <1>8, <3>2, <3>3
  <2>3. \A i \in About(up, k) : i \in About(q, k) /\ q[i] = up[i] /\ i \in 1..Len(up)
    BY <1>6, <1>7, <2>1 DEF About
  <2>4. k \in held => \E i \in About(q, k) : i > Len(up)
    <3> SUFFICES ASSUME k \in held PROVE \E i \in About(q, k) : i > Len(up)
      OBVIOUS
    <3>1. PICK i \in 1..Len(r) : r[i] = Key(FALSE, k)
      BY <1>5
    <3>2. Len(up) + i \in 1..Len(q) /\ Len(up) + i > Len(up)
      BY <1>6, <2>1
    <3>3. q[Len(up) + i].kind = "key" /\ q[Len(up) + i].key = k
      <4>1. q[Len(up) + i] = Key(FALSE, k)
        BY ONLY <1>8, <3>1
      <4>2. QED
        BY ONLY <4>1, KeyFrames, k \in Keys
    <3>4. QED
      BY <3>2, <3>3 DEF About
  <2>5. CASE About(q, k) = {}
    BY <1>9, <2>3, <2>4, <2>5 DEF IsDown
  <2>6. CASE About(q, k) # {}
    <3>1. PICK i \in About(q, k) : q[i].down /\ \A j \in About(q, k) : j <= i
      BY <1>9, <2>6 DEF IsDown
    <3>2. i \in About(up, k) /\ i \in 1..Len(up)
      BY <2>2, <2>3, <3>1
    <3>3. k \notin held
      BY <2>1, <2>4, <3>1, <3>2 DEF About
    <3>4. QED
      BY <2>3, <3>1, <3>2, <3>3 DEF IsDown
  <2>7. QED
    BY <2>5, <2>6
<1>10. QED
  BY <1>1, <1>6, <1>9 DEF q

(* Nothing new is down at the guest, and the session holds what it held.   *)
LEMMA KeysKept ==
  ASSUME IInv, UNCHANGED <<sock, ended, held>>,
         \A k \in Keys : IsDown(up', pressed', k) => IsDown(up, pressed, k)
  PROVE  NoStuckKeys'
BY DEF IInv, NoStuckKeys, DownAfter

LEMMA KeysKeptByRequest ==
  ASSUME IInv, UNCHANGED <<sock, ended, held, pressed>>,
         NEW x \in {"version", "vnc", "none", "response", "clientinit", "full", "inc"},
         up' = Append(up, Plain(x))
  PROVE  NoStuckKeys'
<1>1. up \in Seq(Frames) /\ Plain(x) \in Frames /\ Plain(x).kind # "key"
  BY PlainFrames DEF IInv, Typed
<1>2. \A k \in Keys : IsDown(up', pressed', k) => IsDown(up, pressed, k)
  BY <1>1, AppendPlain
<1>3. QED
  BY <1>2, KeysKept

LEMMA KeyboardKeys ==
  ASSUME IInv, NEW kk \in Keys, KeyDown(kk) \/ KeyUp(kk) \/ Press(kk)
  PROVE  NoStuckKeys'
<1> USE DEF CanSend, server, screenshot, session
<1>1. up \in Seq(Frames)
  BY DEF IInv, Typed
<1>2. UNCHANGED <<sock, ended, pressed>>
  BY DEF KeyDown, KeyUp, Press
<1>3. SUFFICES ASSUME sock \in {"open", "closing"}, ended # "failed",
                      NEW k \in Keys, IsDown(up', pressed, k)
               PROVE  k \in held'
  BY <1>2 DEF NoStuckKeys, DownAfter
<1>4. IsDown(up, pressed, k) => k \in held
  BY <1>3 DEF IInv, NoStuckKeys, DownAfter
<1>5. CASE KeyDown(kk)
  <2>1. up' = Append(up, Key(TRUE, kk)) /\ held' = held \cup {kk}
    BY <1>5 DEF KeyDown
  <2>2. k = kk \/ IsDown(up, pressed, k)
    BY <1>1, <1>3, <2>1, AppendKey
  <2>3. QED
    BY <1>4, <2>1, <2>2
<1>6. CASE KeyUp(kk)
  <2>1. up' = Append(up, Key(FALSE, kk)) /\ held' = held \ {kk}
    BY <1>6 DEF KeyUp
  <2>2. k # kk /\ IsDown(up, pressed, k)
    BY <1>1, <1>3, <2>1, AppendKey
  <2>3. QED
    BY <1>4, <2>1, <2>2
<1>7. CASE Press(kk)
  <2> DEFINE press == Key(TRUE, kk)
             release == Key(FALSE, kk)
             q == Append(up, press)
  <2>1. up' = up \o <<press, release>> /\ held' = held
    BY <1>7 DEF Press
  <2>2. press \in Frames /\ release \in Frames
    BY KeyFrames
  <2> HIDE DEF press, release
  <2>3. up' = Append(q, release) /\ q \in Seq(Frames)
    BY ONLY <1>1, <2>1, <2>2, TwoMore
  <2> HIDE DEF q
  <2>4. k # kk /\ IsDown(q, pressed, k)
    BY <1>3, <2>3, AppendKey DEF release
  <2>5. IsDown(up, pressed, k)
    BY <1>1, <2>4, AppendKey DEF q, press
  <2>6. QED
    BY <1>4, <2>1, <2>5
<1>8. QED
  BY <1>5, <1>6, <1>7

LEMMA CloseKeys ==
  ASSUME IInv, Close
  PROVE  NoStuckKeys'
<1>1. /\ attached /\ ended = "no" /\ sock \in {"connecting", "open"}
      /\ up' = up \o ReleaseKeys /\ UNCHANGED pressed
  BY DEF IInv, Life, Close, server
<1>2. ASSUME NEW k \in Keys, IsDown(up', pressed, k) PROVE FALSE
  <2>1. CASE sock = "connecting"
    <3>1. up' = <<>> /\ pressed = {}
      BY <1>1, <2>1 DEF IInv, Life, ReleaseKeys
    <3>2. QED
      BY <1>2, <3>1 DEF IsDown, About
  <2>2. CASE sock = "open"
    <3>1. k \notin held /\ IsDown(up, pressed, k)
      BY <1>1, <1>2, <2>2, Released
    <3>2. k \in held
      BY <1>1, <2>2, <3>1 DEF IInv, NoStuckKeys, DownAfter
    <3>3. QED
      BY <3>1, <3>2
  <2>3. QED
    BY <1>1, <2>1, <2>2
<1>3. QED
  BY <1>1, <1>2 DEF NoStuckKeys, DownAfter

LEMMA ServerReadsKeys ==
  ASSUME IInv, ServerReads
  PROVE  NoStuckKeys'
<1> USE DEF ServerReads, session
<1>1. up \in Seq(Frames) /\ up # <<>> /\ up' = Tail(up) /\ UNCHANGED <<sock, ended, held>>
  BY DEF IInv, Typed
<1>2. CASE Head(up).kind # "key"
  <2>1. pressed' = pressed
    BY <1>2
  <2>2. QED
    BY <1>1, <1>2, <2>1, ArrivesPlain, KeysKept
<1>3. CASE Head(up).kind = "key"
  <2>1. pressed' = IF Head(up).down THEN pressed \cup {Head(up).key}
                                    ELSE pressed \ {Head(up).key}
    BY <1>3
  <2>2. QED
    BY <1>1, <1>3, <2>1, ArrivesKey, KeysKept
<1>4. QED
  BY <1>2, <1>3

LEMMA SocketOpensKeys ==
  ASSUME IInv, SocketOpens
  PROVE  NoStuckKeys'
<1>1. up' = <<>> /\ pressed' = {}
  BY DEF IInv, Life, SocketOpens, server
<1>2. QED
  BY <1>1 DEF NoStuckKeys, DownAfter, IsDown, About

-----------------------------------------------------------------------------
(* The picture.                                                            *)

LEMMA PictureKept ==
  ASSUME Picture, UNCHANGED <<down, frame, state, rects, screen, sent, attached, screenshot>>
  PROVE  Picture'
<1> USE DEF screenshot
<1>1. Following'
  BY DEF Picture, Grouped, Following, IsRect
<1>2. Grouped'
  BY <1>1 DEF Picture, Grouped, IsRect, Ends
<1>3. Ordered'
  BY DEF Picture, Ordered, Shows, IsRect
<1>4. \A s \in Shots : NewEnough(s)'
  BY DEF Picture, NewEnough, Shows, IsRect, Ends
<1>5. QED
  BY <1>2, <1>3, <1>4 DEF Picture

LEMMA TeardownPicture ==
  ASSUME IInv, NEW next, Teardown(next), UNCHANGED <<screen, sent>>
  PROVE  Picture'
<1> USE DEF Teardown, Woken
<1>1. Grouped'
  BY DEF Grouped, Following
<1>2. Ordered'
  BY DEF IInv, Picture, Ordered
<1>3. \A s \in Shots : NewEnough(s)'
  BY DEF IInv, Typed, TypeOK, Picture, NewEnough
<1>4. QED
  BY <1>1, <1>2, <1>3 DEF Picture

(* One unit is read: those behind it move up.                              *)
LEMMA MoveUp ==
  ASSUME IInv, chunk > 0, down' = Tail(down)
  PROVE  /\ Following' /\ Len(down) \in Nat /\ Len(down) >= 1 /\ Len(down') = Len(down) - 1
         /\ down' = <<>> <=> Len(down') = 0
         /\ \A i \in 1..Len(down') : /\ i + 1 \in 1..Len(down) /\ down'[i] = down[i + 1]
                                     /\ down'[i] \in Units
                                     /\ IsRect(i)' <=> IsRect(i + 1)
                                     /\ Ends(i)' <=> Ends(i + 1)
<1> DEFINE n == Len(down)
<1>1. /\ n \in Nat /\ n >= 1 /\ Len(down') = n - 1 /\ down' \in Seq(Units)
      /\ \A i \in 1..(n - 1) : down'[i] = down[i + 1]
  BY AtHead, Queues DEF IInv, Typed
<1>2. \A i \in 1..(n - 1) : i + 1 \in 1..n /\ (IsRect(i)' <=> IsRect(i + 1))
  BY <1>1 DEF IsRect
<1>3. \A i \in 1..(n - 1) : Ends(i)' <=> Ends(i + 1)
  <2> SUFFICES ASSUME NEW i \in 1..(n - 1) PROVE Ends(i)' <=> Ends(i + 1)
    OBVIOUS
  <2>1. i < n - 1 => (IsRect(i + 1)' <=> IsRect(i + 2))
    BY <1>1, <1>2
  <2>2. i < n - 1 <=> i + 1 < n
    BY <1>1
  <2>3. (i + 1) + 1 = i + 2
    OBVIOUS
  <2>4. QED
    BY <1>1, <1>2, <2>1, <2>2, <2>3 DEF Ends
<1>4. Following'
  <2>1. Following
    BY DEF IInv, Picture, Grouped
  <2>2. ASSUME NEW i \in 1..(n - 1), down'[i].kind = "update"
        PROVE  /\ i + down'[i].rects <= n - 1
               /\ \A j \in (i + 1)..(i + down'[i].rects) : down'[j].kind = "rect"
               /\ i + down'[i].rects < n - 1 => down'[i + down'[i].rects + 1].kind # "rect"
    <3> DEFINE r == down[i + 1].rects
    <3>1. down'[i] = down[i + 1] /\ i + 1 \in 1..n /\ down[i + 1] \in Units
      BY <1>1, <1>2, Queues DEF IInv, Typed
    <3>2. r \in Nat
      BY <2>2, <3>1 DEF Units
    <3>3. /\ (i + 1) + r <= n
          /\ \A j \in (i + 2)..(i + 1 + r) : IsRect(j)
          /\ (i + 1) + r < n => ~IsRect((i + 1) + r + 1)
      BY <2>1, <2>2, <3>1, <3>2 DEF Following
    <3> HIDE DEF r
    <3>4. i + r <= n - 1
      BY <1>1, <3>2, <3>3
    <3>5. ASSUME NEW j \in (i + 1)..(i + r) PROVE down'[j].kind = "rect"
      <4>1. j \in 1..(n - 1) /\ j + 1 \in (i + 2)..(i + 1 + r)
        BY <1>1, <3>2, <3>4
      <4>2. QED
        BY <1>2, <3>3, <4>1 DEF IsRect
    <3>6. i + r < n - 1 => down'[i + r + 1].kind # "rect"
      <4> SUFFICES ASSUME i + r < n - 1 PROVE down'[i + r + 1].kind # "rect"
        OBVIOUS
      <4> DEFINE k == i + r + 1
      <4>1. k \in 1..(n - 1) /\ (i + 1) + r + 1 = k + 1 /\ (i + 1) + r < n
        BY <1>1, <3>2
      <4>2. ~IsRect(k + 1)
        BY <3>3, <4>1
      <4> HIDE DEF k
      <4>3. down'[k].kind # "rect"
        BY <1>2, <4>1, <4>2 DEF IsRect
      <4>4. QED
        BY <4>3 DEF k
    <3>7. QED
      BY <3>1, <3>4, <3>5, <3>6 DEF r
  <2>3. ASSUME NEW i \in 2..(n - 1), IsRect(i)'
        PROVE  down'[i - 1].kind \in {"update", "rect"}
    <3>1. /\ i \in 1..(n - 1) /\ i - 1 \in 1..(n - 1) /\ (i - 1) + 1 = i
          /\ i + 1 \in 2..n /\ (i + 1) - 1 = i
      BY <1>1
    <3>2. IsRect(i + 1) /\ down'[i - 1] = down[i]
      BY <1>1, <1>2, <2>3, <3>1
    <3>3. QED
      BY <2>1, <3>1, <3>2 DEF Following
  <2>4. QED
    BY <1>1, <2>2, <2>3 DEF Following, IsRect
<1>5. \A i \in 1..(n - 1) : down'[i] \in Units
  BY <1>1, Queues
<1>6. down' = <<>> <=> Len(down') = 0
  BY <1>1, Queues
<1>7. ASSUME NEW i \in 1..Len(down')
      PROVE  /\ i + 1 \in 1..Len(down) /\ down'[i] = down[i + 1] /\ down'[i] \in Units
             /\ IsRect(i)' <=> IsRect(i + 1)
             /\ Ends(i)' <=> Ends(i + 1)
  BY <1>1, <1>2, <1>3, <1>5
<1>8. QED
  BY <1>1, <1>4, <1>6, <1>7

(* Part p will show a or something newer once i units are read, said of the *)
(* next state.                                                             *)
ShowsNext(p, i, a) ==
  \/ frame'[p] >= a
  \/ \E j \in 1..i : down'[j].kind = "rect" /\ down'[j].part = p /\ down'[j].content >= a

(* A unit is read: what the first units showed shows still.                *)
LEMMA UnitRead ==
  ASSUME IInv, chunk > 0, down' = Tail(down),
         \/ ~IsRect(1) /\ UNCHANGED frame
         \/ IsRect(1) /\ frame' = Paint(Head(down)),
         UNCHANGED <<screen, sent, attached>>
  PROVE  /\ Ordered'
         /\ \A p \in Parts : frame'[p] >= frame[p]
         /\ \A i \in 0..Len(down'), p \in Parts, a \in Nat :
              Shows(p, i + 1, a) => ShowsNext(p, i, a)
<1>1. /\ Len(down) \in Nat /\ Len(down) >= 1 /\ Len(down') = Len(down) - 1
      /\ \A i \in 1..Len(down') : /\ i + 1 \in 1..Len(down) /\ down'[i] = down[i + 1]
                                  /\ IsRect(i)' <=> IsRect(i + 1)
  BY MoveUp
<1>2. /\ Head(down) = down[1] /\ 1 \in 1..Len(down)
      /\ \A i \in 1..Len(down) : IsRect(i) => down[i].part \in Parts /\ down[i].content \in Nat
  <2>1. \A i \in 1..Len(down) : down[i] \in Units
    BY Queues DEF IInv, Typed
  <2>2. QED
    BY <2>1, AtHead DEF IsRect, Units
<1>3. Ordered /\ frame \in [Parts -> Nat] /\ screen \in [Parts -> Nat]
  BY DEF IInv, Picture, Typed, TypeOK
<1>4. \A p \in Parts : IF IsRect(1) /\ p = down[1].part
                       THEN frame'[p] = down[1].content /\ frame'[p] >= frame[p]
                       ELSE frame'[p] = frame[p]
  <2>1. IsRect(1) => down[1].content >= frame[down[1].part]
    BY <1>2, <1>3 DEF Ordered
  <2>2. QED
    BY <1>2, <1>3, <2>1 DEF Paint
<1>5. \A p \in Parts : frame'[p] >= frame[p] /\ frame'[p] \in Nat
  BY <1>2, <1>3, <1>4
<1>6. ASSUME NEW i \in 0..Len(down'), NEW p \in Parts, NEW a \in Nat, Shows(p, i + 1, a)
      PROVE  ShowsNext(p, i, a)
  <2>1. CASE frame[p] >= a
    BY <1>3, <1>5, <2>1 DEF ShowsNext
  <2>2. CASE ~(frame[p] >= a)
    <3>1. PICK j \in 1..(i + 1) : IsRect(j) /\ down[j].part = p /\ down[j].content >= a
      BY <1>6, <2>2 DEF Shows
    <3>2. CASE j = 1
      BY <1>4, <3>1, <3>2 DEF ShowsNext
    <3>3. CASE j # 1
      <4>1. j - 1 \in 1..i /\ j - 1 \in 1..Len(down') /\ (j - 1) + 1 = j
        BY <1>1, <3>1, <3>3
      <4>2. IsRect(j - 1)' /\ down'[j - 1] = down[j]
        BY <1>1, <3>1, <4>1
      <4>3. QED
        BY <3>1, <4>1, <4>2 DEF ShowsNext, IsRect
    <3>4. QED
      BY <3>2, <3>3
  <2>3. QED
    BY <2>1, <2>2
<1>7. Ordered'
  <2>1. ASSUME NEW i \in 1..Len(down'), IsRect(i)'
        PROVE  /\ frame'[down'[i].part] <= down'[i].content
               /\ \A j \in 1..i : down'[j].kind = "rect" /\ down'[j].part = down'[i].part =>
                    down'[j].content <= down'[i].content
               /\ down'[i].content <= screen'[down'[i].part]
    <3>1. IsRect(i + 1) /\ down'[i] = down[i + 1] /\ i + 1 \in 1..Len(down)
      BY <1>1, <2>1
    <3>2. down[i + 1].part \in Parts
      BY <1>2, <3>1
    <3>3. frame'[down'[i].part] <= down'[i].content
      <4>1. CASE IsRect(1) /\ down[i + 1].part = down[1].part
        <5>1. 1 \in 1..(i + 1) /\ down[1].content <= down[i + 1].content
          BY <1>3, <3>1, <4>1 DEF Ordered
        <5>2. QED
          BY <1>4, <3>1, <3>2, <4>1, <5>1
      <4>2. CASE ~(IsRect(1) /\ down[i + 1].part = down[1].part)
        BY <1>3, <1>4, <3>1, <3>2, <4>2 DEF Ordered
      <4>3. QED
        BY <4>1, <4>2
    <3>4. ASSUME NEW j \in 1..i, down'[j].kind = "rect", down'[j].part = down'[i].part
          PROVE  down'[j].content <= down'[i].content
      <4>1. j \in 1..Len(down') /\ j + 1 \in 1..(i + 1)
        BY <1>1
      <4>2. IsRect(j + 1) /\ down'[j] = down[j + 1]
        BY <1>1, <3>4, <4>1 DEF IsRect
      <4>3. QED
        BY <1>3, <3>1, <3>4, <4>1, <4>2 DEF Ordered
    <3>5. QED
      BY <1>3, <3>1, <3>3, <3>4 DEF Ordered
  <2>2. \A p \in Parts : frame'[p] <= screen'[p]
    <3>1. IsRect(1) => down[1].content <= screen[down[1].part]
      BY <1>2, <1>3 DEF Ordered
    <3>2. QED
      BY <1>3, <1>4, <3>1 DEF Ordered
  <2>3. attached => \A p \in Parts : ShowsNext(p, Len(down'), sent[p])
    <3> SUFFICES ASSUME attached, NEW p \in Parts PROVE ShowsNext(p, Len(down'), sent[p])
      OBVIOUS
    <3>1. /\ Shows(p, Len(down), sent[p]) /\ Len(down) = Len(down') + 1
          /\ Len(down') \in 0..Len(down') /\ sent[p] \in Nat
      BY <1>1, <1>3 DEF Ordered, IInv, Typed, TypeOK
    <3>2. QED
      BY <1>6, <3>1
  <2>4. QED
    BY <1>3, <2>1, <2>2, <2>3 DEF Ordered, IsRect, Shows, ShowsNext
<1>8. QED
  BY <1>5, <1>6, <1>7

(* A unit that paints nothing, and begins no update, is read.              *)
LEMMA OtherRead ==
  ASSUME IInv, chunk > 0, down' = Tail(down), ~IsRect(1),
         UNCHANGED <<frame, screen, sent, attached, screenshot>>
  PROVE  Ordered' /\ \A s \in Shots : NewEnough(s)'
<1> USE DEF screenshot
<1>1. \A i \in 1..Len(down') : i + 1 \in 1..Len(down) /\ (Ends(i)' <=> Ends(i + 1))
  BY MoveUp
<1>2. Ordered' /\ \A i \in 0..Len(down'), p \in Parts, a \in Nat :
                    Shows(p, i + 1, a) => ShowsNext(p, i, a)
  BY UnitRead
<1>3. ASSUME NEW s \in Shots PROVE NewEnough(s)'
  <2>1. NewEnough(s)
    BY DEF IInv, Picture
  <2>2. quiet[s] /\ shots[s] = "waiting" =>
          \A i \in 1..Len(down') : Ends(i)' => \A p \in Parts : ShowsNext(p, i, asked[s][p])
    <3> SUFFICES ASSUME quiet[s], shots[s] = "waiting", NEW i \in 1..Len(down'), Ends(i)',
                        NEW p \in Parts
                 PROVE  ShowsNext(p, i, asked[s][p])
      OBVIOUS
    <3>1. i + 1 \in 1..Len(down) /\ Ends(i + 1) /\ i \in 0..Len(down') /\ asked[s][p] \in Nat
      BY <1>1 DEF IInv, Typed, TypeOK
    <3>2. Shows(p, i + 1, asked[s][p])
      BY <2>1, <3>1 DEF NewEnough
    <3>3. QED
      BY <1>2, <3>1, <3>2
  <2>3. QED
    BY <2>1, <2>2 DEF NewEnough, Shows, ShowsNext, Ends, IsRect
<1>4. QED
  BY <1>2, <1>3

(* So is a unit of the handshake, or an update of nothing.                 *)
LEMMA ReplyPicture ==
  ASSUME IInv, chunk > 0, down' = Tail(down),
         down[1].kind # "rect", down[1].kind = "update" => down[1].rects = 0,
         state # "rectangles", state' # "rectangles",
         UNCHANGED <<frame, screen, sent, attached, screenshot>>
  PROVE  Picture'
<1>1. Ordered' /\ \A s \in Shots : NewEnough(s)'
  BY OtherRead DEF IsRect
<1>2. Grouped'
  <2>1. /\ Following'
        /\ down' # <<>> => (IsRect(1)' <=> IsRect(2)) /\ 2 \in 2..Len(down)
    <3>1. /\ Following' /\ Len(down) \in Nat /\ Len(down') = Len(down) - 1
          /\ down' = <<>> <=> Len(down') = 0
          /\ \A i \in 1..Len(down') : IsRect(i)' <=> IsRect(i + 1)
      BY MoveUp
    <3>2. Len(down') # 0 => 1 \in 1..Len(down') /\ 2 \in 2..Len(down)
      BY <3>1
    <3>3. 1 \in 1..Len(down') => (IsRect(1)' <=> IsRect(2))
      BY <3>1 DEF IsRect
    <3>4. Len(down') # 0 \/ down' = <<>>
      BY <3>1
    <3>5. QED
      BY <3>1, <3>2, <3>3, <3>4
  <2>2. 2 \in 2..Len(down) => ~IsRect(2)
    <3> SUFFICES ASSUME 2 \in 2..Len(down), IsRect(2) PROVE FALSE
      OBVIOUS
    <3>1. Len(down) \in Nat /\ 1 \in 1..Len(down) /\ 2 - 1 = 1
      BY AtHead, MoveUp
    <3>2. down[1].kind = "update"
      BY <3>1 DEF IInv, Picture, Grouped, Following
    <3>3. down[1].rects = 0 /\ 1 + 0 < Len(down)
      BY <3>1, <3>2
    <3>4. ~IsRect(1 + 0 + 1)
      BY <3>1, <3>2, <3>3 DEF IInv, Picture, Grouped, Following
    <3>5. QED
      BY <3>4
  <2>3. QED
    BY <2>1, <2>2 DEF Grouped
<1>3. QED
  BY <1>1, <1>2 DEF Picture

LEMMA ReadUpdatePicture ==
  ASSUME IInv, ReadUpdate
  PROVE  Picture'
<1>1. /\ chunk > 0 /\ Head(down) = down[1] /\ down[1].kind = "update" /\ state = "message"
      /\ down[1] \in Units /\ down' = Tail(down)
      /\ UNCHANGED <<frame, screen, sent, attached, screenshot>>
  BY AtHead DEF ReadUpdate, Unit, Consume, server
<1> DEFINE n == down[1].rects
<1>2. n \in Nat /\ rects' = n
  BY <1>1 DEF Units, ReadUpdate
<1>3. CASE n = 0
  BY <1>1, <1>3, ReplyPicture DEF ReadUpdate
<1>4. CASE n # 0
  <2>1. state' = "rectangles"
    BY <1>1, <1>4 DEF ReadUpdate
  <2>2. Ordered' /\ \A s \in Shots : NewEnough(s)'
    BY <1>1, OtherRead DEF IsRect
  <2>3. /\ Following' /\ Len(down) \in Nat /\ Len(down) >= 1 /\ Len(down') = Len(down) - 1
        /\ \A i \in 1..Len(down') : IsRect(i)' <=> IsRect(i + 1)
    BY <1>1, MoveUp
  <2>4. /\ 1 + n <= Len(down)
        /\ \A j \in (1 + 1)..(1 + n) : IsRect(j)
        /\ 1 + n < Len(down) => ~IsRect(1 + n + 1)
    <3>1. 1 \in 1..Len(down) /\ Following
      BY <2>3 DEF IInv, Picture, Grouped
    <3>2. QED
      BY <1>1, <3>1 DEF Following
  <2> HIDE DEF n
  <2>5. n <= Len(down')
    BY <1>2, <2>3, <2>4
  <2>6. \A i \in 1..n : down'[i].kind = "rect"
    <3> SUFFICES ASSUME NEW i \in 1..n PROVE down'[i].kind = "rect"
      OBVIOUS
    <3>1. i \in 1..Len(down') /\ i + 1 \in (1 + 1)..(1 + n)
      BY <1>2, <2>3, <2>5
    <3>2. IsRect(i)'
      BY <2>3, <2>4, <3>1
    <3>3. QED
      BY <3>2 DEF IsRect
  <2>7. n < Len(down') => down'[n + 1].kind # "rect"
    <3> SUFFICES ASSUME n < Len(down') PROVE down'[n + 1].kind # "rect"
      OBVIOUS
    <3> DEFINE k == n + 1
    <3>1. k \in 1..Len(down') /\ 1 + n < Len(down) /\ 1 + n + 1 = k + 1
      BY <1>2, <2>3
    <3>2. ~IsRect(k + 1)
      BY <2>4, <3>1
    <3> HIDE DEF k
    <3>3. down'[k].kind # "rect"
      BY <2>3, <3>1, <3>2 DEF IsRect
    <3>4. QED
      BY <3>3 DEF k
  <2>8. n \in 1..n
    BY <1>2, <1>4
  <2>9. Grouped'
    BY <1>2, <2>1, <2>3, <2>5, <2>6, <2>7, <2>8 DEF Grouped, Ends, IsRect
  <2>10. QED
    BY <2>2, <2>9 DEF Picture
<1>5. QED
  BY <1>3, <1>4

LEMMA ReadRectanglePicture ==
  ASSUME IInv, ReadRectangle
  PROVE  Picture'
<1> USE DEF server
<1>1. /\ chunk > 0 /\ Head(down) = down[1] /\ IsRect(1) /\ state = "rectangles"
      /\ down' = Tail(down) /\ frame' = Paint(Head(down)) /\ rects' = rects - 1
      /\ UNCHANGED <<screen, sent, attached, asked, quiet>>
  BY AtHead DEF ReadRectangle, Unit, Consume, IsRect
<1>2. /\ rects \in Nat /\ rects > 0 /\ rects <= Len(down) /\ Ends(rects)
      /\ \A i \in 1..rects : IsRect(i)
  BY <1>1 DEF IInv, Typed, TypeOK, Picture, Grouped
<1>3. /\ Following' /\ Len(down) \in Nat /\ Len(down') = Len(down) - 1
      /\ down' = <<>> <=> Len(down') = 0
      /\ \A i \in 1..Len(down') : /\ i + 1 \in 1..Len(down) /\ IsRect(i)' <=> IsRect(i + 1)
                                  /\ Ends(i)' <=> Ends(i + 1)
  BY <1>1, MoveUp
<1>4. /\ Ordered' /\ \A p \in Parts : frame'[p] >= frame[p]
      /\ \A i \in 0..Len(down'), p \in Parts, a \in Nat :
           Shows(p, i + 1, a) => ShowsNext(p, i, a)
  BY <1>1, UnitRead
<1>5. Grouped'
  <2>1. CASE rects = 1
    <3>1. state' = "message"
      BY <2>1 DEF ReadRectangle
    <3>2. 1 < Len(down) => ~IsRect(1 + 1)
      BY <1>2, <2>1 DEF Ends
    <3>3. Len(down') # 0 => 1 \in 1..Len(down') /\ 1 < Len(down)
      BY <1>3
    <3>4. down' = <<>> \/ ~IsRect(1)'
      BY <1>3, <3>2, <3>3
    <3>5. QED
      BY <1>3, <3>1, <3>4 DEF Grouped, Ends
  <2>2. CASE rects # 1
    <3> DEFINE n == rects - 1
    <3>1. /\ state' = "rectangles" /\ rects' = n /\ n \in 1..Len(down') /\ n + 1 = rects
      BY <1>1, <1>2, <1>3, <2>2 DEF ReadRectangle
    <3>2. \A i \in 1..n : i \in 1..Len(down') /\ i + 1 \in 1..rects
      BY <1>2, <1>3, <3>1
    <3>3. \A i \in 1..n : down'[i].kind = "rect"
      BY <1>2, <1>3, <3>2 DEF IsRect
    <3>4. \A i \in 1..Len(down') : i + 1 = rects =>
            (i < Len(down') => down'[i + 1].kind # "rect")
      BY <1>2, <1>3 DEF Ends, IsRect
    <3> HIDE DEF n
    <3>5. n < Len(down') => down'[n + 1].kind # "rect"
      BY <3>1, <3>4
    <3>6. n \in 1..n /\ n <= Len(down')
      BY <3>1
    <3>7. QED
      BY <1>3, <3>1, <3>3, <3>5, <3>6 DEF Grouped, Ends, IsRect
  <2>3. QED
    BY <2>1, <2>2
<1>6. ASSUME NEW s \in Shots PROVE NewEnough(s)'
  <2>1. /\ NewEnough(s) /\ asked[s] \in [Parts -> Nat] /\ frame \in [Parts -> Nat]
        /\ frame' \in [Parts -> Nat]
    BY ReadRectangleSession DEF IInv, Picture, Typed, TypeOK
  <2>2. shots' = IF rects = 1 THEN Woken("woken") ELSE shots
    BY DEF ReadRectangle
  <2>3. shots'[s] = IF rects = 1 /\ shots[s] = "waiting" THEN "woken" ELSE shots[s]
    BY <2>2 DEF Woken, IInv, Typed, TypeOK
  <2>4. shots'[s] \in {"waiting", "woken"} => \A p \in Parts : asked[s][p] <= screen[p]
    BY <2>1, <2>3 DEF NewEnough
  <2>5. quiet[s] /\ shots'[s] = "waiting" =>
          \A i \in 1..Len(down') : Ends(i)' => \A p \in Parts : ShowsNext(p, i, asked[s][p])
    <3> SUFFICES ASSUME quiet[s], shots'[s] = "waiting", NEW i \in 1..Len(down'), Ends(i)',
                        NEW p \in Parts
                 PROVE  ShowsNext(p, i, asked[s][p])
      OBVIOUS
    <3>1. i + 1 \in 1..Len(down) /\ Ends(i + 1) /\ i \in 0..Len(down')
      BY <1>3
    <3>2. Shows(p, i + 1, asked[s][p])
      BY <2>1, <2>3, <3>1 DEF NewEnough
    <3>3. QED
      BY <1>4, <2>1, <3>1, <3>2
  <2>6. quiet[s] /\ shots'[s] = "woken" => \A p \in Parts : frame'[p] >= asked[s][p]
    <3> SUFFICES ASSUME quiet[s], shots'[s] = "woken", NEW p \in Parts
                 PROVE  frame'[p] >= asked[s][p]
      OBVIOUS
    <3>1. CASE shots[s] = "woken"
      <4>1. frame[p] >= asked[s][p] /\ frame'[p] >= frame[p]
        BY <1>4, <2>1, <3>1 DEF NewEnough
      <4>2. QED
        BY <2>1, <4>1
    <3>2. CASE shots[s] # "woken"
      <4>1. rects = 1 /\ shots[s] = "waiting"
        BY <2>3, <3>2
      <4>2. 1 \in 1..Len(down) /\ Ends(1) /\ 0 \in 0..Len(down') /\ 0 + 1 = 1
        BY <1>2, <1>3, <4>1
      <4>3. Shows(p, 0 + 1, asked[s][p])
        BY <2>1, <4>1, <4>2 DEF NewEnough
      <4>4. ShowsNext(p, 0, asked[s][p])
        BY <1>4, <2>1, <4>2, <4>3
      <4>5. QED
        BY <4>4 DEF ShowsNext
    <3>3. QED
      BY <3>1, <3>2
  <2>7. quiet[s] => shots'[s] # "stale"
    BY <2>1, <2>3 DEF NewEnough
  <2>8. UNCHANGED <<asked, quiet, screen>>
    BY <1>1
  <2>9. QED
    BY <2>4, <2>5, <2>6, <2>7, <2>8 DEF NewEnough, Shows, ShowsNext, Ends, IsRect
<1>7. QED
  BY <1>4, <1>5, <1>6 DEF Picture

(* What is under way is followed by something that is not a rectangle.     *)
LEMMA Followed ==
  ASSUME IInv, down' \in Seq(Units), Len(down') > Len(down),
         \A i \in 1..Len(down) : down'[i] = down[i],
         down'[Len(down) + 1].kind # "rect",
         UNCHANGED <<frame, state, rects>>
  PROVE  /\ Len(down) \in Nat /\ Len(down') \in Nat
         /\ \A i \in 1..Len(down) : i \in 1..Len(down') /\ (IsRect(i)' <=> IsRect(i))
                                    /\ (Ends(i)' <=> Ends(i))
         /\ \A i \in 1..Len(down) : down[i].kind = "update" =>
              /\ i + down[i].rects <= Len(down)
              /\ \A j \in (i + 1)..(i + down[i].rects) : down'[j].kind = "rect"
              /\ down'[i + down[i].rects + 1].kind # "rect"
         /\ \A i \in 2..Len(down) : IsRect(i) => down'[i - 1].kind \in {"update", "rect"}
         /\ Following' => Grouped'
         /\ \A i \in 0..Len(down), p \in Parts, a \in Nat : Shows(p, i, a) => ShowsNext(p, i, a)
<1>1. /\ Len(down) \in Nat /\ Len(down') \in Nat /\ down \in Seq(Units)
      /\ Following /\ Grouped
      /\ \A i \in 1..Len(down) : down[i] \in Units
  BY Queues DEF IInv, Typed, Picture, Grouped
<1>2. \A i \in 1..Len(down) : i \in 1..Len(down') /\ (IsRect(i)' <=> IsRect(i))
  BY <1>1 DEF IsRect
<1>3. ASSUME NEW i \in 1..Len(down) PROVE Ends(i)' <=> Ends(i)
  <2>1. CASE i = Len(down)
    <3>1. ~(down'[i + 1].kind = "rect")
      BY <2>1
    <3>2. QED
      BY <1>1, <1>2, <2>1, <3>1 DEF Ends, IsRect
  <2>2. CASE i # Len(down)
    <3>1. i + 1 \in 1..Len(down) /\ i < Len(down) /\ i < Len(down')
      BY <1>1, <2>2
    <3>2. QED
      BY <1>2, <3>1 DEF Ends, IsRect
  <2>3. QED
    BY <2>1, <2>2
<1>4. ASSUME NEW i \in 1..Len(down), down[i].kind = "update"
      PROVE  /\ i + down[i].rects <= Len(down)
             /\ \A j \in (i + 1)..(i + down[i].rects) : down'[j].kind = "rect"
             /\ down'[i + down[i].rects + 1].kind # "rect"
  <2> DEFINE r == down[i].rects
  <2>1. r \in Nat
    BY <1>1, <1>4 DEF Units
  <2>2. /\ i + r <= Len(down)
        /\ \A j \in (i + 1)..(i + r) : IsRect(j)
        /\ i + r < Len(down) => ~IsRect(i + r + 1)
    BY <1>1, <1>4 DEF Following
  <2> HIDE DEF r
  <2>3. \A j \in (i + 1)..(i + r) : j \in 1..Len(down)
    BY <1>1, <2>1, <2>2
  <2>4. \A j \in (i + 1)..(i + r) : down'[j].kind = "rect"
    BY <2>2, <2>3 DEF IsRect
  <2> DEFINE k == i + r + 1
  <2>5. k \in 1..(Len(down) + 1) /\ (k # Len(down) + 1 => k \in 1..Len(down) /\ i + r < Len(down))
    BY <1>1, <2>1, <2>2
  <2>6. k \in 1..Len(down) => ~IsRect(k)
    BY <2>2, <2>5
  <2> HIDE DEF k
  <2>7. down'[k].kind # "rect"
    BY <2>5, <2>6 DEF IsRect
  <2>8. QED
    BY <2>2, <2>4, <2>7 DEF r, k
<1>5. ASSUME NEW i \in 2..Len(down), IsRect(i)
      PROVE  down'[i - 1].kind \in {"update", "rect"}
  <2>1. i - 1 \in 1..Len(down)
    BY <1>1
  <2>2. QED
    BY <1>1, <1>5, <2>1 DEF Following
<1>6. ASSUME Following' PROVE Grouped'
  <2>1. CASE state = "rectangles"
    <3>1. rects \in Nat /\ rects > 0 /\ rects <= Len(down) /\ rects \in 1..Len(down)
      BY <1>1, <2>1 DEF IInv, Typed, TypeOK, Grouped
    <3>2. \A i \in 1..rects : i \in 1..Len(down)
      BY <1>1, <3>1
    <3>3. \A i \in 1..rects : down'[i].kind = "rect"
      BY <1>1, <2>1, <3>2 DEF Grouped, IsRect
    <3>4. \A i \in 1..Len(down) : Ends(i) => (i < Len(down') => down'[i + 1].kind # "rect")
      BY <1>3 DEF Ends, IsRect
    <3>5. rects < Len(down') => down'[rects + 1].kind # "rect"
      BY <1>1, <2>1, <3>1, <3>4 DEF Grouped
    <3>6. rects <= Len(down') /\ rects \in 1..rects
      BY <1>1, <3>1
    <3>7. QED
      BY <1>6, <2>1, <3>3, <3>5, <3>6 DEF Grouped, Ends, IsRect
  <2>2. CASE state # "rectangles"
    <3>1. ~(down'[1].kind = "rect")
      <4>1. CASE Len(down) = 0
        BY <4>1
      <4>2. CASE Len(down) # 0
        <5>1. 1 \in 1..Len(down) /\ down # <<>>
          BY <1>1, <4>2
        <5>2. QED
          BY <1>1, <2>2, <5>1 DEF Grouped, IsRect
      <4>3. QED
        BY <4>1, <4>2
    <3>2. QED
      BY <1>6, <2>2, <3>1 DEF Grouped, IsRect
  <2>3. QED
    BY <2>1, <2>2
<1>7. ASSUME NEW i \in 0..Len(down), NEW p \in Parts, NEW a \in Nat, Shows(p, i, a)
      PROVE  ShowsNext(p, i, a)
  <2>1. \A j \in 1..i : j \in 1..Len(down)
    BY <1>1
  <2>2. QED
    BY <1>2, <1>7, <2>1 DEF Shows, ShowsNext, IsRect
<1>8. QED
  BY <1>1, <1>2, <1>3, <1>4, <1>5, <1>6, <1>7

(* The server adds a unit that paints nothing and announces nothing.       *)
LEMMA AppendPicture ==
  ASSUME IInv, NEW x \in Units, down' = Append(down, x), x.kind # "rect",
         x.kind = "update" => x.rects = 0,
         UNCHANGED <<frame, state, rects, screen, sent, attached, screenshot>>
  PROVE  Picture'
<1> USE DEF screenshot
<1>1. /\ down' \in Seq(Units) /\ Len(down') = Len(down) + 1 /\ down'[Len(down) + 1] = x
      /\ \A i \in 1..Len(down) : down'[i] = down[i]
      /\ Len(down) \in Nat
  BY Queues DEF IInv, Typed
<1>2. /\ \A i \in 1..Len(down) : i \in 1..Len(down') /\ (IsRect(i)' <=> IsRect(i))
                                 /\ (Ends(i)' <=> Ends(i))
      /\ \A i \in 1..Len(down) : down[i].kind = "update" =>
           /\ i + down[i].rects <= Len(down)
           /\ \A j \in (i + 1)..(i + down[i].rects) : down'[j].kind = "rect"
           /\ down'[i + down[i].rects + 1].kind # "rect"
      /\ \A i \in 2..Len(down) : IsRect(i) => down'[i - 1].kind \in {"update", "rect"}
      /\ Following' => Grouped'
      /\ \A i \in 0..Len(down), p \in Parts, a \in Nat : Shows(p, i, a) => ShowsNext(p, i, a)
  <2>1. Len(down') > Len(down) /\ down'[Len(down) + 1].kind # "rect"
    BY <1>1
  <2>2. QED
    BY <1>1, <2>1, Followed
<1>3. \A i \in 1..Len(down') : i \in 1..Len(down) \/ (i = Len(down) + 1 /\ down'[i] = x)
  BY <1>1
<1>4. Following'
  <2>1. ASSUME NEW i \in 1..Len(down'), down'[i].kind = "update"
        PROVE  /\ i + down'[i].rects <= Len(down')
               /\ \A j \in (i + 1)..(i + down'[i].rects) : down'[j].kind = "rect"
               /\ i + down'[i].rects < Len(down') => down'[i + down'[i].rects + 1].kind # "rect"
    <3>1. CASE i \in 1..Len(down)
      <4>1. down'[i] = down[i] /\ down[i] \in Units /\ down[i].kind = "update"
        BY <1>1, <2>1, <3>1 DEF IInv, Typed
      <4>2. down[i].rects \in Nat
        BY <4>1 DEF Units
      <4>3. i + down[i].rects <= Len(down')
        BY <1>1, <1>2, <3>1, <4>1, <4>2
      <4>4. QED
        BY <1>2, <3>1, <4>1, <4>3
    <3>2. CASE i = Len(down) + 1
      <4>1. down'[i].rects = 0 /\ i + 0 = Len(down')
        BY <1>1, <2>1, <3>2
      <4>2. QED
        BY <1>1, <3>2, <4>1
    <3>3. QED
      BY <1>3, <3>1, <3>2
  <2>2. ASSUME NEW i \in 2..Len(down'), down'[i].kind = "rect"
        PROVE  down'[i - 1].kind \in {"update", "rect"}
    <3>1. i \in 1..Len(down') /\ i # Len(down) + 1
      BY <1>1, <2>2
    <3>2. i \in 1..Len(down) /\ i \in 2..Len(down)
      BY <1>3, <3>1
    <3>3. QED
      BY <1>2, <2>2, <3>2 DEF IsRect
  <2>3. QED
    BY <2>1, <2>2 DEF Following, IsRect
<1>5. Ordered'
  <2>1. Ordered
    BY DEF IInv, Picture
  <2>2. ASSUME NEW i \in 1..Len(down'), down'[i].kind = "rect"
        PROVE  /\ frame[down'[i].part] <= down'[i].content
               /\ \A j \in 1..i : down'[j].kind = "rect" /\ down'[j].part = down'[i].part =>
                    down'[j].content <= down'[i].content
               /\ down'[i].content <= screen[down'[i].part]
    <3>1. i \in 1..Len(down) /\ IsRect(i) /\ down'[i] = down[i]
      BY <1>1, <1>3, <2>2 DEF IsRect
    <3>2. \A j \in 1..i : j \in 1..Len(down) /\ down'[j] = down[j]
      BY <1>1, <3>1
    <3>3. QED
      BY <2>1, <3>1, <3>2 DEF Ordered, IsRect
  <2>3. attached => \A p \in Parts : ShowsNext(p, Len(down'), sent[p])
    <3> SUFFICES ASSUME attached, NEW p \in Parts PROVE ShowsNext(p, Len(down'), sent[p])
      OBVIOUS
    <3>1. /\ Shows(p, Len(down), sent[p]) /\ Len(down) \in 0..Len(down) /\ sent[p] \in Nat
          /\ 1..Len(down) \subseteq 1..Len(down')
      BY <1>1, <2>1 DEF Ordered, IInv, Typed, TypeOK
    <3>2. ShowsNext(p, Len(down), sent[p])
      BY <1>2, <3>1
    <3>3. QED
      BY <3>1, <3>2 DEF ShowsNext
  <2>4. QED
    BY <2>1, <2>2, <2>3 DEF Ordered, IsRect, Shows, ShowsNext
<1>6. ASSUME NEW s \in Shots PROVE NewEnough(s)'
  <2>1. NewEnough(s)
    BY DEF IInv, Picture
  <2>2. quiet[s] /\ shots[s] = "waiting" =>
          \A i \in 1..Len(down') : Ends(i)' => \A p \in Parts : ShowsNext(p, i, asked[s][p])
    <3> SUFFICES ASSUME quiet[s], shots[s] = "waiting", NEW i \in 1..Len(down'), Ends(i)',
                        NEW p \in Parts
                 PROVE  ShowsNext(p, i, asked[s][p])
      OBVIOUS
    <3>1. i \in 1..Len(down) /\ i \in 0..Len(down)
      BY <1>1, <1>3 DEF Ends, IsRect
    <3>2. Shows(p, i, asked[s][p]) /\ asked[s][p] \in Nat
      BY <1>2, <2>1, <3>1 DEF NewEnough, IInv, Typed, TypeOK
    <3>3. QED
      BY <1>2, <3>1, <3>2
  <2>3. QED
    BY <2>1, <2>2 DEF NewEnough, Shows, ShowsNext, Ends, IsRect
<1>7. QED
  BY <1>2, <1>4, <1>5, <1>6 DEF Picture

LEMMA ServerPaintsPicture ==
  ASSUME IInv, ServerPaints
  PROVE  Picture'
<1> DEFINE n == Cardinality(Due)
           len == Len(down)
<1>1. /\ n \in Nat \ {0} /\ Due \subseteq Parts
      /\ down' \in Seq(Units) /\ Len(down') = len + 1 + n
      /\ \A i \in 1..len : down'[i] = down[i]
      /\ down'[len + 1] = Update(n)
      /\ \A i \in 1..n : \E p \in Due : down'[len + 1 + i] = Rect(p)
      /\ \A p \in Due : \E i \in 1..n : down'[len + 1 + i] = Rect(p)
  BY Painted
<1> HIDE DEF n
<1>2. /\ attached /\ sent' = screen
      /\ UNCHANGED <<frame, state, rects, screen, attached, shots, asked, quiet>>
  BY DEF ServerPaints, session, screenshot
<1>3. /\ len \in Nat
      /\ sent \in [Parts -> Nat] /\ screen \in [Parts -> Nat] /\ frame \in [Parts -> Nat]
      /\ \A i \in 1..len : down[i] \in Units
      /\ \A s \in Shots : asked[s] \in [Parts -> Nat]
  BY Queues DEF IInv, Typed, TypeOK
<1>4. down'[len + 1].kind = "update" /\ down'[len + 1].rects = n
  BY <1>1 DEF Update
<1>5. /\ \A i \in 1..len : i \in 1..Len(down') /\ (IsRect(i)' <=> IsRect(i))
                           /\ (Ends(i)' <=> Ends(i))
      /\ \A i \in 1..len : down[i].kind = "update" =>
           /\ i + down[i].rects <= len
           /\ \A j \in (i + 1)..(i + down[i].rects) : down'[j].kind = "rect"
           /\ down'[i + down[i].rects + 1].kind # "rect"
      /\ \A i \in 2..len : IsRect(i) => down'[i - 1].kind \in {"update", "rect"}
      /\ Following' => Grouped'
      /\ \A i \in 0..len, p \in Parts, a \in Nat : Shows(p, i, a) => ShowsNext(p, i, a)
  <2>1. Len(down') > Len(down)
    BY <1>1, <1>3
  <2>2. QED
    BY <1>1, <1>2, <1>4, <2>1, Followed
<1>6. \A i \in (len + 2)..Len(down') : \E p \in Due : down'[i] = Rect(p)
  <2> SUFFICES ASSUME NEW i \in (len + 2)..Len(down')
               PROVE  \E p \in Due : down'[i] = Rect(p)
    OBVIOUS
  <2>1. i - (len + 1) \in 1..n /\ len + 1 + (i - (len + 1)) = i
    BY <1>1, <1>3
  <2>2. QED
    BY <1>1, <2>1
<1>7. \A i \in (len + 2)..Len(down') :
        down'[i].kind = "rect" /\ down'[i].part \in Due /\ down'[i].content = screen[down'[i].part]
  <2>1. \A p \in Due : Rect(p).kind = "rect" /\ Rect(p).part = p /\ Rect(p).content = screen[p]
    BY DEF Rect
  <2>2. QED
    BY <1>6, <2>1
<1>8. \A i \in 1..Len(down') : i \in 1..len \/ i = len + 1 \/ i \in (len + 2)..Len(down')
  BY <1>1, <1>3
<1> HIDE DEF len
<1>9. Following'
  <2>1. ASSUME NEW i \in 1..Len(down'), down'[i].kind = "update"
        PROVE  /\ i + down'[i].rects <= Len(down')
               /\ \A j \in (i + 1)..(i + down'[i].rects) : down'[j].kind = "rect"
               /\ i + down'[i].rects < Len(down') => down'[i + down'[i].rects + 1].kind # "rect"
    <3>1. CASE i \in 1..len
      <4>1. down'[i] = down[i] /\ down[i] \in Units /\ down[i].kind = "update"
        BY <1>1, <1>3, <2>1, <3>1
      <4>2. down[i].rects \in Nat
        BY <4>1 DEF Units
      <4>3. i + down[i].rects <= Len(down')
        BY <1>1, <1>3, <1>5, <3>1, <4>1, <4>2
      <4>4. QED
        BY <1>5, <3>1, <4>1, <4>3
    <3>2. CASE i = len + 1
      <4>1. down'[i].rects = n /\ i + n = Len(down')
        BY <1>1, <1>3, <1>4, <3>2
      <4>2. \A j \in (i + 1)..(i + n) : j \in (len + 2)..Len(down')
        BY <1>1, <1>3, <3>2
      <4>3. ~(i + n < Len(down')) /\ i + n <= Len(down')
        BY <1>1, <1>3, <4>1
      <4>4. QED
        BY <1>7, <4>1, <4>2, <4>3
    <3>3. CASE i \in (len + 2)..Len(down')
      BY <1>7, <2>1, <3>3
    <3>4. QED
      BY <1>8, <3>1, <3>2, <3>3
  <2>2. ASSUME NEW i \in 2..Len(down'), down'[i].kind = "rect"
        PROVE  down'[i - 1].kind \in {"update", "rect"}
    <3>1. i # len + 1 /\ i \in 1..Len(down')
      BY <1>4, <2>2
    <3>2. CASE i \in 1..len
      <4>1. i \in 2..len /\ IsRect(i)
        BY <1>1, <1>3, <2>2, <3>2 DEF IsRect
      <4>2. QED
        BY <1>5, <4>1
    <3>3. CASE i = len + 2
      <4>1. i - 1 = len + 1
        BY <1>3, <3>3
      <4>2. QED
        BY <1>4, <4>1
    <3>4. CASE i \in (len + 3)..Len(down')
      <4>1. i - 1 \in (len + 2)..Len(down')
        BY <1>1, <1>3, <3>4
      <4>2. QED
        BY <1>7, <4>1
    <3>5. QED
      BY <1>1, <1>3, <3>1, <3>2, <3>3, <3>4
  <2>3. QED
    BY <2>1, <2>2 DEF Following, IsRect
<1>10. \A p \in Parts : ShowsNext(p, Len(down'), screen[p])
  <2> SUFFICES ASSUME NEW p \in Parts PROVE ShowsNext(p, Len(down'), screen[p])
    OBVIOUS
  <2>1. CASE p \in Due
    <3>1. PICK i \in 1..n : down'[len + 1 + i] = Rect(p)
      BY <1>1, <2>1
    <3>2. len + 1 + i \in 1..Len(down')
      BY <1>1, <1>3
    <3>3. Rect(p).kind = "rect" /\ Rect(p).part = p /\ Rect(p).content = screen[p]
      BY DEF Rect
    <3>4. screen[p] >= screen[p]
      BY <1>3
    <3>5. QED
      BY <3>1, <3>2, <3>3, <3>4 DEF ShowsNext
  <2>2. CASE p \notin Due
    <3>1. sent[p] = screen[p]
      BY <2>2 DEF Due
    <3>2. Shows(p, len, screen[p])
      BY <1>2, <3>1 DEF IInv, Picture, Ordered, len
    <3>3. len \in 0..len /\ screen[p] \in Nat /\ 1..len \subseteq 1..Len(down')
      BY <1>1, <1>3
    <3>4. ShowsNext(p, len, screen[p])
      BY <1>5, <3>2, <3>3
    <3>5. QED
      BY <3>3, <3>4 DEF ShowsNext
  <2>3. QED
    BY <2>1, <2>2
<1>11. Ordered'
  <2>1. Ordered
    BY DEF IInv, Picture
  <2>2. ASSUME NEW i \in 1..Len(down'), down'[i].kind = "rect"
        PROVE  /\ frame[down'[i].part] <= down'[i].content
               /\ \A j \in 1..i : down'[j].kind = "rect" /\ down'[j].part = down'[i].part =>
                    down'[j].content <= down'[i].content
               /\ down'[i].content <= screen[down'[i].part]
    <3>1. CASE i \in 1..len
      <4>1. i \in 1..Len(down) /\ IsRect(i) /\ down'[i] = down[i]
        BY <1>1, <2>2, <3>1 DEF IsRect, len
      <4>2. \A j \in 1..i : down'[j] = down[j]
        BY <1>1, <1>3, <3>1
      <4>3. QED
        BY <2>1, <4>1, <4>2 DEF Ordered, IsRect
    <3>2. CASE i \in (len + 2)..Len(down')
      <4>1. down'[i].part \in Parts /\ down'[i].content = screen[down'[i].part]
        BY <1>1, <1>7, <3>2
      <4>2. ASSUME NEW j \in 1..i, down'[j].kind = "rect", down'[j].part = down'[i].part
            PROVE  down'[j].content <= screen[down'[j].part]
        <5>1. CASE j \in 1..len
          BY <1>1, <2>1, <4>2, <5>1 DEF Ordered, IsRect, len
        <5>2. CASE j \notin 1..len
          <6>1. j \in (len + 2)..Len(down')
            BY <1>1, <1>3, <1>4, <1>8, <4>2, <5>2
          <6>2. QED
            BY <1>3, <1>7, <4>1, <4>2, <6>1
        <5>3. QED
          BY <5>1, <5>2
      <4>3. frame[down'[i].part] <= screen[down'[i].part]
            /\ screen[down'[i].part] <= screen[down'[i].part]
        BY <1>3, <2>1, <4>1 DEF Ordered
      <4>4. QED
        BY <4>1, <4>2, <4>3
    <3>3. QED
      BY <1>4, <1>8, <2>2, <3>1, <3>2
  <2>3. \A p \in Parts : screen[p] <= screen[p] /\ frame[p] <= screen[p]
    BY <1>3, <2>1 DEF Ordered
  <2>4. QED
    BY <1>2, <1>10, <2>2, <2>3 DEF Ordered, IsRect, Shows, ShowsNext
<1>12. ASSUME NEW s \in Shots PROVE NewEnough(s)'
  <2>1. NewEnough(s)
    BY DEF IInv, Picture
  <2>2. quiet[s] /\ shots[s] = "waiting" =>
          \A i \in 1..Len(down') : Ends(i)' => \A p \in Parts : ShowsNext(p, i, asked[s][p])
    <3> SUFFICES ASSUME quiet[s], shots[s] = "waiting", NEW i \in 1..Len(down'), Ends(i)',
                        NEW p \in Parts
                 PROVE  ShowsNext(p, i, asked[s][p])
      OBVIOUS
    <3>1. asked[s][p] \in Nat /\ asked[s][p] <= screen[p] /\ screen[p] \in Nat
      BY <1>3, <2>1 DEF NewEnough
    <3>2. CASE i \in 1..len
      <4>1. Ends(i) /\ i \in 1..Len(down) /\ i \in 0..len
        BY <1>3, <1>5, <3>2 DEF len
      <4>2. Shows(p, i, asked[s][p])
        BY <2>1, <4>1 DEF NewEnough
      <4>3. QED
        BY <1>5, <3>1, <4>1, <4>2
    <3>3. CASE i = Len(down')
      <4>1. ShowsNext(p, i, screen[p])
        BY <1>10, <3>3
      <4>2. CASE frame'[p] >= screen[p]
        BY <1>2, <1>3, <3>1, <4>2 DEF ShowsNext
      <4>3. CASE ~(frame'[p] >= screen[p])
        <5>1. PICK j \in 1..i : /\ down'[j].kind = "rect" /\ down'[j].part = p
                                /\ down'[j].content >= screen[p]
          BY <4>1, <4>3 DEF ShowsNext
        <5>2. down'[j] \in Units
          BY <1>1, <3>3
        <5>3. down'[j].content \in Nat
          BY <5>1, <5>2 DEF Units
        <5>4. down'[j].content >= asked[s][p]
          BY <3>1, <5>1, <5>3
        <5>5. QED
          BY <5>1, <5>4 DEF ShowsNext
      <4>4. QED
        BY <4>2, <4>3
    <3>4. CASE i \notin 1..len /\ i # Len(down')
      <4>1. i # len + 1
        BY <1>4 DEF Ends, IsRect
      <4>2. i + 1 \in (len + 2)..Len(down') /\ i < Len(down')
        BY <1>1, <1>3, <1>8, <3>4, <4>1
      <4>3. down'[i + 1].kind = "rect"
        BY <1>7, <4>2
      <4>4. QED
        BY <4>2, <4>3 DEF Ends, IsRect
    <3>5. QED
      BY <3>2, <3>3, <3>4
  <2>3. QED
    BY <1>2, <2>1, <2>2 DEF NewEnough, Shows, ShowsNext, Ends, IsRect
<1>13. QED
  BY <1>5, <1>9, <1>11, <1>12 DEF Picture

(* The screen is changed, or a screenshot begins or ends.                  *)
LEMMA GuestChangesPicture ==
  ASSUME IInv, NEW p \in Parts, GuestChanges(p)
  PROVE  Picture'
<1> USE DEF GuestChanges, session, screenshot
<1>1. /\ UNCHANGED <<down, frame, state, rects, sent, attached, shots, asked, quiet>>
      /\ screen' \in [Parts -> Nat] /\ screen \in [Parts -> Nat]
      /\ \A q \in Parts : screen[q] <= screen'[q]
  BY DEF IInv, Typed, TypeOK
<1>2. Grouped'
  BY <1>1 DEF IInv, Picture, Grouped, Following, IsRect, Ends
<1>3. \A i \in 1..Len(down) : IsRect(i) => down[i].part \in Parts /\ down[i].content \in Nat
  <2>1. \A i \in 1..Len(down) : down[i] \in Units
    BY Queues DEF IInv, Typed
  <2>2. QED
    BY <2>1 DEF IsRect, Units
<1>4. Ordered'
  <2>1. Ordered /\ sent \in [Parts -> Nat] /\ frame \in [Parts -> Nat]
    BY DEF IInv, Picture, Typed, TypeOK
  <2>2. \A q \in Parts : sent[q] <= screen'[q] /\ frame[q] <= screen'[q]
    BY <1>1, <2>1 DEF Ordered
  <2>3. \A i \in 1..Len(down) : IsRect(i) => down[i].content <= screen'[down[i].part]
    BY <1>1, <1>3, <2>1 DEF Ordered
  <2>4. QED
    BY <1>1, <2>1, <2>2, <2>3 DEF Ordered, Shows, IsRect
<1>5. ASSUME NEW s \in Shots PROVE NewEnough(s)'
  <2>1. NewEnough(s) /\ asked[s] \in [Parts -> Nat]
    BY DEF IInv, Picture, Typed, TypeOK
  <2>2. shots[s] \in {"waiting", "woken"} => \A q \in Parts : asked[s][q] <= screen'[q]
    BY <1>1, <2>1 DEF NewEnough
  <2>3. QED
    BY <1>1, <2>1, <2>2 DEF NewEnough, Shows, IsRect, Ends
<1>6. QED
  BY <1>2, <1>4, <1>5 DEF Picture

LEMMA ShotPicture ==
  ASSUME IInv, NEW s \in Shots, AskFresh(s) \/ ShotTimeout(s) \/ Encode(s)
  PROVE  Picture'
<1> USE DEF session, server
<1>1. UNCHANGED <<down, frame, state, rects, screen, sent, attached>>
  BY DEF AskFresh, ShotTimeout, Encode
<1>2. Grouped' /\ Ordered'
  BY <1>1 DEF IInv, Picture, Grouped, Following, Ordered, Shows, IsRect, Ends
<1>3. ASSUME NEW t \in Shots, t # s PROVE NewEnough(t)'
  <2>1. UNCHANGED <<shots[t], asked[t], quiet[t]>>
    BY <1>3 DEF AskFresh, ShotTimeout, Encode, IInv, Typed, TypeOK
  <2>2. NewEnough(t)
    BY DEF IInv, Picture
  <2>3. QED
    BY <1>1, <2>1, <2>2 DEF NewEnough, Shows, IsRect, Ends
<1>4. NewEnough(s)'
  <2>1. NewEnough(s) /\ shots[s] \in {"new", "waiting", "woken", "fresh", "stale", "failed"}
    BY DEF IInv, Picture, Typed, TypeOK
  <2>2. CASE AskFresh(s) /\ attached
    <3> DEFINE now == down = <<>> /\ state = "message"
    <3>1. /\ shots' = [shots EXCEPT ![s] = "waiting"] /\ asked' = [asked EXCEPT ![s] = screen]
          /\ quiet' = [quiet EXCEPT ![s] = now] /\ now \in BOOLEAN
      BY <2>2 DEF AskFresh
    <3>2. now => Len(down) = 0
      OBVIOUS
    <3> HIDE DEF now
    <3>3. shots'[s] = "waiting" /\ asked'[s] = screen /\ (quiet'[s] => Len(down) = 0)
      BY <3>1, <3>2 DEF IInv, Typed, TypeOK
    <3>4. \A p \in Parts : screen[p] <= screen[p]
      BY DEF IInv, Typed, TypeOK
    <3>5. quiet'[s] => \A i \in 1..Len(down) : FALSE
      BY <3>3
    <3>6. QED
      BY <1>1, <3>3, <3>4, <3>5 DEF NewEnough
  <2>3. CASE (AskFresh(s) /\ ~attached) \/ ShotTimeout(s)
    <3>1. shots'[s] = "failed"
      BY <2>3 DEF AskFresh, ShotTimeout, IInv, Typed, TypeOK
    <3>2. QED
      BY <3>1 DEF NewEnough
  <2>4. CASE Encode(s)
    <3>1. quiet[s] => \A p \in Parts : frame[p] >= asked[s][p]
      BY <2>1, <2>4 DEF NewEnough, Encode
    <3>2. shots'[s] \in {"fresh", "stale"} /\ (quiet[s] => shots'[s] = "fresh")
      BY <2>4, <3>1 DEF Encode, IInv, Typed, TypeOK
    <3>3. quiet' = quiet
      BY <2>4 DEF Encode
    <3>4. QED
      BY <3>2, <3>3 DEF NewEnough
  <2>5. QED
    BY <2>2, <2>3, <2>4
<1>5. QED
  BY <1>2, <1>3, <1>4 DEF Picture

-----------------------------------------------------------------------------
(* The invariant, step by step.                                            *)

LEMMA InitIInv ==
  ASSUME Init PROVE IInv
<1> USE DEF Init
<1>1. Typed
  <2>1. IsFiniteSet(held)
    BY FS_EmptySet
  <2>2. QED
    BY <2>1 DEF Typed, TypeOK
<1>2. Picture
  BY DEF Picture, Grouped, Following, Ordered, NewEnough, Shows
<1>3. NoStuckKeys
  BY DEF NoStuckKeys
<1>4. QED
  BY <1>1, <1>2, <1>3 DEF IInv, Life, NobodyLeftWaiting

LEMMA FailIInv ==
  ASSUME IInv, Fail, attached PROVE IInv'
<1>1. NoStuckKeys'
  BY DEF Fail, NoStuckKeys
<1>2. Picture'
  BY TeardownPicture DEF Fail, server
<1>3. QED
  BY <1>1, <1>2, FailSession DEF IInv

LEMMA EndsIInv ==
  ASSUME IInv, HandshakeTimeout \/ SocketError \/ SocketCloses \/ Close PROVE IInv'
<1>1. CASE HandshakeTimeout \/ SocketError
  <2>1. attached
    BY <1>1 DEF HandshakeTimeout, SocketError, IInv, NobodyLeftWaiting, Typed, TypeOK
  <2>2. QED
    BY <1>1, <2>1, FailIInv DEF HandshakeTimeout, SocketError
<1>2. CASE SocketCloses
  <2>1. NoStuckKeys'
    BY <1>2 DEF SocketCloses, Teardown, NoStuckKeys
  <2>2. Picture'
    BY <1>2, TeardownPicture DEF SocketCloses
  <2>3. QED
    BY <1>2, <2>1, <2>2, SocketClosesSession DEF IInv
<1>3. CASE Close
  <2>1. up' \in Seq(Frames)
    <3>1. CASE sock = "open"
      BY <1>3, <3>1, Released DEF Close
    <3>2. CASE sock # "open"
      <4>1. up' = up \o <<>> /\ up \in Seq(Frames)
        BY <1>3, <3>2 DEF Close, ReleaseKeys, IInv, Typed
      <4>2. QED
        BY <4>1
    <3>3. QED
      BY <3>1, <3>2
  <2>2. Picture'
    BY <1>3, TeardownPicture DEF Close, server
  <2>3. QED
    BY <1>3, <2>1, <2>2, CloseSession, CloseKeys DEF IInv
<1>4. QED
  BY <1>1, <1>2, <1>3

LEMMA ReplyIInv ==
  ASSUME IInv, NEW s \in {"version", "security-types", "challenge", "security-result"},
         NEW kind \in {"version", "types", "challenge", "granted"},
         NEW answer \in {"version", "vnc", "none", "response", "clientinit"},
         NEW next \in {"security-types", "challenge", "security-result", "server-init"},
         Reply(s, kind, answer, next)
  PROVE  IInv'
<1> USE DEF Reply, Unit, Consume
<1>1. Typed' /\ Life' /\ NobodyLeftWaiting'
  BY ReplySession
<1>2. NoStuckKeys'
  BY KeysKeptByRequest DEF server
<1>3. Picture'
  <2>1. down[1].kind \notin {"rect", "update"}
    BY AtHead
  <2>2. QED
    BY <2>1, ReplyPicture DEF server
<1>4. QED
  BY <1>1, <1>2, <1>3 DEF IInv

LEMMA ReadIInv ==
  ASSUME IInv, Read PROVE IInv'
<1>1. CASE ReadVersion \/ ReadChallenge \/ ReadSecurityResult
  BY <1>1, ReplyIInv DEF ReadVersion, ReadChallenge, ReadSecurityResult
<1>2. CASE ReadSecurityTypes
  <2>1. attached
    BY <1>2, AtHead DEF ReadSecurityTypes, Unit
  <2>2. PICK password \in BOOLEAN :
          LET choice == Choice(Head(down).offers, password) IN
          IF choice = "unusable"
          THEN Fail
          ELSE Reply("security-types", "types", choice,
                     IF choice = "vnc" THEN "challenge" ELSE "security-result")
    BY <1>2 DEF ReadSecurityTypes
  <2> DEFINE choice == Choice(Head(down).offers, password)
  <2>3. choice \in {"vnc", "none", "unusable"}
    BY DEF Choice
  <2>4. CASE choice = "unusable"
    BY <2>1, <2>2, <2>4, FailIInv
  <2>5. CASE choice = "vnc"
    BY <2>2, <2>5, ReplyIInv
  <2>6. CASE choice = "none"
    BY <2>2, <2>6, ReplyIInv
  <2>7. QED
    BY <2>3, <2>4, <2>5, <2>6
<1>3. CASE ReadServerInit
  <2>1. /\ chunk > 0 /\ down' = Tail(down) /\ Head(down).kind = "init"
        /\ state = "server-init" /\ state' = "message" /\ up' = Append(up, Plain("full"))
        /\ UNCHANGED <<sock, attached, ended, held, frame, screen, sent, pressed, screenshot>>
    BY <1>3 DEF ReadServerInit, Unit, Consume, server
  <2>2. NoStuckKeys'
    BY <2>1, KeysKeptByRequest
  <2>3. Picture'
    <3>1. down[1].kind = "init"
      BY <2>1, AtHead
    <3>2. QED
      BY <2>1, <3>1, ReplyPicture
  <2>4. QED
    BY <1>3, <2>2, <2>3, ReadServerInitSession DEF IInv
<1>4. CASE ReadUpdate
  <2>1. /\ up' = up \/ up' = Append(up, Plain("inc"))
        /\ UNCHANGED <<sock, ended, held, pressed>>
    BY <1>4 DEF ReadUpdate, NextRequest, server
  <2>2. NoStuckKeys'
    <3>1. CASE up' = up
      BY <2>1, <3>1, KeysKept
    <3>2. CASE up' = Append(up, Plain("inc"))
      BY <2>1, <3>2, KeysKeptByRequest
    <3>3. QED
      BY <2>1, <3>1, <3>2
  <2>3. QED
    BY <1>4, <2>2, ReadUpdateSession, ReadUpdatePicture DEF IInv
<1>5. CASE ReadRectangle
  <2>1. /\ up' = up \/ up' = Append(up, Plain("inc"))
        /\ UNCHANGED <<sock, ended, held, pressed>>
    BY <1>5 DEF ReadRectangle, NextRequest, server
  <2>2. NoStuckKeys'
    <3>1. CASE up' = up
      BY <2>1, <3>1, KeysKept
    <3>2. CASE up' = Append(up, Plain("inc"))
      BY <2>1, <3>2, KeysKeptByRequest
    <3>3. QED
      BY <2>1, <3>1, <3>2
  <2>3. QED
    BY <1>5, <2>2, ReadRectangleSession, ReadRectanglePicture DEF IInv
<1>6. CASE ReadBad
  BY <1>6, AtHead, FailIInv DEF ReadBad
<1>7. QED
  BY <1>1, <1>2, <1>3, <1>4, <1>5, <1>6 DEF Read

LEMMA UserIInv ==
  ASSUME IInv,
         \/ \E n \in 1..Len(down) : Deliver(n)
         \/ \E k \in Keys : KeyDown(k) \/ KeyUp(k) \/ Press(k)
         \/ \E s \in Shots : AskFresh(s) \/ ShotTimeout(s) \/ Encode(s)
  PROVE  IInv'
<1>1. CASE \E n \in 1..Len(down) : Deliver(n)
  <2>1. PICK n \in 1..Len(down) : Deliver(n)
    BY <1>1
  <2>2. NoStuckKeys'
    BY <2>1, KeysKept DEF Deliver, session, server
  <2>3. Picture'
    BY <2>1, PictureKept DEF Deliver, session, server, IInv
  <2>4. QED
    BY <2>1, <2>2, <2>3, DeliverSession DEF IInv
<1>2. CASE \E k \in Keys : KeyDown(k) \/ KeyUp(k) \/ Press(k)
  <2>1. PICK k \in Keys : KeyDown(k) \/ KeyUp(k) \/ Press(k)
    BY <1>2
  <2>2. Picture'
    BY <2>1, PictureKept DEF KeyDown, KeyUp, Press, session, server, IInv
  <2>3. QED
    BY <2>1, <2>2, KeyboardSession, KeyboardKeys DEF IInv
<1>3. CASE \E s \in Shots : AskFresh(s) \/ ShotTimeout(s) \/ Encode(s)
  <2>1. PICK s \in Shots : AskFresh(s) \/ ShotTimeout(s) \/ Encode(s)
    BY <1>3
  <2>2. Picture'
    BY <2>1, ShotPicture
  <2>3. NoStuckKeys'
    <3>1. UNCHANGED <<sock, ended, held, pressed>>
      BY <2>1 DEF AskFresh, ShotTimeout, Encode, session, server
    <3>2. up' = up \/ up' = Append(up, Plain("full"))
      BY <2>1 DEF AskFresh, ShotTimeout, Encode
    <3>3. CASE up' = up
      BY <3>1, <3>3, KeysKept
    <3>4. CASE up' = Append(up, Plain("full"))
      BY <3>1, <3>4, KeysKeptByRequest
    <3>5. QED
      BY <3>2, <3>3, <3>4
  <2>4. QED
    BY <2>1, <2>2, <2>3, AskFreshSession, ShotEndsSession DEF IInv
<1>4. QED
  BY <1>1, <1>2, <1>3

LEMMA ServerIInv ==
  ASSUME IInv,
         \/ SocketOpens \/ ServerReads \/ ServerPaints \/ ServerPaintsNothing
         \/ ServerBreaks \/ \E p \in Parts : GuestChanges(p)
  PROVE  IInv'
<1>1. CASE SocketOpens
  <2>1. down = <<>> /\ down' = Append(down, Plain("version"))
    BY <1>1 DEF SocketOpens, IInv, Life
  <2>2. Plain("version") \in Units /\ Plain("version").kind = "version"
    BY PlainUnits
  <2>3. Picture'
    BY <1>1, <2>1, <2>2, AppendPicture DEF SocketOpens, session, server
  <2>4. QED
    BY <1>1, <2>3, SocketOpensSession, SocketOpensKeys DEF IInv
<1>2. CASE ServerReads
  <2>1. /\ UNCHANGED <<frame, state, rects, screen, sent, attached, screenshot>>
        /\ down' = down \/ \E a \in Answers(Head(up)) : down' = Append(down, a)
    BY <1>2 DEF ServerReads, session
  <2>2. Picture'
    <3>1. CASE down' = down
      BY <2>1, <3>1, PictureKept DEF IInv
    <3>2. CASE \E a \in Answers(Head(up)) : down' = Append(down, a)
      <4>1. PICK a \in Answers(Head(up)) : down' = Append(down, a)
        BY <3>2
      <4>2. a \in Units /\ a.kind \notin {"update", "rect"}
        BY AnswersAreUnits
      <4>3. QED
        BY <2>1, <4>1, <4>2, AppendPicture
    <3>3. QED
      BY <2>1, <3>1, <3>2
  <2>3. QED
    BY <1>2, <2>2, ServerReadsSession, ServerReadsKeys DEF IInv
<1>3. CASE ServerPaints \/ ServerPaintsNothing \/ ServerBreaks
  <2>1. NoStuckKeys'
    <3>1. UNCHANGED <<sock, ended, held, up, pressed>>
      BY <1>3 DEF ServerPaints, ServerPaintsNothing, ServerBreaks, session, server
    <3>2. QED
      BY <3>1, KeysKept
  <2>2. Picture'
    <3>1. CASE ServerPaintsNothing
      <4>1. Update(0) \in Units /\ Update(0).kind = "update" /\ Update(0).rects = 0
        BY DEF Update, Units
      <4>2. down' = Append(down, Update(0))
        BY <3>1 DEF ServerPaintsNothing
      <4>3. QED
        BY <3>1, <4>1, <4>2, AppendPicture DEF ServerPaintsNothing, session
    <3>2. CASE ServerBreaks
      <4>1. Plain("garbage") \in Units /\ Plain("garbage").kind = "garbage"
        BY PlainUnits
      <4>2. QED
        BY <3>2, <4>1, AppendPicture DEF ServerBreaks, session, server
    <3>3. QED
      BY <1>3, <3>1, <3>2, ServerPaintsPicture
  <2>3. QED
    BY <1>3, <2>1, <2>2, ServerWritesSession DEF IInv
<1>4. CASE \E p \in Parts : GuestChanges(p)
  <2>1. PICK p \in Parts : GuestChanges(p)
    BY <1>4
  <2>2. NoStuckKeys'
    BY <2>1, KeysKept DEF GuestChanges, session
  <2>3. QED
    BY <2>1, <2>2, GuestChangesSession, GuestChangesPicture DEF IInv
<1>5. QED
  BY <1>1, <1>2, <1>3, <1>4

LEMMA NextIInv ==
  ASSUME IInv, [Next]_vars PROVE IInv'
<1>1. CASE Next
  BY <1>1, EndsIInv, ReadIInv, UserIInv, ServerIInv DEF Next
<1>2. CASE UNCHANGED vars
  <2> USE DEF vars, session, screenshot, server
  <2>1. Picture'
    BY <1>2, PictureKept DEF IInv
  <2>2. NoStuckKeys'
    BY <1>2, KeysKept
  <2>3. Typed' /\ Life' /\ NobodyLeftWaiting'
    BY <1>2 DEF IInv, Typed, TypeOK, Life, NobodyLeftWaiting
  <2>4. QED
    BY <2>1, <2>2, <2>3 DEF IInv
<1>3. QED
  BY <1>1, <1>2

LEMMA Invariance == Spec => []IInv
BY InitIInv, NextIInv, PTL DEF Spec

-----------------------------------------------------------------------------
(* What holds for any keys, parts and screenshots.                         *)

(* 'close' is emitted when the session ends and once, although a close() or *)
(* an error is followed by the event of the socket it closed; rectangles   *)
(* are awaited exactly in the state for them.                              *)
THEOREM TypeCorrect == Spec => []TypeOK
<1>1. IInv => TypeOK
  BY DEF IInv, Typed
<1>2. QED
  BY <1>1, Invariance, PTL

(* Neither the caller of attach() nor a screenshot waits for a session that *)
(* ended, whichever way it ended.                                          *)
THEOREM NobodyLeft == Spec => []NobodyLeftWaiting
<1>1. IInv => NobodyLeftWaiting
  BY DEF IInv
<1>2. QED
  BY <1>1, Invariance, PTL

(* What is down at the guest once all frames have arrived is held by the   *)
(* session: a close() gives every key back, although press() does not      *)
(* remember its keys and the frames of several calls are under way.        *)
THEOREM KeysReturned == Spec => []NoStuckKeys
<1>1. IInv => NoStuckKeys
  BY DEF IInv
<1>2. QED
  BY <1>1, Invariance, PTL

(* A screenshot asked for while no update was under way shows no part of   *)
(* the screen as it was before, however the updates are cut into chunks.   *)
THEOREM QuietIsFresh == Spec => []FreshWhenQuiet
<1>1. IInv => FreshWhenQuiet
  BY DEF IInv, Picture, NewEnough, FreshWhenQuiet
<1>2. QED
  BY <1>1, Invariance, PTL

=============================================================================
