---------------------------- MODULE TermproxyProofs ----------------------------
(* Theorems about Termproxy, for any commands and any number of them: while*)
(* no run gives up unheard, a result is its own command's and a ^C reaches *)
(* nobody else's.                                                          *)
EXTENDS Termproxy, FiniteSetTheorems, TLAPS

(* What travels to the shell, and what it prints.                          *)
Frames == [kind : {"login", "line", "intr"}, of : Runs]
Printed == {"BEGIN", "ERR", "END", "flood"}
Marks == [kind : {"OK", "ask"}, of : {Probe}] \cup [kind : Printed, of : Runs]

Typed ==
  /\ TypeOK
  /\ up \in Seq(Frames) /\ down \in Seq(Marks) /\ buffer \in Seq(Marks)
  /\ lines \in Seq(Runs) /\ queue \in Seq(Commands)

(* How far connect() came, and what that says of the websocket, the waiter *)
(* and the shell.                                                          *)
Life ==
  /\ stage = "opening" <=> sock = "connecting"
  /\ Connecting => attached /\ sock \in {"connecting", "open"} /\ ~failure
  /\ attached /\ ~failure => sock \in {"connecting", "open"}
  /\ ~attached \/ failure => sock \in {"closing", "closed"}
  /\ sock = "closed" => up = <<>> /\ down = <<>> /\ failure
  /\ stage \in {"opening", "failed"} => waiter = None
  /\ stage = "login" <=> waiter = Login
  /\ stage = "probe" <=> waiter = Probe
  /\ stage # "ready" => \A c \in Commands : pc[c] = "new"
  /\ fg = None => next \in {"BEGIN", "ask"}
  /\ fg # None => next # "ask"

(* Until the session is ready there is nothing in it but the login and the *)
(* probe; the login is over before the probe is sent.                      *)
OnlyProbe ==
  stage # "ready" =>
    /\ \A s \in {up, buffer, down} : \A i \in 1..Len(s) : s[i].of = Probe
    /\ \A i \in 1..Len(lines) : lines[i] = Probe
    /\ fg \in {None, Probe} /\ killed \subseteq {Probe}
BeforeProbe ==
  stage \in {"opening", "login"} =>
    /\ up = <<>> \/ (up = <<Frame("login", Probe)>> /\ buffer = <<>> /\ down = <<>>)
    /\ stage = "opening" => buffer = <<>> /\ down = <<>>
    /\ \A s \in {buffer, down} : \A i \in 1..Len(s) : s[i].kind \in {"OK", "ask"}
    /\ lines = <<>> /\ fg = None
LoginFirst ==
  \A i \in 1..Len(up) : up[i].kind = "login" =>
    i = 1 /\ stage \in {"login", "failed"} /\ lines = <<>> /\ fg = None
Opening == OnlyProbe /\ BeforeProbe /\ LoginFirst

(* A ^C for the probe is the last thing connect() sends.                   *)
ProbeCut ==
  \A i \in 1..Len(up) : up[i].kind = "intr" /\ up[i].of = Probe => stage = "failed"

(* Nothing anywhere is of a run that has not started.                      *)
Unknown(c) ==
  /\ \A s \in {up, buffer, down} : \A i \in 1..Len(s) : s[i].of # c
  /\ \A i \in 1..Len(lines) : lines[i] # c
  /\ fg # c /\ c \notin killed
NotYet == \A c \in Commands : pc[c] \in {"new", "queued"} /\ waiter # c => Unknown(c)

(* An interrupt finds the shell with the command it is for, or idle.       *)
Aimed ==
  \A i \in 1..Len(up) : up[i].kind = "intr" /\ up[i].of \in Commands =>
    i = 1 /\ lines = <<>> /\ fg \in {None, up[i].of} /\ pc[up[i].of] = "timeout"

(* The marks that the client has not consumed.                             *)
Flight == buffer \o down
NoneOf(x) == \A i \in 1..Len(Flight) : Flight[i].of = x => Flight[i].kind \notin Printed
NoBegin(s) == \A i \in 1..Len(s) : s[i].kind # "BEGIN"

(* The shell prints on for an earlier command at most, one that has begun. *)
Trailing == fg # None => next \in {"ERR", "END"}

(* The line of x has not come to the shell: what is printed until then is  *)
(* the rest of earlier commands.                                           *)
Ahead(x) ==
  /\ \/ up = <<Frame("line", x)>> /\ lines = <<>>
     \/ /\ Len(up) = 2 /\ up[1].kind = "intr" /\ up[2] = Frame("line", x)
        /\ lines = <<>>
     \/ up = <<>> /\ lines = <<x>>
  /\ fg # x /\ Trailing /\ NoBegin(Flight) /\ NoneOf(x)

(* Only marks of x are behind the mark that begins x's output, which comes *)
(* once and before all others of x.                                        *)
Framed(x) ==
  /\ \A i \in 1..Len(Flight) : Flight[i].kind = "BEGIN" =>
       \A j \in 1..Len(Flight) :
         /\ j >= i => Flight[j].of = x
         /\ Flight[j].kind = "BEGIN" => j = i
  /\ \A i \in 1..Len(Flight) : Flight[i].of = x /\ Flight[i].kind \in Printed =>
       \E j \in 1..i : Flight[j].kind = "BEGIN"

(* The shell runs x, or is through with it.                                *)
Inside(x) ==
  /\ up = <<>> /\ lines = <<>> /\ fg \in {x, None} /\ Framed(x)
  /\ fg = x =>
       /\ next = "BEGIN" <=> NoBegin(Flight)
       /\ \A i \in 1..Len(Flight) : Flight[i].of = x => Flight[i].kind # "END"
  /\ fg = None => \A i \in 1..Len(Flight) :
       Flight[i].of = x /\ Flight[i].kind = "END" => i = Len(Flight)

(* Between two runs: what an interrupted command prints on has no mark that *)
(* begins a command's output.                                              *)
Between ==
  /\ up = <<>> \/ (Len(up) = 1 /\ up[1].kind = "intr")
  /\ lines = <<>> /\ Trailing /\ NoBegin(down)

Underway ==
  /\ \A x \in Runs : waiter = x => Ahead(x) \/ Inside(x)
  /\ waiter = None /\ stage = "ready" /\ ~failure => Between

Heard == AllHeard => Aimed /\ Underway

IInv ==
  /\ Typed /\ Life /\ Opening /\ ProbeCut /\ NotYet /\ Heard
  /\ ResultIsOwnOnceHeard /\ InterruptHitsItsOwn

-----------------------------------------------------------------------------
(* Sequences.                                                              *)

(* Every nonempty set of numbers has a least one, which Min chooses.       *)
LEMMA Least ==
  ASSUME NEW S, S \subseteq Nat, S # {}
  PROVE  Min(S) \in S /\ \A n \in S : Min(S) <= n
<1> DEFINE R == OpToRel(<, Nat)
<1>1. IsWellFoundedOn(R, Nat)
  BY NatLessThanWellFounded
<1>2. \A m, n \in Nat : m < n => <<m, n>> \in R
  BY DEF OpToRel
<1> HIDE DEF R
<1>3. PICK m \in S : \A n \in S : ~(<<n, m>> \in R)
  BY <1>1, WFMin
<1>4. ASSUME NEW n \in S PROVE m <= n
  <2>1. m \in Nat /\ n \in Nat /\ ~(n < m)
    BY <1>2, <1>3, Zenon
  <2>2. QED
    BY ONLY <2>1
<1>5. QED
  BY <1>3, <1>4 DEF Min

(* The first mark of a kind, from a place on.                              *)
LEMMA FirstMark ==
  ASSUME NEW s, Len(s) \in Nat, NEW kind, NEW from \in Nat
  PROVE  /\ IndexOf(s, kind, from) \in Nat
         /\ IndexOf(s, kind, from) # 0 =>
              /\ from # 0 /\ IndexOf(s, kind, from) \in from..Len(s)
              /\ s[IndexOf(s, kind, from)].kind = kind
              /\ \A i \in from..Len(s) : s[i].kind = kind => IndexOf(s, kind, from) <= i
         /\ IndexOf(s, kind, from) = 0 =>
              from = 0 \/ \A i \in from..Len(s) : s[i].kind # kind
<1> DEFINE at == {i \in from..Len(s) : s[i].kind = kind}
<1>1. at \subseteq Nat
  OBVIOUS
<1>2. at # {} => Min(at) \in at /\ \A n \in at : Min(at) <= n
  BY <1>1, Least
<1>3. IndexOf(s, kind, from) = IF from = 0 \/ at = {} THEN 0 ELSE Min(at)
  BY DEF IndexOf
<1>4. \A i \in at : i \in from..Len(s) /\ s[i].kind = kind
  OBVIOUS
<1>5. \A i \in from..Len(s) : s[i].kind = kind => i \in at
  OBVIOUS
<1> HIDE DEF at
<1>6. CASE from = 0 \/ at = {}
  BY <1>3, <1>5, <1>6
<1>7. CASE ~(from = 0 \/ at = {})
  <2>1. Min(at) \in at /\ \A n \in at : Min(at) <= n
    BY <1>2, <1>7
  <2>2. Min(at) \in from..Len(s) /\ s[Min(at)].kind = kind /\ Min(at) # 0
    BY <1>4, <1>7, <2>1
  <2>3. QED
    BY <1>3, <1>5, <1>7, <2>1, <2>2
<1>8. QED
  BY <1>6, <1>7

LEMMA Joined ==
  ASSUME NEW S, NEW q \in Seq(S), NEW r \in Seq(S)
  PROVE  /\ q \o r \in Seq(S) /\ Len(q \o r) = Len(q) + Len(r)
         /\ Len(q) \in Nat /\ Len(r) \in Nat
         /\ \A i \in 1..Len(q) : (q \o r)[i] = q[i]
         /\ \A i \in 1..Len(r) : (q \o r)[Len(q) + i] = r[i]
         /\ \A i \in 1..Len(q \o r) : (q \o r)[i] = IF i <= Len(q) THEN q[i] ELSE r[i - Len(q)]
OBVIOUS

LEMMA Queues ==
  ASSUME NEW S, NEW q \in Seq(S)
  PROVE  /\ Len(q) \in Nat /\ \A i \in 1..Len(q) : q[i] \in S
         /\ q = <<>> <=> Len(q) = 0
         /\ \A x \in S : /\ Append(q, x) \in Seq(S) /\ Len(Append(q, x)) = Len(q) + 1
                         /\ Append(q, x)[Len(q) + 1] = x
                         /\ \A i \in 1..Len(q) : Append(q, x)[i] = q[i]
         /\ q # <<>> => /\ Head(q) = q[1] /\ Tail(q) \in Seq(S) /\ Len(Tail(q)) = Len(q) - 1
                       /\ \A i \in 1..(Len(q) - 1) : Tail(q)[i] = q[i + 1]
OBVIOUS

LEMMA SameSequence ==
  ASSUME NEW S, NEW q \in Seq(S), NEW r \in Seq(S), Len(q) = Len(r),
         \A i \in 1..Len(q) : q[i] = r[i]
  PROVE  q = r
OBVIOUS

Cat(q, r) == q \o r
Moved(b, d, n) == b \o SubSeq(d, 1, n)
Rest(d, n) == SubSeq(d, n + 1, Len(d))

(* A chunk of n marks is moved to the buffer.                              *)
LEMMA Cut ==
  ASSUME NEW S, NEW b \in Seq(S), NEW d \in Seq(S), NEW n \in 1..Len(d)
  PROVE  /\ Moved(b, d, n) \in Seq(S)
         /\ Len(Moved(b, d, n)) = Len(b) + n
         /\ Rest(d, n) \in Seq(S)
         /\ Len(Rest(d, n)) = Len(d) - n
         /\ \A i \in 1..(Len(d) - n) : Rest(d, n)[i] = d[n + i]
         /\ Cat(Moved(b, d, n), Rest(d, n)) = Cat(b, d)
<1> DEFINE h == SubSeq(d, 1, n)
           r == SubSeq(d, n + 1, Len(d))
<1>1. /\ h \in Seq(S) /\ Len(h) = n /\ \A i \in 1..n : h[i] = d[i]
  OBVIOUS
<1>2. /\ r \in Seq(S) /\ Len(r) = Len(d) - n /\ \A i \in 1..(Len(d) - n) : r[i] = d[n + i]
  OBVIOUS
<1> HIDE DEF h, r
<1>3. b \o h \in Seq(S) /\ Len(b \o h) = Len(b) + n
  BY <1>1, Joined
<1>4. (b \o h) \o r = b \o d
  <2>1. (b \o h) \o r \in Seq(S) /\ b \o d \in Seq(S)
    BY <1>2, <1>3, Joined
  <2>2. Len((b \o h) \o r) = Len(b \o d)
    <3>1. Len((b \o h) \o r) = (Len(b) + n) + (Len(d) - n) /\ Len(b \o d) = Len(b) + Len(d)
      <4>1. Len((b \o h) \o r) = Len(b \o h) + Len(r)
        BY ONLY <1>2, <1>3, Joined
      <4>2. Len(b \o d) = Len(b) + Len(d)
        OBVIOUS
      <4>3. QED
        BY ONLY <1>2, <1>3, <4>1, <4>2
    <3>2. Len(b) \in Nat /\ Len(d) \in Nat
      OBVIOUS
    <3>3. QED
      BY ONLY <3>1, <3>2, n \in 1..Len(d)
  <2>3. ASSUME NEW i \in 1..Len(b \o d) PROVE ((b \o h) \o r)[i] = (b \o d)[i]
    <3>1. Len(b \o d) = Len(b) + Len(d) /\ Len(b) \in Nat /\ Len(d) \in Nat
      BY Joined
    <3>2. CASE i <= Len(b)
      <4>1. (b \o d)[i] = b[i] /\ (b \o h)[i] = b[i] /\ i \in 1..Len(b \o h)
        BY <1>1, <1>3, <3>1, <3>2, Joined
      <4>2. QED
        BY <1>2, <1>3, <4>1, Joined
    <3>3. CASE i > Len(b) /\ i <= Len(b) + n
      <4>1. i - Len(b) \in 1..n /\ i - Len(b) \in 1..Len(d) /\ Len(b) + (i - Len(b)) = i
        BY <3>1, <3>3
      <4>2. (b \o d)[i] = d[i - Len(b)]
        BY <4>1, Joined
      <4>3. (b \o h)[i] = h[i - Len(b)]
        BY <1>1, <4>1, Joined
      <4>4. i \in 1..Len(b \o h)
        BY <1>3, <3>1, <3>3
      <4>5. ((b \o h) \o r)[i] = (b \o h)[i]
        BY <1>2, <1>3, <4>4, Joined
      <4>6. QED
        BY <1>1, <4>1, <4>2, <4>3, <4>5
    <3>4. CASE i > Len(b) + n
      <4>1. /\ i - (Len(b) + n) \in 1..Len(r) /\ Len(b \o h) + (i - (Len(b) + n)) = i
            /\ n + (i - (Len(b) + n)) = i - Len(b)
            /\ i - Len(b) \in 1..Len(d) /\ Len(b) + (i - Len(b)) = i
        <5>1. i \in 1..(Len(b) + Len(d)) /\ n \in 1..Len(d)
          BY <3>1
        <5>2. QED
          BY ONLY <1>2, <1>3, <3>1, <3>4, <5>1
      <4>2. (b \o d)[i] = d[i - Len(b)]
        BY <4>1, Joined
      <4>3. ((b \o h) \o r)[i] = r[i - (Len(b) + n)]
        BY <1>2, <1>3, <4>1, Joined
      <4>4. QED
        BY <1>2, <4>1, <4>2, <4>3
    <3>5. i \in Nat
      BY <3>1
    <3>6. i <= Len(b) \/ (i > Len(b) /\ i <= Len(b) + n) \/ i > Len(b) + n
      BY ONLY <3>1, <3>5, n \in 1..Len(d)
    <3>7. QED
      BY ONLY <3>2, <3>3, <3>4, <3>6
  <2>4. QED
    BY <2>1, <2>2, <2>3, SameSequence
<1>5. Cat(b \o h, r) = Cat(b, d)
  BY <1>4 DEF Cat
<1>6. QED
  BY <1>2, <1>3, <1>5 DEF h, r, Moved, Rest

(* What is in a message has an owner.                                      *)
LEMMA Owned ==
  /\ \A q \in Seq(Frames) : \A i \in 1..Len(q) : q[i].of \in Runs
  /\ \A q \in Seq(Marks) : \A i \in 1..Len(q) : q[i].of \in Runs
  /\ \A q \in Seq(Runs) : ToSet(q) \subseteq Runs
<1>1. ASSUME NEW q \in Seq(Frames), NEW i \in 1..Len(q) PROVE q[i].of \in Runs
  <2>1. q[i] \in Frames
    OBVIOUS
  <2>2. QED
    BY <2>1 DEF Frames
<1>2. ASSUME NEW q \in Seq(Marks), NEW i \in 1..Len(q) PROVE q[i].of \in Runs
  <2>1. q[i] \in Marks
    OBVIOUS
  <2>2. QED
    BY <2>1 DEF Marks, Runs
<1>3. ASSUME NEW q \in Seq(Runs) PROVE ToSet(q) \subseteq Runs
  BY DEF ToSet
<1>4. QED
  BY <1>1, <1>2, <1>3

LEMMA FramesOf ==
  /\ \A k \in {"login", "line", "intr"}, c \in Runs :
       Frame(k, c) \in Frames /\ Frame(k, c).kind = k /\ Frame(k, c).of = c
  /\ \A k \in Printed, c \in Runs :
       Frame(k, c) \in Marks /\ Frame(k, c).kind = k /\ Frame(k, c).of = c
  /\ \A k \in {"OK", "ask"} :
       Frame(k, Probe) \in Marks /\ Frame(k, Probe).kind = k /\ Frame(k, Probe).of = Probe
BY DEF Frame, Frames, Marks

-----------------------------------------------------------------------------
(* The session.                                                            *)

(* The queue of runs when its head settles, and when a run joins it.       *)
LEMMA QueueShifts ==
  ASSUME NEW S, NEW q \in Seq(S), IsInjective(q), q # <<>>
  PROVE  /\ Head(q) \in S /\ Head(q) \in ToSet(q) /\ Tail(q) \in Seq(S)
         /\ ToSet(Tail(q)) = ToSet(q) \ {Head(q)} /\ IsInjective(Tail(q))
<1> DEFINE n == Len(q)
           t == Tail(q)
<1>1. /\ n \in Nat /\ n > 0 /\ DOMAIN q = 1..n /\ Head(q) = q[1] /\ 1 \in 1..n
      /\ t \in Seq(S) /\ Len(t) = n - 1 /\ DOMAIN t = 1..(n - 1)
      /\ \A i \in 1..(n - 1) : t[i] = q[i + 1] /\ i + 1 \in 1..n
  OBVIOUS
<1> HIDE DEF n, t
<1>2. \A i, j \in 1..n : q[i] = q[j] => i = j
  BY <1>1 DEF IsInjective
<1>3. \A i, j \in 1..(n - 1) : t[i] = t[j] => i = j
  <2> SUFFICES ASSUME NEW i \in 1..(n - 1), NEW j \in 1..(n - 1), t[i] = t[j] PROVE i = j
    OBVIOUS
  <2>1. i + 1 = j + 1
    BY <1>1, <1>2
  <2>2. QED
    BY <2>1
<1>4. ToSet(t) = {t[i] : i \in 1..(n - 1)} /\ ToSet(q) = {q[i] : i \in 1..n}
  BY <1>1 DEF ToSet
<1>5. ASSUME NEW x \in ToSet(q), x # Head(q) PROVE x \in ToSet(t)
  <2>1. PICK i \in 1..n : q[i] = x
    BY <1>4
  <2>2. i - 1 \in 1..(n - 1) /\ (i - 1) + 1 = i
    BY <1>1, <1>5, <2>1
  <2>3. t[i - 1] = x
    BY <1>1, <2>1, <2>2
  <2>4. QED
    BY <1>4, <2>2, <2>3
<1>6. ASSUME NEW x \in ToSet(t) PROVE x \in ToSet(q) /\ x # Head(q)
  <2>1. PICK i \in 1..(n - 1) : t[i] = x
    BY <1>4
  <2>2. q[i + 1] = x /\ i + 1 \in 1..n /\ i + 1 # 1
    BY <1>1, <2>1
  <2>3. QED
    BY <1>1, <1>2, <1>4, <2>2
<1>7. Head(q) \in S /\ Head(q) \in ToSet(q)
  BY <1>1, <1>4
<1>8. IsInjective(t)
  BY <1>1, <1>3 DEF IsInjective
<1>9. QED
  BY <1>1, <1>5, <1>6, <1>7, <1>8 DEF t

LEMMA QueueGrows ==
  ASSUME NEW S, NEW q \in Seq(S), IsInjective(q), NEW x \in S, x \notin ToSet(q)
  PROVE  /\ Append(q, x) \in Seq(S) /\ ToSet(Append(q, x)) = ToSet(q) \cup {x}
         /\ IsInjective(Append(q, x)) /\ (q # <<>> => Head(Append(q, x)) = Head(q))
         /\ Append(q, x) # <<>>
<1> DEFINE n == Len(q)
           t == Append(q, x)
<1>1. /\ n \in Nat /\ DOMAIN q = 1..n /\ t \in Seq(S) /\ DOMAIN t = 1..(n + 1)
      /\ t[n + 1] = x /\ \A i \in 1..n : t[i] = q[i]
      /\ n + 1 \in 1..(n + 1) /\ 1..(n + 1) = 1..n \cup {n + 1}
  OBVIOUS
<1>2. (q # <<>> => Head(t) = Head(q)) /\ t # <<>>
  OBVIOUS
<1> HIDE DEF n, t
<1>3. ToSet(t) = {t[i] : i \in 1..(n + 1)} /\ ToSet(q) = {q[i] : i \in 1..n}
  BY <1>1 DEF ToSet
<1>4. ToSet(t) = ToSet(q) \cup {x}
  BY <1>1, <1>3
<1>5. \A i, j \in 1..(n + 1) : t[i] = t[j] => i = j
  <2>1. \A i, j \in 1..n : q[i] = q[j] => i = j
    BY <1>1 DEF IsInjective
  <2>2. \A i \in 1..n : q[i] # x
    BY <1>3
  <2>3. QED
    BY <1>1, <2>1, <2>2
<1>6. IsInjective(t)
  BY <1>1, <1>5 DEF IsInjective
<1>7. QED
  BY <1>1, <1>2, <1>4, <1>6 DEF t

LEMMA Rejected ==
  ASSUME IInv, NEW outcome \in {"timeout", "unheard", "dead"}, Reject(outcome)
  PROVE  /\ waiter' = None
         /\ queue' \in Seq(Commands) /\ IsInjective(queue')
         /\ ToSet(queue') = {c \in Commands : pc'[c] = "queued"}
         /\ pc' \in [Commands -> {"new", "queued"} \cup Over]
         /\ \A c \in Commands : pc'[c] = IF c = waiter THEN outcome ELSE pc[c]
         /\ waiter \in Commands => pc[waiter] = "queued" /\ stage = "ready"
         /\ stage' = IF stage = "ready" THEN "ready" ELSE "failed"
<1>1. /\ queue \in Seq(Commands) /\ IsInjective(queue)
      /\ ToSet(queue) = {c \in Commands : pc[c] = "queued"}
      /\ pc \in [Commands -> {"new", "queued"} \cup Over]
      /\ waiter \in Commands => queue # <<>> /\ waiter = Head(queue)
  BY DEF IInv, Typed, TypeOK
<1>2. CASE waiter \in Commands
  <2>1. /\ pc' = [pc EXCEPT ![waiter] = outcome] /\ queue' = Tail(queue) /\ waiter' = None
        /\ stage' = stage
    BY <1>2 DEF Reject
  <2>2. /\ Head(queue) \in ToSet(queue) /\ Tail(queue) \in Seq(Commands)
        /\ ToSet(Tail(queue)) = ToSet(queue) \ {Head(queue)} /\ IsInjective(Tail(queue))
    BY <1>1, <1>2, QueueShifts
  <2>3. pc[waiter] = "queued"
    BY <1>1, <1>2, <2>2
  <2>4. stage = "ready"
    BY <1>2, <2>3 DEF IInv, Life
  <2>5. pc' \in [Commands -> {"new", "queued"} \cup Over]
    BY <1>1, <2>1 DEF Over
  <2>6. \A c \in Commands : pc'[c] = IF c = waiter THEN outcome ELSE pc[c]
    BY <1>1, <2>1
  <2>7. ToSet(queue') = {c \in Commands : pc'[c] = "queued"}
    BY <1>1, <1>2, <2>1, <2>2, <2>6
  <2>8. QED
    BY <1>2, <2>1, <2>2, <2>3, <2>4, <2>5, <2>6, <2>7
<1>3. CASE waiter \notin Commands
  BY <1>1, <1>3 DEF Reject
<1>4. QED
  BY <1>2, <1>3

(* The wait of connect() or of a run is over: nobody waits any longer.     *)
LEMMA RejectSession ==
  ASSUME IInv, NEW outcome \in {"timeout", "unheard", "dead"}, Reject(outcome),
         UNCHANGED <<got, shell>>,
         buffer' \in Seq(Marks), down' \in Seq(Marks), up' \in Seq(Frames),
         sock' \in {"open", "closing", "closed"}, attached' \in BOOLEAN,
         failure' \in BOOLEAN, failure => failure', attached' => attached,
         attached' /\ ~failure' => sock' = "open",
         ~attached' \/ failure' => sock' \in {"closing", "closed"},
         sock' = "closed" => up' = <<>> /\ down' = <<>> /\ failure',
         stage # "ready" => ~attached',
         outcome = "dead" => ~attached' \/ failure'
  PROVE  Typed' /\ Life'
<1> USE DEF shell
<1>1. /\ waiter' = None
      /\ queue' \in Seq(Commands) /\ IsInjective(queue')
      /\ ToSet(queue') = {c \in Commands : pc'[c] = "queued"}
      /\ pc' \in [Commands -> {"new", "queued"} \cup Over]
      /\ \A c \in Commands : pc'[c] = IF c = waiter THEN outcome ELSE pc[c]
      /\ waiter \in Commands => pc[waiter] = "queued" /\ stage = "ready"
      /\ stage' = IF stage = "ready" THEN "ready" ELSE "failed"
  BY Rejected
<1>2. None \notin Runs \cup {Login}
  BY CommandsAssumption
<1>3. waiter' \notin Commands
  BY <1>1, <1>2 DEF Runs
<1>4. \A s \in {buffer', down', up'} : \A i \in 1..Len(s) : s[i].of \in Runs
  BY Owned
<1>5. (\E c \in Commands : pc'[c] = "dead") => failure' \/ ~attached'
  BY <1>1 DEF IInv, Typed, TypeOK
<1>6. TypeOK'
  BY <1>1, <1>3, <1>4, <1>5 DEF IInv, Typed, TypeOK
<1>7. Typed'
  BY <1>1, <1>6 DEF IInv, Typed
<1>8. Life'
  <2>1. stage' \in {"ready", "failed"}
    BY <1>1
  <2>2. stage' # "ready" => \A c \in Commands : pc'[c] = "new"
    BY <1>1 DEF IInv, Life, Typed, TypeOK
  <2>3. waiter' # Login /\ waiter' # Probe
    BY <1>1, <1>2 DEF Runs
  <2>4. (fg' = None => next' \in {"BEGIN", "ask"}) /\ (fg' # None => next' # "ask")
    BY DEF IInv, Life
  <2>5. QED
    BY <1>1, <2>1, <2>2, <2>3, <2>4 DEF Life, Connecting
<1>9. QED
  BY <1>7, <1>8

LEMMA SocketOpensSession ==
  ASSUME IInv, SocketOpens
  PROVE  Typed' /\ Life'
<1> USE DEF SocketOpens, shell
<1>1. Frame("login", Probe) \in Frames
  BY FramesOf DEF Runs
<1>2. up' \in Seq(Frames)
  BY <1>1, Queues DEF IInv, Typed
<1>3. stage = "opening" /\ ~failure /\ attached
  BY DEF IInv, Life, Connecting
<1>4. Login \notin Runs /\ Login # None
  BY CommandsAssumption
<1>5. \A s \in {buffer', down', up'} : \A i \in 1..Len(s) : s[i].of \in Runs
  BY <1>2, Owned DEF IInv, Typed
<1>6. TypeOK'
  BY <1>3, <1>4, <1>5 DEF IInv, Typed, TypeOK, Runs
<1>7. Life'
  BY <1>3, <1>4 DEF IInv, Life, Connecting, Runs
<1>8. QED
  BY <1>2, <1>6, <1>7 DEF IInv, Typed

(* What detaching does to the websocket.                                   *)
LEMMA Detached ==
  ASSUME IInv, Detach
  PROVE  ~attached' /\ attached' \in BOOLEAN /\ sock' \in {"closing", "closed"}
         /\ (sock' = "closed" => up = <<>> /\ down = <<>> /\ failure)
BY DEF IInv, Life, Typed, TypeOK, Detach

LEMMA ConnectTimeoutSession ==
  ASSUME IInv, ConnectTimeout
  PROVE  Typed' /\ Life'
<1> USE DEF ConnectTimeout
<1>1. sock' = "closing"
  BY DEF IInv, Life, Detach
<1>2. up' \in Seq(Frames)
  BY FramesOf, Queues DEF Interrupt, Runs, IInv, Typed
<1>3. QED
  BY <1>1, <1>2, Detached, RejectSession DEF IInv, Typed, TypeOK, Life

LEMMA SocketClosesSession ==
  ASSUME IInv, SocketCloses
  PROVE  Typed' /\ Life'
<1> USE DEF SocketCloses
<1>1. attached' \in BOOLEAN /\ (attached' => attached) /\ (stage # "ready" => ~attached')
  <2>1. stage = "failed" => ~attached
    BY DEF IInv, Typed, TypeOK
  <2>2. QED
    BY <2>1 DEF IInv, Typed, TypeOK, Connecting
<1>2. up' \in Seq(Frames) /\ down' \in Seq(Marks)
  OBVIOUS
<1>3. QED
  BY <1>1, <1>2, RejectSession DEF IInv, Typed, TypeOK

LEMMA DeadlineSession ==
  ASSUME IInv, NEW c \in Commands, Deadline(c)
  PROVE  Typed' /\ Life'
<1> USE DEF Deadline
<1>1. up' \in Seq(Frames) /\ (sock # "open" => up' = up)
  BY FramesOf, Queues DEF Interrupt, Runs, IInv, Typed
<1>2. TimeoutOf(c) \in {"timeout", "unheard"}
  BY DEF TimeoutOf
<1>3. stage = "ready" /\ sock \in {"open", "closing", "closed"}
  <2>1. stage = "ready"
    BY <1>2, Rejected
  <2>2. QED
    BY <2>1 DEF IInv, Life, Typed, TypeOK
<1>4. attached /\ ~failure => sock = "open"
  BY <1>3 DEF IInv, Life
<1>5. QED
  BY <1>1, <1>2, <1>3, <1>4, RejectSession DEF IInv, Typed, TypeOK, Life

LEMMA RunSession ==
  ASSUME IInv, NEW c \in Commands, Run(c)
  PROVE  Typed' /\ Life'
<1> USE DEF Run, shell
<1>1. /\ queue \in Seq(Commands) /\ IsInjective(queue)
      /\ ToSet(queue) = {d \in Commands : pc[d] = "queued"}
      /\ pc \in [Commands -> {"new", "queued"} \cup Over]
  BY DEF IInv, Typed, TypeOK
<1>2. /\ queue' \in Seq(Commands) /\ IsInjective(queue') /\ queue' # <<>>
      /\ ToSet(queue') = ToSet(queue) \cup {c} /\ (queue # <<>> => Head(queue') = Head(queue))
  BY <1>1, QueueGrows
<1>3. /\ pc' \in [Commands -> {"new", "queued"} \cup Over]
      /\ \A d \in Commands : pc'[d] = IF d = c THEN "queued" ELSE pc[d]
  BY <1>1
<1>4. ToSet(queue') = {d \in Commands : pc'[d] = "queued"}
  BY <1>1, <1>2, <1>3
<1>5. (\E d \in Commands : pc'[d] = "dead") => failure \/ ~attached
  BY <1>3 DEF IInv, Typed, TypeOK
<1>6. TypeOK'
  BY <1>2, <1>3, <1>4, <1>5 DEF IInv, Typed, TypeOK
<1>7. QED
  BY <1>2, <1>6 DEF IInv, Typed, Life, Connecting

LEMMA StartSession ==
  ASSUME IInv, Start
  PROVE  Typed' /\ Life'
<1> DEFINE c == Head(queue)
<1> USE DEF Start, Startable, shell
<1>1. /\ queue \in Seq(Commands) /\ IsInjective(queue) /\ queue # <<>>
      /\ ToSet(queue) = {d \in Commands : pc[d] = "queued"}
      /\ pc \in [Commands -> {"new", "queued"} \cup Over]
      /\ stage = "ready" /\ waiter = None
  BY DEF IInv, Typed, TypeOK
<1>2. /\ c \in Commands /\ c \in ToSet(queue) /\ Tail(queue) \in Seq(Commands)
      /\ ToSet(Tail(queue)) = ToSet(queue) \ {c} /\ IsInjective(Tail(queue))
  BY <1>1, QueueShifts
<1>3. None \notin Runs \cup {Login} /\ Login \notin Runs /\ Probe \notin Commands
  BY CommandsAssumption
<1> HIDE DEF c
<1>4. CASE failure \/ ~attached \/ c \in TooLong
  <2> DEFINE out == IF failure \/ ~attached THEN "dead" ELSE "refused"
  <2>1. /\ pc' = [pc EXCEPT ![c] = out] /\ queue' = Tail(queue)
        /\ UNCHANGED <<sock, attached, stage, failure, got, down, buffer, waiter, up,
                       lines, fg, next, killed>>
    BY <1>4 DEF c
  <2>2. out \in {"dead", "refused"} /\ (out = "dead" => failure \/ ~attached)
    OBVIOUS
  <2> HIDE DEF out
  <2>3. /\ pc' \in [Commands -> {"new", "queued"} \cup Over]
        /\ \A d \in Commands : pc'[d] = IF d = c THEN out ELSE pc[d]
    BY <1>1, <1>2, <2>1, <2>2 DEF Over
  <2>4. ToSet(queue') = {d \in Commands : pc'[d] = "queued"}
    BY <1>1, <1>2, <2>1, <2>2, <2>3
  <2>5. (\E d \in Commands : pc'[d] = "dead") => failure \/ ~attached
    BY <2>2, <2>3 DEF IInv, Typed, TypeOK
  <2>6. waiter' \notin Commands
    BY <1>1, <1>3, <2>1 DEF Runs
  <2>7. TypeOK'
    BY <1>2, <2>1, <2>3, <2>4, <2>5, <2>6 DEF IInv, Typed, TypeOK
  <2>8. QED
    BY <1>1, <1>2, <2>1, <2>7 DEF IInv, Typed, Life, Connecting
<1>5. CASE ~(failure \/ ~attached \/ c \in TooLong)
  <2>1. /\ buffer' = <<>> /\ up' = Append(up, Frame("line", c)) /\ waiter' = c
        /\ UNCHANGED <<sock, attached, stage, failure, got, down, pc, queue,
                       lines, fg, next, killed>>
    BY <1>5 DEF c
  <2>2. up' \in Seq(Frames) /\ buffer' \in Seq(Marks)
    BY <1>2, <2>1, FramesOf, Queues DEF IInv, Typed, Runs
  <2>3. \A s \in {buffer', down', up'} : \A i \in 1..Len(s) : s[i].of \in Runs
    BY <2>1, <2>2, Owned DEF IInv, Typed
  <2>4. TypeOK'
    BY <1>1, <1>2, <1>5, <2>1, <2>3 DEF IInv, Typed, TypeOK, Runs, c
  <2>5. waiter' # Login /\ waiter' # Probe
    BY <1>2, <1>3, <2>1 DEF Runs
  <2>6. sock = "open"
    BY <1>1, <1>5 DEF IInv, Life
  <2>7. Life'
    BY <1>1, <1>5, <2>1, <2>5, <2>6 DEF IInv, Life, Connecting
  <2>8. QED
    BY <2>1, <2>2, <2>4, <2>7 DEF IInv, Typed
<1>6. QED
  BY <1>4, <1>5

LEMMA CloseSession ==
  ASSUME IInv, Close
  PROVE  Typed' /\ Life'
<1> USE DEF Close, shell
<1>1. ~attached' /\ attached' \in BOOLEAN /\ sock' \in {"closing", "closed"}
      /\ (sock' = "closed" => up = <<>> /\ down = <<>> /\ failure)
  BY Detached
<1>2. TypeOK'
  BY <1>1 DEF IInv, Typed, TypeOK
<1>3. QED
  BY <1>1, <1>2 DEF IInv, Typed, Life, Connecting

(* The marks around a result.                                              *)
LEMMA CompleteMarks ==
  ASSUME NEW s \in Seq(Marks), Complete(s)
  PROVE  /\ Len(s) \in Nat /\ BeginOf(s) \in 1..Len(s) /\ s[BeginOf(s)].kind = "BEGIN"
         /\ EndOf(s) \in BeginOf(s)..Len(s) /\ EndOf(s) \in 1..Len(s)
         /\ s[EndOf(s)].kind = "END"
         /\ ResultOf(s) \subseteq Runs
         /\ SubSeq(s, EndOf(s) + 1, Len(s)) \in Seq(Marks)
         /\ EndOf(s) = Len(s) => SubSeq(s, EndOf(s) + 1, Len(s)) = <<>>
<1> DEFINE b == BeginOf(s)
           e == IndexOf(s, "ERR", b)
<1>1. Len(s) \in Nat
  OBVIOUS
<1>2. b \in Nat /\ (b # 0 => b \in 1..Len(s) /\ s[b].kind = "BEGIN")
  BY <1>1, FirstMark DEF BeginOf
<1> HIDE DEF b
<1>3. e \in Nat /\ (e # 0 => b # 0 /\ e \in b..Len(s))
  BY <1>1, <1>2, FirstMark
<1> HIDE DEF e
<1>4. EndOf(s) # 0 /\ EndOf(s) = IndexOf(s, "END", e)
  BY DEF Complete, EndOf, e, b
<1>5. e # 0 /\ EndOf(s) \in e..Len(s) /\ s[EndOf(s)].kind = "END"
  BY <1>1, <1>3, <1>4, FirstMark
<1>6. b \in 1..Len(s) /\ s[b].kind = "BEGIN" /\ EndOf(s) \in b..Len(s) /\ EndOf(s) \in 1..Len(s)
  BY <1>1, <1>2, <1>3, <1>5
<1>7. ResultOf(s) \subseteq Runs
  <2>1. \A i \in BeginOf(s)..EndOf(s) : i \in 1..Len(s)
    BY <1>1, <1>6 DEF b
  <2>2. QED
    BY <2>1, Owned DEF ResultOf
<1> HIDE DEF EndOf, BeginOf
<1>8. /\ SubSeq(s, EndOf(s) + 1, Len(s)) \in Seq(Marks)
      /\ EndOf(s) = Len(s) => SubSeq(s, EndOf(s) + 1, Len(s)) = <<>>
  BY <1>1, <1>6
<1>9. QED
  BY <1>1, <1>5, <1>6, <1>7, <1>8 DEF b

(* What is left behind a result is some of what there was.                 *)
LEMMA Leftover ==
  ASSUME NEW s \in Seq(Marks), Complete(s)
  PROVE  LET rest == SubSeq(s, EndOf(s) + 1, Len(s)) IN
         \A i \in 1..Len(rest) : \E j \in 1..Len(s) : rest[i] = s[j]
<1>1. PICK rest : rest = SubSeq(s, EndOf(s) + 1, Len(s))
  OBVIOUS
<1>2. EndOf(s) \in 1..Len(s) /\ Len(s) \in Nat
  BY CompleteMarks
<1>3. PICK e \in 1..Len(s) : rest = SubSeq(s, e + 1, Len(s))
  BY <1>1, <1>2
<1>4. Len(rest) = Len(s) - e /\ \A i \in 1..Len(rest) : rest[i] = s[e + i]
  BY ONLY s \in Seq(Marks), <1>2, <1>3
<1>5. \A i \in 1..Len(rest) : e + i \in 1..Len(s)
  BY ONLY <1>2, <1>4, e \in 1..Len(s)
<1>6. \A i \in 1..Len(rest) : \E j \in 1..Len(s) : rest[i] = s[j]
  BY ONLY <1>4, <1>5
<1>7. QED
  BY <1>1, <1>6

(* What arrived is the buffer and a part of what was under way.            *)
LEMMA Arrived ==
  ASSUME IInv, NEW n \in 1..Len(down), Message(n),
         NEW text, text = buffer \o SubSeq(down, 1, n)
  PROVE  /\ text \in Seq(Marks) /\ down' \in Seq(Marks) /\ text \o down' = Flight
         /\ Len(text) = Len(buffer) + n /\ Len(buffer) \in Nat /\ Len(down) \in Nat
         /\ Len(down') = Len(down) - n
         /\ \A i \in 1..Len(down') : down'[i] = down[n + i]
         /\ sock \in {"open", "closing"}
<1>1. /\ down' = Rest(down, n) /\ sock \in {"open", "closing"}
      /\ text = Moved(buffer, down, n)
  BY DEF Message, Rest, Moved
<1>2. buffer \in Seq(Marks) /\ down \in Seq(Marks)
  BY DEF IInv, Typed
<1>3. Len(buffer) \in Nat /\ Len(down) \in Nat
  BY <1>2
<1>4. /\ text \in Seq(Marks) /\ Len(text) = Len(buffer) + n
      /\ down' \in Seq(Marks) /\ Len(down') = Len(down) - n
      /\ \A i \in 1..(Len(down) - n) : down'[i] = down[n + i]
      /\ Cat(text, down') = Cat(buffer, down)
  <2>1. /\ Moved(buffer, down, n) \in Seq(Marks)
        /\ Len(Moved(buffer, down, n)) = Len(buffer) + n
        /\ Rest(down, n) \in Seq(Marks)
        /\ Len(Rest(down, n)) = Len(down) - n
        /\ \A i \in 1..(Len(down) - n) : Rest(down, n)[i] = down[n + i]
        /\ Cat(Moved(buffer, down, n), Rest(down, n)) = Cat(buffer, down)
    BY ONLY <1>2, n \in 1..Len(down), Cut
  <2>2. QED
    BY ONLY <1>1, <2>1
<1>5. text \o down' = Flight
  BY <1>4 DEF Cat, Flight
<1>6. QED
  BY <1>1, <1>3, <1>4, <1>5

LEMMA CheckSession ==
  ASSUME IInv, NEW text \in Seq(Marks), down' \in Seq(Marks), Check(text),
         sock \in {"open", "closing"},
         UNCHANGED <<sock, attached, failure, shell>>
  PROVE  Typed' /\ Life'
<1> USE DEF shell
<1>1. None \notin Runs \cup {Login} /\ Login \notin Runs /\ Probe \notin Commands
  BY CommandsAssumption
<1>2. CASE waiter = Login /\ IndexOf(text, "OK", 1) # 0
  <2>1. /\ buffer' = <<>> /\ stage' = "probe" /\ waiter' = Probe
        /\ up' = Append(up, Frame("line", Probe)) /\ UNCHANGED <<queue, pc, got>>
    BY <1>2 DEF Check
  <2>2. up' \in Seq(Frames) /\ buffer' \in Seq(Marks)
    BY <2>1, FramesOf, Queues DEF IInv, Typed, Runs
  <2>3. \A s \in {buffer', down', up'} : \A i \in 1..Len(s) : s[i].of \in Runs
    BY <2>1, <2>2, Owned
  <2>4. ~failure /\ stage = "login"
    BY <1>1, <1>2 DEF IInv, Typed, TypeOK, Life
  <2>5. TypeOK'
    BY <1>1, <2>1, <2>3, <2>4 DEF IInv, Typed, TypeOK, Runs
  <2>6. Life'
    BY <1>1, <2>1, <2>4 DEF IInv, Life, Connecting, Runs
  <2>7. QED
    BY <2>1, <2>2, <2>5, <2>6 DEF IInv, Typed
<1>3. CASE waiter \in Runs /\ Complete(text)
  <2>1. waiter # Login /\ ~failure
    BY <1>1, <1>3 DEF IInv, Typed, TypeOK
  <2>2. /\ buffer' = SubSeq(text, EndOf(text) + 1, Len(text)) /\ waiter' = None
        /\ IF waiter = Probe
           THEN stage' = "ready" /\ UNCHANGED <<queue, pc, got>>
           ELSE /\ pc' = [pc EXCEPT ![waiter] = "ok"]
                /\ got' = [got EXCEPT ![waiter] = ResultOf(text)]
                /\ queue' = Tail(queue)
                /\ UNCHANGED stage
        /\ UNCHANGED up
    BY <1>3, <2>1 DEF Check
  <2>3. buffer' \in Seq(Marks) /\ up' \in Seq(Frames)
    BY <1>3, <2>2, CompleteMarks DEF IInv, Typed
  <2>4. \A s \in {buffer', down', up'} : \A i \in 1..Len(s) : s[i].of \in Runs
    BY <2>3, Owned
  <2>5. waiter' \notin Commands /\ waiter' # Login /\ waiter' # Probe
    BY <1>1, <2>2 DEF Runs
  <2>6. CASE waiter = Probe
    <3>1. stage = "probe" /\ stage' = "ready" /\ UNCHANGED <<queue, pc, got>>
      BY <2>2, <2>6 DEF IInv, Life
    <3>2. TypeOK'
      BY <1>1, <2>2, <2>4, <2>5, <3>1 DEF IInv, Typed, TypeOK
    <3>3. Life'
      BY <2>1, <2>2, <2>5, <3>1 DEF IInv, Life, Connecting
    <3>4. QED
      BY <2>3, <3>1, <3>2, <3>3 DEF IInv, Typed
  <2>7. CASE waiter # Probe
    <3>1. waiter \in Commands
      BY <1>3, <2>7 DEF Runs
    <3>2. /\ pc' = [pc EXCEPT ![waiter] = "ok"] /\ queue' = Tail(queue) /\ stage' = stage
          /\ got' = [got EXCEPT ![waiter] = ResultOf(text)]
      BY <2>2, <2>7
    <3>3. /\ queue \in Seq(Commands) /\ IsInjective(queue)
          /\ ToSet(queue) = {c \in Commands : pc[c] = "queued"}
          /\ pc \in [Commands -> {"new", "queued"} \cup Over]
          /\ queue # <<>> /\ waiter = Head(queue)
      BY <3>1 DEF IInv, Typed, TypeOK
    <3>4. /\ Tail(queue) \in Seq(Commands) /\ waiter \in ToSet(queue)
          /\ ToSet(Tail(queue)) = ToSet(queue) \ {waiter} /\ IsInjective(Tail(queue))
      BY <3>3, QueueShifts
    <3>5. /\ pc' \in [Commands -> {"new", "queued"} \cup Over]
          /\ \A c \in Commands : pc'[c] = IF c = waiter THEN "ok" ELSE pc[c]
      BY <3>1, <3>2, <3>3 DEF Over
    <3>6. ToSet(queue') = {c \in Commands : pc'[c] = "queued"}
      BY <3>2, <3>3, <3>4, <3>5
    <3>7. got' \in [Commands -> SUBSET Runs]
      BY <1>3, <3>1, <3>2, CompleteMarks DEF IInv, Typed, TypeOK
    <3>8. (\E c \in Commands : pc'[c] = "dead") => failure \/ ~attached
      BY <3>5 DEF IInv, Typed, TypeOK
    <3>9. stage = "ready"
      BY <3>1, <3>3, <3>4 DEF IInv, Life
    <3>10. TypeOK'
      BY <2>2, <2>4, <2>5, <3>2, <3>4, <3>5, <3>6, <3>7, <3>8, <3>9 DEF IInv, Typed, TypeOK
    <3>11. Life'
      BY <2>1, <2>2, <2>5, <3>2, <3>9 DEF IInv, Life, Connecting
    <3>12. QED
      BY <2>3, <3>2, <3>4, <3>10, <3>11 DEF IInv, Typed
  <2>8. QED
    BY <2>6, <2>7
<1>4. CASE /\ ~(waiter = Login /\ IndexOf(text, "OK", 1) # 0)
           /\ ~(waiter \in Runs /\ Complete(text))
  <2>1. buffer' = text /\ UNCHANGED <<stage, waiter, queue, pc, got, up>>
    BY <1>4 DEF Check
  <2>2. \A s \in {buffer', down', up'} : \A i \in 1..Len(s) : s[i].of \in Runs
    BY <2>1, Owned DEF IInv, Typed
  <2>3. TypeOK'
    BY <2>1, <2>2 DEF IInv, Typed, TypeOK
  <2>4. Life'
    BY <2>1 DEF IInv, Life, Connecting
  <2>5. QED
    BY <2>1, <2>3, <2>4 DEF IInv, Typed
<1>5. QED
  BY <1>2, <1>3, <1>4

LEMMA MessageSession ==
  ASSUME IInv, NEW n \in 1..Len(down), Message(n)
  PROVE  Typed' /\ Life'
<1> DEFINE text == buffer \o SubSeq(down, 1, n)
<1>1. text \in Seq(Marks) /\ down' \in Seq(Marks) /\ sock \in {"open", "closing"}
  BY Arrived
<1>2. UNCHANGED shell
  BY DEF Message
<1>3. \/ Overflow
      \/ Connecting /\ LoginPrompt(text)
      \/ ProbeFails(text)
      \/ Check(text) /\ UNCHANGED <<sock, attached, failure>>
  BY DEF Message
<1> HIDE DEF text
<1>4. CASE Overflow
  <2> USE DEF Overflow
  <2>1. ~attached' /\ attached' \in BOOLEAN /\ sock' = "closing"
    BY <1>1, <1>4, Detached DEF Detach, IInv, Life
  <2>2. up' \in Seq(Frames) /\ buffer' \in Seq(Marks)
    BY <1>4 DEF IInv, Typed
  <2>3. QED
    BY <1>1, <1>2, <1>4, <2>1, <2>2, RejectSession DEF IInv, Typed
<1>5. CASE LoginPrompt(text)
  <2> USE DEF LoginPrompt
  <2>1. ~attached' /\ attached' \in BOOLEAN /\ sock' = "closing"
    BY <1>1, <1>5, Detached DEF Detach, IInv, Life
  <2>2. up' \in Seq(Frames) /\ buffer' \in Seq(Marks)
    BY <1>1, <1>5, FramesOf, Queues DEF Interrupt, Runs, IInv, Typed
  <2>3. QED
    BY <1>1, <1>2, <1>5, <2>1, <2>2, RejectSession DEF IInv, Typed
<1>6. CASE ProbeFails(text)
  <2> USE DEF ProbeFails
  <2>1. ~attached' /\ attached' \in BOOLEAN /\ sock' = "closing"
    BY <1>1, <1>6, Detached DEF Detach, IInv, Life
  <2>2. up' \in Seq(Frames) /\ buffer' \in Seq(Marks) /\ failure' = failure /\ failure \in BOOLEAN
    BY <1>1, <1>6, CompleteMarks DEF IInv, Typed, TypeOK
  <2>3. QED
    BY <1>1, <1>2, <1>6, <2>1, <2>2, RejectSession DEF IInv, Typed
<1>7. CASE Check(text) /\ UNCHANGED <<sock, attached, failure>>
  BY <1>1, <1>2, <1>7, CheckSession
<1>8. QED
  BY <1>3, <1>4, <1>5, <1>6, <1>7

(* The node moves what is in it; the client does not change.               *)
LEMMA NodeSession ==
  ASSUME IInv, UNCHANGED client,
         up' \in Seq(Frames), down' \in Seq(Marks), lines' \in Seq(Runs),
         fg' \in Runs \cup {None}, killed' \subseteq Runs,
         next' \in {"BEGIN", "ERR", "END", "ask"},
         fg' = None => next' \in {"BEGIN", "ask"}, fg' # None => next' # "ask",
         sock = "closed" => up' = <<>> /\ down' = <<>>
  PROVE  Typed' /\ Life'
<1> USE DEF client
<1>1. \A s \in {buffer', down', up'} : \A i \in 1..Len(s) : s[i].of \in Runs
  BY Owned DEF IInv, Typed
<1>2. ToSet(lines') \subseteq Runs
  BY Owned
<1>3. TypeOK'
  BY <1>1, <1>2 DEF IInv, Typed, TypeOK
<1>4. QED
  BY <1>3 DEF IInv, Typed, Life, Connecting

(* The marks that are printed are under way, unless the websocket is gone. *)
LEMMA Emitted ==
  ASSUME IInv, NEW s \in Seq(Marks), Emit(s)
  PROVE  /\ down' \in Seq(Marks) /\ (sock = "closed" => down' = <<>>)
         /\ sock # "closed" => down' = down \o s
BY DEF Emit, IInv, Typed, Life

LEMMA NodeLoginSession ==
  ASSUME IInv, NodeLogin
  PROVE  Typed' /\ Life' /\ fg = None
<1>1. /\ up \in Seq(Frames) /\ up # <<>> /\ Head(up).kind = "login" /\ up' = Tail(up)
      /\ UNCHANGED <<client, lines, fg, killed>>
  BY DEF NodeLogin, IInv, Typed
<1>2. up' \in Seq(Frames) /\ sock # "closed" /\ up[1].kind = "login" /\ 1 \in 1..Len(up)
  BY <1>1, Queues DEF IInv, Life
<1>3. fg = None
  BY <1>2 DEF IInv, Opening, LoginFirst
<1>4. PICK greeting \in {<<Frame("OK", Probe)>>, <<Frame("OK", Probe), Frame("ask", Probe)>>} :
        /\ down' = down \o greeting
        /\ next' = IF Len(greeting) = 1 THEN next ELSE "ask"
  BY DEF NodeLogin
<1>5. greeting \in Seq(Marks)
  <2>1. Frame("OK", Probe) \in Marks /\ Frame("ask", Probe) \in Marks
    BY FramesOf
  <2>2. QED
    BY <1>4, <2>1
<1>6. down' \in Seq(Marks)
  BY <1>4, <1>5 DEF IInv, Typed
<1>7. next' \in {"BEGIN", "ask"}
  BY <1>3, <1>4 DEF IInv, Life
<1>8. QED
  BY <1>1, <1>2, <1>3, <1>6, <1>7, NodeSession DEF IInv, Typed, TypeOK, client

LEMMA TtyLineSession ==
  ASSUME IInv, TtyLine
  PROVE  Typed' /\ Life'
<1> USE DEF TtyLine
<1>1. up \in Seq(Frames) /\ up # <<>> /\ Head(up) = up[1] /\ up' \in Seq(Frames) /\ sock # "closed"
      /\ up[1].of \in Runs
  BY Queues, Owned DEF IInv, Typed, Life
<1>2. lines' \in Seq(Runs)
  BY <1>1, Queues DEF IInv, Typed
<1>3. QED
  BY <1>1, <1>2, NodeSession DEF IInv, Typed, TypeOK, Life

LEMMA TtyInterruptSession ==
  ASSUME IInv, TtyInterrupt
  PROVE  Typed' /\ Life'
<1> USE DEF TtyInterrupt
<1>1. up \in Seq(Frames) /\ up # <<>> /\ up' \in Seq(Frames) /\ sock # "closed" /\ lines' = <<>>
  BY Queues DEF IInv, Typed, Life
<1>2. lines' \in Seq(Runs)
  BY <1>1
<1>3. ToSet(lines) \subseteq Runs /\ killed \subseteq Runs /\ fg \in Runs \cup {None}
  BY DEF IInv, Typed, TypeOK
<1>4. killed' \subseteq Runs
  BY <1>3
<1>5. (fg' = fg /\ next' = next) \/ (fg' = None /\ next' = "BEGIN")
  OBVIOUS
<1>6. QED
  BY <1>1, <1>2, <1>4, <1>5, NodeSession DEF IInv, Typed, TypeOK, Life

LEMMA ShellReadsSession ==
  ASSUME IInv, ShellReads
  PROVE  Typed' /\ Life'
<1> USE DEF ShellReads
<1>1. lines \in Seq(Runs) /\ lines # <<>> /\ lines' \in Seq(Runs) /\ fg' \in Runs
  BY Queues DEF IInv, Typed
<1>2. None \notin Runs
  BY CommandsAssumption
<1>3. QED
  BY <1>1, <1>2, NodeSession DEF IInv, Typed, TypeOK, Life

LEMMA ShellPrintsSession ==
  ASSUME IInv, ShellPrints
  PROVE  /\ Typed' /\ Life' /\ <<Frame(next, fg)>> \in Seq(Marks)
         /\ fg \in Runs /\ next \in {"BEGIN", "ERR", "END"}
         /\ next = "BEGIN" => next' = "ERR" /\ fg' = fg
         /\ next = "ERR" => next' = "END" /\ fg' = fg
         /\ next = "END" => next' = "BEGIN" /\ fg' = None
<1> USE DEF ShellPrints
<1>1. fg \in Runs /\ next \in {"BEGIN", "ERR", "END"} /\ None \notin Runs
  BY CommandsAssumption DEF IInv, Typed, TypeOK, Life
<1>2. /\ next = "BEGIN" => next' = "ERR" /\ fg' = fg
      /\ next = "ERR" => next' = "END" /\ fg' = fg
      /\ next = "END" => next' = "BEGIN" /\ fg' = None
  BY <1>1
<1>3. <<Frame(next, fg)>> \in Seq(Marks)
  <2>1. Frame(next, fg) \in Marks
    BY <1>1, FramesOf DEF Printed
  <2>2. QED
    BY <2>1
<1>4. down' \in Seq(Marks) /\ (sock = "closed" => down' = <<>>)
  BY <1>3, Emitted
<1>5. Typed' /\ Life'
  BY <1>1, <1>2, <1>4, NodeSession DEF IInv, Typed, TypeOK, Life
<1>6. QED
  BY <1>1, <1>2, <1>3, <1>5

LEMMA ShellFloodsSession ==
  ASSUME IInv, ShellFloods
  PROVE  /\ Typed' /\ Life' /\ fg \in Commands
         /\ <<Frame("flood", fg), Frame("ERR", fg)>> \in Seq(Marks)
<1> USE DEF ShellFloods
<1>1. fg \in Commands /\ fg \in Runs /\ None \notin Runs
  BY CommandsAssumption DEF Runs
<1>2. <<Frame("flood", fg), Frame("ERR", fg)>> \in Seq(Marks)
  <2>1. Frame("flood", fg) \in Marks /\ Frame("ERR", fg) \in Marks
    BY <1>1, FramesOf DEF Printed
  <2>2. QED
    BY <2>1
<1>3. down' \in Seq(Marks) /\ (sock = "closed" => down' = <<>>)
  BY <1>2, Emitted
<1>4. QED
  BY <1>1, <1>2, <1>3, NodeSession DEF IInv, Typed, TypeOK, Life

-----------------------------------------------------------------------------
(* connect(): the login and the probe.                                     *)

(* A message grows by the frames that are sent.                            *)
LEMMA Sent ==
  ASSUME NEW q \in Seq(Frames), NEW f \in Frames
  PROVE  /\ Append(q, f) \in Seq(Frames) /\ Len(Append(q, f)) = Len(q) + 1
         /\ \A i \in 1..Len(Append(q, f)) :
              (i \in 1..Len(q) /\ Append(q, f)[i] = q[i]) \/ Append(q, f)[i] = f
BY Queues

LEMMA ReadyOpening ==
  ASSUME IInv, stage = "ready", stage' = "ready",
         up' = up \/ \E f \in Frames : f.kind # "login" /\ up' = Append(up, f)
  PROVE  Opening'
<1>1. \A i \in 1..Len(up) : up[i].kind # "login"
  BY DEF IInv, Opening, LoginFirst
<1>2. \A i \in 1..Len(up') : up'[i].kind # "login"
  <2>1. up \in Seq(Frames)
    BY DEF IInv, Typed
  <2>2. CASE up' = up
    BY <1>1, <2>2
  <2>3. ASSUME NEW f \in Frames, f.kind # "login", up' = Append(up, f)
        PROVE  \A i \in 1..Len(up') : up'[i].kind # "login"
    BY <1>1, <2>1, <2>3, Sent
  <2>4. QED
    BY <2>2, <2>3
<1>3. QED
  BY <1>2 DEF Opening, OnlyProbe, BeforeProbe, LoginFirst

LEMMA ConnectOpening ==
  ASSUME IInv, SocketOpens \/ ConnectTimeout \/ SocketCloses \/ Close \/ Start
  PROVE  Opening'
<1>1. CASE SocketOpens
  <2> USE DEF SocketOpens, shell
  <2>1. stage = "opening"
    BY <1>1 DEF IInv, Life
  <2>2. up = <<>> /\ buffer = <<>> /\ down = <<>> /\ lines = <<>> /\ fg = None
    <3>1. up = <<Frame("login", Probe)>> => up[1].kind = "login" /\ 1 \in 1..Len(up)
      BY DEF Frame
    <3>2. QED
      BY <2>1, <3>1 DEF IInv, Opening, BeforeProbe, LoginFirst
  <2>3. up' = <<Frame("login", Probe)>> /\ stage' = "login"
    BY <1>1, <2>2
  <2>4. Len(up') = 1 /\ up'[1].of = Probe
    BY <2>3 DEF Frame
  <2>5. buffer' = <<>> /\ down' = <<>> /\ lines' = <<>> /\ fg' = None /\ killed' = killed
    BY <1>1, <2>2
  <2>6. \A s \in {up', buffer', down'} : \A i \in 1..Len(s) : s[i].of = Probe
    BY <2>4, <2>5
  <2>7. QED
    BY <2>1, <2>3, <2>4, <2>5, <2>6 DEF IInv, Opening, OnlyProbe, BeforeProbe, LoginFirst
<1>2. CASE ConnectTimeout
  <2> USE DEF ConnectTimeout, shell
  <2>1. stage' = "failed" /\ UNCHANGED <<buffer, down, lines, fg, killed>> /\ stage # "ready"
    BY <1>2, Rejected DEF Connecting
  <2>2. /\ up' \in Seq(Frames)
        /\ \A i \in 1..Len(up') : (i \in 1..Len(up) /\ up'[i] = up[i]) \/ up'[i] = Frame("intr", Probe)
    BY <1>2, Sent, FramesOf DEF Interrupt, Runs, IInv, Typed
  <2>3. Frame("intr", Probe).kind # "login" /\ Frame("intr", Probe).of = Probe
    BY DEF Frame
  <2>4. \A i \in 1..Len(up') : up'[i].of = Probe
    BY <2>1, <2>2, <2>3 DEF IInv, Opening, OnlyProbe
  <2>5. QED
    BY <2>1, <2>2, <2>3, <2>4 DEF IInv, Opening, OnlyProbe, BeforeProbe, LoginFirst
<1>3. CASE SocketCloses
  <2> USE DEF SocketCloses, shell
  <2>1. stage' = (IF stage = "ready" THEN "ready" ELSE "failed") /\ up' = <<>> /\ down' = <<>>
    BY <1>3, Rejected
  <2>2. QED
    BY <1>3, <2>1 DEF IInv, Opening, OnlyProbe, BeforeProbe, LoginFirst
<1>4. CASE Close
  BY <1>4 DEF Close, shell, IInv, Typed, Opening, OnlyProbe, BeforeProbe, LoginFirst
<1>5. CASE Start
  <2>1. stage = "ready" /\ stage' = "ready" /\ Head(queue) \in Runs
    BY <1>5, Queues DEF Start, Startable, IInv, Typed, Runs
  <2>2. up' = up \/ up' = Append(up, Frame("line", Head(queue)))
    BY <1>5 DEF Start
  <2>3. Frame("line", Head(queue)) \in Frames /\ Frame("line", Head(queue)).kind = "line"
    BY <2>1, FramesOf
  <2>4. QED
    BY <2>1, <2>2, <2>3, ReadyOpening
<1>6. QED
  BY <1>1, <1>2, <1>3, <1>4, <1>5

LEMMA RunOpening ==
  ASSUME IInv, NEW c \in Commands, Run(c) \/ Deadline(c)
  PROVE  Opening'
<1>1. CASE Run(c)
  BY <1>1, ReadyOpening DEF Run, IInv, Typed
<1>2. CASE Deadline(c)
  <2>1. stage = "ready" /\ stage' = "ready"
    <3>1. TimeoutOf(c) \in {"timeout", "unheard"}
      BY DEF TimeoutOf
    <3>2. QED
      BY <1>2, <3>1, Rejected DEF Deadline
  <2>2. up' = up \/ up' = Append(up, Frame("intr", c))
    BY <1>2 DEF Deadline, Interrupt
  <2>3. Frame("intr", c) \in Frames /\ Frame("intr", c).kind = "intr"
    BY FramesOf DEF Runs
  <2>4. QED
    BY <2>1, <2>2, <2>3, ReadyOpening
<1>3. QED
  BY <1>1, <1>2

LEMMA MessageOpening ==
  ASSUME IInv, NEW n \in 1..Len(down), Message(n)
  PROVE  Opening'
<1> DEFINE text == buffer \o SubSeq(down, 1, n)
<1> USE DEF shell
<1>1. /\ text \in Seq(Marks) /\ down' \in Seq(Marks)
      /\ Len(down') = Len(down) - n /\ Len(down) \in Nat
      /\ \A i \in 1..Len(down') : down'[i] = down[n + i]
  BY Arrived
<1>2. \A i \in 1..Len(text) : (i \in 1..Len(buffer) /\ text[i] = buffer[i])
                            \/ \E j \in 1..Len(down) : text[i] = down[j]
  <2>1. buffer \in Seq(Marks) /\ down \in Seq(Marks)
    BY DEF IInv, Typed
  <2>2. /\ SubSeq(down, 1, n) \in Seq(Marks) /\ Len(SubSeq(down, 1, n)) = n
        /\ \A i \in 1..n : SubSeq(down, 1, n)[i] = down[i] /\ i \in 1..Len(down)
    BY <2>1
  <2>3. QED
    BY ONLY <2>1, <2>2, Joined
<1>3. \A i \in 1..Len(down') : \E j \in 1..Len(down) : down'[i] = down[j]
  <2>1. \A i \in 1..Len(down') : n + i \in 1..Len(down)
    BY <1>1
  <2>2. QED
    BY <1>1, <2>1
<1>4. UNCHANGED <<lines, fg, killed>>
  BY DEF Message
<1>5. \/ Overflow
      \/ Connecting /\ LoginPrompt(text)
      \/ ProbeFails(text)
      \/ Check(text) /\ UNCHANGED <<sock, attached, failure>>
  BY DEF Message
<1> HIDE DEF text
<1>6. stage # "ready" => /\ \A i \in 1..Len(text) : text[i].of = Probe
                         /\ \A i \in 1..Len(down') : down'[i].of = Probe
  <2>1. stage # "ready" => /\ \A i \in 1..Len(buffer) : buffer[i].of = Probe
                           /\ \A i \in 1..Len(down) : down[i].of = Probe
    BY DEF IInv, Opening, OnlyProbe
  <2>2. QED
    BY ONLY <1>2, <1>3, <2>1
<1>7. stage # "ready" => /\ \A i \in 1..Len(up) : up[i].of = Probe
                         /\ \A i \in 1..Len(lines) : lines[i] = Probe
                         /\ fg \in {None, Probe} /\ killed \subseteq {Probe}
  BY DEF IInv, Opening, OnlyProbe
<1>8. down # <<>>
  BY <1>1
<1>9. CASE Overflow
  <2>1. stage' = (IF stage = "ready" THEN "ready" ELSE "failed") /\ buffer' = <<>> /\ up' = up
    BY <1>9, Rejected DEF Overflow
  <2>2. stage' # "ready" => OnlyProbe'
    BY <1>4, <1>6, <1>7, <2>1 DEF OnlyProbe
  <2>3. QED
    BY <1>4, <2>1, <2>2 DEF IInv, Opening, OnlyProbe, BeforeProbe, LoginFirst
<1>10. CASE Connecting /\ LoginPrompt(text)
  <2>1. stage' = "failed" /\ buffer' = text /\ stage # "ready"
    BY <1>10, Rejected DEF LoginPrompt, Connecting
  <2>2. /\ up' \in Seq(Frames)
        /\ \A i \in 1..Len(up') : (i \in 1..Len(up) /\ up'[i] = up[i]) \/ up'[i] = Frame("intr", Probe)
    BY <1>10, Sent, FramesOf DEF LoginPrompt, Interrupt, Runs, IInv, Typed
  <2>3. Frame("intr", Probe).kind # "login" /\ Frame("intr", Probe).of = Probe
    BY DEF Frame
  <2>4. OnlyProbe'
    BY <1>4, <1>6, <1>7, <2>1, <2>2, <2>3 DEF OnlyProbe
  <2>5. QED
    BY <1>4, <2>1, <2>2, <2>3, <2>4 DEF IInv, Opening, BeforeProbe, LoginFirst
<1>11. CASE Check(text)
  <2>1. CASE waiter = Login /\ IndexOf(text, "OK", 1) # 0
    <3>1. /\ buffer' = <<>> /\ stage' = "probe" /\ up' = Append(up, Frame("line", Probe))
      BY <1>11, <2>1 DEF Check
    <3>2. stage = "login"
      BY <2>1 DEF IInv, Life
    <3>3. up = <<>>
      BY <1>8, <3>2 DEF IInv, Opening, BeforeProbe
    <3>4. up' = <<Frame("line", Probe)>>
      BY <3>1, <3>3
    <3>5. Len(up') = 1 /\ up'[1].of = Probe /\ up'[1].kind = "line"
      BY <3>4 DEF Frame
    <3>6. OnlyProbe'
      BY <1>4, <1>6, <1>7, <3>1, <3>2, <3>5 DEF OnlyProbe
    <3>7. QED
      BY <3>1, <3>5, <3>6 DEF Opening, BeforeProbe, LoginFirst
  <2>2. CASE ~(waiter = Login /\ IndexOf(text, "OK", 1) # 0) /\ waiter \in Runs /\ Complete(text)
    <3>1. stage' = "ready" /\ up' = up /\ stage \in {"probe", "ready"}
      <4>1. waiter = Probe => stage = "probe"
        BY DEF IInv, Life
      <4>2. waiter # Probe => stage = "ready"
        BY <2>2, Rejected, QueueShifts DEF IInv, Life, Typed, TypeOK, Runs
      <4>3. QED
        BY <1>11, <2>2, <4>1, <4>2 DEF Check
    <3>2. QED
      BY <3>1 DEF IInv, Opening, OnlyProbe, BeforeProbe, LoginFirst
  <2>3. CASE /\ ~(waiter = Login /\ IndexOf(text, "OK", 1) # 0)
             /\ ~(waiter \in Runs /\ Complete(text))
    <3>1. buffer' = text /\ UNCHANGED <<stage, up>>
      BY <1>11, <2>3 DEF Check
    <3>2. OnlyProbe'
      BY <1>4, <1>6, <1>7, <3>1 DEF OnlyProbe
    <3>3. BeforeProbe'
      <4>1. stage \in {"opening", "login"} => up = <<>> /\ stage = "login"
        BY <1>8 DEF IInv, Opening, BeforeProbe
      <4>2. stage \in {"opening", "login"} =>
              \A s \in {text, down'} : \A i \in 1..Len(s) : s[i].kind \in {"OK", "ask"}
        <5> SUFFICES ASSUME stage \in {"opening", "login"}
                     PROVE  /\ \A i \in 1..Len(text) : text[i].kind \in {"OK", "ask"}
                            /\ \A i \in 1..Len(down') : down'[i].kind \in {"OK", "ask"}
          OBVIOUS
        <5>1. /\ \A i \in 1..Len(buffer) : buffer[i].kind \in {"OK", "ask"}
              /\ \A i \in 1..Len(down) : down[i].kind \in {"OK", "ask"}
          BY DEF IInv, Opening, BeforeProbe
        <5>2. QED
          BY ONLY <5>1, <1>2, <1>3
      <4>3. QED
        BY <1>4, <3>1, <4>1, <4>2 DEF IInv, Opening, BeforeProbe
    <3>4. LoginFirst'
      BY <1>4, <3>1 DEF IInv, Opening, LoginFirst
    <3>5. QED
      BY <3>2, <3>3, <3>4 DEF Opening
  <2>4. QED
    BY <2>1, <2>2, <2>3
<1>12. CASE ProbeFails(text)
  <2>1. stage = "probe" /\ stage' = "failed" /\ up' = up
    BY <1>12, Rejected DEF ProbeFails, IInv, Life
  <2>2. \A i \in 1..Len(buffer') : \E j \in 1..Len(text) : buffer'[i] = text[j]
    BY <1>1, <1>12, Leftover DEF ProbeFails
  <2>3. OnlyProbe'
    BY <1>4, <1>6, <1>7, <2>1, <2>2 DEF OnlyProbe
  <2>4. QED
    BY <1>4, <2>1, <2>3 DEF IInv, Opening, BeforeProbe, LoginFirst
<1>13. QED
  BY <1>5, <1>9, <1>10, <1>11, <1>12

LEMMA NodeOpening ==
  ASSUME IInv, Node \/ ShellFloods
  PROVE  Opening'
<1> USE DEF client
<1>0. lines \in Seq(Runs)
  BY DEF IInv, Typed
<1>1. /\ up \in Seq(Frames) /\ Len(up) \in Nat
      /\ up # <<>> => /\ Head(up) = up[1] /\ Len(up) > 0 /\ 1 \in 1..Len(up)
                      /\ \A i \in 1..Len(Tail(up)) : Tail(up)[i] = up[i + 1] /\ i + 1 \in 1..Len(up)
  BY DEF IInv, Typed
<1>2. CASE NodeLogin
  <2>1. /\ up # <<>> /\ up[1].kind = "login" /\ up' = Tail(up)
        /\ UNCHANGED <<stage, buffer, lines, fg, killed>>
    BY <1>1, <1>2 DEF NodeLogin
  <2>2. stage \in {"login", "failed"} /\ lines = <<>> /\ fg = None
    BY <1>1, <2>1 DEF IInv, Opening, LoginFirst
  <2>3. PICK greeting \in {<<Frame("OK", Probe)>>, <<Frame("OK", Probe), Frame("ask", Probe)>>} :
          down' = down \o greeting
    BY <1>2 DEF NodeLogin
  <2>4. /\ greeting \in Seq(Marks)
        /\ \A i \in 1..Len(greeting) : greeting[i].of = Probe /\ greeting[i].kind \in {"OK", "ask"}
    <3>1. Frame("OK", Probe) \in Marks /\ Frame("ask", Probe) \in Marks
      BY FramesOf
    <3>2. greeting \in Seq(Marks)
      BY <2>3, <3>1
    <3>3. CASE greeting = <<Frame("OK", Probe)>>
      BY <3>2, <3>3 DEF Frame
    <3>4. CASE greeting = <<Frame("OK", Probe), Frame("ask", Probe)>>
      <4>1. \A i \in 1..Len(greeting) : i = 1 \/ i = 2
        BY <3>4
      <4>2. QED
        BY <3>2, <3>4, <4>1 DEF Frame
    <3>5. QED
      BY <2>3, <3>3, <3>4
  <2>5. \A i \in 1..Len(down') : (i \in 1..Len(down) /\ down'[i] = down[i])
                               \/ \E j \in 1..Len(greeting) : down'[i] = greeting[j]
    BY <2>3, <2>4, Joined DEF IInv, Typed
  <2>6. \A i \in 1..Len(down') : down'[i].of = Probe
    BY <2>2, <2>4, <2>5 DEF IInv, Opening, OnlyProbe
  <2>7. OnlyProbe'
    BY <1>1, <2>1, <2>2, <2>6 DEF IInv, Opening, OnlyProbe
  <2>8. BeforeProbe'
    <3>1. stage = "login" => up' = <<>>
      <4>1. stage = "login" => up = <<Frame("login", Probe)>>
        BY <2>1 DEF IInv, Opening, BeforeProbe
      <4>2. Tail(<<Frame("login", Probe)>>) = <<>>
        OBVIOUS
      <4>3. QED
        BY <2>1, <4>1, <4>2
    <3>2. stage = "login" => \A i \in 1..Len(down') : down'[i].kind \in {"OK", "ask"}
      BY <2>4, <2>5 DEF IInv, Opening, BeforeProbe
    <3>3. QED
      BY <2>1, <2>2, <3>1, <3>2 DEF IInv, Opening, BeforeProbe
  <2>9. LoginFirst'
    <3>1. \A i \in 1..Len(up') : up'[i].kind # "login"
      <4>1. \A i \in 1..Len(up') : up'[i] = up[i + 1] /\ i + 1 \in 1..Len(up) /\ i + 1 # 1
        BY <1>1, <2>1
      <4>2. QED
        BY <4>1 DEF IInv, Opening, LoginFirst
    <3>2. QED
      BY <3>1 DEF LoginFirst
  <2>10. QED
    BY <2>7, <2>8, <2>9 DEF Opening
<1>3. CASE TtyLine \/ TtyInterrupt
  <2>1. /\ up # <<>> /\ up[1].kind \in {"line", "intr"} /\ up' = Tail(up)
        /\ UNCHANGED <<stage, buffer, down>>
    BY <1>1, <1>3 DEF TtyLine, TtyInterrupt
  <2>2. stage \notin {"opening", "login"}
    BY <1>1, <2>1 DEF IInv, Opening, BeforeProbe, Frame
  <2>3. \A i \in 1..Len(up') : up'[i].kind # "login"
    <3>1. \A i \in 1..Len(up') : up'[i] = up[i + 1] /\ i + 1 \in 1..Len(up) /\ i + 1 # 1
      BY <1>1, <2>1
    <3>2. QED
      BY <3>1 DEF IInv, Opening, LoginFirst
  <2>4. stage # "ready" => /\ \A i \in 1..Len(lines') : lines'[i] = Probe
                           /\ fg' \in {None, Probe} /\ killed' \subseteq {Probe}
    <3>1. CASE TtyLine
      <4>1. stage # "ready" => up[1].of = Probe
        BY <1>1, <2>1 DEF IInv, Opening, OnlyProbe
      <4>2. lines' = Append(lines, up[1].of) /\ fg' = fg /\ killed' = killed
        BY <1>1, <3>1 DEF TtyLine
      <4>3. lines \in Seq(Runs) /\ up[1].of \in Runs
        BY <1>1, <2>1, Owned DEF IInv, Typed
      <4>4. \A i \in 1..Len(lines') : (i \in 1..Len(lines) /\ lines'[i] = lines[i])
                                    \/ lines'[i] = up[1].of
        BY ONLY <4>2, <4>3
      <4>5. QED
        BY <4>1, <4>2, <4>4 DEF IInv, Opening, OnlyProbe
    <3>2. CASE TtyInterrupt
      <4>1. lines' = <<>> /\ fg' \in {fg, None} /\ killed' \subseteq killed \cup ToSet(lines) \cup ({fg} \ {None})
        BY <3>2 DEF TtyInterrupt
      <4>2. ToSet(lines) = {lines[i] : i \in 1..Len(lines)}
        BY <1>0 DEF ToSet
      <4>3. QED
        BY <4>1, <4>2 DEF IInv, Opening, OnlyProbe
    <3>3. QED
      BY <1>3, <3>1, <3>2
  <2>5. OnlyProbe'
    BY <1>1, <2>1, <2>4 DEF IInv, Opening, OnlyProbe
  <2>6. QED
    BY <2>1, <2>2, <2>3, <2>5 DEF Opening, BeforeProbe, LoginFirst
<1>4. CASE ShellReads
  <2>1. lines \in Seq(Runs) /\ lines # <<>> /\ lines' = Tail(lines) /\ fg' = lines[1]
        /\ UNCHANGED <<stage, up, buffer, down, killed>>
    BY <1>4 DEF ShellReads, IInv, Typed
  <2>2. 1 \in 1..Len(lines) /\ \A i \in 1..Len(lines') : i + 1 \in 1..Len(lines) /\ lines'[i] = lines[i + 1]
    BY ONLY <2>1
  <2>3. stage \notin {"opening", "login"} /\ \A i \in 1..Len(up) : up[i].kind # "login"
    BY <2>1 DEF IInv, Opening, BeforeProbe, LoginFirst
  <2>4. OnlyProbe'
    BY <2>1, <2>2 DEF IInv, Opening, OnlyProbe
  <2>5. QED
    BY <2>1, <2>3, <2>4 DEF Opening, BeforeProbe, LoginFirst
<1>5. CASE ShellPrints
  <2>1. /\ fg # None /\ UNCHANGED <<stage, up, buffer, lines, killed>> /\ fg' \in {fg, None}
        /\ Emit(<<Frame(next, fg)>>)
    BY <1>5 DEF ShellPrints
  <2>2. <<Frame(next, fg)>> \in Seq(Marks)
    BY <1>5, ShellPrintsSession
  <2>3. stage \notin {"opening", "login"} /\ \A i \in 1..Len(up) : up[i].kind # "login"
    BY <2>1 DEF IInv, Opening, BeforeProbe, LoginFirst
  <2>4. stage # "ready" => \A i \in 1..Len(down') : down'[i].of = Probe
    <3> SUFFICES ASSUME stage # "ready" PROVE \A i \in 1..Len(down') : down'[i].of = Probe
      OBVIOUS
    <3>1. fg = Probe /\ \A i \in 1..Len(down) : down[i].of = Probe
      BY <2>1 DEF IInv, Opening, OnlyProbe
    <3>2. down' = <<>> \/ down' = down \o <<Frame(next, fg)>>
      BY <2>1, <2>2, Emitted
    <3>3. down \in Seq(Marks) /\ Len(<<Frame(next, fg)>>) = 1 /\ <<Frame(next, fg)>>[1].of = Probe
      BY <3>1 DEF IInv, Typed, Frame
    <3>4. QED
      BY ONLY <2>2, <3>1, <3>2, <3>3, Joined
  <2>5. OnlyProbe'
    BY <2>1, <2>4 DEF IInv, Opening, OnlyProbe
  <2>6. QED
    BY <2>1, <2>3, <2>5 DEF Opening, BeforeProbe, LoginFirst
<1>6. CASE ShellFloods
  <2>1. fg \in Commands /\ fg # None /\ Probe \notin Commands
    BY <1>6, ShellFloodsSession, CommandsAssumption DEF Runs
  <2>2. stage = "ready"
    BY <2>1 DEF IInv, Opening, OnlyProbe
  <2>3. stage' = "ready" /\ up' = up
    BY <1>6, <2>2 DEF ShellFloods
  <2>4. QED
    BY <2>2, <2>3, ReadyOpening
<1>7. QED
  BY <1>2, <1>3, <1>4, <1>5, <1>6 DEF Node

-----------------------------------------------------------------------------
(* A run that has not started is unknown.                                  *)

LEMMA Untouched ==
  ASSUME IInv, NEW c \in Commands, Unknown(c), waiter' # c, waiter # c,
         SocketOpens \/ ConnectTimeout \/ SocketCloses \/ Close \/ Start
           \/ \E d \in Commands : Run(d) \/ Deadline(d)
  PROVE  Unknown(c)'
<1> USE DEF shell
<1>1. c # Probe /\ c \in Runs /\ up \in Seq(Frames)
  BY CommandsAssumption DEF Runs, IInv, Typed
<1>2. ASSUME NEW f \in Frames, f.of # c, up' = up \/ up' = Append(up, f) \/ up' = <<>>
      PROVE  \A i \in 1..Len(up') : up'[i].of # c
  <2>1. \A i \in 1..Len(up) : up[i].of # c
    BY DEF Unknown
  <2>2. QED
    BY <1>1, <1>2, <2>1, Sent
<1>3. UNCHANGED <<lines, fg, killed>>
  BY DEF SocketOpens, ConnectTimeout, SocketCloses, Close, Start, Run, Deadline
<1>4. buffer' \in {buffer, <<>>} /\ down' \in {down, <<>>}
  BY DEF SocketOpens, ConnectTimeout, SocketCloses, Close, Start, Run, Deadline
<1>5. \E f \in Frames : f.of # c /\ (up' = up \/ up' = Append(up, f) \/ up' = <<>>)
  <2> DEFINE p == Frame("intr", Probe)
  <2>1. p \in Frames /\ p.of # c
    BY <1>1, FramesOf DEF Runs
  <2>2. CASE SocketOpens
    <3>1. Frame("login", Probe) \in Frames /\ Frame("login", Probe).of # c
      BY <1>1, FramesOf DEF Runs
    <3>2. QED
      BY <2>2, <3>1 DEF SocketOpens
  <2>3. CASE ConnectTimeout
    BY <2>1, <2>3 DEF ConnectTimeout, Interrupt
  <2>4. CASE SocketCloses \/ Close \/ \E d \in Commands : Run(d)
    BY <2>1, <2>4 DEF SocketCloses, Close, Run
  <2>5. CASE Start
    <3>1. Head(queue) \in Runs
      BY <2>5, Queues DEF Start, Startable, IInv, Typed, Runs
    <3>2. Frame("line", Head(queue)) \in Frames /\ Frame("line", Head(queue)).of = Head(queue)
      BY <3>1, FramesOf
    <3>3. up' = up \/ (up' = Append(up, Frame("line", Head(queue))) /\ waiter' = Head(queue))
      BY <2>5 DEF Start
    <3>4. QED
      BY <2>1, <3>2, <3>3
  <2>6. CASE \E d \in Commands : Deadline(d)
    <3>1. PICK d \in Commands : Deadline(d)
      BY <2>6
    <3>2. d # c /\ (up' = up \/ up' = Append(up, Frame("intr", d)))
      BY <3>1 DEF Deadline, Interrupt
    <3>3. Frame("intr", d) \in Frames /\ Frame("intr", d).of = d
      BY FramesOf DEF Runs
    <3>4. QED
      BY <3>2, <3>3
  <2>7. QED
    BY <2>2, <2>3, <2>4, <2>5, <2>6
<1>6. \A i \in 1..Len(up') : up'[i].of # c
  BY <1>2, <1>5
<1>7. QED
  BY <1>3, <1>4, <1>6 DEF Unknown

LEMMA UntouchedByMessage ==
  ASSUME IInv, NEW c \in Commands, Unknown(c), NEW n \in 1..Len(down), Message(n)
  PROVE  Unknown(c)'
<1> DEFINE text == buffer \o SubSeq(down, 1, n)
<1> USE DEF shell
<1>1. /\ text \in Seq(Marks) /\ down' \in Seq(Marks)
      /\ Len(down') = Len(down) - n /\ Len(down) \in Nat
      /\ \A i \in 1..Len(down') : down'[i] = down[n + i]
  BY Arrived
<1>2. \A i \in 1..Len(down') : n + i \in 1..Len(down)
  BY <1>1
<1>3. \A i \in 1..Len(down) : down[i].of # c
  BY DEF Unknown
<1>4. \A i \in 1..Len(down') : down'[i].of # c
  BY <1>1, <1>2, <1>3
<1>5. \A i \in 1..Len(text) : text[i].of # c
  <2>1. buffer \in Seq(Marks) /\ down \in Seq(Marks)
    BY DEF IInv, Typed
  <2>2. /\ SubSeq(down, 1, n) \in Seq(Marks) /\ Len(SubSeq(down, 1, n)) = n
        /\ \A i \in 1..n : SubSeq(down, 1, n)[i] = down[i] /\ i \in 1..Len(down)
    BY <2>1
  <2>3. \A i \in 1..Len(buffer) : buffer[i].of # c
    BY DEF Unknown
  <2>4. QED
    BY ONLY <1>3, <2>1, <2>2, <2>3, Joined
<1>6. UNCHANGED <<lines, fg, killed>>
  BY DEF Message
<1>7. \/ Overflow
      \/ LoginPrompt(text)
      \/ ProbeFails(text)
      \/ Check(text)
  BY DEF Message
<1> HIDE DEF text
<1>8. up' = up \/ up' = Append(up, Frame("intr", Probe)) \/ up' = Append(up, Frame("line", Probe))
  BY <1>7 DEF Overflow, LoginPrompt, ProbeFails, Check, Interrupt
<1>9. \A i \in 1..Len(up') : up'[i].of # c
  <2>1. /\ Frame("intr", Probe) \in Frames /\ Frame("intr", Probe).of = Probe
        /\ Frame("line", Probe) \in Frames /\ Frame("line", Probe).of = Probe
    BY FramesOf DEF Runs
  <2>2. Probe # c /\ up \in Seq(Frames) /\ \A i \in 1..Len(up) : up[i].of # c
    BY CommandsAssumption DEF IInv, Typed, Unknown
  <2>3. QED
    BY <1>8, <2>1, <2>2, Sent
<1>10. \A i \in 1..Len(buffer') : buffer'[i].of # c
  <2>1. buffer' = <<>> \/ buffer' = text
          \/ (Complete(text) /\ buffer' = SubSeq(text, EndOf(text) + 1, Len(text)))
    BY <1>7 DEF Overflow, LoginPrompt, ProbeFails, Check
  <2>2. CASE Complete(text) /\ buffer' = SubSeq(text, EndOf(text) + 1, Len(text))
    <3>1. \A i \in 1..Len(buffer') : \E j \in 1..Len(text) : buffer'[i] = text[j]
      BY <1>1, <2>2, Leftover
    <3>2. QED
      BY ONLY <1>5, <3>1
  <2>3. QED
    BY <1>5, <2>1, <2>2
<1>11. QED
  BY <1>4, <1>6, <1>9, <1>10 DEF Unknown

LEMMA UntouchedByNode ==
  ASSUME IInv, NEW c \in Commands, Unknown(c), Node \/ ShellFloods
  PROVE  Unknown(c)'
<1> USE DEF client
<1>1. /\ up \in Seq(Frames) /\ Len(up) \in Nat
      /\ up # <<>> => /\ Head(up) = up[1] /\ 1 \in 1..Len(up)
                      /\ \A i \in 1..Len(Tail(up)) : Tail(up)[i] = up[i + 1] /\ i + 1 \in 1..Len(up)
      /\ lines \in Seq(Runs) /\ down \in Seq(Marks)
  BY DEF IInv, Typed
<1>2. /\ \A i \in 1..Len(up) : up[i].of # c
      /\ \A i \in 1..Len(buffer) : buffer[i].of # c
      /\ \A i \in 1..Len(down) : down[i].of # c
      /\ \A i \in 1..Len(lines) : lines[i] # c
      /\ fg # c /\ c \notin killed /\ buffer' = buffer /\ c # Probe /\ c # None
  BY CommandsAssumption DEF Unknown, Node, NodeLogin, TtyLine, TtyInterrupt, ShellReads, ShellPrints, ShellFloods, Runs
<1>3. up' = up \/ (up # <<>> /\ up' = Tail(up))
  BY DEF Node, NodeLogin, TtyLine, TtyInterrupt, ShellReads, ShellPrints, ShellFloods
<1>4. \A i \in 1..Len(up') : up'[i].of # c
  BY <1>1, <1>2, <1>3
<1>5. ASSUME NEW s \in Seq(Marks), \A i \in 1..Len(s) : s[i].of # c,
             down' = down \/ down' = down \o s
      PROVE  \A i \in 1..Len(down') : down'[i].of # c
  <2>1. down \in Seq(Marks) /\ \A i \in 1..Len(down) : down[i].of # c
    BY <1>1, <1>2
  <2>2. ASSUME NEW i \in 1..Len(down \o s) PROVE (down \o s)[i].of # c
    BY ONLY <1>5, <2>1, Joined
  <2>3. QED
    BY <1>5, <2>1, <2>2
<1>6. CASE NodeLogin
  <2>1. PICK greeting \in {<<Frame("OK", Probe)>>, <<Frame("OK", Probe), Frame("ask", Probe)>>} :
          down' = down \o greeting
    BY <1>6 DEF NodeLogin
  <2>2. Frame("OK", Probe) \in Marks /\ Frame("ask", Probe) \in Marks
    BY FramesOf
  <2>3. greeting \in Seq(Marks) /\ (\A i \in 1..Len(greeting) : i = 1 \/ i = 2)
    BY <2>1, <2>2
  <2>4. \A i \in 1..Len(greeting) : greeting[i].of # c
    BY <1>2, <2>1, <2>3 DEF Frame
  <2>5. \A i \in 1..Len(down') : down'[i].of # c
    BY <1>5, <2>1, <2>3, <2>4
  <2>6. QED
    BY <1>2, <1>4, <1>6, <2>5 DEF NodeLogin, Unknown
<1>7. CASE TtyLine
  <2>1. lines' = Append(lines, up[1].of) /\ UNCHANGED <<down, fg, killed>> /\ up[1].of # c /\ up[1].of \in Runs
    BY <1>1, <1>2, <1>7, Owned DEF TtyLine
  <2>2. \A i \in 1..Len(lines') : (i \in 1..Len(lines) /\ lines'[i] = lines[i]) \/ lines'[i] = up[1].of
    BY ONLY <1>1, <2>1
  <2>3. QED
    BY <1>2, <1>4, <2>1, <2>2 DEF Unknown
<1>8. CASE TtyInterrupt
  <2>1. lines' = <<>> /\ fg' \in {fg, None} /\ killed' \subseteq killed \cup ToSet(lines) \cup {fg}
        /\ down' = down
    BY <1>8 DEF TtyInterrupt
  <2>2. ToSet(lines) = {lines[i] : i \in 1..Len(lines)}
    BY <1>1 DEF ToSet
  <2>3. QED
    BY <1>2, <1>4, <2>1, <2>2 DEF Unknown
<1>9. CASE ShellReads
  <2>1. lines # <<>> /\ lines' = Tail(lines) /\ fg' = lines[1] /\ UNCHANGED <<down, killed>>
    BY <1>1, <1>9 DEF ShellReads
  <2>2. 1 \in 1..Len(lines) /\ \A i \in 1..Len(lines') : i + 1 \in 1..Len(lines) /\ lines'[i] = lines[i + 1]
    BY ONLY <1>1, <2>1
  <2>3. QED
    BY <1>2, <1>4, <2>1, <2>2 DEF Unknown
<1>10. CASE ShellPrints
  <2>1. <<Frame(next, fg)>> \in Seq(Marks)
    BY <1>10, ShellPrintsSession
  <2>2. \A i \in 1..Len(<<Frame(next, fg)>>) : <<Frame(next, fg)>>[i].of # c
    BY <1>2 DEF Frame
  <2>3. down' = down \/ down' = down \o <<Frame(next, fg)>>
    BY <1>10 DEF ShellPrints, Emit
  <2>4. \A i \in 1..Len(down') : down'[i].of # c
    BY <1>5, <2>1, <2>2, <2>3
  <2>5. fg' \in {fg, None} /\ UNCHANGED <<lines, killed>>
    BY <1>10 DEF ShellPrints
  <2>6. QED
    BY <1>2, <1>4, <2>4, <2>5 DEF Unknown
<1>11. CASE ShellFloods
  <2> DEFINE s == <<Frame("flood", fg), Frame("ERR", fg)>>
  <2>1. s \in Seq(Marks)
    BY <1>11, ShellFloodsSession
  <2>2. \A i \in 1..Len(s) : s[i].of # c
    <3>1. \A i \in 1..Len(s) : i = 1 \/ i = 2
      OBVIOUS
    <3>2. QED
      BY <1>2, <3>1 DEF Frame
  <2>3. down' = down \/ down' = down \o s
    BY <1>11 DEF ShellFloods, Emit
  <2> HIDE DEF s
  <2>4. \A i \in 1..Len(down') : down'[i].of # c
    BY <1>5, <2>1, <2>2, <2>3
  <2>5. QED
    BY <1>2, <1>4, <1>11, <2>4 DEF ShellFloods, Unknown
<1>12. QED
  BY <1>6, <1>7, <1>8, <1>9, <1>10, <1>11 DEF Node

(* A run that has not started after a step had not started before it.      *)
LEMMA NotStarted ==
  ASSUME IInv, Next, NEW c \in Commands, pc'[c] \in {"new", "queued"}, waiter' # c
  PROVE  pc[c] \in {"new", "queued"} /\ waiter # c
<1>1. pc \in [Commands -> {"new", "queued"} \cup Over] /\ None # c /\ Login # c /\ Probe # c
  BY CommandsAssumption DEF IInv, Typed, TypeOK, Runs
<1>2. ASSUME NEW outcome \in {"timeout", "unheard", "dead"}, Reject(outcome)
      PROVE  pc[c] \in {"new", "queued"} /\ waiter # c
  BY <1>2, Rejected
<1>3. CASE SocketOpens \/ Close \/ \E d \in Commands : Run(d)
  BY <1>1, <1>3 DEF SocketOpens, Close, Run, IInv, Life
<1>4. CASE ConnectTimeout \/ SocketCloses
  BY <1>2, <1>4 DEF ConnectTimeout, SocketCloses
<1>5. CASE Start
  <2>1. waiter = None /\ Head(queue) \in Commands
    BY <1>5, Queues DEF Start, Startable, IInv, Typed
  <2>2. pc' = pc \/ \E out \in {"dead", "refused"} : pc' = [pc EXCEPT ![Head(queue)] = out]
    BY <1>5 DEF Start
  <2>3. QED
    BY <1>1, <2>1, <2>2
<1>6. CASE \E d \in Commands : Deadline(d)
  <2>1. PICK d \in Commands : Deadline(d)
    BY <1>6
  <2>2. Reject(TimeoutOf(d)) /\ TimeoutOf(d) \in {"timeout", "unheard"}
    BY <2>1 DEF Deadline, TimeoutOf
  <2>3. QED
    BY <1>2, <2>2
<1>7. CASE \E n \in 1..Len(down) : Message(n)
  <2>1. PICK n \in 1..Len(down) : Message(n)
    BY <1>7
  <2> DEFINE text == buffer \o SubSeq(down, 1, n)
  <2>2. Overflow \/ LoginPrompt(text) \/ ProbeFails(text) \/ Check(text)
    BY <2>1 DEF Message
  <2> HIDE DEF text
  <2>3. CASE Overflow \/ LoginPrompt(text) \/ ProbeFails(text)
    BY <1>2, <2>3 DEF Overflow, LoginPrompt, ProbeFails
  <2>4. CASE Check(text)
    <3>1. \/ waiter = Login /\ pc' = pc
          \/ waiter \in Runs /\ (waiter = Probe \/ pc' = [pc EXCEPT ![waiter] = "ok"])
             /\ (waiter = Probe => pc' = pc)
          \/ waiter' = waiter /\ pc' = pc
      BY <2>4 DEF Check
    <3>2. QED
      BY <1>1, <3>1 DEF Runs
  <2>5. QED
    BY <2>2, <2>3, <2>4
<1>8. CASE Node \/ ShellFloods
  BY <1>8 DEF client, Node, NodeLogin, TtyLine, TtyInterrupt, ShellReads, ShellPrints, ShellFloods
<1>9. QED
  BY <1>3, <1>4, <1>5, <1>6, <1>7, <1>8 DEF Next

LEMMA NotYetStep ==
  ASSUME IInv, Next
  PROVE  NotYet'
<1> SUFFICES ASSUME NEW c \in Commands, pc'[c] \in {"new", "queued"}, waiter' # c
             PROVE  Unknown(c)'
  BY DEF NotYet
<1>1. pc[c] \in {"new", "queued"} /\ waiter # c
  BY NotStarted
<1>2. Unknown(c)
  BY <1>1 DEF IInv, NotYet
<1>3. QED
  BY <1>1, <1>2, Untouched, UntouchedByMessage, UntouchedByNode DEF Next

-----------------------------------------------------------------------------
(* What a step does to the frames for the node, and to the outcomes.       *)

(* A step of the client sends at most one frame; the node takes the first. *)
LEMMA FramesStep ==
  ASSUME IInv, Next
  PROVE  \/ up' = up
         \/ up' = <<>>
         \/ up # <<>> /\ up' = Tail(up) /\ Node /\ stage' = stage
         \/ \E c \in Commands : Start /\ waiter' = c /\ up' = Append(up, Frame("line", c))
         \/ \E c \in Commands : Deadline(c) /\ up' = Append(up, Frame("intr", c))
         \/ SocketOpens /\ up' = Append(up, Frame("login", Probe))
         \/ stage' = "probe" /\ up' = Append(up, Frame("line", Probe))
         \/ stage' = "failed" /\ up' = Append(up, Frame("intr", Probe))
<1>1. CASE SocketOpens \/ Close \/ SocketCloses \/ \E c \in Commands : Run(c)
  BY <1>1 DEF SocketOpens, Close, SocketCloses, Run
<1>2. CASE ConnectTimeout
  BY <1>2, Rejected DEF ConnectTimeout, Connecting, Interrupt
<1>3. CASE Start
  <2>1. Head(queue) \in Commands
    BY <1>3, Queues DEF Start, Startable, IInv, Typed
  <2>2. QED
    BY <1>3, <2>1 DEF Start
<1>4. CASE \E c \in Commands : Deadline(c)
  BY <1>4 DEF Deadline, Interrupt
<1>5. CASE \E n \in 1..Len(down) : Message(n)
  <2>1. PICK n \in 1..Len(down) : Message(n)
    BY <1>5
  <2> DEFINE text == buffer \o SubSeq(down, 1, n)
  <2>2. Overflow \/ (Connecting /\ LoginPrompt(text)) \/ ProbeFails(text) \/ Check(text)
    BY <2>1 DEF Message
  <2> HIDE DEF text
  <2>3. CASE Overflow \/ ProbeFails(text) \/ Check(text)
    BY <2>3 DEF Overflow, ProbeFails, Check
  <2>4. CASE Connecting /\ LoginPrompt(text)
    BY <2>4, Rejected DEF LoginPrompt, Connecting, Interrupt
  <2>5. QED
    BY <2>2, <2>3, <2>4
<1>6. CASE Node
  BY <1>6 DEF client, Node, NodeLogin, TtyLine, TtyInterrupt, ShellReads, ShellPrints
<1>7. CASE ShellFloods
  BY <1>7 DEF ShellFloods
<1>8. QED
  BY <1>1, <1>2, <1>3, <1>4, <1>5, <1>6, <1>7 DEF Next

LEMMA FailedStays ==
  ASSUME IInv, Next, stage = "failed"
  PROVE  stage' = "failed"
<1>1. sock # "connecting" /\ waiter = None /\ waiter \notin Commands /\ ~Connecting
  BY CommandsAssumption DEF IInv, Life, Connecting, Runs
<1>2. waiter # Login /\ waiter \notin Runs
  BY <1>1, CommandsAssumption
<1>3. CASE \E n \in 1..Len(down) : Message(n)
  BY <1>1, <1>2, <1>3 DEF Message, Overflow, LoginPrompt, ProbeFails, Check, Reject, Runs
<1>4. CASE ~\E n \in 1..Len(down) : Message(n)
  BY <1>1, <1>4 DEF Next, SocketOpens, ConnectTimeout, Start, SocketCloses, Close, Run, Deadline, Reject,
     Node, NodeLogin, TtyLine, TtyInterrupt, ShellReads, ShellPrints, ShellFloods, client
<1>5. QED
  BY <1>3, <1>4

LEMMA ProbeCutStep ==
  ASSUME IInv, Next
  PROVE  ProbeCut'
<1>1. up \in Seq(Frames) /\ \A i \in 1..Len(up) : up[i].kind = "intr" /\ up[i].of = Probe => stage' = "failed"
  BY FailedStays DEF IInv, Typed, ProbeCut
<1>2. ASSUME NEW f \in Frames, up' = Append(up, f), f.kind = "intr" /\ f.of = Probe => stage' = "failed"
      PROVE  ProbeCut'
  BY <1>1, <1>2, Sent DEF ProbeCut
<1>3. CASE up' = up \/ up' = <<>>
  BY <1>1, <1>3 DEF ProbeCut
<1>4. CASE up # <<>> /\ up' = Tail(up)
  <2>1. \A i \in 1..Len(up') : i + 1 \in 1..Len(up) /\ up'[i] = up[i + 1]
    BY <1>1, <1>4
  <2>2. QED
    BY <1>1, <2>1 DEF ProbeCut
<1>5. ASSUME NEW c \in Commands,
             up' = Append(up, Frame("line", c)) \/ up' = Append(up, Frame("intr", c))
      PROVE  ProbeCut'
  <2>1. c \in Runs /\ c # Probe
    BY CommandsAssumption DEF Runs
  <2>2. QED
    BY <1>2, <1>5, <2>1, FramesOf
<1>6. CASE \/ up' = Append(up, Frame("login", Probe)) \/ up' = Append(up, Frame("line", Probe))
           \/ stage' = "failed" /\ up' = Append(up, Frame("intr", Probe))
  <2>1. Probe \in Runs
    BY DEF Runs
  <2>2. QED
    BY <1>2, <1>6, <2>1, FramesOf
<1>7. QED
  BY <1>3, <1>4, <1>5, <1>6, FramesStep

(* A run that settled stays as it is; one that settles now was the waiter, *)
(* or the head of the queue that never started.                            *)
LEMMA Outcomes ==
  ASSUME IInv, Next, NEW c \in Commands
  PROVE  /\ pc[c] \notin {"new", "queued"} => pc'[c] = pc[c]
         /\ pc'[c] # pc[c] => \/ pc[c] = "new" /\ pc'[c] = "queued"
                              \/ pc[c] = "queued" /\ (waiter = c \/ (waiter = None /\ Start))
         /\ pc'[c] = "ok" /\ pc[c] # "ok" =>
              waiter = c /\ \E n \in 1..Len(down) :
                Message(n) /\ Check(buffer \o SubSeq(down, 1, n))
         /\ got'[c] # got[c] => pc'[c] = "ok" /\ pc[c] # "ok"
<1>1. pc \in [Commands -> {"new", "queued"} \cup Over] /\ None # c /\ Login # c /\ Probe # c
      /\ got \in [Commands -> SUBSET Runs] /\ None \notin Runs /\ Login \notin Runs
  BY CommandsAssumption DEF IInv, Typed, TypeOK, Runs
<1>2. ASSUME NEW outcome \in {"timeout", "unheard", "dead"}, Reject(outcome), got' = got
      PROVE  /\ pc[c] \notin {"new", "queued"} => pc'[c] = pc[c]
             /\ pc'[c] # pc[c] => pc[c] = "queued" /\ waiter = c
             /\ ~(pc'[c] = "ok" /\ pc[c] # "ok")
             /\ got'[c] = got[c]
  BY <1>2, Rejected
<1>3. CASE SocketOpens \/ Close \/ Node \/ ShellFloods
  BY <1>3 DEF SocketOpens, Close, client, Node, NodeLogin, TtyLine, TtyInterrupt, ShellReads, ShellPrints, ShellFloods
<1>4. CASE \E d \in Commands : Run(d)
  BY <1>1, <1>4 DEF Run
<1>5. CASE ConnectTimeout \/ SocketCloses
  BY <1>2, <1>5 DEF ConnectTimeout, SocketCloses
<1>6. CASE Start
  <2>1. waiter = None /\ queue # <<>> /\ queue \in Seq(Commands) /\ IsInjective(queue)
    BY <1>6 DEF Start, Startable, IInv, Typed, TypeOK
  <2>2. Head(queue) \in Commands /\ pc[Head(queue)] = "queued"
    BY <2>1, QueueShifts DEF IInv, Typed, TypeOK
  <2>3. pc' = pc \/ \E out \in {"dead", "refused"} : pc' = [pc EXCEPT ![Head(queue)] = out]
    BY <1>6 DEF Start
  <2>4. got' = got
    BY <1>6 DEF Start
  <2>5. QED
    BY <1>1, <1>6, <2>1, <2>2, <2>3, <2>4
<1>7. CASE \E d \in Commands : Deadline(d)
  <2>1. PICK d \in Commands : Deadline(d)
    BY <1>7
  <2>2. Reject(TimeoutOf(d)) /\ TimeoutOf(d) \in {"timeout", "unheard"} /\ got' = got
    BY <2>1 DEF Deadline, TimeoutOf
  <2>3. QED
    BY <1>2, <2>2
<1>8. CASE \E n \in 1..Len(down) : Message(n)
  <2>1. PICK n \in 1..Len(down) : Message(n)
    BY <1>8
  <2> DEFINE text == buffer \o SubSeq(down, 1, n)
  <2>2. Overflow \/ LoginPrompt(text) \/ ProbeFails(text) \/ Check(text)
    BY <2>1 DEF Message
  <2> HIDE DEF text
  <2>3. CASE Overflow \/ LoginPrompt(text) \/ ProbeFails(text)
    BY <1>2, <2>3 DEF Overflow, LoginPrompt, ProbeFails
  <2>4. CASE Check(text)
    <3>1. \/ pc' = pc /\ got' = got
          \/ /\ waiter \in Commands /\ pc' = [pc EXCEPT ![waiter] = "ok"]
             /\ got' = [got EXCEPT ![waiter] = ResultOf(text)]
      BY <2>4 DEF Check, Runs
    <3>2. waiter \in Commands => pc[waiter] = "queued"
      BY QueueShifts DEF IInv, Typed, TypeOK
    <3>3. \E m \in 1..Len(down) : Message(m) /\ Check(buffer \o SubSeq(down, 1, m))
      BY <2>1, <2>4 DEF text
    <3>4. CASE pc' = pc /\ got' = got
      BY <3>4
    <3>5. CASE /\ waiter \in Commands /\ pc' = [pc EXCEPT ![waiter] = "ok"]
               /\ got' = [got EXCEPT ![waiter] = ResultOf(text)]
      <4>1. pc'[c] = IF c = waiter THEN "ok" ELSE pc[c]
        BY <1>1, <3>5
      <4>2. c # waiter => got'[c] = got[c]
        BY <1>1, <3>5
      <4>3. c = waiter => pc[c] = "queued" /\ pc'[c] = "ok"
        BY <3>2, <3>5, <4>1
      <4>4. QED
        BY <3>3, <4>1, <4>2, <4>3
    <3>6. QED
      BY <3>1, <3>4, <3>5
  <2>5. QED
    BY <2>2, <2>3, <2>4
<1>9. QED
  BY <1>3, <1>4, <1>5, <1>6, <1>7, <1>8 DEF Next

LEMMA HeardBefore ==
  ASSUME IInv, Next, AllHeard'
  PROVE  AllHeard /\ Aimed /\ Underway
<1>1. ASSUME NEW c \in Commands PROVE pc[c] # "unheard"
  BY Outcomes DEF AllHeard
<1>2. QED
  BY <1>1 DEF AllHeard, IInv, Heard

-----------------------------------------------------------------------------
(* While every run was heard.                                              *)

LEMMA Flown ==
  ASSUME IInv
  PROVE  /\ Flight \in Seq(Marks) /\ Len(Flight) = Len(buffer) + Len(down)
         /\ Len(buffer) \in Nat /\ Len(down) \in Nat
         /\ \A i \in 1..Len(buffer) : i \in 1..Len(Flight) /\ Flight[i] = buffer[i]
         /\ \A i \in 1..Len(down) : Len(buffer) + i \in 1..Len(Flight)
                                  /\ Flight[Len(buffer) + i] = down[i]
         /\ \A i \in 1..Len(Flight) : Flight[i].of \in Runs
<1>1. buffer \in Seq(Marks) /\ down \in Seq(Marks)
  BY DEF IInv, Typed
<1>2. /\ Flight \in Seq(Marks) /\ Len(Flight) = Len(buffer) + Len(down)
      /\ Len(buffer) \in Nat /\ Len(down) \in Nat
      /\ \A i \in 1..Len(buffer) : Flight[i] = buffer[i]
      /\ \A i \in 1..Len(down) : Flight[Len(buffer) + i] = down[i]
  BY <1>1, Joined DEF Flight
<1>3. \A i \in 1..Len(Flight) : Flight[i].of \in Runs
  BY <1>2, Owned
<1>4. \A i \in 1..Len(buffer) : i \in 1..Len(Flight)
  BY ONLY <1>2
<1>5. \A i \in 1..Len(down) : Len(buffer) + i \in 1..Len(Flight)
  BY ONLY <1>2
<1>6. QED
  BY <1>2, <1>3, <1>4, <1>5

(* A run that times out heard is inside: its output has begun, and nothing *)
(* else is on the way to the shell.                                        *)
LEMMA TimesOutInside ==
  ASSUME IInv, AllHeard, Underway, NEW c \in Commands, Deadline(c), AllHeard'
  PROVE  /\ Inside(c) /\ pc'[c] = "timeout" /\ NoBegin(down)
         /\ fg # None => fg = c /\ next \in {"ERR", "END"}
<1>1. waiter = c /\ TimeoutOf(c) \in {"timeout", "unheard"} /\ Reject(TimeoutOf(c))
  BY DEF Deadline, TimeoutOf
<1>2. pc'[c] = TimeoutOf(c)
  BY <1>1, Rejected
<1>3. TimeoutOf(c) = "timeout"
  BY <1>1, <1>2 DEF AllHeard
<1>4. PICK i \in 1..Len(buffer) : buffer[i].of = c
  BY <1>3 DEF TimeoutOf
<1>5. i \in 1..Len(Flight) /\ Flight[i] \in Marks /\ Flight[i].of = c /\ c # Probe
  BY <1>4, Flown, CommandsAssumption
<1>6. Flight[i].kind \in Printed
  BY <1>5 DEF Marks
<1>7. c \in Runs
  BY DEF Runs
<1>8. Inside(c)
  BY <1>1, <1>5, <1>6, <1>7 DEF Underway, Ahead, NoneOf
<1>9. PICK j \in 1..i : Flight[j].kind = "BEGIN"
  BY <1>5, <1>6, <1>8 DEF Inside, Framed
<1>10. j \in 1..Len(Flight) /\ j \in 1..Len(buffer)
  BY <1>4, <1>5, Flown
<1>11. NoBegin(down)
  <2> SUFFICES ASSUME NEW k \in 1..Len(down), down[k].kind = "BEGIN" PROVE FALSE
    BY DEF NoBegin
  <2>1. Len(buffer) + k \in 1..Len(Flight) /\ Flight[Len(buffer) + k].kind = "BEGIN"
    BY Flown
  <2>2. Len(buffer) + k = j
    BY <1>8, <1>9, <1>10, <2>1 DEF Inside, Framed
  <2>3. QED
    BY <1>10, <2>2, Flown
<1>12. fg # None => fg = c /\ next \in {"ERR", "END"}
  <2>1. fg # None => next # "ask" /\ next \in {"BEGIN", "ERR", "END", "ask"}
    BY DEF IInv, Life, Typed, TypeOK
  <2>2. ~NoBegin(Flight)
    BY <1>9, <1>10 DEF NoBegin
  <2>3. QED
    BY <1>8, <2>1, <2>2 DEF Inside
<1>13. QED
  BY <1>2, <1>3, <1>8, <1>11, <1>12

LEMMA AimedStep ==
  ASSUME IInv, Next, AllHeard'
  PROVE  Aimed'
<1>1. AllHeard /\ Aimed /\ Underway
  BY HeardBefore
<1>2. up \in Seq(Frames)
  BY DEF IInv, Typed
<1>3. \A c \in Commands : pc[c] = "timeout" => pc'[c] = "timeout"
  BY Outcomes
<1>4. CASE Node /\ up # <<>> /\ up' = Tail(up)
  <2>1. \A i \in 1..Len(up') : i + 1 \in 1..Len(up) /\ up'[i] = up[i + 1] /\ i + 1 # 1
    BY <1>2, <1>4
  <2>2. QED
    BY <1>1, <2>1 DEF Aimed
<1>5. CASE up' = <<>>
  BY <1>5 DEF Aimed
<1>6. CASE ShellReads
  <2>1. lines # <<>> /\ up' = up
    BY <1>6 DEF ShellReads
  <2>2. QED
    BY <1>1, <2>1 DEF Aimed
<1>7. CASE ShellPrints \/ ShellFloods
  <2>1. lines' = lines /\ fg' \in {fg, None} /\ up' = up
    BY <1>7 DEF ShellPrints, ShellFloods
  <2>2. QED
    BY <1>1, <1>3, <2>1 DEF Aimed
<1>8. CASE \E c \in Commands : Deadline(c)
  <2>1. PICK c \in Commands : Deadline(c)
    BY <1>8
  <2>2. Inside(c) /\ pc'[c] = "timeout"
    BY <1>1, <2>1, TimesOutInside
  <2>3. up = <<>> /\ lines = <<>> /\ fg \in {c, None}
    BY <2>2 DEF Inside
  <2>4. lines' = lines /\ fg' = fg /\ (up' = up \/ up' = Append(up, Frame("intr", c)))
    BY <2>1 DEF Deadline, Interrupt, shell
  <2>5. up' = <<>> \/ up' = <<Frame("intr", c)>>
    BY <2>3, <2>4
  <2>6. \A i \in 1..Len(up') : i = 1 /\ up'[i].of = c
    <3>1. Frame("intr", c).of = c
      BY DEF Frame
    <3>2. QED
      BY ONLY <2>5, <3>1
  <2>7. QED
    BY <2>2, <2>3, <2>4, <2>6 DEF Aimed
<1>9. CASE lines' = lines /\ fg' = fg /\ (up' = up \/ \E f \in Frames :
             up' = Append(up, f) /\ ~(f.kind = "intr" /\ f.of \in Commands))
  <2>1. \A i \in 1..Len(up') : up'[i].kind = "intr" /\ up'[i].of \in Commands =>
          i \in 1..Len(up) /\ up'[i] = up[i]
    BY <1>2, <1>9, Sent
  <2>2. QED
    BY <1>1, <1>3, <1>9, <2>1 DEF Aimed
<1>10. (lines' = lines /\ fg' = fg) \/ Node \/ ShellFloods
  BY DEF Next, SocketOpens, ConnectTimeout, Start, SocketCloses, Close, Run, Deadline, Message, shell
<1>11. Node => ShellReads \/ ShellPrints \/ (up # <<>> /\ up' = Tail(up))
  BY DEF Node, NodeLogin, TtyLine, TtyInterrupt
<1>12. ASSUME NEW c \in Commands, up' = Append(up, Frame("line", c))
       PROVE  \E f \in Frames : up' = Append(up, f) /\ ~(f.kind = "intr" /\ f.of \in Commands)
  BY <1>12, FramesOf DEF Runs
<1>13. ASSUME \/ up' = Append(up, Frame("login", Probe)) \/ up' = Append(up, Frame("line", Probe))
              \/ up' = Append(up, Frame("intr", Probe))
       PROVE  \E f \in Frames : up' = Append(up, f) /\ ~(f.kind = "intr" /\ f.of \in Commands)
  BY <1>13, FramesOf, CommandsAssumption DEF Runs
<1>14. QED
  BY <1>4, <1>5, <1>6, <1>7, <1>8, <1>9, <1>10, <1>11, <1>12, <1>13, FramesStep

(* When the marks of the waiter's result are complete, nothing of it or of *)
(* an earlier command is left anywhere.                                    *)
LEMMA Completes ==
  ASSUME IInv, Underway, NEW n \in 1..Len(down), Message(n),
         NEW text, text = buffer \o SubSeq(down, 1, n),
         waiter \in Runs, Complete(text)
  PROVE  /\ up = <<>> /\ lines = <<>> /\ fg = None /\ down' = <<>>
         /\ ResultOf(text) = {waiter}
         /\ SubSeq(text, EndOf(text) + 1, Len(text)) = <<>>
<1> DEFINE b == BeginOf(text)
           e == EndOf(text)
           m == Len(text)
<1>1. /\ text \in Seq(Marks) /\ down' \in Seq(Marks) /\ text \o down' = Flight
      /\ Len(down') \in Nat
  <2>1. /\ text \in Seq(Marks) /\ down' \in Seq(Marks) /\ text \o down' = Flight
    BY Arrived
  <2>2. QED
    BY <2>1, Joined
<1>2. /\ m \in Nat /\ b \in 1..m /\ text[b].kind = "BEGIN"
      /\ e \in b..m /\ e \in 1..m /\ text[e].kind = "END"
      /\ e = m => SubSeq(text, e + 1, m) = <<>>
  BY <1>1, CompleteMarks
<1>3. Len(Flight) = m + Len(down') /\ \A i \in 1..m : Flight[i] = text[i]
  BY <1>1, Joined
<1>4. ResultOf(text) = {text[i].of : i \in b..e}
  BY DEF ResultOf
<1> HIDE DEF b, e, m
<1>5. \A i \in 1..m : i \in 1..Len(Flight)
  BY ONLY <1>1, <1>2, <1>3
<1>6. ~NoBegin(Flight)
  BY <1>2, <1>3, <1>5 DEF NoBegin
<1>7. Inside(waiter)
  BY <1>6 DEF Underway, Ahead
<1>8. \A j \in 1..Len(Flight) : j >= b => Flight[j].of = waiter
  BY <1>2, <1>3, <1>5, <1>7 DEF Inside, Framed
<1>9. \A j \in b..e : text[j].of = waiter
  <2> SUFFICES ASSUME NEW j \in b..e PROVE text[j].of = waiter
    OBVIOUS
  <2>1. j \in 1..m /\ j >= b
    BY ONLY <1>2
  <2>2. QED
    BY <1>3, <1>5, <1>8, <2>1
<1>10. ResultOf(text) = {waiter}
  <2>1. e \in b..e
    BY ONLY <1>2
  <2>2. QED
    BY <1>4, <1>9, <2>1
<1>11. e \in 1..Len(Flight) /\ Flight[e].of = waiter /\ Flight[e].kind = "END"
  <2>1. e >= b
    BY ONLY <1>2
  <2>2. QED
    BY <1>2, <1>3, <1>5, <1>8, <2>1
<1>12. fg = None /\ e = Len(Flight)
  BY <1>7, <1>11 DEF Inside
<1>13. Len(down') = 0 /\ e = m
  BY ONLY <1>1, <1>2, <1>3, <1>12
<1>14. down' = <<>>
  BY <1>1, <1>13
<1>15. SubSeq(text, EndOf(text) + 1, Len(text)) = <<>>
  BY <1>2, <1>13 DEF e, m
<1>16. QED
  BY <1>7, <1>10, <1>12, <1>14, <1>15 DEF Inside

LEMMA ResultStep ==
  ASSUME IInv, Next
  PROVE  ResultIsOwnOnceHeard'
<1> SUFFICES ASSUME AllHeard', NEW c \in Commands, pc'[c] = "ok"
             PROVE  got'[c] = {c}
  BY DEF ResultIsOwnOnceHeard
<1>1. AllHeard /\ Underway
  BY HeardBefore
<1>2. CASE pc[c] = "ok"
  <2>1. got'[c] = got[c]
    BY <1>2, Outcomes
  <2>2. QED
    BY <1>1, <1>2, <2>1 DEF IInv, ResultIsOwnOnceHeard
<1>3. CASE pc[c] # "ok"
  <2>1. waiter = c
    BY <1>3, Outcomes
  <2>2. PICK n \in 1..Len(down) : Message(n) /\ Check(buffer \o SubSeq(down, 1, n))
    BY <1>3, Outcomes
  <2> DEFINE text == buffer \o SubSeq(down, 1, n)
  <2>3. c \in Runs /\ c # Probe /\ c # Login
    BY CommandsAssumption DEF Runs
  <2>4. Check(text)
    BY <2>2
  <2> HIDE DEF text
  <2>5. Complete(text) /\ got' = [got EXCEPT ![c] = ResultOf(text)]
    BY <1>3, <2>1, <2>3, <2>4 DEF Check
  <2>6. ResultOf(text) = {c}
    BY <1>1, <2>1, <2>2, <2>3, <2>5, Completes DEF text
  <2>7. got \in [Commands -> SUBSET Runs]
    BY DEF IInv, Typed, TypeOK
  <2>8. QED
    BY <2>5, <2>6, <2>7
<1>4. QED
  BY <1>2, <1>3

LEMMA InterruptStep ==
  ASSUME IInv, Next
  PROVE  InterruptHitsItsOwn'
<1> SUFFICES ASSUME AllHeard', NEW c \in Commands, c \in killed'
             PROVE  pc'[c] \in {"timeout", "dead"}
  BY DEF InterruptHitsItsOwn
<1>1. AllHeard /\ Aimed
  BY HeardBefore
<1>2. pc[c] \in {"timeout", "dead"} => pc'[c] = pc[c]
  BY Outcomes
<1>3. CASE c \in killed
  BY <1>1, <1>2, <1>3 DEF IInv, InterruptHitsItsOwn
<1>4. CASE c \notin killed
  <2>1. TtyInterrupt
    BY <1>4 DEF Next, SocketOpens, ConnectTimeout, Start, SocketCloses, Close, Run, Deadline, Message,
       Node, NodeLogin, TtyLine, ShellReads, ShellPrints, ShellFloods, shell
  <2>2. c \in ToSet(lines) \/ (c = fg /\ fg # None)
    BY <1>4, <2>1 DEF TtyInterrupt
  <2>3. /\ up \in Seq(Frames) /\ lines \in Seq(Runs) /\ up # <<>> /\ up[1].kind = "intr"
        /\ 1 \in 1..Len(up) /\ up[1].of \in Runs
    <3>1. up \in Seq(Frames) /\ up # <<>> /\ Head(up) = up[1] /\ Head(up).kind = "intr" /\ 1 \in 1..Len(up)
      BY <2>1 DEF TtyInterrupt, IInv, Typed
    <3>2. QED
      BY <3>1, Owned DEF IInv, Typed
  <2>4. ToSet(lines) = {lines[i] : i \in 1..Len(lines)}
    BY <2>3 DEF ToSet
  <2>5. CASE up[1].of \in Commands
    <3>1. lines = <<>> /\ fg \in {None, up[1].of} /\ pc[up[1].of] = "timeout"
      BY <1>1, <2>3, <2>5 DEF Aimed
    <3>2. c = up[1].of
      BY <2>2, <2>4, <3>1
    <3>3. QED
      BY <1>2, <3>1, <3>2
  <2>6. CASE up[1].of = Probe
    <3>1. stage = "failed"
      BY <2>3, <2>6 DEF IInv, ProbeCut
    <3>2. (\A i \in 1..Len(lines) : lines[i] = Probe) /\ fg \in {None, Probe}
      BY <3>1 DEF IInv, Opening, OnlyProbe
    <3>3. c = Probe
      BY <2>2, <2>4, <3>2
    <3>4. QED
      BY <3>3, CommandsAssumption
  <2>7. QED
    BY <2>3, <2>5, <2>6 DEF Runs
<1>5. QED
  BY <1>3, <1>4

LEMMA NobodyUnderway ==
  ASSUME IInv, waiter' \notin Runs, stage' # "ready" \/ failure'
  PROVE  Underway'
BY DEF Underway

(* What the shell prints joins the marks that the client has not consumed. *)
LEMMA Later ==
  ASSUME IInv, NEW s \in Seq(Marks), down' = down \o s, buffer' = buffer
  PROVE  /\ Len(Flight') = Len(Flight) + Len(s) /\ Len(Flight) \in Nat /\ Len(s) \in Nat
         /\ \A i \in 1..Len(Flight) : i \in 1..Len(Flight') /\ Flight'[i] = Flight[i]
         /\ \A i \in 1..Len(Flight') : i \notin 1..Len(Flight) =>
              i > Len(Flight) /\ i - Len(Flight) \in 1..Len(s) /\ Flight'[i] = s[i - Len(Flight)]
<1> DEFINE F == Flight
           G == Flight'
           B == Len(buffer)
           D == Len(down)
<1>1. buffer \in Seq(Marks) /\ down \in Seq(Marks) /\ down' \in Seq(Marks)
  BY Joined DEF IInv, Typed
<1>2. /\ Len(F) = B + D /\ B \in Nat /\ D \in Nat /\ Len(s) \in Nat
      /\ \A i \in 1..Len(F) : F[i] = IF i <= B THEN buffer[i] ELSE down[i - B]
  BY <1>1, Joined DEF Flight
<1>3. /\ Len(down') = D + Len(s)
      /\ \A i \in 1..Len(down') : down'[i] = IF i <= D THEN down[i] ELSE s[i - D]
  BY <1>1, Joined
<1>4. G = buffer \o down'
  BY DEF Flight
<1>5. /\ Len(G) = B + Len(down')
      /\ \A i \in 1..Len(G) : G[i] = IF i <= B THEN buffer[i] ELSE down'[i - B]
  BY <1>1, <1>4, Joined
<1> HIDE DEF F, G, B, D
<1>6. Len(G) = Len(F) + Len(s) /\ Len(F) \in Nat
  BY ONLY <1>2, <1>3, <1>5
<1>7. \A i \in 1..Len(F) : i \in 1..Len(G)
  BY ONLY <1>2, <1>6
<1>8. ASSUME NEW i \in 1..Len(F) PROVE G[i] = F[i]
  <2>1. i \in 1..Len(G)
    BY <1>7
  <2>2. CASE i <= B
    BY <1>2, <1>5, <2>1, <2>2
  <2>3. CASE ~(i <= B)
    <3>1. i - B \in 1..Len(down') /\ i - B <= D
      BY ONLY <1>2, <1>3, <2>3
    <3>2. G[i] = down'[i - B] /\ F[i] = down[i - B]
      BY ONLY <1>2, <1>5, <2>1, <2>3
    <3>3. QED
      BY <1>3, <3>1, <3>2
  <2>4. QED
    BY <2>2, <2>3
<1>9. ASSUME NEW i \in 1..Len(G), i \notin 1..Len(F)
      PROVE  i > Len(F) /\ i - Len(F) \in 1..Len(s) /\ G[i] = s[i - Len(F)]
  <2>1. i > Len(F) /\ i - Len(F) \in 1..Len(s) /\ ~(i <= B) /\ i - B \in 1..Len(down')
        /\ ~(i - B <= D) /\ (i - B) - D = i - Len(F)
    BY ONLY <1>2, <1>3, <1>5, <1>6, <1>9
  <2>2. G[i] = down'[i - B]
    BY ONLY <1>5, <2>1
  <2>3. QED
    BY <1>3, <2>1, <2>2
<1>10. QED
  BY <1>2, <1>6, <1>7, <1>8, <1>9 DEF F, G

LEMMA Prints ==
  ASSUME IInv, Underway, NEW s \in Seq(Marks), down' = down \o s, s # <<>>, fg \in Runs,
         \A i \in 1..Len(s) : s[i].of = fg,
         UNCHANGED <<up, lines, buffer, waiter, stage, failure>>,
         \/ /\ next = "BEGIN" /\ next' = "ERR" /\ fg' = fg
            /\ Len(s) = 1 /\ s[1].kind = "BEGIN"
         \/ /\ next \in {"ERR", "END"}
            /\ \A i \in 1..Len(s) : s[i].kind # "BEGIN"
            /\ \/ fg' = fg /\ next' = "END" /\ \A i \in 1..Len(s) : s[i].kind # "END"
               \/ fg' = None /\ Len(s) = 1
  PROVE  Underway'
<1> DEFINE L == Len(Flight)
           Begins == next = "BEGIN" /\ next' = "ERR" /\ fg' = fg /\ Len(s) = 1 /\ s[1].kind = "BEGIN"
           GoesOn == fg' = fg /\ next' = "END" /\ \A i \in 1..Len(s) : s[i].kind # "END"
           Ends == fg' = None /\ Len(s) = 1
<1>1. /\ Len(Flight') = L + Len(s) /\ L \in Nat /\ Len(s) \in Nat
      /\ \A i \in 1..L : i \in 1..Len(Flight') /\ Flight'[i] = Flight[i]
      /\ \A i \in 1..Len(Flight') : i \notin 1..L =>
           i > L /\ i - L \in 1..Len(s) /\ Flight'[i] = s[i - L]
  BY Later
<1>2. Len(s) > 0 /\ None \notin Runs /\ fg # None
  BY CommandsAssumption
<1>3. ~Begins => /\ next \in {"ERR", "END"} /\ \A i \in 1..Len(s) : s[i].kind # "BEGIN"
                 /\ GoesOn \/ Ends
  OBVIOUS
<1> HIDE DEF L
<1>4. \A i \in 1..Len(Flight') : i \notin 1..L => Flight'[i].of = fg
  BY <1>1
<1>5. ~Begins => \A i \in 1..Len(Flight') : i \notin 1..L => Flight'[i].kind # "BEGIN"
  BY <1>1, <1>3
<1>6. ~Begins => Trailing'
  BY <1>3 DEF Trailing
<1>7. Trailing => ~Begins
  BY <1>2 DEF Trailing
<1> HIDE DEF Begins
<1>8. ASSUME NEW x \in Runs, Ahead(x) PROVE Ahead(x)'
  <2>1. fg # x /\ Trailing /\ NoBegin(Flight) /\ NoneOf(x)
    BY <1>8 DEF Ahead
  <2>2. ~Begins /\ fg' # x
    BY <1>2, <1>3, <1>7, <2>1 DEF Begins
  <2>3. NoBegin(Flight')
    BY <1>1, <1>5, <2>1, <2>2 DEF NoBegin, L
  <2>4. NoneOf(x)'
    BY <1>1, <1>4, <2>1 DEF NoneOf, L
  <2>5. QED
    BY <1>6, <1>8, <2>2, <2>3, <2>4 DEF Ahead
<1>9. ASSUME NEW x \in Runs, Inside(x), Begins PROVE Inside(x)'
  <2>1. fg = x /\ fg' = x /\ next' = "ERR" /\ NoBegin(Flight) /\ Framed(x)
        /\ \A i \in 1..L : Flight[i].of = x => Flight[i].kind # "END"
    BY <1>2, <1>9 DEF Begins, Inside, L
  <2>2. Len(Flight') = L + 1 /\ \A i \in 1..Len(Flight') : i \notin 1..L => i = L + 1
    BY <1>1, <1>9 DEF Begins
  <2>3. L + 1 \in 1..Len(Flight') /\ L + 1 \notin 1..L
    BY <1>1, <2>2
  <2>4. Flight'[L + 1] = s[(L + 1) - L] /\ (L + 1) - L = 1
    BY <1>1, <2>3
  <2>5. Flight'[L + 1].kind = "BEGIN" /\ Flight'[L + 1].of = x
    BY <1>4, <1>9, <2>1, <2>3, <2>4 DEF Begins
  <2>6. \A i \in 1..L : Flight'[i].kind # "BEGIN"
    BY <1>1, <2>1 DEF NoBegin, L
  <2>7. \A i \in 1..Len(Flight') : Flight'[i].kind = "BEGIN" => i = L + 1
    BY <2>2, <2>6
  <2>8. \A j \in 1..Len(Flight') : j >= L + 1 => j = L + 1
    BY <1>1, <2>2
  <2>9. ASSUME NEW i \in 1..Len(Flight'), Flight'[i].of = x, Flight'[i].kind \in Printed
        PROVE  \E j \in 1..i : Flight'[j].kind = "BEGIN"
    <3>1. CASE i \in 1..L
      <4>1. \E j \in 1..i : Flight[j].kind = "BEGIN"
        BY <1>1, <2>1, <2>9, <3>1 DEF Framed, L
      <4>2. \A j \in 1..i : j \in 1..L
        BY <1>1, <3>1
      <4>3. QED
        BY <1>1, <4>1, <4>2
    <3>2. CASE i \notin 1..L
      <4>1. i = L + 1 /\ i \in 1..i
        BY <1>1, <2>2, <3>2
      <4>2. QED
        BY <2>5, <4>1
    <3>3. QED
      BY <3>1, <3>2
  <2>10. Framed(x)'
    BY <2>5, <2>7, <2>8, <2>9 DEF Framed
  <2>11. ~NoBegin(Flight')
    BY <2>3, <2>5 DEF NoBegin
  <2>12. \A i \in 1..Len(Flight') : Flight'[i].of = x => Flight'[i].kind # "END"
    BY <1>1, <2>1, <2>2, <2>5
  <2>13. QED
    BY <1>2, <1>9, <2>1, <2>10, <2>11, <2>12 DEF Inside
<1>10. ASSUME NEW x \in Runs, Inside(x), ~Begins PROVE Inside(x)'
  <2>1. fg = x /\ Framed(x) /\ \A i \in 1..L : Flight[i].of = x => Flight[i].kind # "END"
    BY <1>2, <1>10 DEF Inside, L
  <2>2. ~NoBegin(Flight)
    BY <1>3, <1>10, <2>1 DEF Inside
  <2>3. PICK b \in 1..L : Flight[b].kind = "BEGIN"
    BY <2>2 DEF NoBegin, L
  <2>4. \A i \in 1..Len(Flight') : Flight'[i].kind = "BEGIN" => i \in 1..L
    BY <1>5, <1>10
  <2>5. ASSUME NEW i \in 1..Len(Flight'), Flight'[i].kind = "BEGIN", NEW j \in 1..Len(Flight')
        PROVE  (j >= i => Flight'[j].of = x) /\ (Flight'[j].kind = "BEGIN" => j = i)
    <3>1. i \in 1..L /\ Flight[i].kind = "BEGIN"
      BY <1>1, <2>4, <2>5
    <3>2. CASE j \in 1..L
      BY <1>1, <2>1, <3>1, <3>2 DEF Framed, L
    <3>3. CASE j \notin 1..L
      BY <1>4, <2>1, <2>4, <3>3
    <3>4. QED
      BY <3>2, <3>3
  <2>6. ASSUME NEW i \in 1..Len(Flight'), Flight'[i].of = x, Flight'[i].kind \in Printed
        PROVE  \E j \in 1..i : Flight'[j].kind = "BEGIN"
    <3>1. CASE i \in 1..L
      <4>1. \E j \in 1..i : Flight[j].kind = "BEGIN"
        BY <1>1, <2>1, <2>6, <3>1 DEF Framed, L
      <4>2. \A j \in 1..i : j \in 1..L
        BY <1>1, <3>1
      <4>3. QED
        BY <1>1, <4>1, <4>2
    <3>2. CASE i \notin 1..L
      <4>1. b \in 1..i
        BY <1>1, <3>2
      <4>2. QED
        BY <1>1, <2>3, <4>1
    <3>3. QED
      BY <3>1, <3>2
  <2>7. Framed(x)'
    BY <2>5, <2>6 DEF Framed
  <2>8. ~NoBegin(Flight')
    BY <1>1, <2>3 DEF NoBegin
  <2>9. CASE GoesOn
    <3>1. \A i \in 1..Len(Flight') : Flight'[i].of = x => Flight'[i].kind # "END"
      BY <1>1, <2>1, <2>9
    <3>2. QED
      BY <1>2, <1>10, <2>1, <2>7, <2>8, <2>9, <3>1 DEF Inside
  <2>10. CASE Ends
    <3>1. Len(Flight') = L + 1 /\ \A i \in 1..Len(Flight') : i \notin 1..L => i = L + 1
      BY <1>1, <2>10
    <3>2. \A i \in 1..Len(Flight') : Flight'[i].of = x /\ Flight'[i].kind = "END" => i = Len(Flight')
      BY <1>1, <2>1, <3>1
    <3>3. fg' = None /\ x # None
      BY <1>2, <2>10
    <3>4. QED
      BY <1>10, <2>7, <3>2, <3>3 DEF Inside
  <2>11. QED
    BY <1>3, <1>10, <2>9, <2>10
<1>11. ASSUME Between PROVE Between'
  <2>1. Trailing /\ NoBegin(down)
    BY <1>11 DEF Between
  <2>2. ~Begins
    BY <1>7, <2>1
  <2>3. NoBegin(down')
    <3>1. down \in Seq(Marks)
      BY DEF IInv, Typed
    <3>2. \A i \in 1..Len(s) : s[i].kind # "BEGIN"
      BY <1>3, <2>2
    <3>3. \A i \in 1..Len(down) : down[i].kind # "BEGIN"
      BY <2>1 DEF NoBegin
    <3>4. \A i \in 1..Len(down \o s) : (down \o s)[i].kind # "BEGIN"
      BY ONLY <3>1, <3>2, <3>3, s \in Seq(Marks), Joined
    <3>5. QED
      BY <3>4 DEF NoBegin
  <2>4. QED
    BY <1>6, <1>11, <2>2, <2>3 DEF Between
<1>12. QED
  BY <1>8, <1>9, <1>10, <1>11 DEF Underway

LEMMA SameUnderway ==
  ASSUME Underway, UNCHANGED <<stage, failure, down, buffer, waiter, up, lines, fg, next>>
  PROVE  Underway'
BY DEF Underway, Ahead, Inside, Framed, Between, Trailing, NoneOf, NoBegin, Flight

LEMMA ConnectUnderway ==
  ASSUME IInv, Underway, SocketOpens \/ ConnectTimeout \/ SocketCloses \/ Close \/ Start
  PROVE  Underway'
<1> USE DEF shell
<1>1. None \notin Runs /\ Login \notin Runs
  BY CommandsAssumption
<1>2. CASE SocketOpens
  BY <1>1, <1>2, NobodyUnderway DEF SocketOpens
<1>3. CASE ConnectTimeout \/ SocketCloses
  <2>1. waiter' = None /\ (stage' = "failed" \/ failure')
    BY <1>3, Rejected DEF ConnectTimeout, SocketCloses, Connecting
  <2>2. QED
    BY <1>1, <2>1, NobodyUnderway
<1>4. CASE Close
  BY <1>4, SameUnderway DEF Close
<1>5. CASE Start
  <2>0. /\ waiter = None /\ stage = "ready"
        /\ Head(queue) \in Commands /\ pc[Head(queue)] = "queued"
    BY <1>5, QueueShifts DEF Start, Startable, IInv, Typed, TypeOK
  <2>1. PICK c \in Commands : c = Head(queue)
    BY <2>0
  <2>2. CASE failure \/ ~attached \/ c \in TooLong
    <3>1. UNCHANGED <<stage, failure, down, buffer, waiter, up, lines, fg, next>>
      BY <1>5, <2>1, <2>2 DEF Start
    <3>2. QED
      BY <3>1, SameUnderway
  <2>3. CASE ~(failure \/ ~attached \/ c \in TooLong)
    <3>1. /\ buffer' = <<>> /\ up' = Append(up, Frame("line", c)) /\ waiter' = c
          /\ UNCHANGED <<down, lines, fg, next>>
      BY <1>5, <2>1, <2>3 DEF Start
    <3>2. Between /\ Unknown(c) /\ c \in Runs /\ c # None
      BY <1>1, <2>1, <2>0, <2>3 DEF Underway, IInv, NotYet, Runs
    <3>3. up \in Seq(Frames) /\ down \in Seq(Marks)
      BY DEF IInv, Typed
    <3>4. Flight' = down
      BY <3>1, <3>3 DEF Flight
    <3>5. \/ up' = <<Frame("line", c)>>
          \/ Len(up') = 2 /\ up'[1].kind = "intr" /\ up'[2] = Frame("line", c)
      <4>1. CASE up = <<>>
        BY <3>1, <4>1
      <4>2. CASE Len(up) = 1 /\ up[1].kind = "intr"
        <5>1. Frame("line", c) \in Frames
          BY <3>2, FramesOf
        <5>2. Len(up') = Len(up) + 1 /\ up'[Len(up) + 1] = Frame("line", c)
              /\ \A i \in 1..Len(up) : up'[i] = up[i]
          BY <3>1, <3>3, <5>1, Queues
        <5>3. QED
          BY <4>2, <5>2
      <4>3. QED
        BY <3>2, <4>1, <4>2 DEF Between
    <3>6. NoBegin(Flight') /\ NoneOf(c)'
      BY <3>2, <3>4 DEF NoneOf, Unknown, Between
    <3>7. Ahead(c)'
      BY <3>1, <3>2, <3>5, <3>6 DEF Ahead, Between, Trailing, Unknown
    <3>8. QED
      BY <3>1, <3>2, <3>7 DEF Underway
  <2>4. QED
    BY <2>2, <2>3
<1>6. QED
  BY <1>2, <1>3, <1>4, <1>5

LEMMA RunUnderway ==
  ASSUME IInv, AllHeard, AllHeard', Underway, NEW c \in Commands, Run(c) \/ Deadline(c)
  PROVE  Underway'
<1> USE DEF shell
<1>1. CASE Run(c)
  BY <1>1, SameUnderway DEF Run
<1>2. CASE Deadline(c)
  <2>1. Inside(c) /\ NoBegin(down) /\ (fg # None => fg = c /\ next \in {"ERR", "END"})
    BY <1>2, TimesOutInside
  <2>2. waiter' = None
    <3>1. Reject(TimeoutOf(c)) /\ TimeoutOf(c) \in {"timeout", "unheard"}
      BY <1>2 DEF Deadline, TimeoutOf
    <3>2. QED
      BY <3>1, Rejected
  <2>3. /\ UNCHANGED <<down, lines, fg, next>>
        /\ up' = up \/ up' = Append(up, Frame("intr", c))
    BY <1>2 DEF Deadline, Interrupt
  <2>4. up' = <<>> \/ (Len(up') = 1 /\ up'[1].kind = "intr")
    <3>1. up' = <<>> \/ up' = <<Frame("intr", c)>>
      BY <2>1, <2>3 DEF Inside
    <3>2. Frame("intr", c).kind = "intr"
      BY DEF Frame
    <3>3. QED
      BY <3>1, <3>2
  <2>5. Between'
    BY <2>1, <2>3, <2>4 DEF Between, Trailing, Inside
  <2>6. QED
    BY <2>2, <2>5, CommandsAssumption DEF Underway
<1>3. QED
  BY <1>1, <1>2

LEMMA MessageUnderway ==
  ASSUME IInv, Underway, NEW n \in 1..Len(down), Message(n)
  PROVE  Underway'
<1> DEFINE text == buffer \o SubSeq(down, 1, n)
<1> USE DEF shell
<1>1. /\ text \in Seq(Marks) /\ down' \in Seq(Marks) /\ text \o down' = Flight
      /\ Len(down') = Len(down) - n /\ Len(down) \in Nat
      /\ \A i \in 1..Len(down') : down'[i] = down[n + i]
  BY Arrived
<1>2. \A i \in 1..Len(down') : n + i \in 1..Len(down)
  BY <1>1
<1>3. \/ Overflow
      \/ LoginPrompt(text)
      \/ ProbeFails(text)
      \/ Check(text) /\ UNCHANGED <<sock, attached, failure>>
  BY DEF Message
<1>4. UNCHANGED <<lines, fg, next>>
  BY DEF Message
<1> HIDE DEF text
<1>5. None \notin Runs /\ Login \notin Runs
  BY CommandsAssumption
<1>6. CASE Overflow \/ LoginPrompt(text) \/ ProbeFails(text)
  <2>1. waiter' = None
    BY <1>6, Rejected DEF Overflow, LoginPrompt, ProbeFails
  <2>2. Overflow \/ LoginPrompt(text) => failure'
    BY DEF Overflow, LoginPrompt
  <2>3. ProbeFails(text) => stage' # "ready"
    BY Rejected DEF ProbeFails, IInv, Life
  <2>4. QED
    BY <1>5, <1>6, <2>1, <2>2, <2>3, NobodyUnderway
<1>7. CASE Check(text) /\ UNCHANGED <<sock, attached, failure>>
  <2>1. CASE waiter = Login /\ IndexOf(text, "OK", 1) # 0
    <3>1. /\ buffer' = <<>> /\ waiter' = Probe /\ up' = Append(up, Frame("line", Probe))
      BY <1>7, <2>1 DEF Check
    <3>2. stage = "login"
      BY <2>1 DEF IInv, Life
    <3>3. up = <<>> /\ lines = <<>> /\ fg = None
      <4>1. down # <<>>
        BY <1>1
      <4>2. QED
        BY <3>2, <4>1 DEF IInv, Opening, BeforeProbe
    <3>4. up' = <<Frame("line", Probe)>> /\ Flight' = down'
      BY <1>1, <3>1, <3>3 DEF Flight
    <3>5. \A i \in 1..Len(down') : down'[i].kind \in {"OK", "ask"}
      BY <1>1, <1>2, <3>2 DEF IInv, Opening, BeforeProbe
    <3>6. NoBegin(Flight') /\ NoneOf(Probe)'
      BY <3>4, <3>5 DEF NoBegin, NoneOf, Printed
    <3>7. Probe \in Runs
      BY DEF Runs
    <3>8. Ahead(Probe)'
      BY <1>4, <1>5, <3>3, <3>4, <3>6, <3>7 DEF Ahead, Trailing
    <3>9. QED
      BY <1>5, <3>1, <3>7, <3>8 DEF Underway
  <2>2. CASE ~(waiter = Login /\ IndexOf(text, "OK", 1) # 0) /\ waiter \in Runs /\ Complete(text)
    <3>1. waiter' = None /\ up' = up
      BY <1>7, <2>2 DEF Check
    <3>2. up = <<>> /\ lines = <<>> /\ fg = None /\ down' = <<>>
      BY <2>2, Completes DEF text
    <3>3. Between'
      BY <1>4, <3>1, <3>2 DEF Between, Trailing, NoBegin
    <3>4. QED
      BY <1>5, <3>1, <3>3 DEF Underway
  <2>3. CASE /\ ~(waiter = Login /\ IndexOf(text, "OK", 1) # 0)
             /\ ~(waiter \in Runs /\ Complete(text))
    <3>1. buffer' = text /\ UNCHANGED <<stage, waiter, up, failure>>
      BY <1>7, <2>3 DEF Check
    <3>2. Flight' = Flight
      BY <1>1, <3>1 DEF Flight
    <3>3. NoBegin(down) => NoBegin(down')
      BY <1>1, <1>2 DEF NoBegin
    <3>4. ASSUME NEW x \in Runs, Ahead(x) PROVE Ahead(x)'
      BY <1>4, <3>1, <3>2, <3>4 DEF Ahead, Trailing, NoneOf
    <3>5. ASSUME NEW x \in Runs, Inside(x) PROVE Inside(x)'
      BY <1>4, <3>1, <3>2, <3>5 DEF Inside, Framed
    <3>6. Between => Between'
      BY <1>4, <3>1, <3>3 DEF Between, Trailing
    <3>7. QED
      BY <3>1, <3>4, <3>5, <3>6 DEF Underway
  <2>4. QED
    BY <2>1, <2>2, <2>3
<1>8. QED
  BY <1>3, <1>6, <1>7

LEMMA NodeUnderway ==
  ASSUME IInv, AllHeard, Underway, Node \/ ShellFloods
  PROVE  Underway'
<1> USE DEF client
<1>1. /\ up \in Seq(Frames) /\ Len(up) \in Nat /\ lines \in Seq(Runs) /\ down \in Seq(Marks)
      /\ up # <<>> => Head(up) = up[1] /\ 1 \in 1..Len(up)
      /\ None \notin Runs /\ Login \notin Runs
  BY CommandsAssumption DEF IInv, Typed
<1>2. UNCHANGED <<stage, failure, waiter, buffer>>
  BY DEF Node, NodeLogin, TtyLine, TtyInterrupt, ShellReads, ShellPrints, ShellFloods
<1>3. CASE NodeLogin
  <2>1. up[1].kind = "login" /\ 1 \in 1..Len(up)
    BY <1>1, <1>3 DEF NodeLogin
  <2>2. stage \in {"login", "failed"}
    BY <2>1 DEF IInv, Opening, LoginFirst
  <2>3. waiter \notin Runs
    BY <1>1, <2>2 DEF IInv, Life
  <2>4. QED
    BY <1>2, <2>2, <2>3, NobodyUnderway
<1>4. CASE TtyLine
  <2>1. /\ up # <<>> /\ up[1].kind = "line" /\ up' = Tail(up) /\ lines' = Append(lines, up[1].of)
        /\ UNCHANGED <<down, fg, next>>
    BY <1>1, <1>4 DEF TtyLine
  <2>2. Flight' = Flight
    BY <1>2, <2>1 DEF Flight
  <2>3. ~Between /\ \A x \in Runs : ~Inside(x)
    BY <2>1 DEF Between, Inside
  <2>4. ASSUME NEW x \in Runs, Ahead(x) PROVE Ahead(x)'
    <3>1. up = <<Frame("line", x)>> /\ lines = <<>>
      BY <2>1, <2>4 DEF Ahead
    <3>2. up' = <<>> /\ lines' = <<x>>
      <4>1. Frame("line", x).of = x /\ up[1] = Frame("line", x)
        BY <3>1 DEF Frame
      <4>2. QED
        BY <2>1, <3>1, <4>1
    <3>3. QED
      BY <2>1, <2>2, <2>4, <3>2 DEF Ahead, Trailing, NoneOf
  <2>5. QED
    BY <1>2, <2>3, <2>4 DEF Underway
<1>5. CASE TtyInterrupt
  <2>1. /\ up # <<>> /\ up[1].kind = "intr" /\ up' = Tail(up) /\ lines' = <<>> /\ down' = down
        /\ \/ fg' = fg /\ next' = next
           \/ fg' = None
    BY <1>1, <1>5 DEF TtyInterrupt
  <2>2. Flight' = Flight
    BY <1>2, <2>1 DEF Flight
  <2>3. \A x \in Runs : ~Inside(x)
    BY <2>1 DEF Inside
  <2>4. Trailing => Trailing'
    BY <2>1 DEF Trailing
  <2>5. ASSUME NEW x \in Runs, Ahead(x) PROVE Ahead(x)'
    <3>1. Len(up) = 2 /\ up[2] = Frame("line", x)
      <4>1. up # <<Frame("line", x)>>
        BY <2>1 DEF Frame
      <4>2. QED
        BY <2>1, <2>5, <4>1 DEF Ahead
    <3>2. up' = <<Frame("line", x)>>
      <4>1. up' \in Seq(Frames) /\ Len(up') = 1 /\ up'[1] = up[2]
        <5>1. /\ Tail(up) \in Seq(Frames) /\ Len(Tail(up)) = Len(up) - 1
              /\ \A i \in 1..(Len(up) - 1) : Tail(up)[i] = up[i + 1]
          BY <1>1, <2>1, Queues
        <5>2. Len(up) - 1 = 1 /\ 1 \in 1..(Len(up) - 1) /\ 1 + 1 = 2
          BY <3>1
        <5>3. QED
          BY <2>1, <5>1, <5>2
      <4>2. QED
        BY <3>1, <4>1
    <3>3. fg' # x
      BY <1>1, <2>1, <2>5 DEF Ahead
    <3>4. QED
      BY <2>1, <2>2, <2>4, <2>5, <3>2, <3>3 DEF Ahead, NoneOf
  <2>6. ASSUME Between PROVE Between'
    <3>1. up' = <<>>
      BY <1>1, <2>1, <2>6 DEF Between
    <3>2. QED
      BY <2>1, <2>4, <2>6, <3>1 DEF Between
  <2>7. QED
    BY <1>2, <2>3, <2>5, <2>6 DEF Underway
<1>6. CASE ShellReads
  <2>1. /\ fg = None /\ lines # <<>> /\ next = "BEGIN" /\ fg' = Head(lines) /\ lines' = Tail(lines)
        /\ UNCHANGED <<up, down, next>>
    BY <1>6 DEF ShellReads
  <2>2. Flight' = Flight
    BY <1>2, <2>1 DEF Flight
  <2>3. ~Between /\ \A x \in Runs : ~Inside(x)
    BY <2>1 DEF Between, Inside
  <2>4. ASSUME NEW x \in Runs, Ahead(x) PROVE Inside(x)'
    <3>1. up = <<>> /\ lines = <<x>> /\ NoBegin(Flight) /\ NoneOf(x)
      BY <2>1, <2>4 DEF Ahead
    <3>2. up' = <<>> /\ lines' = <<>> /\ fg' = x /\ next' = "BEGIN" /\ x # None
      BY <1>1, <2>1, <3>1
    <3>3. Framed(x)'
      BY <2>2, <3>1 DEF Framed, NoBegin, NoneOf
    <3>4. \A i \in 1..Len(Flight') : Flight'[i].of = x => Flight'[i].kind # "END"
      BY <2>2, <3>1 DEF NoneOf, Printed
    <3>5. QED
      BY <2>2, <3>1, <3>2, <3>3, <3>4 DEF Inside
  <2>5. QED
    BY <1>2, <2>3, <2>4 DEF Underway
<1>7. CASE ShellPrints \/ ShellFloods
  <2>1. CASE sock = "closed"
    <3>1. failure /\ waiter = None
      BY <2>1 DEF IInv, Life, Typed, TypeOK
    <3>2. QED
      BY <1>1, <1>2, <3>1, NobodyUnderway
  <2>2. CASE sock # "closed" /\ ShellPrints
    <3> DEFINE s == <<Frame(next, fg)>>
    <3>1. /\ s \in Seq(Marks) /\ fg \in Runs /\ next \in {"BEGIN", "ERR", "END"}
          /\ next = "BEGIN" => next' = "ERR" /\ fg' = fg
          /\ next = "ERR" => next' = "END" /\ fg' = fg
          /\ next = "END" => next' = "BEGIN" /\ fg' = None
      BY <2>2, ShellPrintsSession
    <3>2. down' = down \o s /\ UNCHANGED <<up, lines>>
      BY <2>2, <3>1, Emitted DEF ShellPrints
    <3>3. s # <<>> /\ Len(s) = 1 /\ s[1].kind = next /\ s[1].of = fg
      BY DEF Frame
    <3> HIDE DEF s
    <3>4. \A i \in 1..Len(s) : s[i].kind = next /\ s[i].of = fg
      BY <3>3
    <3>5. \/ /\ next = "BEGIN" /\ next' = "ERR" /\ fg' = fg
             /\ Len(s) = 1 /\ s[1].kind = "BEGIN"
          \/ /\ next \in {"ERR", "END"}
             /\ \A i \in 1..Len(s) : s[i].kind # "BEGIN"
             /\ \/ fg' = fg /\ next' = "END" /\ \A i \in 1..Len(s) : s[i].kind # "END"
                \/ fg' = None /\ Len(s) = 1
      BY <3>1, <3>3, <3>4
    <3>6. QED
      BY <1>2, <3>1, <3>2, <3>3, <3>4, <3>5, Prints
  <2>3. CASE sock # "closed" /\ ShellFloods
    <3> DEFINE s == <<Frame("flood", fg), Frame("ERR", fg)>>
    <3>1. s \in Seq(Marks) /\ fg \in Runs
      BY <2>3, ShellFloodsSession DEF Runs
    <3>2. down' = down \o s /\ UNCHANGED <<up, lines, fg>> /\ next = "ERR" /\ next' = "END"
      BY <2>3, <3>1, Emitted DEF ShellFloods
    <3>3. s # <<>> /\ \A i \in 1..Len(s) : s[i].of = fg /\ s[i].kind \in {"flood", "ERR"}
      <4>1. \A i \in 1..Len(s) : i = 1 \/ i = 2
        OBVIOUS
      <4>2. s[1] = Frame("flood", fg) /\ s[2] = Frame("ERR", fg) /\ s # <<>>
        OBVIOUS
      <4> HIDE DEF s
      <4>3. QED
        BY <4>1, <4>2 DEF Frame
    <3> HIDE DEF s
    <3>4. /\ next \in {"ERR", "END"} /\ \A i \in 1..Len(s) : s[i].kind # "BEGIN"
          /\ fg' = fg /\ next' = "END" /\ \A i \in 1..Len(s) : s[i].kind # "END"
      BY <3>2, <3>3
    <3>5. QED
      BY <1>2, <3>1, <3>2, <3>3, <3>4, Prints
  <2>4. QED
    BY <1>7, <2>1, <2>2, <2>3
<1>8. QED
  BY <1>3, <1>4, <1>5, <1>6, <1>7 DEF Node

LEMMA HeardStep ==
  ASSUME IInv, Next
  PROVE  Heard'
<1> SUFFICES ASSUME AllHeard' PROVE Aimed' /\ Underway'
  BY DEF Heard
<1>1. AllHeard /\ Underway
  BY HeardBefore
<1>2. QED
  BY <1>1, AimedStep, ConnectUnderway, RunUnderway, MessageUnderway, NodeUnderway DEF Next

-----------------------------------------------------------------------------
(* The theorems.                                                           *)

LEMMA InitIInv ==
  ASSUME Init
  PROVE  IInv
<1> USE DEF Init
<1>1. None \notin Runs \cup {Login} /\ Login \notin Runs /\ Probe \notin Commands
  BY CommandsAssumption
<1>2. /\ up \in Seq(Frames) /\ down \in Seq(Marks) /\ buffer \in Seq(Marks)
      /\ lines \in Seq(Runs) /\ queue \in Seq(Commands)
  OBVIOUS
<1>3. ToSet(queue) = {c \in Commands : pc[c] = "queued"} /\ IsInjective(queue) /\ ToSet(lines) = {}
  BY DEF ToSet, IsInjective
<1>4. pc \in [Commands -> {"new", "queued"} \cup Over] /\ got \in [Commands -> SUBSET Runs]
  OBVIOUS
<1>5. \A s \in {buffer, down, up} : \A i \in 1..Len(s) : s[i].of \in Runs
  OBVIOUS
<1>6. TypeOK
  BY <1>1, <1>3, <1>4, <1>5 DEF TypeOK, Runs
<1>7. Life
  BY <1>1 DEF Life, Connecting, Runs
<1>8. Opening /\ ProbeCut
  BY DEF Opening, OnlyProbe, BeforeProbe, LoginFirst, ProbeCut
<1>9. NotYet
  BY <1>1 DEF NotYet, Unknown, Runs
<1>10. Aimed /\ Underway
  BY <1>1 DEF Aimed, Underway
<1>11. ResultIsOwnOnceHeard /\ InterruptHitsItsOwn
  BY DEF ResultIsOwnOnceHeard, InterruptHitsItsOwn
<1>12. QED
  BY <1>2, <1>6, <1>7, <1>8, <1>9, <1>10, <1>11 DEF IInv, Typed, Heard

LEMMA SessionStep ==
  ASSUME IInv, Next
  PROVE  Typed' /\ Life' /\ Opening'
<1>1. Typed' /\ Life'
  BY SocketOpensSession, ConnectTimeoutSession, StartSession, SocketClosesSession, CloseSession,
     RunSession, DeadlineSession, MessageSession, NodeLoginSession, TtyLineSession,
     TtyInterruptSession, ShellReadsSession, ShellPrintsSession, ShellFloodsSession DEF Next, Node
<1>2. Opening'
  BY ConnectOpening, RunOpening, MessageOpening, NodeOpening DEF Next
<1>3. QED
  BY <1>1, <1>2

LEMMA Stutters ==
  ASSUME IInv, UNCHANGED vars
  PROVE  IInv'
<1> USE DEF vars, client, shell
<1>1. Typed' /\ Life'
  BY DEF IInv, Typed, TypeOK, Life, Connecting
<1>2. Opening' /\ ProbeCut'
  BY DEF IInv, Opening, OnlyProbe, BeforeProbe, LoginFirst, ProbeCut
<1>3. NotYet'
  BY DEF IInv, NotYet, Unknown
<1>4. Flight' = Flight /\ AllHeard' = AllHeard
  BY DEF Flight, AllHeard
<1>5. Heard'
  <2>1. ASSUME NEW x \in Runs PROVE Ahead(x)' = Ahead(x) /\ Inside(x)' = Inside(x)
    BY <1>4 DEF Ahead, Inside, Framed, Trailing, NoneOf
  <2>2. Between' = Between
    BY DEF Between, Trailing
  <2>3. Aimed' = Aimed
    BY DEF Aimed
  <2>4. QED
    BY <1>4, <2>1, <2>2, <2>3 DEF IInv, Heard, Underway
<1>6. ResultIsOwnOnceHeard' /\ InterruptHitsItsOwn'
  BY <1>4 DEF IInv, ResultIsOwnOnceHeard, InterruptHitsItsOwn
<1>7. QED
  BY <1>1, <1>2, <1>3, <1>5, <1>6 DEF IInv

LEMMA NextIInv ==
  ASSUME IInv, [Next]_vars
  PROVE  IInv'
<1>1. CASE Next
  BY <1>1, SessionStep, ProbeCutStep, NotYetStep, HeardStep, ResultStep, InterruptStep DEF IInv
<1>2. QED
  BY <1>1, Stutters

(* The strengthened invariant holds throughout every behaviour.            *)
THEOREM Invariance == Spec => []IInv
BY InitIInv, NextIInv, PTL DEF Spec

(* What is told of a session agrees with what became of it (TypeOK).       *)
THEOREM TypeCorrect == Spec => []TypeOK
<1>1. IInv => TypeOK
  BY DEF IInv, Typed
<1>2. QED
  BY <1>1, Invariance, PTL

(* While every timeout was of a command that was heard, a run's result is  *)
(* its own, although the marks do not say whose they are.                  *)
THEOREM OwnResult == Spec => []ResultIsOwnOnceHeard
<1>1. IInv => ResultIsOwnOnceHeard
  BY DEF IInv
<1>2. QED
  BY <1>1, Invariance, PTL

(* While every timeout was of a command that was heard, the ^C of run()'s  *)
(* deadline reaches no command but the one that timed out.                 *)
THEOREM OwnInterrupt == Spec => []InterruptHitsItsOwn
<1>1. IInv => InterruptHitsItsOwn
  BY DEF IInv
<1>2. QED
  BY <1>1, Invariance, PTL

=============================================================================
