----------------------------- MODULE SerialProofs -----------------------------
(* Theorems about Serial, for any number of callers: nothing the guest     *)
(* prints is lost, an ended console leaves nothing behind, and as long as  *)
(* nothing passes for a prompt, the one that ends a wait is new.           *)
(*                                                                         *)
(* What the guest printed and the emulator has not rendered is spread over *)
(* the chunks in writing and over down, which is behind what is left of    *)
(* the proxy's answer.  The invariant lays it out as one stream.           *)
EXTENDS Serial, FiniteSetTheorems, WellFoundedInduction, TLAPS

Output == [kind : {"text", "sign", "cr", "nl"}, number : {0}] \cup [kind : {"prompt"}, number : Nat]
Answers == [kind : {"O", "K", "no"}, number : {0}]
Screens == [row : Nat, col : Nat, text : {"blank", "prompt", "sign", "other"}, prompt : Nat]
Verdicts == {"new", "waiting", "answered", "early", "stale", "timeout", "failed"}
Chunks == Seq(Output) \ {<<>>}

(* What may pass for a prompt: blanks in front of one, or a $ or # in text.  *)
Loose == decoy

(* A line under way is on record as soon as it is typed.                     *)
Typed ==
  /\ sock \in {"connecting", "open", "closing", "closed"}
  /\ attached \in BOOLEAN /\ auth \in BOOLEAN /\ keepalive \in BOOLEAN
  /\ connect \in {"pending", "resolved", "rejected"}
  /\ answer \in {<<>>, <<Item("O")>>}
  /\ writing \in Seq(Chunks) /\ screen \in Screens
  /\ mark = None \/ mark \in Nat \X Columns
  /\ wait \in [Callers -> Verdicts]
  /\ line \in [Callers -> Nat] /\ shown \in [Callers -> Nat]
  /\ quiet \in [Callers -> BOOLEAN] /\ decoy \in BOOLEAN
  /\ typed \in Seq(Wordings) /\ down \in Seq(Output \cup Answers)
  /\ input \in Nat /\ prompts \in Nat /\ backlog \in Nat /\ greeted \in BOOLEAN
  /\ \A i \in 1..Len(typed) : typed[i] # "text" => decoy

(* A console that is not attached is over, one that the proxy has not        *)
(* answered has received nothing, and an answer is an OK or a refusal.       *)
Refused == answer = <<>> /\ Len(down) = 1 /\ down[1] = Item("no")
Accepted ==
  \/ answer = <<>> /\ Len(down) >= 2 /\ down[1] = Item("O") /\ down[2] = Item("K")
  \/ answer = <<Item("O")>> /\ Len(down) >= 1 /\ down[1] = Item("K")
Life ==
  /\ attached <=> sock \in {"connecting", "open"}
  /\ ~attached => typed = <<>> /\ down = <<>>
  /\ sock = "connecting" => ~greeted
  /\ ~greeted => down = <<>> /\ ~auth
  /\ ~attached \/ ~greeted \/ auth => answer = <<>>
  /\ attached /\ greeted /\ ~auth => Refused \/ Accepted

(* Who does not wait has no line under way, and who waits saw no prompt that *)
(* the screen has not shown.                                                 *)
AtRest(c) ==
  /\ wait[c] # "waiting" => line[c] = 0 /\ shown[c] = 0
  /\ wait[c] = "new" => ~quiet[c]
  /\ wait[c] = "waiting" => shown[c] <= screen.prompt

(* The shell has no more prompts to print than one and one for every line.   *)
Most == Cardinality(Callers) + 1
New == {c \in Callers : wait[c] = "new"}
Budget == Before + Cardinality(New) <= Most

(* What the proxy answered and the client has not read, in front of down.    *)
Lead ==
  IF ~attached \/ ~greeted \/ auth THEN 0
  ELSE IF down[1].kind = "no" THEN 1 ELSE 2 - Len(answer)

(* The stream q: items ends[a - 1] + 1 to ends[a] are the a-th of the chunks *)
(* w, and what follows, up to item number to, is in d behind the first lead. *)
Laid(w, d, lead, q, ends, to) ==
  /\ lead \in 0..Len(d) /\ to \in Nat
  /\ ends \in [0..Len(w) -> Nat]
  /\ \A a \in 1..Len(w) :
       /\ ends[a] = ends[a - 1] + Len(w[a])
       /\ \A b \in 1..Len(w[a]) : w[a][b] = q[ends[a - 1] + b]
  /\ to + lead = ends[Len(w)] + Len(d)
  /\ \A b \in 1..(Len(d) - lead) : d[lead + b] = q[ends[Len(w)] + b]
  /\ \A i \in (ends[0] + 1)..to : q[i] \in Output

(* The column is bounded by the prompts and the text on the line.            *)
Bounded(s) ==
  /\ s.text \in {"blank", "prompt"} => s.col <= s.prompt
  /\ s.text = "sign" => s.col <= s.prompt + 1 /\ s.prompt < Most
  /\ s.text = "other" => s.col <= s.prompt + 2 /\ s.prompt < Most
  /\ s.prompt <= Most
  /\ s.text = "prompt" => s.prompt > 0

(* Text is ended by a newline, and unless something passes for a prompt, a   *)
(* carriage return is behind text.                                           *)
Begins(text, kind, loose) ==
  /\ text = "other" => kind \in {"cr", "nl"}
  /\ text = "sign" => kind \in {"text", "cr", "nl"}
  /\ ~loose /\ kind = "cr" => text = "other"
Follows(a, b, loose) ==
  /\ a = "text" => b \in {"cr", "nl"}
  /\ a = "sign" => b \in {"text", "cr", "nl"}
  /\ a = "cr" => b = "nl"
  /\ ~loose /\ b = "cr" => a = "text"

(* Behind screen s come items from + 1 to to of q, with the prompts in the   *)
(* order of their numbers up to last.                                        *)
Legal(s, q, from, to, last, loose) ==
  /\ s.text = "sign" => loose
  /\ from < to => Begins(s.text, q[from + 1].kind, loose)
  /\ \A i \in (from + 1)..(to - 1) : Follows(q[i].kind, q[i + 1].kind, loose)
  /\ \A i \in (from + 1)..to :
       /\ q[i].kind = "prompt" => s.prompt < q[i].number /\ q[i].number <= last
       /\ q[i].kind = "sign" => loose
       /\ q[i].kind \in {"text", "sign"} => s.prompt < Most
  /\ \A i, j \in (from + 1)..to :
       j < i /\ q[j].kind = "prompt" =>
         /\ q[i].kind = "prompt" => q[j].number < q[i].number
         /\ q[i].kind \in {"text", "sign"} => q[j].number < Most

Complete(s, q, from, to) ==
  IF from = to THEN s.text \notin {"sign", "other"} ELSE q[to].kind \in {"nl", "prompt"}

(* A wait that its caller had to itself gets the prompts behind its line.    *)
Undisturbed(c, q, from, to) ==
  quiet[c] /\ wait[c] = "waiting" =>
    /\ line[c] <= prompts
    /\ screen.prompt <= shown[c] \/ screen.prompt > line[c]
    /\ \A i \in (from + 1)..to : q[i].kind = "prompt" => q[i].number > line[c]

Holds(q, from, to) ==
  /\ Legal(screen, q, from, to, prompts, Loose)
  /\ screen.prompt <= prompts
  /\ to <= from + backlog
  /\ attached => from + backlog = to /\ Complete(screen, q, from, to)
  /\ \A c \in Callers : Undisturbed(c, q, from, to)

Spread(q, ends, to) == Laid(writing, down, Lead, q, ends, to)
Stream == \E q, ends, to : Spread(q, ends, to) /\ Holds(q, ends[0], to)

IInv ==
  /\ Typed /\ Life /\ NothingLeftBehind /\ Budget /\ Bounded(screen) /\ Stream
  /\ \A c \in Callers : AtRest(c)
  /\ PromptIsNew

-----------------------------------------------------------------------------
(* Induction up to a number.                                               *)
LEMMA Reaches ==
  ASSUME NEW k \in Nat, NEW S, 0 \in S, \A n \in 0..(k - 1) : n \in S => n + 1 \in S
  PROVE  \A n \in 0..k : n \in S
<1> DEFINE R == OpToRel(<, Nat)
           T == (0..k) \ S
<1>1. IsWellFoundedOn(R, Nat)
  BY NatLessThanWellFounded
<1>2. \A m, n \in Nat : m < n => <<m, n>> \in R
  BY DEF OpToRel
<1>3. T \subseteq Nat /\ \A n \in 0..k : n \in S \/ n \in T
  OBVIOUS
<1>4. \A n \in T : n \in 0..k /\ n \notin S
  OBVIOUS
<1> HIDE DEF R, T
<1>5. ASSUME T # {} PROVE FALSE
  <2>1. PICK m \in T : \A n \in T : ~(<<n, m>> \in R)
    BY <1>1, <1>3, <1>5, WFMin
  <2>2. m \in 0..k /\ m # 0
    BY <1>4, <2>1
  <2>3. m - 1 \in 0..(k - 1) /\ (m - 1) + 1 = m /\ m - 1 \in 0..k /\ m - 1 \in Nat /\ m - 1 < m /\ m \in Nat
    BY ONLY <2>2, k \in Nat
  <2>4. m - 1 \notin T
    BY <1>2, <2>1, <2>3
  <2>5. m - 1 \in S
    BY <1>3, <2>3, <2>4
  <2>6. m \in S
    BY <2>3, <2>5
  <2>7. QED
    BY <1>4, <2>1, <2>6
<1>6. QED
  BY <1>3, <1>5

(* The screens that a chunk goes through.                                  *)
Renders(g, s, chunk, n) ==
  g = [i \in 0..n |-> IF i = 0 THEN s ELSE Put(g[i - 1], chunk[i])]

LEMMA Rendering ==
  ASSUME NEW s, NEW chunk, Len(chunk) \in Nat
  PROVE  \E g : Renders(g, s, chunk, Len(chunk)) /\ Parsed(s, chunk) = g[Len(chunk)]
<1> DEFINE S == {n \in Nat : \E g : Renders(g, s, chunk, n)}
<1>1. 0 \in S
  <2>1. Renders([i \in 0..0 |-> s], s, chunk, 0)
    BY DEF Renders
  <2>2. QED
    BY <2>1
<1>2. ASSUME NEW n \in 0..(Len(chunk) - 1), n \in S PROVE n + 1 \in S
  <2>1. PICK g : Renders(g, s, chunk, n)
    BY <1>2
  <2>2. g = [i \in 0..n |-> IF i = 0 THEN s ELSE Put(g[i - 1], chunk[i])]
    BY <2>1 DEF Renders
  <2> DEFINE h == [i \in 0..(n + 1) |-> IF i <= n THEN g[i] ELSE Put(g[n], chunk[n + 1])]
  <2>3. ASSUME NEW i \in 0..(n + 1)
        PROVE  h[i] = IF i = 0 THEN s ELSE Put(h[i - 1], chunk[i])
    <3>1. CASE i = 0
      <4>1. h[i] = g[0] /\ g[0] = s
        BY <2>2, <3>1
      <4>2. QED
        BY <3>1, <4>1
    <3>2. CASE i # 0 /\ i <= n
      <4>1. i \in 0..n /\ i - 1 \in 0..(n + 1) /\ i - 1 <= n
        BY <3>2
      <4>2. h[i] = g[i] /\ h[i - 1] = g[i - 1]
        BY <3>2, <4>1
      <4>3. g[i] = Put(g[i - 1], chunk[i])
        BY ONLY <2>2, <3>2, <4>1
      <4> HIDE DEF h
      <4>4. QED
        BY <3>2, <4>2, <4>3
    <3>3. CASE i = n + 1
      <4>1. n \in 0..(n + 1) /\ i - 1 = n /\ i # 0
        BY <3>3
      <4>2. h[i] = Put(g[n], chunk[n + 1]) /\ h[n] = g[n]
        BY <3>3, <4>1
      <4> HIDE DEF h
      <4>3. QED
        BY <3>3, <4>1, <4>2
    <3>4. QED
      BY <3>1, <3>2, <3>3
  <2>4. Renders(h, s, chunk, n + 1)
    <3>1. h = [i \in 0..(n + 1) |-> h[i]]
      OBVIOUS
    <3> HIDE DEF h
    <3>2. QED
      BY <2>3, <3>1 DEF Renders
  <2> HIDE DEF h
  <2>5. QED
    BY <2>4
<1> HIDE DEF S
<1>3. Len(chunk) \in S
  <2>1. \A n \in 0..Len(chunk) : n \in S
    BY <1>1, <1>2, Reaches
  <2>2. Len(chunk) \in 0..Len(chunk)
    OBVIOUS
  <2>3. QED
    BY <2>1, <2>2
<1>4. \E g : Renders(g, s, chunk, Len(chunk))
  BY <1>3 DEF S
<1> DEFINE f == CHOOSE g : g = [i \in 0..Len(chunk) |-> IF i = 0 THEN s ELSE Put(g[i - 1], chunk[i])]
<1>5. Renders(f, s, chunk, Len(chunk))
  BY <1>4 DEF Renders
<1>6. Parsed(s, chunk) = f[Len(chunk)]
  BY DEF Parsed
<1> HIDE DEF f
<1>7. QED
  BY <1>5, <1>6

(* Screen s has items from + 1 to to of q before it, and takes one of them.  *)
Awaits(s, q, from, to, last, loose) ==
  /\ s \in Screens /\ Bounded(s) /\ Legal(s, q, from, to, last, loose)
  /\ from < to /\ \A i \in (from + 1)..to : q[i] \in Output
Takes(s, t, q, from, to, last, loose) ==
  /\ t \in Screens /\ Bounded(t)
  /\ Legal(t, q, from + 1, to, last, loose)
  /\ Complete(s, q, from, to) => Complete(t, q, from + 1, to)
  /\ s.prompt <= t.prompt
  /\ ~loose /\ t.text = "prompt" => s.prompt < t.prompt
  /\ t.prompt = s.prompt \/ (q[from + 1].kind = "prompt" /\ t.prompt = q[from + 1].number)

(* One more item on the screen.                                            *)
LEMMA Putting ==
  ASSUME NEW s, NEW q, NEW from \in Nat, NEW to \in Nat, NEW last \in Nat,
         NEW loose \in BOOLEAN, last <= Most, Most \in Nat, Awaits(s, q, from, to, last, loose)
  PROVE  Takes(s, Put(s, q[from + 1]), q, from, to, last, loose)
<1> USE DEF Awaits
<1> DEFINE x == q[from + 1]
           t == Put(s, q[from + 1])
<1>1. from + 1 \in (from + 1)..to /\ x \in Output
  OBVIOUS
<1>2. x.kind \in {"text", "sign", "cr", "nl", "prompt"} /\ x.number \in Nat
  BY <1>1 DEF Output
<1>3. /\ s.row \in Nat /\ s.col \in Nat /\ s.text \in {"blank", "prompt", "sign", "other"} /\ s.prompt \in Nat
  BY DEF Screens
<1>4. \A i \in (from + 1)..to : q[i].number \in Nat /\ q[i].kind \in {"text", "sign", "cr", "nl", "prompt"}
  BY DEF Output
<1>5. /\ Begins(s.text, x.kind, loose)
      /\ x.kind = "prompt" => s.prompt < x.number /\ x.number <= last
      /\ x.kind \in {"text", "sign"} => s.prompt < Most
      /\ s.text = "sign" \/ x.kind = "sign" => loose
      /\ from + 1 < to => Follows(x.kind, q[(from + 1) + 1].kind, loose)
  <2>1. from + 1 < to => from + 1 \in (from + 1)..(to - 1)
    OBVIOUS
  <2>2. QED
    BY <1>1, <2>1 DEF Legal
<1>6. /\ \A i \in ((from + 1) + 1)..(to - 1) : i \in (from + 1)..(to - 1)
      /\ \A i \in ((from + 1) + 1)..to : i \in (from + 1)..to /\ from + 1 < i
  OBVIOUS
<1>7. \A i \in ((from + 1) + 1)..(to - 1) : Follows(q[i].kind, q[i + 1].kind, loose)
  BY <1>6 DEF Legal
<1>8. \A i, j \in ((from + 1) + 1)..to :
        j < i /\ q[j].kind = "prompt" =>
          /\ q[i].kind = "prompt" => q[j].number < q[i].number
          /\ q[i].kind \in {"text", "sign"} => q[j].number < Most
  BY <1>6 DEF Legal
<1>9. \A i \in ((from + 1) + 1)..to :
        /\ q[i].kind = "prompt" => /\ s.prompt < q[i].number /\ q[i].number <= last
                                   /\ x.kind = "prompt" => x.number < q[i].number
        /\ q[i].kind = "sign" => loose
        /\ q[i].kind \in {"text", "sign"} => /\ s.prompt < Most
                                             /\ x.kind = "prompt" => x.number < Most
  BY <1>1, <1>6 DEF Legal
<1>10. /\ t = [row |-> t.row, col |-> t.col, text |-> t.text, prompt |-> t.prompt]
       /\ x.kind = "prompt" =>
            t.row = s.row /\ t.col = s.col + 1 /\ t.text = "prompt" /\ t.prompt = x.number
       /\ x.kind = "text" =>
            t.row = s.row /\ t.col = s.col + 1 /\ t.text = "other" /\ t.prompt = s.prompt
       /\ x.kind = "sign" =>
            t.row = s.row /\ t.col = s.col + 1 /\ t.text = "sign" /\ t.prompt = s.prompt
       /\ x.kind = "cr" =>
            t.row = s.row /\ t.col = 0 /\ t.text = s.text /\ t.prompt = s.prompt
       /\ x.kind = "nl" =>
            t.row = s.row + 1 /\ t.col = 0 /\ t.text = "blank" /\ t.prompt = s.prompt
  <2>1. s = [row |-> s.row, col |-> s.col, text |-> s.text, prompt |-> s.prompt]
    BY DEF Screens
  <2>2. CASE x.kind = "prompt"
    <3>1. t = [row |-> s.row, col |-> s.col + 1, text |-> "prompt", prompt |-> x.number]
      BY <2>1, <2>2 DEF Put
    <3>2. QED
      BY <2>2, <3>1
  <2>3. CASE x.kind = "text"
    <3>1. t = [row |-> s.row, col |-> s.col + 1, text |-> "other", prompt |-> s.prompt]
      BY <2>1, <2>3 DEF Put
    <3>2. QED
      BY <2>3, <3>1
  <2>4. CASE x.kind = "cr"
    <3>1. t = [row |-> s.row, col |-> 0, text |-> s.text, prompt |-> s.prompt]
      BY <2>1, <2>4 DEF Put
    <3>2. QED
      BY <2>4, <3>1
  <2>5. CASE x.kind = "nl"
    <3>1. t = [row |-> s.row + 1, col |-> 0, text |-> "blank", prompt |-> s.prompt]
      BY <2>1, <2>5 DEF Put
    <3>2. QED
      BY <2>5, <3>1
  <2>6. CASE x.kind = "sign"
    <3>1. t = [row |-> s.row, col |-> s.col + 1, text |-> "sign", prompt |-> s.prompt]
      BY <2>1, <2>6 DEF Put
    <3>2. QED
      BY <2>6, <3>1
  <2>7. QED
    BY <1>2, <2>2, <2>3, <2>4, <2>5, <2>6
<1> HIDE DEF t, x
<1>11. /\ t \in Screens
       /\ t.row \in Nat /\ t.col \in Nat /\ t.text \in {"blank", "prompt", "sign", "other"} /\ t.prompt \in Nat
  <2>1. t.row \in Nat /\ t.col \in Nat /\ t.text \in {"blank", "prompt", "sign", "other"} /\ t.prompt \in Nat
    BY <1>2, <1>3, <1>10
  <2>2. QED
    BY <1>10, <2>1 DEF Screens
<1>12. Bounded(t)
  <2>1. Bounded(s)
    OBVIOUS
  <2>2. CASE x.kind = "prompt"
    BY ONLY <1>3, <1>5, <1>10, <1>11, <2>1, <2>2, <1>2, last <= Most, last \in Nat, Most \in Nat DEF Bounded, Begins
  <2>3. CASE x.kind = "text"
    BY ONLY <1>3, <1>5, <1>10, <1>11, <2>1, <2>3, <1>2, Most \in Nat DEF Bounded, Begins
  <2>4. CASE x.kind = "sign"
    BY ONLY <1>3, <1>5, <1>10, <1>11, <2>1, <2>4, <1>2, Most \in Nat DEF Bounded, Begins
  <2>5. CASE x.kind \in {"cr", "nl"}
    BY ONLY <1>3, <1>5, <1>10, <1>11, <2>1, <2>5, <1>2, Most \in Nat DEF Bounded
  <2>6. QED
    BY <1>2, <2>2, <2>3, <2>4, <2>5
<1>13. /\ s.prompt <= t.prompt
       /\ ~loose /\ t.text = "prompt" => s.prompt < t.prompt
       /\ t.prompt = s.prompt \/ (x.kind = "prompt" /\ t.prompt = x.number)
  <2>1. CASE x.kind = "prompt"
    BY ONLY <1>2, <1>3, <1>5, <1>10, <2>1
  <2>2. CASE x.kind # "prompt"
    BY ONLY <1>2, <1>3, <1>5, <1>10, <2>2 DEF Begins
  <2>3. QED
    BY <2>1, <2>2
<1>14. Legal(t, q, from + 1, to, last, loose)
  <2>1. from + 1 < to => Begins(t.text, q[(from + 1) + 1].kind, loose)
    BY <1>2, <1>3, <1>5, <1>10 DEF Begins, Follows
  <2>2. \A i \in ((from + 1) + 1)..to :
          /\ q[i].kind = "prompt" => t.prompt < q[i].number /\ q[i].number <= last
          /\ q[i].kind = "sign" => loose
          /\ q[i].kind \in {"text", "sign"} => t.prompt < Most
    BY <1>9, <1>13
  <2>3. t.text = "sign" => loose
    BY <1>2, <1>5, <1>10
  <2>4. QED
    BY <1>7, <1>8, <2>1, <2>2, <2>3 DEF Legal
<1>15. Complete(s, q, from, to) => Complete(t, q, from + 1, to)
  <2>1. CASE from + 1 = to
    <3>1. Complete(s, q, from, to) => x.kind \in {"nl", "prompt"}
      BY <2>1 DEF Complete, x
    <3>2. QED
      BY <1>10, <2>1, <3>1 DEF Complete
  <2>2. CASE from + 1 # to
    BY <2>2 DEF Complete
  <2>3. QED
    BY <2>1, <2>2
<1>16. QED
  BY ONLY <1>11, <1>12, <1>13, <1>14, <1>15 DEF t, x, Takes

(* A chunk that is the stream behind from, a stream that can be rendered,  *)
(* and a stream laid out from item number at + 1 on.                       *)
Portion(chunk, q, from) == \A b \in 1..Len(chunk) : chunk[b] = q[from + b]
Printable(q, from, to) == \A i \in (from + 1)..to : q[i] \in Output
Left(w, d, lead, q, at, to) == \E rest : Laid(w, d, lead, q, rest, to) /\ rest[0] = at

(* Screen t shows items from + 1 to at of q behind screen s.               *)
Shows(s, t, q, from, at, to, last, loose) ==
  /\ t \in Screens /\ Bounded(t)
  /\ Legal(t, q, at, to, last, loose)
  /\ Complete(s, q, from, to) => Complete(t, q, at, to)
  /\ s.prompt <= t.prompt /\ t.prompt <= last
  /\ ~loose /\ t.text = "prompt" => s.prompt < t.prompt
  /\ \/ t.prompt = s.prompt
     \/ \E i \in (from + 1)..at : q[i].kind = "prompt" /\ t.prompt = q[i].number

(* A chunk on the screen.                                                  *)
LEMMA ChunkRendered ==
  ASSUME NEW s \in Screens, NEW q, NEW from \in Nat, NEW to \in Nat, NEW last \in Nat,
         NEW loose \in BOOLEAN, last <= Most, Most \in Nat,
         NEW chunk, Len(chunk) \in Nat, Len(chunk) > 0, from + Len(chunk) <= to,
         Portion(chunk, q, from), Printable(q, from, to),
         Bounded(s), Legal(s, q, from, to, last, loose), s.prompt <= last
  PROVE  Shows(s, Parsed(s, chunk), q, from, from + Len(chunk), to, last, loose)
<1> USE DEF Portion, Printable, Shows
<1>1. PICK g : Renders(g, s, chunk, Len(chunk)) /\ Parsed(s, chunk) = g[Len(chunk)]
  BY Rendering
<1>2. g = [i \in 0..Len(chunk) |-> IF i = 0 THEN s ELSE Put(g[i - 1], chunk[i])]
  BY <1>1 DEF Renders
<1>3. g[0] = s /\ \A i \in 1..Len(chunk) : g[i] = Put(g[i - 1], chunk[i])
  <2>1. g[0] = s
    BY <1>2
  <2>2. ASSUME NEW i \in 1..Len(chunk) PROVE g[i] = Put(g[i - 1], chunk[i])
    <3>1. i \in 0..Len(chunk) /\ i # 0
      OBVIOUS
    <3>2. QED
      BY ONLY <1>2, <3>1
  <2>3. QED
    BY <2>1, <2>2
<1> DEFINE Reached(t, n) ==
             /\ t \in Screens /\ Bounded(t)
             /\ Legal(t, q, from + n, to, last, loose)
             /\ Complete(s, q, from, to) => Complete(t, q, from + n, to)
             /\ s.prompt <= t.prompt /\ t.prompt <= last
             /\ n > 0 /\ ~loose /\ t.text = "prompt" => s.prompt < t.prompt
             /\ \/ t.prompt = s.prompt
                \/ \E i \in (from + 1)..(from + n) : q[i].kind = "prompt" /\ t.prompt = q[i].number
           S == {n \in Nat : Reached(g[n], n)}
<1>4. 0 \in S
  <2>1. s.prompt \in Nat /\ from + 0 = from
    BY DEF Screens
  <2>2. Reached(s, 0)
    <3>1. Legal(s, q, from + 0, to, last, loose)
      BY <2>1
    <3>2. Complete(s, q, from, to) => Complete(s, q, from + 0, to)
      BY <2>1
    <3>3. QED
      BY <2>1, <3>1, <3>2
  <2> HIDE DEF Reached
  <2>3. QED
    BY <1>3, <2>2
<1>5. ASSUME NEW n \in 0..(Len(chunk) - 1), n \in S PROVE n + 1 \in S
  <2>1. Reached(g[n], n) /\ n \in Nat
    BY <1>5
  <2>2. /\ n + 1 \in 1..Len(chunk) /\ (n + 1) - 1 = n /\ from + n \in Nat /\ from + n < to
        /\ (from + n) + 1 = from + (n + 1) /\ \A i \in ((from + n) + 1)..to : i \in (from + 1)..to
        /\ from + (n + 1) \in (from + 1)..to /\ from + (n + 1) \in (from + 1)..(from + (n + 1))
        /\ \A i \in (from + 1)..(from + n) : i \in (from + 1)..(from + (n + 1))
        /\ n + 1 \in Nat /\ n + 1 > 0
    OBVIOUS
  <2>3. g[n + 1] = Put(g[n], q[(from + n) + 1])
    <3>1. g[n + 1] = Put(g[(n + 1) - 1], chunk[n + 1])
      BY ONLY <1>3, <2>2
    <3>2. chunk[n + 1] = q[from + (n + 1)]
      BY <2>2
    <3>3. QED
      BY ONLY <2>2, <3>1, <3>2
  <2>4. \A i \in ((from + n) + 1)..to : q[i] \in Output
    BY <2>2
  <2> DEFINE t == Put(g[n], q[(from + n) + 1])
  <2>5. /\ t \in Screens /\ Bounded(t)
        /\ Legal(t, q, (from + n) + 1, to, last, loose)
        /\ Complete(g[n], q, from + n, to) => Complete(t, q, (from + n) + 1, to)
        /\ g[n].prompt <= t.prompt
        /\ ~loose /\ t.text = "prompt" => g[n].prompt < t.prompt
        /\ \/ t.prompt = g[n].prompt
           \/ q[(from + n) + 1].kind = "prompt" /\ t.prompt = q[(from + n) + 1].number
    <3>1. g[n] \in Screens /\ Bounded(g[n]) /\ Legal(g[n], q, from + n, to, last, loose)
      BY <2>1
    <3>2. Awaits(g[n], q, from + n, to, last, loose)
      BY ONLY <2>2, <2>4, <3>1 DEF Awaits
    <3>3. from + n \in Nat
      BY <2>2
    <3> HIDE DEF t
    <3>4. Takes(g[n], t, q, from + n, to, last, loose)
      BY ONLY <3>2, <3>3, Putting, to \in Nat, last \in Nat, loose \in BOOLEAN,
              last <= Most, Most \in Nat DEF t
    <3>5. QED
      BY ONLY <3>4 DEF Takes
  <2>6. s.prompt \in Nat /\ g[n].prompt \in Nat /\ t.prompt \in Nat
    BY <2>1, <2>5 DEF Screens
  <2> HIDE DEF t
  <2>7. t.prompt <= last
    <3>1. g[n].prompt <= last
      BY <2>1
    <3>2. q[(from + n) + 1].kind = "prompt" => q[(from + n) + 1].number <= last
      BY <2>1, <2>2 DEF Legal
    <3> HIDE DEF Reached, S
    <3>3. QED
      BY <2>5, <3>1, <3>2
  <2>8. Reached(t, n + 1)
    <3>1. Legal(t, q, from + (n + 1), to, last, loose)
      BY <2>2, <2>5
    <3>2. Complete(s, q, from, to) => Complete(t, q, from + (n + 1), to)
      BY <2>1, <2>2, <2>5
    <3>3. s.prompt <= t.prompt /\ (~loose /\ t.text = "prompt" => s.prompt < t.prompt)
      <4>1. s.prompt <= g[n].prompt
        BY <2>1
      <4>2. QED
        BY ONLY <2>5, <2>6, <4>1
    <3>4. \/ t.prompt = s.prompt
          \/ \E i \in (from + 1)..(from + (n + 1)) : q[i].kind = "prompt" /\ t.prompt = q[i].number
      <4>1. \/ g[n].prompt = s.prompt
            \/ \E i \in (from + 1)..(from + n) : q[i].kind = "prompt" /\ g[n].prompt = q[i].number
        BY <2>1
      <4>2. QED
        BY ONLY <2>2, <2>5, <4>1
    <3>5. QED
      BY <2>5, <2>7, <3>1, <3>2, <3>3, <3>4
  <2> HIDE DEF Reached
  <2>9. QED
    BY <2>2, <2>3, <2>8 DEF t
<1> HIDE DEF S
<1>6. Len(chunk) \in S
  <2>1. \A n \in 0..Len(chunk) : n \in S
    BY <1>4, <1>5, Reaches
  <2>2. Len(chunk) \in 0..Len(chunk)
    OBVIOUS
  <2>3. QED
    BY <2>1, <2>2
<1>7. Reached(g[Len(chunk)], Len(chunk))
  BY <1>6 DEF S
<1>8. QED
  BY <1>1, <1>7

-----------------------------------------------------------------------------
(* The stream's layout.                                                    *)

(* An item of a chunk is in the stream.                                    *)
LEMMA Between ==
  ASSUME NEW a \in Nat, NEW b \in Nat, NEW c \in Nat, NEW to \in Nat, NEW e \in Nat,
         a <= b, e = b + c, e <= to
  PROVE  \A i \in 1..c : b + i \in (a + 1)..to
OBVIOUS

(* The ends of the chunks rise.                                            *)
LEMMA Rising ==
  ASSUME NEW w \in Seq(Chunks), NEW d \in Seq(Output \cup Answers), NEW lead, NEW q, NEW ends, NEW to,
         Laid(w, d, lead, q, ends, to)
  PROVE  /\ Len(w) \in Nat /\ Len(d) \in Nat /\ lead \in Nat /\ to \in Nat
         /\ \A a \in 0..Len(w) : ends[a] \in Nat
         /\ \A a \in 1..Len(w) : Len(w[a]) \in Nat /\ Len(w[a]) > 0
         /\ \A a \in 0..Len(w) : ends[0] <= ends[a] /\ (a > 0 => ends[1] <= ends[a])
         /\ ends[Len(w)] <= to
<1>1. Len(w) \in Nat /\ Len(d) \in Nat
  OBVIOUS
<1>2. ASSUME NEW a \in 1..Len(w) PROVE Len(w[a]) \in Nat /\ Len(w[a]) > 0
  <2>1. w[a] \in Seq(Output) /\ w[a] # <<>>
    BY DEF Chunks
  <2>2. QED
    BY <2>1
<1>3. /\ lead \in 0..Len(d) /\ to \in Nat /\ ends \in [0..Len(w) -> Nat]
      /\ \A a \in 1..Len(w) : ends[a] = ends[a - 1] + Len(w[a])
      /\ to + lead = ends[Len(w)] + Len(d)
  BY DEF Laid
<1>4. \A a \in 0..Len(w) : ends[a] \in Nat
  BY <1>3
<1> DEFINE S == {a \in Nat : ends[0] <= ends[a] /\ (a > 0 => ends[1] <= ends[a])}
<1>5. 0 \in S
  BY <1>1, <1>4
<1>6. ASSUME NEW a \in 0..(Len(w) - 1), a \in S PROVE a + 1 \in S
  <2>1. /\ a + 1 \in 1..Len(w) /\ (a + 1) - 1 = a /\ a \in 0..Len(w) /\ a + 1 \in 0..Len(w)
        /\ a \in Nat /\ a + 1 \in Nat /\ 0 \in 0..Len(w) /\ 1 \in 0..Len(w) /\ (a = 0 => a + 1 = 1)
        /\ (a # 0 => a > 0)
    BY <1>1
  <2>2. ends[a + 1] = ends[a] + Len(w[a + 1]) /\ Len(w[a + 1]) \in Nat
    BY <1>2, <1>3, <2>1
  <2>3. ends[0] \in Nat /\ ends[1] \in Nat /\ ends[a] \in Nat /\ ends[a + 1] \in Nat
    BY <1>4, <2>1
  <2>4. ends[0] <= ends[a] /\ (a > 0 => ends[1] <= ends[a])
    BY <1>6
  <2>5. ends[0] <= ends[a + 1] /\ ends[1] <= ends[a + 1]
    BY ONLY <2>1, <2>2, <2>3, <2>4
  <2>6. QED
    BY <2>1, <2>5
<1> HIDE DEF S
<1>7. \A a \in 0..Len(w) : a \in S
  BY <1>1, <1>5, <1>6, Reaches
<1>8. Len(w) \in 0..Len(w)
  BY <1>1
<1>9. QED
  BY <1>1, <1>2, <1>3, <1>4, <1>7, <1>8 DEF S

(* The emulator takes a chunk.                                             *)
LEMMA Taken ==
  ASSUME NEW w \in Seq(Chunks), NEW d \in Seq(Output \cup Answers), NEW lead, NEW q, NEW ends, NEW to,
         Laid(w, d, lead, q, ends, to), w # <<>>
  PROVE  /\ Tail(w) \in Seq(Chunks) /\ Len(Head(w)) \in Nat /\ Len(Head(w)) > 0
         /\ ends[0] \in Nat /\ to \in Nat /\ ends[0] + Len(Head(w)) <= to
         /\ Portion(Head(w), q, ends[0]) /\ Printable(q, ends[0], to)
         /\ Left(Tail(w), d, lead, q, ends[0] + Len(Head(w)), to)
<1> USE DEF Portion, Printable, Left
<1> DEFINE rest == [a \in 0..Len(Tail(w)) |-> ends[a + 1]]
<1>1. /\ Head(w) = w[1] /\ Tail(w) \in Seq(Chunks) /\ Len(Tail(w)) = Len(w) - 1 /\ Len(w) >= 1
      /\ \A a \in 1..Len(Tail(w)) : Tail(w)[a] = w[a + 1]
  OBVIOUS
<1>2. /\ Len(w) \in Nat /\ Len(d) \in Nat /\ lead \in Nat /\ to \in Nat
      /\ \A a \in 0..Len(w) : ends[a] \in Nat
      /\ \A a \in 1..Len(w) : Len(w[a]) \in Nat /\ Len(w[a]) > 0
      /\ \A a \in 0..Len(w) : ends[0] <= ends[a] /\ (a > 0 => ends[1] <= ends[a])
      /\ ends[Len(w)] <= to
  BY Rising
<1>3. /\ lead \in 0..Len(d) /\ to \in Nat
      /\ \A a \in 1..Len(w) :
           /\ ends[a] = ends[a - 1] + Len(w[a])
           /\ \A b \in 1..Len(w[a]) : w[a][b] = q[ends[a - 1] + b]
      /\ to + lead = ends[Len(w)] + Len(d)
      /\ \A b \in 1..(Len(d) - lead) : d[lead + b] = q[ends[Len(w)] + b]
      /\ \A i \in (ends[0] + 1)..to : q[i] \in Output
  BY DEF Laid
<1>4. 1 \in 1..Len(w) /\ 1 - 1 = 0 /\ 0 \in 0..Len(w) /\ 1 \in 0..Len(w) /\ Len(w) \in 0..Len(w)
  BY <1>1, <1>2
<1>5. /\ ends[1] = ends[0] + Len(Head(w)) /\ Len(Head(w)) \in Nat /\ Len(Head(w)) > 0
      /\ ends[0] \in Nat /\ ends[1] \in Nat /\ ends[1] <= ends[Len(w)] /\ ends[Len(w)] \in Nat
      /\ \A b \in 1..Len(Head(w)) : Head(w)[b] = q[ends[0] + b]
  <2>1. ends[1] <= ends[Len(w)]
    BY <1>1, <1>2, <1>4
  <2>2. ends[1] = ends[0] + Len(Head(w)) /\ \A b \in 1..Len(Head(w)) : Head(w)[b] = q[ends[0] + b]
    BY <1>1, <1>3, <1>4
  <2>3. QED
    BY <1>1, <1>2, <1>4, <2>1, <2>2
<1>6. \A a \in 0..Len(Tail(w)) : rest[a] = ends[a + 1]
  OBVIOUS
<1>7. rest \in [0..Len(Tail(w)) -> Nat]
  BY <1>1, <1>2
<1> HIDE DEF rest
<1>8. Laid(Tail(w), d, lead, q, rest, to)
  <2>1. ASSUME NEW a \in 1..Len(Tail(w))
        PROVE  /\ rest[a] = rest[a - 1] + Len(Tail(w)[a])
               /\ \A b \in 1..Len(Tail(w)[a]) : Tail(w)[a][b] = q[rest[a - 1] + b]
    <3>1. /\ a + 1 \in 1..Len(w) /\ (a + 1) - 1 = a /\ (a - 1) + 1 = a
          /\ a \in 0..Len(Tail(w)) /\ a - 1 \in 0..Len(Tail(w))
      BY <1>1, <1>2
    <3>2. rest[a] = ends[a + 1] /\ rest[a - 1] = ends[a] /\ Tail(w)[a] = w[a + 1]
      BY <1>1, <1>6, <3>1
    <3>3. /\ ends[a + 1] = ends[a] + Len(w[a + 1])
          /\ \A b \in 1..Len(w[a + 1]) : w[a + 1][b] = q[ends[a] + b]
      BY <1>3, <3>1
    <3>4. QED
      BY ONLY <3>2, <3>3
  <2>2. rest[Len(Tail(w))] = ends[Len(w)] /\ rest[0] = ends[1]
    <3>1. Len(Tail(w)) \in 0..Len(Tail(w)) /\ 0 \in 0..Len(Tail(w)) /\ Len(Tail(w)) + 1 = Len(w) /\ 0 + 1 = 1
      BY <1>1, <1>2
    <3>2. rest[Len(Tail(w))] = ends[Len(Tail(w)) + 1]
      BY ONLY <1>6, <3>1, Zenon
    <3>3. rest[0] = ends[0 + 1]
      BY ONLY <1>6, <3>1, Zenon
    <3>4. QED
      BY ONLY <3>1, <3>2, <3>3
  <2>3. \A i \in (rest[0] + 1)..to : q[i] \in Output
    <3>1. ends[0] \in Nat /\ rest[0] \in Nat /\ to \in Nat /\ ends[0] <= rest[0]
      BY ONLY <1>1, <1>3, <1>5, <2>2
    <3>2. \A i \in (rest[0] + 1)..to : i \in (ends[0] + 1)..to
      BY ONLY <3>1
    <3>3. QED
      BY ONLY <1>3, <3>2
  <2>4. QED
    BY ONLY <1>3, <1>7, <2>1, <2>2, <2>3 DEF Laid
<1>9. rest[0] = ends[0] + Len(Head(w))
  <2>1. 0 \in 0..Len(Tail(w)) /\ 0 + 1 = 1
    BY <1>1, <1>2
  <2>2. QED
    BY <1>5, <1>6, <2>1
<1>10. ends[0] + Len(Head(w)) <= to
  BY <1>2, <1>5
<1>11. QED
  BY <1>1, <1>2, <1>3, <1>5, <1>8, <1>9, <1>10

(* What was under way is lost with the socket.                             *)
LEMMA Dropped ==
  ASSUME NEW w \in Seq(Chunks), NEW d \in Seq(Output \cup Answers), NEW lead, NEW q, NEW ends, NEW to,
         Laid(w, d, lead, q, ends, to)
  PROVE  /\ Laid(w, <<>>, 0, q, ends, ends[Len(w)])
         /\ ends[0] \in Nat /\ ends[Len(w)] \in Nat /\ to \in Nat
         /\ ends[0] <= ends[Len(w)] /\ ends[Len(w)] <= to
<1>1. /\ Len(w) \in Nat /\ to \in Nat
      /\ \A a \in 0..Len(w) : ends[a] \in Nat /\ ends[0] <= ends[a]
      /\ ends[Len(w)] <= to
  BY Rising
<1>2. Len(w) \in 0..Len(w) /\ 0 \in 0..Len(w) /\ Len(<<>>) = 0
  BY <1>1
<1>3. /\ ends[0] \in Nat /\ ends[Len(w)] \in Nat /\ to \in Nat
      /\ ends[0] <= ends[Len(w)] /\ ends[Len(w)] <= to
  BY <1>1, <1>2
<1>4. \A i \in (ends[0] + 1)..ends[Len(w)] : i \in (ends[0] + 1)..to
  BY ONLY <1>3
<1>5. \A i \in (ends[0] + 1)..ends[Len(w)] : q[i] \in Output
  BY <1>4 DEF Laid
<1>6. /\ ends \in [0..Len(w) -> Nat]
      /\ \A a \in 1..Len(w) :
           /\ ends[a] = ends[a - 1] + Len(w[a])
           /\ \A b \in 1..Len(w[a]) : w[a][b] = q[ends[a - 1] + b]
  BY DEF Laid
<1>7. 0 \in 0..0 /\ \A b \in 1..(0 - 0) : FALSE
  OBVIOUS
<1>8. ends[Len(w)] + 0 = ends[Len(w)]
  BY <1>3
<1>9. Laid(w, <<>>, 0, q, ends, ends[Len(w)])
  BY ONLY <1>2, <1>3, <1>5, <1>6, <1>7, <1>8 DEF Laid
<1>10. QED
  BY <1>3, <1>9

(* The client gets n of the items in d, and feeds the emulator with those    *)
(* behind the answer.                                                        *)
Front(chunk, d, lead, n) ==
  Len(chunk) = n - lead /\ \A b \in 1..Len(chunk) : chunk[b] = d[lead + b]
Back(d2, d, n) ==
  Len(d2) = Len(d) - n /\ \A b \in 1..Len(d2) : d2[b] = d[n + b]
Fed(w2, w, chunk) == w2 = IF chunk = <<>> THEN w ELSE Append(w, chunk)

LEMMA FedTo ==
  ASSUME NEW w \in Seq(Chunks), NEW d \in Seq(Output \cup Answers), NEW lead, NEW q, NEW ends, NEW to,
         Laid(w, d, lead, q, ends, to),
         NEW n \in Nat, lead <= n, n <= Len(d),
         NEW chunk \in Seq(Output), Front(chunk, d, lead, n),
         NEW w2, Fed(w2, w, chunk), NEW d2, Back(d2, d, n)
  PROVE  /\ w2 \in Seq(Chunks)
         /\ \E ends2 : Laid(w2, d2, 0, q, ends2, to) /\ ends2[0] = ends[0]
<1> USE DEF Front, Back, Fed
<1>1. /\ Len(w) \in Nat /\ Len(d) \in Nat /\ lead \in Nat /\ to \in Nat
      /\ \A a \in 0..Len(w) : ends[a] \in Nat
      /\ Len(w) \in 0..Len(w) /\ Len(chunk) \in Nat /\ Len(d2) \in Nat
  <2>1. /\ Len(w) \in Nat /\ Len(d) \in Nat /\ lead \in Nat /\ to \in Nat
        /\ \A a \in 0..Len(w) : ends[a] \in Nat
    BY Rising
  <2>2. QED
    BY <2>1
<1>2. /\ lead \in 0..Len(d) /\ to \in Nat /\ ends \in [0..Len(w) -> Nat]
      /\ \A a \in 1..Len(w) :
           /\ ends[a] = ends[a - 1] + Len(w[a])
           /\ \A b \in 1..Len(w[a]) : w[a][b] = q[ends[a - 1] + b]
      /\ to + lead = ends[Len(w)] + Len(d)
      /\ \A b \in 1..(Len(d) - lead) : d[lead + b] = q[ends[Len(w)] + b]
      /\ \A i \in (ends[0] + 1)..to : q[i] \in Output
  BY DEF Laid
<1>3. ends[Len(w)] \in Nat
  BY <1>1
<1>4. ASSUME NEW b \in 1..Len(d2) PROVE d2[b] = q[ends[Len(w)] + (n - lead) + b]
  <2>1. /\ (n - lead) + b \in 1..(Len(d) - lead) /\ lead + ((n - lead) + b) = n + b
        /\ ends[Len(w)] + ((n - lead) + b) = ends[Len(w)] + (n - lead) + b
    BY <1>1, <1>3
  <2>2. d[lead + ((n - lead) + b)] = q[ends[Len(w)] + ((n - lead) + b)]
    BY <1>2, <2>1
  <2>3. d2[b] = d[n + b]
    OBVIOUS
  <2>4. QED
    BY ONLY <2>1, <2>2, <2>3
<1>5. ASSUME NEW b \in 1..Len(chunk) PROVE chunk[b] = q[ends[Len(w)] + b]
  <2>1. b \in 1..(Len(d) - lead)
    BY <1>1
  <2>2. QED
    BY <1>2, <2>1
<1>6. /\ 0 \in 0..Len(d2) /\ \A b \in 1..(Len(d2) - 0) : b \in 1..Len(d2) /\ 0 + b = b
      /\ to + 0 = (ends[Len(w)] + (n - lead)) + Len(d2)
  <2>1. 0 \in 0..Len(d2) /\ \A b \in 1..(Len(d2) - 0) : b \in 1..Len(d2) /\ 0 + b = b
    BY <1>1
  <2>2. to + lead = ends[Len(w)] + Len(d) /\ Len(d2) = Len(d) - n
    BY <1>2
  <2>3. to + 0 = (ends[Len(w)] + (n - lead)) + Len(d2)
    <3>1. to \in Nat /\ lead \in Nat /\ Len(d) \in Nat /\ n \in Nat /\ ends[Len(w)] \in Nat
      BY <1>1, <1>3
    <3>2. ASSUME NEW e \in Nat, NEW D \in Nat, NEW D2, to + lead = e + D, D2 = D - n
          PROVE  to + 0 = (e + (n - lead)) + D2
      BY ONLY <3>1, <3>2
    <3>3. QED
      BY <2>2, <3>1, <3>2, Zenon
  <2>4. QED
    BY <2>1, <2>3
<1>7. CASE chunk = <<>>
  <2>1. n - lead = 0 /\ ends[Len(w)] + (n - lead) = ends[Len(w)] /\ w2 = w
    BY <1>3, <1>7
  <2>2. \A b \in 1..(Len(d2) - 0) : d2[0 + b] = q[ends[Len(w)] + b]
    BY <1>4, <1>6, <2>1
  <2>3. Laid(w, d2, 0, q, ends, to)
    BY ONLY <1>2, <1>6, <2>1, <2>2 DEF Laid
  <2>4. QED
    BY <2>1, <2>3
<1>8. CASE chunk # <<>>
  <2> DEFINE ends2 == [a \in 0..(Len(w) + 1) |-> IF a <= Len(w) THEN ends[a] ELSE ends[Len(w)] + Len(chunk)]
  <2>1. /\ w2 \in Seq(Chunks) /\ Len(w2) = Len(w) + 1 /\ w2[Len(w) + 1] = chunk
        /\ \A a \in 1..Len(w) : w2[a] = w[a]
    <3>1. chunk \in Chunks
      BY <1>8 DEF Chunks
    <3>2. w2 = Append(w, chunk)
      BY <1>8
    <3>3. QED
      BY ONLY <3>1, <3>2, w \in Seq(Chunks)
  <2>2. /\ ends2 \in [0..Len(w2) -> Nat] /\ \A a \in 0..Len(w) : ends2[a] = ends[a]
        /\ ends2[Len(w) + 1] = ends[Len(w)] + Len(chunk)
    <3>1. \A a \in 0..(Len(w) + 1) : (IF a <= Len(w) THEN ends[a] ELSE ends[Len(w)] + Len(chunk)) \in Nat
      BY <1>1, <1>3
    <3>2. ends2 \in [0..Len(w2) -> Nat]
      BY <2>1, <3>1
    <3>3. \A a \in 0..Len(w) : a \in 0..(Len(w) + 1) /\ a <= Len(w)
      BY <1>1
    <3>4. Len(w) + 1 \in 0..(Len(w) + 1) /\ ~(Len(w) + 1 <= Len(w))
      BY <1>1
    <3>5. QED
      BY <3>2, <3>3, <3>4
  <2> HIDE DEF ends2
  <2>3. ASSUME NEW a \in 1..Len(w2)
        PROVE  /\ ends2[a] = ends2[a - 1] + Len(w2[a])
               /\ \A b \in 1..Len(w2[a]) : w2[a][b] = q[ends2[a - 1] + b]
    <3>1. CASE a \in 1..Len(w)
      <4>1. a \in 0..Len(w) /\ a - 1 \in 0..Len(w)
        BY <1>1, <3>1
      <4>2. ends2[a] = ends[a] /\ ends2[a - 1] = ends[a - 1] /\ w2[a] = w[a]
        BY <2>1, <2>2, <3>1, <4>1
      <4>3. QED
        BY ONLY <1>2, <3>1, <4>2
    <3>2. CASE a = Len(w) + 1
      <4>1. a - 1 = Len(w)
        BY <1>1, <3>2
      <4>2. ends2[a] = ends[Len(w)] + Len(chunk) /\ ends2[a - 1] = ends[Len(w)] /\ w2[a] = chunk
        BY <1>1, <2>1, <2>2, <3>2, <4>1
      <4>3. QED
        BY <1>5, <4>2
    <3>3. QED
      BY <1>1, <2>1, <3>1, <3>2
  <2>4. ends2[Len(w2)] = ends[Len(w)] + (n - lead) /\ ends2[0] = ends[0]
    BY <1>1, <2>1, <2>2
  <2>5. \A b \in 1..(Len(d2) - 0) : d2[0 + b] = q[ends2[Len(w2)] + b]
    BY <1>4, <1>6, <2>4
  <2>6. Laid(w2, d2, 0, q, ends2, to)
    BY ONLY <1>2, <1>6, <2>2, <2>3, <2>4, <2>5 DEF Laid
  <2>7. QED
    BY <2>1, <2>4, <2>6
<1>9. QED
  BY <1>7, <1>8

(* The guest prints.                                                       *)
Extends(q2, q, from, to, items) ==
  /\ \A i \in (from + 1)..to : q2[i] = q[i]
  /\ \A b \in 1..Len(items) : q2[to + b] = items[b]

LEMMA Printed ==
  ASSUME NEW w \in Seq(Chunks), NEW d \in Seq(Output \cup Answers), NEW lead, NEW q, NEW ends, NEW to,
         Laid(w, d, lead, q, ends, to),
         NEW items \in Seq(Output), NEW d2, d2 = d \o items
  PROVE  /\ d2 \in Seq(Output \cup Answers) /\ to \in Nat /\ ends[0] \in Nat /\ ends[0] <= to
         /\ Len(items) \in Nat
         /\ \E q2 : Laid(w, d2, lead, q2, ends, to + Len(items)) /\ Extends(q2, q, ends[0], to, items)
<1>1. /\ Len(w) \in Nat /\ Len(d) \in Nat /\ lead \in Nat /\ to \in Nat
      /\ \A a \in 0..Len(w) : ends[a] \in Nat /\ ends[0] <= ends[a]
      /\ \A a \in 1..Len(w) : Len(w[a]) \in Nat
      /\ ends[Len(w)] <= to
  BY Rising
<1>2. /\ lead \in 0..Len(d) /\ to \in Nat /\ ends \in [0..Len(w) -> Nat]
      /\ \A a \in 1..Len(w) :
           /\ ends[a] = ends[a - 1] + Len(w[a])
           /\ \A b \in 1..Len(w[a]) : w[a][b] = q[ends[a - 1] + b]
      /\ to + lead = ends[Len(w)] + Len(d)
      /\ \A b \in 1..(Len(d) - lead) : d[lead + b] = q[ends[Len(w)] + b]
      /\ \A i \in (ends[0] + 1)..to : q[i] \in Output
  BY DEF Laid
<1>3. /\ d2 \in Seq(Output \cup Answers) /\ Len(d2) = Len(d) + Len(items) /\ Len(items) \in Nat
      /\ \A i \in 1..Len(d) : d2[i] = d[i]
      /\ \A i \in 1..Len(items) : d2[Len(d) + i] = items[i] /\ items[i] \in Output
  <2>1. items \in Seq(Output \cup Answers)
    OBVIOUS
  <2>2. QED
    BY <2>1
<1>4. Len(w) \in 0..Len(w) /\ 0 \in 0..Len(w)
  BY <1>1
<1>5. ends[0] \in Nat /\ ends[Len(w)] \in Nat /\ ends[0] <= ends[Len(w)] /\ ends[0] <= to
  BY <1>1, <1>4
<1>6. \A a \in 1..Len(w) : ends[a] <= ends[Len(w)]
  \* the ends rise to the last
  <2> DEFINE S == {n \in Nat : n <= Len(w) => ends[Len(w) - n] <= ends[Len(w)]}
  <2>1. 0 \in S
    BY <1>1, <1>5
  <2>2. ASSUME NEW n \in 0..(Len(w) - 1), n \in S PROVE n + 1 \in S
    <3>1. /\ Len(w) - n \in 1..Len(w) /\ (Len(w) - n) - 1 = Len(w) - (n + 1)
          /\ Len(w) - n \in 0..Len(w) /\ Len(w) - (n + 1) \in 0..Len(w) /\ n <= Len(w) /\ n + 1 \in Nat
      BY <1>1
    <3>2. ends[Len(w) - n] = ends[Len(w) - (n + 1)] + Len(w[Len(w) - n])
      BY <1>2, <3>1
    <3>3. /\ ends[Len(w) - n] \in Nat /\ ends[Len(w) - (n + 1)] \in Nat /\ Len(w[Len(w) - n]) \in Nat
      BY <1>1, <3>1
    <3>4. ends[Len(w) - n] <= ends[Len(w)]
      BY <2>2, <3>1
    <3>5. ends[Len(w) - (n + 1)] <= ends[Len(w)]
      BY ONLY <1>5, <3>2, <3>3, <3>4
    <3>6. QED
      BY <3>1, <3>5
  <2> HIDE DEF S
  <2>3. \A n \in 0..Len(w) : n \in S
    BY <1>1, <2>1, <2>2, Reaches
  <2>4. ASSUME NEW a \in 1..Len(w) PROVE ends[a] <= ends[Len(w)]
    <3>1. Len(w) - a \in 0..Len(w) /\ Len(w) - (Len(w) - a) = a /\ Len(w) - a <= Len(w)
      BY <1>1
    <3>2. Len(w) - a \in S
      BY <2>3, <3>1
    <3>3. QED
      BY <3>1, <3>2 DEF S
  <2>5. QED
    BY <2>4
<1> DEFINE q2 == [i \in Nat |-> IF i <= to THEN q[i] ELSE items[i - to]]
<1>7. \A i \in Nat : q2[i] = IF i <= to THEN q[i] ELSE items[i - to]
  OBVIOUS
<1> HIDE DEF q2
<1>8. \A i \in (ends[0] + 1)..to : q2[i] = q[i]
  <2>1. \A i \in (ends[0] + 1)..to : i \in Nat /\ i <= to
    BY <1>1, <1>5
  <2>2. QED
    BY <1>7, <2>1
<1>9. \A b \in 1..Len(items) : q2[to + b] = items[b]
  <2>1. \A b \in 1..Len(items) : to + b \in Nat /\ ~(to + b <= to) /\ (to + b) - to = b
    BY <1>1, <1>3
  <2>2. QED
    BY <1>7, <2>1
<1>10. ASSUME NEW a \in 1..Len(w), NEW b \in 1..Len(w[a]) PROVE w[a][b] = q2[ends[a - 1] + b]
  <2>1. a - 1 \in 0..Len(w) /\ a \in 0..Len(w)
    BY <1>1
  <2>2. ends[a - 1] \in Nat /\ ends[0] <= ends[a - 1] /\ ends[a] = ends[a - 1] + Len(w[a])
        /\ Len(w[a]) \in Nat /\ ends[a] <= ends[Len(w)] /\ ends[a] \in Nat
    BY <1>1, <1>2, <1>6, <2>1
  <2>3. ends[Len(w)] <= to
    BY <1>1
  <2>4. ends[a - 1] + b \in (ends[0] + 1)..to
    <3>1. ends[a] <= to
      BY ONLY <1>1, <1>5, <2>2, <2>3
    <3>2. QED
      BY ONLY <1>1, <1>5, <2>2, <3>1, b \in 1..Len(w[a]), Between
  <2>5. QED
    BY <1>2, <1>8, <2>4
<1>11. ASSUME NEW b \in 1..(Len(d2) - lead) PROVE d2[lead + b] = q2[ends[Len(w)] + b]
  <2>1. CASE b <= Len(d) - lead
    <3>1. b \in 1..(Len(d) - lead) /\ lead + b \in 1..Len(d)
      BY <1>1, <1>2, <1>3, <2>1
    <3>2. to + lead = ends[Len(w)] + Len(d)
      BY <1>2
    <3>3. ends[Len(w)] + b \in (ends[0] + 1)..to
      BY ONLY <1>1, <1>5, <3>1, <3>2
    <3>4. QED
      BY <1>2, <1>3, <1>8, <3>1, <3>3
  <2>2. CASE b > Len(d) - lead
    <3>1. to + lead = ends[Len(w)] + Len(d)
      BY <1>2
    <3>2. /\ b - (Len(d) - lead) \in 1..Len(items)
          /\ Len(d) + (b - (Len(d) - lead)) = lead + b
          /\ to + (b - (Len(d) - lead)) = ends[Len(w)] + b
      <4>1. /\ to \in Nat /\ lead \in Nat /\ Len(d) \in Nat /\ Len(items) \in Nat
            /\ Len(d2) = Len(d) + Len(items) /\ b \in 1..(Len(d2) - lead) /\ ends[Len(w)] \in Nat
        BY <1>1, <1>3, <1>5
      <4>2. b \in 1..((Len(d) + Len(items)) - lead) /\ b > Len(d) - lead
        BY <2>2, <4>1
      <4>3. ASSUME NEW e \in Nat, NEW D \in Nat, NEW m \in Nat, to + lead = e + D,
                   b \in 1..((D + m) - lead), b > D - lead
            PROVE  /\ b - (D - lead) \in 1..m
                   /\ D + (b - (D - lead)) = lead + b
                   /\ to + (b - (D - lead)) = e + b
        BY ONLY <4>1, <4>3
      <4>4. QED
        BY <3>1, <4>1, <4>2, <4>3, Zenon
    <3>3. QED
      BY <1>3, <1>9, <3>2
  <2>3. QED
    BY <1>1, <2>1, <2>2
<1>12. ASSUME NEW i \in (ends[0] + 1)..(to + Len(items)) PROVE q2[i] \in Output
  <2>1. CASE i <= to
    <3>1. i \in (ends[0] + 1)..to
      BY <1>1, <1>5, <2>1
    <3>2. QED
      BY <1>2, <1>8, <3>1
  <2>2. CASE i > to
    <3>1. i - to \in 1..Len(items) /\ to + (i - to) = i
      BY <1>1, <1>3, <1>5, <2>2
    <3>2. QED
      BY <1>3, <1>9, <3>1
  <2>3. QED
    BY <1>1, <1>5, <2>1, <2>2
<1>13. Laid(w, d2, lead, q2, ends, to + Len(items))
  <2>1. lead \in 0..Len(d2) /\ to + Len(items) \in Nat
    BY <1>1, <1>2, <1>3
  <2>2. to + lead = ends[Len(w)] + Len(d)
    BY <1>2
  <2>3. (to + Len(items)) + lead = ends[Len(w)] + Len(d2)
    <3>1. /\ to \in Nat /\ lead \in Nat /\ Len(d) \in Nat /\ Len(items) \in Nat
          /\ Len(d2) = Len(d) + Len(items) /\ ends[Len(w)] \in Nat
      BY <1>1, <1>3, <1>5
    <3>2. ASSUME NEW e \in Nat, NEW D \in Nat, NEW m \in Nat, to + lead = e + D
          PROVE  (to + m) + lead = e + (D + m)
      BY ONLY <3>1, <3>2
    <3>3. (to + Len(items)) + lead = ends[Len(w)] + (Len(d) + Len(items))
      BY ONLY <2>2, <3>1, <3>2, Zenon
    <3>4. QED
      BY ONLY <3>1, <3>3, Zenon
  <2>4. ends \in [0..Len(w) -> Nat] /\ \A a \in 1..Len(w) : ends[a] = ends[a - 1] + Len(w[a])
    BY <1>2
  <2>5. QED
    BY ONLY <1>10, <1>11, <1>12, <2>1, <2>3, <2>4 DEF Laid
<1>14. Extends(q2, q, ends[0], to, items)
  BY <1>8, <1>9 DEF Extends
<1>15. QED
  BY <1>1, <1>3, <1>5, <1>13, <1>14

(* NothingLost adds the lengths of the chunks up to the same ends.         *)
LEMMA Sizes ==
  ASSUME NEW w \in Seq(Chunks), NEW d \in Seq(Output \cup Answers), NEW lead, NEW q, NEW ends, NEW to,
         Laid(w, d, lead, q, ends, to)
  PROVE  LET Size[i \in 0..Len(w)] == IF i = 0 THEN 0 ELSE Size[i - 1] + Len(w[i])
         IN  Size[Len(w)] = ends[Len(w)] - ends[0]
<1>1. /\ Len(w) \in Nat /\ \A a \in 0..Len(w) : ends[a] \in Nat
      /\ \A a \in 1..Len(w) : Len(w[a]) \in Nat
  BY Rising
<1>2. \A a \in 1..Len(w) : ends[a] = ends[a - 1] + Len(w[a])
  BY DEF Laid
<1>3. 0 \in 0..Len(w) /\ Len(w) \in 0..Len(w)
  BY <1>1
<1> DEFINE h == [i \in 0..Len(w) |-> ends[i] - ends[0]]
           Size == CHOOSE g : g = [i \in 0..Len(w) |-> IF i = 0 THEN 0 ELSE g[i - 1] + Len(w[i])]
<1>4. ASSUME NEW i \in 0..Len(w) PROVE h[i] = IF i = 0 THEN 0 ELSE h[i - 1] + Len(w[i])
  <2>1. h[i] = ends[i] - ends[0]
    OBVIOUS
  <2>2. CASE i = 0
    BY <1>1, <1>3, <2>1, <2>2
  <2>3. CASE i # 0
    <3>1. i \in 1..Len(w) /\ i - 1 \in 0..Len(w)
      BY <1>1, <2>3
    <3>2. h[i - 1] = ends[i - 1] - ends[0] /\ ends[i] = ends[i - 1] + Len(w[i])
      BY <1>2, <3>1
    <3>3. ends[i - 1] \in Nat /\ ends[0] \in Nat /\ Len(w[i]) \in Nat
      BY <1>1, <1>3, <3>1
    <3> HIDE DEF h
    <3>4. QED
      BY ONLY <2>1, <2>3, <3>2, <3>3
  <2>4. QED
    BY <2>2, <2>3
<1>5. h = [i \in 0..Len(w) |-> h[i]] /\ h[Len(w)] = ends[Len(w)] - ends[0]
      /\ \A i \in 0..Len(w) : h[i] = ends[i] - ends[0]
  BY <1>3
<1> HIDE DEF h
<1>6. h = [i \in 0..Len(w) |-> IF i = 0 THEN 0 ELSE h[i - 1] + Len(w[i])]
  BY <1>4, <1>5
<1>7. Size = [i \in 0..Len(w) |-> IF i = 0 THEN 0 ELSE Size[i - 1] + Len(w[i])]
  BY <1>6
<1> HIDE DEF Size
<1>8. \A i \in 0..Len(w) : Size[i] = IF i = 0 THEN 0 ELSE Size[i - 1] + Len(w[i])
  BY <1>7
<1> DEFINE S == {n \in Nat : Size[n] = h[n]}
<1>9. 0 \in S
  BY <1>3, <1>4, <1>8
<1>10. ASSUME NEW n \in 0..(Len(w) - 1), n \in S PROVE n + 1 \in S
  <2>1. n + 1 \in 0..Len(w) /\ n + 1 # 0 /\ (n + 1) - 1 = n /\ n + 1 \in Nat
    BY <1>1
  <2>2. Size[n + 1] = Size[n] + Len(w[n + 1]) /\ h[n + 1] = h[n] + Len(w[n + 1])
    BY <1>4, <1>8, <2>1
  <2>3. QED
    BY <1>10, <2>1, <2>2
<1> HIDE DEF S
<1>11. Len(w) \in S
  <2>1. \A n \in 0..Len(w) : n \in S
    BY <1>1, <1>9, <1>10, Reaches
  <2>2. QED
    BY <1>3, <2>1
<1>12. Size[Len(w)] = ends[Len(w)] - ends[0]
  BY <1>5, <1>11 DEF S
<1>13. QED
  BY <1>12 DEF Size

-----------------------------------------------------------------------------
(* What the guest may print.                                               *)

LEMMA Weaker ==
  ASSUME NEW s, NEW q, NEW from \in Nat, NEW to \in Nat, NEW last \in Nat, NEW loose \in BOOLEAN,
         Legal(s, q, from, to, last, loose), \A i \in (from + 1)..to : q[i] \in Output,
         NEW to2 \in Nat, to2 <= to, NEW last2 \in Nat, last <= last2,
         NEW loose2 \in BOOLEAN, loose => loose2
  PROVE  Legal(s, q, from, to2, last2, loose2)
<1>1. \A i \in (from + 1)..to2 : i \in (from + 1)..to
  OBVIOUS
<1>2. \A i \in (from + 1)..(to2 - 1) : i \in (from + 1)..(to - 1)
  OBVIOUS
<1>3. from < to2 => Begins(s.text, q[from + 1].kind, loose2)
  BY DEF Legal, Begins
<1>4. \A i \in (from + 1)..(to2 - 1) : Follows(q[i].kind, q[i + 1].kind, loose2)
  BY <1>2 DEF Legal, Follows
<1>5. \A i \in (from + 1)..to2 :
        /\ q[i].kind = "prompt" => s.prompt < q[i].number /\ q[i].number <= last2
        /\ q[i].kind = "sign" => loose2
        /\ q[i].kind \in {"text", "sign"} => s.prompt < Most
  <2>1. ASSUME NEW i \in (from + 1)..to2
        PROVE  /\ q[i].kind = "prompt" => s.prompt < q[i].number /\ q[i].number <= last2
               /\ q[i].kind = "sign" => loose2
               /\ q[i].kind \in {"text", "sign"} => s.prompt < Most
    <3>1. /\ q[i].kind = "prompt" => s.prompt < q[i].number /\ q[i].number <= last
          /\ q[i].kind = "sign" => loose
          /\ q[i].kind \in {"text", "sign"} => s.prompt < Most
      BY <1>1 DEF Legal
    <3>2. q[i].number \in Nat
      BY <1>1 DEF Output
    <3>3. QED
      BY <3>1, <3>2
  <2>2. QED
    BY <2>1
<1>6. \A i, j \in (from + 1)..to2 :
        j < i /\ q[j].kind = "prompt" =>
          /\ q[i].kind = "prompt" => q[j].number < q[i].number
          /\ q[i].kind \in {"text", "sign"} => q[j].number < Most
  BY <1>1 DEF Legal
<1>7. s.text = "sign" => loose2
  BY DEF Legal
<1>8. QED
  BY <1>3, <1>4, <1>5, <1>6, <1>7 DEF Legal

LEMMA Alike ==
  ASSUME NEW s, NEW q, NEW from \in Nat, NEW to \in Nat, NEW last, NEW loose,
         from <= to, NEW q2, \A i \in (from + 1)..to : q2[i] = q[i]
  PROVE  /\ Legal(s, q, from, to, last, loose) => Legal(s, q2, from, to, last, loose)
         /\ Complete(s, q, from, to) => Complete(s, q2, from, to)
<1>1. from < to => from + 1 \in (from + 1)..to
  OBVIOUS
<1>2. \A i \in (from + 1)..(to - 1) : i \in (from + 1)..to /\ i + 1 \in (from + 1)..to
  OBVIOUS
<1>3. from # to => to \in (from + 1)..to
  OBVIOUS
<1>4. Complete(s, q, from, to) => Complete(s, q2, from, to)
  BY <1>3 DEF Complete
<1>5. ASSUME Legal(s, q, from, to, last, loose) PROVE Legal(s, q2, from, to, last, loose)
  <2>1. from < to => Begins(s.text, q2[from + 1].kind, loose)
    BY <1>1, <1>5 DEF Legal
  <2>2. \A i \in (from + 1)..(to - 1) : Follows(q2[i].kind, q2[i + 1].kind, loose)
    BY <1>2, <1>5 DEF Legal
  <2>3. \A i \in (from + 1)..to :
          /\ q2[i].kind = "prompt" => s.prompt < q2[i].number /\ q2[i].number <= last
          /\ q2[i].kind = "sign" => loose
          /\ q2[i].kind \in {"text", "sign"} => s.prompt < Most
    BY <1>5 DEF Legal
  <2>4. \A i, j \in (from + 1)..to :
          j < i /\ q2[j].kind = "prompt" =>
            /\ q2[i].kind = "prompt" => q2[j].number < q2[i].number
            /\ q2[i].kind \in {"text", "sign"} => q2[j].number < Most
    BY <1>5 DEF Legal
  <2>5. s.text = "sign" => loose
    BY <1>5 DEF Legal
  <2>6. QED
    BY <2>1, <2>2, <2>3, <2>4, <2>5 DEF Legal
<1>6. QED
  BY <1>4, <1>5

(* One more item is printed.                                               *)
LEMMA OneMore ==
  ASSUME NEW s, NEW q, NEW from \in Nat, NEW to \in Nat, NEW last, NEW loose,
         Legal(s, q, from, to, last, loose), from <= to,
         from = to => Begins(s.text, q[to + 1].kind, loose),
         from < to => Follows(q[to].kind, q[to + 1].kind, loose),
         q[to + 1].kind = "prompt" =>
           /\ s.prompt < q[to + 1].number /\ q[to + 1].number <= last
           /\ \A j \in (from + 1)..to : q[j].kind = "prompt" => q[j].number < q[to + 1].number,
         q[to + 1].kind = "sign" => loose,
         q[to + 1].kind \in {"text", "sign"} =>
           /\ s.prompt < Most
           /\ \A j \in (from + 1)..to : q[j].kind = "prompt" => q[j].number < Most
  PROVE  Legal(s, q, from, to + 1, last, loose)
<1>1. \A i \in (from + 1)..(to + 1) : i \in (from + 1)..to \/ i = to + 1
  OBVIOUS
<1>2. \A i \in (from + 1)..((to + 1) - 1) : i \in (from + 1)..(to - 1) \/ (i = to /\ from < to)
  OBVIOUS
<1>3. \A i, j \in (from + 1)..(to + 1) : j < i => j \in (from + 1)..to
  OBVIOUS
<1>4. Begins(s.text, q[from + 1].kind, loose)
  BY DEF Legal
<1>5. \A i \in (from + 1)..((to + 1) - 1) : Follows(q[i].kind, q[i + 1].kind, loose)
  BY <1>2 DEF Legal
<1>6. \A i \in (from + 1)..(to + 1) :
        /\ q[i].kind = "prompt" => s.prompt < q[i].number /\ q[i].number <= last
        /\ q[i].kind = "sign" => loose
        /\ q[i].kind \in {"text", "sign"} => s.prompt < Most
  BY <1>1 DEF Legal
<1>7. ASSUME NEW i \in (from + 1)..(to + 1), NEW j \in (from + 1)..(to + 1), j < i, q[j].kind = "prompt"
      PROVE  /\ q[i].kind = "prompt" => q[j].number < q[i].number
             /\ q[i].kind \in {"text", "sign"} => q[j].number < Most
  <2>1. j \in (from + 1)..to
    BY <1>3, <1>7
  <2>2. CASE i = to + 1
    BY <1>7, <2>1, <2>2
  <2>3. CASE i \in (from + 1)..to
    BY <1>7, <2>1, <2>3 DEF Legal
  <2>4. QED
    BY <1>1, <2>2, <2>3
<1>8. s.text = "sign" => loose
  BY DEF Legal
<1>9. QED
  BY <1>4, <1>5, <1>6, <1>7, <1>8 DEF Legal

LEMMA OneMoreNewline ==
  ASSUME NEW s, NEW q, NEW from \in Nat, NEW to \in Nat, NEW last, NEW loose,
         Legal(s, q, from, to, last, loose), from <= to, q[to + 1].kind = "nl"
  PROVE  Legal(s, q, from, to + 1, last, loose) /\ Complete(s, q, from, to + 1)
<1>1. Legal(s, q, from, to + 1, last, loose)
  BY OneMore DEF Begins, Follows
<1>2. Complete(s, q, from, to + 1)
  BY DEF Complete
<1>3. QED
  BY <1>1, <1>2

LEMMA OneMorePrompt ==
  ASSUME NEW s, NEW q, NEW from \in Nat, NEW to \in Nat, NEW last \in Nat, NEW loose \in BOOLEAN,
         Legal(s, q, from, to, last, loose), Complete(s, q, from, to), from <= to,
         \A i \in (from + 1)..to : q[i] \in Output, s.prompt \in Nat, s.prompt <= last,
         q[to + 1] = Prompt(last + 1)
  PROVE  Legal(s, q, from, to + 1, last + 1, loose) /\ Complete(s, q, from, to + 1)
<1>1. q[to + 1].kind = "prompt" /\ q[to + 1].number = last + 1
  BY DEF Prompt
<1>2. Legal(s, q, from, to, last + 1, loose)
  BY Weaker
<1>3. \A j \in (from + 1)..to : q[j].kind = "prompt" => q[j].number < q[to + 1].number
  <2>1. \A j \in (from + 1)..to : q[j].kind = "prompt" => q[j].number <= last
    BY DEF Legal
  <2>2. \A j \in (from + 1)..to : q[j].number \in Nat
    BY DEF Output
  <2>3. QED
    BY <1>1, <2>1, <2>2
<1>4. from = to => Begins(s.text, q[to + 1].kind, loose)
  BY <1>1 DEF Complete, Begins
<1>5. from < to => Follows(q[to].kind, q[to + 1].kind, loose)
  BY <1>1 DEF Complete, Follows
<1>6. s.prompt < q[to + 1].number /\ q[to + 1].number <= last + 1
  BY <1>1
<1>7. Legal(s, q, from, to + 1, last + 1, loose)
  BY <1>1, <1>2, <1>3, <1>4, <1>5, <1>6, OneMore
<1>8. Complete(s, q, from, to + 1)
  BY <1>1 DEF Complete
<1>9. QED
  BY <1>7, <1>8

LEMMA OneMoreText ==
  ASSUME NEW s, NEW q, NEW from \in Nat, NEW to \in Nat, NEW last \in Nat, NEW loose,
         Legal(s, q, from, to, last, loose), from <= to,
         \A i \in (from + 1)..to : q[i] \in Output, s.prompt \in Nat, s.prompt <= last,
         Most \in Nat, last < Most, q[to + 1].kind \in {"text", "sign"},
         q[to + 1].kind = "sign" => loose,
         \/ Complete(s, q, from, to)
         \/ q[to + 1].kind = "text" /\ from < to /\ q[to].kind = "sign"
  PROVE  Legal(s, q, from, to + 1, last, loose)
<1>1. \A j \in (from + 1)..to : q[j].kind = "prompt" => q[j].number < Most
  <2>1. \A j \in (from + 1)..to : q[j].kind = "prompt" => q[j].number <= last
    BY DEF Legal
  <2>2. \A j \in (from + 1)..to : q[j].number \in Nat
    BY DEF Output
  <2>3. QED
    BY <2>1, <2>2
<1>2. from = to => Begins(s.text, q[to + 1].kind, loose)
  BY DEF Complete, Begins
<1>3. from < to => Follows(q[to].kind, q[to + 1].kind, loose)
  BY DEF Complete, Follows
<1>4. s.prompt < Most
  OBVIOUS
<1>5. QED
  BY <1>1, <1>2, <1>3, <1>4, OneMore

LEMMA OneMoreReturn ==
  ASSUME NEW s, NEW q, NEW from \in Nat, NEW to \in Nat, NEW last, NEW loose,
         Legal(s, q, from, to, last, loose), from <= to, q[to + 1].kind = "cr",
         \/ from < to /\ q[to].kind = "text"
         \/ loose /\ from < to /\ q[to].kind = "sign"
         \/ loose /\ Complete(s, q, from, to)
  PROVE  Legal(s, q, from, to + 1, last, loose)
<1>1. from = to => Begins(s.text, q[to + 1].kind, loose)
  BY DEF Complete, Begins
<1>2. from < to => Follows(q[to].kind, q[to + 1].kind, loose)
  BY DEF Complete, Follows
<1>3. QED
  BY <1>1, <1>2, OneMore

-----------------------------------------------------------------------------
(* The invariant's parts.                                                  *)

LEMMA SpreadNow ==
  ASSUME NEW q, NEW ends, NEW to, Laid(writing', down', Lead', q, ends, to)
  PROVE  Spread(q, ends, to)'
BY DEF Spread, Laid

LEMMA LegalNow ==
  ASSUME NEW q, NEW from, NEW to, Legal(screen', q, from, to, prompts', Loose')
  PROVE  Legal(screen, q, from, to, prompts, Loose)'
BY DEF Legal, Begins, Follows

LEMMA CompleteNow ==
  ASSUME NEW q, NEW from, NEW to, Complete(screen', q, from, to)
  PROVE  Complete(screen, q, from, to)'
BY DEF Complete

LEMMA BoundedNow ==
  ASSUME Bounded(screen')
  PROVE  Bounded(screen)'
BY DEF Bounded

LEMMA Numbers ==
  ASSUME Typed
  PROVE  /\ Most \in Nat /\ Most > 0 /\ Cardinality(New) \in Nat /\ IsFiniteSet(New)
         /\ Len(typed) \in Nat /\ Before \in Nat /\ screen.prompt \in Nat
         /\ writing \in Seq(Chunks) /\ down \in Seq(Output \cup Answers)
         /\ Columns = 0..(Most + 1)
<1>1. IsFiniteSet(Callers) /\ New \in SUBSET Callers
  BY QueueAssumption DEF New
<1>2. Cardinality(Callers) \in Nat /\ IsFiniteSet(New)
  BY <1>1, FS_CardinalityType, FS_Subset
<1>3. Cardinality(New) \in Nat
  BY <1>2, FS_CardinalityType
<1>4. Len(typed) \in Nat /\ screen.prompt \in Nat
  BY DEF Typed, Screens
<1>5. Before \in Nat
  BY <1>4 DEF Before, Typed
<1>6. Columns = 0..(Most + 1)
  <2>1. Cardinality(Callers) + 2 = (Cardinality(Callers) + 1) + 1
    BY <1>2
  <2>2. QED
    BY <2>1 DEF Columns, Most
<1>7. QED
  BY <1>2, <1>3, <1>4, <1>5, <1>6 DEF Most, Typed

(* The waits that settle.                                                  *)
LEMMA Settling ==
  ASSUME Typed, \A c \in Callers : AtRest(c), NEW settled \in [Callers -> Verdicts],
         Settle(settled), UNCHANGED quiet,
         screen.prompt \in Nat, screen'.prompt \in Nat, screen.prompt <= screen'.prompt,
         \A c \in Callers : (settled[c] = "waiting" => wait[c] = "waiting")
                            /\ (settled[c] = "new" <=> wait[c] = "new")
  PROVE  /\ wait' = settled /\ wait' \in [Callers -> Verdicts]
         /\ line' \in [Callers -> Nat] /\ shown' \in [Callers -> Nat]
         /\ New' = New
         /\ \A c \in Callers : AtRest(c)'
         /\ \A c \in Callers : wait'[c] = "waiting" =>
              wait[c] = "waiting" /\ line'[c] = line[c] /\ shown'[c] = shown[c]
<1>1. /\ wait' = settled
      /\ line' = [c \in Callers |-> IF settled[c] = "waiting" THEN line[c] ELSE 0]
      /\ shown' = [c \in Callers |-> IF settled[c] = "waiting" THEN shown[c] ELSE 0]
  BY DEF Settle
<1>2. line \in [Callers -> Nat] /\ shown \in [Callers -> Nat]
  BY DEF Typed
<1>3. line' \in [Callers -> Nat] /\ shown' \in [Callers -> Nat]
  BY <1>1, <1>2
<1>4. New' = New
  BY <1>1 DEF New
<1>5. \A c \in Callers : wait'[c] = "waiting" =>
        wait[c] = "waiting" /\ line'[c] = line[c] /\ shown'[c] = shown[c]
  BY <1>1
<1>6. ASSUME NEW c \in Callers PROVE AtRest(c)'
  <2>1. wait'[c] # "waiting" => line'[c] = 0 /\ shown'[c] = 0
    BY <1>1
  <2>2. wait'[c] = "new" => ~quiet'[c]
    BY <1>1 DEF AtRest
  <2>3. wait'[c] = "waiting" => shown'[c] <= screen'.prompt
    <3>1. wait'[c] = "waiting" => shown[c] <= screen.prompt /\ shown'[c] = shown[c]
      BY <1>5 DEF AtRest
    <3>2. shown[c] \in Nat
      BY <1>2
    <3>3. QED
      BY <3>1, <3>2
  <2>4. QED
    BY <2>1, <2>2, <2>3 DEF AtRest
<1>7. QED
  BY <1>1, <1>3, <1>4, <1>5, <1>6

(* The console ends.                                                       *)
LEMMA TearsDown ==
  ASSUME IInv, NEW next \in {"closing", "closed"}, Teardown(next)
  PROVE  IInv'
<1>1. /\ sock' = next /\ attached' = FALSE /\ auth' = FALSE /\ answer' = <<>> /\ keepalive' = FALSE
      /\ connect' = IF connect = "pending" THEN "rejected" ELSE connect
      /\ Settle(Failed) /\ typed' = <<>> /\ down' = <<>>
      /\ UNCHANGED <<writing, screen, mark, quiet, decoy, greeted, input, prompts, backlog>>
  BY DEF Teardown, emulator, guest
<1>2. Typed /\ Life /\ Budget /\ Bounded(screen) /\ Stream /\ PromptIsNew
      /\ \A c \in Callers : AtRest(c)
  BY DEF IInv
<1>3. /\ Most \in Nat /\ Cardinality(New) \in Nat /\ Len(typed) \in Nat /\ screen.prompt \in Nat
      /\ writing \in Seq(Chunks) /\ down \in Seq(Output \cup Answers)
  BY <1>2, Numbers
<1>4. /\ Failed \in [Callers -> Verdicts]
      /\ \A c \in Callers : /\ Failed[c] # "waiting" /\ (Failed[c] = "new" <=> wait[c] = "new")
                            /\ Failed[c] \in {wait[c], "failed"}
  <2>1. wait \in [Callers -> Verdicts]
    BY <1>2 DEF Typed
  <2>2. Failed = [c \in Callers |-> IF wait[c] = "waiting" THEN "failed" ELSE wait[c]]
    BY DEF Failed
  <2>3. "failed" \in Verdicts
    BY DEF Verdicts
  <2>4. QED
    BY <2>1, <2>2, <2>3
<1>5. /\ wait' = Failed /\ wait' \in [Callers -> Verdicts]
      /\ line' \in [Callers -> Nat] /\ shown' \in [Callers -> Nat]
      /\ New' = New /\ \A c \in Callers : AtRest(c)'
  <2>1. screen'.prompt \in Nat /\ screen.prompt <= screen'.prompt /\ UNCHANGED quiet
    BY <1>1, <1>3
  <2>2. QED
    BY <1>1, <1>2, <1>3, <1>4, <2>1, Settling
<1>6. \A c \in Callers : wait'[c] # "waiting"
  BY <1>4, <1>5
<1>7. Typed'
  <2>1. <<>> \in Seq(Wordings) /\ <<>> \in Seq(Output \cup Answers) /\ Len(<<>>) = 0
    OBVIOUS
  <2>2. \A i \in 1..Len(typed') : typed'[i] # "text" => decoy'
    BY <1>1, <2>1
  <2>3. connect' \in {"pending", "resolved", "rejected"} /\ sock' \in {"connecting", "open", "closing", "closed"}
    BY <1>1, <1>2 DEF Typed
  <2>4. QED
    BY <1>1, <1>2, <1>5, <2>1, <2>2, <2>3 DEF Typed
<1>8. Life'
  BY <1>1, <1>2 DEF Life
<1>9. NothingLeftBehind'
  BY <1>1, <1>6 DEF NothingLeftBehind
<1>10. Budget'
  <2>1. Len(<<>>) = 0 /\ input \in Nat /\ prompts \in Nat
    BY <1>2 DEF Typed
  <2>2. Before' = (IF prompts = 0 THEN 1 ELSE prompts) + input + 0
    BY <1>1, <2>1 DEF Before
  <2>3. Before = (IF prompts = 0 THEN 1 ELSE prompts) + input + Len(typed)
    BY DEF Before
  <2>4. Before + Cardinality(New) <= Most
    BY <1>2 DEF Budget
  <2>5. Before' + Cardinality(New) <= Most
    BY ONLY <1>3, <2>1, <2>2, <2>3, <2>4
  <2>6. QED
    BY <1>5, <2>5 DEF Budget, Most
<1>11. Bounded(screen)'
  BY <1>1, <1>2, BoundedNow
<1>12. Stream'
  <2>1. PICK q, ends, to : Spread(q, ends, to) /\ Holds(q, ends[0], to)
    BY <1>2 DEF Stream
  <2>2. Laid(writing, down, Lead, q, ends, to)
    BY <2>1 DEF Spread
  <2>3. PICK till \in Nat : /\ Laid(writing, <<>>, 0, q, ends, till)
                            /\ ends[0] \in Nat /\ to \in Nat
                            /\ ends[0] <= till /\ till <= to
    BY <1>3, <2>2, Dropped
  <2>4. Lead' = 0
    BY <1>1 DEF Lead
  <2>5. Spread(q, ends, till)'
    <3>1. Laid(writing', down', Lead', q, ends, till)
      BY <1>1, <2>3, <2>4
    <3>2. QED
      BY <3>1 DEF Spread, Laid
  <2>6. Legal(screen, q, ends[0], till, prompts, Loose)
    <3>1. Legal(screen, q, ends[0], to, prompts, Loose)
      BY <2>1 DEF Holds
    <3>2. \A i \in (ends[0] + 1)..to : q[i] \in Output
      BY <2>2 DEF Laid
    <3>3. prompts \in Nat /\ prompts <= prompts /\ Loose \in BOOLEAN
      BY <1>2 DEF Typed, Loose
    <3>4. QED
      BY <2>3, <3>1, <3>2, <3>3, Weaker
  <2>7. Holds(q, ends[0], till)'
    <3>1. Legal(screen, q, ends[0], till, prompts, Loose)'
      BY <1>1, <2>6, LegalNow DEF Loose
    <3>2. screen'.prompt <= prompts'
      BY <1>1, <2>1 DEF Holds
    <3>3. till <= ends[0] + backlog'
      <4>1. to <= ends[0] + backlog /\ backlog \in Nat
        BY <1>2, <2>1 DEF Holds, Typed
      <4>2. QED
        BY <1>1, <2>3, <4>1
    <3>4. \A c \in Callers : Undisturbed(c, q, ends[0], till)'
      BY <1>6 DEF Undisturbed
    <3>5. ~attached'
      BY <1>1
    <3>6. QED
      BY <3>1, <3>2, <3>3, <3>4, <3>5 DEF Holds
  <2>8. QED
    BY <2>5, <2>7 DEF Stream
<1>13. PromptIsNew'
  BY <1>1, <1>2, <1>4, <1>5 DEF PromptIsNew
<1>14. QED
  BY <1>5, <1>7, <1>8, <1>9, <1>10, <1>11, <1>12, <1>13 DEF IInv

(* A step that leaves the stream as it is.                                 *)
LEMMA StreamKept ==
  ASSUME Typed, Stream, decoy' \in BOOLEAN, decoy => decoy', Lead' = Lead, attached' = attached,
         UNCHANGED <<writing, down, screen, prompts, backlog>>,
         \A c \in Callers : wait'[c] = "waiting" /\ quiet'[c] =>
           \/ wait[c] = "waiting" /\ quiet[c] /\ line'[c] = line[c] /\ shown'[c] = shown[c]
           \/ writing = <<>> /\ down = <<>> /\ line'[c] <= prompts /\ screen.prompt <= shown'[c]
  PROVE  Stream'
<1>1. PICK q, ends, to : Spread(q, ends, to) /\ Holds(q, ends[0], to)
  BY DEF Stream
<1>2. Laid(writing, down, Lead, q, ends, to)
  BY <1>1 DEF Spread
<1>3. ends[0] \in Nat /\ to \in Nat /\ ends[0] <= to /\ prompts \in Nat
  <2>1. writing \in Seq(Chunks) /\ down \in Seq(Output \cup Answers)
    BY Numbers
  <2>2. ends[0] \in Nat /\ to \in Nat /\ ends[0] <= ends[Len(writing)] /\ ends[Len(writing)] \in Nat
        /\ ends[Len(writing)] <= to
    BY <1>2, <2>1, Dropped
  <2>3. QED
    BY <2>2 DEF Typed
<1>4. Spread(q, ends, to)'
  BY <1>2, SpreadNow
<1>5. Legal(screen, q, ends[0], to, prompts, Loose)'
  <2>1. Legal(screen, q, ends[0], to, prompts, Loose)
    BY <1>1 DEF Holds
  <2>2. \A i \in (ends[0] + 1)..to : q[i] \in Output
    BY <1>2 DEF Laid
  <2>3. prompts <= prompts /\ to <= to
    BY <1>3
  <2>4. Loose \in BOOLEAN /\ Loose' \in BOOLEAN /\ (Loose => Loose')
    BY DEF Typed, Loose
  <2>5. Legal(screen, q, ends[0], to, prompts, Loose')
    BY <1>3, <2>1, <2>2, <2>3, <2>4, Weaker
  <2>6. QED
    BY <2>5, LegalNow
<1>6. attached' => ends[0] + backlog' = to /\ Complete(screen, q, ends[0], to)'
  BY <1>1, CompleteNow DEF Holds
<1>7. ASSUME NEW c \in Callers PROVE Undisturbed(c, q, ends[0], to)'
  <2>1. SUFFICES ASSUME quiet'[c], wait'[c] = "waiting"
                 PROVE  /\ line'[c] <= prompts'
                        /\ screen'.prompt <= shown'[c] \/ screen'.prompt > line'[c]
                        /\ \A i \in (ends[0] + 1)..to : q[i].kind = "prompt" => q[i].number > line'[c]
    BY DEF Undisturbed
  <2>2. CASE wait[c] = "waiting" /\ quiet[c] /\ line'[c] = line[c] /\ shown'[c] = shown[c]
    <3>1. Undisturbed(c, q, ends[0], to)
      BY <1>1 DEF Holds
    <3>2. QED
      BY <2>2, <3>1 DEF Undisturbed
  <2>3. CASE writing = <<>> /\ down = <<>> /\ line'[c] <= prompts /\ screen.prompt <= shown'[c]
    <3>1. /\ Lead \in 0..Len(down) /\ to + Lead = ends[Len(writing)] + Len(down)
      BY <1>2 DEF Laid
    <3>2. Len(writing) = 0 /\ Len(down) = 0
      BY <2>3
    <3>3. to = ends[0]
      BY <1>3, <3>1, <3>2
    <3>4. \A i \in (ends[0] + 1)..to : FALSE
      BY <1>3, <3>3
    <3>5. QED
      BY <2>3, <3>4
  <2>4. QED
    BY <2>1, <2>2, <2>3
<1>8. screen'.prompt <= prompts' /\ to <= ends[0] + backlog'
  BY <1>1 DEF Holds
<1>9. Holds(q, ends[0], to)'
  BY <1>5, <1>6, <1>7, <1>8 DEF Holds
<1>10. QED
  BY <1>4, <1>9 DEF Stream

(* A caller's first step.                                                  *)
LEMMA Steps ==
  ASSUME Typed, NEW c \in Callers, wait[c] = "new", NEW v \in Verdicts, v # "new",
         wait' = [wait EXCEPT ![c] = v]
  PROVE  /\ wait' \in [Callers -> Verdicts] /\ wait'[c] = v
         /\ \A d \in Callers : d # c => wait'[d] = wait[d]
         /\ Cardinality(New)' + 1 = Cardinality(New) /\ Cardinality(New)' \in Nat
<1>1. wait \in [Callers -> Verdicts]
  BY DEF Typed
<1>2. /\ wait' \in [Callers -> Verdicts] /\ wait'[c] = v
      /\ \A d \in Callers : d # c => wait'[d] = wait[d]
  BY <1>1
<1>3. New' = New \ {c} /\ c \in New
  BY <1>2 DEF New
<1>4. IsFiniteSet(New) /\ Cardinality(New) \in Nat
  BY Numbers
<1>5. IsFiniteSet(New \ {c}) /\ Cardinality(New \ {c}) = Cardinality(New) - 1
  BY <1>3, <1>4, FS_RemoveElement
<1>6. Cardinality(New \ {c}) \in Nat
  BY <1>5, FS_CardinalityType
<1>7. QED
  BY <1>2, <1>3, <1>4, <1>5, <1>6

LEMMA WaitTimesOut ==
  ASSUME IInv, NEW c \in Callers, WaitTimeout(c)
  PROVE  IInv'
<1>1. /\ Typed /\ Life /\ Budget /\ Bounded(screen) /\ Stream /\ PromptIsNew /\ NothingLeftBehind
      /\ \A d \in Callers : AtRest(d)
  BY DEF IInv
<1>2. /\ wait[c] = "waiting" /\ Settle([wait EXCEPT ![c] = "timeout"])
      /\ UNCHANGED <<session, emulator, quiet, decoy, typed, down, guest>>
  BY DEF WaitTimeout
<1>3. /\ UNCHANGED <<sock, attached, auth, answer, connect, keepalive, writing, screen, mark,
                     quiet, decoy, typed, down, greeted, input, prompts, backlog>>
  BY <1>2 DEF session, emulator, guest
<1>4. /\ [wait EXCEPT ![c] = "timeout"] \in [Callers -> Verdicts]
      /\ \A d \in Callers : [wait EXCEPT ![c] = "timeout"][d] \in {wait[d], "timeout"}
      /\ [wait EXCEPT ![c] = "timeout"][c] = "timeout"
      /\ \A d \in Callers : d # c => [wait EXCEPT ![c] = "timeout"][d] = wait[d]
  BY <1>1 DEF Typed, Verdicts
<1>5. screen.prompt \in Nat
  BY <1>1, Numbers
<1>6. /\ wait' = [wait EXCEPT ![c] = "timeout"] /\ wait' \in [Callers -> Verdicts]
      /\ line' \in [Callers -> Nat] /\ shown' \in [Callers -> Nat]
      /\ New' = New /\ \A d \in Callers : AtRest(d)'
      /\ \A d \in Callers : wait'[d] = "waiting" =>
           wait[d] = "waiting" /\ line'[d] = line[d] /\ shown'[d] = shown[d]
  <2>1. \A d \in Callers :
          /\ [wait EXCEPT ![c] = "timeout"][d] = "waiting" => wait[d] = "waiting"
          /\ [wait EXCEPT ![c] = "timeout"][d] = "new" <=> wait[d] = "new"
    BY <1>2, <1>4
  <2>2. screen'.prompt \in Nat /\ screen.prompt <= screen'.prompt
    BY <1>3, <1>5
  <2>3. PICK settled : settled = [wait EXCEPT ![c] = "timeout"]
    OBVIOUS
  <2>4. QED
    BY <1>1, <1>2, <1>3, <1>4, <1>5, <2>1, <2>2, <2>3, Settling
<1>7. Typed'
  BY <1>1, <1>3, <1>6 DEF Typed
<1>8. Life'
  BY <1>1, <1>3 DEF Life, Refused, Accepted
<1>9. NothingLeftBehind'
  BY <1>1, <1>3, <1>6 DEF NothingLeftBehind
<1>10. Budget'
  BY <1>1, <1>3, <1>6 DEF Budget, Before, Most
<1>11. Bounded(screen)'
  BY <1>1, <1>3, BoundedNow
<1>12. Stream'
  <2>1. Lead' = Lead
    BY <1>3 DEF Lead
  <2>2. QED
    BY <1>1, <1>3, <1>6, <2>1, StreamKept DEF Typed
<1>13. PromptIsNew'
  BY <1>1, <1>3, <1>4, <1>6 DEF PromptIsNew
<1>14. QED
  BY <1>6, <1>7, <1>8, <1>9, <1>10, <1>11, <1>12, <1>13 DEF IInv

LEMMA WaitsOnly ==
  ASSUME IInv, NEW c \in Callers, Wait(c)
  PROVE  IInv'
<1>1. /\ Typed /\ Life /\ Budget /\ Bounded(screen) /\ Stream /\ PromptIsNew /\ NothingLeftBehind
      /\ \A d \in Callers : AtRest(d)
  BY DEF IInv
<1>2. PICK v \in {"answered", "waiting", "failed"} :
        /\ wait[c] = "new" /\ wait' = [wait EXCEPT ![c] = v] /\ (v = "waiting" => auth)
        /\ UNCHANGED <<session, emulator, history, typed, down, guest>>
  BY DEF Wait
<1>3. /\ UNCHANGED <<sock, attached, auth, answer, connect, keepalive, writing, screen, mark, line, shown,
                     quiet, decoy, typed, down, greeted, input, prompts, backlog>>
  BY <1>2 DEF session, emulator, guest, history
<1>4. /\ wait' \in [Callers -> Verdicts] /\ wait'[c] = v
      /\ \A d \in Callers : d # c => wait'[d] = wait[d]
      /\ Cardinality(New)' + 1 = Cardinality(New) /\ Cardinality(New)' \in Nat
  <2>1. v \in Verdicts /\ v # "new"
    BY DEF Verdicts
  <2>2. QED
    BY <1>1, <1>2, <2>1, Steps
<1>5. ~quiet[c] /\ line[c] = 0 /\ shown[c] = 0
  BY <1>1, <1>2 DEF AtRest
<1>6. Typed'
  BY <1>1, <1>3, <1>4 DEF Typed
<1>7. Life'
  BY <1>1, <1>3 DEF Life, Refused, Accepted
<1>8. NothingLeftBehind'
  BY <1>1, <1>2, <1>3, <1>4 DEF NothingLeftBehind
<1>9. Budget'
  <2>1. Before' = Before /\ Before \in Nat /\ Cardinality(New) \in Nat /\ Most \in Nat
    BY <1>1, <1>3, Numbers DEF Before
  <2>2. Before + Cardinality(New) <= Most
    BY <1>1 DEF Budget
  <2>3. Before' + Cardinality(New)' <= Most
    BY ONLY <1>4, <2>1, <2>2
  <2>4. QED
    BY <2>3 DEF Budget, Most
<1>10. Bounded(screen)'
  BY <1>1, <1>3, BoundedNow
<1>11. ASSUME NEW d \in Callers PROVE AtRest(d)'
  <2>1. screen.prompt \in Nat
    BY <1>1, Numbers
  <2>2. CASE d = c
    BY <1>2, <1>3, <1>4, <1>5, <2>1, <2>2 DEF AtRest
  <2>3. CASE d # c
    BY <1>1, <1>3, <1>4, <2>3 DEF AtRest
  <2>4. QED
    BY <2>2, <2>3
<1>12. Stream'
  <2>1. Lead' = Lead
    BY <1>3 DEF Lead
  <2>2. \A d \in Callers : wait'[d] = "waiting" /\ quiet'[d] => wait[d] = "waiting" /\ quiet[d]
    BY <1>3, <1>4, <1>5
  <2>3. QED
    BY <1>1, <1>3, <2>1, <2>2, StreamKept DEF Typed
<1>13. PromptIsNew'
  BY <1>1, <1>3, <1>4 DEF PromptIsNew
<1>14. QED
  BY <1>6, <1>7, <1>8, <1>9, <1>10, <1>11, <1>12, <1>13 DEF IInv

LEMMA CommandFails ==
  ASSUME IInv, NEW c \in Callers, Command(c), ~(auth /\ sock = "open")
  PROVE  IInv'
<1>1. /\ Typed /\ Life /\ Budget /\ Bounded(screen) /\ Stream /\ PromptIsNew /\ NothingLeftBehind
      /\ \A d \in Callers : AtRest(d)
  BY DEF IInv
<1>2. /\ wait[c] = "new" /\ wait' = [wait EXCEPT ![c] = "failed"]
      /\ UNCHANGED <<mark, typed, history>> /\ UNCHANGED <<session, writing, screen, down, guest>>
  BY DEF Command
<1>3. /\ UNCHANGED <<sock, attached, auth, answer, connect, keepalive, writing, screen, mark, line, shown,
                     quiet, decoy, typed, down, greeted, input, prompts, backlog>>
  BY <1>2 DEF session, guest, history
<1>4. /\ wait' \in [Callers -> Verdicts] /\ wait'[c] = "failed"
      /\ \A d \in Callers : d # c => wait'[d] = wait[d]
      /\ Cardinality(New)' + 1 = Cardinality(New) /\ Cardinality(New)' \in Nat
  <2>1. "failed" \in Verdicts /\ "failed" # "new"
    BY DEF Verdicts
  <2>2. QED
    BY <1>1, <1>2, <2>1, Steps
<1>5. line[c] = 0 /\ shown[c] = 0
  BY <1>1, <1>2 DEF AtRest
<1>6. Typed'
  BY <1>1, <1>3, <1>4 DEF Typed
<1>7. Life'
  BY <1>1, <1>3 DEF Life, Refused, Accepted
<1>8. NothingLeftBehind'
  BY <1>1, <1>3, <1>4 DEF NothingLeftBehind
<1>9. Budget'
  <2>1. Before' = Before /\ Before \in Nat /\ Cardinality(New) \in Nat /\ Most \in Nat
    BY <1>1, <1>3, Numbers DEF Before
  <2>2. Before + Cardinality(New) <= Most
    BY <1>1 DEF Budget
  <2>3. Before' + Cardinality(New)' <= Most
    BY ONLY <1>4, <2>1, <2>2
  <2>4. QED
    BY <2>3 DEF Budget, Most
<1>10. Bounded(screen)'
  BY <1>1, <1>3, BoundedNow
<1>11. ASSUME NEW d \in Callers PROVE AtRest(d)'
  <2>1. CASE d = c
    BY <1>3, <1>4, <1>5, <2>1 DEF AtRest
  <2>2. CASE d # c
    BY <1>1, <1>3, <1>4, <2>2 DEF AtRest
  <2>3. QED
    BY <2>1, <2>2
<1>12. Stream'
  <2>1. Lead' = Lead
    BY <1>3 DEF Lead
  <2>2. \A d \in Callers : wait'[d] = "waiting" /\ quiet'[d] => wait[d] = "waiting" /\ quiet[d]
    BY <1>3, <1>4
  <2>3. QED
    BY <1>1, <1>3, <2>1, <2>2, StreamKept DEF Typed
<1>13. PromptIsNew'
  BY <1>1, <1>3, <1>4 DEF PromptIsNew
<1>14. QED
  BY <1>6, <1>7, <1>8, <1>9, <1>10, <1>11, <1>12, <1>13 DEF IInv

LEMMA CommandSends ==
  ASSUME IInv, NEW c \in Callers, Command(c), auth, sock = "open"
  PROVE  IInv'
<1>1. /\ Typed /\ Life /\ Budget /\ Bounded(screen) /\ Stream /\ PromptIsNew /\ NothingLeftBehind
      /\ \A d \in Callers : AtRest(d)
  BY DEF IInv
<1>2. PICK text \in Lines[c] :
        /\ wait[c] = "new" /\ mark' = Cursor(screen)
        /\ typed' = Append(typed, text) /\ decoy' = (decoy \/ text # "text")
        /\ wait' = [wait EXCEPT ![c] = IF Ready(screen, mark') THEN "stale" ELSE "waiting"]
        /\ line' = [line EXCEPT ![c] = IF wait'[c] = "waiting" THEN Before ELSE 0]
        /\ shown' = [shown EXCEPT ![c] = IF wait'[c] = "waiting" THEN screen.prompt ELSE 0]
        /\ quiet' = [d \in Callers |-> IF d = c THEN Quiet ELSE quiet[d] /\ wait[d] # "waiting"]
        /\ UNCHANGED <<session, writing, screen, down, guest>>
  BY DEF Command, SendLine
<1>3. /\ UNCHANGED <<sock, attached, auth, answer, connect, keepalive, writing, screen,
                     down, greeted, input, prompts, backlog>>
  BY <1>2 DEF session, guest
<1>4. /\ Most \in Nat /\ Before \in Nat /\ screen.prompt \in Nat /\ Len(typed) \in Nat
      /\ Cardinality(New) \in Nat
      /\ prompts \in Nat /\ input \in Nat /\ decoy \in BOOLEAN /\ attached
      /\ screen.row \in Nat /\ screen.col \in Nat
  <2>1. Most \in Nat /\ Before \in Nat /\ screen.prompt \in Nat /\ Len(typed) \in Nat
        /\ Cardinality(New) \in Nat
    BY <1>1, Numbers
  <2>2. screen.row \in Nat /\ screen.col \in Nat
    BY <1>1 DEF Typed, Screens
  <2>3. QED
    BY <1>1, <2>1, <2>2 DEF Typed, Life
<1>5. mark' \in Nat \X Columns /\ mark' # None
  <2>1. screen.col <= Most + 1
    BY <1>1, <1>4 DEF Bounded, Typed, Screens
  <2>2. screen.col \in Columns
    BY <1>1, <1>4, <2>1, Numbers
  <2>3. mark' = <<screen.row, screen.col>> /\ mark' \in Nat \X Nat
    BY <1>2, <1>4 DEF Cursor
  <2>4. QED
    BY <1>4, <2>2, <2>3, QueueAssumption
<1>6. wait' = [wait EXCEPT ![c] = "waiting"]
  BY <1>2, <1>5 DEF Ready
<1>7. /\ wait' \in [Callers -> Verdicts] /\ wait'[c] = "waiting"
      /\ \A d \in Callers : d # c => wait'[d] = wait[d]
      /\ Cardinality(New)' + 1 = Cardinality(New) /\ Cardinality(New)' \in Nat
  <2>1. "waiting" \in Verdicts /\ "waiting" # "new"
    BY DEF Verdicts
  <2>2. QED
    BY <1>1, <1>2, <1>6, <2>1, Steps
<1>8. /\ line' \in [Callers -> Nat] /\ shown' \in [Callers -> Nat] /\ quiet' \in [Callers -> BOOLEAN]
      /\ line'[c] = Before /\ shown'[c] = screen.prompt /\ quiet'[c] = Quiet
      /\ \A d \in Callers : d # c =>
           /\ line'[d] = line[d] /\ shown'[d] = shown[d]
           /\ quiet'[d] = (quiet[d] /\ wait[d] # "waiting")
  <2>1. line' = [line EXCEPT ![c] = Before] /\ shown' = [shown EXCEPT ![c] = screen.prompt]
    BY <1>2, <1>7
  <2>2. line \in [Callers -> Nat] /\ shown \in [Callers -> Nat] /\ quiet \in [Callers -> BOOLEAN]
    BY <1>1 DEF Typed
  <2>3. line' \in [Callers -> Nat] /\ line'[c] = Before /\ \A d \in Callers : d # c => line'[d] = line[d]
    BY <1>4, <2>1, <2>2
  <2>4. shown' \in [Callers -> Nat] /\ shown'[c] = screen.prompt
        /\ \A d \in Callers : d # c => shown'[d] = shown[d]
    BY <1>4, <2>1, <2>2
  <2>5. Quiet \in BOOLEAN
    BY DEF Quiet
  <2>6. quiet' \in [Callers -> BOOLEAN] /\ quiet'[c] = Quiet
    BY <1>2, <2>2, <2>5
  <2>7. \A d \in Callers : d # c => quiet'[d] = (quiet[d] /\ wait[d] # "waiting")
    BY <1>2
  <2>8. QED
    BY <2>3, <2>4, <2>6, <2>7
<1>9. /\ typed' \in Seq(Wordings) /\ Len(typed') = Len(typed) + 1
      /\ (decoy => decoy') /\ decoy' \in BOOLEAN
      /\ \A i \in 1..Len(typed') : typed'[i] # "text" => decoy'
  <2>1. typed \in Seq(Wordings) /\ \A i \in 1..Len(typed) : typed[i] # "text" => decoy
    BY <1>1 DEF Typed
  <2>2. text \in Wordings /\ (text # "text" => decoy')
    BY <1>2, QueueAssumption DEF Wordings
  <2>3. (decoy => decoy') /\ decoy' \in BOOLEAN
    BY <1>2, <1>4, <2>2
  <2>4. /\ typed' \in Seq(Wordings) /\ Len(typed') = Len(typed) + 1
        /\ typed'[Len(typed) + 1] = text /\ \A i \in 1..Len(typed) : typed'[i] = typed[i]
        /\ \A i \in 1..Len(typed') : i \in 1..Len(typed) \/ i = Len(typed) + 1
    BY <1>2, <2>1, <2>2
  <2>5. QED
    BY <2>1, <2>2, <2>3, <2>4
<1>10. Typed'
  <2>1. /\ sock' \in {"connecting", "open", "closing", "closed"}
        /\ attached' \in BOOLEAN /\ auth' \in BOOLEAN /\ keepalive' \in BOOLEAN
        /\ connect' \in {"pending", "resolved", "rejected"}
        /\ answer' \in {<<>>, <<Item("O")>>}
        /\ writing' \in Seq(Chunks) /\ screen' \in Screens
        /\ down' \in Seq(Output \cup Answers)
        /\ input' \in Nat /\ prompts' \in Nat /\ backlog' \in Nat /\ greeted' \in BOOLEAN
    BY <1>1, <1>3 DEF Typed
  <2>2. line' \in [Callers -> Nat] /\ shown' \in [Callers -> Nat] /\ quiet' \in [Callers -> BOOLEAN]
    BY <1>8, Zenon
  <2>3. wait' \in [Callers -> Verdicts] /\ (mark' = None \/ mark' \in Nat \X Columns)
    BY <1>5, <1>7, Zenon
  <2>4. /\ typed' \in Seq(Wordings) /\ decoy' \in BOOLEAN
        /\ \A i \in 1..Len(typed') : typed'[i] # "text" => decoy'
    BY <1>9, Zenon
  <2>5. QED
    BY ONLY <2>1, <2>2, <2>3, <2>4, Zenon DEF Typed
<1>11. Life'
  BY <1>1, <1>3, <1>4 DEF Life, Refused, Accepted
<1>12. NothingLeftBehind'
  BY <1>3, <1>4 DEF NothingLeftBehind
<1>13. Budget'
  <2>1. Before' = Before + 1
    BY <1>3, <1>4, <1>9 DEF Before
  <2>2. Before + Cardinality(New) <= Most
    BY <1>1 DEF Budget
  <2>3. Before' + Cardinality(New)' <= Most
    BY ONLY <1>4, <1>7, <2>1, <2>2
  <2>4. QED
    BY <2>3 DEF Budget, Most
<1>14. Bounded(screen)'
  BY <1>1, <1>3, BoundedNow
<1>15. ASSUME NEW d \in Callers PROVE AtRest(d)'
  <2>1. CASE d = c
    BY <1>3, <1>4, <1>7, <1>8, <2>1 DEF AtRest
  <2>2. CASE d # c
    BY <1>1, <1>3, <1>7, <1>8, <2>2 DEF AtRest
  <2>3. QED
    BY <2>1, <2>2
<1>16. Stream'
  <2>1. Lead' = Lead
    BY <1>3 DEF Lead
  <2>2. ASSUME NEW d \in Callers, wait'[d] = "waiting", quiet'[d]
        PROVE  writing = <<>> /\ down = <<>> /\ line'[d] <= prompts /\ screen.prompt <= shown'[d]
    <3>1. d = c
      BY <1>7, <1>8, <2>2
    <3>2. Quiet
      BY <1>8, <2>2, <3>1
    <3>3. writing = <<>> /\ down = <<>> /\ typed = <<>> /\ input = 0 /\ prompts > 0
      BY <3>2 DEF Quiet
    <3>4. Before = prompts
      BY <1>4, <3>3 DEF Before
    <3>5. QED
      BY <1>4, <1>8, <3>1, <3>3, <3>4
  <2>3. QED
    BY <1>1, <1>3, <1>9, <2>1, <2>2, StreamKept
<1>17. PromptIsNew'
  BY <1>1, <1>7, <1>8, <1>9 DEF PromptIsNew
<1>18. QED
  BY <1>10, <1>11, <1>12, <1>13, <1>14, <1>15, <1>16, <1>17 DEF IInv

(* The socket opens or, dropped by the session before, closes.             *)
LEMMA SocketMoves ==
  ASSUME IInv, SocketOpens \/ (SocketCloses /\ ~attached)
  PROVE  IInv'
<1>1. /\ Typed /\ Life /\ Budget /\ Bounded(screen) /\ Stream /\ PromptIsNew /\ NothingLeftBehind
      /\ \A d \in Callers : AtRest(d)
  BY DEF IInv
<1>2. /\ UNCHANGED <<attached, auth, answer, connect, keepalive, writing, screen, mark, wait, line, shown,
                     quiet, decoy, typed, down, greeted, input, prompts, backlog>>
      /\ (sock = "connecting" /\ sock' = "open") \/ (~attached /\ sock' = "closed")
  BY DEF SocketOpens, SocketCloses, emulator, history, guest
<1>3. Typed'
  BY <1>1, <1>2 DEF Typed
<1>4. Life'
  BY <1>1, <1>2 DEF Life, Refused, Accepted
<1>5. NothingLeftBehind' /\ PromptIsNew'
  BY <1>1, <1>2 DEF NothingLeftBehind, PromptIsNew
<1>6. Budget'
  BY <1>1, <1>2 DEF Budget, Before, New, Most
<1>7. Bounded(screen)'
  BY <1>1, <1>2, BoundedNow
<1>8. \A d \in Callers : AtRest(d)'
  BY <1>1, <1>2 DEF AtRest
<1>9. Stream'
  <2>1. Lead' = Lead
    BY <1>2 DEF Lead
  <2>2. QED
    BY <1>1, <1>2, <2>1, StreamKept DEF Typed
<1>10. QED
  BY <1>3, <1>4, <1>5, <1>6, <1>7, <1>8, <1>9 DEF IInv

(* The proxy answers the login.                                            *)
LEMMA Greets ==
  ASSUME IInv, ProxyAnswers
  PROVE  IInv'
<1>1. /\ Typed /\ Life /\ Budget /\ Bounded(screen) /\ Stream /\ PromptIsNew /\ NothingLeftBehind
      /\ \A d \in Callers : AtRest(d)
  BY DEF IInv
<1>2. /\ sock = "open" /\ ~greeted /\ greeted' = TRUE
      /\ \/ down' = <<Item("O"), Item("K")>>
         \/ down' = <<Item("no")>>
      /\ UNCHANGED <<sock, attached, auth, answer, connect, keepalive, writing, screen, mark, wait, line,
                     shown, quiet, decoy, typed, input, prompts, backlog>>
  BY DEF ProxyAnswers, session, emulator, history
<1>3. attached /\ ~auth /\ answer = <<>> /\ down = <<>>
  BY <1>1, <1>2 DEF Life
<1>4. /\ Item("O") \in Answers /\ Item("K") \in Answers /\ Item("no") \in Answers
      /\ Item("no").kind = "no" /\ Item("O").kind = "O"
  BY DEF Item, Answers
<1>5. down' \in Seq(Output \cup Answers) /\ Len(down') \in Nat
  <2>1. \A x, y \in Output \cup Answers :
          <<x>> \in Seq(Output \cup Answers) /\ <<x, y>> \in Seq(Output \cup Answers)
    OBVIOUS
  <2>2. down' \in Seq(Output \cup Answers)
    BY <1>2, <1>4, <2>1
  <2>3. QED
    BY <2>2
<1>6. \/ Len(down') = 2 /\ down'[1] = Item("O") /\ down'[2] = Item("K")
      \/ Len(down') = 1 /\ down'[1] = Item("no")
  BY <1>2
<1>7. Typed'
  BY <1>1, <1>2, <1>5 DEF Typed
<1>8. Life'
  BY <1>1, <1>2, <1>3, <1>6 DEF Life, Refused, Accepted
<1>9. NothingLeftBehind' /\ PromptIsNew'
  BY <1>1, <1>2 DEF NothingLeftBehind, PromptIsNew
<1>10. Budget'
  BY <1>1, <1>2 DEF Budget, Before, New, Most
<1>11. Bounded(screen)'
  BY <1>1, <1>2, BoundedNow
<1>12. \A d \in Callers : AtRest(d)'
  BY <1>1, <1>2 DEF AtRest
<1>13. Stream'
  <2>1. PICK q, ends, to : Spread(q, ends, to) /\ Holds(q, ends[0], to)
    BY <1>1 DEF Stream
  <2>2. Laid(writing, down, Lead, q, ends, to)
    BY <2>1 DEF Spread
  <2>3. Lead = 0 /\ Len(down) = 0 /\ Len(answer) = 0
    BY <1>2, <1>3 DEF Lead
  <2>4. Lead' = Len(down')
    BY <1>2, <1>3, <1>4, <1>6, <2>3 DEF Lead
  <2>5. ends[Len(writing)] \in Nat /\ to \in Nat
    BY <1>1, <2>2, Numbers, Dropped
  <2>6. to + Lead' = ends[Len(writing)] + Len(down')
    <3>1. to + 0 = ends[Len(writing)] + 0
      BY <2>2, <2>3 DEF Laid
    <3>2. QED
      BY <1>5, <2>4, <2>5, <3>1
  <2>7. Lead' \in 0..Len(down') /\ \A b \in 1..(Len(down') - Lead') : FALSE
    BY <1>5, <2>4
  <2>8. Laid(writing', down', Lead', q, ends, to)
    BY <1>2, <2>2, <2>6, <2>7 DEF Laid
  <2>9. Spread(q, ends, to)'
    BY <2>8, SpreadNow
  <2>10. Holds(q, ends[0], to)'
    BY <1>2, <2>1 DEF Holds, Legal, Complete, Undisturbed, Begins, Follows, Loose
  <2>11. QED
    BY <2>9, <2>10 DEF Stream
<1>14. QED
  BY <1>7, <1>8, <1>9, <1>10, <1>11, <1>12, <1>13 DEF IInv

(* What the guest prints behind the proxy's answer.                        *)
LEMMA GuestPrints ==
  ASSUME IInv, Piped, NEW items \in Seq(Output), Prints(items),
         UNCHANGED <<session, emulator, wait, line, shown, quiet, greeted>>,
         (decoy => decoy'), decoy' \in BOOLEAN,
         typed' \in Seq(Wordings), \A i \in 1..Len(typed') : typed'[i] # "text" => decoy',
         input' \in Nat, prompts' \in Nat, Before' <= Before, Before' \in Nat, prompts <= prompts',
         ASSUME NEW q, NEW from \in Nat, NEW to \in Nat, from <= to,
                Legal(screen, q, from, to, prompts, Loose), Complete(screen, q, from, to),
                \A i \in (from + 1)..(to + Len(items)) : q[i] \in Output,
                screen.prompt <= prompts,
                \A b \in 1..Len(items) : q[to + b] = items[b]
         PROVE  /\ Legal(screen, q, from, to + Len(items), prompts', Loose')
                /\ Complete(screen, q, from, to + Len(items)),
         \A b \in 1..Len(items) : items[b].kind = "prompt" => items[b].number > prompts
  PROVE  IInv'
<1>1. /\ Typed /\ Life /\ Budget /\ Bounded(screen) /\ Stream /\ PromptIsNew /\ NothingLeftBehind
      /\ \A d \in Callers : AtRest(d)
  BY DEF IInv
<1>2. /\ UNCHANGED <<sock, attached, auth, answer, connect, keepalive, writing, screen, mark, wait, line,
                     shown, quiet, greeted>>
      /\ down' = down \o items /\ backlog' = backlog + Len(items)
      /\ sock = "open" /\ greeted /\ \A i \in 1..Len(down) : down[i].kind # "no"
  BY DEF session, emulator, Prints, Piped
<1>3. attached /\ (auth => answer = <<>>) /\ (~auth => Accepted)
  <2>1. Item("no").kind = "no"
    BY DEF Item
  <2>2. ~Refused
    <3>1. ASSUME Refused PROVE FALSE
      <4>1. 1 \in 1..Len(down) /\ down[1].kind = "no"
        BY <2>1, <3>1 DEF Refused
      <4>2. QED
        BY <1>2, <4>1
    <3>2. QED
      BY <3>1
  <2>3. QED
    BY <1>1, <1>2, <2>2 DEF Life
<1>4. /\ down \in Seq(Output \cup Answers) /\ items \in Seq(Output \cup Answers)
      /\ Len(down) \in Nat /\ Len(items) \in Nat
  BY <1>1 DEF Typed
<1>5. /\ down' \in Seq(Output \cup Answers) /\ Len(down') = Len(down) + Len(items)
      /\ \A i \in 1..Len(down) : down'[i] = down[i]
  BY <1>2, <1>4
<1>6. backlog' \in Nat /\ backlog \in Nat /\ prompts \in Nat
  BY <1>1, <1>2, <1>4 DEF Typed
<1>7. Typed'
  BY <1>1, <1>2, <1>5, <1>6 DEF Typed
<1>8. ~auth => Accepted'
  <2>1. CASE ~auth
    <3>1. /\ Len(down) >= 1 => 1 \in 1..Len(down)
          /\ Len(down) >= 2 => 2 \in 1..Len(down)
          /\ Len(down') >= Len(down)
      BY <1>4, <1>5
    <3>2. CASE answer = <<>> /\ Len(down) >= 2 /\ down[1] = Item("O") /\ down[2] = Item("K")
      <4>1. 1 \in 1..Len(down) /\ 2 \in 1..Len(down) /\ Len(down') >= 2
        BY <1>4, <1>5, <3>2
      <4>2. QED
        BY <1>2, <1>5, <3>2, <4>1 DEF Accepted, Item
    <3>3. CASE answer = <<Item("O")>> /\ Len(down) >= 1 /\ down[1] = Item("K")
      <4>1. 1 \in 1..Len(down) /\ Len(down') >= 1
        BY <1>4, <1>5, <3>3
      <4>2. QED
        BY <1>2, <1>5, <3>3, <4>1 DEF Accepted, Item
    <3>4. QED
      BY <1>3, <2>1, <3>2, <3>3 DEF Accepted
  <2>2. QED
    BY <2>1
<1>9. Life'
  BY <1>1, <1>2, <1>3, <1>8 DEF Life
<1>10. NothingLeftBehind' /\ PromptIsNew'
  BY <1>1, <1>2 DEF NothingLeftBehind, PromptIsNew
<1>11. Budget'
  <2>1. New' = New
    BY <1>2 DEF New
  <2>2. Before \in Nat /\ Cardinality(New) \in Nat /\ Most \in Nat
    BY <1>1, Numbers
  <2>3. Before + Cardinality(New) <= Most
    BY <1>1 DEF Budget
  <2>4. Before' + Cardinality(New) <= Most
    BY <2>2, <2>3
  <2>5. QED
    BY <2>1, <2>4 DEF Budget, Most
<1>12. Bounded(screen)'
  BY <1>1, <1>2, BoundedNow
<1>13. \A d \in Callers : AtRest(d)'
  BY <1>1, <1>2 DEF AtRest
<1>14. Stream'
  <2>1. PICK q, ends, to : Spread(q, ends, to) /\ Holds(q, ends[0], to)
    BY <1>1 DEF Stream
  <2>2. Laid(writing, down, Lead, q, ends, to)
    BY <2>1 DEF Spread
  <2>3. writing \in Seq(Chunks)
    BY <1>1 DEF Typed
  <2>4. PICK lead : lead = Lead
    OBVIOUS
  <2>5. Laid(writing, down, lead, q, ends, to)
    BY <2>2, <2>4
  <2>6. to \in Nat /\ ends[0] \in Nat /\ ends[0] <= to
    BY <1>2, <1>4, <2>3, <2>5, Printed
  <2>7. PICK q2 : /\ Laid(writing, down', lead, q2, ends, to + Len(items))
                  /\ \A i \in (ends[0] + 1)..to : q2[i] = q[i]
                  /\ \A b \in 1..Len(items) : q2[to + b] = items[b]
    <3>1. PICK d2 : d2 = down' /\ d2 = down \o items
      BY <1>2
    <3>2. \E q2 : Laid(writing, d2, lead, q2, ends, to + Len(items)) /\ Extends(q2, q, ends[0], to, items)
      BY ONLY <1>4, <2>3, <2>5, <3>1, items \in Seq(Output), Printed
    <3>3. QED
      BY <3>1, <3>2 DEF Extends
  <2>8. PICK n \in Nat : n = Len(items)
    BY <1>4
  <2>9. Lead' = lead
    <3>1. CASE auth
      BY <1>2, <2>4, <3>1 DEF Lead
    <3>2. CASE ~auth
      <4>1. 1 \in 1..Len(down)
        BY <1>3, <1>4, <3>2 DEF Accepted
      <4>2. down'[1] = down[1]
        BY <1>5, <4>1
      <4>3. QED
        BY <1>2, <2>4, <4>2 DEF Lead
    <3>3. QED
      BY <3>1, <3>2
  <2>10. Spread(q2, ends, to + n)'
    <3>1. Laid(writing', down', Lead', q2, ends, to + n)
      BY <1>2, <2>7, <2>8, <2>9
    <3>2. QED
      BY <3>1, SpreadNow
  <2>11. Legal(screen, q2, ends[0], to, prompts, Loose) /\ Complete(screen, q2, ends[0], to)
    <3>1. Legal(screen, q, ends[0], to, prompts, Loose) /\ Complete(screen, q, ends[0], to)
      BY <1>3, <2>1 DEF Holds
    <3>2. QED
      BY <2>6, <2>7, <3>1, Alike
  <2>12. Legal(screen, q2, ends[0], to + n, prompts', Loose') /\ Complete(screen, q2, ends[0], to + n)
    <3>1. \A i \in (ends[0] + 1)..(to + Len(items)) : q2[i] \in Output
      BY <2>7 DEF Laid
    <3>2. screen.prompt <= prompts
      BY <2>1 DEF Holds
    <3>3. QED
      BY <2>6, <2>7, <2>8, <2>11, <3>1, <3>2
  <2>13. Legal(screen, q2, ends[0], to + n, prompts, Loose)' /\ Complete(screen, q2, ends[0], to + n)'
    BY <1>2, <2>12, LegalNow, CompleteNow
  <2>14. screen'.prompt <= prompts'
    <3>1. screen.prompt <= prompts /\ screen.prompt \in Nat
      BY <1>1, <2>1, Numbers DEF Holds
    <3>2. QED
      BY <1>2, <1>6, <3>1
  <2>15. ends[0] + backlog' = to + n
    <3>1. ends[0] + backlog = to
      BY <1>3, <2>1 DEF Holds
    <3>2. backlog' = backlog + n
      BY <1>2, <2>8
    <3>3. QED
      BY ONLY <1>6, <2>6, <3>1, <3>2, n \in Nat
  <2>16. ASSUME NEW c \in Callers PROVE Undisturbed(c, q2, ends[0], to + n)'
    <3>1. SUFFICES ASSUME quiet[c], wait[c] = "waiting"
                   PROVE  /\ line[c] <= prompts'
                          /\ screen.prompt <= shown[c] \/ screen.prompt > line[c]
                          /\ \A i \in (ends[0] + 1)..(to + n) : q2[i].kind = "prompt" => q2[i].number > line[c]
      BY <1>2 DEF Undisturbed
    <3>2. /\ line[c] <= prompts
          /\ screen.prompt <= shown[c] \/ screen.prompt > line[c]
          /\ \A i \in (ends[0] + 1)..to : q[i].kind = "prompt" => q[i].number > line[c]
      BY <2>1, <3>1 DEF Holds, Undisturbed
    <3>3. line[c] \in Nat
      BY <1>1 DEF Typed
    <3>4. ASSUME NEW i \in (ends[0] + 1)..(to + n), q2[i].kind = "prompt" PROVE q2[i].number > line[c]
      <4>1. CASE i <= to
        <5>1. i \in (ends[0] + 1)..to
          BY <2>6, <4>1
        <5>2. QED
          BY <2>7, <3>2, <3>4, <5>1
      <4>2. CASE i > to
        <5>1. i - to \in 1..n /\ to + (i - to) = i
          BY <2>6, <4>2
        <5>2. q2[i] = items[i - to]
          BY <2>7, <2>8, <5>1
        <5>3. q2[i].number > prompts
          BY <2>8, <3>4, <5>1, <5>2
        <5>4. q2[i].number \in Nat
          <6>1. q2[i] \in Output
            BY <2>8, <5>1, <5>2
          <6>2. QED
            BY <6>1 DEF Output
        <5>5. QED
          BY <1>6, <3>2, <3>3, <5>3, <5>4
      <4>3. QED
        BY <2>6, <4>1, <4>2
    <3>5. line[c] <= prompts'
      BY <1>6, <3>2, <3>3
    <3>6. QED
      BY <3>2, <3>4, <3>5
  <2>17. Holds(q2, ends[0], to + n)'
    <3>1. to + n <= ends[0] + backlog'
      BY <1>6, <2>6, <2>15
    <3>2. QED
      BY <2>13, <2>14, <2>15, <2>16, <3>1 DEF Holds
  <2>18. PICK till : till = to + n
    OBVIOUS
  <2>19. QED
    BY <2>10, <2>17, <2>18 DEF Stream
<1>15. QED
  BY <1>7, <1>9, <1>10, <1>11, <1>12, <1>13, <1>14 DEF IInv

(* The guest's steps.                                                      *)
LEMMA Items ==
  /\ \A k \in {"text", "sign", "cr", "nl"} : Item(k) \in Output /\ Item(k).kind = k
  /\ \A n \in Nat : Prompt(n) \in Output /\ Prompt(n).kind = "prompt" /\ Prompt(n).number = n
BY DEF Item, Prompt, Output

LEMMA ShellStartsUp ==
  ASSUME IInv, ShellStarts
  PROVE  IInv'
<1>1. /\ Typed /\ Life /\ Budget /\ Stream
  BY DEF IInv
<1>2. /\ Piped /\ prompts = 0 /\ prompts' = 1 /\ Prints(<<Prompt(1)>>)
      /\ UNCHANGED <<session, emulator, wait, line, shown, quiet, greeted>> /\ decoy' = decoy
      /\ typed' = typed /\ input' = input
  BY DEF ShellStarts, history
<1>3. PICK items : items = <<Prompt(1)>>
  OBVIOUS
<1>4. items \in Seq(Output) /\ Len(items) = 1 /\ items[1] = Prompt(1)
  BY <1>3, Items
<1>5. typed' \in Seq(Wordings) /\ (\A i \in 1..Len(typed') : typed'[i] # "text" => decoy')
      /\ input' \in Nat /\ prompts \in Nat /\ decoy' \in BOOLEAN
      /\ Loose \in BOOLEAN /\ Loose' = Loose
  BY <1>1, <1>2 DEF Typed, Loose
<1>6. Before' = Before /\ Before \in Nat
  BY <1>1, <1>2, Numbers DEF Before
<1>7. ASSUME NEW q, NEW from \in Nat, NEW to \in Nat, from <= to,
             Legal(screen, q, from, to, prompts, Loose), Complete(screen, q, from, to),
             \A i \in (from + 1)..(to + Len(items)) : q[i] \in Output,
             screen.prompt <= prompts,
             \A b \in 1..Len(items) : q[to + b] = items[b]
      PROVE  /\ Legal(screen, q, from, to + Len(items), prompts', Loose')
             /\ Complete(screen, q, from, to + Len(items))
  <2>1. q[to + 1] = Prompt(prompts + 1) /\ prompts' = prompts + 1
    BY <1>2, <1>4, <1>7
  <2>2. \A i \in (from + 1)..to : q[i] \in Output
    BY <1>4, <1>7
  <2>3. screen.prompt \in Nat
    BY <1>1, Numbers
  <2>4. Legal(screen, q, from, to + 1, prompts + 1, Loose) /\ Complete(screen, q, from, to + 1)
    BY <1>5, <1>7, <2>1, <2>2, <2>3, OneMorePrompt
  <2>5. QED
    BY <1>4, <1>5, <2>1, <2>4
<1>8. \A b \in 1..Len(items) : items[b].kind = "prompt" => items[b].number > prompts
  BY <1>2, <1>4, Items
<1>9. Prints(items) /\ prompts' \in Nat /\ prompts <= prompts' /\ Before' <= Before /\ Before' \in Nat
  BY <1>2, <1>3, <1>6
<1>10. QED
  BY <1>2, <1>4, <1>5, <1>7, <1>8, <1>9, GuestPrints

(* What a line holds, or a command prints.                                 *)
LEMMA Wording ==
  ASSUME NEW say \in Wordings, NEW text, text = Text(say)
  PROVE  /\ text \in Seq(Output) /\ Len(text) \in Nat /\ (text = <<>> <=> Len(text) = 0)
         /\ \/ say = "empty" /\ Len(text) = 0
            \/ say = "text" /\ Len(text) = 1 /\ text[1] = Item("text")
            \/ say = "sign" /\ Len(text) = 1 /\ text[1] = Item("sign")
            \/ say = "inner" /\ Len(text) = 2 /\ text[1] = Item("sign") /\ text[2] = Item("text")
<1>1. Item("text") \in Output /\ Item("sign") \in Output
  BY Items
<1>2. \A x, y \in Output : <<x>> \in Seq(Output) /\ <<x, y>> \in Seq(Output) /\ <<>> \in Seq(Output)
  OBVIOUS
<1>3. CASE say = "empty"
  <2>1. text = <<>>
    BY <1>3 DEF Text
  <2>2. QED
    BY <1>1, <1>2, <1>3, <2>1
<1>4. CASE say = "text"
  <2>1. text = <<Item("text")>>
    BY <1>4 DEF Text
  <2>2. QED
    BY <1>1, <1>2, <1>4, <2>1
<1>5. CASE say = "sign"
  <2>1. text = <<Item("sign")>>
    BY <1>5 DEF Text
  <2>2. QED
    BY <1>1, <1>2, <1>5, <2>1
<1>6. CASE say = "inner"
  <2>1. text = <<Item("sign"), Item("text")>>
    BY <1>6 DEF Text
  <2>2. text \in Seq(Output)
    BY <1>1, <1>2, <2>1
  <2>3. Len(text) = 2 /\ text[1] = Item("sign") /\ text[2] = Item("text") /\ text # <<>>
    BY <2>1
  <2>4. QED
    BY <1>6, <2>2, <2>3
<1>7. QED
  BY <1>3, <1>4, <1>5, <1>6 DEF Wordings

(* Text is printed behind a newline or a prompt.                           *)
Speaks(s, q, from, to, last, loose, say, text) ==
  /\ Legal(s, q, from, to, last, loose) /\ Complete(s, q, from, to) /\ from <= to
  /\ \A i \in (from + 1)..to : q[i] \in Output
  /\ s.prompt \in Nat /\ s.prompt <= last /\ last < Most
  /\ say \in Wordings /\ text = Text(say) /\ (say \in Signs => loose)
  /\ \A b \in 1..Len(text) : q[to + b] = text[b]
Spoken(s, q, from, to, last, loose, say, text) ==
  /\ Legal(s, q, from, to + Len(text), last, loose)
  /\ Len(text) = 0 => say = "empty" /\ Complete(s, q, from, to + Len(text))
  /\ Len(text) # 0 => /\ from < to + Len(text)
                      /\ \/ q[to + Len(text)].kind = "text"
                         \/ loose /\ q[to + Len(text)].kind = "sign"

LEMMA TextPrinted ==
  ASSUME NEW s, NEW q, NEW from \in Nat, NEW to \in Nat, NEW last \in Nat, NEW loose \in BOOLEAN,
         Most \in Nat, NEW say, NEW text, Speaks(s, q, from, to, last, loose, say, text)
  PROVE  Spoken(s, q, from, to, last, loose, say, text)
<1> USE DEF Speaks, Spoken
<1>1. \/ say = "empty" /\ Len(text) = 0
      \/ say = "text" /\ Len(text) = 1 /\ text[1] = Item("text")
      \/ say = "sign" /\ Len(text) = 1 /\ text[1] = Item("sign")
      \/ say = "inner" /\ Len(text) = 2 /\ text[1] = Item("sign") /\ text[2] = Item("text")
  BY Wording
<1>2. to + 0 = to /\ from < to + 1 /\ to + 1 \in Nat
  OBVIOUS
<1>3. CASE say = "empty" /\ Len(text) = 0
  BY <1>2, <1>3
<1>4. ASSUME Len(text) \in {1, 2}, text[1].kind \in {"text", "sign"}, text[1].kind = "sign" => loose
      PROVE  q[to + 1].kind = text[1].kind /\ Legal(s, q, from, to + 1, last, loose)
  <2>1. 1 \in 1..Len(text)
    BY <1>4
  <2>2. q[to + 1] = text[1]
    BY <2>1
  <2>3. QED
    BY ONLY <1>4, <2>2, OneMoreText, from \in Nat, to \in Nat, last \in Nat, loose \in BOOLEAN,
            Legal(s, q, from, to, last, loose), Complete(s, q, from, to), from <= to,
            \A i \in (from + 1)..to : q[i] \in Output, s.prompt \in Nat, s.prompt <= last,
            Most \in Nat, last < Most
<1>5. CASE say = "text" /\ Len(text) = 1 /\ text[1] = Item("text")
  <2>1. Len(text) \in {1, 2} /\ text[1].kind = "text"
    BY <1>5, Items
  <2>2. q[to + 1].kind = "text" /\ Legal(s, q, from, to + 1, last, loose)
    BY <1>4, <2>1
  <2>3. QED
    BY <1>2, <1>5, <2>2
<1>6. CASE say = "sign" /\ Len(text) = 1 /\ text[1] = Item("sign")
  <2>1. Len(text) \in {1, 2} /\ text[1].kind = "sign" /\ loose
    BY <1>6, Items DEF Signs
  <2>2. q[to + 1].kind = "sign" /\ Legal(s, q, from, to + 1, last, loose)
    BY <1>4, <2>1
  <2>3. Len(text) # 0 /\ to + Len(text) = to + 1
    BY <1>6
  <2>4. QED
    BY <1>2, <2>1, <2>2, <2>3, Zenon
<1>7. CASE say = "inner" /\ Len(text) = 2 /\ text[1] = Item("sign") /\ text[2] = Item("text")
  <2>1. Len(text) \in {1, 2} /\ text[1].kind = "sign" /\ text[2].kind = "text" /\ loose
    BY <1>7, Items DEF Signs
  <2>2. q[to + 1].kind = "sign" /\ Legal(s, q, from, to + 1, last, loose)
    BY <1>4, <2>1
  <2>3. /\ 2 \in 1..Len(text) /\ to + 2 = (to + 1) + 1 /\ to + Len(text) = (to + 1) + 1
        /\ from <= to + 1 /\ from < (to + 1) + 1 /\ from < to + 1
    BY ONLY <1>7, from \in Nat, to \in Nat, from <= to
  <2>4. q[(to + 1) + 1].kind = "text"
    <3>1. q[to + 2] = text[2]
      BY <2>3
    <3>2. QED
      BY <2>1, <2>3, <3>1
  <2>5. \A j \in (from + 1)..(to + 1) : q[j].kind = "prompt" => q[j].number < Most
    <3>1. \A j \in (from + 1)..(to + 1) : j \in (from + 1)..to \/ j = to + 1
      OBVIOUS
    <3>2. \A j \in (from + 1)..to : q[j].kind = "prompt" => q[j].number <= last
      BY DEF Legal
    <3>3. \A j \in (from + 1)..to : q[j].number \in Nat
      BY DEF Output
    <3>4. QED
      BY <2>2, <3>1, <3>2, <3>3
  <2>6. Follows(q[to + 1].kind, q[(to + 1) + 1].kind, loose)
    BY <2>2, <2>4 DEF Follows
  <2>7. s.prompt < Most /\ from # to + 1
    OBVIOUS
  <2>8. Legal(s, q, from, (to + 1) + 1, last, loose)
    BY ONLY <1>2, <2>1, <2>2, <2>3, <2>4, <2>5, <2>6, <2>7, OneMore, from \in Nat, to \in Nat
  <2>9. Len(text) # 0
    BY <1>7
  <2>10. QED
    BY <2>3, <2>4, <2>8, <2>9, Zenon
<1>8. QED
  BY <1>1, <1>3, <1>5, <1>6, <1>7

LEMMA TtyEchoesOne ==
  ASSUME IInv, TtyEchoes
  PROVE  IInv'
<1>1. /\ Typed /\ Life /\ Budget /\ Stream
  BY DEF IInv
<1>2. /\ Piped /\ typed # <<>> /\ typed' = Tail(typed) /\ input' = input + 1
      /\ UNCHANGED <<session, emulator, wait, line, shown, quiet, greeted>> /\ decoy' = decoy
      /\ prompts' = prompts
  BY DEF TtyEchoes, history
<1>3. /\ typed \in Seq(Wordings) /\ input \in Nat /\ prompts \in Nat
      /\ decoy' \in BOOLEAN /\ Loose \in BOOLEAN /\ Loose' = Loose
      /\ \A i \in 1..Len(typed) : typed[i] # "text" => decoy'
  BY <1>1, <1>2 DEF Typed, Loose
<1>4. /\ typed' \in Seq(Wordings) /\ Len(typed') = Len(typed) - 1 /\ Len(typed) > 0 /\ Head(typed) = typed[1]
      /\ \A i \in 1..Len(typed') : typed'[i] = typed[i + 1] /\ i + 1 \in 1..Len(typed)
      /\ 1 \in 1..Len(typed)
  BY <1>2, <1>3
<1>5. /\ \A i \in 1..Len(typed') : typed'[i] # "text" => decoy'
      /\ Head(typed) \in Wordings /\ (Head(typed) # "text" => Loose)
  <2>1. Head(typed) \in Wordings /\ (Head(typed) # "text" => decoy)
    BY <1>2, <1>3, <1>4
  <2>2. QED
    BY <1>3, <1>4, <2>1 DEF Loose
<1>6. PICK text : text = Text(Head(typed)) /\ Prints(text \o <<Item("cr"), Item("nl")>>)
  BY DEF TtyEchoes
<1>7. text \in Seq(Output) /\ Len(text) \in Nat
  BY <1>5, <1>6, Wording
<1>8. PICK items : items = text \o <<Item("cr"), Item("nl")>>
  OBVIOUS
<1>9. /\ items \in Seq(Output) /\ Len(items) = Len(text) + 2
      /\ \A b \in 1..Len(text) : items[b] = text[b]
      /\ items[Len(text) + 1] = Item("cr") /\ items[Len(text) + 2] = Item("nl")
  <2>1. PICK x, y \in Output : x = Item("cr") /\ y = Item("nl")
    BY Items
  <2>2. items = text \o <<x, y>>
    BY <1>8, <2>1
  <2>3. /\ items \in Seq(Output) /\ Len(items) = Len(text) + 2
        /\ \A b \in 1..Len(text) : items[b] = text[b]
        /\ items[Len(text) + 1] = x /\ items[Len(text) + 2] = y
    BY ONLY <1>7, <2>2, x \in Output, y \in Output
  <2>4. QED
    BY <2>1, <2>3
<1>10. /\ Before \in Nat /\ Most \in Nat /\ Cardinality(New) \in Nat /\ Len(typed) \in Nat
       /\ screen.prompt \in Nat
  BY <1>1, Numbers
<1>11. Before' = Before
  BY <1>2, <1>3, <1>4, <1>10 DEF Before
<1>12. prompts < Most
  <2>1. Before + Cardinality(New) <= Most
    BY <1>1 DEF Budget
  <2>2. Before = (IF prompts = 0 THEN 1 ELSE prompts) + input + Len(typed)
    BY DEF Before
  <2>3. QED
    BY ONLY <1>3, <1>4, <1>10, <2>1, <2>2
<1>13. ASSUME NEW q, NEW from \in Nat, NEW to \in Nat, from <= to,
              Legal(screen, q, from, to, prompts, Loose), Complete(screen, q, from, to),
              \A i \in (from + 1)..(to + Len(items)) : q[i] \in Output,
              screen.prompt <= prompts,
              \A b \in 1..Len(items) : q[to + b] = items[b]
       PROVE  /\ Legal(screen, q, from, to + Len(items), prompts', Loose')
              /\ Complete(screen, q, from, to + Len(items))
  <2>1. PICK at \in Nat : at = to + Len(text)
    BY <1>7
  <2>2. /\ from <= at /\ at + 1 \in Nat /\ from <= at + 1 /\ (at + 1) + 1 = to + Len(items)
        /\ \A i \in (from + 1)..to : i \in (from + 1)..(to + Len(items))
        /\ \A b \in 1..Len(text) : b \in 1..Len(items)
    <3>1. Len(items) = Len(text) + 2 /\ Len(text) \in Nat /\ from <= to
      BY <1>7, <1>9, <1>13
    <3>2. QED
      BY ONLY <2>1, <3>1, from \in Nat, to \in Nat
  <2>3. /\ \A i \in (from + 1)..to : q[i] \in Output
        /\ \A b \in 1..Len(text) : q[to + b] = text[b]
    BY <1>9, <1>13, <2>2
  <2>4. q[at + 1].kind = "cr" /\ q[(at + 1) + 1].kind = "nl"
    <3>1. /\ Len(text) + 1 \in 1..Len(items) /\ to + (Len(text) + 1) = at + 1
          /\ Len(text) + 2 \in 1..Len(items) /\ to + (Len(text) + 2) = (at + 1) + 1
      BY ONLY <1>7, <1>9, <2>1, to \in Nat
    <3>2. q[at + 1] = Item("cr") /\ q[(at + 1) + 1] = Item("nl")
      BY <1>9, <1>13, <3>1
    <3>3. QED
      BY <3>2, Items
  <2>5. /\ Legal(screen, q, from, at, prompts, Loose)
        /\ Len(text) = 0 => Head(typed) = "empty" /\ Complete(screen, q, from, at)
        /\ Len(text) # 0 => from < at /\ (q[at].kind = "text" \/ (Loose /\ q[at].kind = "sign"))
    <3>1. PICK say \in Wordings : say = Head(typed) /\ text = Text(say) /\ (say \in Signs => Loose)
      BY <1>5, <1>6 DEF Signs
    <3>2. /\ Legal(screen, q, from, to + Len(text), prompts, Loose)
          /\ Len(text) = 0 => say = "empty" /\ Complete(screen, q, from, to + Len(text))
          /\ Len(text) # 0 => /\ from < to + Len(text)
                              /\ \/ q[to + Len(text)].kind = "text"
                                 \/ Loose /\ q[to + Len(text)].kind = "sign"
      <4>1. Speaks(screen, q, from, to, prompts, Loose, say, text)
        BY ONLY <1>10, <1>12, <1>13, <2>3, <3>1, say \in Wordings DEF Speaks
      <4>2. Spoken(screen, q, from, to, prompts, Loose, say, text)
        BY ONLY <1>3, <1>10, <4>1, TextPrinted, from \in Nat, to \in Nat
      <4>3. QED
        BY ONLY <4>2 DEF Spoken
    <3>3. QED
      BY <2>1, <3>1, <3>2, Zenon
  <2>6. Legal(screen, q, from, at + 1, prompts, Loose)
    BY <1>5, <2>2, <2>4, <2>5, OneMoreReturn
  <2>7. Legal(screen, q, from, (at + 1) + 1, prompts, Loose) /\ Complete(screen, q, from, (at + 1) + 1)
    BY <2>2, <2>4, <2>6, OneMoreNewline
  <2>8. QED
    BY <1>2, <1>3, <2>2, <2>7
<1>14. \A b \in 1..Len(items) : items[b].kind # "prompt"
  <2>1. \A b \in 1..Len(items) : b \in 1..Len(text) \/ b = Len(text) + 1 \/ b = Len(text) + 2
    BY <1>7, <1>9
  <2>2. \A b \in 1..Len(text) : text[b] \in {Item("text"), Item("sign")}
    BY <1>5, <1>6, Wording
  <2>3. QED
    BY <1>9, <2>1, <2>2, Items
<1>15. prompts' \in Nat /\ prompts <= prompts' /\ Before' <= Before /\ Before' \in Nat /\ input' \in Nat
  BY ONLY <1>2, <1>3, <1>10, <1>11
<1>16. Prints(items) /\ (decoy => decoy')
  BY <1>2, <1>6, <1>8
<1>17. QED
  BY ONLY IInv, <1>2, <1>3, <1>4, <1>5, <1>9, <1>13, <1>14, <1>15, <1>16, GuestPrints

LEMMA ShellRunsOne ==
  ASSUME IInv, ShellRuns
  PROVE  IInv'
<1>1. /\ Typed /\ Life /\ Budget /\ Stream
  BY DEF IInv
<1>2. /\ Piped /\ input > 0 /\ prompts > 0 /\ input' = input - 1 /\ prompts' = prompts + 1
      /\ UNCHANGED <<session, emulator, wait, line, shown, quiet, greeted>> /\ typed' = typed
  BY DEF ShellRuns
<1>3. PICK output \in Outputs :
        /\ decoy' = (decoy \/ output \in Signs)
        /\ Prints((IF output = "empty" THEN <<>> ELSE Append(Text(output), Item("nl")))
                    \o <<Prompt(prompts + 1)>>)
  BY DEF ShellRuns
<1>4. PICK text : text = Text(output)
  OBVIOUS
<1>5. /\ typed \in Seq(Wordings) /\ input \in Nat /\ prompts \in Nat /\ output \in Wordings
      /\ (decoy => decoy') /\ decoy' \in BOOLEAN
      /\ \A i \in 1..Len(typed) : typed[i] # "text" => decoy'
  <2>1. typed \in Seq(Wordings) /\ input \in Nat /\ prompts \in Nat /\ decoy \in BOOLEAN
        /\ \A i \in 1..Len(typed) : typed[i] # "text" => decoy
    BY <1>1 DEF Typed
  <2>2. output \in Wordings
    BY <1>3, QueueAssumption DEF Wordings
  <2>3. QED
    BY <1>3, <2>1, <2>2
<1>6. Loose \in BOOLEAN /\ Loose' \in BOOLEAN /\ (Loose => Loose') /\ (output \in Signs => Loose')
  BY <1>1, <1>3 DEF Typed, Loose
<1>7. /\ text \in Seq(Output) /\ Len(text) \in Nat
      /\ text = <<>> <=> Len(text) = 0
      /\ text = <<>> <=> output = "empty"
  BY <1>4, <1>5, Wording
<1>8. PICK items : items = (IF text = <<>> THEN text ELSE Append(text, Item("nl"))) \o <<Prompt(prompts + 1)>>
  OBVIOUS
<1>9. /\ items \in Seq(Output) /\ \A b \in 1..Len(text) : items[b] = text[b]
      /\ Len(text) = 0 => Len(items) = 1 /\ items[1] = Prompt(prompts + 1)
      /\ Len(text) # 0 => /\ Len(items) = Len(text) + 2 /\ items[Len(text) + 1] = Item("nl")
                          /\ items[Len(text) + 2] = Prompt(prompts + 1)
  <2>1. PICK x, y \in Output : x = Item("nl") /\ y = Prompt(prompts + 1)
    BY <1>5, Items
  <2>2. CASE Len(text) = 0
    <3>1. items = <<y>>
      BY <1>7, <1>8, <2>1, <2>2
    <3>2. items \in Seq(Output) /\ Len(items) = 1 /\ items[1] = y
      BY <3>1
    <3>3. QED
      BY <1>7, <2>1, <2>2, <3>2
  <2>3. CASE Len(text) # 0
    <3>1. items = Append(text, x) \o <<y>>
      BY <1>7, <1>8, <2>1, <2>3
    <3>2. /\ items \in Seq(Output) /\ Len(items) = Len(text) + 2
          /\ \A b \in 1..Len(text) : items[b] = text[b]
          /\ items[Len(text) + 1] = x /\ items[Len(text) + 2] = y
      BY ONLY <1>7, <3>1, x \in Output, y \in Output
    <3>3. QED
      BY <2>1, <2>3, <3>2
  <2>4. QED
    BY <2>2, <2>3
<1>10. /\ Before \in Nat /\ Most \in Nat /\ Cardinality(New) \in Nat /\ Len(typed) \in Nat
       /\ screen.prompt \in Nat
  BY <1>1, Numbers
<1>11. Before' = Before
  BY <1>2, <1>5, <1>10 DEF Before
<1>12. prompts < Most
  <2>1. Before + Cardinality(New) <= Most
    BY <1>1 DEF Budget
  <2>2. Before = prompts + input + Len(typed)
    BY <1>2 DEF Before
  <2>3. QED
    BY ONLY <1>2, <1>5, <1>10, <2>1, <2>2
<1>13. ASSUME NEW q, NEW from \in Nat, NEW to \in Nat, from <= to,
              Legal(screen, q, from, to, prompts, Loose), Complete(screen, q, from, to),
              \A i \in (from + 1)..(to + Len(items)) : q[i] \in Output,
              screen.prompt <= prompts,
              \A b \in 1..Len(items) : q[to + b] = items[b]
       PROVE  /\ Legal(screen, q, from, to + Len(items), prompts', Loose')
              /\ Complete(screen, q, from, to + Len(items))
  <2>1. PICK at \in Nat : at = to + Len(text)
    BY <1>7
  <2>2. /\ Len(items) \in Nat /\ Len(text) <= Len(items) /\ from <= at /\ at + 1 \in Nat /\ from <= at + 1
        /\ Len(text) = 0 => 1 \in 1..Len(items) /\ at = to /\ at + 1 = to + Len(items)
        /\ Len(text) # 0 => /\ Len(text) + 1 \in 1..Len(items) /\ to + (Len(text) + 1) = at + 1
                            /\ Len(text) + 2 \in 1..Len(items) /\ to + (Len(text) + 2) = (at + 1) + 1
                            /\ (at + 1) + 1 = to + Len(items)
    <3>1. Len(text) \in Nat /\ from <= to
      BY <1>7, <1>13
    <3>2. CASE Len(text) = 0
      <4>1. Len(items) = 1
        BY <1>9, <3>2
      <4>2. QED
        BY ONLY <2>1, <3>1, <3>2, <4>1, from \in Nat, to \in Nat
    <3>3. CASE Len(text) # 0
      <4>1. Len(items) = Len(text) + 2
        BY <1>9, <3>3
      <4>2. QED
        BY ONLY <2>1, <3>1, <3>3, <4>1, from \in Nat, to \in Nat
    <3>4. QED
      BY <3>2, <3>3
  <2>3. /\ \A i \in (from + 1)..to : q[i] \in Output
        /\ Len(text) # 0 => \A i \in (from + 1)..(at + 1) : q[i] \in Output
        /\ \A b \in 1..Len(text) : q[to + b] = text[b]
    BY <1>7, <1>9, <1>13, <2>1, <2>2
  <2>4. Legal(screen, q, from, to, prompts, Loose')
    BY <1>5, <1>6, <1>13, <2>3, Weaker
  <2>5. /\ Legal(screen, q, from, at, prompts, Loose')
        /\ Len(text) = 0 => Complete(screen, q, from, at)
    <3>1. /\ Legal(screen, q, from, to + Len(text), prompts, Loose')
          /\ Len(text) = 0 => Complete(screen, q, from, to + Len(text))
      <4>1. Speaks(screen, q, from, to, prompts, Loose', output, text)
        BY ONLY <1>5, <1>6, <1>10, <1>12, <1>13, <2>3, <2>4, <1>4 DEF Speaks
      <4>2. Spoken(screen, q, from, to, prompts, Loose', output, text)
        BY ONLY <1>5, <1>6, <1>10, <4>1, TextPrinted, from \in Nat, to \in Nat
      <4>3. QED
        BY ONLY <4>2 DEF Spoken
    <3>2. QED
      BY <2>1, <3>1, Zenon
  <2>6. CASE Len(text) = 0
    <3>1. q[at + 1] = Prompt(prompts + 1)
      BY <1>9, <1>13, <2>2, <2>6
    <3>2. Legal(screen, q, from, at + 1, prompts + 1, Loose') /\ Complete(screen, q, from, at + 1)
      BY <1>5, <1>6, <1>10, <1>13, <2>2, <2>3, <2>5, <2>6, <3>1, OneMorePrompt
    <3>3. QED
      BY <1>2, <2>2, <2>6, <3>2
  <2>7. CASE Len(text) # 0
    <3>1. q[at + 1] = Item("nl") /\ q[(at + 1) + 1] = Prompt(prompts + 1)
      BY <1>9, <1>13, <2>2, <2>7
    <3>2. Legal(screen, q, from, at + 1, prompts, Loose') /\ Complete(screen, q, from, at + 1)
      BY <2>2, <2>5, <3>1, Items, OneMoreNewline
    <3>3. /\ Legal(screen, q, from, (at + 1) + 1, prompts + 1, Loose')
          /\ Complete(screen, q, from, (at + 1) + 1)
      BY <1>5, <1>6, <1>10, <1>13, <2>2, <2>3, <2>7, <3>1, <3>2, OneMorePrompt
    <3>4. QED
      BY <1>2, <2>2, <2>7, <3>3
  <2>8. QED
    BY <2>6, <2>7
<1>14. \A b \in 1..Len(items) : items[b].kind = "prompt" => items[b].number > prompts
  <2>1. \A b \in 1..Len(text) : text[b] \in {Item("text"), Item("sign")}
    BY <1>4, <1>5, Wording
  <2>2. /\ Item("text").kind = "text" /\ Item("sign").kind = "sign" /\ Item("nl").kind = "nl"
        /\ Prompt(prompts + 1).number > prompts
    <3>1. Prompt(prompts + 1).number = prompts + 1
      BY <1>5, Items
    <3>2. QED
      BY <1>5, <3>1, Items
  <2>3. ASSUME NEW b \in 1..Len(items), items[b].kind = "prompt" PROVE items[b] = Prompt(prompts + 1)
    <3>1. CASE Len(text) = 0
      <4>1. Len(items) = 1
        BY <1>9, <3>1
      <4>2. b = 1
        BY ONLY <4>1, b \in 1..Len(items)
      <4>3. QED
        BY <1>9, <3>1, <4>2
    <3>2. CASE Len(text) # 0
      <4>1. b \in 1..Len(text) \/ b = Len(text) + 1 \/ b = Len(text) + 2
        <5>1. Len(items) = Len(text) + 2 /\ Len(text) \in Nat
          BY <1>7, <1>9, <3>2
        <5>2. QED
          BY ONLY <5>1, b \in 1..Len(items)
      <4>2. b \notin 1..Len(text)
        BY <1>9, <2>1, <2>2, <2>3
      <4>3. b # Len(text) + 1
        BY <1>9, <2>2, <2>3, <3>2
      <4>4. QED
        BY <1>9, <3>2, <4>1, <4>2, <4>3
    <3>3. QED
      BY <3>1, <3>2
  <2>4. QED
    BY <2>2, <2>3
<1>15. /\ prompts' \in Nat /\ prompts <= prompts' /\ Before' <= Before /\ Before' \in Nat /\ input' \in Nat
       /\ typed' \in Seq(Wordings) /\ \A i \in 1..Len(typed') : typed'[i] # "text" => decoy'
  BY <1>2, <1>5, <1>10, <1>11
<1>16. Prints(items)
  <2>1. items = (IF output = "empty" THEN <<>> ELSE Append(Text(output), Item("nl"))) \o <<Prompt(prompts + 1)>>
    BY <1>4, <1>7, <1>8
  <2>2. QED
    BY <1>3, <2>1
<1>17. QED
  BY ONLY IInv, <1>2, <1>5, <1>9, <1>13, <1>14, <1>15, <1>16, GuestPrints

-----------------------------------------------------------------------------
(* The client's steps.                                                     *)

(* What arrives behind the answer goes to the emulator.                    *)
LEMMA Feeds ==
  ASSUME IInv, attached, sock = "open", greeted,
         NEW n \in 1..Len(down), Lead <= n,
         NEW chunk, Len(chunk) = n - Lead, chunk \in Seq(Output \cup Answers),
         \A b \in 1..Len(chunk) : chunk[b] = down[Lead + b],
         Feed(chunk), down' = SubSeq(down, n + 1, Len(down)),
         auth' = TRUE, answer' = <<>>, keepalive' \in BOOLEAN,
         connect' \in {"pending", "resolved", "rejected"},
         UNCHANGED <<sock, attached, wait, history, typed, screen, mark, guest>>
  PROVE  IInv'
<1>1. /\ Typed /\ Life /\ Budget /\ Bounded(screen) /\ Stream /\ PromptIsNew /\ NothingLeftBehind
      /\ \A d \in Callers : AtRest(d)
  BY DEF IInv
<1>2. UNCHANGED <<sock, attached, screen, mark, wait, line, shown, quiet, decoy, typed,
                  greeted, input, prompts, backlog>>
  BY DEF history, guest
<1>3. writing \in Seq(Chunks) /\ down \in Seq(Output \cup Answers) /\ Len(down) \in Nat
  BY <1>1 DEF Typed
<1>4. PICK q, ends, to : Spread(q, ends, to) /\ Holds(q, ends[0], to)
  BY <1>1 DEF Stream
<1>5. PICK lead : lead = Lead
  OBVIOUS
<1>6. Laid(writing, down, lead, q, ends, to)
  BY <1>4, <1>5 DEF Spread
<1>7. lead \in 0..Len(down) /\ lead <= n /\ n \in Nat /\ n <= Len(down)
  BY <1>3, <1>5, <1>6 DEF Laid
<1>8. chunk \in Seq(Output)
  <2>1. /\ to \in Nat /\ ends[0] \in Nat /\ ends[Len(writing)] \in Nat /\ ends[0] <= ends[Len(writing)]
    BY <1>3, <1>6, Dropped
  <2>2. to + lead = ends[Len(writing)] + Len(down)
    BY <1>6 DEF Laid
  <2>3. ASSUME NEW b \in 1..Len(chunk) PROVE chunk[b] \in Output
    <3>1. b \in 1..(Len(down) - lead)
      BY <1>3, <1>5, <1>7
    <3>2. down[lead + b] = q[ends[Len(writing)] + b]
      BY <1>6, <3>1 DEF Laid
    <3>3. ends[Len(writing)] + b \in (ends[0] + 1)..to
      <4>1. ASSUME NEW e \in Nat, NEW D \in Nat, to + lead = e + D, ends[0] <= e, b \in 1..(D - lead)
            PROVE  e + b \in (ends[0] + 1)..to
        BY ONLY <2>1, <1>7, <4>1
      <4>2. QED
        BY <1>3, <2>1, <2>2, <3>1, <4>1, Zenon
    <3>4. QED
      BY <1>5, <1>6, <3>2, <3>3 DEF Laid
  <2>4. chunk = [b \in 1..Len(chunk) |-> chunk[b]] /\ Len(chunk) \in Nat
    OBVIOUS
  <2>5. QED
    BY <2>3, <2>4
<1>9. /\ down' \in Seq(Output \cup Answers) /\ Len(down') = Len(down) - n
      /\ \A b \in 1..Len(down') : down'[b] = down[n + b]
  BY <1>3
<1>10. PICK w2 : w2 = writing' /\ w2 = IF chunk = <<>> THEN writing ELSE Append(writing, chunk)
  BY DEF Feed
<1>11. PICK d2 : d2 = down'
  OBVIOUS
<1>12. /\ w2 \in Seq(Chunks)
       /\ \E ends2 : Laid(w2, d2, 0, q, ends2, to) /\ ends2[0] = ends[0]
  <2>1. Front(chunk, down, lead, n)
    BY <1>5 DEF Front
  <2>2. Back(d2, down, n)
    BY <1>9, <1>11 DEF Back
  <2>3. Fed(w2, writing, chunk)
    BY <1>10 DEF Fed
  <2>4. QED
    BY ONLY <1>3, <1>6, <1>7, <1>8, <2>1, <2>2, <2>3, FedTo
<1>13. PICK ends2 : Laid(w2, d2, 0, q, ends2, to) /\ ends2[0] = ends[0]
  BY <1>12
<1>14. Typed'
  <2>1. writing' \in Seq(Chunks) /\ down' \in Seq(Output \cup Answers)
    BY <1>9, <1>10, <1>12
  <2>2. QED
    BY <1>1, <1>2, <2>1 DEF Typed
<1>15. Life'
  BY <1>1, <1>2 DEF Life
<1>16. NothingLeftBehind' /\ PromptIsNew'
  BY <1>1, <1>2 DEF NothingLeftBehind, PromptIsNew
<1>17. Budget'
  BY <1>1, <1>2 DEF Budget, Before, New, Most
<1>18. Bounded(screen)'
  BY <1>1, <1>2, BoundedNow
<1>19. \A d \in Callers : AtRest(d)'
  BY <1>1, <1>2 DEF AtRest
<1>20. Stream'
  <2>1. Lead' = 0
    BY DEF Lead
  <2>2. Laid(writing', down', Lead', q, ends2, to)
    BY <1>10, <1>11, <1>13, <2>1
  <2>3. Spread(q, ends2, to)'
    BY <2>2, SpreadNow
  <2>4. Holds(q, ends2[0], to)
    BY <1>4, <1>13
  <2>5. Holds(q, ends2[0], to)'
    BY <1>2, <2>4 DEF Holds, Legal, Complete, Undisturbed, Begins, Follows, Loose
  <2>6. QED
    BY <2>3, <2>5 DEF Stream
<1>21. QED
  BY <1>14, <1>15, <1>16, <1>17, <1>18, <1>19, <1>20 DEF IInv

(* The first half of the answer arrives.                                   *)
LEMMA HalfAnswer ==
  ASSUME IInv, attached, sock = "open", greeted, ~auth, answer = <<>>,
         Len(down) >= 2, down[1] = Item("O"), down[2] = Item("K"),
         answer' = <<Item("O")>>, down' = SubSeq(down, 2, Len(down)),
         UNCHANGED <<sock, attached, auth, connect, keepalive, writing, wait, history, typed,
                     screen, mark, guest>>
  PROVE  IInv'
<1>1. /\ Typed /\ Life /\ Budget /\ Bounded(screen) /\ Stream /\ PromptIsNew /\ NothingLeftBehind
      /\ \A d \in Callers : AtRest(d)
  BY DEF IInv
<1>2. UNCHANGED <<sock, attached, auth, connect, keepalive, writing, screen, mark, wait, line, shown,
                  quiet, decoy, typed, greeted, input, prompts, backlog>>
  BY DEF history, guest
<1>3. writing \in Seq(Chunks) /\ down \in Seq(Output \cup Answers) /\ Len(down) \in Nat
  BY <1>1 DEF Typed
<1>4. /\ down' \in Seq(Output \cup Answers) /\ Len(down') = Len(down) - 1
      /\ \A b \in 1..Len(down') : down'[b] = down[b + 1]
  BY <1>3
<1>5. down'[1] = Item("K") /\ Len(down') >= 1
  <2>1. 1 \in 1..Len(down') /\ 1 + 1 = 2
    BY <1>3, <1>4
  <2>2. QED
    BY <1>4, <2>1
<1>6. Lead = 2 /\ Lead' = 1
  <2>1. Item("O").kind # "no" /\ Item("K").kind # "no" /\ Len(<<>>) = 0 /\ Len(<<Item("O")>>) = 1
    BY DEF Item
  <2>2. Lead = 2
    BY <2>1 DEF Lead
  <2>3. Lead' = 1
    BY <1>2, <1>5, <2>1 DEF Lead
  <2>4. QED
    BY <2>2, <2>3
<1>7. Typed'
  BY <1>1, <1>2, <1>4 DEF Typed
<1>8. Life'
  <2>1. Accepted'
    BY <1>5 DEF Accepted, Item
  <2>2. QED
    BY <1>1, <1>2, <2>1 DEF Life
<1>9. NothingLeftBehind' /\ PromptIsNew'
  BY <1>1, <1>2 DEF NothingLeftBehind, PromptIsNew
<1>10. Budget'
  BY <1>1, <1>2 DEF Budget, Before, New, Most
<1>11. Bounded(screen)'
  BY <1>1, <1>2, BoundedNow
<1>12. \A d \in Callers : AtRest(d)'
  BY <1>1, <1>2 DEF AtRest
<1>13. Stream'
  <2>1. PICK q, ends, to : Spread(q, ends, to) /\ Holds(q, ends[0], to)
    BY <1>1 DEF Stream
  <2>2. Laid(writing, down, 2, q, ends, to)
    BY <1>6, <2>1 DEF Spread
  <2>3. ends[Len(writing)] \in Nat /\ to \in Nat
    BY <1>3, <2>2, Dropped
  <2>4. /\ to + 2 = ends[Len(writing)] + Len(down)
        /\ \A b \in 1..(Len(down) - 2) : down[2 + b] = q[ends[Len(writing)] + b]
    BY <2>2 DEF Laid
  <2>5. to + 1 = ends[Len(writing)] + Len(down')
    <3>1. ASSUME NEW e \in Nat, to + 2 = e + Len(down) PROVE to + 1 = e + (Len(down) - 1)
      BY <1>3, <2>3, <3>1
    <3>2. QED
      BY <1>4, <2>3, <2>4, <3>1
  <2>6. ASSUME NEW b \in 1..(Len(down') - 1) PROVE down'[1 + b] = q[ends[Len(writing)] + b]
    <3>1. 1 + b \in 1..Len(down') /\ (1 + b) + 1 = 2 + b /\ b \in 1..(Len(down) - 2)
      BY <1>3, <1>4
    <3>2. QED
      BY <1>4, <2>4, <3>1
  <2>7. 1 \in 0..Len(down')
    BY <1>3, <1>4
  <2>8. Laid(writing, down', 1, q, ends, to)
    <3>1. /\ to \in Nat /\ ends \in [0..Len(writing) -> Nat]
          /\ \A a \in 1..Len(writing) :
               /\ ends[a] = ends[a - 1] + Len(writing[a])
               /\ \A b \in 1..Len(writing[a]) : writing[a][b] = q[ends[a - 1] + b]
          /\ \A i \in (ends[0] + 1)..to : q[i] \in Output
      BY <2>2 DEF Laid
    <3>2. QED
      BY ONLY <2>5, <2>6, <2>7, <3>1 DEF Laid
  <2>9. Laid(writing', down', Lead', q, ends, to)
    BY <1>2, <1>6, <2>8
  <2>10. Spread(q, ends, to)'
    BY <2>9, SpreadNow
  <2>11. Holds(q, ends[0], to)'
    BY <1>2, <2>1 DEF Holds, Legal, Complete, Undisturbed, Begins, Follows, Loose
  <2>12. QED
    BY <2>10, <2>11 DEF Stream
<1>14. QED
  BY <1>7, <1>8, <1>9, <1>10, <1>11, <1>12, <1>13 DEF IInv

LEMMA Delivers ==
  ASSUME IInv, NEW n \in 1..Len(down), Deliver(n)
  PROVE  IInv'
<1> DEFINE chunk == SubSeq(down, 1, n)
           remaining == SubSeq(down, n + 1, Len(down))
<1>1. Typed /\ Life /\ Stream
  BY DEF IInv
<1>2. /\ attached /\ sock = "open" /\ Receive(chunk, remaining)
      /\ UNCHANGED <<screen, mark, guest>>
  BY DEF Deliver
<1>3. down \in Seq(Output \cup Answers) /\ Len(down) \in Nat /\ n \in 1..Len(down) /\ down # <<>>
  BY <1>1 DEF Typed
<1>4. /\ chunk \in Seq(Output \cup Answers) /\ Len(chunk) = n
      /\ \A b \in 1..n : chunk[b] = down[b]
  BY <1>3
<1> HIDE DEF chunk
<1>5. greeted /\ (auth => answer = <<>>) /\ (~auth => Refused \/ Accepted)
  BY <1>1, <1>2, <1>3 DEF Life
<1>6. /\ Item("no").kind = "no" /\ Item("O").kind = "O" /\ Item("K").kind = "K"
      /\ Item("O") \in Output \cup Answers
  BY DEF Item, Answers
<1>7. keepalive \in BOOLEAN /\ connect \in {"pending", "resolved", "rejected"}
  BY <1>1 DEF Typed
<1>8. CASE auth
  <2>1. /\ Feed(chunk) /\ down' = remaining /\ UNCHANGED <<session, wait, history, typed>>
    BY <1>2, <1>8 DEF Receive
  <2>2. Lead = 0
    BY <1>8 DEF Lead
  <2>3. UNCHANGED <<sock, attached, auth, answer, connect, keepalive>>
    BY <2>1 DEF session
  <2>4. Len(chunk) = n - Lead /\ (\A b \in 1..Len(chunk) : chunk[b] = down[Lead + b]) /\ Lead <= n
    BY <1>3, <1>4, <2>2
  <2>5. /\ auth' = TRUE /\ answer' = <<>> /\ keepalive' \in BOOLEAN
        /\ connect' \in {"pending", "resolved", "rejected"}
        /\ UNCHANGED <<sock, attached, wait, history, typed, screen, mark, guest>>
    BY <1>2, <1>5, <1>7, <1>8, <2>1, <2>3
  <2>6. QED
    BY <1>2, <1>3, <1>4, <1>5, <2>1, <2>4, <2>5, Feeds
<1>9. CASE ~auth /\ Refused
  <2>1. answer = <<>> /\ Len(down) = 1 /\ down[1] = Item("no") /\ n = 1
    BY <1>3, <1>9 DEF Refused
  <2>2. chunk[1] = Item("no") /\ chunk # <<>>
    BY <1>3, <1>4, <2>1
  <2>3. answer \o chunk = chunk
    BY <1>4, <2>1
  <2>4. Head(answer \o chunk).kind = "no"
    BY <1>4, <1>6, <2>2, <2>3
  <2>5. Teardown(Closing)
    BY <1>2, <1>9, <2>4 DEF Receive
  <2>6. Closing = "closing"
    BY <1>2 DEF Closing
  <2>7. QED
    BY <2>5, <2>6, TearsDown
<1>10. CASE ~auth /\ Accepted /\ answer = <<>>
  <2>1. Len(down) >= 2 /\ down[1] = Item("O") /\ down[2] = Item("K")
    BY <1>10 DEF Accepted
  <2>2. answer \o chunk = chunk /\ chunk # <<>> /\ Head(chunk) = Item("O")
    BY <1>3, <1>4, <1>10, <2>1
  <2>3. Head(answer \o chunk).kind # "no"
    BY <1>6, <2>2
  <2>4. CASE n = 1
    <3>1. Len(answer \o chunk) < 2
      BY <1>4, <2>2, <2>4
    <3>2. /\ answer' = chunk /\ down' = remaining
          /\ UNCHANGED <<sock, attached, auth, connect, keepalive, writing, wait, history, typed>>
      BY <1>2, <1>10, <2>2, <2>3, <3>1 DEF Receive
    <3>3. chunk = <<Item("O")>>
      <4>1. Len(chunk) = 1 /\ chunk[1] = Item("O")
        BY <1>4, <2>1, <2>4
      <4>2. QED
        BY <1>4, <4>1
    <3>4. down' = SubSeq(down, 2, Len(down))
      BY <2>4, <3>2
    <3>5. QED
      BY <1>2, <1>5, <1>10, <2>1, <3>2, <3>3, <3>4, HalfAnswer
  <2>5. CASE n # 1
    <3>1. n >= 2 /\ ~(Len(answer \o chunk) < 2)
      BY <1>3, <1>4, <2>2, <2>5
    <3>2. /\ answer' = <<>> /\ auth' = TRUE /\ keepalive' = TRUE /\ connect' = "resolved"
          /\ Feed(Rest(chunk)) /\ down' = remaining
          /\ UNCHANGED <<sock, attached, wait, history, typed>>
      BY <1>2, <1>10, <2>2, <2>3, <3>1 DEF Receive
    <3>3. Lead = 2
      <4>1. Len(<<>>) = 0
        OBVIOUS
      <4>2. QED
        BY <1>2, <1>5, <1>6, <1>10, <2>1, <4>1 DEF Lead
    <3>4. /\ Rest(chunk) \in Seq(Output \cup Answers) /\ Len(Rest(chunk)) = n - 2
          /\ \A b \in 1..(n - 2) : Rest(chunk)[b] = chunk[2 + b]
      BY <1>4, <3>1 DEF Rest
    <3>5. \A b \in 1..(n - 2) : 2 + b \in 1..n
      BY <1>3
    <3>6. PICK rest : rest = Rest(chunk)
      OBVIOUS
    <3>7. /\ rest \in Seq(Output \cup Answers) /\ Len(rest) = n - Lead
          /\ \A b \in 1..Len(rest) : rest[b] = down[Lead + b]
          /\ Lead <= n /\ Feed(rest)
      BY <1>4, <3>1, <3>2, <3>3, <3>4, <3>5, <3>6
    <3>8. keepalive' \in BOOLEAN /\ connect' \in {"pending", "resolved", "rejected"}
      BY <3>2
    <3>9. QED
      BY <1>2, <1>3, <1>5, <3>2, <3>7, <3>8, Feeds
  <2>6. QED
    BY <2>4, <2>5
<1>11. CASE ~auth /\ Accepted /\ answer # <<>>
  <2>1. answer = <<Item("O")>> /\ Len(down) >= 1 /\ down[1] = Item("K")
    BY <1>11 DEF Accepted
  <2>2. PICK a : a = answer \o chunk
    OBVIOUS
  <2>3. /\ a \in Seq(Output \cup Answers) /\ Len(a) = n + 1 /\ a[1] = Item("O")
        /\ \A b \in 1..n : a[1 + b] = chunk[b]
    <3>1. <<Item("O")>> \in Seq(Output \cup Answers) /\ Len(<<Item("O")>>) = 1 /\ <<Item("O")>>[1] = Item("O")
      BY <1>6
    <3>2. QED
      BY <1>3, <1>4, <2>1, <2>2, <3>1
  <2>4. Head(a).kind # "no" /\ ~(Len(a) < 2)
    BY <1>3, <1>6, <2>3
  <2>5. /\ answer' = <<>> /\ auth' = TRUE /\ keepalive' = TRUE /\ connect' = "resolved"
        /\ Feed(Rest(a)) /\ down' = remaining
        /\ UNCHANGED <<sock, attached, wait, history, typed>>
    BY <1>2, <1>11, <2>2, <2>4 DEF Receive
  <2>6. Lead = 1
    <3>1. Len(<<Item("O")>>) = 1
      OBVIOUS
    <3>2. QED
      BY <1>2, <1>5, <1>6, <1>11, <2>1, <3>1 DEF Lead
  <2>7. PICK rest : rest = Rest(a)
    OBVIOUS
  <2>8. /\ rest \in Seq(Output \cup Answers) /\ Len(rest) = n - 1
        /\ \A b \in 1..(n - 1) : rest[b] = a[2 + b]
    BY <1>3, <2>3, <2>7 DEF Rest
  <2>9. \A b \in 1..(n - 1) : 1 + b \in 1..n /\ 1 + (1 + b) = 2 + b
    BY <1>3
  <2>10. /\ rest \in Seq(Output \cup Answers) /\ Len(rest) = n - Lead
         /\ \A b \in 1..Len(rest) : rest[b] = down[Lead + b]
         /\ Lead <= n /\ Feed(rest)
    BY <1>3, <1>4, <2>3, <2>5, <2>6, <2>7, <2>8, <2>9
  <2>11. keepalive' \in BOOLEAN /\ connect' \in {"pending", "resolved", "rejected"}
    BY <2>5
  <2>12. QED
    BY <1>2, <1>3, <1>5, <2>5, <2>10, <2>11, Feeds
<1>12. QED
  BY <1>5, <1>8, <1>9, <1>10, <1>11

(* The emulator calls back.                                                *)
LEMMA RendersOne ==
  ASSUME IInv, Render
  PROVE  IInv'
<1>1. /\ Typed /\ Life /\ Budget /\ Bounded(screen) /\ Stream /\ PromptIsNew /\ NothingLeftBehind
      /\ \A d \in Callers : AtRest(d)
  BY DEF IInv
<1>2. /\ writing # <<>> /\ writing' = Tail(writing)
      /\ screen' = Parsed(screen, Head(writing))
      /\ backlog' = backlog - Len(Head(writing))
      /\ Settle(Checked(screen'))
      /\ UNCHANGED <<sock, attached, auth, answer, connect, keepalive, mark, quiet, decoy, typed, down,
                     greeted, input, prompts>>
  BY DEF Render, session
<1>3. /\ writing \in Seq(Chunks) /\ down \in Seq(Output \cup Answers)
      /\ prompts \in Nat /\ backlog \in Nat /\ screen \in Screens
      /\ Most \in Nat /\ screen.prompt \in Nat /\ Before \in Nat /\ Cardinality(New) \in Nat
      /\ line \in [Callers -> Nat] /\ shown \in [Callers -> Nat] /\ wait \in [Callers -> Verdicts]
      /\ Loose \in BOOLEAN /\ Loose' = Loose
  BY <1>1, <1>2, Numbers DEF Typed, Loose
<1>4. prompts <= Most
  <2>1. Before + Cardinality(New) <= Most
    BY <1>1 DEF Budget
  <2>2. Before = (IF prompts = 0 THEN 1 ELSE prompts) + input + Len(typed)
    BY DEF Before
  <2>3. input \in Nat /\ Len(typed) \in Nat
    BY <1>1, Numbers DEF Typed
  <2>4. QED
    BY ONLY <1>3, <2>1, <2>2, <2>3
<1>5. PICK q, ends, to : Spread(q, ends, to) /\ Holds(q, ends[0], to)
  BY <1>1 DEF Stream
<1>6. PICK lead : lead = Lead /\ Laid(writing, down, lead, q, ends, to)
  BY <1>5 DEF Spread
<1>7. /\ Tail(writing) \in Seq(Chunks) /\ Len(Head(writing)) \in Nat /\ Len(Head(writing)) > 0
      /\ ends[0] \in Nat /\ to \in Nat /\ ends[0] + Len(Head(writing)) <= to
      /\ Portion(Head(writing), q, ends[0]) /\ Printable(q, ends[0], to)
      /\ Left(Tail(writing), down, lead, q, ends[0] + Len(Head(writing)), to)
  BY ONLY <1>2, <1>3, <1>6, Taken
<1>8. PICK chunk : chunk = Head(writing)
  OBVIOUS
<1>9. PICK n \in Nat : n = Len(chunk)
  BY <1>7, <1>8
<1>10. /\ n > 0 /\ ends[0] \in Nat /\ to \in Nat /\ ends[0] + n <= to
      /\ Portion(chunk, q, ends[0]) /\ Printable(q, ends[0], to)
      /\ Tail(writing) \in Seq(Chunks)
      /\ \E rest : Laid(Tail(writing), down, lead, q, rest, to) /\ rest[0] = ends[0] + n
  BY <1>7, <1>8, <1>9 DEF Left
<1>11. PICK rest : Laid(Tail(writing), down, lead, q, rest, to) /\ rest[0] = ends[0] + n
  BY <1>10
<1>12. PICK t : t = screen'
  OBVIOUS
<1>13. /\ Legal(screen, q, ends[0], to, prompts, Loose) /\ screen.prompt <= prompts
       /\ to <= ends[0] + backlog
       /\ attached => ends[0] + backlog = to /\ Complete(screen, q, ends[0], to)
       /\ \A c \in Callers : Undisturbed(c, q, ends[0], to)
  BY <1>5 DEF Holds
<1>14. /\ t \in Screens /\ Bounded(t)
       /\ Legal(t, q, ends[0] + n, to, prompts, Loose)
       /\ Complete(screen, q, ends[0], to) => Complete(t, q, ends[0] + n, to)
       /\ screen.prompt <= t.prompt /\ t.prompt <= prompts
       /\ ~Loose /\ t.text = "prompt" => screen.prompt < t.prompt
       /\ \/ t.prompt = screen.prompt
          \/ \E i \in (ends[0] + 1)..(ends[0] + n) : q[i].kind = "prompt" /\ t.prompt = q[i].number
  <2>1. t = Parsed(screen, chunk)
    BY <1>2, <1>8, <1>12
  <2>2. PICK from \in Nat : from = ends[0]
    BY <1>10
  <2>3. /\ Len(chunk) \in Nat /\ Len(chunk) > 0 /\ from + Len(chunk) <= to /\ to \in Nat
        /\ Portion(chunk, q, from) /\ Printable(q, from, to)
        /\ Legal(screen, q, from, to, prompts, Loose) /\ screen.prompt <= prompts
    BY <1>9, <1>10, <1>13, <2>2
  <2>4. Bounded(screen)
    BY <1>1
  <2>5. Shows(screen, Parsed(screen, chunk), q, from, from + Len(chunk), to, prompts, Loose)
    BY ONLY <1>3, <1>4, <2>2, <2>3, <2>4, ChunkRendered
  <2>6. Shows(screen, t, q, ends[0], ends[0] + n, to, prompts, Loose)
    BY <1>9, <2>1, <2>2, <2>5
  <2>7. QED
    BY <2>6 DEF Shows
<1>15. t.prompt \in Nat
  BY <1>14 DEF Screens
<1>16. PICK settled : settled = Checked(screen')
  OBVIOUS
<1>17. \A c \in Callers : settled[c] = IF wait[c] = "waiting" /\ Ready(t, mark) THEN Verdict(c, t) ELSE wait[c]
  BY <1>12, <1>16 DEF Checked
<1>18. \A c \in Callers : Verdict(c, t) \in {"answered", "early", "stale"}
  BY DEF Verdict
<1>19. settled \in [Callers -> Verdicts]
  <2>1. settled = [c \in Callers |-> settled[c]]
    BY <1>16 DEF Checked
  <2>2. \A c \in Callers : settled[c] \in Verdicts
    BY <1>3, <1>17, <1>18 DEF Verdicts
  <2>3. QED
    BY <2>1, <2>2
<1>20. /\ wait' = settled /\ wait' \in [Callers -> Verdicts]
       /\ line' \in [Callers -> Nat] /\ shown' \in [Callers -> Nat]
       /\ New' = New /\ \A d \in Callers : AtRest(d)'
       /\ \A d \in Callers : wait'[d] = "waiting" =>
            wait[d] = "waiting" /\ line'[d] = line[d] /\ shown'[d] = shown[d]
  <2>1. \A c \in Callers : /\ settled[c] = "waiting" => wait[c] = "waiting"
                           /\ settled[c] = "new" <=> wait[c] = "new"
    BY <1>17, <1>18
  <2>2. screen'.prompt \in Nat /\ screen.prompt <= screen'.prompt /\ UNCHANGED quiet
    BY <1>2, <1>12, <1>14, <1>15
  <2>3. Settle(settled)
    BY <1>2, <1>16
  <2>4. QED
    BY <1>1, <1>3, <1>19, <2>1, <2>2, <2>3, Settling
<1>21. backlog' \in Nat /\ backlog' = backlog - n
  <2>1. backlog' = backlog - n
    BY <1>2, <1>8, <1>9
  <2>2. QED
    BY ONLY <1>3, <1>10, <1>13, <2>1, n \in Nat
<1>22. Typed'
  <2>1. writing' \in Seq(Chunks) /\ screen' \in Screens
    BY <1>2, <1>10, <1>12, <1>14
  <2>2. QED
    BY <1>1, <1>2, <1>20, <1>21, <2>1 DEF Typed
<1>23. Life'
  BY <1>1, <1>2 DEF Life, Refused, Accepted
<1>24. NothingLeftBehind'
  BY <1>1, <1>2, <1>20 DEF NothingLeftBehind
<1>25. Budget'
  BY <1>1, <1>2, <1>20 DEF Budget, Before, Most
<1>26. Bounded(screen)'
  BY <1>12, <1>14, BoundedNow
<1>27. Stream'
  <2>1. Lead' = lead
    BY <1>2, <1>6 DEF Lead
  <2>2. Spread(q, rest, to)'
    <3>1. Laid(writing', down', Lead', q, rest, to)
      BY <1>2, <1>11, <2>1
    <3>2. QED
      BY <3>1, SpreadNow
  <2>3. PICK from \in Nat : from = ends[0] + n
    BY <1>10
  <2>4. Legal(screen, q, from, to, prompts, Loose)'
    BY <1>2, <1>3, <1>12, <1>14, <2>3, LegalNow
  <2>5. screen'.prompt <= prompts'
    BY <1>2, <1>12, <1>14
  <2>6. to <= from + backlog' /\ (attached => from + backlog' = to)
    BY ONLY <1>3, <1>10, <1>13, <1>21, <2>3, n \in Nat
  <2>7. attached' => Complete(screen, q, from, to)'
    BY <1>2, <1>12, <1>13, <1>14, <2>3, CompleteNow
  <2>8. ASSUME NEW c \in Callers PROVE Undisturbed(c, q, from, to)'
    <3>1. SUFFICES ASSUME quiet'[c], wait'[c] = "waiting"
                   PROVE  /\ line'[c] <= prompts'
                          /\ screen'.prompt <= shown'[c] \/ screen'.prompt > line'[c]
                          /\ \A i \in (from + 1)..to : q[i].kind = "prompt" => q[i].number > line'[c]
      BY DEF Undisturbed
    <3>2. /\ line[c] <= prompts
          /\ screen.prompt <= shown[c] \/ screen.prompt > line[c]
          /\ \A i \in (ends[0] + 1)..to : q[i].kind = "prompt" => q[i].number > line[c]
      BY <1>2, <1>13, <1>20, <3>1 DEF Undisturbed
    <3>3. /\ \A i \in (from + 1)..to : i \in (ends[0] + 1)..to
          /\ \A i \in (ends[0] + 1)..(ends[0] + n) : i \in (ends[0] + 1)..to
      BY <1>10, <2>3
    <3>4. t.prompt <= shown[c] \/ t.prompt > line[c]
      BY <1>14, <3>2, <3>3
    <3>5. QED
      BY <1>2, <1>12, <1>20, <3>1, <3>2, <3>3, <3>4
  <2>9. Holds(q, from, to)'
    BY <1>2, <2>4, <2>5, <2>6, <2>7, <2>8 DEF Holds
  <2>10. Holds(q, rest[0], to)'
    BY <1>11, <2>3, <2>9
  <2>11. QED
    BY <2>2, <2>10 DEF Stream
<1>28. PromptIsNew'
  <2>1. SUFFICES ASSUME ~decoy, NEW c \in Callers
                 PROVE  settled[c] # "stale" /\ (quiet[c] => settled[c] # "early")
    BY <1>2, <1>20 DEF PromptIsNew
  <2>2. CASE ~(wait[c] = "waiting" /\ Ready(t, mark))
    BY <1>1, <1>17, <2>1, <2>2 DEF PromptIsNew
  <2>3. CASE wait[c] = "waiting" /\ Ready(t, mark)
    <3>1. settled[c] = Verdict(c, t) /\ t.text = "prompt" /\ ~Loose
      <4>1. settled[c] = Verdict(c, t) /\ t.text \in {"prompt", "sign"} /\ ~Loose
        BY <1>17, <2>1, <2>3 DEF Ready, Loose
      <4>2. t.text = "sign" => Loose
        BY <1>14 DEF Legal
      <4>3. QED
        BY <4>1, <4>2
    <3>2. shown[c] <= screen.prompt /\ shown[c] \in Nat /\ line[c] \in Nat
      BY <1>1, <1>3, <2>3 DEF AtRest
    <3>3. screen.prompt < t.prompt
      BY <1>14, <2>1, <3>1
    <3>4. t.prompt > shown[c]
      BY ONLY <1>3, <1>15, <3>2, <3>3
    <3>5. quiet[c] => t.prompt > line[c]
      <4>1. ASSUME quiet[c] PROVE t.prompt > line[c]
        <5>1. \A i \in (ends[0] + 1)..to : q[i].kind = "prompt" => q[i].number > line[c]
          BY <1>13, <2>3, <4>1 DEF Undisturbed
        <5>2. PICK i \in (ends[0] + 1)..(ends[0] + n) : q[i].kind = "prompt" /\ t.prompt = q[i].number
          BY <1>3, <1>14, <1>15, <3>3
        <5>3. i \in (ends[0] + 1)..to
          BY <1>10
        <5>4. QED
          BY <5>1, <5>2, <5>3
      <4>2. QED
        BY <4>1
    <3>6. QED
      BY <3>1, <3>4, <3>5 DEF Verdict
  <2>4. QED
    BY <2>2, <2>3
<1>29. QED
  BY <1>20, <1>22, <1>23, <1>24, <1>25, <1>26, <1>27, <1>28 DEF IInv
-----------------------------------------------------------------------------
(* A console that opens.                                                   *)
LEMMA Initial ==
  ASSUME Init
  PROVE  IInv
<1>1. /\ Len(<<>>) = 0 /\ Most \in Nat /\ Most = 1 + Cardinality(Callers)
  <2>1. Cardinality(Callers) \in Nat
    BY QueueAssumption, FS_CardinalityType
  <2>2. QED
    BY <2>1 DEF Most
<1>2. screen \in Screens /\ screen.col = 0 /\ screen.text = "blank" /\ screen.prompt = 0
  BY DEF Init, Screens
<1>3. Typed
  <2>1. /\ writing \in Seq(Chunks) /\ typed \in Seq(Wordings) /\ down \in Seq(Output \cup Answers)
        /\ Len(typed) = 0 /\ prompts \in Nat
    BY DEF Init
  <2>2. /\ wait \in [Callers -> Verdicts] /\ line \in [Callers -> Nat] /\ shown \in [Callers -> Nat]
        /\ quiet \in [Callers -> BOOLEAN]
    BY DEF Init, Verdicts
  <2>3. \A i \in 1..Len(typed) : typed[i] # "text" => decoy
    <3>1. \A i \in 1..0 : FALSE
      OBVIOUS
    <3>2. QED
      BY <2>1, <3>1
  <2>4. /\ sock = "connecting" /\ attached = TRUE /\ auth = FALSE /\ keepalive = FALSE
        /\ connect = "pending" /\ answer = <<>> /\ mark = None /\ decoy = FALSE
        /\ input = 0 /\ backlog = 0 /\ greeted = FALSE
    BY DEF Init
  <2>5. QED
    BY <1>2, <2>1, <2>2, <2>3, <2>4 DEF Typed
<1>4. Life
  BY DEF Init, Life
<1>5. NothingLeftBehind
  BY DEF Init, NothingLeftBehind
<1>6. Budget
  <2>1. New = Callers
    BY DEF Init, New
  <2>2. Before = 1
    BY <1>1 DEF Init, Before
  <2>3. QED
    BY <1>1, <2>1, <2>2 DEF Budget
<1>7. Bounded(screen)
  BY <1>1, <1>2 DEF Bounded
<1>8. Stream
  <2> DEFINE q == [i \in Nat |-> i]
             ends == [i \in 0..0 |-> 0]
  <2>1. ends \in [0..0 -> Nat] /\ ends[0] = 0
    OBVIOUS
  <2>2. Lead = 0 /\ writing = <<>> /\ down = <<>>
    BY DEF Init, Lead
  <2> HIDE DEF q, ends
  <2>3. Laid(<<>>, <<>>, 0, q, ends, 0)
    BY <1>1, <2>1 DEF Laid
  <2>4. Spread(q, ends, 0)
    BY <2>2, <2>3 DEF Spread
  <2>5. Legal(screen, q, 0, 0, prompts, Loose)
    BY <1>2 DEF Legal
  <2>6. Complete(screen, q, 0, 0)
    BY <1>2 DEF Complete
  <2>7. Holds(q, 0, 0)
    BY <1>2, <2>5, <2>6 DEF Holds, Undisturbed, Init
  <2>8. QED
    BY <2>1, <2>4, <2>7 DEF Stream
<1>9. \A c \in Callers : AtRest(c)
  BY DEF Init, AtRest
<1>10. PromptIsNew
  BY DEF Init, PromptIsNew
<1>11. QED
  BY <1>3, <1>4, <1>5, <1>6, <1>7, <1>8, <1>9, <1>10 DEF IInv

(* Nothing happens.                                                        *)
LEMMA Stutters ==
  ASSUME IInv, UNCHANGED vars
  PROVE  IInv'
<1>1. UNCHANGED <<sock, attached, auth, answer, connect, keepalive, writing, screen, mark, wait,
                  line, shown, quiet, decoy, typed, down, greeted, input, prompts, backlog>>
  BY DEF vars, session, emulator, history, guest
<1>2. Typed' /\ Life' /\ NothingLeftBehind' /\ PromptIsNew' /\ Budget'
  <2>1. Typed'
    BY <1>1 DEF IInv, Typed
  <2>2. Life'
    BY <1>1 DEF IInv, Life, Refused, Accepted
  <2>3. NothingLeftBehind' /\ PromptIsNew'
    BY <1>1 DEF IInv, NothingLeftBehind, PromptIsNew
  <2>4. Budget'
    BY <1>1 DEF IInv, Budget, Before, New, Most
  <2>5. QED
    BY <2>1, <2>2, <2>3, <2>4
<1>3. Bounded(screen)'
  BY <1>1 DEF IInv, Bounded, Most
<1>4. \A c \in Callers : AtRest(c)'
  BY <1>1 DEF IInv, AtRest
<1>5. Stream'
  <2>1. Typed /\ Stream /\ Lead' = Lead /\ (decoy => decoy')
    BY <1>1 DEF IInv, Lead, Typed
  <2>2. \A c \in Callers : wait'[c] = "waiting" /\ quiet'[c] =>
          wait[c] = "waiting" /\ quiet[c] /\ line'[c] = line[c] /\ shown'[c] = shown[c]
    BY <1>1
  <2>3. QED
    BY <1>1, <2>1, <2>2, StreamKept DEF Typed
<1>6. QED
  BY <1>2, <1>3, <1>4, <1>5 DEF IInv

LEMMA Inductive ==
  ASSUME IInv, [Next]_vars
  PROVE  IInv'
<1>1. sock \in {"connecting", "open", "closing", "closed"} /\ NothingLeftBehind /\ Life
  BY DEF IInv, Typed
<1>2. CASE Close \/ SocketError \/ ConnectTimeout
  <2>1. attached /\ Teardown(Closing)
    BY <1>1, <1>2 DEF Close, SocketError, ConnectTimeout, NothingLeftBehind
  <2>2. Closing = "closing"
    BY <1>1, <2>1 DEF Closing, Life
  <2>3. QED
    BY <2>1, <2>2, TearsDown
<1>3. CASE SocketCloses
  <2>1. CASE attached
    BY <1>3, <2>1, TearsDown DEF SocketCloses
  <2>2. CASE ~attached
    BY <1>3, <2>2, SocketMoves
  <2>3. QED
    BY <2>1, <2>2
<1>4. CASE \E n \in 1..Len(down) : Deliver(n)
  BY <1>4, Delivers
<1>5. CASE Render
  BY <1>5, RendersOne
<1>6. ASSUME NEW c \in Callers, Command(c) PROVE IInv'
  BY <1>6, CommandFails, CommandSends
<1>7. ASSUME NEW c \in Callers, Wait(c) PROVE IInv'
  BY <1>7, WaitsOnly
<1>8. ASSUME NEW c \in Callers, WaitTimeout(c) PROVE IInv'
  BY <1>8, WaitTimesOut
<1>9. CASE SocketOpens
  BY <1>9, SocketMoves
<1>10. CASE ProxyAnswers
  BY <1>10, Greets
<1>11. CASE Guest
  BY <1>11, ShellStartsUp, TtyEchoesOne, ShellRunsOne DEF Guest
<1>12. CASE UNCHANGED vars
  BY <1>12, Stutters
<1>13. QED
  BY <1>2, <1>3, <1>4, <1>5, <1>6, <1>7, <1>8, <1>9, <1>10, <1>11, <1>12 DEF Next

(* The invariant holds in every reachable state.                           *)
THEOREM Invariance == Spec => []IInv
<1>1. Init => IInv
  BY Initial
<1>2. IInv /\ [Next]_vars => IInv'
  BY Inductive
<1>3. QED
  BY <1>1, <1>2, PTL DEF Spec

-----------------------------------------------------------------------------
(* Properties.                                                             *)

(* Every variable has its type; the cursor's column is bounded by the      *)
(* prompts the shell prints, which are one and one for every line.         *)
THEOREM TypeCorrect == Spec => []TypeOK
<1>1. ASSUME IInv PROVE TypeOK
  <2>1. Typed /\ Bounded(screen)
    BY <1>1 DEF IInv
  <2>2. Most \in Nat /\ Columns = 0..(Most + 1)
    BY <2>1, Numbers
  <2>3. /\ screen \in Screens
        /\ screen.row \in Nat /\ screen.col \in Nat /\ screen.prompt \in Nat
        /\ screen.text \in {"blank", "prompt", "sign", "other"}
    BY <2>1 DEF Typed, Screens
  <2>4. screen.col <= Most + 1
    BY ONLY <2>1, <2>2, <2>3 DEF Bounded
  <2>5. screen \in Screen
    <3>1. screen.col \in Columns
      BY <2>2, <2>3, <2>4
    <3>2. screen = [row |-> screen.row, col |-> screen.col, text |-> screen.text, prompt |-> screen.prompt]
      BY <2>3 DEF Screens
    <3>3. QED
      BY <2>3, <3>1, <3>2 DEF Screen
  <2>6. QED
    BY <2>1, <2>5 DEF Typed, TypeOK, Verdicts
<1>2. QED
  BY <1>1, Invariance, PTL

(* What the client has not read of the stream, counted.                    *)
LEMMA Unread ==
  ASSUME IInv, attached, NEW q, NEW ends, NEW to, Spread(q, ends, to)
  PROVE  Cardinality({i \in 1..Len(down) : down[i].kind \notin {"O", "K", "no"}}) = Len(down) - Lead
<1>1. /\ Len(down) \in Nat /\ Lead \in 0..Len(down)
  <2>1. down \in Seq(Output \cup Answers)
    BY Numbers DEF IInv
  <2>2. QED
    BY <2>1 DEF Spread, Laid
<1>2. ASSUME NEW i \in 1..Len(down), i <= Lead PROVE down[i].kind \in {"O", "K", "no"}
  <2>1. Lead # 0
    BY <1>1, <1>2
  <2>2. attached /\ greeted /\ ~auth
    BY <2>1 DEF Lead
  <2>3. Refused \/ Accepted
    BY <2>2 DEF IInv, Life
  <2>4. /\ Item("no").kind = "no" /\ Item("O").kind = "O" /\ Item("K").kind = "K"
        /\ Len(<<>>) = 0 /\ Len(<<Item("O")>>) = 1
    BY DEF Item
  <2>5. CASE Refused
    BY <1>1, <2>4, <2>5 DEF Refused
  <2>6. CASE Accepted /\ answer = <<>>
    <3>1. down[1] = Item("O") /\ down[2] = Item("K")
      BY <2>4, <2>6 DEF Accepted
    <3>2. Lead = 2
      BY <2>2, <2>4, <2>6, <3>1 DEF Lead
    <3>3. i = 1 \/ i = 2
      BY <1>1, <1>2, <3>2
    <3>4. QED
      BY <2>4, <3>1, <3>3
  <2>7. CASE Accepted /\ answer # <<>>
    <3>1. answer = <<Item("O")>> /\ down[1] = Item("K")
      BY <2>7 DEF Accepted
    <3>2. Lead = 1
      BY <2>2, <2>4, <3>1 DEF Lead
    <3>3. i = 1
      BY <1>1, <1>2, <3>2
    <3>4. QED
      BY <2>4, <3>1, <3>3
  <2>8. QED
    BY <2>3, <2>5, <2>6, <2>7
<1>3. ASSUME NEW i \in 1..Len(down), i > Lead PROVE down[i].kind \notin {"O", "K", "no"}
  <2>1. PICK w : w = writing /\ w \in Seq(Chunks)
    BY Numbers DEF IInv
  <2>2. PICK d : d = down /\ d \in Seq(Output \cup Answers)
    BY Numbers DEF IInv
  <2>3. PICK lead : lead = Lead /\ Laid(w, d, lead, q, ends, to)
    BY <2>1, <2>2 DEF Spread
  <2>4. /\ Len(w) \in 0..Len(w) /\ ends[Len(w)] \in Nat /\ ends[0] \in Nat
        /\ ends[0] <= ends[Len(w)] /\ to \in Nat
    BY ONLY <2>1, <2>2, <2>3, Rising
  <2>5. /\ to + lead = ends[Len(w)] + Len(d)
        /\ \A b \in 1..(Len(d) - lead) : d[lead + b] = q[ends[Len(w)] + b]
        /\ \A j \in (ends[0] + 1)..to : q[j] \in Output
    BY <2>3 DEF Laid
  <2>6. PICK b \in 1..(Len(d) - lead) : i = lead + b
    <3>1. i \in Nat /\ lead \in Nat /\ Len(d) \in Nat /\ lead < i /\ i <= Len(d)
      BY <1>1, <1>3, <2>2, <2>3
    <3>2. i - lead \in 1..(Len(d) - lead) /\ i = lead + (i - lead)
      BY ONLY <3>1
    <3>3. QED
      BY ONLY <3>2
  <2>7. ends[Len(w)] + b \in (ends[0] + 1)..to
    <3>1. Len(d) \in Nat /\ lead \in Nat
      BY <1>1, <2>2, <2>3
    <3>2. QED
      BY ONLY <2>4, <2>5, <2>6, <3>1
  <2>8. down[i] \in Output
    BY <2>2, <2>5, <2>6, <2>7
  <2>9. QED
    BY <2>8 DEF Output
<1>4. {i \in 1..Len(down) : down[i].kind \notin {"O", "K", "no"}} = (Lead + 1)..Len(down)
  <2>1. \A i : i \in (Lead + 1)..Len(down) <=> i \in 1..Len(down) /\ i > Lead
    BY <1>1
  <2>2. \A i \in 1..Len(down) : i > Lead <=> ~(i <= Lead)
    BY <1>1
  <2>3. QED
    BY <1>2, <1>3, <2>1, <2>2
<1>5. QED
  <2>1. Lead \in Nat /\ Lead <= Len(down) /\ Lead + 1 \in Int /\ Len(down) \in Int
    BY <1>1
  <2>2. Cardinality((Lead + 1)..Len(down)) =
          IF Lead + 1 > Len(down) THEN 0 ELSE Len(down) - (Lead + 1) + 1
    BY <2>1, FS_Interval
  <2>3. ASSUME NEW a \in Nat, NEW b \in Nat, a <= b
        PROVE  (IF a + 1 > b THEN 0 ELSE b - (a + 1) + 1) = b - a
    BY <2>3
  <2>4. Cardinality((Lead + 1)..Len(down)) = Len(down) - Lead
    BY <1>1, <2>1, <2>2, <2>3
  <2>5. QED
    BY ONLY <1>4, <2>4

(* What the guest printed and the screen does not show is under way or with *)
(* the emulator, for as long as the console is attached: feed() is given    *)
(* everything behind the proxy's OK once, wherever the chunks end.          *)
THEOREM NothingIsLost == Spec => []NothingLost
<1>1. ASSUME IInv PROVE NothingLost
  <2> DEFINE Size == CHOOSE g : g = [i \in 0..Len(writing) |->
                       IF i = 0 THEN 0 ELSE g[i - 1] + Len(writing[i])]
             Waiting == Cardinality({i \in 1..Len(down) : down[i].kind \notin {"O", "K", "no"}})
  <2>1. SUFFICES ASSUME attached PROVE backlog = Waiting + Size[Len(writing)]
    BY DEF NothingLost
  <2>2. writing \in Seq(Chunks) /\ down \in Seq(Output \cup Answers) /\ backlog \in Nat
    BY <1>1, Numbers DEF IInv, Typed
  <2>3. PICK q, ends, to : Spread(q, ends, to) /\ Holds(q, ends[0], to)
    BY <1>1 DEF IInv, Stream
  <2>4. Laid(writing, down, Lead, q, ends, to)
    BY <2>3 DEF Spread
  <2>5. Size[Len(writing)] = ends[Len(writing)] - ends[0]
    BY ONLY <2>2, <2>4, Sizes
  <2>6. Waiting = Len(down) - Lead
    BY <1>1, <2>1, <2>3, Unread
  <2>7. ends[0] + backlog = to
    BY <2>1, <2>3 DEF Holds
  <2>8. /\ ends[0] \in Nat /\ ends[Len(writing)] \in Nat /\ to \in Nat /\ Lead \in Nat
        /\ Len(down) \in Nat /\ to + Lead = ends[Len(writing)] + Len(down)
    BY <2>2, <2>4, Rising DEF Laid
  <2> HIDE DEF Size, Waiting
  <2>9. PICK a, b, d, e, f \in Nat :
          /\ a = ends[0] /\ b = ends[Len(writing)] /\ d = Lead /\ e = Len(down) /\ f = backlog
          /\ (a + f) + d = b + e
    BY <2>2, <2>7, <2>8
  <2>10. f = (e - d) + (b - a)
    <3>1. (a + f) + d = b + e
      BY <2>9
    <3>2. QED
      BY ONLY <3>1, a \in Nat, b \in Nat, d \in Nat, e \in Nat, f \in Nat
  <2>11. QED
    BY ONLY <2>5, <2>6, <2>9, <2>10
<1>2. QED
  BY <1>1, Invariance, PTL

(* A console that ended, whichever way, leaves no caller of attach() and no *)
(* wait behind, and its keepalive interval is cleared.                      *)
THEOREM NothingLeft == Spec => []NothingLeftBehind
<1>1. IInv => NothingLeftBehind
  BY DEF IInv
<1>2. QED
  BY <1>1, Invariance, PTL

(* As long as every line sent has text and no $ or # is sent or printed but *)
(* in a prompt, a wait that resolves has seen a prompt that was rendered    *)
(* after its line went out, and the one that answers the line if nothing    *)
(* else was under way.                                                      *)
THEOREM PromptNew == Spec => []PromptIsNew
<1>1. IInv => PromptIsNew
  BY DEF IInv
<1>2. QED
  BY <1>1, Invariance, PTL
=============================================================================
