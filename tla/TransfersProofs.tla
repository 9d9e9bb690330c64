--------------------------- MODULE TransfersProofs ---------------------------
(* Theorems about Transfers, for any callers, lengths of contents, faults  *)
(* and jobs: an uploaded file is whole, nothing is left on the node, a lost *)
(* shell is dropped, and who resolved has written or read the real content. *)
EXTENDS Transfers, TLAPS

Steps == {"idle", "temp", "mktemp", "append", "install", "rm", "push", "pull",
          "unlink", "stat", "cat", "tee", "chmod", "base64", "done", "failed"}
Jobs == [kind : Kinds, pc : Steps, i : 1..K, raised : {"no", "error", "lost"}]

(* The first n pieces of a caller's content.                                 *)
Sent(c, n) == [i \in 1..n |-> Piece(c, i)]

Typed ==
  /\ files = [f \in Names |-> files[f]]
  /\ job \in [Callers -> Jobs]
  /\ opened \in Nat /\ conn \in [Callers -> 0..opened]
  /\ entry \in 0..opened /\ helper \in 0..opened /\ dead \subseteq 1..opened
  /\ faults \in 0..MaxFaults /\ begun \in 0..MaxJobs
  /\ cut \in [Callers -> BOOLEAN]

(* A job is at a step of its own kind, over a shell.                         *)
OnCourse(c) ==
  /\ job[c].pc \in {"mktemp", "append", "install", "rm"} => Kind(c) \in {"upload", "push"}
  /\ job[c].pc \in {"stat", "cat"} => Kind(c) \in {"download", "pull"}
  /\ job[c].pc \in {"temp", "unlink"} => Nested(c)
  /\ job[c].pc = "push" => Kind(c) = "push"
  /\ job[c].pc = "pull" => Kind(c) = "pull"
  /\ job[c].pc = "tee" => Kind(c) \in GuestWrites
  /\ job[c].pc = "chmod" => Kind(c) = "writeMode"
  /\ job[c].pc = "base64" => Kind(c) = "read"
  /\ job[c].pc # "idle" => conn[c] # 0

(* The staging file of an upload holds what was sent so far.                 *)
Staged(c) ==
  Alive(c) =>
    /\ job[c].pc = "append" => files[Staging(c)] = Sent(c, job[c].i - 1)
    /\ job[c].pc = "install" => files[Staging(c)] = Whole(c)

(* What is on the node for a job is there for a clean-up still to come, or   *)
(* for the job to find that the shell was lost under its mktemp.             *)
Owed(c) ==
  ~cut[c] =>
    /\ files[Staging(c)] # Absent =>
         \/ job[c].pc \in {"append", "install", "rm"}
         \/ job[c].pc = "mktemp" /\ conn[c] \in dead
    /\ files[Temp(c)] # Absent =>
         Nested(c) /\ Active(c) /\ (job[c].pc = "temp" => conn[c] \in dead)

(* A job that met a lost shell was over it, and has dropped it when it ends. *)
Dropped(c) ==
  job[c].raised = "lost" =>
    /\ conn[c] \in dead
    /\ job[c].pc # "done"
    /\ job[c].pc = "failed" => entry # conn[c] \/ Kind(c) \in {"upload", "download"}

(* A job that raised is on its way out.                                      *)
Leaving(c) == job[c].raised # "no" => job[c].pc \in {"rm", "unlink", "failed"}

(* While a job runs, what is in its target now is among what was there.      *)
Sees(c) == Active(c) => files[Target(c)] \in seen[c]

(* A reader that met no error has on the node, and then in hand, a content   *)
(* its source had.                                                           *)
Read(c) ==
  job[c].raised = "no" =>
    /\ Kind(c) = "pull" /\ job[c].pc \in {"stat", "cat"} => files[Temp(c)] \in seen[c]
    /\ Kind(c) \notin Writers /\ job[c].pc \in {"unlink", "done"} => local[c] \in seen[c]

(* A writer that met no error has its content, or the pieces so far, where   *)
(* they belong, if nobody else touched the file and no piece was cut short.  *)
Written(c) ==
  job[c].raised = "no" =>
    /\ Kind(c) = "push" /\ job[c].pc \in {"rm", "push"} => files[Temp(c)] = Whole(c)
    /\ alone[c] /\ ~short[c] =>
         /\ Kind(c) = "upload" /\ job[c].pc = "rm" => files[TargetFile] = Whole(c)
         /\ Kind(c) = "push" /\ job[c].pc = "unlink" => files[GuestFile] = Whole(c)
         /\ job[c].pc = "tee" /\ conn[c] \notin dead /\ job[c].i > 1 =>
              files[GuestFile] = Sent(c, job[c].i - 1)
         /\ job[c].pc = "chmod" => files[GuestFile] = Whole(c)
         /\ Kind(c) \in Writers /\ job[c].pc = "done" => files[Target(c)] = Whole(c)

Watched ==
  /\ local = [c \in Callers |-> local[c]] /\ seen = [c \in Callers |-> seen[c]]
  /\ alone \in [Callers -> BOOLEAN] /\ short \in [Callers -> BOOLEAN]

IInv ==
  /\ Typed
  /\ TargetIsWhole
  /\ \A c \in Callers : OnCourse(c) /\ Staged(c) /\ Owed(c) /\ Dropped(c)

GInv ==
  /\ IInv /\ Watched
  /\ \A c \in Callers : Leaving(c) /\ Sees(c) /\ Read(c) /\ Written(c)

-----------------------------------------------------------------------------
(* Files and pieces.                                                       *)

(* The files of the callers and the two targets are different files.         *)
LEMMA FilesApart ==
  ASSUME NEW c \in Callers
  PROVE  /\ {TargetFile, GuestFile, Staging(c), Beside(c), Temp(c)} \subseteq Names
         /\ TargetFile # GuestFile
         /\ {Staging(c), Beside(c), Temp(c)} \cap {TargetFile, GuestFile} = {}
         /\ \A d \in Callers : /\ Staging(c) # Beside(d) /\ Staging(c) # Temp(d)
                               /\ Temp(c) # Beside(d)
                               /\ Staging(c) = Staging(d) => c = d
                               /\ Temp(c) = Temp(d) => c = d
<1>1. Len(TargetFile) = 1 /\ Len(GuestFile) = 1
  BY DEF TargetFile, GuestFile
<1>2. Len(Staging(c)) = 2 /\ Len(Beside(c)) = 2 /\ Len(Temp(c)) = 2
  BY DEF Staging, Beside, Temp
<1>3. TargetFile # GuestFile
  BY DEF TargetFile, GuestFile
<1>4. \A d \in Callers : /\ Staging(c) # Beside(d) /\ Staging(c) # Temp(d)
                         /\ Temp(c) # Beside(d)
                         /\ Staging(c) = Staging(d) => c = d
                         /\ Temp(c) = Temp(d) => c = d
  BY DEF Staging, Beside, Temp
<1>5. {TargetFile, GuestFile, Staging(c), Beside(c), Temp(c)} \subseteq Names
  BY DEF Names, Staging, Beside, Temp
<1> QED BY <1>1, <1>2, <1>3, <1>4, <1>5

(* Pieces sent are a sequence, one longer with each piece, and never Absent. *)
LEMMA SentPieces ==
  ASSUME NEW c \in Callers, NEW n \in Nat
  PROVE  /\ Sent(c, n) \in Seq(Callers \X Nat)
         /\ Sent(c, n) # Absent
         /\ Append(Sent(c, n), Piece(c, n + 1)) = Sent(c, n + 1)
         /\ Sent(c, 0) = <<>>
<1>1. \A m \in Nat : Sent(c, m) \in Seq(Callers \X Nat)
  BY DEF Sent, Piece
<1>2. Sent(c, n) # Absent
  BY <1>1, TransfersAssumption
<1>3. Append(Sent(c, n), Piece(c, n + 1)) = Sent(c, n + 1)
  <2>1. Len(Sent(c, n)) = n /\ Len(Sent(c, n + 1)) = n + 1
    BY DEF Sent
  <2>2. \A i \in 1..(n + 1) : Append(Sent(c, n), Piece(c, n + 1))[i] = Sent(c, n + 1)[i]
    BY <1>1, <2>1 DEF Sent, Piece
  <2> QED BY <1>1, <2>1, <2>2 DEF Sent, Piece
<1>4. Sent(c, 0) = <<>>
  BY DEF Sent
<1> QED BY <1>1, <1>2, <1>3, <1>4
-----------------------------------------------------------------------------
(* Commands.                                                               *)

Wholes == {<<Old>>} \cup {Whole(d) : d \in Callers}

(* What a command may do to the files: its own caller's, and the targets; a  *)
(* target on the node gets a whole content.                                  *)
Contained(c, g) ==
  /\ g = [f \in Names |-> g[f]]
  /\ g[TargetFile] \in Wholes
  /\ \A d \in Callers \ {c} :
       g[Staging(d)] = files[Staging(d)] /\ g[Temp(d)] = files[Temp(d)]

(* One file changes, neither another caller's nor the target on the node.    *)
LEMMA WithContained ==
  ASSUME IInv, NEW c \in Callers, NEW content,
         NEW f \in {GuestFile, Staging(c), Beside(c), Temp(c)}
  PROVE  /\ Contained(c, With(f, content))
         /\ \A h \in Names : With(f, content)[h] = IF h = f THEN content ELSE files[h]
<1>1. f \in Names /\ f # TargetFile
  BY FilesApart
<1>2. TargetFile \in Names /\ files = [h \in Names |-> files[h]]
  BY FilesApart DEF IInv, Typed
<1>3. \A h \in Names : With(f, content)[h] = IF h = f THEN content ELSE files[h]
  BY <1>1, <1>2 DEF With
<1>4. With(f, content) = [h \in Names |-> With(f, content)[h]]
  BY <1>1, <1>2 DEF With
<1>5. With(f, content)[TargetFile] \in Wholes
  BY <1>1, <1>2, <1>3 DEF IInv, TargetIsWhole, Wholes
<1>6. ASSUME NEW d \in Callers \ {c}
      PROVE  /\ With(f, content)[Staging(d)] = files[Staging(d)]
             /\ With(f, content)[Temp(d)] = files[Temp(d)]
  <2>1. Staging(d) \in Names /\ Temp(d) \in Names
    BY FilesApart
  <2>2. Staging(d) # f /\ Temp(d) # f
    BY FilesApart
  <2> QED BY <1>3, <2>1, <2>2
<1> QED BY <1>3, <1>4, <1>5, <1>6 DEF Contained

(* Nothing changes.                                                          *)
LEMMA SameContained ==
  ASSUME IInv, NEW c \in Callers
  PROVE  Contained(c, files)
BY DEF IInv, Typed, TargetIsWhole, Contained, Wholes

(* What a step leaves in its caller's own files when it answers 0.           *)
LEMMA EffectFacts ==
  ASSUME IInv, NEW c \in Callers, Alive(c)
  PROVE  LET g == Effect(c) IN
         /\ Contained(c, g)
         /\ job[c].pc = "mktemp" => g[Staging(c)] = Sent(c, 0)
         /\ job[c].pc = "append" => g[Staging(c)] = Sent(c, job[c].i)
         /\ job[c].pc = "rm" => g[Staging(c)] = Absent
         /\ job[c].pc \notin {"mktemp", "append", "rm"} => g[Staging(c)] = files[Staging(c)]
         /\ job[c].pc = "unlink" => g[Temp(c)] = Absent
         /\ job[c].pc \notin {"temp", "unlink", "pull"} /\ ~(job[c].pc = "install" /\ Nested(c))
              => g[Temp(c)] = files[Temp(c)]
<1> DEFINE g == Effect(c)
<1>0. /\ Staging(c) \in Names /\ Temp(c) \in Names /\ GuestFile # Staging(c)
      /\ GuestFile # Temp(c) /\ Staging(c) # Temp(c)
  BY FilesApart
<1>1. CASE job[c].pc \in {"temp", "pull", "unlink"}
  <2>1. \E content : g = With(Temp(c), content) /\ (job[c].pc = "unlink" => content = Absent)
    BY <1>1 DEF Effect
  <2> QED BY <1>0, <1>1, <2>1, WithContained
<1>2. CASE job[c].pc \in {"push", "tee"}
  <2>1. \E content : g = With(GuestFile, content)
    BY <1>2 DEF Effect, Tee, AppendTo
  <2> QED BY <1>0, <1>2, <2>1, WithContained
<1>3. CASE job[c].pc = "mktemp"
  <2>1. g = With(Staging(c), Sent(c, 0))
    BY <1>3, SentPieces DEF Effect
  <2> QED BY <1>0, <1>3, <2>1, WithContained
<1>4. CASE job[c].pc = "rm"
  <2>1. g = With(Staging(c), Absent)
    BY <1>4 DEF Effect
  <2> QED BY <1>0, <1>4, <2>1, WithContained
<1>5. CASE job[c].pc = "append"
  <2>1. job[c].i \in Nat \ {0} /\ job[c].i - 1 \in Nat
    BY TransfersAssumption DEF IInv, Typed, Jobs
  <2>2. files[Staging(c)] = Sent(c, job[c].i - 1)
    BY <1>5 DEF IInv, Staged
  <2>3. g = With(Staging(c), Sent(c, job[c].i))
    <3>1. files[Staging(c)] # Absent
      BY <2>1, <2>2, SentPieces
    <3>2. Append(Sent(c, job[c].i - 1), Piece(c, (job[c].i - 1) + 1))
            = Sent(c, (job[c].i - 1) + 1)
      BY <2>1, SentPieces
    <3>3. (job[c].i - 1) + 1 = job[c].i
      BY <2>1
    <3> QED BY <1>5, <2>2, <3>1, <3>2, <3>3 DEF Effect, AppendTo
  <2> QED BY <1>0, <1>5, <2>3, WithContained
<1>6. CASE job[c].pc = "install"
  <2>1. files[Staging(c)] = Whole(c)
    BY <1>6 DEF IInv, Staged
  <2>2. g = With(NodeFile(c), Whole(c))
    BY <1>6, <2>1 DEF Effect
  <2>3. CASE Nested(c)
    BY <1>0, <1>6, <2>2, <2>3, WithContained DEF NodeFile
  <2>4. CASE ~Nested(c)
    <3>1. g = [files EXCEPT ![TargetFile] = Whole(c)]
      BY <2>2, <2>4 DEF NodeFile, With
    <3>2. /\ files = [f \in Names |-> files[f]] /\ TargetFile \in Names
          /\ \A d \in Callers : /\ {Staging(d), Temp(d)} \subseteq Names
                                /\ TargetFile \notin {Staging(d), Temp(d)}
      BY FilesApart DEF IInv, Typed
    <3>3. g[TargetFile] \in Wholes
      BY <3>1, <3>2 DEF Wholes
    <3>4. Contained(c, g)
      BY <3>1, <3>2, <3>3 DEF Contained
    <3> QED BY <1>0, <1>6, <2>4, <3>1, <3>2, <3>4
  <2> QED BY <2>3, <2>4
<1>7. CASE job[c].pc \notin {"temp", "pull", "unlink", "push", "tee", "mktemp", "rm",
                            "append", "install"}
  <2>1. g = files
    BY <1>7 DEF Effect
  <2> QED BY <1>7, <2>1, SameContained
<1> QED BY <1>1, <1>2, <1>3, <1>4, <1>5, <1>6, <1>7

(* A guest write whose base64 fails puts nothing, or a cut piece, in the     *)
(* container's file alone.                                                   *)
LEMMA ShortFacts ==
  ASSUME IInv, NEW c \in Callers, NEW p, NEW i, NEW g \in TeeShort(p, i)
  PROVE  /\ Contained(c, g)
         /\ \A h \in Names \ {GuestFile} : g[h] = files[h]
<1>1. g = files \/ \E content : g = With(GuestFile, content)
  BY DEF TeeShort, Tee, AppendTo
<1>2. CASE g = files
  BY <1>2, SameContained
<1>3. CASE \E content : g = With(GuestFile, content)
  BY <1>3, WithContained
<1> QED BY <1>1, <1>2, <1>3

(* What it may leave when it does not: as before, as after, a file beside    *)
(* the target or a cut piece.                                                *)
LEMMA PartialFacts ==
  ASSUME IInv, NEW c \in Callers, Alive(c), NEW g \in Partial(c)
  PROVE  /\ Contained(c, g)
         /\ g[Staging(c)] # Absent =>
              files[Staging(c)] # Absent \/ job[c].pc \in {"mktemp", "append"}
         /\ g[Temp(c)] # Absent =>
              files[Temp(c)] # Absent \/ (Nested(c) /\ job[c].pc \in {"temp", "pull", "install"})
<1>0. Staging(c) \in Names /\ Temp(c) \in Names /\ Beside(c) \notin {Staging(c), Temp(c)}
  BY FilesApart
<1>1. CASE g = files
  BY <1>1, SameContained
<1>2. CASE g = Effect(c)
  <2>1. job[c].pc \in {"pull", "temp"} => Nested(c)
    BY DEF IInv, OnCourse, Nested
  <2> QED BY <1>2, <2>1, EffectFacts
<1>3. CASE \E content : g = With(Beside(c), content)
  BY <1>0, <1>3, WithContained
<1>4. CASE g \in TeeShort(c, job[c].i)
  <2>1. GuestFile \notin {Staging(c), Temp(c)}
    BY FilesApart
  <2> QED BY <1>0, <1>4, <2>1, ShortFacts
<1> QED BY <1>1, <1>2, <1>3, <1>4 DEF Partial

-----------------------------------------------------------------------------
(* The invariant, step by step.                                            *)

LEMMA InitIInv == Init => IInv
<1> SUFFICES ASSUME Init PROVE IInv
  OBVIOUS
<1> USE DEF Init
<1>1. Typed
  BY TransfersAssumption DEF Typed, Jobs, Steps, Kinds
<1>2. TargetIsWhole
  BY DEF TargetIsWhole, Names
<1>3. ASSUME NEW c \in Callers
      PROVE  OnCourse(c) /\ Staged(c) /\ Owed(c) /\ Dropped(c)
  <2>1. files[Staging(c)] = Absent /\ files[Temp(c)] = Absent
    BY FilesApart
  <2> QED BY <2>1 DEF OnCourse, Staged, Owed, Dropped, Alive, Active
<1> QED BY <1>1, <1>2, <1>3 DEF IInv

(* A caller whose job, files and shell another one's step leaves alone.      *)
LEMMA OthersKeep ==
  ASSUME IInv, NEW d \in Callers,
         job'[d] = job[d], conn'[d] = conn[d], cut'[d] = cut[d],
         files'[Staging(d)] = files[Staging(d)], files'[Temp(d)] = files[Temp(d)],
         dead \subseteq dead', entry' \in {entry, 0, opened + 1}
  PROVE  OnCourse(d)' /\ Staged(d)' /\ Owed(d)' /\ Dropped(d)'
<1> USE DEF IInv, Typed, Kind, Nested, Active, Alive
<1>1. OnCourse(d)' /\ Staged(d)' /\ Owed(d)'
  BY DEF OnCourse, Staged, Owed
<1>2. Dropped(d)'
  <2>1. job[d].pc # "idle" => conn[d] # 0
    BY DEF OnCourse
  <2>2. conn[d] \in 0..opened /\ opened \in Nat
    OBVIOUS
  <2> QED BY <2>1, <2>2 DEF Dropped
<1> QED BY <1>1, <1>2

(* A job goes on.                                                            *)
LEMMA GoOnFacts ==
  ASSUME IInv, NEW c \in Callers, NEW pc \in Steps, NEW raised \in {"no", "error", "lost"},
         Counted(c) /\ pc = job[c].pc => job[c].i < K,
         GoOn(c, pc, raised)
  PROVE  /\ job' \in [Callers -> Jobs]
         /\ \A d \in Callers \ {c} : job'[d] = job[d]
         /\ job'[c].kind = job[c].kind /\ job'[c].pc = pc /\ job'[c].raised = raised
         /\ job'[c].i = IF Counted(c) /\ pc = job[c].pc THEN job[c].i + 1 ELSE 1
<1>1. K \in Nat \ {0} /\ job \in [Callers -> Jobs]
  BY TransfersAssumption DEF IInv, Typed
<1>2. job[c] \in Jobs
  BY <1>1
<1>3. (IF Counted(c) /\ pc = job[c].pc THEN job[c].i + 1 ELSE 1) \in 1..K
  BY <1>1, <1>2 DEF Jobs
<1> QED BY <1>1, <1>2, <1>3 DEF GoOn, Jobs

(* Where a job is after a command that answered 0 is on its course.          *)
LEMMA OnOkFacts ==
  ASSUME IInv, NEW c \in Callers, Active(c), job[c].pc \notin {"rm", "unlink"}
  PROVE  /\ OnOk(c) \in Steps \ {"idle", "failed", "temp"}
         /\ Counted(c) /\ OnOk(c) = job[c].pc => job[c].i < K
         /\ OnOk(c) \in {"mktemp", "append", "install", "rm"} => Kind(c) \in {"upload", "push"}
         /\ OnOk(c) \in {"stat", "cat"} => Kind(c) \in {"download", "pull"}
         /\ OnOk(c) = "unlink" => Nested(c)
         /\ OnOk(c) = "push" => Kind(c) = "push"
         /\ OnOk(c) = "pull" => Kind(c) = "pull"
         /\ OnOk(c) # "base64" /\ (OnOk(c) = "tee" => Kind(c) \in GuestWrites)
         /\ OnOk(c) = "chmod" => Kind(c) = "writeMode"
         /\ OnOk(c) = "done" => ~Nested(c)
         /\ OnOk(c) = "append" <=> job[c].pc = "mktemp" \/ (job[c].pc = "append" /\ job[c].i < K)
         /\ OnOk(c) = "install" <=> job[c].pc = "append" /\ ~(job[c].i < K)
         /\ job[c].pc = "install" => OnOk(c) = "rm"
<1>1. job[c] \in Jobs
  BY DEF IInv, Typed
<1>2. job[c].pc \in {"temp", "mktemp", "append", "install", "push", "pull", "stat", "cat",
                     "tee", "chmod", "base64"}
  BY <1>1 DEF Jobs, Steps, Active
<1>3. OnCourse(c)
  BY DEF IInv
<1>4. /\ job[c].pc = "temp" => OnOk(c) \in {"mktemp", "pull"} /\ (OnOk(c) = "mktemp" <=> Kind(c) = "push")
      /\ job[c].pc = "mktemp" => OnOk(c) = "append"
      /\ job[c].pc = "append" => OnOk(c) = IF job[c].i < K THEN "append" ELSE "install"
      /\ job[c].pc = "install" => OnOk(c) = "rm"
      /\ job[c].pc = "push" => OnOk(c) = "unlink"
      /\ job[c].pc = "pull" => OnOk(c) = "stat"
      /\ job[c].pc = "stat" => OnOk(c) = "cat"
      /\ job[c].pc = "cat" => OnOk(c) = IF Nested(c) THEN "unlink" ELSE "done"
      /\ job[c].pc = "tee" => OnOk(c) = IF job[c].i < K THEN "tee"
                                        ELSE IF Kind(c) = "writeMode" THEN "chmod" ELSE "done"
      /\ job[c].pc \in {"chmod", "base64"} => OnOk(c) = "done"
  BY <1>2 DEF OnOk
<1> QED BY <1>2, <1>3, <1>4 DEF OnCourse, Nested, Counted, Steps, GuestWrites

(* ... and after one that threw.                                             *)
LEMMA ThrowsFacts ==
  ASSUME IInv, NEW c \in Callers, Active(c), NEW error \in {"error", "lost"},
         Throws(c, error)
  PROVE  /\ job' \in [Callers -> Jobs]
         /\ \A d \in Callers \ {c} : job'[d] = job[d]
         /\ job'[c].kind = job[c].kind
         /\ job'[c].raised = IF job[c].pc = "rm" THEN job[c].raised ELSE error
         /\ job[c].pc # "rm" =>
              job'[c].pc = CASE job[c].pc \in {"append", "install"} -> "rm"
                             [] Nested(c) /\ job[c].pc \in {"mktemp", "push", "pull", "stat", "cat"}
                                  -> "unlink"
                             [] OTHER -> "failed"
         /\ job[c].pc = "rm" =>
              job'[c].pc = CASE Nested(c) -> IF job[c].raised = "no" THEN "push" ELSE "unlink"
                             [] OTHER -> IF job[c].raised = "no" THEN "done" ELSE "failed"
<1>1. job[c] \in Jobs /\ OnCourse(c)
  BY DEF IInv, Typed
<1>2. job[c].pc \in Steps \ {"idle", "done", "failed"}
  BY <1>1 DEF Jobs, Active
<1>3. CASE job[c].pc = "rm"
  <2>1. ~Counted(c)
    BY <1>3 DEF Counted
  <2>4. AfterRm(c) = CASE Nested(c) -> IF job[c].raised = "no" THEN "push" ELSE "unlink"
                       [] OTHER -> IF job[c].raised = "no" THEN "done" ELSE "failed"
    BY DEF AfterRm, Settled
  <2>5. AfterRm(c) \in Steps
    BY <2>4 DEF Steps
  <2>2. GoOn(c, AfterRm(c), job[c].raised)
    BY <1>3 DEF Throws
  <2>3. job[c].raised \in {"no", "error", "lost"}
    BY <1>1 DEF Jobs
  <2> QED BY <1>3, <2>1, <2>2, <2>3, <2>4, <2>5, GoOnFacts
<1>4. CASE job[c].pc # "rm"
  <2>1. OnError(c) = CASE job[c].pc \in {"append", "install"} -> "rm"
                       [] Nested(c) /\ job[c].pc \in {"mktemp", "push", "pull", "stat", "cat"}
                            -> "unlink"
                       [] OTHER -> "failed"
    BY <1>1, <1>2, <1>4 DEF OnError, OnCourse, Steps, Nested, Kind
  <2>2. OnError(c) \in Steps /\ ~(Counted(c) /\ OnError(c) = job[c].pc)
    BY <2>1 DEF Steps, Counted
  <2>3. GoOn(c, OnError(c), error)
    BY <1>4 DEF Throws
  <2> QED BY <1>4, <2>1, <2>2, <2>3, GoOnFacts
<1> QED BY <1>3, <1>4

(* A step of one caller preserves the invariant if it is typed, leaves the   *)
(* others' files alone and the caller in order.                              *)
LEMMA StepIInv ==
  ASSUME IInv, NEW c \in Callers, Typed', Contained(c, files'),
         \A d \in Callers \ {c} :
           job'[d] = job[d] /\ conn'[d] = conn[d] /\ cut'[d] = cut[d],
         dead \subseteq dead', entry' \in {entry, 0, opened + 1},
         OnCourse(c)', Staged(c)', Owed(c)', Dropped(c)'
  PROVE  IInv'
<1>1. TargetIsWhole'
  <2>1. Wholes' = Wholes
    BY DEF Wholes, Whole, Piece
  <2> QED BY <2>1 DEF Contained, TargetIsWhole, Wholes
<1>2. ASSUME NEW d \in Callers \ {c}
      PROVE  OnCourse(d)' /\ Staged(d)' /\ Owed(d)' /\ Dropped(d)'
  BY OthersKeep DEF Contained
<1> QED BY <1>1, <1>2 DEF IInv

LEMMA AnswersIInv ==
  ASSUME IInv, NEW c \in Callers, Answers(c)
  PROVE  IInv'
<1> DEFINE g == Effect(c)
<1>1. Alive(c) /\ job[c].pc \notin {"rm", "unlink"} /\ files' = g /\ GoOn(c, OnOk(c), job[c].raised)
  BY DEF Answers
<1>2. UNCHANGED <<opened, dead, entry, helper, conn, faults, begun, cut>>
  BY DEF Answers, shells
<1>3. job[c] \in Jobs /\ Active(c)
  BY <1>1 DEF IInv, Typed, Alive
<1>4. /\ job' \in [Callers -> Jobs]
      /\ \A d \in Callers \ {c} : job'[d] = job[d]
      /\ job'[c].kind = job[c].kind /\ job'[c].pc = OnOk(c) /\ job'[c].raised = job[c].raised
      /\ job'[c].i = IF Counted(c) /\ OnOk(c) = job[c].pc THEN job[c].i + 1 ELSE 1
  BY <1>1, <1>3, OnOkFacts, GoOnFacts DEF Jobs
<1>5. Typed'
  BY <1>1, <1>2, <1>4, EffectFacts DEF IInv, Typed, Contained
<1>6. OnCourse(c)'
  BY <1>1, <1>2, <1>3, <1>4, OnOkFacts DEF IInv, OnCourse, Kind, Nested, Active
<1>7. Staged(c)'
  <2>1. CASE job[c].pc = "mktemp"
    <3>1. job'[c].i = 1 /\ OnOk(c) = "append"
      BY <1>1, <1>3, <1>4, <2>1, OnOkFacts DEF Counted
    <3> QED BY <1>1, <1>4, <2>1, <3>1, EffectFacts DEF Staged, Alive
  <2>2. CASE job[c].pc = "append"
    <3>1. g[Staging(c)] = Sent(c, job[c].i)
      BY <1>1, <2>2, EffectFacts
    <3>2. CASE job[c].i < K
      <4>1. job'[c].i = job[c].i + 1 /\ OnOk(c) = "append"
        BY <1>1, <1>3, <1>4, <2>2, <3>2, OnOkFacts DEF Counted
      <4>2. job'[c].i - 1 = job[c].i
        BY <1>3, <4>1, TransfersAssumption DEF Jobs
      <4> QED BY <1>1, <1>4, <3>1, <4>1, <4>2 DEF Staged
    <3>3. CASE ~(job[c].i < K)
      <4>1. OnOk(c) = "install" /\ job[c].i = K
        BY <1>1, <1>3, <2>2, <3>3, OnOkFacts, TransfersAssumption DEF Jobs
      <4>2. Sent(c, K) = Whole(c)
        BY DEF Sent, Whole
      <4> QED BY <1>1, <1>4, <3>1, <4>1, <4>2 DEF Staged, Whole, Piece
    <3> QED BY <3>2, <3>3
  <2>3. CASE job[c].pc \notin {"mktemp", "append"}
    BY <1>1, <1>3, <1>4, <2>3, OnOkFacts DEF Staged
  <2> QED BY <2>1, <2>2, <2>3
<1>8. Owed(c)'
  <2>1. ~cut[c] /\ g[Staging(c)] # Absent => OnOk(c) \in {"append", "install", "rm"}
    BY <1>1, <1>3, EffectFacts, OnOkFacts DEF IInv, Owed
  <2>2. ~cut[c] /\ g[Temp(c)] # Absent =>
          Nested(c) /\ OnOk(c) \notin {"idle", "done", "failed", "temp"}
    BY <1>1, <1>3, EffectFacts, OnOkFacts DEF IInv, Owed, OnCourse, Nested
  <2> QED BY <1>1, <1>2, <1>4, <2>1, <2>2 DEF Owed, Nested, Kind, Active
<1>9. Dropped(c)'
  BY <1>1, <1>2, <1>4 DEF IInv, Dropped, Alive
<1> QED BY <1>1, <1>2, <1>4, <1>5, <1>6, <1>7, <1>8, <1>9, EffectFacts, StepIInv

(* A piece that was cut short goes on like one that was not.                 *)
LEMMA AnswersShortIInv ==
  ASSUME IInv, NEW c \in Callers, AnswersShort(c)
  PROVE  IInv'
<1>1. /\ Alive(c) /\ Active(c) /\ job[c].pc = "tee" /\ files' \in TeeShort(c, job[c].i)
      /\ GoOn(c, OnOk(c), job[c].raised) /\ faults' \in 0..MaxFaults
  BY TransfersAssumption DEF AnswersShort, Alive, IInv, Typed
<1>2. UNCHANGED <<opened, dead, entry, helper, conn, begun, cut>>
  BY DEF AnswersShort, shells
<1>3. job[c] \in Jobs /\ OnCourse(c) /\ Owed(c) /\ Dropped(c)
  BY DEF IInv, Typed
<1>4. /\ job' \in [Callers -> Jobs]
      /\ \A d \in Callers \ {c} : job'[d] = job[d]
      /\ job'[c].kind = job[c].kind /\ job'[c].pc = OnOk(c) /\ job'[c].raised = job[c].raised
  BY <1>1, <1>3, OnOkFacts, GoOnFacts DEF Jobs
<1>5. /\ Contained(c, files')
      /\ files'[Staging(c)] = files[Staging(c)] /\ files'[Temp(c)] = files[Temp(c)]
  <2>1. /\ {Staging(c), Temp(c)} \subseteq Names
        /\ GuestFile \notin {Staging(c), Temp(c)}
    BY FilesApart
  <2> QED BY <1>1, <2>1, ShortFacts
<1>6. Typed'
  BY <1>1, <1>2, <1>4, <1>5 DEF IInv, Typed, Contained
<1>7. /\ OnOk(c) \in {"tee", "chmod", "done"} /\ Kind(c) \in GuestWrites
      /\ OnOk(c) = "chmod" => Kind(c) = "writeMode"
  BY <1>1, <1>3 DEF OnOk, OnCourse
<1>8. OnCourse(c)' /\ Staged(c)'
  BY <1>1, <1>2, <1>3, <1>4, <1>7 DEF OnCourse, Staged, Kind, Nested
<1>9. Owed(c)' /\ Dropped(c)'
  BY <1>1, <1>2, <1>3, <1>4, <1>5, <1>7 DEF Owed, Dropped, Kind, Nested, GuestWrites, Alive
<1> QED BY <1>1, <1>2, <1>4, <1>5, <1>6, <1>8, <1>9, StepIInv

LEMMA CleansUpIInv ==
  ASSUME IInv, NEW c \in Callers, CleansUp(c)
  PROVE  IInv'
<1> DEFINE g == Effect(c)
           pc == IF job[c].pc = "rm" THEN AfterRm(c) ELSE Settled(c)
<1>1. Alive(c) /\ job[c].pc \in {"rm", "unlink"} /\ files' = g /\ GoOn(c, pc, job[c].raised)
  BY DEF CleansUp
<1>2. UNCHANGED <<opened, dead, entry, helper, conn, faults, begun, cut>>
  BY DEF CleansUp, shells
<1>3. job[c] \in Jobs /\ OnCourse(c) /\ Owed(c) /\ job[c].raised # "lost"
  BY <1>1 DEF IInv, Typed, Alive, Dropped
<1>4. /\ pc \in {"push", "unlink", "done", "failed"}
      /\ pc = "push" => Kind(c) = "push"
      /\ pc = "unlink" => Nested(c)
      /\ Nested(c) /\ job[c].pc = "rm" => pc \in {"push", "unlink"}
  BY <1>1, <1>3 DEF AfterRm, Settled, OnCourse, Nested
<1>5. /\ job' \in [Callers -> Jobs]
      /\ \A d \in Callers \ {c} : job'[d] = job[d]
      /\ job'[c].kind = job[c].kind /\ job'[c].pc = pc /\ job'[c].raised = job[c].raised
  <2>1. pc \in Steps /\ ~Counted(c)
    BY <1>1, <1>4 DEF Steps, Counted
  <2> HIDE DEF pc
  <2> QED BY <1>1, <1>3, <2>1, GoOnFacts DEF Jobs
<1> HIDE DEF pc
<1>6. Typed'
  BY <1>1, <1>2, <1>5, EffectFacts DEF IInv, Typed, Contained
<1>7. OnCourse(c)' /\ Staged(c)'
  BY <1>1, <1>2, <1>3, <1>4, <1>5 DEF OnCourse, Staged, Kind, Nested
<1>8. Owed(c)'
  <2>1. ~cut[c] => g[Staging(c)] = Absent
    BY <1>1, <1>3, EffectFacts DEF Owed
  <2>2. ~cut[c] /\ g[Temp(c)] # Absent => Nested(c) /\ pc \in {"push", "unlink"}
    BY <1>1, <1>3, <1>4, EffectFacts DEF Owed, Nested
  <2> QED BY <1>1, <1>2, <1>5, <2>1, <2>2 DEF Owed, Nested, Kind, Active
<1>9. Dropped(c)'
  BY <1>3, <1>5 DEF Dropped
<1> QED BY <1>1, <1>2, <1>5, <1>6, <1>7, <1>8, <1>9, EffectFacts, StepIInv

(* A command that threw, over a shell that is lost or not.                   *)
LEMMA ThrowsIInv ==
  ASSUME IInv, NEW c \in Callers, Active(c), NEW error \in {"error", "lost"},
         Throws(c, error), Leaves(c), Contained(c, files'),
         files'[Staging(c)] # Absent =>
           files[Staging(c)] # Absent \/ job[c].pc \in {"mktemp", "append"},
         files'[Temp(c)] # Absent =>
           files[Temp(c)] # Absent \/ (Nested(c) /\ job[c].pc \in {"temp", "pull", "install"}),
         UNCHANGED <<opened, dead, helper, conn, begun>>,
         faults' \in 0..MaxFaults, entry' \in {entry, 0},
         error = "error" => conn[c] \notin dead,
         error = "lost" => conn[c] \in dead /\ (ThroughNodeShell(c) => entry' # conn[c])
  PROVE  IInv'
<1>1. job[c] \in Jobs /\ OnCourse(c) /\ Owed(c) /\ Dropped(c)
  BY DEF IInv, Typed
<1>2. job[c].pc \in Steps \ {"idle", "done", "failed"}
  BY <1>1 DEF Jobs, Active
<1>3. cut' \in [Callers -> BOOLEAN] /\ \A d \in Callers \ {c} : cut'[d] = cut[d]
  BY DEF Leaves, IInv, Typed
<1>4. cut'[c] <=> cut[c] \/ job[c].pc \in {"temp", "mktemp", "rm", "unlink"}
  BY DEF Leaves, IInv, Typed
<1>5. /\ job' \in [Callers -> Jobs]
      /\ \A d \in Callers \ {c} : job'[d] = job[d]
      /\ job'[c].kind = job[c].kind
  BY ThrowsFacts
<1>6. Typed'
  BY <1>3, <1>5 DEF IInv, Typed, Contained
<1>7. OnCourse(c)' /\ Staged(c)'
  <2>1. job[c].pc = "chmod" => Kind(c) = "writeMode"
    BY <1>1 DEF OnCourse
  <2>2. job'[c].pc \in {"rm", "unlink", "push", "done", "failed"}
    BY <1>2, ThrowsFacts
  <2>3. /\ job'[c].pc = "rm" => Kind(c) \in {"upload", "push"}
        /\ job'[c].pc = "unlink" => Nested(c)
        /\ job'[c].pc = "push" => Kind(c) = "push"
    BY <1>1, <1>2, ThrowsFacts DEF OnCourse, Nested
  <2> QED BY <1>1, <1>2, <1>5, <2>2, <2>3 DEF OnCourse, Staged, Kind, Nested
<1>8. Owed(c)'
  <2>1. CASE job[c].pc \in {"temp", "mktemp", "rm", "unlink"}
    BY <1>4, <2>1 DEF Owed
  <2>2. CASE job[c].pc \in {"append", "install"}
    BY <1>1, <1>4, <1>5, <2>2, ThrowsFacts DEF Owed, OnCourse, Kind, Nested, Active
  <2>3. CASE job[c].pc \notin {"temp", "mktemp", "rm", "unlink", "append", "install"}
    <3>1. Nested(c) => job[c].pc \in {"push", "pull", "stat", "cat"}
      BY <1>1, <1>2, <2>3 DEF OnCourse, Nested, Steps, GuestWrites
    <3>2. Nested(c) => job'[c].pc = "unlink"
      BY <2>3, <3>1, ThrowsFacts
    <3>3. ~cut[c] => files'[Staging(c)] = Absent
      BY <1>1, <2>3 DEF Owed
    <3>4. ~cut[c] /\ files'[Temp(c)] # Absent => Nested(c)
      BY <1>1, <2>3 DEF Owed
    <3> QED BY <1>4, <1>5, <2>3, <3>2, <3>3, <3>4 DEF Owed, Kind, Nested, Active
  <2> QED BY <2>1, <2>2, <2>3
<1>9. Dropped(c)'
  <2>1. job'[c].raised = "lost" => conn[c] \in dead
    BY <1>1, ThrowsFacts DEF Dropped
  <2>2. job'[c].raised = "lost" => job'[c].pc # "done"
    BY <1>1, ThrowsFacts DEF Dropped
  <2>3. ASSUME job'[c].raised = "lost", job'[c].pc = "failed", Kind(c) \notin {"upload", "download"}
        PROVE  entry' # conn[c]
    <3>1. job[c].pc # "rm"
      BY <1>1, <2>3, ThrowsFacts DEF OnCourse, Nested
    <3>2. ThroughNodeShell(c) /\ error = "lost"
      BY <1>1, <1>2, <2>3, <3>1, ThrowsFacts DEF OnCourse, Nested, Steps, ThroughNodeShell
    <3> QED BY <3>2
  <2> QED BY <1>5, <2>1, <2>2, <2>3 DEF Dropped, Kind
<1> QED BY <1>3, <1>5, <1>6, <1>7, <1>8, <1>9, StepIInv

LEMMA ExitsNonZeroIInv ==
  ASSUME IInv, NEW c \in Callers, ExitsNonZero(c)
  PROVE  IInv'
<1>1. /\ Alive(c) /\ Active(c) /\ files' \in {files} \cup Partial(c)
      /\ faults' \in 0..MaxFaults /\ Leaves(c)
      /\ UNCHANGED <<opened, dead, entry, helper, conn, begun>>
  BY TransfersAssumption DEF ExitsNonZero, shells, Alive, IInv, Typed
<1>2. files' \in Partial(c)
  BY <1>1 DEF Partial
<1>3. CASE job[c].pc # "unlink"
  <2>1. Throws(c, "error")
    BY <1>3 DEF ExitsNonZero
  <2> QED BY <1>1, <1>2, <2>1, PartialFacts, ThrowsIInv DEF Alive
<1>4. CASE job[c].pc = "unlink"
  <2>1. job[c] \in Jobs /\ OnCourse(c) /\ Owed(c) /\ job[c].raised # "lost"
    BY <1>1 DEF IInv, Typed, Alive, Dropped
  <2>2. GoOn(c, Settled(c), job[c].raised)
    BY <1>4 DEF ExitsNonZero
  <2>3. Settled(c) \in {"done", "failed"} /\ ~Counted(c)
    BY <1>4 DEF Settled, Counted
  <2>4. /\ job' \in [Callers -> Jobs]
        /\ \A d \in Callers \ {c} : job'[d] = job[d]
        /\ job'[c].kind = job[c].kind /\ job'[c].pc \in {"done", "failed"}
        /\ job'[c].raised = job[c].raised
    BY <2>1, <2>2, <2>3, GoOnFacts DEF Jobs, Steps
  <2>5. cut' \in [Callers -> BOOLEAN] /\ cut'[c] /\ \A d \in Callers \ {c} : cut'[d] = cut[d]
    BY <1>1, <1>4 DEF Leaves, IInv, Typed
  <2>6. Contained(c, files')
    BY <1>1, <1>2, PartialFacts
  <2>7. Typed'
    BY <1>1, <2>4, <2>5, <2>6 DEF IInv, Typed, Contained
  <2>8. OnCourse(c)' /\ Staged(c)' /\ Owed(c)' /\ Dropped(c)'
    BY <1>1, <1>4, <2>1, <2>4, <2>5 DEF OnCourse, Staged, Owed, Dropped
  <2> QED BY <1>1, <2>4, <2>5, <2>6, <2>7, <2>8, StepIInv
<1> QED BY <1>3, <1>4

LEMMA UnheardFacts ==
  ASSUME IInv, NEW c \in Callers, Alive(c), Unheard(c)
  PROVE  files' \in Partial(c)
BY DEF Unheard, Partial

LEMMA TimesOutIInv ==
  ASSUME IInv, NEW c \in Callers, TimesOut(c)
  PROVE  IInv'
<1>1. /\ Alive(c) /\ Active(c) /\ Unheard(c) /\ Throws(c, "error") /\ Leaves(c)
      /\ faults' \in 0..MaxFaults
      /\ UNCHANGED <<opened, dead, entry, helper, conn, begun>>
  BY TransfersAssumption DEF TimesOut, shells, Alive, IInv, Typed
<1> QED BY <1>1, UnheardFacts, PartialFacts, ThrowsIInv DEF Alive

LEMMA LoseIInv ==
  ASSUME IInv, NEW c \in Callers, Lose(c)
  PROVE  IInv'
<1>1. /\ Alive(c) /\ Unheard(c) /\ dead' = dead \cup {conn[c]} /\ faults' \in 0..MaxFaults
      /\ UNCHANGED <<job, opened, entry, helper, conn, begun, cut>>
  BY TransfersAssumption DEF Lose, IInv, Typed
<1>2. files' \in Partial(c)
  BY <1>1, UnheardFacts
<1>3. conn[c] \in 1..opened
  BY <1>1 DEF IInv, Typed, OnCourse, Alive, Active
<1>4. Typed'
  BY <1>1, <1>2, <1>3, PartialFacts DEF IInv, Typed, Contained
<1>5. OnCourse(c)' /\ Staged(c)'
  BY <1>1 DEF IInv, OnCourse, Staged, Kind, Nested, Alive
<1>6. Owed(c)'
  BY <1>1, <1>2, PartialFacts DEF IInv, Owed, Kind, Nested, Active, Alive
<1>7. Dropped(c)'
  BY <1>1 DEF IInv, Dropped, Alive
<1> QED BY <1>1, <1>2, <1>4, <1>5, <1>6, <1>7, PartialFacts, StepIInv

LEMMA FindsLostIInv ==
  ASSUME IInv, NEW c \in Callers, FindsLost(c)
  PROVE  IInv'
<1>1. /\ Active(c) /\ conn[c] \in dead /\ Throws(c, "lost") /\ Leaves(c)
      /\ entry' = IF ThroughNodeShell(c) /\ entry = conn[c] THEN 0 ELSE entry
      /\ UNCHANGED <<files, opened, dead, helper, conn, faults, begun>>
  BY DEF FindsLost
<1>2. conn[c] # 0
  BY <1>1 DEF IInv, Typed
<1>3. Contained(c, files')
  BY <1>1, SameContained
<1> QED BY <1>1, <1>2, <1>3, ThrowsIInv DEF IInv, Typed

(* A job begins over the helper's shell, the store's or a fresh one.         *)
LEMMA BeginIInv ==
  ASSUME IInv, NEW c \in Callers, NEW kind \in Kinds, Begin(c, kind)
  PROVE  IInv'
<1> DEFINE guest == kind \in GuestWrites \cup {"read"}
           keeps == guest /\ helper # 0
           fresh == entry = 0 /\ ~keeps
           shell == IF keeps THEN helper ELSE IF fresh THEN opened + 1 ELSE entry
           new == [kind |-> kind, pc |-> First(kind), i |-> 1, raised |-> "no"]
<1>1. /\ begun' = begun + 1 /\ begun < MaxJobs
      /\ job' = [job EXCEPT ![c] = new]
      /\ opened' = IF fresh THEN opened + 1 ELSE opened
      /\ entry' = IF keeps THEN entry ELSE shell
      /\ helper' = IF guest THEN shell ELSE helper
      /\ conn' = [conn EXCEPT ![c] = shell]
      /\ files' = [files EXCEPT ![Staging(c)] = Absent, ![Beside(c)] = Absent, ![Temp(c)] = Absent]
      /\ cut' = [cut EXCEPT ![c] = FALSE]
      /\ UNCHANGED <<dead, faults>>
  BY DEF Begin
<1>2. Typed /\ opened \in Nat /\ K \in Nat \ {0} /\ MaxJobs \in Nat
  BY TransfersAssumption DEF IInv, Typed
<1>3. /\ opened' \in Nat /\ opened <= opened'
      /\ shell \in 1..opened' /\ entry' \in 0..opened' /\ helper' \in 0..opened'
      /\ dead' \subseteq 1..opened' /\ entry' \in {entry, 0, opened + 1}
  BY <1>1, <1>2 DEF Typed
<1>4. conn' \in [Callers -> 0..opened'] /\ conn'[c] = shell
  BY <1>1, <1>2, <1>3 DEF Typed
<1>5. new \in Jobs /\ new.kind = kind /\ new.pc = First(kind) /\ new.raised = "no"
  <2>1. First(kind) \in Steps
    BY DEF First, Kinds, GuestWrites, Steps
  <2> QED BY <1>2, <2>1 DEF Jobs
<1> HIDE DEF new, shell
<1>6. job' \in [Callers -> Jobs] /\ job'[c] = new /\ \A d \in Callers \ {c} : job'[d] = job[d]
  BY <1>1, <1>2, <1>5 DEF Typed
<1>7. /\ files' = [f \in Names |-> files'[f]]
      /\ \A f \in Names : files'[f] = IF f \in {Staging(c), Beside(c), Temp(c)}
                                      THEN Absent ELSE files[f]
  <2>1. {Staging(c), Beside(c), Temp(c)} \subseteq Names /\ files = [f \in Names |-> files[f]]
    BY <1>2, FilesApart DEF Typed
  <2> QED BY <1>1, <2>1
<1>8. Typed'
  BY <1>1, <1>2, <1>3, <1>4, <1>6, <1>7 DEF Typed
<1>9. Contained(c, files')
  <2>1. files'[TargetFile] = files[TargetFile]
    BY <1>7, FilesApart
  <2>2. \A d \in Callers \ {c} :
          files'[Staging(d)] = files[Staging(d)] /\ files'[Temp(d)] = files[Temp(d)]
    BY <1>7, FilesApart
  <2> QED BY <1>7, <2>1, <2>2 DEF Contained, IInv, TargetIsWhole, Wholes
<1>10. OnCourse(c)' /\ Staged(c)'
  BY <1>3, <1>4, <1>5, <1>6 DEF OnCourse, Staged, First, Kinds, GuestWrites, Kind, Nested
<1>11. Owed(c)' /\ Dropped(c)'
  <2>1. files'[Staging(c)] = Absent /\ files'[Temp(c)] = Absent
    BY <1>7, FilesApart
  <2> QED BY <1>5, <1>6, <2>1 DEF Owed, Dropped
<1>12. \A d \in Callers \ {c} : conn'[d] = conn[d] /\ cut'[d] = cut[d]
  BY <1>1, <1>2 DEF Typed
<1> QED BY <1>1, <1>3, <1>6, <1>8, <1>9, <1>10, <1>11, <1>12, StepIInv

(* A late guest write changes the container's file alone.                    *)
LEMMA LateWriteIInv ==
  ASSUME IInv, LateWrite
  PROVE  IInv'
<1>1. PICK p \in running :
        files' \in {files, Tee(p.i, Piece(p.by, p.i))} \cup TeeShort(p.by, p.i)
  BY DEF LateWrite
<1>2. UNCHANGED <<job, opened, dead, entry, helper, conn, faults, begun, cut>>
  BY DEF LateWrite, shells
<1>3. files' = files \/ \E content : files' = With(GuestFile, content)
  BY <1>1 DEF TeeShort, Tee, AppendTo
<1>4. /\ files' = [f \in Names |-> files'[f]]
      /\ \A f \in Names \ {GuestFile} : files'[f] = files[f]
  <2>1. files = [f \in Names |-> files[f]] /\ GuestFile \in Names
    BY DEF IInv, Typed, Names
  <2> QED BY <1>3, <2>1 DEF With
<1>5. Typed'
  BY <1>2, <1>4 DEF IInv, Typed
<1>6. TargetIsWhole'
  <2>1. files'[TargetFile] = files[TargetFile]
    BY <1>4 DEF Names, TargetFile, GuestFile
  <2>2. Wholes' = Wholes
    BY DEF Wholes, Whole, Piece
  <2> QED BY <2>1, <2>2 DEF IInv, TargetIsWhole, Wholes
<1>7. ASSUME NEW d \in Callers
      PROVE  OnCourse(d)' /\ Staged(d)' /\ Owed(d)' /\ Dropped(d)'
  <2>1. files'[Staging(d)] = files[Staging(d)] /\ files'[Temp(d)] = files[Temp(d)]
    BY <1>4, FilesApart
  <2> QED BY <1>2, <2>1, OthersKeep
<1> QED BY <1>5, <1>6, <1>7 DEF IInv

LEMMA NextIInv == IInv /\ [Next]_vars => IInv'
<1> SUFFICES ASSUME IInv, [Next]_vars PROVE IInv'
  OBVIOUS
<1>1. ASSUME NEW c \in Callers, NEW kind \in Kinds, Begin(c, kind)
      PROVE  IInv'
  BY <1>1, BeginIInv
<1>2. ASSUME NEW c \in Callers, Answers(c)
      PROVE  IInv'
  BY <1>2, AnswersIInv
<1>10. ASSUME NEW c \in Callers, AnswersShort(c)
      PROVE  IInv'
  BY <1>10, AnswersShortIInv
<1>3. ASSUME NEW c \in Callers, CleansUp(c)
      PROVE  IInv'
  BY <1>3, CleansUpIInv
<1>4. ASSUME NEW c \in Callers, ExitsNonZero(c)
      PROVE  IInv'
  BY <1>4, ExitsNonZeroIInv
<1>5. ASSUME NEW c \in Callers, TimesOut(c)
      PROVE  IInv'
  BY <1>5, TimesOutIInv
<1>6. ASSUME NEW c \in Callers, Lose(c)
      PROVE  IInv'
  BY <1>6, LoseIInv
<1>7. ASSUME NEW c \in Callers, FindsLost(c)
      PROVE  IInv'
  BY <1>7, FindsLostIInv
<1>8. CASE LateWrite
  BY <1>8, LateWriteIInv
<1>9. CASE UNCHANGED vars
  <2>1. UNCHANGED <<files, job, opened, dead, entry, helper, conn, faults, begun, cut>>
    BY <1>9 DEF vars, shells, history
  <2>2. Typed' /\ TargetIsWhole'
    BY <2>1 DEF IInv, Typed, TargetIsWhole, Whole, Piece
  <2>3. ASSUME NEW d \in Callers
        PROVE  OnCourse(d)' /\ Staged(d)' /\ Owed(d)' /\ Dropped(d)'
    BY <2>1, OthersKeep
  <2> QED BY <2>2, <2>3 DEF IInv
<1> QED BY <1>1, <1>2, <1>3, <1>4, <1>5, <1>6, <1>7, <1>8, <1>9, <1>10 DEF Next

LEMMA Invariance == Spec => []IInv
<1>1. IInv /\ [Next]_vars => IInv'
  BY NextIInv
<1> QED BY <1>1, InitIInv, PTL DEF Spec

(* What the commands leave in the two targets and in the temporary file.     *)
LEMMA EffectContents ==
  ASSUME IInv, NEW c \in Callers, Alive(c)
  PROVE  LET g == Effect(c) IN
         /\ job[c].pc = "install" /\ Nested(c) => g[Temp(c)] = Whole(c)
         /\ job[c].pc = "install" /\ ~Nested(c) => g[TargetFile] = Whole(c)
         /\ job[c].pc = "push" => g[GuestFile] = files[Temp(c)]
         /\ job[c].pc = "pull" => g[Temp(c)] = files[GuestFile]
         /\ job[c].pc \in {"rm", "unlink"} =>
              g[TargetFile] = files[TargetFile] /\ g[GuestFile] = files[GuestFile]
         /\ job[c].pc \in {"stat", "cat", "chmod", "base64"} => g = files
         /\ job[c].pc = "tee" => g = Tee(job[c].i, Piece(c, job[c].i))
<1>0. /\ {Staging(c), Temp(c), GuestFile, TargetFile} \subseteq Names
      /\ {Staging(c), Temp(c)} \cap {TargetFile, GuestFile} = {}
      /\ files = [f \in Names |-> files[f]]
  BY FilesApart DEF IInv, Typed
<1>1. CASE job[c].pc = "install"
  <2>1. files[Staging(c)] = Whole(c)
    BY <1>1 DEF IInv, Staged
  <2>2. Effect(c) = [files EXCEPT ![NodeFile(c)] = Whole(c)]
    BY <1>1, <2>1 DEF Effect, With
  <2>3. NodeFile(c) = IF Nested(c) THEN Temp(c) ELSE TargetFile
    BY DEF NodeFile
  <2> QED BY <1>0, <1>1, <2>2, <2>3
<1>2. CASE job[c].pc = "push"
  <2>1. Effect(c) = [files EXCEPT ![GuestFile] = files[Temp(c)]]
    BY <1>2 DEF Effect, With
  <2> QED BY <1>0, <1>2, <2>1
<1>3. CASE job[c].pc = "pull"
  <2>1. Effect(c) = [files EXCEPT ![Temp(c)] = files[GuestFile]]
    BY <1>3 DEF Effect, With
  <2> QED BY <1>0, <1>3, <2>1
<1>4. CASE job[c].pc \in {"rm", "unlink"}
  <2>1. \E f \in {Staging(c), Temp(c)} : Effect(c) = [files EXCEPT ![f] = Absent]
    BY <1>4 DEF Effect, With
  <2> QED BY <1>0, <1>4, <2>1
<1>5. CASE job[c].pc \in {"stat", "cat", "chmod", "base64", "tee"}
  BY <1>5 DEF Effect
<1>6. CASE job[c].pc \notin {"install", "push", "pull", "rm", "unlink", "stat", "cat",
                            "chmod", "base64", "tee"}
  BY <1>6
<1> QED BY <1>1, <1>2, <1>3, <1>4, <1>5, <1>6

LEMMA PartialContents ==
  ASSUME IInv, NEW c \in Callers, Alive(c), NEW g \in Partial(c)
  PROVE  /\ job[c].pc \in {"rm", "unlink"} =>
              g[TargetFile] = files[TargetFile] /\ g[GuestFile] = files[GuestFile]
         /\ job[c].pc = "chmod" => g = files
         /\ job[c].pc \in {"rm", "push", "stat", "cat"} => g[Temp(c)] = files[Temp(c)]
<1>1. CASE g = files
  BY <1>1
<1>2. CASE g = Effect(c)
  BY <1>2, EffectFacts, EffectContents
<1>3. CASE job[c].pc \in {"install", "tee"}
  BY <1>3
<1> QED BY <1>1, <1>2, <1>3 DEF Partial

-----------------------------------------------------------------------------
(* What was written and read, step by step.                                *)

(* The pieces of a guest write, one after the other.                         *)
LEMMA TeePieces ==
  ASSUME IInv, NEW c \in Callers, NEW i \in Nat \ {0},
         i > 1 => files[GuestFile] = Sent(c, i - 1)
  PROVE  Tee(i, Piece(c, i))[GuestFile] = Sent(c, i)
<1>0. GuestFile \in Names /\ files = [f \in Names |-> files[f]]
  BY FilesApart DEF IInv, Typed
<1>1. CASE i = 1
  <2>1. Tee(i, Piece(c, i))[GuestFile] = <<Piece(c, 1)>>
    BY <1>0, <1>1 DEF Tee, With
  <2>2. Append(Sent(c, 0), Piece(c, 0 + 1)) = Sent(c, 0 + 1) /\ Sent(c, 0) = <<>>
    BY SentPieces
  <2> QED BY <1>1, <2>1, <2>2
<1>2. CASE i > 1
  <2>1. files[GuestFile] = Sent(c, i - 1) /\ i - 1 \in Nat /\ (i - 1) + 1 = i
    BY <1>2
  <2>2. Sent(c, i - 1) # Absent /\ Append(Sent(c, i - 1), Piece(c, (i - 1) + 1)) = Sent(c, (i - 1) + 1)
    BY <2>1, SentPieces
  <2>3. Tee(i, Piece(c, i)) = [files EXCEPT ![GuestFile] = Append(files[GuestFile], Piece(c, i))]
    BY <1>2, <2>1, <2>2 DEF Tee, AppendTo, With
  <2> QED BY <1>0, <2>1, <2>2, <2>3
<1> QED BY <1>1, <1>2

(* A caller whose job goes on elsewhere, in a step that it is told of when   *)
(* its target changes.                                                       *)
LEMMA Bystander ==
  ASSUME GInv, NEW d \in Callers,
         job'[d] = job[d], conn'[d] = conn[d], local'[d] = local[d], short'[d] = short[d],
         dead \subseteq dead',
         files'[Temp(d)] = files[Temp(d)], seen[d] \subseteq seen'[d],
         Active(d) => files'[Target(d)] \in seen'[d],
         alone'[d] => alone[d] /\ files'[Target(d)] = files[Target(d)]
  PROVE  Leaving(d)' /\ Sees(d)' /\ Read(d)' /\ Written(d)'
<1>1. Leaving(d) /\ Sees(d) /\ Read(d) /\ Written(d)
  BY DEF GInv
<1>2. Kind(d)' = Kind(d) /\ Target(d)' = Target(d) /\ Active(d)' = Active(d)
  BY DEF Kind, Target, Active
<1>3. Leaving(d)' /\ Sees(d)'
  BY <1>1, <1>2 DEF Leaving, Sees
<1>4. Read(d)'
  BY <1>1, <1>2 DEF Read
<1>5. Written(d)'
  <2>1. /\ Kind(d) = "upload" => Target(d) = TargetFile
        /\ Kind(d) \in {"push"} \cup GuestWrites => Target(d) = GuestFile
    BY DEF Target, GuestWrites
  <2>2. job[d].pc \in {"tee", "chmod"} => Kind(d) \in GuestWrites
    BY DEF GInv, IInv, OnCourse, GuestWrites
  <2> QED BY <1>1, <1>2, <2>1, <2>2 DEF Written, Whole, Sent, Piece
<1> QED BY <1>3, <1>4, <1>5

(* A command of c that everybody watches.                                    *)
LEMMA ObserveFacts ==
  ASSUME GInv, NEW c \in Callers, Active(c), Observe(c), Contained(c, files'),
         \A d \in Callers \ {c} :
           job'[d] = job[d] /\ local'[d] = local[d] /\ short'[d] = short[d],
         local' = [d \in Callers |-> local'[d]], short' \in [Callers -> BOOLEAN],
         conn' = conn, dead \subseteq dead', job'[c].kind = job[c].kind
  PROVE  /\ Watched' /\ alone'[c] = alone[c]
         /\ seen'[c] = seen[c] \cup {files'[Target(c)]}
         /\ Sees(c)'
         /\ \A d \in Callers \ {c} : Leaving(d)' /\ Sees(d)' /\ Read(d)' /\ Written(d)'
<1>1. /\ alone' = [d \in Callers |-> alone[d] /\ (d = c \/ files'[Target(d)] = files[Target(d)])]
      /\ seen' = [d \in Callers |->
                    IF Active(d) THEN seen[d] \cup {files'[Target(d)]} ELSE seen[d]]
      /\ alone \in [Callers -> BOOLEAN]
  BY DEF Observe, GInv, Watched
<1>2. /\ seen' = [d \in Callers |-> seen'[d]]
      /\ \A d \in Callers : seen'[d] = IF Active(d) THEN seen[d] \cup {files'[Target(d)]} ELSE seen[d]
      /\ \A d \in Callers : alone'[d] = (alone[d] /\ (d = c \/ files'[Target(d)] = files[Target(d)]))
      /\ alone' \in [Callers -> BOOLEAN]
  BY <1>1
<1>3. Watched'
  BY <1>2 DEF Watched
<1>4. alone'[c] = alone[c] /\ seen'[c] = seen[c] \cup {files'[Target(c)]}
  <2>1. alone'[c] \in BOOLEAN /\ alone[c] \in BOOLEAN /\ (alone'[c] <=> alone[c])
    BY <1>1, <1>2
  <2> QED BY <1>2, <2>1
<1>5. Sees(c)'
  <2>1. Target(c)' = Target(c)
    BY DEF Target, Kind
  <2> QED BY <1>4, <2>1 DEF Sees
<1>6. ASSUME NEW d \in Callers \ {c}
      PROVE  Leaving(d)' /\ Sees(d)' /\ Read(d)' /\ Written(d)'
  <2>1. files'[Temp(d)] = files[Temp(d)]
    BY DEF Contained
  <2>2. alone'[d] => alone[d] /\ files'[Target(d)] = files[Target(d)]
    BY <1>2
  <2> QED BY <1>2, <2>1, <2>2, Bystander
<1> QED BY <1>3, <1>4, <1>5, <1>6

LEMMA AnswersGInv ==
  ASSUME GInv, NEW c \in Callers, Answers(c)
  PROVE  GInv'
<1> DEFINE g == Effect(c)
<1>1. Alive(c) /\ Active(c) /\ job[c].pc \notin {"rm", "unlink"} /\ files' = g
      /\ GoOn(c, OnOk(c), job[c].raised) /\ Observe(c) /\ IInv
  BY DEF Answers, Alive, GInv
<1>2. UNCHANGED <<opened, dead, entry, helper, conn>>
  BY DEF Answers, shells
<1>3. job[c] \in Jobs /\ OnCourse(c) /\ Leaving(c) /\ Sees(c) /\ Read(c) /\ Written(c)
      /\ K \in Nat \ {0}
  BY TransfersAssumption DEF GInv, IInv, Typed
<1>4. job[c].raised = "no"
  BY <1>1, <1>3 DEF Leaving, Active
<1>5. /\ \A d \in Callers \ {c} : job'[d] = job[d]
      /\ job'[c].kind = job[c].kind /\ job'[c].pc = OnOk(c) /\ job'[c].raised = "no"
      /\ job'[c].i = IF Counted(c) /\ OnOk(c) = job[c].pc THEN job[c].i + 1 ELSE 1
  BY <1>1, <1>3, <1>4, OnOkFacts, GoOnFacts DEF Jobs
<1>6. /\ \A d \in Callers \ {c} : local'[d] = local[d]
      /\ short' = short /\ short' \in [Callers -> BOOLEAN]
      /\ local' = [d \in Callers |-> local'[d]]
      /\ job[c].pc = "cat" => local'[c] = files[NodeFile(c)]
      /\ job[c].pc = "base64" => local'[c] = files[GuestFile]
  BY DEF Answers, GInv, Watched
<1>7. Contained(c, files')
  BY <1>1, EffectFacts
<1>8. /\ Watched' /\ alone'[c] = alone[c] /\ seen[c] \subseteq seen'[c] /\ Sees(c)'
      /\ \A d \in Callers \ {c} : Leaving(d)' /\ Sees(d)' /\ Read(d)' /\ Written(d)'
  BY <1>1, <1>2, <1>5, <1>6, <1>7, ObserveFacts
<1>9. Leaving(c)'
  BY <1>5 DEF Leaving
<1>10. Kind(c)' = Kind(c) /\ Target(c)' = Target(c)
  BY <1>5 DEF Kind, Target
<1>11. job[c].pc \in {"temp", "mktemp", "append", "install", "push", "pull", "stat", "cat",
                     "tee", "chmod", "base64"}
  BY <1>1, <1>3 DEF Jobs, Steps, Active
<1>12. files[Target(c)] \in seen[c]
  BY <1>1, <1>3 DEF Sees
<1>13. Read(c)'
  <2>1. OnOk(c) = "stat" => job[c].pc = "pull"
    BY <1>11 DEF OnOk
  <2>2. OnOk(c) = "cat" => job[c].pc = "stat"
    BY <1>11 DEF OnOk
  <2>3. Kind(c) \notin Writers /\ OnOk(c) \in {"unlink", "done"} => job[c].pc \in {"cat", "base64"}
    BY <1>3, <1>11 DEF OnOk, OnCourse, Writers, Kind, Nested, Jobs, Kinds, GuestWrites
  <2>4. CASE Kind(c) = "pull" /\ OnOk(c) \in {"stat", "cat"}
    <3>1. files'[Temp(c)] \in seen[c]
      <4>1. CASE job[c].pc = "pull"
        <5>1. Target(c) = GuestFile
          BY <2>4 DEF Target
        <5> QED BY <1>1, <1>12, <4>1, <5>1, EffectContents
      <4>2. CASE job[c].pc = "stat"
        BY <1>1, <1>3, <1>4, <2>4, <4>2, EffectContents DEF Read
      <4> QED BY <2>1, <2>2, <2>4, <4>1, <4>2
    <3>2. Temp(c)' = Temp(c) /\ "pull" \notin Writers
      BY DEF Temp, Writers, GuestWrites
    <3> QED BY <1>5, <1>8, <1>10, <2>4, <3>1, <3>2 DEF Read
  <2>5. CASE Kind(c) \notin Writers /\ OnOk(c) \in {"unlink", "done"}
    <3>1. local'[c] \in seen[c]
      <4>1. CASE job[c].pc = "cat" /\ Nested(c)
        <5>1. Kind(c) = "pull"
          BY <1>3, <4>1 DEF OnCourse, Nested
        <5> QED BY <1>3, <1>4, <1>6, <4>1, <5>1 DEF Read, NodeFile
      <4>2. CASE job[c].pc = "cat" /\ ~Nested(c)
        <5>1. Kind(c) = "download"
          BY <1>3, <4>2 DEF OnCourse, Nested
        <5> QED BY <1>6, <1>12, <4>2, <5>1 DEF NodeFile, Target
      <4>3. CASE job[c].pc = "base64"
        <5>1. Target(c) = GuestFile
          BY <1>3, <4>3 DEF OnCourse, Target
        <5> QED BY <1>6, <1>12, <4>3, <5>1
      <4> QED BY <2>3, <2>5, <4>1, <4>2, <4>3
    <3> QED BY <1>5, <1>8, <1>10, <2>5, <3>1 DEF Read
  <2>6. CASE ~(Kind(c) = "pull" /\ OnOk(c) \in {"stat", "cat"})
             /\ ~(Kind(c) \notin Writers /\ OnOk(c) \in {"unlink", "done"})
    BY <1>5, <1>10, <2>6 DEF Read
  <2> QED BY <2>4, <2>5, <2>6
<1>14. Written(c)'
  <2>1. CASE job[c].pc = "install"
    <3>1. OnOk(c) = "rm" /\ Kind(c) \in {"upload", "push"}
      BY <1>3, <2>1 DEF OnOk, OnCourse
    <3>2. /\ Kind(c) = "push" => g[Temp(c)] = Whole(c)
          /\ Kind(c) = "upload" => g[TargetFile] = Whole(c)
      BY <1>1, <2>1, EffectContents DEF Nested
    <3> QED BY <1>1, <1>5, <1>10, <3>1, <3>2 DEF Written, Whole, Piece
  <2>2. CASE job[c].pc = "push"
    <3>1. OnOk(c) = "unlink" /\ Kind(c) = "push"
      BY <1>3, <2>2 DEF OnOk, OnCourse
    <3>2. g[GuestFile] = Whole(c)
      BY <1>1, <1>3, <1>4, <2>2, <3>1, EffectContents DEF Written
    <3> QED BY <1>1, <1>5, <1>10, <3>1, <3>2 DEF Written, Whole, Piece
  <2>3. CASE job[c].pc = "tee"
    <3>1. Kind(c) \in GuestWrites
      BY <1>3, <2>3 DEF OnCourse
    <3>3. CASE alone[c] /\ ~short[c]
      <4>1. job[c].i \in Nat \ {0} /\ conn[c] \notin dead /\ job[c].i \in 1..K
        BY <1>1, <1>3 DEF Jobs, Alive
      <4>2. job[c].i > 1 => files[GuestFile] = Sent(c, job[c].i - 1)
        BY <1>3, <1>4, <2>3, <3>3, <4>1 DEF Written
      <4>3. files'[GuestFile] = Sent(c, job[c].i)
        BY <1>1, <2>3, <4>1, <4>2, TeePieces, EffectContents
      <4>4. Target(c) = GuestFile
        BY <3>1 DEF Target, GuestWrites
      <4>5. CASE job[c].i < K
        <5>1. OnOk(c) = "tee" /\ job'[c].i = job[c].i + 1
          BY <1>5, <2>3, <4>5 DEF OnOk, Counted
        <5>2. job'[c].i - 1 = job[c].i
          BY <4>1, <5>1
        <5> QED BY <1>5, <1>10, <3>3, <4>3, <5>1, <5>2 DEF Written, Sent, Piece, GuestWrites
      <4>6. CASE ~(job[c].i < K)
        <5>1. OnOk(c) \in {"chmod", "done"} /\ job[c].i = K
          BY <1>3, <2>3, <4>1, <4>6 DEF OnOk
        <5>2. Sent(c, K) = Whole(c)
          BY DEF Sent, Whole
        <5> QED BY <1>5, <1>10, <3>1, <4>3, <4>4, <5>1, <5>2 DEF Written, Whole, Piece, GuestWrites
      <4> QED BY <4>5, <4>6
    <3>4. CASE ~(alone[c] /\ ~short[c])
      <4>1. ~(alone'[c] /\ ~short'[c])
        BY <1>6, <1>8, <3>4
      <4> QED BY <1>5, <1>10, <3>1, <4>1 DEF Written, GuestWrites
    <3> QED BY <3>3, <3>4
  <2>5. CASE job[c].pc = "chmod"
    <3>1. Kind(c) = "writeMode" /\ OnOk(c) = "done" /\ Target(c) = GuestFile
      BY <1>3, <2>5 DEF OnOk, OnCourse, Target
    <3>2. files'[GuestFile] = files[GuestFile]
      BY <1>1, <2>5, EffectContents
    <3>3. alone[c] /\ ~short[c] => files[GuestFile] = Whole(c)
      BY <1>3, <1>4, <2>5 DEF Written
    <3> QED BY <1>5, <1>6, <1>8, <1>10, <3>1, <3>2, <3>3 DEF Written, Whole, Piece
  <2>4. CASE job[c].pc \notin {"install", "push", "tee", "chmod"}
    <3>1. OnOk(c) \notin {"rm", "push", "tee", "chmod"}
      BY <1>11, <2>4 DEF OnOk
    <3>2. OnOk(c) \in {"unlink", "done"} => Kind(c) \notin Writers
      BY <1>3, <1>11, <2>4 DEF OnOk, OnCourse, Writers, Nested, GuestWrites
    <3>3. "push" \in Writers /\ "upload" \in Writers
      BY DEF Writers
    <3> QED BY <1>5, <1>10, <3>1, <3>2, <3>3 DEF Written
  <2> QED BY <2>1, <2>2, <2>3, <2>4, <2>5
<1>15. IInv'
  BY <1>1, AnswersIInv
<1> QED BY <1>8, <1>9, <1>13, <1>14, <1>15 DEF GInv

(* A piece that was cut short: nothing is promised of its caller's file any  *)
(* more, and the others see it change.                                       *)
LEMMA AnswersShortGInv ==
  ASSUME GInv, NEW c \in Callers, AnswersShort(c)
  PROVE  GInv'
<1>1. /\ Alive(c) /\ Active(c) /\ job[c].pc = "tee" /\ files' \in TeeShort(c, job[c].i)
      /\ GoOn(c, OnOk(c), job[c].raised) /\ Observe(c) /\ IInv
      /\ local' = local /\ short' = [short EXCEPT ![c] = TRUE] /\ UNCHANGED shells
  BY DEF AnswersShort, Alive, GInv
<1>2. job[c] \in Jobs /\ OnCourse(c) /\ Leaving(c)
  BY <1>1 DEF GInv, IInv, Typed
<1>3. /\ job[c].raised = "no" /\ Kind(c) \in GuestWrites
      /\ OnOk(c) \in {"tee", "chmod", "done"}
  BY <1>1, <1>2 DEF Leaving, OnCourse, OnOk
<1>4. /\ \A d \in Callers \ {c} : job'[d] = job[d]
      /\ job'[c].kind = job[c].kind /\ job'[c].pc = OnOk(c) /\ job'[c].raised = "no"
  BY <1>1, <1>2, <1>3, OnOkFacts, GoOnFacts DEF Jobs
<1>5. /\ Contained(c, files') /\ conn' = conn /\ dead' = dead
      /\ local' = [d \in Callers |-> local'[d]]
      /\ \A d \in Callers \ {c} : local'[d] = local[d]
  BY <1>1, ShortFacts DEF shells, GInv, Watched
<1>6. /\ short' \in [Callers -> BOOLEAN] /\ short'[c]
      /\ \A d \in Callers \ {c} : short'[d] = short[d]
  BY <1>1 DEF GInv, Watched
<1>7. /\ Watched' /\ Sees(c)'
      /\ \A d \in Callers \ {c} : Leaving(d)' /\ Sees(d)' /\ Read(d)' /\ Written(d)'
  BY <1>1, <1>4, <1>5, <1>6, ObserveFacts
<1>8. Kind(c)' = Kind(c)
  BY <1>4 DEF Kind
<1>9. Leaving(c)' /\ Read(c)' /\ Written(c)'
  BY <1>3, <1>4, <1>6, <1>8 DEF Leaving, Read, Written, Writers, GuestWrites
<1>10. IInv'
  BY <1>1, AnswersShortIInv
<1> QED BY <1>7, <1>9, <1>10 DEF GInv

(* A clean-up is over, done or not: nothing else changed.                    *)
LEMMA CleanedUp ==
  ASSUME GInv, NEW c \in Callers, job[c].pc \in {"rm", "unlink"},
         job'[c].kind = job[c].kind, job'[c].raised = job[c].raised,
         job'[c].pc = IF job[c].pc = "rm" THEN AfterRm(c) ELSE Settled(c),
         local'[c] = local[c], short'[c] = short[c], alone'[c] = alone[c], seen[c] \subseteq seen'[c],
         files'[TargetFile] = files[TargetFile], files'[GuestFile] = files[GuestFile],
         job[c].pc = "rm" => files'[Temp(c)] = files[Temp(c)]
  PROVE  Leaving(c)' /\ Read(c)' /\ Written(c)'
<1>1. OnCourse(c) /\ Read(c) /\ Written(c)
  BY DEF GInv, IInv
<1>2. Kind(c)' = Kind(c) /\ Target(c)' = Target(c)
  BY DEF Kind, Target
<1>3. CASE job[c].raised # "no"
  <2>1. job'[c].pc \in {"unlink", "failed"}
    BY <1>3 DEF AfterRm, Settled
  <2> QED BY <1>3, <2>1 DEF Leaving, Read, Written
<1>4. CASE job[c].raised = "no" /\ job[c].pc = "rm" /\ Nested(c)
  <2>1. Kind(c) = "push" /\ job'[c].pc = "push"
    BY <1>1, <1>4 DEF OnCourse, AfterRm, Nested
  <2>2. files'[Temp(c)] = Whole(c)
    BY <1>1, <1>4, <2>1 DEF Written
  <2> QED BY <1>2, <1>4, <2>1, <2>2 DEF Leaving, Read, Written, Writers, Whole, Piece, Temp
<1>5. CASE job[c].raised = "no" /\ job[c].pc = "rm" /\ ~Nested(c)
  <2>1. Kind(c) = "upload" /\ job'[c].pc = "done" /\ Target(c) = TargetFile
    BY <1>1, <1>5 DEF OnCourse, AfterRm, Settled, Nested, Target
  <2>2. alone[c] /\ ~short[c] => files'[Target(c)] = Whole(c)
    BY <1>1, <1>5, <2>1 DEF Written
  <2> QED BY <1>2, <1>5, <2>1, <2>2 DEF Leaving, Read, Written, Writers, Whole, Piece
<1>6. CASE job[c].raised = "no" /\ job[c].pc = "unlink"
  <2>1. Kind(c) \in {"push", "pull"} /\ job'[c].pc = "done" /\ Target(c) = GuestFile
    BY <1>1, <1>6 DEF OnCourse, Settled, Nested, Target
  <2>2. Kind(c) = "push" /\ alone[c] /\ ~short[c] => files'[Target(c)] = Whole(c)
    BY <1>1, <1>6, <2>1 DEF Written
  <2>3. Kind(c) = "pull" => local'[c] \in seen'[c]
    BY <1>1, <1>6, <2>1 DEF Read, Writers, GuestWrites
  <2>4. Kind(c) \in Writers => Kind(c) = "push"
    BY <2>1 DEF Writers, GuestWrites
  <2>5. Leaving(c)' /\ Read(c)'
    BY <1>2, <1>6, <2>1, <2>3, <2>4 DEF Leaving, Read, Writers
  <2>6. Written(c)'
    BY <1>2, <1>6, <2>1, <2>2, <2>4 DEF Written, Whole, Piece
  <2> QED BY <2>5, <2>6
<1> QED BY <1>3, <1>4, <1>5, <1>6

(* A job whose command threw owes nothing, but for the rm of an upload.      *)
LEMMA ThrownOut ==
  ASSUME GInv, NEW c \in Callers, Active(c), NEW error \in {"error", "lost"},
         Throws(c, error),
         local'[c] = local[c], short'[c] = short[c], alone'[c] = alone[c], seen[c] \subseteq seen'[c],
         job[c].pc = "rm" =>
           /\ files'[TargetFile] = files[TargetFile] /\ files'[GuestFile] = files[GuestFile]
           /\ files'[Temp(c)] = files[Temp(c)]
  PROVE  Leaving(c)' /\ Read(c)' /\ Written(c)'
<1>0. IInv
  BY DEF GInv
<1>1. CASE job[c].pc = "rm"
  <2>1. job'[c].pc = AfterRm(c) /\ job'[c].raised = job[c].raised /\ job'[c].kind = job[c].kind
    BY <1>0, <1>1, ThrowsFacts DEF AfterRm, Settled
  <2> QED BY <1>1, <2>1, CleanedUp
<1>2. CASE job[c].pc # "rm"
  <2>1. job'[c].raised = error /\ job'[c].pc \in {"rm", "unlink", "failed"}
    BY <1>0, <1>2, ThrowsFacts
  <2> QED BY <2>1 DEF Leaving, Read, Written
<1> QED BY <1>1, <1>2

LEMMA CleansUpGInv ==
  ASSUME GInv, NEW c \in Callers, CleansUp(c)
  PROVE  GInv'
<1> DEFINE pc == IF job[c].pc = "rm" THEN AfterRm(c) ELSE Settled(c)
<1>1. /\ Alive(c) /\ Active(c) /\ job[c].pc \in {"rm", "unlink"} /\ files' = Effect(c)
      /\ GoOn(c, pc, job[c].raised) /\ Observe(c) /\ IInv
      /\ local' = local /\ short' = short /\ UNCHANGED shells
  BY DEF CleansUp, Alive, GInv
<1>2. job[c] \in Jobs /\ OnCourse(c)
  BY <1>1 DEF IInv, Typed
<1>3. /\ \A d \in Callers \ {c} : job'[d] = job[d]
      /\ job'[c].kind = job[c].kind /\ job'[c].pc = pc /\ job'[c].raised = job[c].raised
  <2>1. pc \in Steps /\ ~Counted(c)
    BY <1>1 DEF Steps, Counted, AfterRm, Settled
  <2> HIDE DEF pc
  <2> QED BY <1>1, <1>2, <2>1, GoOnFacts DEF Jobs
<1>4. Contained(c, files') /\ (job[c].pc = "rm" => files'[Temp(c)] = files[Temp(c)])
  BY <1>1, EffectFacts
<1>5. files'[TargetFile] = files[TargetFile] /\ files'[GuestFile] = files[GuestFile]
  BY <1>1, EffectContents
<1>6. local' = [d \in Callers |-> local'[d]] /\ short' \in [Callers -> BOOLEAN]
  BY <1>1 DEF GInv, Watched
<1>7. conn' = conn /\ dead' = dead
  BY <1>1 DEF shells
<1>8. /\ Watched' /\ alone'[c] = alone[c] /\ seen[c] \subseteq seen'[c] /\ Sees(c)'
      /\ \A d \in Callers \ {c} : Leaving(d)' /\ Sees(d)' /\ Read(d)' /\ Written(d)'
  BY <1>1, <1>3, <1>4, <1>6, <1>7, ObserveFacts
<1>9. Leaving(c)' /\ Read(c)' /\ Written(c)'
  BY <1>1, <1>3, <1>4, <1>5, <1>8, CleanedUp
<1>10. IInv'
  BY <1>1, CleansUpIInv
<1> QED BY <1>8, <1>9, <1>10 DEF GInv

LEMMA ExitsNonZeroGInv ==
  ASSUME GInv, NEW c \in Callers, ExitsNonZero(c)
  PROVE  GInv'
<1>1. /\ Alive(c) /\ Active(c) /\ Observe(c) /\ IInv /\ local' = local /\ short' = short
      /\ UNCHANGED shells
      /\ files' \in {files} \cup Partial(c)
      /\ IF job[c].pc = "unlink" THEN GoOn(c, Settled(c), job[c].raised) ELSE Throws(c, "error")
  BY DEF ExitsNonZero, Alive, GInv
<1>2. job[c] \in Jobs /\ files' \in Partial(c)
  BY <1>1 DEF IInv, Typed, Partial
<1>3. /\ \A d \in Callers \ {c} : job'[d] = job[d]
      /\ job'[c].kind = job[c].kind
      /\ job[c].pc = "unlink" => job'[c].pc = Settled(c) /\ job'[c].raised = job[c].raised
  <2>1. CASE job[c].pc = "unlink"
    <3>1. Settled(c) \in Steps /\ ~Counted(c) /\ GoOn(c, Settled(c), job[c].raised)
      BY <1>1, <2>1 DEF Steps, Counted, Settled
    <3> QED BY <1>1, <1>2, <3>1, GoOnFacts DEF Jobs
  <2>2. CASE job[c].pc # "unlink"
    BY <1>1, <2>2, ThrowsFacts
  <2> QED BY <2>1, <2>2
<1>4. /\ Contained(c, files') /\ (job[c].pc = "rm" => files'[Temp(c)] = files[Temp(c)])
      /\ job[c].pc \in {"rm", "unlink"} =>
           files'[TargetFile] = files[TargetFile] /\ files'[GuestFile] = files[GuestFile]
  BY <1>1, <1>2, PartialFacts, PartialContents
<1>5. /\ conn' = conn /\ dead' = dead /\ local' = [d \in Callers |-> local'[d]]
      /\ short' \in [Callers -> BOOLEAN]
  BY <1>1 DEF shells, GInv, Watched
<1>6. /\ Watched' /\ alone'[c] = alone[c] /\ seen[c] \subseteq seen'[c] /\ Sees(c)'
      /\ \A d \in Callers \ {c} : Leaving(d)' /\ Sees(d)' /\ Read(d)' /\ Written(d)'
  BY <1>1, <1>3, <1>4, <1>5, ObserveFacts
<1>7. Leaving(c)' /\ Read(c)' /\ Written(c)'
  <2>1. CASE job[c].pc = "unlink"
    BY <1>1, <1>3, <1>4, <1>6, <2>1, CleanedUp
  <2>2. CASE job[c].pc # "unlink"
    BY <1>1, <1>4, <1>6, <2>2, ThrownOut
  <2> QED BY <2>1, <2>2
<1>8. IInv'
  BY <1>1, ExitsNonZeroIInv
<1> QED BY <1>6, <1>7, <1>8 DEF GInv

LEMMA TimesOutGInv ==
  ASSUME GInv, NEW c \in Callers, TimesOut(c)
  PROVE  GInv'
<1>1. /\ Alive(c) /\ Active(c) /\ Observe(c) /\ IInv /\ local' = local /\ short' = short
      /\ UNCHANGED shells
      /\ Unheard(c) /\ Throws(c, "error")
  BY DEF TimesOut, Alive, GInv
<1>2. files' \in Partial(c)
  BY <1>1, UnheardFacts
<1>3. (\A d \in Callers \ {c} : job'[d] = job[d]) /\ job'[c].kind = job[c].kind
  BY <1>1, ThrowsFacts
<1>4. /\ Contained(c, files') /\ (job[c].pc = "rm" => files'[Temp(c)] = files[Temp(c)])
      /\ job[c].pc \in {"rm", "unlink"} =>
           files'[TargetFile] = files[TargetFile] /\ files'[GuestFile] = files[GuestFile]
  BY <1>1, <1>2, PartialFacts, PartialContents
<1>5. /\ conn' = conn /\ dead' = dead /\ local' = [d \in Callers |-> local'[d]]
      /\ short' \in [Callers -> BOOLEAN]
  BY <1>1 DEF shells, GInv, Watched
<1>6. /\ Watched' /\ alone'[c] = alone[c] /\ seen[c] \subseteq seen'[c] /\ Sees(c)'
      /\ \A d \in Callers \ {c} : Leaving(d)' /\ Sees(d)' /\ Read(d)' /\ Written(d)'
  BY <1>1, <1>3, <1>4, <1>5, ObserveFacts
<1>7. Leaving(c)' /\ Read(c)' /\ Written(c)'
  BY <1>1, <1>4, <1>6, ThrownOut
<1>8. IInv'
  BY <1>1, TimesOutIInv
<1> QED BY <1>6, <1>7, <1>8 DEF GInv

(* The shell is lost; its job has yet to notice.                             *)
LEMMA LoseGInv ==
  ASSUME GInv, NEW c \in Callers, Lose(c)
  PROVE  GInv'
<1>1. /\ Alive(c) /\ Active(c) /\ Observe(c) /\ IInv /\ local' = local /\ short' = short /\ Unheard(c)
      /\ job' = job /\ conn' = conn /\ dead' = dead \cup {conn[c]}
  BY DEF Lose, Alive, GInv
<1>2. files' \in Partial(c) /\ Leaving(c) /\ Read(c) /\ Written(c)
  BY <1>1, UnheardFacts DEF GInv
<1>3. /\ Contained(c, files')
      /\ job[c].pc \in {"rm", "push", "stat", "cat"} => files'[Temp(c)] = files[Temp(c)]
      /\ job[c].pc \in {"rm", "unlink"} =>
           files'[TargetFile] = files[TargetFile] /\ files'[GuestFile] = files[GuestFile]
  BY <1>1, <1>2, PartialFacts, PartialContents
<1>4. local' = [d \in Callers |-> local'[d]] /\ short' \in [Callers -> BOOLEAN]
  BY <1>1 DEF GInv, Watched
<1>5. /\ Watched' /\ alone'[c] = alone[c] /\ seen[c] \subseteq seen'[c] /\ Sees(c)'
      /\ \A d \in Callers \ {c} : Leaving(d)' /\ Sees(d)' /\ Read(d)' /\ Written(d)'
  BY <1>1, <1>3, <1>4, ObserveFacts
<1>6. /\ Kind(c)' = Kind(c) /\ job[c].pc # "done"
      /\ job[c].pc = "chmod" => files' = files
  BY <1>1, <1>2, PartialContents DEF Kind, Active
<1>7. Leaving(c)' /\ Read(c)'
  BY <1>1, <1>2, <1>3, <1>5, <1>6 DEF Leaving, Read
<1>8. Written(c)'
  BY <1>1, <1>2, <1>3, <1>5, <1>6 DEF Written, Whole, Piece
<1>9. IInv'
  BY <1>1, LoseIInv
<1> QED BY <1>5, <1>7, <1>8, <1>9 DEF GInv

LEMMA FindsLostGInv ==
  ASSUME GInv, NEW c \in Callers, FindsLost(c)
  PROVE  GInv'
<1>1. /\ Active(c) /\ Throws(c, "lost") /\ IInv
      /\ UNCHANGED <<files, local, dead, conn, alone, seen, short>>
  BY DEF FindsLost, GInv
<1>2. (\A d \in Callers \ {c} : job'[d] = job[d]) /\ job'[c].kind = job[c].kind
  BY <1>1, ThrowsFacts
<1>3. ASSUME NEW d \in Callers \ {c}
      PROVE  Leaving(d)' /\ Sees(d)' /\ Read(d)' /\ Written(d)'
  <2>1. Sees(d)
    BY DEF GInv
  <2> QED BY <1>1, <1>2, <2>1, Bystander DEF Sees
<1>4. Leaving(c)' /\ Read(c)' /\ Written(c)'
  BY <1>1, ThrownOut
<1>5. Sees(c)'
  <2>1. Sees(c) /\ Target(c)' = Target(c)
    BY <1>2 DEF GInv, Target, Kind
  <2> QED BY <1>1, <2>1 DEF Sees
<1>6. IInv'
  BY <1>1, FindsLostIInv
<1>7. Watched'
  BY <1>1 DEF GInv, Watched
<1> QED BY <1>3, <1>4, <1>5, <1>6, <1>7 DEF GInv

(* A job that begins has done nothing yet, and sees its target as it is.     *)
LEMMA BeginGInv ==
  ASSUME GInv, NEW c \in Callers, NEW kind \in Kinds, Begin(c, kind)
  PROVE  GInv'
<1> DEFINE target == IF kind \in {"upload", "download"} THEN TargetFile ELSE GuestFile
           new == [kind |-> kind, pc |-> First(kind), i |-> 1, raised |-> "no"]
<1>1. /\ job' = [job EXCEPT ![c] = new]
      /\ files' = [files EXCEPT ![Staging(c)] = Absent, ![Beside(c)] = Absent, ![Temp(c)] = Absent]
      /\ local' = [local EXCEPT ![c] = Absent]
      /\ alone' = [alone EXCEPT ![c] = TRUE]
      /\ short' = [short EXCEPT ![c] = FALSE]
      /\ seen' = [seen EXCEPT ![c] = {files[target]}]
      /\ dead' = dead /\ IInv
  BY DEF Begin, GInv
<1>2. \A d \in Callers \ {c} : conn'[d] = conn[d]
  BY <1>1 DEF Begin, IInv, Typed
<1>3. Watched /\ job \in [Callers -> Jobs]
  BY <1>1 DEF GInv, IInv, Typed
<1>4. /\ Watched' /\ seen'[c] = {files[target]} /\ job'[c] = new
      /\ \A d \in Callers \ {c} : /\ job'[d] = job[d] /\ local'[d] = local[d]
                                  /\ alone'[d] = alone[d] /\ seen'[d] = seen[d]
                                  /\ short'[d] = short[d]
  BY <1>1, <1>3 DEF Watched
<1>5. \A f \in Names : files'[f] = IF f \in {Staging(c), Beside(c), Temp(c)}
                                   THEN Absent ELSE files[f]
  <2>1. {Staging(c), Beside(c), Temp(c)} \subseteq Names /\ files = [f \in Names |-> files[f]]
    BY <1>1, FilesApart DEF IInv, Typed
  <2> QED BY <1>1, <2>1
<1>6. /\ files'[TargetFile] = files[TargetFile] /\ files'[GuestFile] = files[GuestFile]
      /\ \A d \in Callers \ {c} : files'[Temp(d)] = files[Temp(d)]
  BY <1>5, FilesApart
<1>7. ASSUME NEW d \in Callers \ {c}
      PROVE  Leaving(d)' /\ Sees(d)' /\ Read(d)' /\ Written(d)'
  <2>1. Sees(d) /\ Target(d) \in {TargetFile, GuestFile}
    BY DEF GInv, Target
  <2>2. files'[Target(d)] = files[Target(d)]
    BY <1>6, <2>1
  <2> QED BY <1>1, <1>2, <1>4, <1>6, <2>1, <2>2, Bystander DEF Sees
<1>8. Kind(c)' = kind /\ Target(c)' = target
  BY <1>4 DEF Kind, Target
<1>9. Sees(c)'
  <2>1. files'[target] = files[target]
    BY <1>6
  <2> HIDE DEF target
  <2> QED BY <1>4, <1>8, <2>1 DEF Sees
<1>10. Leaving(c)' /\ Read(c)' /\ Written(c)'
  <2>1. First(kind) \notin {"rm", "push", "unlink", "chmod", "done"}
       /\ (kind = "pull" => First(kind) = "temp")
    BY DEF First, Kinds, GuestWrites
  <2>2. job'[c].raised = "no" /\ job'[c].pc = First(kind) /\ job'[c].i = 1
    BY <1>4
  <2> QED BY <1>8, <2>1, <2>2 DEF Leaving, Read, Written
<1>11. IInv'
  BY <1>1, BeginIInv
<1> QED BY <1>4, <1>7, <1>9, <1>10, <1>11 DEF GInv

LEMMA LateWriteGInv ==
  ASSUME GInv, LateWrite
  PROVE  GInv'
<1>1. PICK p \in running :
        files' \in {files, Tee(p.i, Piece(p.by, p.i))} \cup TeeShort(p.by, p.i)
  BY DEF LateWrite
<1>2. /\ UNCHANGED <<job, local, dead, conn, short>>
      /\ alone' = [d \in Callers |-> alone[d] /\ files'[Target(d)] = files[Target(d)]]
      /\ seen' = [d \in Callers |->
                    IF Active(d) THEN seen[d] \cup {files'[Target(d)]} ELSE seen[d]]
  BY DEF LateWrite, shells
<1>3. files' = files \/ \E content : files' = With(GuestFile, content)
  BY <1>1 DEF TeeShort, Tee, AppendTo
<1>4. \A f \in Names \ {GuestFile} : files'[f] = files[f]
  <2>1. files = [f \in Names |-> files[f]]
    BY DEF GInv, IInv, Typed
  <2> QED BY <1>3, <2>1 DEF With
<1>5. ASSUME NEW d \in Callers
      PROVE  Leaving(d)' /\ Sees(d)' /\ Read(d)' /\ Written(d)'
  <2>1. files'[Temp(d)] = files[Temp(d)]
    BY <1>4, FilesApart
  <2>2. /\ alone'[d] => alone[d] /\ files'[Target(d)] = files[Target(d)]
        /\ seen'[d] = IF Active(d) THEN seen[d] \cup {files'[Target(d)]} ELSE seen[d]
    BY <1>2
  <2>3. /\ job'[d] = job[d] /\ conn'[d] = conn[d] /\ local'[d] = local[d] /\ short'[d] = short[d]
        /\ dead \subseteq dead'
        /\ seen[d] \subseteq seen'[d] /\ (Active(d) => files'[Target(d)] \in seen'[d])
    BY <1>2, <2>2
  <2> QED BY <2>1, <2>2, <2>3, Bystander
<1>6. Watched'
  BY <1>2 DEF GInv, Watched
<1>7. IInv'
  BY LateWriteIInv DEF GInv
<1> QED BY <1>5, <1>6, <1>7 DEF GInv

LEMMA InitGInv == Init => GInv
<1> SUFFICES ASSUME Init PROVE GInv
  OBVIOUS
<1>1. IInv
  BY InitIInv
<1>2. Watched
  BY DEF Init, Watched
<1>3. ASSUME NEW c \in Callers
      PROVE  Leaving(c) /\ Sees(c) /\ Read(c) /\ Written(c)
  BY DEF Init, Leaving, Sees, Read, Written, Active
<1> QED BY <1>1, <1>2, <1>3 DEF GInv

LEMMA NextGInv == GInv /\ [Next]_vars => GInv'
<1> SUFFICES ASSUME GInv, [Next]_vars PROVE GInv'
  OBVIOUS
<1>1. ASSUME NEW c \in Callers, NEW kind \in Kinds, Begin(c, kind)
      PROVE  GInv'
  BY <1>1, BeginGInv
<1>2. ASSUME NEW c \in Callers, Answers(c)
      PROVE  GInv'
  BY <1>2, AnswersGInv
<1>10. ASSUME NEW c \in Callers, AnswersShort(c)
      PROVE  GInv'
  BY <1>10, AnswersShortGInv
<1>3. ASSUME NEW c \in Callers, CleansUp(c)
      PROVE  GInv'
  BY <1>3, CleansUpGInv
<1>4. ASSUME NEW c \in Callers, ExitsNonZero(c)
      PROVE  GInv'
  BY <1>4, ExitsNonZeroGInv
<1>5. ASSUME NEW c \in Callers, TimesOut(c)
      PROVE  GInv'
  BY <1>5, TimesOutGInv
<1>6. ASSUME NEW c \in Callers, Lose(c)
      PROVE  GInv'
  BY <1>6, LoseGInv
<1>7. ASSUME NEW c \in Callers, FindsLost(c)
      PROVE  GInv'
  BY <1>7, FindsLostGInv
<1>8. CASE LateWrite
  BY <1>8, LateWriteGInv
<1>9. CASE UNCHANGED vars
  <2>1. UNCHANGED <<files, job, local, dead, conn, alone, seen, short>>
    BY <1>9 DEF vars, shells, history
  <2>2. IInv'
    BY NextIInv DEF GInv
  <2>3. Watched'
    BY <2>1 DEF GInv, Watched
  <2>4. ASSUME NEW d \in Callers
        PROVE  Leaving(d)' /\ Sees(d)' /\ Read(d)' /\ Written(d)'
    <3>1. Sees(d)
      BY DEF GInv
    <3> QED BY <2>1, <3>1, Bystander DEF Sees
  <2> QED BY <2>2, <2>3, <2>4 DEF GInv
<1> QED BY <1>1, <1>2, <1>3, <1>4, <1>5, <1>6, <1>7, <1>8, <1>9, <1>10 DEF Next

-----------------------------------------------------------------------------
(* The results.                                                            *)

(* Every reachable state is well typed, and the staging file of an upload    *)
(* holds the pieces sent so far, in order, for any callers and sizes: the    *)
(* chunks of shell/termproxy.ts upload, each appended after the one before.  *)
THEOREM TypeCorrect == Spec => []TypeOK
<1>1. IInv => TypeOK
  <2> SUFFICES ASSUME IInv PROVE TypeOK
    OBVIOUS
  <2>1. DOMAIN files = Names
    BY DEF IInv, Typed
  <2>2. ASSUME NEW c \in Callers
        PROVE  /\ job[c].kind \in Kinds /\ job[c].i \in 1..K
               /\ job[c].raised \in {"no", "error", "lost"}
               /\ conn[c] \in 0..opened
               /\ Active(c) => conn[c] # 0
               /\ Alive(c) /\ job[c].pc = "append" =>
                    files[Staging(c)] = [i \in 1..(job[c].i - 1) |-> Piece(c, i)]
    <3>1. job[c] \in Jobs /\ conn[c] \in 0..opened /\ OnCourse(c) /\ Staged(c)
      BY DEF IInv, Typed
    <3> QED BY <3>1 DEF Jobs, OnCourse, Staged, Sent, Active
  <2> QED BY <2>1, <2>2 DEF TypeOK, IInv, Typed
<1> QED BY <1>1, Invariance, PTL

(* A file on the node that uploads replace is at every moment one whole      *)
(* content, whatever commands fail, time out or lose their shell, and        *)
(* however many uploads race for it: the rename of shell/termproxy.ts        *)
(* upload puts a staging file in place that holds all of its pieces.         *)
THEOREM UploadsAreWhole == Spec => []TargetIsWhole
<1>1. IInv => TargetIsWhole
  BY DEF IInv
<1> QED BY <1>1, Invariance, PTL

(* A settled job has left no staging and no temporary file on the node,      *)
(* unless a command that makes or removes one failed: the finally blocks of  *)
(* shell/termproxy.ts upload and of shell/lxc.ts are reached on every path.  *)
THEOREM NothingLeft == Spec => []NothingLeftOnNode
<1>1. IInv => NothingLeftOnNode
  BY DEF IInv, Owed, NothingLeftOnNode, Active
<1> QED BY <1>1, Invariance, PTL

(* After a job that failed over a lost shell the store does not offer that   *)
(* shell, but for a bare upload or download: the catch of NodeShell.run is   *)
(* on the way of every other job, and no caller puts a lost shell back.      *)
THEOREM LostShellDropped == Spec => []LostShellIsDropped
<1>1. IInv => LostShellIsDropped
  BY DEF IInv, Dropped, LostShellIsDropped
<1> QED BY <1>1, Invariance, PTL

(* A job that resolved tells the truth: a writer's whole content is where it *)
(* was to go, unless somebody else touched that file since it began or a     *)
(* base64 failed in the pipe of a guest write, and a reader has in hand one  *)
(* content that its source had.  Every command on the way that does not      *)
(* answer 0 is noticed (checkResult of guest-os/executor.ts, the exit codes  *)
(* checked in shell/termproxy.ts and shell/lxc.ts), for contents in any      *)
(* number of pieces and any interleaving of jobs.                            *)
THEOREM ResolvedGenuine == Spec => []ResolvedIsGenuine
<1>1. GInv => ResolvedIsGenuine
  <2> SUFFICES ASSUME GInv, NEW c \in Callers, job[c].pc = "done"
               PROVE  IF Kind(c) \in Writers
                      THEN alone[c] /\ ~short[c] => files[Target(c)] = Whole(c)
                      ELSE local[c] \in seen[c]
    BY DEF ResolvedIsGenuine
  <2>1. Leaving(c) /\ Read(c) /\ Written(c)
    BY DEF GInv
  <2>2. job[c].raised = "no"
    BY <2>1 DEF Leaving
  <2> QED BY <2>1, <2>2 DEF Read, Written
<1>2. GInv /\ [Next]_vars => GInv'
  BY NextGInv
<1> QED BY <1>1, <1>2, InitGInv, PTL DEF Spec
=============================================================================
