----------------------------- MODULE Transfers -----------------------------
(* Files moved by commands over a node's root shell: upload and download of *)
(* the termproxy transport (shell/termproxy.ts), pushLocalFile and           *)
(* pullToLocalFile of shell/lxc.ts, which put a temporary file on the node   *)
(* between, and writeFile and readFileBytes of guest-os/posix.ts through the *)
(* pct executor (guest-os/executor.ts).                                      *)
(*                                                                         *)
(* The transport runs one command at a time, so a command is one step here;  *)
(* the commands of different jobs interleave.  A command may answer, exit    *)
(* non-zero, get no answer before its deadline, or lose the shell; the last  *)
(* three leave its effect done, half done or not done.  A command inside the *)
(* container that got no answer may still be running there.  A result is the *)
(* result of its own command, which is Termproxy's ResultIsOwnOnceHeard.     *)
EXTENDS Naturals, Sequences, FiniteSets

CONSTANTS
  Callers,      \* jobs under way at the same time
  K,            \* pieces a content is sent in
  MaxFaults,    \* commands that fail, in the whole behaviour
  MaxJobs,      \* jobs begun, in the whole behaviour
  Absent, Old   \* no such file; the content found at the start

ASSUME TransfersAssumption ==
  /\ K \in Nat \ {0} /\ MaxFaults \in Nat /\ MaxJobs \in Nat
  /\ Absent \notin Seq(Callers \X Nat)
  /\ Old \notin Callers \X Nat

VARIABLES
  files,    \* contents, by file
  job,      \* [Callers -> [kind, pc, i, raised]]
  local,    \* what a reading job has, by caller
  running,  \* pieces of guest writes whose command outlived its deadline
  opened,   \* shells opened so far, numbered from 1
  dead,     \* those of them that were lost
  entry,    \* the shell the cluster's store offers for the node, 0 for none
  helper,   \* the shell of the container's kept os helper, 0 for none
  conn,     \* the shell a caller's job goes over
  faults, begun,
  \* history
  alone,    \* no other job touched a caller's target since it began
  seen,     \* contents a reader's source had since it began
  cut,      \* a caller's mktemp or rm got no answer, or not the hoped one
  short     \* a piece of a caller's guest write was cut short with exit 0

shells == <<opened, dead, entry, helper, conn>>
history == <<alone, seen, cut, short>>
vars == <<files, job, local, running, shells, faults, begun, history>>

(* A guest write may be asked to set the file's mode as well.                *)
GuestWrites == {"write", "writeMode"}
Kinds == {"upload", "push", "download", "pull", "read"} \cup GuestWrites
Writers == {"upload", "push"} \cup GuestWrites
Piece(c, i) == <<c, i>>
ShortPiece(c) == Piece(c, 0)
Whole(c) == [i \in 1..K |-> Piece(c, i)]

(* The node's target, the container's file, and per caller the staging file, *)
(* the file next to the target and the temporary file of shell/lxc.ts.       *)
TargetFile == <<"target">>
GuestFile == <<"guest">>
Names == {TargetFile, GuestFile} \cup ({"staging", "beside", "temp"} \X Callers)
Staging(c) == <<"staging", c>>
Beside(c) == <<"beside", c>>
Temp(c) == <<"temp", c>>

Active(c) == job[c].pc \notin {"idle", "done", "failed"}
Alive(c) == Active(c) /\ conn[c] \notin dead
Kind(c) == job[c].kind
Nested(c) == Kind(c) \in {"push", "pull"}
(* Where a job's bytes end up, and where an upload or a download inside it   *)
(* goes to or comes from.                                                    *)
Target(c) == IF Kind(c) \in {"upload", "download"} THEN TargetFile ELSE GuestFile
NodeFile(c) == IF Nested(c) THEN Temp(c) ELSE TargetFile

(***************************************************************************)
(* What a command does.                                                    *)
(***************************************************************************)
With(f, content) == [files EXCEPT ![f] = content]
AppendTo(f, piece) ==
  With(f, IF files[f] = Absent THEN <<piece>> ELSE Append(files[f], piece))

\* Wrong: every piece of a guest write is appended (no index === 0 case).
Tee_AlwaysAppends(i, piece) == AppendTo(GuestFile, piece)

(* One piece of a guest write: the first replaces, the later ones append.    *)
Tee(i, piece) ==
  IF i = 1 THEN With(GuestFile, <<piece>>) ELSE AppendTo(GuestFile, piece)

(* A piece that base64 fails to decode, or decodes in part, before tee.      *)
TeeShort(c, i) ==
  {IF i = 1 THEN With(GuestFile, <<>>) ELSE files, Tee(i, ShortPiece(c))}

(* The state a command leaves when it answers 0.                             *)
Effect(c) ==
  CASE job[c].pc = "temp"    -> With(Temp(c), <<>>)
    [] job[c].pc = "mktemp"  -> With(Staging(c), <<>>)
    [] job[c].pc = "append"  -> AppendTo(Staging(c), Piece(c, job[c].i))
    [] job[c].pc = "install" -> With(NodeFile(c), files[Staging(c)])
    [] job[c].pc = "rm"      -> With(Staging(c), Absent)
    [] job[c].pc = "push"    -> With(GuestFile, files[Temp(c)])
    [] job[c].pc = "pull"    -> With(Temp(c), files[GuestFile])
    [] job[c].pc = "unlink"  -> With(Temp(c), Absent)
    [] job[c].pc = "tee"     -> Tee(job[c].i, Piece(c, job[c].i))
    [] OTHER                 -> files

\* Wrong: base64 -d writes to the target itself, so the line may stop in it.
Partial_InPlace(c) ==
  {files, Effect(c)}
    \cup (IF job[c].pc = "install"
          THEN {With(NodeFile(c), SubSeq(files[Staging(c)], 1, 1))}
          ELSE {})

(* The states it may leave when it does not.  The install line stops at its  *)
(* first error: with the file beside the target made, or filled in part; the *)
(* line of a guest write may stop anywhere in its pipe.                      *)
Partial(c) ==
  {files, Effect(c)}
    \cup (CASE job[c].pc = "install" ->
                {With(Beside(c), <<>>), With(Beside(c), SubSeq(files[Staging(c)], 1, 1))}
            [] job[c].pc = "tee" -> TeeShort(c, job[c].i)
            [] OTHER -> {})

(* Where a job goes on after a command that answered 0.                      *)
OnOk(c) ==
  CASE job[c].pc = "temp"    -> IF Kind(c) = "push" THEN "mktemp" ELSE "pull"
    [] job[c].pc = "mktemp"  -> "append"
    [] job[c].pc = "append"  -> IF job[c].i < K THEN "append" ELSE "install"
    [] job[c].pc = "install" -> "rm"
    [] job[c].pc = "push"    -> "unlink"
    [] job[c].pc = "pull"    -> "stat"
    [] job[c].pc = "stat"    -> "cat"
    [] job[c].pc = "cat"     -> IF Nested(c) THEN "unlink" ELSE "done"
    [] job[c].pc = "tee"     -> IF job[c].i < K THEN "tee"
                                ELSE IF Kind(c) = "writeMode" THEN "chmod" ELSE "done"
    [] job[c].pc \in {"chmod", "base64"} -> "done"

\* Wrong: a failed piece, or a pull that failed, is not noticed.
OnError_Unchecked(c) ==
  CASE job[c].pc \in {"append", "tee", "pull", "stat", "cat"} -> OnOk(c)
    [] job[c].pc = "install" -> "rm"
    [] Nested(c) /\ job[c].pc \in {"mktemp", "push"} -> "unlink"
    [] OTHER -> "failed"

\* Wrong: no finally, the error leaves at once.
OnError_NoFinally(c) == "failed"

(* ... and after one that threw: through the finally blocks it is inside.    *)
OnError(c) ==
  CASE job[c].pc \in {"append", "install"} -> "rm"
    [] Nested(c) /\ job[c].pc \in {"mktemp", "push", "pull", "stat", "cat"} -> "unlink"
    [] OTHER -> "failed"

Settled(c) == IF job[c].raised = "no" THEN "done" ELSE "failed"

(* An upload's rm is over: its error, if any, was swallowed, and an earlier  *)
(* one goes on.                                                              *)
AfterRm(c) ==
  CASE Nested(c) /\ job[c].raised = "no" -> "push"
    [] Nested(c) /\ job[c].raised # "no" -> "unlink"
    [] ~Nested(c)                        -> Settled(c)

Counted(c) == job[c].pc \in {"append", "tee"}
GoOn(c, pc, raised) ==
  job' = [job EXCEPT ![c].pc = pc, ![c].raised = raised,
                     ![c].i = IF Counted(c) /\ pc = job[c].pc THEN @ + 1 ELSE 1]

(***************************************************************************)
(* History: what the properties compare with.                              *)
(***************************************************************************)
Observe(c) ==
  /\ alone' = [d \in Callers |->
                 alone[d] /\ (d = c \/ files'[Target(d)] = files[Target(d)])]
  /\ seen' = [d \in Callers |->
                IF Active(d) THEN seen[d] \cup {files'[Target(d)]} ELSE seen[d]]

Init ==
  /\ files = [f \in Names |-> IF f \in {TargetFile, GuestFile} THEN <<Old>> ELSE Absent]
  /\ job = [c \in Callers |-> [kind |-> "read", pc |-> "idle", i |-> 1, raised |-> "no"]]
  /\ local = [c \in Callers |-> Absent]
  /\ running = {}
  /\ opened = 0 /\ dead = {} /\ entry = 0 /\ helper = 0
  /\ conn = [c \in Callers |-> 0]
  /\ faults = 0 /\ begun = 0
  /\ alone = [c \in Callers |-> TRUE]
  /\ seen = [c \in Callers |-> {}]
  /\ cut = [c \in Callers |-> FALSE] /\ short = [c \in Callers |-> FALSE]

First(kind) ==
  CASE kind = "upload" -> "mktemp" [] kind = "download" -> "stat"
    [] kind \in {"push", "pull"} -> "temp"
    [] kind \in GuestWrites -> "tee" [] kind = "read" -> "base64"

(* A job begins, on a caller whose last one settled.  The store's shell is   *)
(* used as it is and opened when there is none; the guest's jobs go over the *)
(* shell of the container's helper, kept from its first use.                 *)
Begin(c, kind) ==
  LET guest == kind \in GuestWrites \cup {"read"}
      keeps == guest /\ helper # 0
      fresh == entry = 0 /\ ~keeps
      shell == IF keeps THEN helper ELSE IF fresh THEN opened + 1 ELSE entry IN
  /\ ~Active(c) /\ begun < MaxJobs
  /\ begun' = begun + 1
  /\ job' = [job EXCEPT ![c] = [kind |-> kind, pc |-> First(kind), i |-> 1, raised |-> "no"]]
  /\ opened' = IF fresh THEN opened + 1 ELSE opened
  /\ entry' = IF keeps THEN entry ELSE shell
  /\ helper' = IF guest THEN shell ELSE helper
  /\ conn' = [conn EXCEPT ![c] = shell]
  /\ files' = [files EXCEPT ![Staging(c)] = Absent, ![Beside(c)] = Absent, ![Temp(c)] = Absent]
  /\ local' = [local EXCEPT ![c] = Absent]
  /\ alone' = [alone EXCEPT ![c] = TRUE]
  /\ seen' = [seen EXCEPT ![c] =
                {files[IF kind \in {"upload", "download"} THEN TargetFile ELSE GuestFile]}]
  /\ cut' = [cut EXCEPT ![c] = FALSE] /\ short' = [short EXCEPT ![c] = FALSE]
  /\ UNCHANGED <<running, dead, faults>>

(* A command answers 0.                                                      *)
Answers(c) ==
  /\ Alive(c)
  /\ job[c].pc \notin {"rm", "unlink"}
  /\ files' = Effect(c)
  /\ local' = CASE job[c].pc = "cat" -> [local EXCEPT ![c] = files[NodeFile(c)]]
                [] job[c].pc = "base64" -> [local EXCEPT ![c] = files[GuestFile]]
                [] OTHER -> local
  /\ GoOn(c, OnOk(c), job[c].raised)
  /\ Observe(c)
  /\ UNCHANGED <<running, shells, faults, begun, cut, short>>

(* A piece of a guest write answers 0 though it was cut short: the line is a *)
(* pipe, its exit code tee's, and a base64 that fails in it goes unnoticed.  *)
AnswersShort(c) ==
  /\ Alive(c) /\ job[c].pc = "tee" /\ faults < MaxFaults
  /\ faults' = faults + 1
  /\ files' \in TeeShort(c, job[c].i)
  /\ short' = [short EXCEPT ![c] = TRUE]
  /\ GoOn(c, OnOk(c), job[c].raised)
  /\ Observe(c)
  /\ UNCHANGED <<local, running, shells, begun, cut>>

(* One of the two clean-ups answers 0: an error raised before it goes on.    *)
CleansUp(c) ==
  /\ Alive(c)
  /\ job[c].pc \in {"rm", "unlink"}
  /\ files' = Effect(c)
  /\ GoOn(c, IF job[c].pc = "rm" THEN AfterRm(c) ELSE Settled(c), job[c].raised)
  /\ Observe(c)
  /\ UNCHANGED <<local, running, shells, faults, begun, cut, short>>

(* The job after a command that threw.  An upload swallows the error of its  *)
(* rm; that of the unlink replaces whatever was raised before.               *)
Throws(c, error) ==
  IF job[c].pc = "rm" THEN GoOn(c, AfterRm(c), job[c].raised)
  ELSE GoOn(c, OnError(c), error)

(* A mktemp whose answer is lost leaves a file of no known name, a clean-up  *)
(* that fails leaves its file.                                               *)
Leaves(c) == cut' = [cut EXCEPT ![c] = @ \/ job[c].pc \in {"temp", "mktemp", "rm", "unlink"}]

(* A command exits non-zero.  removeNodeFile does not look at the exit code. *)
ExitsNonZero(c) ==
  /\ Alive(c) /\ faults < MaxFaults
  /\ faults' = faults + 1
  /\ files' \in {files} \cup (Partial(c) \ {Effect(c)})
  /\ IF job[c].pc = "unlink" THEN GoOn(c, Settled(c), job[c].raised)
                             ELSE Throws(c, "error")
  /\ Leaves(c) /\ Observe(c)
  /\ UNCHANGED <<local, running, shells, begun, short>>

(* What a command leaves that is not heard of: on the node it has run, in  *)
(* part, wholly or not, before the shell takes the next one; in the          *)
(* container it may still be running.                                        *)
Unheard(c) ==
  \/ files' \in Partial(c) /\ UNCHANGED running
  \/ /\ job[c].pc = "tee"
     /\ running' = running \cup {[by |-> c, i |-> job[c].i]}
     /\ UNCHANGED files

(* A command gets no answer before its deadline.                             *)
TimesOut(c) ==
  /\ Alive(c) /\ faults < MaxFaults
  /\ faults' = faults + 1
  /\ Unheard(c)
  /\ Throws(c, "error") /\ Leaves(c) /\ Observe(c)
  /\ UNCHANGED <<local, shells, begun, short>>

(* The shell is lost under a command; every job over it finds out.           *)
Lose(c) ==
  /\ Alive(c) /\ faults < MaxFaults
  /\ faults' = faults + 1
  /\ Unheard(c)
  /\ dead' = dead \cup {conn[c]}
  /\ Observe(c)
  /\ UNCHANGED <<job, local, opened, entry, helper, conn, begun, cut, short>>

(* Which commands go through NodeShell.run, whose catch drops the entry of a *)
(* shell it finds lost; upload and download call their transport's run.      *)
ThroughNodeShell(c) == job[c].pc \in {"temp", "push", "pull", "unlink", "tee", "chmod", "base64"}

\* Wrong: the cluster keeps the entry of a shell that failed.
FindsLost_Kept(c) ==
  /\ Active(c) /\ conn[c] \in dead
  /\ Throws(c, "lost") /\ Leaves(c)
  /\ UNCHANGED <<files, local, running, opened, dead, entry, helper, conn, faults, begun, alone, seen, short>>

(* A command over a lost shell throws at once.                               *)
FindsLost(c) ==
  /\ Active(c) /\ conn[c] \in dead
  /\ entry' = IF ThroughNodeShell(c) /\ entry = conn[c] THEN 0 ELSE entry
  /\ Throws(c, "lost") /\ Leaves(c)
  /\ UNCHANGED <<files, local, running, opened, dead, helper, conn, faults, begun, alone, seen, short>>

(* A guest write that outlived its deadline gets to its file, or dies on the *)
(* way there.                                                                *)
LateWrite ==
  \E p \in running :
    /\ running' = running \ {p}
    /\ files' \in {files, Tee(p.i, Piece(p.by, p.i))} \cup TeeShort(p.by, p.i)
    /\ alone' = [d \in Callers |-> alone[d] /\ files'[Target(d)] = files[Target(d)]]
    /\ seen' = [d \in Callers |->
                  IF Active(d) THEN seen[d] \cup {files'[Target(d)]} ELSE seen[d]]
    /\ UNCHANGED <<job, local, shells, faults, begun, cut, short>>

Next ==
  \/ \E c \in Callers, kind \in Kinds : Begin(c, kind)
  \/ \E c \in Callers :
       \/ Answers(c) \/ AnswersShort(c) \/ CleansUp(c)
       \/ ExitsNonZero(c) \/ TimesOut(c) \/ Lose(c) \/ FindsLost(c)
  \/ LateWrite

Spec == Init /\ [][Next]_vars

(***************************************************************************)
(* Properties.                                                             *)
(***************************************************************************)
(* Types; a staging file is there while its upload runs, the pieces of the   *)
(* chunks sent so far in it, in order (shell/termproxy.ts upload).           *)
TypeOK ==
  /\ DOMAIN files = Names
  /\ \A c \in Callers :
       /\ job[c].kind \in Kinds /\ job[c].i \in 1..K
       /\ job[c].raised \in {"no", "error", "lost"}
       /\ conn[c] \in 0..opened
       /\ Active(c) => conn[c] # 0
       /\ Alive(c) /\ job[c].pc = "append" =>
            files[Staging(c)] = [i \in 1..(job[c].i - 1) |-> Piece(c, i)]
  /\ entry \in 0..opened /\ helper \in 0..opened /\ dead \subseteq 1..opened
  /\ faults \in 0..MaxFaults /\ begun \in 0..MaxJobs

(* A file on the node that uploads replace is at every moment one whole      *)
(* content, whatever fails and whoever else uploads to it: the decoded file  *)
(* is renamed over it (shell/termproxy.ts upload).                           *)
TargetIsWhole == files[TargetFile] \in {<<Old>>} \cup {Whole(c) : c \in Callers}

(* A writer that resolved has put its whole content in place, unless another *)
(* job or an earlier write still running in the guest touched the file since *)
(* it began, or base64 failed in the pipe of one of its pieces; what a       *)
(* reader resolved with is a content its source had while it ran, not a cut  *)
(* or a mixture.  Every command that does not answer 0 is noticed            *)
(* (checkResult and checkWholeOutput of guest-os/executor.ts, check: true).  *)
ResolvedIsGenuine ==
  \A c \in Callers : job[c].pc = "done" =>
    IF Kind(c) \in Writers THEN alone[c] /\ ~short[c] => files[Target(c)] = Whole(c)
                           ELSE local[c] \in seen[c]

(* A settled job leaves no staging or temporary file on the node, whatever   *)
(* failed in it, unless the command that makes or removes one failed itself  *)
(* (the finally blocks of shell/termproxy.ts and shell/lxc.ts).              *)
NothingLeftOnNode ==
  \A c \in Callers :
    ~Active(c) /\ ~cut[c] => files[Staging(c)] = Absent /\ files[Temp(c)] = Absent

(* docs/shell.md says that a shell whose transport fails to carry a command  *)
(* is dropped, so that the next await opens a fresh one: after a job that    *)
(* failed over a lost shell, the store does not offer that shell.  It holds  *)
(* of the jobs with a command of NodeShell.run; a bare upload or download    *)
(* never gets to the catch there and leaves the lost shell on offer.         *)
LostShellIsDropped ==
  \A c \in Callers :
    job[c].pc = "failed" /\ job[c].raised = "lost" =>
      entry # conn[c] \/ Kind(c) \in {"upload", "download"}
=============================================================================
