------------------------------ MODULE Pipeline ------------------------------
(***************************************************************************)
(* One call of borg by borgd (internal/drone/borg), alone or at the end of *)
(* a pipe: a command, on the host (internal/utils/exec.go) or in a         *)
(* container (internal/drone/container/docker), writes to a pipe that a    *)
(* goroutine copies into another, from which a goroutine of os/exec feeds  *)
(* borg.  Each process may fail while the others still run.                *)
(***************************************************************************)
EXTENDS Naturals

CONSTANTS
  Chunks,    \* bound: how much a command writes, in pieces that
  Room       \* bound: the pipe has room for so many of

ASSUME RoomAssumption == Chunks \in Nat /\ Room \in Nat \ {0}

VARIABLES
  command,   \* the process whose output is backed up
  left,      \* what it has not yet written
  pipe,      \* what is in the pipe from the goroutine to borg
  copier,    \* the goroutine that copies the command's output
  writer,    \* its end of the pipe
  err,       \* what the goroutine has sent on its channel: nothing, nil, an error
  borg,      \* borg: running, or how it exited
  log        \* borg's log, as far as it has come when it exits

producer == <<command, left, copier, writer, err>>
borgVars == <<borg, log>>
pipeline == <<producer, pipe, borgVars>>

Gone == command \in {"ok", "failed"}

-----------------------------------------------------------------------------
(* ExecWithOutput *)

ExecWithOutput ==
  /\ command' = "running" /\ left' \in 0..Chunks /\ pipe' = 0
  /\ copier' = "copying" /\ writer' = "open" /\ err' = "none"

(* A piece goes through the goroutine as soon as the pipe has room for it. *)
Copy ==
  /\ command = "running" /\ copier = "copying" /\ left > 0 /\ pipe < Room
  /\ left' = left - 1 /\ pipe' = pipe + 1
  /\ UNCHANGED <<command, copier, writer, err, borgVars>>

(* It ends when it has written everything, or when nobody reads it any more. *)
CommandEnds ==
  /\ command = "running"
  /\ left = 0 \/ copier # "copying"
  /\ command' \in (IF left = 0 THEN {"ok", "failed"} ELSE {"failed"})
  /\ UNCHANGED <<left, copier, writer, err, pipe, borgVars>>

(* It fails before that; but not while it is blocked on the pipe. *)
CommandFails ==
  /\ command = "running" /\ pipe < Room /\ command' = "failed"
  /\ UNCHANGED <<left, copier, writer, err, pipe, borgVars>>

(* Mutation: the exit status of the command is dropped. *)
WaitedUnchecked ==
  /\ copier = "copying" /\ Gone
  /\ err' = "nil" /\ copier' = "closing"
  /\ UNCHANGED <<command, left, writer, pipe, borgVars>>
(* The end of the output, and then Wait. *)
CommandWaited ==
  /\ copier = "copying" /\ Gone
  /\ err' = IF command = "ok" THEN "nil" ELSE "error"
  /\ copier' = "closing"
  /\ UNCHANGED <<command, left, writer, pipe, borgVars>>

(* The copy fails: nobody waits for the command, which the broken pipe ends. *)
CopyFails ==
  /\ copier = "copying" /\ copier' = "closing" /\ err' = "error"
  /\ UNCHANGED <<command, left, writer, pipe, borgVars>>

(* Mutation: the pipe to borg is left open. *)
LeaveOpen ==
  /\ copier = "closing" /\ copier' = "done"
  /\ UNCHANGED <<command, left, writer, err, pipe, borgVars>>
CloseWriter ==
  /\ copier = "closing" /\ copier' = "done" /\ writer' = "closed"
  /\ UNCHANGED <<command, left, err, pipe, borgVars>>

(* Error waits for the goroutine's answer. *)
ErrorAnswers == err # "none"

-----------------------------------------------------------------------------
(* borg, started by api.Run; fed: it reads from the pipe *)

BorgStarts == borg' = "running" /\ log' = "whole"

BorgReads ==
  /\ borg = "running" /\ pipe > 0 /\ pipe' = pipe - 1
  /\ UNCHANGED <<producer, borgVars>>

EndOfInput == pipe = 0 /\ writer = "closed"

(* It exits with 0, with a warning or with an error, which may be before it has
   read everything; the last line of its log, which is not read after a 0, may
   lack its newline. *)
BorgExits(codes) ==
  /\ borg = "running" /\ borg' \in codes
  /\ log' \in (IF borg' = "ok" THEN {"whole"} ELSE {"whole", "cut"})
  /\ UNCHANGED <<producer, pipe>>
BorgEnds(fed) == (fed => EndOfInput) /\ BorgExits({"ok", "warning", "failed"})
BorgFails == BorgExits({"failed"})

(* Wait returns when the goroutine that feeds borg has ended too: it has seen
   the end of the pipe, or had something to write to the borg that is gone. *)
Exited == borg \in {"ok", "warning", "failed"}
(* Mutation: borg is started, and not waited for. *)
Unwaited(fed) == UNCHANGED pipe
BorgWaited(fed) ==
  /\ Exited
  /\ \/ (fed => EndOfInput) /\ UNCHANGED pipe
     \/ fed /\ pipe > 0 /\ pipe' = pipe - 1

(* parseLogLines never gets past a line without its end. *)
Unparsable == log = "cut"
(* HandleBorgReturnCode *)
Succeeded == borg \in {"ok", "warning"}

(* What goes on by itself, and what may happen besides. *)
PipelineProceeds(fed) ==
  \/ Copy \/ CommandEnds \/ CommandWaited \/ CloseWriter
  \/ (fed /\ BorgReads) \/ BorgEnds(fed)
PipelineFails == CommandFails \/ CopyFails \/ BorgFails

PipelineRests ==
  /\ command' = "none" /\ left' = 0 /\ pipe' = 0
  /\ copier' = "none" /\ writer' = "none" /\ err' = "none"
  /\ borg' = "none" /\ log' = "whole"

PipelineInit ==
  /\ command = "none" /\ left = 0 /\ pipe = 0
  /\ copier = "none" /\ writer = "none" /\ err = "none"
  /\ borg = "none" /\ log = "whole"

PipelineTypeOK ==
  /\ command \in {"none", "running", "ok", "failed"}
  /\ left \in 0..Chunks /\ pipe \in 0..Room
  /\ copier \in {"none", "copying", "closing", "done"}
  /\ writer \in {"none", "open", "closed"} /\ err \in {"none", "nil", "error"}
  /\ borg \in {"none", "running", "ok", "warning", "failed"}
  /\ log \in {"whole", "cut"}
=============================================================================
