------------------------------ MODULE GitProcess ------------------------------
(***************************************************************************)
(* run_git_bounded and read_bounded (src/git_utils.rs): the calling thread *)
(* starts git with its output pipes read by two threads, writes git's      *)
(* whole input, drops the pipe, waits for git, joins the readers and       *)
(* decides.  Pipes are bounded, so every party may have to wait for        *)
(* another.                                                                *)
(*                                                                         *)
(* Git is the environment: it has so much to write to each pipe, reads its *)
(* input to the end or not at all as it likes, and may die at any moment.  *)
(* What is assumed of it is that it goes on as long as no pipe blocks it,  *)
(* and that no process of its own outlives it and holds its pipes open.    *)
(***************************************************************************)
EXTENDS Integers

CONSTANTS
  PipeSize,     \* units a pipe holds
  MaxStdout,    \* MAX_GIT_STDOUT_BYTES, in units
  MaxStderr,    \* MAX_GIT_STDERR_BYTES, in units
  MaxOutput,    \* bound of the model: units git writes to one pipe
  InputSize     \* units of input; 0 stands for no input (stdin is null)

ASSUME SizesAssumption ==
  /\ PipeSize \in Nat \ {0}
  /\ MaxStdout \in Nat \ {0}
  /\ MaxStderr \in Nat \ {0}
  /\ MaxOutput \in Nat
  /\ InputSize \in Nat

Streams == {"stdout", "stderr"}
Limit(s) == IF s = "stdout" THEN MaxStdout ELSE MaxStderr

VARIABLES
  main,         \* where the calling thread is
  stdinPipe,    \* units in git's input pipe
  stdinOpen,    \* the caller still holds the writing end
  written,      \* units of input the caller has written
  waitFailed,   \* child.wait() returned an error
  inputFailed,  \* write_all failed: git no longer reads its input
  git,          \* "unborn", "running", "success" or "failure"
  heeds,        \* git reads its input to the end before it succeeds
  plan,         \* units git has to write to each output pipe
  pipe,         \* units in each output pipe
  output,       \* units git has written to each output pipe
  reader,       \* each reader thread: "reading", "ended" or "failed"
  kept,         \* units each reader has kept
  exceeded,     \* a reader has dropped output
  result        \* "none", "ok" or "err"

callerVars == <<main, inputFailed, waitFailed, result>>
inputVars == <<stdinPipe, stdinOpen, written>>
gitVars == <<git, heeds, plan>>
readerVars == <<reader, kept, exceeded>>
vars == <<callerVars, inputVars, gitVars, pipe, output, readerVars>>

GitGone == git \in {"success", "failure"}

Init ==
  /\ main = "spawn"
  /\ stdinPipe = 0
  /\ stdinOpen = FALSE
  /\ written = 0
  /\ inputFailed = FALSE
  /\ waitFailed = FALSE
  /\ git = "unborn"
  /\ heeds \in BOOLEAN
  /\ plan \in [Streams -> 0..MaxOutput]
  /\ pipe = [s \in Streams |-> 0]
  /\ output = [s \in Streams |-> 0]
  /\ reader = [s \in Streams |-> "reading"]
  /\ kept = [s \in Streams |-> 0]
  /\ exceeded = [s \in Streams |-> FALSE]
  /\ result = "none"

-----------------------------------------------------------------------------
(* The calling thread.                                                     *)

(* spawn()? and the two thread::spawn: git runs and both readers read.     *)
Spawn ==
  /\ main = "spawn"
  /\ main' = "write"
  /\ git' = "running"
  /\ stdinOpen' = (InputSize > 0)
  /\ UNCHANGED <<inputFailed, waitFailed, result, stdinPipe, written, heeds,
                 plan, pipe, output, readerVars>>

SpawnFails ==
  /\ main = "spawn"
  /\ main' = "returned"
  /\ result' = "err"
  /\ UNCHANGED <<inputFailed, waitFailed, inputVars, gitVars, pipe, output, readerVars>>

(* write_all, a unit at a time: blocked while the pipe is full.            *)
WriteInput ==
  /\ main = "write"
  /\ written < InputSize
  /\ ~GitGone
  /\ stdinPipe < PipeSize
  /\ stdinPipe' = stdinPipe + 1
  /\ written' = written + 1
  /\ UNCHANGED <<callerVars, stdinOpen, gitVars, pipe, output, readerVars>>

(* git has closed its end: write_all returns the broken pipe, which is     *)
(* kept for later, and the pipe is dropped at the end of the block.        *)
WriteBreaks ==
  /\ main = "write"
  /\ written < InputSize
  /\ GitGone
  /\ inputFailed' = TRUE
  /\ stdinOpen' = FALSE
  /\ main' = "wait"
  /\ UNCHANGED <<waitFailed, result, stdinPipe, written, gitVars, pipe, output,
                 readerVars>>

(* The whole input is written; the pipe is dropped.                        *)
DropStdin ==
  /\ main = "write"
  /\ written = InputSize
  /\ stdinOpen' = FALSE
  /\ main' = "wait"
  /\ UNCHANGED <<inputFailed, waitFailed, result, stdinPipe, written, gitVars,
                 pipe, output, readerVars>>

(* Mutant of Wait: git is asked whether it has exited, not waited for.     *)
Wait_Poll ==
  /\ main = "wait"
  /\ main' = "joinStdout"
  /\ waitFailed' \in BOOLEAN
  /\ UNCHANGED <<inputFailed, result, inputVars, gitVars, pipe, output, readerVars>>

(* child.wait() returns when git has exited; whether it returned an error  *)
(* is looked at after the readers are joined.                              *)
Wait ==
  /\ main = "wait"
  /\ GitGone
  /\ main' = "joinStdout"
  /\ waitFailed' \in BOOLEAN
  /\ UNCHANGED <<inputFailed, result, inputVars, gitVars, pipe, output, readerVars>>

(* reader.join()??: a failed reader ends the call at once; after stdout's, *)
(* the other thread is left to itself.                                     *)
Join(s, here, next) ==
  /\ main = here
  /\ \/ /\ reader[s] = "ended"
        /\ main' = next
        /\ UNCHANGED result
     \/ /\ reader[s] = "failed"
        /\ main' = "returned"
        /\ result' = "err"
  /\ UNCHANGED <<inputFailed, waitFailed, inputVars, gitVars, pipe, output, readerVars>>

JoinStdout == Join("stdout", "joinStdout", "joinStderr")
JoinStderr == Join("stderr", "joinStderr", "decide")

(* Mutants of Verdict: a cut-off output passes; cut-off error text fails.  *)
Verdict_IgnoreLimit ==
  IF inputFailed \/ waitFailed \/ git # "success" THEN "err" ELSE "ok"
Verdict_AnyLimit ==
  IF \/ inputFailed \/ waitFailed \/ git # "success"
     \/ \E s \in Streams : exceeded[s]
  THEN "err" ELSE "ok"

(* input_result?, status?, then the size of the output, then the status.   *)
Verdict ==
  IF inputFailed \/ waitFailed \/ exceeded["stdout"] \/ git # "success"
  THEN "err" ELSE "ok"

Decide ==
  /\ main = "decide"
  /\ main' = "returned"
  /\ result' = Verdict
  /\ UNCHANGED <<inputFailed, waitFailed, inputVars, gitVars, pipe, output, readerVars>>

-----------------------------------------------------------------------------
(* The reader threads.                                                     *)

Smaller(m, n) == IF m <= n THEN m ELSE n

(* Mutant of Drains: a full reader stops emptying its pipe.                *)
Drains_UntilFull(s) == reader[s] = "reading" /\ kept[s] < Limit(s)

(* A reader empties its pipe for as long as there is anything to read,     *)
(* also after it has kept all it may keep.                                 *)
Drains(s) == reader[s] = "reading"

(* Mutant of Room: the limit is applied to every read, not to their sum.   *)
Room_PerRead(s) == Limit(s)

(* limit.saturating_sub(bytes.len()) *)
Room(s) == Limit(s) - kept[s]

(* One read() returns n units; what fits under the limit is kept.          *)
Read(s, n) ==
  /\ main # "spawn"
  /\ Drains(s)
  /\ n <= pipe[s]
  /\ pipe' = [pipe EXCEPT ![s] = @ - n]
  /\ kept' = [kept EXCEPT ![s] = @ + Smaller(n, Room(s))]
  /\ exceeded' = [exceeded EXCEPT ![s] = @ \/ Smaller(n, Room(s)) < n]
  /\ UNCHANGED <<callerVars, inputVars, gitVars, output, reader>>

(* read() returns 0: the pipe is empty and git has closed its end.         *)
ReadEnd(s) ==
  /\ Drains(s)
  /\ pipe[s] = 0
  /\ GitGone
  /\ reader' = [reader EXCEPT ![s] = "ended"]
  /\ UNCHANGED <<callerVars, inputVars, gitVars, pipe, output, kept, exceeded>>

(* read() fails: the thread returns the error and drops its end.           *)
ReadFails(s) ==
  /\ main # "spawn"
  /\ git # "unborn"
  /\ Drains(s)
  /\ reader' = [reader EXCEPT ![s] = "failed"]
  /\ UNCHANGED <<callerVars, inputVars, gitVars, pipe, output, kept, exceeded>>

-----------------------------------------------------------------------------
(* Git.                                                                    *)

GitReads ==
  /\ git = "running"
  /\ stdinPipe > 0
  /\ stdinPipe' = stdinPipe - 1
  /\ UNCHANGED <<callerVars, stdinOpen, written, gitVars, pipe, output, readerVars>>

(* Blocked while the pipe is full.                                         *)
GitWrites(s) ==
  /\ git = "running"
  /\ reader[s] # "failed"
  /\ output[s] < plan[s]
  /\ pipe[s] < PipeSize
  /\ pipe' = [pipe EXCEPT ![s] = @ + 1]
  /\ output' = [output EXCEPT ![s] = @ + 1]
  /\ UNCHANGED <<callerVars, inputVars, gitVars, readerVars>>

GitEnds(outcome) ==
  /\ git = "running"
  /\ git' = outcome
  /\ UNCHANGED <<callerVars, inputVars, heeds, plan, pipe, output, readerVars>>

(* The end of the input, which a git that heeds it waits for.              *)
EndOfInput == stdinPipe = 0 /\ ~stdinOpen

(* Git has written all it had to write, and has read what it heeds.        *)
GitSucceeds ==
  /\ output = plan
  /\ heeds => EndOfInput
  /\ GitEnds("success")

(* A write to a pipe whose reader has failed kills git.                    *)
GitKilled(s) ==
  /\ reader[s] = "failed"
  /\ output[s] < plan[s]
  /\ GitEnds("failure")

(* Git fails for a reason of its own; nothing ever forces it to.           *)
GitFails == GitEnds("failure")

-----------------------------------------------------------------------------
(* The call has returned.                                                  *)
Returned == main = "returned" /\ UNCHANGED vars

CallerStep ==
  \/ Spawn \/ SpawnFails \/ WriteInput \/ WriteBreaks \/ DropStdin
  \/ Wait \/ JoinStdout \/ JoinStderr \/ Decide

ReaderStep(s) == (\E n \in 1..PipeSize : Read(s, n)) \/ ReadEnd(s)

Next ==
  \/ CallerStep
  \/ \E s \in Streams : ReaderStep(s) \/ ReadFails(s) \/ GitWrites(s) \/ GitKilled(s)
  \/ GitReads \/ GitSucceeds \/ GitFails
  \/ Returned

(* The operating system runs every thread that is not blocked, and a git   *)
(* that is not blocked goes on: it writes what it has to write, reads the  *)
(* input it heeds, and exits when it is through.                           *)
Fairness ==
  /\ WF_vars(CallerStep)
  /\ \A s \in Streams :
       WF_vars(ReaderStep(s)) /\ WF_vars(GitWrites(s)) /\ WF_vars(GitKilled(s))
  /\ WF_vars(heeds /\ GitReads)
  /\ WF_vars(GitSucceeds)

SafeSpec == Init /\ [][Next]_vars
Spec == SafeSpec /\ Fairness

-----------------------------------------------------------------------------
(* Every variable has its type. *)
TypeOK ==
  /\ main \in {"spawn", "write", "wait", "joinStdout", "joinStderr", "decide", "returned"}
  /\ stdinPipe \in Nat
  /\ stdinOpen \in BOOLEAN
  /\ written \in 0..InputSize
  /\ inputFailed \in BOOLEAN
  /\ waitFailed \in BOOLEAN
  /\ git \in {"unborn", "running", "success", "failure"}
  /\ heeds \in BOOLEAN
  /\ plan \in [Streams -> 0..MaxOutput]
  /\ pipe \in [Streams -> Nat]
  /\ output \in [Streams -> Nat]
  /\ reader \in [Streams -> {"reading", "ended", "failed"}]
  /\ kept \in [Streams -> Nat]
  /\ exceeded \in [Streams -> BOOLEAN]
  /\ result \in {"none", "ok", "err"}

(* "ok" is answered only with everything a successful git had to write,    *)
(* after it was given the whole input: never a prefix, however the reads   *)
(* were cut up and whichever party was late.                               *)
OkIsComplete ==
  result = "ok" =>
    /\ git = "success"
    /\ kept["stdout"] = plan["stdout"]
    /\ written = InputSize

(* No call fails without a cause: output up to the limit, and error text   *)
(* of any size, are no reason to fail.                                     *)
ErrorHasCause ==
  result = "err" =>
    \/ git \in {"unborn", "failure"}
    \/ inputFailed \/ waitFailed
    \/ output["stdout"] > MaxStdout
    \/ \E s \in Streams : reader[s] = "failed"

(* The call never returns while git runs, and leaves a thread behind only  *)
(* when the other reader has failed.                                       *)
NothingLeftRunning ==
  result # "none" =>
    /\ git # "running"
    /\ \/ git = "unborn"
       \/ \A s \in Streams : reader[s] # "reading"
       \/ reader["stdout"] = "failed"

(* What a reader holds, its pipe holds and git has written agree, as far   *)
(* as nothing was dropped.                                                 *)
FlowInv ==
  /\ \A s \in Streams :
       /\ kept[s] <= Limit(s)
       /\ output[s] <= plan[s]
       /\ ~exceeded[s] => kept[s] + pipe[s] = output[s]
       /\ exceeded[s] => output[s] > Limit(s)
       /\ reader[s] = "ended" => GitGone /\ pipe[s] = 0
  /\ git = "success" => output = plan

(* The caller is only where the threads and git let it be.                 *)
CallerInv ==
  /\ main = "spawn" => git = "unborn"
  /\ git = "unborn" => main \in {"spawn", "returned"} /\ result # "ok"
  /\ result # "none" <=> main = "returned"
  /\ main \in {"wait", "joinStdout", "joinStderr", "decide"} =>
       inputFailed \/ written = InputSize
  /\ main \in {"joinStdout", "joinStderr", "decide"} => GitGone
  /\ main \in {"joinStderr", "decide"} => reader["stdout"] = "ended"
  /\ main = "decide" => reader["stderr"] = "ended"

(* What the promises above rest on: types, the flow of the output and the  *)
(* place of the caller, and the promises themselves.  Every step keeps it. *)
IInv ==
  TypeOK /\ FlowInv /\ CallerInv /\ OkIsComplete /\ ErrorHasCause /\ NothingLeftRunning

(* The call refines the atomic call: in particular it is answered, though  *)
(* every pipe may fill up.                                                 *)
Call == INSTANCE GitCall WITH
  produced  <- output["stdout"],
  exit      <- IF GitGone THEN git ELSE "running",
  delivered <- written,
  answer    <- result,
  payload   <- IF result = "ok" THEN kept["stdout"] ELSE 0
ImplementsCall == Call!Spec

(* Every call of git ends. *)
Answered == <>(result # "none")
=============================================================================
