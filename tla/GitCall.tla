-------------------------------- MODULE GitCall --------------------------------
(***************************************************************************)
(* What run_git_bounded (src/git_utils.rs) promises its callers: one call  *)
(* of git ends in exactly one answer, and the answer "ok" carries the      *)
(* whole output of a git that succeeded and was given its whole input.     *)
(*                                                                         *)
(* Output and input are counted in units; which bytes they are does not    *)
(* matter to the promise.                                                  *)
(***************************************************************************)
EXTENDS Naturals

CONSTANTS
  MaxStdout,    \* MAX_GIT_STDOUT_BYTES, in units
  MaxOutput,    \* bound of the model on what git writes
  InputSize     \* units of input the caller supplies

VARIABLES
  produced,    \* units git has written to its standard output
  exit,        \* "running", "success" or "failure"
  delivered,   \* units of input handed to git
  answer,      \* "none", "ok" or "err"
  payload      \* units returned with "ok"

callVars == <<produced, exit, delivered, answer, payload>>

Init ==
  /\ produced = 0
  /\ exit = "running"
  /\ delivered = 0
  /\ answer = "none"
  /\ payload = 0

Produce ==
  /\ exit = "running"
  /\ produced < MaxOutput
  /\ produced' = produced + 1
  /\ UNCHANGED <<exit, delivered, answer, payload>>

Deliver ==
  /\ delivered < InputSize
  /\ delivered' = delivered + 1
  /\ UNCHANGED <<produced, exit, answer, payload>>

Exit ==
  /\ exit = "running"
  /\ exit' \in {"success", "failure"}
  /\ UNCHANGED <<produced, delivered, answer, payload>>

AnswerOk ==
  /\ answer = "none"
  /\ exit = "success"
  /\ delivered = InputSize
  /\ produced <= MaxStdout
  /\ answer' = "ok"
  /\ payload' = produced
  /\ UNCHANGED <<produced, exit, delivered>>

(* An error may be answered at any time: git could not be started, was not *)
(* waited for, wrote too much or failed, or a pipe broke.                  *)
AnswerErr ==
  /\ answer = "none"
  /\ answer' = "err"
  /\ UNCHANGED <<produced, exit, delivered, payload>>

Next == Produce \/ Deliver \/ Exit \/ AnswerOk \/ AnswerErr

SafeSpec == Init /\ [][Next]_callVars

(* The call is answered. *)
Spec == SafeSpec /\ WF_callVars(AnswerOk \/ AnswerErr)
=============================================================================
