--------------------------- MODULE GitProcessProofs ---------------------------
(***************************************************************************)
(* Proofs about GitProcess, for every size of the pipes, the limits, the   *)
(* output and the input: its inductive invariant, the promises of          *)
(* run_git_bounded that follow from it, and the refinement of GitCall's    *)
(* safety part.                                                            *)
(***************************************************************************)
EXTENDS GitProcess, TLAPS

(* What fits into the room left is a natural number, no more than was read *)
(* and no more than the room; it is all that was read when that fits.      *)
LEMMA KeptPart ==
  ASSUME NEW n \in Nat, NEW m \in Nat
  PROVE  /\ Smaller(n, m) \in Nat
         /\ Smaller(n, m) <= n
         /\ Smaller(n, m) <= m
         /\ ~(Smaller(n, m) < n) => Smaller(n, m) = n
         /\ Smaller(n, m) < n => m < n
BY DEF Smaller

LEMMA LimitType ==
  ASSUME NEW s \in Streams
  PROVE  Limit(s) \in Nat
BY SizesAssumption DEF SizesAssumption, Limit, Streams

(* The initial states satisfy the invariant. *)
LEMMA InitIInv == Init => IInv
<1> SUFFICES ASSUME Init PROVE IInv
  OBVIOUS
<1>1. TypeOK
  <2>1. /\ pipe \in [Streams -> Nat] /\ output \in [Streams -> Nat] /\ kept \in [Streams -> Nat]
    BY DEF Init
  <2>2. reader \in [Streams -> {"reading", "ended", "failed"}]
    BY DEF Init
  <2>3. exceeded \in [Streams -> BOOLEAN]
    BY DEF Init
  <2>4. written \in 0..InputSize /\ stdinPipe \in Nat
    BY SizesAssumption DEF SizesAssumption, Init
  <2> QED BY <2>1, <2>2, <2>3, <2>4 DEF Init, TypeOK
<1>2. FlowInv
  BY LimitType DEF Init, FlowInv, Streams, GitGone
<1>3. CallerInv
  BY DEF Init, CallerInv, GitGone
<1>4. OkIsComplete /\ ErrorHasCause /\ NothingLeftRunning
  BY DEF Init, OkIsComplete, ErrorHasCause, NothingLeftRunning
<1> QED BY <1>1, <1>2, <1>3, <1>4 DEF IInv

(* Every step keeps the types. *)
LEMMA TypePreserved ==
  ASSUME IInv, [Next]_vars
  PROVE  TypeOK'
<1> USE DEF IInv
<1>1. CASE CallerStep
  <2>1. CASE Spawn
    BY <2>1 DEF Spawn, TypeOK, readerVars
  <2>2. CASE SpawnFails
    BY <2>2 DEF SpawnFails, TypeOK, inputVars, gitVars, readerVars
  <2>3. CASE WriteInput
    BY <2>3, SizesAssumption DEF SizesAssumption, WriteInput, TypeOK, callerVars, gitVars, readerVars
  <2>4. CASE WriteBreaks
    BY <2>4 DEF WriteBreaks, TypeOK, gitVars, readerVars
  <2>5. CASE DropStdin
    BY <2>5 DEF DropStdin, TypeOK, gitVars, readerVars
  <2>6. CASE Wait
    BY <2>6 DEF Wait, TypeOK, inputVars, gitVars, readerVars
  <2>7. CASE JoinStdout
    BY <2>7 DEF JoinStdout, Join, TypeOK, inputVars, gitVars, readerVars
  <2>8. CASE JoinStderr
    BY <2>8 DEF JoinStderr, Join, TypeOK, inputVars, gitVars, readerVars
  <2>9. CASE Decide
    BY <2>9 DEF Decide, Verdict, TypeOK, inputVars, gitVars, readerVars
  <2> QED BY <1>1, <2>1, <2>2, <2>3, <2>4, <2>5, <2>6, <2>7, <2>8, <2>9 DEF CallerStep
<1>2. ASSUME NEW s \in Streams, NEW n \in 1..PipeSize, Read(s, n)
      PROVE  TypeOK'
  <2>1. Limit(s) \in Nat /\ kept[s] \in Nat /\ kept[s] <= Limit(s)
    BY LimitType DEF TypeOK, FlowInv
  <2>2. Room(s) \in Nat
    BY <2>1 DEF Room
  <2>3. Smaller(n, Room(s)) \in Nat
    BY <2>2, KeptPart
  <2>4. kept' \in [Streams -> Nat]
    BY <1>2, <2>1, <2>3 DEF Read, TypeOK
  <2>5. pipe' \in [Streams -> Nat]
    BY <1>2 DEF Read, TypeOK
  <2>6. exceeded' \in [Streams -> BOOLEAN]
    BY <1>2 DEF Read, TypeOK
  <2> QED
    BY <1>2, <2>4, <2>5, <2>6 DEF Read, TypeOK, callerVars, inputVars, gitVars
<1>3. ASSUME NEW s \in Streams, ReadEnd(s) \/ ReadFails(s)
      PROVE  TypeOK'
  BY <1>3 DEF ReadEnd, ReadFails, TypeOK, callerVars, inputVars, gitVars
<1>4. ASSUME NEW s \in Streams, GitWrites(s)
      PROVE  TypeOK'
  BY <1>4 DEF GitWrites, TypeOK, callerVars, inputVars, gitVars, readerVars
<1>5. ASSUME NEW s \in Streams, GitKilled(s)
      PROVE  TypeOK'
  BY <1>5 DEF GitKilled, GitEnds, TypeOK, callerVars, inputVars, readerVars
<1>6. CASE GitReads
  BY <1>6 DEF GitReads, TypeOK, callerVars, gitVars, readerVars
<1>7. CASE GitSucceeds \/ GitFails
  BY <1>7 DEF GitSucceeds, GitFails, GitEnds, TypeOK, callerVars, inputVars, readerVars
<1>8. CASE UNCHANGED vars
  BY <1>8 DEF vars, callerVars, inputVars, gitVars, readerVars, TypeOK
<1> QED
  BY <1>1, <1>2, <1>3, <1>4, <1>5, <1>6, <1>7, <1>8 DEF Next, ReaderStep, Returned

-----------------------------------------------------------------------------
(* A read neither loses a unit nor keeps one beyond the limit, and what it *)
(* drops is dropped because more than the limit was written.               *)
LEMMA ReadKeepsFlow ==
  ASSUME IInv, NEW s \in Streams, NEW n \in 1..PipeSize, Read(s, n)
  PROVE  FlowInv'
<1> DEFINE m == Smaller(n, Room(s))
<1>1. /\ Limit(s) \in Nat /\ kept[s] \in Nat /\ kept[s] <= Limit(s)
      /\ pipe[s] \in Nat /\ output[s] \in Nat
  BY LimitType DEF IInv, TypeOK, FlowInv
<1>2. Room(s) \in Nat /\ Room(s) = Limit(s) - kept[s]
  BY <1>1 DEF Room
<1>3. /\ m \in Nat /\ m <= n /\ m <= Room(s)
      /\ ~(m < n) => m = n
      /\ m < n => Room(s) < n
  BY <1>2, KeptPart
<1>4. /\ kept' = [kept EXCEPT ![s] = @ + m]
      /\ pipe' = [pipe EXCEPT ![s] = @ - n]
      /\ exceeded' = [exceeded EXCEPT ![s] = @ \/ m < n]
      /\ n <= pipe[s] /\ reader[s] = "reading"
      /\ UNCHANGED <<output, plan, git, reader>>
  BY DEF Read, Drains, gitVars
<1>5. /\ kept'[s] = kept[s] + m
      /\ pipe'[s] = pipe[s] - n
      /\ exceeded'[s] <=> exceeded[s] \/ m < n
  BY <1>4 DEF IInv, TypeOK
<1>6. ASSUME NEW r \in Streams, r # s
      PROVE  kept'[r] = kept[r] /\ pipe'[r] = pipe[r] /\ exceeded'[r] = exceeded[r]
  BY <1>4, <1>6 DEF IInv, TypeOK
<1> HIDE DEF m
<1>7. /\ kept'[s] <= Limit(s)
      /\ ~exceeded'[s] => kept'[s] + pipe'[s] = output[s]
      /\ exceeded'[s] => output[s] > Limit(s)
  <2>1. ~exceeded[s] => kept[s] + pipe[s] = output[s]
    BY DEF IInv, FlowInv
  <2>2. exceeded[s] => output[s] > Limit(s)
    BY DEF IInv, FlowInv
  <2>3. CASE m < n
    BY <1>1, <1>2, <1>3, <1>4, <1>5, <2>1, <2>2, <2>3
  <2>4. CASE ~(m < n)
    BY <1>1, <1>2, <1>3, <1>4, <1>5, <2>1, <2>2, <2>4
  <2> QED BY <2>3, <2>4
<1> QED
  BY <1>4, <1>6, <1>7 DEF IInv, FlowInv, Limit, GitGone

(* Every step keeps the account of the output. *)
LEMMA FlowPreserved ==
  ASSUME IInv, [Next]_vars
  PROVE  FlowInv'
<1> USE DEF IInv
<1>1. CASE UNCHANGED <<git, plan, pipe, output, readerVars>>
  BY <1>1 DEF FlowInv, readerVars, GitGone, Limit
<1>2. CASE CallerStep
  <2>1. CASE Spawn
    BY <2>1 DEF Spawn, FlowInv, CallerInv, readerVars, GitGone, Limit
  <2>2. CASE ~Spawn
    BY <1>1, <1>2, <2>2
       DEF CallerStep, SpawnFails, WriteInput, WriteBreaks, DropStdin, Wait, JoinStdout,
           JoinStderr, Join, Decide, gitVars, readerVars
  <2> QED BY <2>1, <2>2
<1>3. ASSUME NEW s \in Streams, ReadEnd(s) \/ ReadFails(s)
      PROVE  FlowInv'
  BY <1>3 DEF ReadEnd, ReadFails, FlowInv, TypeOK, gitVars, GitGone, Limit
<1>4. ASSUME NEW s \in Streams, GitWrites(s)
      PROVE  FlowInv'
  <2>1. /\ pipe[s] \in Nat /\ output[s] \in Nat /\ kept[s] \in Nat /\ plan[s] \in Nat
        /\ Limit(s) \in Nat
    BY LimitType, SizesAssumption DEF SizesAssumption, TypeOK
  <2>2. /\ pipe'[s] = pipe[s] + 1 /\ output'[s] = output[s] + 1
        /\ \A r \in Streams : r # s => pipe'[r] = pipe[r] /\ output'[r] = output[r]
        /\ output[s] < plan[s]
        /\ git = "running"
        /\ UNCHANGED <<git, plan, reader, kept, exceeded>>
    BY <1>4 DEF GitWrites, TypeOK, gitVars, readerVars
  <2>3. /\ output'[s] <= plan'[s] /\ kept'[s] <= Limit(s)
        /\ ~exceeded'[s] => kept'[s] + pipe'[s] = output'[s]
        /\ exceeded'[s] => output'[s] > Limit(s)
        /\ reader'[s] # "ended"
    BY <2>1, <2>2 DEF FlowInv, GitGone
  <2> QED BY <2>2, <2>3 DEF FlowInv, GitGone, Limit
<1>5. CASE GitSucceeds \/ GitFails \/ \E s \in Streams : GitKilled(s)
  BY <1>5 DEF GitSucceeds, GitFails, GitKilled, GitEnds, FlowInv, readerVars, GitGone, Limit
<1>6. CASE GitReads \/ UNCHANGED vars
  BY <1>1, <1>6 DEF GitReads, vars, gitVars
<1> QED
  BY <1>2, <1>3, <1>4, <1>5, <1>6, ReadKeepsFlow DEF Next, ReaderStep, Returned, IInv

(* Every step leaves the caller where it may be. *)
LEMMA CallerPreserved ==
  ASSUME IInv, [Next]_vars
  PROVE  CallerInv'
<1> USE DEF IInv
<1>1. CASE CallerStep
  <2>1. CASE Spawn \/ SpawnFails
    BY <2>1 DEF Spawn, SpawnFails, CallerInv, GitGone, gitVars, readerVars, inputVars
  <2>2. CASE WriteInput
    BY <2>2 DEF WriteInput, CallerInv, GitGone, callerVars, gitVars, readerVars
  <2>3. CASE WriteBreaks \/ DropStdin
    BY <2>3 DEF WriteBreaks, DropStdin, CallerInv, GitGone, gitVars, readerVars
  <2>4. CASE Wait
    BY <2>4 DEF Wait, CallerInv, GitGone, gitVars, readerVars, inputVars
  <2>5. CASE JoinStdout
    BY <2>5 DEF JoinStdout, Join, CallerInv, GitGone, gitVars, readerVars, inputVars
  <2>6. CASE JoinStderr
    BY <2>6 DEF JoinStderr, Join, CallerInv, GitGone, gitVars, readerVars, inputVars
  <2>7. CASE Decide
    BY <2>7 DEF Decide, Verdict, CallerInv, GitGone, gitVars, readerVars, inputVars
  <2> QED BY <1>1, <2>1, <2>2, <2>3, <2>4, <2>5, <2>6, <2>7 DEF CallerStep
<1>2. ASSUME NEW s \in Streams, NEW n \in 1..PipeSize, Read(s, n)
      PROVE  CallerInv'
  BY <1>2 DEF Read, CallerInv, GitGone, callerVars, inputVars, gitVars
<1>3. ASSUME NEW s \in Streams, ReadEnd(s) \/ ReadFails(s)
      PROVE  CallerInv'
  BY <1>3 DEF ReadEnd, ReadFails, Drains, CallerInv, TypeOK, Streams, GitGone, callerVars,
              inputVars, gitVars
<1>4. CASE GitReads \/ \E s \in Streams : GitWrites(s)
  BY <1>4 DEF GitReads, GitWrites, CallerInv, GitGone, callerVars, inputVars, gitVars,
              readerVars
<1>5. CASE GitSucceeds \/ GitFails \/ \E s \in Streams : GitKilled(s)
  BY <1>5 DEF GitSucceeds, GitFails, GitKilled, GitEnds, CallerInv, GitGone, callerVars,
              inputVars, readerVars
<1>6. CASE UNCHANGED vars
  BY <1>6 DEF vars, CallerInv, GitGone, callerVars, inputVars, gitVars, readerVars
<1> QED
  BY <1>1, <1>2, <1>3, <1>4, <1>5, <1>6 DEF Next, ReaderStep, Returned

-----------------------------------------------------------------------------
(* Once an answer is given, standard output is no longer read.             *)
LEMMA AnsweredIsQuiet ==
  ASSUME IInv, result # "none", git # "unborn"
  PROVE  reader["stdout"] # "reading" /\ GitGone
BY DEF IInv, TypeOK, NothingLeftRunning, GitGone, Streams

(* Every step keeps the promise about "ok". *)
LEMMA OkPreserved ==
  ASSUME IInv, [Next]_vars
  PROVE  OkIsComplete'
<1> SUFFICES ASSUME result' = "ok"
             PROVE  /\ git' = "success"
                    /\ kept'["stdout"] = plan'["stdout"]
                    /\ written' = InputSize
  BY DEF OkIsComplete
<1> "stdout" \in Streams /\ "stderr" \in Streams
  BY DEF Streams
<1>1. CASE Decide
  <2>1. /\ result' = Verdict /\ main = "decide"
        /\ UNCHANGED <<git, plan, kept, written>>
    BY <1>1 DEF Decide, gitVars, readerVars, inputVars
  <2>2. ~inputFailed /\ ~exceeded["stdout"] /\ git = "success"
    BY <2>1 DEF Verdict
  <2>3. written = InputSize
    BY <2>1, <2>2 DEF IInv, CallerInv
  <2>4. reader["stdout"] = "ended"
    BY <2>1 DEF IInv, CallerInv
  <2>5. kept["stdout"] + pipe["stdout"] = output["stdout"] /\ pipe["stdout"] = 0
    BY <2>2, <2>4 DEF IInv, FlowInv
  <2>6. output = plan
    BY <2>2 DEF IInv, FlowInv
  <2>7. kept["stdout"] \in Nat
    BY DEF IInv, TypeOK
  <2> QED BY <2>1, <2>2, <2>3, <2>5, <2>6, <2>7
<1>2. CASE ~Decide
  <2>1. result = "ok"
    BY <1>2 DEF Next, CallerStep, Spawn, SpawnFails, WriteInput, WriteBreaks, DropStdin, Wait,
                JoinStdout, JoinStderr, Join, ReaderStep, Read, ReadEnd, ReadFails, GitReads,
                GitWrites, GitKilled, GitSucceeds, GitFails, GitEnds, Returned, vars, callerVars
  <2>2. /\ main = "returned" /\ git = "success" /\ written = InputSize
        /\ kept["stdout"] = plan["stdout"]
    BY <2>1 DEF IInv, CallerInv, OkIsComplete
  <2>3. reader["stdout"] # "reading"
    BY <2>1, <2>2, AnsweredIsQuiet
  <2>4. UNCHANGED <<git, plan, written>> /\ kept'["stdout"] = kept["stdout"]
    <3>1. CASE UNCHANGED vars
      BY <3>1 DEF vars, gitVars, inputVars, readerVars
    <3>2. ASSUME NEW s \in Streams, NEW n \in 1..PipeSize, Read(s, n)
          PROVE  UNCHANGED <<git, plan, written>> /\ kept'["stdout"] = kept["stdout"]
      BY <3>2, <2>3 DEF Read, Drains, gitVars, inputVars, IInv, TypeOK
    <3>3. ASSUME NEW s \in Streams, ReadEnd(s) \/ ReadFails(s) \/ GitWrites(s) \/ GitKilled(s)
          PROVE  UNCHANGED <<git, plan, written, kept>>
      BY <3>3, <2>2 DEF ReadEnd, ReadFails, GitWrites, GitKilled, GitEnds, gitVars, inputVars,
                        readerVars
    <3>4. ~(CallerStep \/ GitReads \/ GitSucceeds \/ GitFails)
      BY <2>2 DEF CallerStep, Spawn, SpawnFails, WriteInput, WriteBreaks, DropStdin, Wait,
                  JoinStdout, JoinStderr, Join, Decide, GitReads, GitSucceeds, GitFails, GitEnds
    <3> QED BY <3>1, <3>2, <3>3, <3>4 DEF Next, ReaderStep, Returned
  <2> QED BY <2>2, <2>4
<1> QED BY <1>1, <1>2

(* Every step keeps the promise about "err". *)
LEMMA ErrPreserved ==
  ASSUME IInv, [Next]_vars
  PROVE  ErrorHasCause'
<1> USE DEF IInv
<1>1. CASE CallerStep
  <2>1. CASE Spawn \/ WriteInput \/ WriteBreaks \/ DropStdin \/ Wait
    BY <2>1 DEF Spawn, WriteInput, WriteBreaks, DropStdin, Wait, CallerInv, ErrorHasCause,
                callerVars
  <2>2. CASE SpawnFails
    BY <2>2 DEF SpawnFails, CallerInv, ErrorHasCause, gitVars
  <2>3. CASE JoinStdout \/ JoinStderr
    BY <2>3 DEF JoinStdout, JoinStderr, Join, CallerInv, ErrorHasCause, readerVars, Streams
  <2>4. CASE Decide
    BY <2>4 DEF Decide, Verdict, CallerInv, FlowInv, ErrorHasCause, TypeOK, gitVars, readerVars,
                GitGone, Streams, Limit
  <2> QED BY <1>1, <2>1, <2>2, <2>3, <2>4 DEF CallerStep
<1>2. ASSUME NEW s \in Streams, NEW n \in 1..PipeSize, Read(s, n)
      PROVE  ErrorHasCause'
  BY <1>2 DEF Read, ErrorHasCause, callerVars, gitVars
<1>3. ASSUME NEW s \in Streams, ReadEnd(s) \/ ReadFails(s)
      PROVE  ErrorHasCause'
  BY <1>3 DEF ReadEnd, ReadFails, Drains, ErrorHasCause, TypeOK, callerVars, gitVars
<1>4. ASSUME NEW s \in Streams, GitWrites(s)
      PROVE  ErrorHasCause'
  <2>1. output["stdout"] \in Nat /\ output'["stdout"] >= output["stdout"] /\ MaxStdout \in Nat
    BY <1>4, SizesAssumption DEF SizesAssumption, GitWrites, TypeOK, Streams
  <2> QED BY <1>4, <2>1 DEF GitWrites, ErrorHasCause, callerVars, gitVars, readerVars
<1>5. CASE GitSucceeds \/ GitFails \/ \E s \in Streams : GitKilled(s)
  BY <1>5 DEF GitSucceeds, GitFails, GitKilled, GitEnds, NothingLeftRunning, ErrorHasCause,
              callerVars
<1>6. CASE GitReads \/ UNCHANGED vars
  BY <1>6 DEF GitReads, vars, ErrorHasCause, callerVars, gitVars, readerVars
<1> QED
  BY <1>1, <1>2, <1>3, <1>4, <1>5, <1>6 DEF Next, ReaderStep, Returned

(* No step leaves git or a thread behind an answer. *)
LEMMA QuietPreserved ==
  ASSUME IInv, [Next]_vars
  PROVE  NothingLeftRunning'
<1> USE DEF IInv
<1>1. CASE CallerStep
  <2>1. CASE Spawn \/ WriteInput \/ WriteBreaks \/ DropStdin \/ Wait
    BY <2>1 DEF Spawn, WriteInput, WriteBreaks, DropStdin, Wait, CallerInv, NothingLeftRunning,
                callerVars
  <2>2. CASE SpawnFails
    BY <2>2 DEF SpawnFails, CallerInv, NothingLeftRunning, gitVars
  <2>3. CASE JoinStdout \/ JoinStderr
    BY <2>3 DEF JoinStdout, JoinStderr, Join, CallerInv, NothingLeftRunning, gitVars, readerVars,
                Streams, GitGone
  <2>4. CASE Decide
    BY <2>4 DEF Decide, CallerInv, NothingLeftRunning, gitVars, readerVars, GitGone, Streams
  <2> QED BY <1>1, <2>1, <2>2, <2>3, <2>4 DEF CallerStep
<1>2. ASSUME NEW s \in Streams, NEW n \in 1..PipeSize, Read(s, n)
      PROVE  NothingLeftRunning'
  BY <1>2 DEF Read, NothingLeftRunning, callerVars, gitVars
<1>3. ASSUME NEW s \in Streams, ReadEnd(s) \/ ReadFails(s)
      PROVE  NothingLeftRunning'
  BY <1>3 DEF ReadEnd, ReadFails, Drains, NothingLeftRunning, TypeOK, Streams, callerVars,
              gitVars
<1>4. CASE GitReads \/ \E s \in Streams : GitWrites(s)
  BY <1>4 DEF GitReads, GitWrites, NothingLeftRunning, callerVars, gitVars, readerVars
<1>5. CASE GitSucceeds \/ GitFails \/ \E s \in Streams : GitKilled(s)
  BY <1>5 DEF GitSucceeds, GitFails, GitKilled, GitEnds, NothingLeftRunning, callerVars,
              readerVars
<1>6. CASE UNCHANGED vars
  BY <1>6 DEF vars, NothingLeftRunning, callerVars, gitVars, readerVars
<1> QED
  BY <1>1, <1>2, <1>3, <1>4, <1>5, <1>6 DEF Next, ReaderStep, Returned

-----------------------------------------------------------------------------
(* The invariant holds throughout: in whatever order the caller, the two   *)
(* readers and git take their steps, and whichever of them fails.          *)
THEOREM InvariantHolds == SafeSpec => []IInv
<1>1. IInv /\ [Next]_vars => IInv'
  BY TypePreserved, FlowPreserved, CallerPreserved, OkPreserved, ErrPreserved, QuietPreserved
     DEF IInv
<1> QED BY <1>1, InitIInv, PTL DEF SafeSpec

(* run_git_bounded answers Ok only with the whole output of a git that     *)
(* succeeded and was given the whole input.                                *)
THEOREM OkAnswersAreComplete == SafeSpec => []OkIsComplete
<1>1. IInv => OkIsComplete
  BY DEF IInv
<1> QED BY <1>1, InvariantHolds, PTL

(* run_git_bounded answers Err only with a cause; the size of the error    *)
(* text is none.                                                           *)
THEOREM ErrorsHaveCauses == SafeSpec => []ErrorHasCause
<1>1. IInv => ErrorHasCause
  BY DEF IInv
<1> QED BY <1>1, InvariantHolds, PTL

(* run_git_bounded leaves no git behind, and no reader of standard output. *)
THEOREM NothingIsLeftRunning == SafeSpec => []NothingLeftRunning
<1>1. IInv => NothingLeftRunning
  BY DEF IInv
<1> QED BY <1>1, InvariantHolds, PTL

-----------------------------------------------------------------------------
(* Every step is a step of the atomic call, or none of its business.       *)
LEMMA StepRefines ==
  ASSUME IInv, IInv', [Next]_vars
  PROVE  [Call!Next]_(Call!callVars)
<1> "stdout" \in Streams /\ "stderr" \in Streams
  BY DEF Streams
<1> DEFINE Payload == IF result = "ok" THEN kept["stdout"] ELSE 0
           Outcome == IF GitGone THEN git ELSE "running"
<1> DEFINE Same == /\ output'["stdout"] = output["stdout"] /\ Outcome' = Outcome
                   /\ written' = written /\ result' = result /\ Payload' = Payload
<1>1. CASE Same
  BY <1>1 DEF Call!callVars
<1>2. CASE Spawn \/ WriteBreaks \/ DropStdin \/ Wait
  <2>1. Same
    BY <1>2 DEF Spawn, WriteBreaks, DropStdin, Wait, IInv, CallerInv, GitGone, gitVars,
                inputVars, readerVars
  <2> QED BY <2>1, <1>1
<1>3. CASE SpawnFails
  <2>1. Call!AnswerErr
    BY <1>3 DEF SpawnFails, Call!AnswerErr, IInv, CallerInv, TypeOK, GitGone, gitVars, inputVars,
                readerVars
  <2> QED BY <2>1 DEF Call!Next
<1>4. CASE WriteInput
  <2>1. Call!Deliver
    BY <1>4 DEF WriteInput, Call!Deliver, GitGone, callerVars, gitVars, readerVars
  <2> QED BY <2>1 DEF Call!Next
<1>5. CASE JoinStdout \/ JoinStderr
  <2>1. result = "none"
    BY <1>5 DEF JoinStdout, JoinStderr, Join, IInv, CallerInv
  <2>2. /\ UNCHANGED <<output, git, written, kept>>
        /\ result' \in {"none", "err"}
    BY <1>5, <2>1 DEF JoinStdout, JoinStderr, Join, gitVars, inputVars, readerVars
  <2>3. CASE result' = "none"
    BY <1>1, <2>1, <2>2, <2>3 DEF GitGone
  <2>4. CASE result' = "err"
    <3>1. Call!AnswerErr
      BY <2>1, <2>2, <2>4 DEF Call!AnswerErr, GitGone
    <3> QED BY <3>1 DEF Call!Next
  <2> QED BY <2>2, <2>3, <2>4
<1>6. CASE Decide
  <2>1. /\ result = "none" /\ result' = Verdict
        /\ UNCHANGED <<output, git, written, kept>>
    BY <1>6 DEF Decide, IInv, CallerInv, gitVars, inputVars, readerVars
  <2>2. CASE Verdict = "err"
    <3>1. Call!AnswerErr
      BY <2>1, <2>2 DEF Call!AnswerErr, GitGone
    <3> QED BY <3>1 DEF Call!Next
  <2>3. CASE Verdict = "ok"
    <3>1. git = "success" /\ ~exceeded["stdout"]
      BY <2>3 DEF Verdict
    <3>2. written = InputSize /\ kept'["stdout"] = plan'["stdout"] /\ plan' = plan
      BY <1>6, <2>1, <2>3 DEF Decide, IInv, OkIsComplete, gitVars
    <3>3. output = plan /\ kept["stdout"] <= MaxStdout
      BY <3>1 DEF IInv, FlowInv, Limit
    <3>4. Call!AnswerOk
      BY <2>1, <2>3, <3>1, <3>2, <3>3 DEF Call!AnswerOk, GitGone
    <3> QED BY <3>4 DEF Call!Next
  <2> QED BY <2>2, <2>3 DEF Verdict
<1>7. ASSUME NEW s \in Streams, NEW n \in 1..PipeSize, Read(s, n)
      PROVE  Same
  <2>1. UNCHANGED <<output, git, written, result>>
    BY <1>7 DEF Read, callerVars, gitVars, inputVars
  <2>2. result = "ok" => reader["stdout"] # "reading"
    BY AnsweredIsQuiet DEF IInv, OkIsComplete
  <2>3. result = "ok" => kept'["stdout"] = kept["stdout"]
    BY <1>7, <2>2 DEF Read, Drains, IInv, TypeOK
  <2> QED BY <2>1, <2>3 DEF GitGone
<1>8. ASSUME NEW s \in Streams, ReadEnd(s) \/ ReadFails(s)
      PROVE  Same
  BY <1>8 DEF ReadEnd, ReadFails, GitGone, callerVars, gitVars, inputVars
<1>9. ASSUME NEW s \in Streams, GitWrites(s)
      PROVE  [Call!Next]_(Call!callVars)
  <2>1. /\ git = "running" /\ UNCHANGED <<git, written, result, kept>>
        /\ output' = [output EXCEPT ![s] = @ + 1]
        /\ output[s] < plan[s]
    BY <1>9 DEF GitWrites, callerVars, gitVars, inputVars, readerVars
  <2>2. CASE s = "stdout"
    <3>1. output["stdout"] < MaxOutput /\ output'["stdout"] = output["stdout"] + 1
      BY <2>1, <2>2, SizesAssumption DEF SizesAssumption, IInv, TypeOK
    <3>2. Call!Produce
      BY <2>1, <3>1 DEF Call!Produce, GitGone
    <3> QED BY <3>2 DEF Call!Next
  <2>3. CASE s # "stdout"
    <3>1. output'["stdout"] = output["stdout"]
      BY <2>1, <2>3 DEF IInv, TypeOK
    <3> QED BY <1>1, <2>1, <3>1 DEF GitGone
  <2> QED BY <2>2, <2>3
<1>10. CASE GitReads \/ UNCHANGED vars
  <2>1. Same
    BY <1>10 DEF GitReads, vars, GitGone, callerVars, gitVars, inputVars, readerVars
  <2> QED BY <2>1, <1>1
<1>11. CASE GitSucceeds \/ GitFails \/ \E s \in Streams : GitKilled(s)
  <2>1. Call!Exit
    BY <1>11 DEF GitSucceeds, GitFails, GitKilled, GitEnds, Call!Exit, GitGone, callerVars,
                 inputVars, readerVars
  <2> QED BY <2>1 DEF Call!Next
<1> HIDE DEF Same
<1> QED
  BY <1>1, <1>2, <1>3, <1>4, <1>5, <1>6, <1>7, <1>8, <1>9, <1>10, <1>11
     DEF Next, CallerStep, ReaderStep, Returned

(* run_git_bounded is the atomic call its callers take it for, as far as   *)
(* safety goes: it implements GitCall.                                     *)
THEOREM RefinesCall == SafeSpec => Call!SafeSpec
<1>1. Init => Call!Init
  BY DEF Init, Call!Init, GitGone, Streams
<1>2. IInv /\ IInv' /\ [Next]_vars => [Call!Next]_(Call!callVars)
  BY StepRefines
<1> QED BY <1>1, <1>2, InvariantHolds, PTL DEF SafeSpec, Call!SafeSpec
=============================================================================
