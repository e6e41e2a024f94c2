----------------------------- MODULE ParallelBatch -----------------------------
(***************************************************************************)
(* git_log_for_target_batch_parallel and git_log_for_target_diff_tree_     *)
(* parallel of src/history/git_cli.rs: the commits selected for a target   *)
(* are cut into chunks, one git process expands each chunk, and the        *)
(* answers are put together in the order of the chunks.  One thread, or    *)
(* one commit, is the serial reader: a single chunk.                       *)
(*                                                                         *)
(* What git prints for a commit (nothing, for a merge given to diff-tree)  *)
(* is one element of Printed.                                              *)
(***************************************************************************)
EXTENDS Integers, Sequences, FiniteSets

CONSTANTS
  Printed,    \* what git can print for one commit
  Seeds,      \* the selected commits in their order, as what git prints for each
  Jobs        \* --jobs

ASSUME BatchAssumption ==
  /\ Seeds \in Seq(Printed)
  /\ Jobs \in Nat

VARIABLES
  work,        \* of the pool: what has become of each chunk
  appended,    \* chunks already moved into commits
  commits,     \* the answer under construction
  answer       \* "none", "ok" or "err"

vars == <<work, appended, commits, answer>>

-----------------------------------------------------------------------------
Serial == Jobs <= 1 \/ Len(Seeds) <= 1

(* seeds.len().div_ceil(jobs).max(1)                                       *)
ChunkSize ==
  IF Serial THEN Len(Seeds) + 1
  ELSE (Len(Seeds) + Jobs - 1) \div Jobs

Least(a, b) == IF a <= b THEN a ELSE b

(* seeds.chunks(chunk_size): chunk k holds the seeds From(k)..To(k).       *)
From(k) == (k - 1) * ChunkSize + 1
To(k) == Least(k * ChunkSize, Len(Seeds))
Chunks == {k \in 1..Len(Seeds) : From(k) <= Len(Seeds)}

Pool == INSTANCE RayonPool WITH
          Items <- Chunks, Threads <- IF Serial THEN 1 ELSE Jobs

(* Mutant of NextChunk: results are used in the order they came in.        *)
NextChunk_AsTheyCome(k) == k \in Chunks \ appended

(* Mutant of NextChunk: the chunks are taken to be counted from 0.         *)
NextChunk_FromZero(k) == k \in Chunks \ appended /\ k = Cardinality(appended)

(* results.sort_by_key: the next result to append.                         *)
NextChunk(k) ==
  /\ k \in Chunks \ appended
  /\ \A j \in Chunks \ appended : k <= j

Init ==
  /\ Pool!PoolInit
  /\ appended = {}
  /\ commits = <<>>
  /\ answer = "none"

(* git_show_selected_commits or git_diff_tree_selected_commits on a chunk. *)
Expand(k) ==
  /\ answer = "none"
  /\ Pool!PoolStep(k)
  /\ UNCHANGED <<appended, commits, answer>>

(* collect::<Result<Vec<_>, _>>()?                                         *)
Refused == answer = "none" /\ Pool!Settled /\ Pool!Failed # {}

Refuse ==
  /\ Refused
  /\ answer' = "err"
  /\ UNCHANGED <<work, appended, commits>>

AppendChunk(k) ==
  /\ answer = "none"
  /\ Pool!Settled
  /\ ~Refused
  /\ NextChunk(k)
  /\ commits' = commits \o SubSeq(Seeds, From(k), To(k))
  /\ appended' = appended \cup {k}
  /\ UNCHANGED <<work, answer>>

Return ==
  /\ answer = "none"
  /\ Pool!Settled
  /\ ~Refused
  /\ appended = Chunks
  /\ answer' = "ok"
  /\ UNCHANGED <<work, appended, commits>>

Next ==
  \/ \E k \in Chunks : Expand(k) \/ AppendChunk(k)
  \/ Refuse
  \/ Return

(* Threads take the items and git_utils ends every git process.            *)
Fairness == WF_vars(Next)

Spec == Init /\ [][Next]_vars /\ Fairness

-----------------------------------------------------------------------------
(* Types of the variables.                                                 *)
TypeOK ==
  /\ Pool!PoolTypeOK
  /\ appended \subseteq Chunks
  /\ commits \in Seq(Printed)
  /\ answer \in {"none", "ok", "err"}

(* However the threads finish, the commits come out as the serial reader   *)
(* would give them: complete and in the order they were selected, which    *)
(* decides the evidence shown and the commit that dates the decay.         *)
OkIsSerial == answer = "ok" => commits = Seeds

(* One failed chunk fails the call; an error is not reported without one.  *)
NoSilentGap ==
  /\ answer = "err" => Pool!Failed # {}
  /\ Pool!Failed # {} => answer # "ok" /\ appended = {}

(* The call ends, whatever fails.                                          *)
Answered == <>(answer # "none")

(* The inductive invariant behind OkIsSerial and NoSilentGap.              *)
IInv ==
  /\ TypeOK
  /\ \E m \in 0..Len(Seeds) :
       /\ appended = {k \in Chunks : k <= m}
       /\ commits = SubSeq(Seeds, 1, To(m))
  /\ NoSilentGap
  /\ appended # {} => Pool!Settled
  /\ answer = "ok" => appended = Chunks
=============================================================================
