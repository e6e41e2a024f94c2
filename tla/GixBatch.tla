------------------------------- MODULE GixBatch -------------------------------
(***************************************************************************)
(* The gitoxide reader of src/history/gix_reader.rs.  Commits of HEAD are  *)
(* walked newest first, collected in batches, and every batch is searched  *)
(* for commits that changed the target, until the bounds of the query are  *)
(* met.  In "selected" mode the commits come from `git log` instead, they  *)
(* are trusted to concern the target, and a commit gitoxide cannot read is *)
(* read by `git show`.                                                     *)
(*                                                                         *)
(* With several jobs the commits of a batch are looked at by a pool that   *)
(* gives one result per commit, in their order; looking at a commit        *)
(* changes nothing, so the pool shows only in the size of a batch.         *)
(***************************************************************************)
EXTENDS Integers, Sequences, SequencesExt, FiniteSets

CONSTANTS
  Histories,    \* what can be walked: sequences of commits, see Commit
  Queries,      \* [mode, max, scan, since, jobs]
  PerJob,       \* commits of a batch for each job: 64
  LeastBatch    \* commits of the smallest batch: 256

Target == "target"
Commit ==
  [ listed : BOOLEAN,                                 \* the walk can read it
    parent : {"none", "readable", "unreadable"},      \* its first parent
    old : {"absent", "a", "tree"},                    \* entry at the target, there
    new : {"absent", "a", "b", "tree"},               \* and here
    others : SUBSET {"other"},                        \* other files it changed
    time : Nat ]                                      \* commit time

VARIABLES
  history, query,
  pc,          \* "walking", "flushing" (in the loop), "last" (after it), "ok", "err"
  scanned,     \* commits walked
  batch,       \* commits collected and not yet looked at
  commits      \* the answer: [id, files]

vars == <<history, query, pc, scanned, batch, commits>>

(* What is known of the commits and the queries, and that a batch takes at *)
(* least one commit.                                                       *)
GixAssumption ==
  /\ Histories \subseteq Seq(Commit)
  /\ Queries \subseteq [mode : {"walk", "selected"}, max : Nat, scan : Nat, since : Nat, jobs : Nat]
  /\ PerJob \in Nat /\ LeastBatch \in Nat \ {0}

-----------------------------------------------------------------------------
OldEntry(c) == IF c.parent = "none" THEN "absent" ELSE c.old

(* gix_target_changed                                                      *)
TargetChanged(c) == c.new # "absent" /\ OldEntry(c) # c.new

(* The files added or modified; a tree is not a file.                      *)
ChangedFiles(c) ==
  c.others \cup {f \in {Target} : c.new \in {"a", "b"} /\ OldEntry(c) # c.new}

Unreadable(c) == c.parent = "unreadable"

Trusted == query.mode = "selected"

(* gix_commit_for_target: a commit is left out (<<>>) or listed with its   *)
(* files; the target of a trusted commit is added when its diff lacks it.  *)
Found(c, id) ==
  LET files == ChangedFiles(c) \cup (IF Trusted THEN {Target} ELSE {})
  IN  IF (Trusted \/ TargetChanged(c)) /\ Target \in files
      THEN <<[id |-> id, files |-> files]>> ELSE <<>>

BatchSize == Max({Max({query.jobs, 1}) * PerJob, LeastBatch})

Enough == query.max > 0 /\ Len(commits) >= query.max

ScanLimitReached(n) == query.scan > 0 /\ n >= query.scan

BatchFull(n) == n >= BatchSize

(* Mutant of Truncated: commits found past the bound are kept.             *)
Truncated_Never == commits
Truncated ==
  IF query.max > 0 /\ Len(commits) > query.max THEN SubSeq(commits, 1, query.max) ELSE commits

Init ==
  /\ history \in Histories /\ query \in Queries
  /\ commits = <<>>
  /\ IF query.mode = "selected"
     THEN pc = "last" /\ scanned = Len(history) /\ batch = [k \in DOMAIN history |-> k]
     ELSE pc = "walking" /\ scanned = 0 /\ batch = <<>>

Here == history[scanned + 1]
TooOld == query.since > 0 /\ Here.time < query.since

(* Past the loop: the last batch is looked at if there is room.            *)
LeaveLoop ==
  IF batch # <<>> /\ ~Enough
  THEN pc' = "last" /\ UNCHANGED commits
  ELSE pc' = "ok" /\ commits' = Truncated

WalkFails ==
  /\ pc = "walking" /\ scanned < Len(history)
  /\ ~Here.listed
  /\ pc' = "err"
  /\ UNCHANGED <<history, query, scanned, batch, commits>>

StopWalk ==
  /\ pc = "walking"
  /\ \/ scanned = Len(history) /\ UNCHANGED scanned
     \/ scanned < Len(history) /\ Here.listed /\ TooOld /\ scanned' = scanned + 1
  /\ LeaveLoop
  /\ UNCHANGED <<history, query, batch>>

Collect ==
  /\ pc = "walking" /\ scanned < Len(history)
  /\ Here.listed /\ ~TooOld
  /\ scanned' = scanned + 1
  /\ batch' = Append(batch, scanned + 1)
  /\ pc' = IF BatchFull(Len(batch')) \/ ScanLimitReached(scanned + 1)
           THEN "flushing" ELSE "walking"
  /\ UNCHANGED <<history, query, commits>>

(* append_gix_batch, one commit of it.                                     *)
Flushing == pc \in {"flushing", "last"} /\ batch # <<>>

Look ==
  /\ Flushing
  /\ ~Unreadable(history[batch[1]])
  /\ commits' = commits \o Found(history[batch[1]], batch[1])
  /\ batch' = Tail(batch)
  /\ UNCHANGED <<history, query, pc, scanned>>

GiveUp ==
  /\ Flushing
  /\ Unreadable(history[batch[1]])
  /\ pc' = "err"
  /\ UNCHANGED <<history, query, scanned, batch, commits>>

(* git_show_commit_for_target: git prints the commit, or nothing.          *)
AskGit ==
  /\ Flushing
  /\ Unreadable(history[batch[1]])
  /\ query.mode = "selected"
  /\ \/ commits' = Append(commits, [id |-> batch[1],
                            files |-> history[batch[1]].others \cup {Target}])
     \/ UNCHANGED commits
  /\ batch' = Tail(batch)
  /\ UNCHANGED <<history, query, pc, scanned>>

AfterBatch ==
  /\ pc = "flushing" /\ batch = <<>>
  /\ IF Enough \/ ScanLimitReached(scanned)
     THEN LeaveLoop
     ELSE pc' = "walking" /\ UNCHANGED commits
  /\ UNCHANGED <<history, query, scanned, batch>>

Return ==
  /\ pc = "last" /\ batch = <<>>
  /\ pc' = "ok"
  /\ commits' = IF query.mode = "selected" THEN commits ELSE Truncated
  /\ UNCHANGED <<history, query, scanned, batch>>

Next ==
  \/ WalkFails \/ StopWalk \/ Collect
  \/ Look \/ GiveUp \/ AskGit \/ AfterBatch \/ Return

Spec == Init /\ [][Next]_vars

-----------------------------------------------------------------------------
(* The commits a query may look at, and those of them it should return.    *)
Window ==
  {k \in DOMAIN history : /\ query.scan > 0 => k <= query.scan
                          /\ \A j \in 1..k : history[j].time >= query.since}
Hits(last) == {k \in Window : k <= last /\ Target \in ChangedFiles(history[k])}

Ids == {commits[i].id : i \in DOMAIN commits}

InOrder == \A i, j \in DOMAIN commits : i < j => commits[i].id < commits[j].id

(* Types of the variables.                                                 *)
TypeOK ==
  /\ history \in Histories /\ query \in Queries
  /\ pc \in {"walking", "flushing", "last", "ok", "err"}
  /\ scanned \in 0..Len(history)
  /\ batch \in Seq(1..scanned)
  /\ commits \in Seq([id : 1..scanned, files : SUBSET {"other", Target}])

(* The walk returns the newest commits that changed the target, as many as *)
(* asked for, from the commits the bounds admit: the number of jobs, and   *)
(* with it where batches end, does not show.                               *)
OkIsReference ==
  pc = "ok" /\ query.mode = "walk" =>
    /\ InOrder
    /\ \A i \in DOMAIN commits : /\ commits[i].id \in Hits(Len(history))
                                 /\ commits[i].files = ChangedFiles(history[commits[i].id])
    /\ query.max > 0 => Len(commits) <= query.max
    /\ \A k \in Hits(Len(history)) \ Ids :
         query.max > 0 /\ Len(commits) = query.max /\ \A id \in Ids : id < k

(* Every commit git selected comes back, in git's order and naming the     *)
(* target, also a merge that did not change it against its first parent;   *)
(* only a commit neither library nor git can show is missing.              *)
SelectedIsKept ==
  pc = "ok" /\ query.mode = "selected" =>
    /\ InOrder
    /\ \A i \in DOMAIN commits : Target \in commits[i].files
    /\ \A k \in DOMAIN history \ Ids : Unreadable(history[k])

(* The walk reads at most one batch past the last commit it returns, and   *)
(* no commit past its bounds: an error never comes from further away.      *)
NoNeedlessScan ==
  query.mode = "walk" =>
    /\ query.scan > 0 => scanned <= query.scan
    /\ query.max > 0 /\ scanned > BatchSize => Cardinality(Hits(scanned - BatchSize)) < query.max

(* What the reader promises.                                               *)
GixIsReference == TypeOK /\ OkIsReference /\ SelectedIsKept /\ NoNeedlessScan

-----------------------------------------------------------------------------
(* Commits that may belong to the answer: all that were walked, but not    *)
(* the one found too old, which ended the walk.  Those not in the batch    *)
(* any more have been looked at.                                           *)
Collected ==
  IF query.mode = "walk" /\ scanned > 0 /\ history[scanned].time < query.since
  THEN scanned - 1 ELSE scanned
Looked == Collected - Len(batch)

(* The batch holds the newest commits not looked at, in order.             *)
BatchInv ==
  /\ Looked >= 0
  /\ batch = [i \in DOMAIN batch |-> Looked + i]

(* Where the walk is, and what keeps it going or ended it.                 *)
WalkInv ==
  query.mode = "walk" =>
    /\ 1..Collected \subseteq Window
    /\ Collected # scanned => pc \notin {"walking", "flushing"}
    /\ pc = "walking" =>
         Len(batch) < BatchSize /\ ~Enough /\ ~ScanLimitReached(scanned)
    /\ pc = "last" => Window \subseteq 1..Collected

(* What was found among the commits looked at.                             *)
FoundInv ==
  /\ InOrder
  /\ Ids \subseteq 1..Looked
  /\ query.mode = "walk" /\ pc # "ok" =>
       /\ Ids = Hits(Looked) /\ Len(commits) = Cardinality(Hits(Looked))
       /\ \A i \in DOMAIN commits : commits[i].files = ChangedFiles(history[commits[i].id])
  /\ query.mode = "selected" =>
       /\ pc \in {"last", "ok", "err"} /\ scanned = Len(history)
       /\ pc = "ok" => batch = <<>>
       /\ \A i \in DOMAIN commits : Target \in commits[i].files
       /\ \A k \in 1..Looked \ Ids : Unreadable(history[k])

(* The invariant of the reader.                                            *)
ReaderInv ==
  /\ TypeOK /\ BatchInv /\ WalkInv /\ FoundInv
  /\ OkIsReference /\ NoNeedlessScan
=============================================================================
