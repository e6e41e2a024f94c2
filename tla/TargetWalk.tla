------------------------------ MODULE TargetWalk ------------------------------
(***************************************************************************)
(* The pack backend's walk over the history of one file                    *)
(* (pack_visit_target_commits, src/pack/walk.rs) together with the visitor *)
(* of the direct query (pack_direct_for_target_inner, src/pack/query.rs).  *)
(*                                                                         *)
(* A priority queue orders the commits still to look at by time; a commit  *)
(* enters it once.  Every popped commit is compared with its parents at    *)
(* the one path the walk follows at that moment; a commit that touches the *)
(* path is handed to the visitor, and an exact rename found there replaces *)
(* the path for the rest of the walk, on every branch.                     *)
(*                                                                         *)
(* One action is one way through the body of the loop.                     *)
(***************************************************************************)
EXTENDS CommitHistory

CONSTANTS
  Repositories,   \* repositories the walk may be run on
  Queries,        \* option sets: [target, max, since, scan, fast, maxFiles]
  ScanDefault,    \* DEFAULT_PACK_FAST_SCAN_COMMITS
  MinScan,        \* PACK_FAST_MIN_SCAN_COMMITS
  MinTarget,      \* PACK_FAST_MIN_TARGET_COMMITS
  Stall           \* PACK_FAST_STALL_COMMITS

(* max = 0: no bound on selected commits; scan = 0: the default scan bound *)
(* of the latency-bounded walk, no bound otherwise; since = 0: no --since. *)
Query ==
  [ target : Paths, max : Nat, since : Nat, scan : Nat, fast : BOOLEAN,
    maxFiles : Nat \ {0} ]

ASSUME InputsAssumption ==
  /\ Repositories \subseteq Repository
  /\ \A r \in Repositories : r.head \in r.readable
  /\ Queries \subseteq Query
ASSUME LimitsAssumption ==
  /\ ScanDefault \in Nat \ {0}
  /\ MinScan \in Nat
  /\ MinTarget \in Nat \ {0}
  /\ Stall \in Nat \ {0}

VARIABLES
  repo,       \* the repository read; never changes
  query,      \* the options of this query; never change
  path,       \* PackTargetPath.path: the path followed at this point
  heap,       \* the queue: [time, sequence, id]
  seen,       \* ids that have ever been queued
  sequence,   \* number of ids queued after head
  scanned,    \* commits popped
  lastHit,    \* value of scanned at the last selected commit
  picked,     \* selected commits, in order, with the path each was selected at
  pairs,      \* cochanges of every other path with the target
  status      \* "walking", "done" or "error"

inputs == <<repo, query>>
queue == <<heap, seen, sequence>>
results == <<path, lastHit, picked, pairs>>
vars == <<inputs, queue, scanned, results, status>>

HeapItem == [time : Nat, sequence : Nat, id : Commits]

(* Mutant of Before: the queue hands out the oldest commit first.          *)
Before_OldestFirst(a, b) ==
  \/ a.time < b.time
  \/ a.time = b.time /\ a.sequence <= b.sequence

(* The order of the queue: newest first, then first queued first. *)
Before(a, b) ==
  \/ a.time > b.time
  \/ a.time = b.time /\ a.sequence <= b.sequence

ScanLimit == IF query.fast /\ query.scan = 0 THEN ScanDefault ELSE query.scan

-----------------------------------------------------------------------------
(* Mutant of Partners: leaves out the target under its current name only.  *)
Partners_SkipTarget(c, selectedPath) ==
  LET files == ChangedFiles(repo, c)
  IN  IF Cardinality(files) <= query.maxFiles THEN files \ {query.target} ELSE {}

(* The visitor: a commit that changed between 1 and maxFiles files pairs   *)
(* every file but the one it was selected at with the target.              *)
Partners(c, selectedPath) ==
  LET files == ChangedFiles(repo, c)
  IN  IF Cardinality(files) <= query.maxFiles THEN files \ {selectedPath} ELSE {}

Visit(c, selectedPath) ==
  pairs' = [p \in Paths |->
              IF p \in Partners(c, selectedPath) THEN pairs[p] + 1 ELSE pairs[p]]

(* set_path: from here on every branch is searched for the renamed file.   *)
FollowRename_Never(c) == UNCHANGED path      \* mutant: renames are not followed
FollowRename(c) == path' = FollowedPath(repo, c, path)

(* Mutant of LatencyStop: a stall counts before there was any hit.         *)
LatencyStop_StallsAtOnce(scan, hits, last) ==
  /\ query.fast
  /\ scan >= MinScan
  /\ hits >= MinTarget \/ scan - last >= Stall

(* The latency-bounded walk stops early, past MinScan commits, once it has *)
(* enough hits or has had none for Stall commits.                          *)
LatencyStop(scan, hits, last) ==
  /\ query.fast
  /\ scan >= MinScan
  /\ \/ hits >= MinTarget
     \/ hits > 0 /\ scan - last >= Stall

EnoughCommits_OneMore(hits) == query.max > 0 /\ hits > query.max   \* mutant
EnoughCommits(hits) == query.max > 0 /\ hits >= query.max

(* Mutants of FreshParents: parents are queued again; all but the first    *)
(* parent are forgotten.                                                   *)
FreshParents_Again(c) == WalkParents(repo, c, path)
FreshParents_FirstOnly(c) ==
  {i \in WalkParents(repo, c, path) :
     /\ Parent(repo, c, i) \notin seen
     /\ \A j \in WalkParents(repo, c, path) : i <= j}

(* Queue the parents that have never been queued, in order. *)
FreshParents(c) ==
  {i \in WalkParents(repo, c, path) :
     /\ Parent(repo, c, i) \notin seen
     /\ \A j \in WalkParents(repo, c, path) :
          j < i => Parent(repo, c, j) # Parent(repo, c, i)}

PushParents(item) ==
  LET fresh == FreshParents(item.id)
      Queued(i) == [time     |-> repo.time[Parent(repo, item.id, i)],
                    sequence |-> sequence + Cardinality({j \in fresh : j <= i}),
                    id       |-> Parent(repo, item.id, i)]
  IN  /\ heap' = (heap \ {item}) \cup {Queued(i) : i \in fresh}
      /\ seen' = seen \cup {Parent(repo, item.id, i) : i \in fresh}
      /\ sequence' = sequence + Cardinality(fresh)
      /\ UNCHANGED status

StopWith(item, outcome) ==
  /\ heap' = heap \ {item}
  /\ status' = outcome
  /\ UNCHANGED <<seen, sequence>>

-----------------------------------------------------------------------------
Init ==
  /\ repo \in Repositories
  /\ query \in Queries
  /\ path = query.target
  /\ heap = {[time |-> repo.time[repo.head], sequence |-> 0, id |-> repo.head]}
  /\ seen = {repo.head}
  /\ sequence = 0
  /\ scanned = 0
  /\ lastHit = 0
  /\ picked = <<>>
  /\ pairs = [p \in Paths |-> 0]
  /\ status = "walking"

(* heap.pop(): item is the newest queued commit. *)
Pop(item) ==
  /\ status = "walking"
  /\ \A other \in heap : Before(item, other)
  /\ scanned' = scanned + 1
  /\ UNCHANGED inputs

InScanLimit == ScanLimit = 0 \/ scanned + 1 <= ScanLimit
RecentEnough(item) == repo.time[item.id] >= query.since

(* The queue is empty: the whole history has been seen. *)
Drain ==
  /\ status = "walking"
  /\ heap = {}
  /\ status' = "done"
  /\ UNCHANGED <<inputs, queue, scanned, results>>

StopAtScanLimit(item) ==
  /\ Pop(item)
  /\ ~InScanLimit
  /\ StopWith(item, "done")
  /\ UNCHANGED results

(* A commit older than --since ends its line: its parents are not queued.  *)
SkipOld(item) ==
  /\ Pop(item)
  /\ InScanLimit
  /\ ~RecentEnough(item)
  /\ heap' = heap \ {item}
  /\ UNCHANGED <<seen, sequence, results, status>>

FailBoundary(item) ==
  /\ Pop(item)
  /\ InScanLimit
  /\ RecentEnough(item)
  /\ FailsAtBoundary(repo, item.id, path)
  /\ StopWith(item, "error")
  /\ UNCHANGED results

(* A commit that leaves the followed path alone. *)
PassOver(item) ==
  /\ Pop(item)
  /\ InScanLimit
  /\ RecentEnough(item)
  /\ ~Includes(repo, item.id, path)
  /\ IF LatencyStop(scanned + 1, Len(picked), lastHit)
     THEN StopWith(item, "done")
     ELSE PushParents(item)
  /\ UNCHANGED results

(* A commit that touches the followed path: the visitor gets it with the   *)
(* path before the commit's own rename is followed.                        *)
Select(item) ==
  /\ Pop(item)
  /\ InScanLimit
  /\ RecentEnough(item)
  /\ Includes(repo, item.id, path)
  /\ ~FailsAtBoundary(repo, item.id, path)
  /\ picked' = Append(picked, [id |-> item.id, path |-> path])
  /\ Visit(item.id, path)
  /\ lastHit' = scanned + 1
  /\ FollowRename(item.id)
  /\ IF \/ EnoughCommits(Len(picked) + 1)
        \/ LatencyStop(scanned + 1, Len(picked) + 1, scanned + 1)
     THEN StopWith(item, "done")
     ELSE PushParents(item)

(* The walk has returned. *)
Returned ==
  /\ status # "walking"
  /\ UNCHANGED vars

Take(item) ==
  \/ StopAtScanLimit(item) \/ SkipOld(item) \/ FailBoundary(item)
  \/ PassOver(item) \/ Select(item)

Next ==
  \/ Drain
  \/ \E item \in heap : Take(item)
  \/ Returned

Spec == Init /\ [][Next]_vars

-----------------------------------------------------------------------------
(* Every variable has its type. *)
TypeOK ==
  /\ repo \in Repository
  /\ query \in Query
  /\ path \in Paths
  /\ heap \subseteq HeapItem
  /\ seen \subseteq Commits
  /\ sequence \in Nat
  /\ scanned \in Nat
  /\ lastHit \in Nat
  /\ picked \in Seq([id : Commits, path : Paths])
  /\ pairs \in [Paths -> Nat]
  /\ status \in {"walking", "done", "error"}

PickedIds == {picked[i].id : i \in DOMAIN picked}
QueuedIds == {item.id : item \in heap}

(* No commit is selected twice, however many merges lead to it: a second   *)
(* selection would count its co-changes twice.                             *)
NoCommitTwice ==
  \A i, j \in DOMAIN picked : picked[i].id = picked[j].id => i = j

(* What NoCommitTwice rests on: a queued commit is in seen, is queued      *)
(* once, and has not been selected yet.                                    *)
QueueInv ==
  /\ QueuedIds \subseteq seen
  /\ \A a, b \in heap : a.id = b.id => a = b
  /\ PickedIds \subseteq seen
  /\ PickedIds \cap QueuedIds = {}

(* The bounds given on the command line hold: at most max commits are      *)
(* selected, and none after the scan bound.                                *)
BoundsRespected ==
  /\ query.max > 0 => Len(picked) <= query.max
  /\ Len(picked) <= lastHit
  /\ lastHit <= scanned
  /\ ScanLimit > 0 => lastHit <= ScanLimit

(* A walk that goes on has not selected as many commits as it may.         *)
RoomInv == status = "walking" /\ query.max > 0 => Len(picked) < query.max

(* A queued commit carries its own time, and with honest clocks it is no   *)
(* newer than any commit selected so far.                                  *)
OrderInv ==
  \A item \in heap :
    /\ item.time = repo.time[item.id]
    /\ TimesFollowAncestry(repo) =>
         \A i \in DOMAIN picked : item.time <= repo.time[picked[i].id]

Unbounded == query.max = 0 /\ query.since = 0 /\ query.scan = 0 /\ ~query.fast
NeverRenamed == path = query.target /\ \A i \in DOMAIN picked : picked[i].path = query.target

(* Without bounds and renames the selected commits are exactly those of    *)
(* the simplified history that touch the target, whatever the clocks of    *)
(* the committers said: commit times change the order only.                *)
SkewIndependent ==
  status = "done" /\ Unbounded /\ NeverRenamed =>
    PickedIds = TouchingCommits(repo, query.target)

(* The commits selected under the target's own name, and where the path    *)
(* was replaced by that of another file.                                   *)
PickedAsTarget == {picked[i].id : i \in {j \in DOMAIN picked : picked[j].path = query.target}}
RenamedAt(i) == FollowedPath(repo, picked[i].id, picked[i].path) # picked[i].path

(* With honest clocks, --since and --max-commits keep the newest commits:  *)
(* one that touches the target and is recent enough is left out only when  *)
(* max commits at least as new were selected, or below a rename, which is  *)
(* followed on all branches at once: it hides no newer commit of another   *)
(* branch.                                                                 *)
BoundedKeepsNewest ==
  status = "done" /\ query.scan = 0 /\ ~query.fast /\ TimesFollowAncestry(repo) =>
    \A c \in TouchingCommits(repo, query.target) :
       repo.time[c] >= query.since =>
         \/ c \in PickedAsTarget
         \/ /\ query.max > 0 /\ Len(picked) = query.max
            /\ \A d \in PickedIds : repo.time[d] >= repo.time[c]
         \/ \E i \in DOMAIN picked : RenamedAt(i) /\ repo.time[picked[i].id] >= repo.time[c]

(* With honest clocks commits are selected newest first, renames or not;   *)
(* the direct query dates its decay from the first one.                    *)
PickedNewestFirst ==
  TimesFollowAncestry(repo) =>
    \A i, j \in DOMAIN picked :
       i < j => repo.time[picked[i].id] >= repo.time[picked[j].id]

(* The selected commits whose co-changes count for p: those that changed p *)
(* and no more than maxFiles files, p not being the name followed there.   *)
PairedAt(p) ==
  {i \in DOMAIN picked :
     /\ Cardinality(ChangedFiles(repo, picked[i].id)) <= query.maxFiles
     /\ p \in ChangedFiles(repo, picked[i].id)
     /\ p # picked[i].path}

(* What is counted are the co-changes of the selected commits, once each.  *)
CochangeAccounting == \A p \in Paths : pairs[p] = Cardinality(PairedAt(p))

(* What every step keeps: the types, the queue, the bounds and the order.  *)
IInv ==
  TypeOK /\ QueueInv /\ NoCommitTwice /\ RoomInv /\ BoundsRespected /\ OrderInv
    /\ PickedNewestFirst /\ CochangeAccounting

Popped == seen \ QueuedIds
TooOld(c) == repo.time[c] < query.since
Full == query.max > 0 /\ Len(picked) = query.max
CutShort == (ScanLimit > 0 /\ scanned > ScanLimit) \/ (query.fast /\ picked # <<>>)

(* As long as no rename was followed, the walk stays in the simplified     *)
(* history of the target, selects only commits that touch it, and from a   *)
(* commit it has popped it has gone on to all commits it should, unless    *)
(* that commit is too old or the last one that was asked for; what it      *)
(* popped and touches the target is selected.                              *)
ReachInv ==
  /\ picked = <<>> => path = query.target
  /\ repo.head \in seen
  /\ NeverRenamed =>
       /\ seen \subseteq SimplifiedHistory(repo, query.target)
       /\ \A c \in PickedIds : Includes(repo, c, query.target)
CoverInv ==
  NeverRenamed /\ status # "error" /\ ~(status = "done" /\ CutShort) =>
    /\ \A c \in Popped :
         /\ \/ TooOld(c)
            \/ \A i \in WalkParents(repo, c, query.target) : Parent(repo, c, i) \in seen
            \/ status = "done" /\ Full /\ c = picked[Len(picked)].id
         /\ Includes(repo, c, query.target) /\ ~TooOld(c) => c \in PickedIds
    /\ status = "done" => heap = {} \/ Full

(* With honest clocks a rename is followed only when every newer commit    *)
(* that touches the target has been selected.                              *)
RenamedInv ==
  ~NeverRenamed /\ query.scan = 0 /\ ~query.fast /\ TimesFollowAncestry(repo) =>
    \A c \in TouchingCommits(repo, query.target) :
       \/ TooOld(c)
       \/ c \in PickedAsTarget
       \/ \E i \in DOMAIN picked : RenamedAt(i) /\ repo.time[picked[i].id] >= repo.time[c]

(* On a chain at most one commit is queued, and the names the walk went by *)
(* are those the file had: they can be put together to one naming of it.   *)
NamedSoFar(name) ==
  /\ name[repo.head] = query.target
  /\ \A item \in heap : name[item.id] = path
  /\ \A c \in Popped : \A i \in DOMAIN repo.parents[c] :
       /\ Parent(repo, c, i) \in seen
       /\ name[Parent(repo, c, i)] = FollowedPath(repo, c, name[c])
  /\ {picked[i] : i \in DOMAIN picked} =
       {[id |-> c, path |-> name[c]] : c \in {d \in Popped : Includes(repo, d, name[d])}}
LineageInv ==
  Unbounded /\ IsLinear(repo) =>
    /\ status # "error"
    /\ seen \subseteq Ancestors(repo)
    /\ \A a, b \in heap : a = b
    /\ heap # {} => \A c \in Popped : Len(repo.parents[c]) = 1
    /\ status = "done" => heap = {}
    /\ \E name \in [Commits -> Paths] : NamedSoFar(name)

(* What the comparisons with the history rest on, besides IInv.            *)
HistoryInv == ReachInv /\ CoverInv /\ RenamedInv /\ LineageInv

(* The inductive invariant of the walk.                                    *)
WalkInv == IInv /\ HistoryInv

(* The latency-bounded walk never gives up empty-handed because it stalled *)
(* or looked at enough: with honest clocks it selects nothing only when    *)
(* nothing recent enough touches the target or the scan bound is reached.  *)
NoEarlyGiveUp ==
  status = "done" /\ picked = <<>> /\ TimesFollowAncestry(repo) =>
    \/ ScanLimit > 0 /\ scanned > ScanLimit
    \/ \A c \in TouchingCommits(repo, query.target) : repo.time[c] < query.since

(* On a chain of commits an unbounded walk selects exactly the commits     *)
(* that touch the file under the name it had at the time, across exact     *)
(* renames.                                                                *)
FollowsLineage ==
  status = "done" /\ Unbounded /\ IsLinear(repo) =>
    {picked[i] : i \in DOMAIN picked} =
      {e \in Lineage(repo, query.target) : Includes(repo, e.id, e.path)}

(* The history of the file, with the name it had in each commit: on a      *)
(* chain its lineage, else what touched it under its one name.             *)
FileHistory ==
  IF IsLinear(repo)
  THEN {e \in Lineage(repo, query.target) : Includes(repo, e.id, e.path)}
  ELSE {[id |-> c, path |-> query.target] : c \in TouchingCommits(repo, query.target)}

(* The commits of that history that changed p beside the file, and no more *)
(* than maxFiles files.                                                    *)
Companions(p) ==
  {e \in FileHistory :
     /\ p \in ChangedFiles(repo, e.id) /\ p # e.path
     /\ Cardinality(ChangedFiles(repo, e.id)) <= query.maxFiles}

(* An unbounded query counts for every other file the commits of the       *)
(* file's history that changed both, each once.  A name that the file bore *)
(* itself, that of the target included, is its companion only where        *)
(* another file bore that name while it had a different one.               *)
CompanionsAreHistory ==
  status = "done" /\ Unbounded /\ (IsLinear(repo) \/ NeverRenamed) =>
    /\ \A p \in Paths : pairs[p] = Cardinality(Companions(p))
    /\ \A e \in FileHistory : pairs[e.path] > 0 =>
         \E d \in FileHistory : d.path # e.path /\ HasFile(repo, d.id, e.path)
=============================================================================
