# Formal models of `related`

`related` answers "which files usually change together with this one" from a
repository's Git history, and audits a change for files it may have omitted.
This directory holds TLA+ models of its parts, configurations that check them
with TLC, and theorems about them proved with TLAPS.

## The system

| part | code | state it keeps | operations and interactions |
|---|---|---|---|
| commands | `src/commands/` | one run: options, backend, answers, hints | parse options, pick a backend, collect paths, query each seed, merge or aggregate, print, exit code |
| engine | `src/engine.rs` | `config.backend`, which a fallback rewrites | dispatches a query to a backend; retries it with git when pack-fast fails |
| pack walk | `src/pack/walk.rs` | queue, seen set, followed path, counters | walks the commit graph for one file, newest first, following exact renames |
| pack query | `src/pack/query.rs`, `tree.rs` | co-change counts per path | visitor of the walk; diffs each selected commit; scores collected commits in chunks |
| pack store | `src/pack/store.rs`, `objects.rs` | pack indexes and maps, four bounded caches | finds and inflates objects, resolves delta chains |
| git history | `src/history/git_cli.rs`, `parsers.rs` | results of a thread pool, commits by hash | builds git commands, parses their output, expands commits in chunks or in parallel, shares them between targets |
| gitoxide | `src/history/gix_reader.rs` | a batch of commits | tests commits in parallel, keeps them in order, looks at limits between batches |
| git subprocess | `src/git_utils.rs` | a child process, two reader threads, three pipes | writes git's input, drains its output within limits, waits, decides; composes the changed paths of a worktree from two diffs |
| audit aggregation | `src/audit.rs`, `ranking.rs` | candidate per path | sums seeds, classifies, orders, filters, truncates |
| graph | `src/graph.rs` | co-change graph | direct and PageRank ranking, evidence of a pair, resolution of names |
| evaluation | `src/evaluation/` | query cache over the training window | rename canonicalisation, leave-one-out tasks, metrics |
| paths | `src/path_utils.rs`, `filters.rs` | none | names typed by the user, patterns of `--exclude` |
| installer | `npm/bin/install-skill.js`, `scripts/install_skill.sh` | directories on disk | copy aside, rename old away, rename new in, clean up |

What is hard here, and hard to test:

* **Deadlock of a bounded subprocess.** Caller, two threads and git share
  three pipes of limited size; each may block the others.
* **Order of a graph walk.** Clocks of committers are arbitrary; merges reach a
  commit several ways; one followed path is shared by all branches; five
  different bounds may stop the walk.
* **Partial failure.** Any seed of an audit may make the backend fall back,
  and the change of backend outlives the seed.
* **Bounds before filters.** Results are truncated at several places before
  they are filtered.
* **Shared and batched reads.** Readers split work over threads, share commits
  between targets and look at bounds only between batches; none of this may
  show in an answer.
* **Names through time.** Renames reach the walk, the followed histories, the
  training window of an evaluation and the two diffs of a worktree, each with
  its own code to join them.
* **Files in place.** The installer replaces a directory with renames; it may
  be killed between any two, fail at any, or meet another installer.

`PROJECT.json` lists these hazards one by one, each with its line and the
properties that would catch it going wrong.

## Modules

### `CommitHistory`: repositories and what a walk asks of them

A repository is a record: head, parents (in order), commit times, a tree per
commit (a function from path to entry or `Absent`), and the commits that can be
read. `Includes`, `WalkParents`, `FollowedPath` and `FailsAtBoundary` are
`pack_path_history_decision` as operators; `ChangedFiles` is the tree diff.
`SimplifiedHistory`, `TouchingCommits` and `Lineage` are reference definitions
that know neither a queue nor clocks; what the walk selects (`SkewIndependent`, `FollowsLineage`) and what
its visitor counts (`CompanionsAreHistory`) is compared with them.

Abstracted: paths are atoms, so the component-wise descent and its caches
become a lookup in the tree; entries (mode and object id) are model values.

### `TargetWalk`: `pack_visit_target_commits` and the direct query's visitor

| variable | code |
|---|---|
| `heap`, `seen`, `sequence` | the binary heap of `PackWalkItem`, the hash set, the sequence counter |
| `path` | `PackTargetPath.path`, rewritten by `set_path` |
| `scanned`, `lastHit`, `picked` | `scanned`, `last_hit_scan`, the visits (`selected` is their number) |
| `pairs` | `cochanges` of `PackDirectPairStat` per path |
| `status` | running, returned, or returned with an error |

An action is one way through the loop body: `StopAtScanLimit`, `SkipOld`,
`FailBoundary`, `PassOver`, `Select`; `Drain` is the empty heap. `repo` and
`query` are chosen in `Init` and never change, so one run covers every
repository and query of a family. Scores and evidence are not modelled.

### `GitCall` and `GitProcess`: `run_git_bounded`

`GitProcess` has one action per blocking operation of the caller (`Spawn`,
`WriteInput`, `DropStdin`, `Wait`, `JoinStdout`, `JoinStderr`, `Decide`), of a
reader thread (`Read` of any number of units, `ReadEnd`, `ReadFails`) and of
git. Bytes are counted in units. Git is external: it has an amount to write to
each pipe, heeds its input or not, and may die at any time; a process it leaves
behind that keeps its pipes open is excluded, since nothing in the code bounds it.

`GitCall` is what callers rely on: a call has one answer, and "ok" carries the
whole output of a successful git that was given its whole input.
`GitProcess!Call` instantiates it with a refinement mapping.

### `Aggregation` and `AuditRun`: `related audit`

`Aggregation` is `src/audit.rs` as operators over sets of results.
`AuditRun` is the command with the backend configuration and fallback of
`src/engine.rs`, from option checks to exit code. What a backend finds for a
path is chosen in `Init` (`world`), including that it cannot read the
repository; a path that fails with pack-fast may succeed with git.

Abstracted: scores are naturals, evidence and text are left out; the seven
backends that behave alike in fallback and coverage are one, `"Gix"`.

### `PackStore`: the object store of the pack backend

The recursion of `find_object_at_delta_depth` and `find_pack_object_at_depth` is
a stack of frames; `step` says how far a frame's call has come, `ret` is what an
inner call just returned. Between any two steps other git processes may delete
a pack or a loose file or write a loose file.

| variable | code |
|---|---|
| `objects`, `offsets`, `trees`, `commits` | the four caches; `held` is the map and `bytes` the counter beside it |
| `mapped` | `pack_maps` |
| `repo.slots`, `repo.visible` | the packs behind `indexes`, and `loose_prefixes` as the set of ids whose directory existed at opening |
| `loose`, `present` | the files there are now |
| `stack`, `ret` | the Rust call stack of one request |
| `ask`, `answer` | the request (commit, subject, tree entries or tree child) and its result |

Each action is one step of a call: `HitObject`, `LookForFile`, `ReadLoose`,
`LooseFails`, `GoToPack`, `NotFound`, `TakePacked` for an id; `HitOffset`,
`MapPack`, `MapFails`, `ReadFull`, `ReadDelta`, `ReadFails`, `ApplyDelta` for a
slot; `Finish` and `WrongKind` end the request, `Fork` is `fork_empty`.

Abstracted: an object's content is its id, a delta applied to anything but the
object it was made against yields `Garbage`; the byte layout of indexes, packs
and deltas, and commits and trees that do not parse, are left out; so are packs
whose bytes do not hash to the names their index gives them, which the code
does not check. The length of
an object stands for the size of its tree entries too. `due` is auxiliary: it
remembers that the object was within reach when it was asked for.

### `RayonPool`, `ParallelBatch`, `FollowedBatch`, `HistoryReaders`: `src/history/git_cli.rs`

`RayonPool` is what the callers rely on in rayon (external): items are taken by
a bounded number of threads, end in any order, and may be skipped after a
failure. `ParallelBatch` cuts the selected commits into chunks
(`ChunkSize`, `From`, `To`), reads each with one git (`Expand`) and appends the
results in the order of the chunks (`AppendChunk`), or refuses as a whole
(`Refuse`). `FollowedBatch` follows each target (`Follow`), gathers the commits
of all of them once (`Gather`), shows them in chunks of `HASH_CHUNK_SIZE`
(`Show`, where git may leave out a commit) and hands every target its own copy
with its old names replaced (`Deliver`). `HistoryReaders` puts these two and `GixBatch` together: the dispatch of
`src/engine.rs` chooses one of them.

| variable | code |
|---|---|
| `work` | the pool's items |
| `appended`, `commits` | the sorted results and the vector they are moved to |
| `histories`, `hashes`, `shown`, `results` | `histories`, `unique_hashes` in order, `commits_by_hash`, the answer per target |

### `GixBatch`: `src/history/gix_reader.rs`

`Collect` is one round of the walk, `Look` one commit of a batch, `AfterBatch` the
test of the limits, `Return` the truncation; `GiveUp` and `AskGit` are the two
reactions to a commit that cannot be read. Whether a commit changed the target
is decided by the entries in it and its first parent; trees are not descended,
and the pool of a batch shows only in the batch's size, because looking at a
commit changes nothing.

### `DirectScoring`: five ways to score the same commits

`git` and `pack` are the accumulators of the two streaming readers, one `Count` per
commit; `Direct`, `GraphData`, `Serial` and `Parallel` are the readers that have
the commits at once. Weights are integers: `Decayed` gives the weight of a commit by its age, of which only is
known that it falls by the same factor in equal times (a half-life of any length, or none); the
share of a commit by its number of files is a constant. Scores are compared by
cross multiplication. PageRank is left out.

### `TreeDiff`, `LogFraming`, `PathRules`: algorithms on data

`TreeDiff` is the merge of two sorted trees, with git's order of names, the limit of
files and of depth, and the look-up of a name. `LogFraming` is the iterator over
`git log -z` and its three parsers, on bytes, with everything they refuse: a header that is no text, ends early,
has no number for a time or no hash in hexadecimal, a status that is unknown or lacks its paths, a path that is
no text. `PathRules` is the resolution of a name, the empty one refused, and the wildcard matcher. `Commit`/`Merge`, `Emit` and
`More...` only provide inputs. Each is compared with a definition that knows nothing of
the way the code goes: the set of paths that differ, the commits printed, all the
ways to split a text.

### `RelatedDiff`, `Explain`, `OmissionEval`, `Commands`: the other commands

`RelatedDiff` asks for each changed file (`QueryTarget`, `QueryFallback`, `QueryFails`),
merges results and evidence as `merge_diff_result` does, and shows what is left
after the exclusions (`Show`); `related query` is the case of one file. `Explain` builds the graph from the first
file's history, looks both names up, and answers with the pair; between questions
the repository gets commits. `OmissionEval` goes through the held-out commits
(`NextCommit`), asks every seed once (`Ask`, with its cache) and counts each task
(`Evaluate`); it extends `Aggregation`, so that it is compared with the aggregation
the audit uses. Scores there are numbers of co-changes. `Commands` composes the three: a process runs one
of them. What is sorted and cut in the code is stated by rank (the n-th has n - 1 before it).

A commit of a diff has a time, an offset and a hash. The evidence of a query is in the order of the log
(`FirstOf`); merging sorts by the text of the dates (`Sooner`: the local time, then the offset, of which `+`
sorts before `-`, then the hash). The two orders differ when clocks are skewed or zones differ, and the model
keeps both.

### `WorktreePaths`: `git_worktree_audit_paths`

HEAD, index and worktree are functions from paths to contents; the user stages and
writes between two audits. git's rename detection is external: any pairing of
deleted with added paths of one content. `Compose` is the loop that rewrites a
staged entry when the unstaged diff renames it again, `OnePerPath` the sort and
dedup at the end. Similarity below 100 % and
the three git processes running at different moments are left out.

### `InstallSkill`: `npm/bin/install-skill.js`

Every file operation is an action of its own, so that a kill (`Crash`) or another
installer can come between any two; `Throw`, `Catch`, `Restore` and `Finally` are the
code's error path. A directory holds nothing, one complete version, or is
"partial". `rename(2)` replaces an empty directory and nothing else.

## What the runs check

| run | question | instance |
|---|---|---|
| `walk` | Does the walk select each commit once, whatever the clocks; do bounds and renames cost no newer commit; are renames and co-changes attributed to the right commits; does a stall ever end it empty-handed? | 4 commits: a diamond and a crossing merge with every content of two files, honest/equal/skewed clocks, unbounded, `--max-commits 2`, `--since`; a chain with every content of three files in three commits, complete or shallow; one file with scan bounds 0..3 and early-stop limits of 2; `--max-files 2` |
| `git_process` | Can the call deadlock, return a prefix, fail without cause, or return with git running? | pipe of 2, limits 2 and 1, output up to 3 per pipe, input of 3 |
| `audit_run` | Does the exit code tell the findings; is a changed file, its old name or an excluded file ever suggested; is a fallback visible; is anything lost within the bounds? | two seeds, one possibly renamed, five paths, per-seed bounds 2, four backend choices, all threshold orders |
| `audit_coverage` | Does `history_coverage` describe the actual audit? **No.** | as `audit_run` |
| `store_deltas` | Is every read bounded and answered on malformed packs; is every chain within the limit read; is nothing but the object asked for ever cached? | every mixture of full objects, deltas by offset (itself included) and by id, unreadable slots, loose and corrupt files; limit of 2 deltas; two requests |
| `store_gc` | Does the store find what is there while other processes change the files; do the caches keep to their bounds when emptied in the middle of a chain? | sound layouts of three objects of length 1, 2, 4 in two packs and a cycle over ids; at most two objects and 5 bytes, one tree, one commit; two deletions or writes at any moment of two requests |
| `history_readers` | Do chunks, threads, shared reads and batches show in an answer; does every reader answer? | seven commits in four chunks for four threads; three targets that share commits and swap names, two threads, chunks of two; five commits in batches of two or three, each changed, unchanged, unreadable or cut off, with every bound around the end of a batch |
| `installer` | Is the destination ever half a skill; is the last complete version ever lost; how does an installer that works alone end? | three installers of two versions over none, the same or another version: overlapping, or one after another with removals that fail |
| `worktree_paths` | Is every change listed once, with the history of its name in HEAD? | every HEAD, index and worktree of three paths and two contents, with `git add --intent-to-add` |
| `worktree_reuse` | Is the HEAD path preserved through two renames? **Not onto a name that was deleted.** | as `worktree_paths` |
| `commands` | Does the evaluation measure the audit and never see the future; does a diff with `--exclude` show what all files together say, its evidence what one cut at the end would keep; is a pair explained with all its commits? | 72 logs of six commits over five names; every history of up to three commits of eight kinds over five files with clocks and zones that agree, that tie and that do not, one to three files changed, the pack reader failing at any; every pair of names in every history of three commits over two files and two namesakes |
| `algorithms` | Do scoring, tree diff, log framing and path rules compute what their definitions say? | every history of three commits of six kinds, three times and two zones, one of them west; 48 trees in pairs over names that sort around a directory, two limits, a limit of depth; logs of up to three commits with paths and subjects that look like separators and statuses or are no UTF-8 text, and a commit without a date; patterns of 4 on paths of 5 characters, names of up to 5 components, the empty one included |

A process answers a query with one reader and runs one command, so
`history_readers`, `commands` and `algorithms` each compose several modules of
which one runs, chosen at the start, while the others rest; an invariant of such a
run speaks of the module that runs and is the conjunction of that module's named
properties, its type invariant among them. `installer` likewise chooses between
overlapping installers and installers in a row.

The bounds are the smallest at which the interesting case happens: four commits
give a merge whose parents share an ancestor and a commit reachable by two
paths of different length; three files and two blobs give renames that are
unambiguous, ambiguous, undone, or onto a name used before; input longer than a
pipe plus output longer than a pipe gives every cyclic wait; limits 2 and 1
with output 3 put the output below, at and above each limit and let a single
read cross it; a per-seed bound of two with four results puts truncation in
play. Thresholds 2 and 3 stand for 2 and 25, the limits of the
latency-bounded walk (1,000, 256, 5,000, 17,500) are 2 and 3, the batches of 256
commits and 64 per job are 2 and 1, the chunk of 512 hashes is 2 and the depth of trees 1.
A last chunk of one commit, an uneven number of chunks per thread and a bound one
commit before, at and after the end of a batch all occur.

### Two findings

`history_coverage` is computed from the configuration as the last seed left it.
When pack-fast answers the first seed and fails at the second, the audit is
reported as `target-window-exact`, not approximate, though the first seed's
candidates come from the bounded walk. `docs/json-output.md` says it describes
the actual audit. The hint "pack-fast could not read this repository" is there
(`FallbackVisible`), but suggests that all seeds were answered by git.

`git_worktree_audit_paths` means to preserve the HEAD path of a file renamed twice. After
`git rm c; git mv a b; mv b c; git add -N c` the staged deletion of `c` and the
composed entry "`c`, history in `a`" have one path; the dedup keeps the deletion, and the
history of `a` is not asked for (`HeadPathPreserved`). As long as no
deleted name is used again, `HeadPathOfNewNames` holds.

### Noted, not stated as a property

Where the models and the code disagree with what one might expect, without a run:

* After an exact rename the direct query leaves out only the name followed at
  each commit (`pack/query.rs:234`). If the target's current name belonged to
  another file earlier, and both changed in one commit, the target is listed as its own companion.
  Nothing in the repository says otherwise. `audit` drops it (it is a changed path). `CompanionsAreHistory` says that
  this is the only way it gets there.
* A loose file deleted between `is_file` and `open` (`pack/store.rs:255`) is an error even when a pack
  holds the object; the engine then falls back to git. And a delta chain longer
  than the limit is refused or read depending on what the caches hold.
* A pack query that collects its commits dates the decay by the first one selected even
  if it is not counted (`pack/query.rs:357`), git by the newest it counts: weights differ by a factor,
  ranks do not (`SameRanking` compares ranks). `last_seen` is the greatest text for the git readers
  (`graph.rs:149`) and the greatest instant for the pack reader (`pack/query.rs:239`): in two time zones they differ.
  The tests that compare the backends have neither case.
* A name given up and taken back in the training window of an evaluation leaves two
  aliases that lead to each other (`evaluation/history.rs:80`) and is counted as two files; `ChainsAreJoined`
  is stated for names that are not taken back.
* The second file of `explain` is looked for among the namesakes in the first one's
  graph before it is known to be tracked (`graph.rs:434`, `graph.rs:448`): a tracked `c` that never changed with
  the first file is answered about as `docs/c`. `FirstFileIsExact` holds of the first file only.
* `diff` sorts merged evidence by the text of its dates (`commands/diff.rs:108`), which are local times with their
  offset (`git_cli.rs:17`, `parsers.rs:339`): with two zones or skewed clocks a cut may keep an older commit and drop a
  newer one. `EvidenceIsNewest` therefore speaks of the text, and of the log only under `DatesFollowLog`. Nothing
  in the repository says which commits evidence is.
* One path that is no UTF-8 text, or one commit without a date, refuses the whole output of `git log` (`path_utils.rs:27`,
  `parsers.rs:145`), not only its commit; the error for a path says that it is not supported.
* Of a git that stops reading its input and fails, `run_git_bounded` may report the broken pipe and not what git
  said (`git_utils.rs:61`). Nothing says which of two errors is to be reported; `ErrorHasCause` accepts both.
* Without `--exclude`, `diff` cuts each file's results before it merges them (`commands/diff.rs:48`), so
  that a companion of several files, the best of none, is lost; `CutOnlyLowers` says what stays true.
* A gitoxide walk fails on an unreadable commit of the batch in which it ends, so a larger `--jobs`
  can fail where a smaller one answers (`gix_reader.rs:164`); `NoNeedlessScan` bounds how far away such a commit can be.
* `git_show_commit_for_target` passes the target as a pattern (`git_cli.rs:603`).
* Two overlapping installers and a removal that fails halfway can put back a partial directory
  (`install-skill.js:132`); `DestWhole` excludes one or the other.
* The staged diff, the unstaged diff and the untracked files of a worktree are read by three
  git processes one after the other (`git_utils.rs:155`); a file staged in between is in neither diff.

## Fairness

`TargetWalk`, `AuditRun`, the commands and the algorithms are sequential and are checked for
safety only, the installer too: a process may be killed at any time, so nothing obliges it to end.
`PackStore` assumes that the thread that reads goes on reading (`WF` of `Read`):
it runs on the caller's thread and never waits for anyone.
The history readers assume that some step is taken while one can be (`WF` of the next-state relation):
the pool's threads take the items, every git they start is ended by `run_git_bounded`
(which is what `Answered` of `git_process` shows), and the caller goes on when the pool has returned.
`GitProcess` needs liveness of its parts: the operating system runs every thread that is not
blocked (`WF` of the caller's and the readers' steps), and a git that is not
blocked goes on writing, reads the input it heeds and exits when it is through.
Nothing is assumed of failures: `GitFails`, `ReadFails` and `SpawnFails` have no
fairness. In the code a blocked `write`, `read` or `wait` is woken by the kernel
when its condition holds; that is weak fairness.

## What is proved

| module | theorems hold for |
|---|---|
| `QueryProofs` | every repository, query, limit and number of commits (walk); every history, decay, share and number of jobs (scores) |
| `GitProcessProofs` | every pipe size, limit and amount of input and output |
| `CommandsProofs` | every set of command lines and of answers the backends may give (audit); every log, option, history and list of changed files (eval, diff); every set of paths and every sequence of commits and questions (explain) |
| `PackStoreProofs` | every object directory, sound or not, cache bound and delta limit |
| `HistoryReadersProofs` | every list of commits and number of jobs; every repository and list of targets; every history, query and size of a batch |
| `WorktreePathsProofs` | any number of paths and contents, any pairs git takes for renames |
| `InstallSkillProofs` | any number of installers |
| `FiniteSetFacts` | lemmas only: what the proofs above share |

Nothing is assumed but the named assumptions of the modules on their constants,
which TLC evaluates in the runs.

Induction over data is out of the prover's reach as the library states it (with a
predicate as a parameter), so `FiniteSetFacts` states it with sets: a set of numbers
that holds 0 and with each number the next holds all of them, and a nonempty set of
finite sets has a least member (`WellFoundedInduction` under strict inclusion). From
these it proves that a finite set can be ranked by a strict order and the best `k`
kept, that a set of numbers can be listed in order, and that a sum over a set is the
sum over the rest plus one member, whichever (`SumWithoutOne`, `SumOfOneMore`): the folds of the library satisfy these equations. Where a definition is a
recursive function (`Reachable`, `Composed`), its proof module first shows that the
function exists, step by step of its domain, and so satisfies its equation.

* **Walk.** `IInv` is the conjunction of the types, `QueueInv` (a queued commit
  is in `seen`, is queued once and has not been selected), `NoCommitTwice`,
  `RoomInv` (a running walk has room for one more commit), `BoundsRespected`,
  `OrderInv` (a queued commit carries its own time and, with honest clocks, is no
  newer than a selected one), `PickedNewestFirst` and `CochangeAccounting`.
  `NoCommitTwice` alone is not inductive: a selected commit could be in the
  queue; `QueueInv` excludes that, because parents are queued only if not in
  `seen` and every selected or queued commit is in it. `BoundsRespected` needs
  `RoomInv`, `PickedNewestFirst` needs `OrderInv`. The proof has one lemma per
  part, each with a step per action.
* **Walk and history.** `WalkInv` adds `HistoryInv`, which is what TLC checks in `walk`.
  The references in `CommitHistory` are least closed sets, so that the proof needs
  no induction over the graph: `ReachInv` says that all the walk has seen lies in the
  simplified history (which is closed, and the walk only follows its rule), and
  `CoverInv` that at the end what it has popped is closed again, so that the
  history lies in it (leastness), unless a bound cut it short. Together they give
  `SkewIndependent`, whatever the clocks. `BoundedKeepsNewest` and `NoEarlyGiveUp` add
  `OrderInv`: a touching commit that was not reached has a queued ancestor on the way, no
  older than it. The same at the moment a rename is followed gives `RenamedInv`: one path is followed on all
  branches, but what a branch loses by it is no newer than the rename. `LineageInv` carries, for a chain of commits, one naming of the
  file that agrees with every name the walk went by; at the end it is the only
  one, hence `FollowsLineage`. `CompanionsAreHistory` needs both references: by `CochangeAccounting` a count is
  a number of selections, no two of one commit, and the selections are the file's history.
* **Git call.** `IInv` adds `FlowInv` (kept + in the pipe = written, unless
  something was dropped, and then more than the limit was written) and
  `CallerInv` (the caller passes `wait` only when git is gone, and reaches
  `decide` only when both readers have ended). `OkIsComplete` follows: at
  `decide` the pipe is empty, nothing was dropped, and a git that succeeded has
  written all of it. `RefinesCall` shows that each step is a step of
  `GitCall` or leaves its variables alone.
* **Audit.** `IInv` ties every recorded answer to the backend that gave it
  (`AnswersInv`), says that a backend other than the requested one is git, was not chosen against
  an explicit wish and has left a hint (`FallbackInv`), and that the report is the aggregation
  of the answers (`ReportInv`). What a report says is then a matter of the aggregation alone:
  its candidates come from the answers, which hold eligible paths only (`OnlyOmissionsSuggested`);
  `compare_candidates` is a strict total order that puts the most confident first, so `--top` cannot
  hide the last candidate that reaches the threshold (`ExitCodeTellsFindings`); and answers that did
  not run into the bound per seed are the unbounded ones (`NothingHiddenWithinBudget`). For the
  order, sums of shared commits must be numbers, which is where the sums of `FiniteSetFacts` are
  needed. Of the answers it is assumed that they are finite sets of results (`WorldsAssumption`).
* **Evaluation.** `EvalInv` ties the remembered answers to training (`NotStale`), the counts of tasks to the files
  of the commits (`EvalTypeOK`) and the rows to the totals (`RowsExplainTotals`). That a task is what an audit would show
  (`EvalIsAudit`) is a fact about `compare_candidates`: confidence comes first in it, so the best of those
  above a confidence are those of the best that are above it (`FilterAndCutCommute`). `ChainsMeet` shows that the old and the new
  name of a rename end in one name: the walk along the aliases from the old name is the one from the new name one step later, and
  it cannot come back while no name is taken back, so it has stopped after as many steps as there are aliases. Of the logs it is assumed that they hold
  finite sets of files and more commits than are held out (`EvalAssumption`).
* **Diff.** `AggregateInv` says after each file what is known of every path: with `--exclude` the number of the reasons
  found so far (`Found`) and the evidence they give, without never more than there are. Merging keeps it since the pairs of a changed file and a commit
  are counted once (git prints a path once: `DiffAssumption`) and the latest of what two lists kept of their sets are the latest of
  both (`LatestOfLatest`); the order of the files then does not matter. `truncate_top`, `FirstOf` and `LatestOf` are shown to be
  the rankings of `FiniteSetFacts`; that `Sooner` is a strict total order rests on hashes that differ (`DiffAssumption`),
  since the text of two dates may be the same. Where the dates follow the log, the order of the log refines that of the dates, so that
  what each file's query cut off is no later than what it kept.
* **Explain.** The answer is determined by the commits, so the invariant (`ExplainCore`) is that it is the answer to what was asked.
  `PairIs` goes through the log once: the count is that of the commits that show the pair, and the evidence, which is
  kept while there is room, is the newest of them. That the other order of the names gives the same follows
  when neither history is cut: both then count the commits that changed both files.
* **Object store.** `RightContent` is not inductive: what is inserted comes from
  a call that returned. `CallsLinked` says that each call waits for the next one
  in and that what was returned is the content the caller waits for; a call for
  a base then yields the object the delta was made against, so that applying it
  yields the slot's own. `DepthInv` bounds a call's place in the stack by its
  depth, which gives `StackBounded`. One lemma says what each way of going on
  (to the next step, into a new call, back to the caller) does to these, one
  what an insertion does to a cache; the step lemma combines them per action.
  Of the packs it is assumed that an index names what its slots hold and that a
  delta names an offset no later than its own, or an id; they may be cyclic, and
  any slot or file may be unreadable.
  `StoreInv` adds what the bounds and the search rest on; TLC checks it in `store_deltas`.
  `CachesBounded` needs that a cache fits by what it counts (`CountsFit`), and that nothing is
  inserted a second time, which would count twice: `InsertedOnce`, and
  under it `CallsDiffer`. The lookup is deterministic, so a key that
  repeats among the calls leads to the same calls again until the depth ends them: calls
  that return are for different keys, none of them cached. This holds while no
  file changes; after that, only what is held is bounded.
  `ReadableIsFound` needs `WithinReach`: the innermost call can be answered with the
  deltas it has left. Deletions, and files that cannot be read, end the promise (`due`); a cache,
  a map or a new file only adds ways to an object.
* **Parallel expansion.** That the answer is the serial reader's (`OkIsSerial`) is not
  inductive, since it speaks of the end. `IInv` says of every moment that the chunks appended are the
  first `m` and that `commits` is the beginning of the selected commits up to the end of chunk `m`
  (`To(m)`); the step that appends chunk `m + 1` needs that chunks touch
  (`From(m + 1) = To(m) + 1`) and that the last one ends with the last commit, for every
  `Jobs`: that is arithmetic of the rounded-up division and is proved in lemmas of its own.
  `FailureIsReported` uses the part that nothing is appended once a chunk failed.
* **Followed targets.** The target's history and the files of a commit are functions of the repository, so
  the invariant `BatchInv` says of every moment that nothing but those was used: histories are gathered in the order of
  the targets, whichever thread ended first; what `shown` holds is what git has; and the results so far are
  what each target alone would be answered (`ResultOf`). A missing commit is therefore the only
  way a batch can differ, and it is refused. `OneNamePerTarget` is then a fact about
  `FirstOccurrences`, which keeps every member of a list once, in its order: it rests on the lemma that a finite set of
  numbers can be listed in order, and `ReadOnce` on the same.
* **Gitoxide walk.** What is to be shown speaks of the end; `ReaderInv` says of every moment where the walk is.
  `BatchInv`: the batch holds the newest of the commits walked, those not looked at yet. `FoundInv`: what
  was found among those looked at is exactly the hits among them (`Hits(Looked)`), each once and in order, with the files it
  changed; of trusted commits, only unreadable ones are missing. `WalkInv`: a walk that goes on has not met a bound, and one
  that is past its loop has seen everything the bounds admit. `OkIsReference` follows at the truncation, whose first `max`
  hits are the newest. `NoNeedlessScan` needs that the walk only goes on with fewer than `max` hits looked at and less than a
  batch collected. The commit found too old is counted in `scanned` but never collected (`Collected`), which is
  why the invariant distinguishes the two.
  The theorems assume what the repositories, histories and queries are (`FollowedAssumption`,
  `GixAssumption`: sequences and records of the right kind, a batch or a chunk of at least one commit).
  `HistoryReaders` states both as `ReadersAssumption`. `BatchInv` and `ReaderInv` are what TLC checks as parts of
  `FollowedIsEach` and `GixIsReference` in `history_readers`; the theorems are about the same composition, in which
  one reader runs and the others rest (`ReadersKeepApart`: each follows its own specification).
* **Worktree paths.** `PathsInv`, the two properties of `worktree_paths` together, is kept by every step,
  since only an audit lists anything; the proof is about what an audit lists. `ComposedFacts`
  says what the loop makes of two lists: the staged entries nothing goes on from, and each unstaged
  entry with the history of the one it goes on from. It requires that
  unstaged entries go on from different names and that the path of one is not what another
  goes on from (git's renames are injective, and a renamed path is not listed), and that
  an unstaged rename does not end on a path of the staged diff: that is `NoNameReused`, and
  `worktree_reuse` shows what happens without it. `NothingUnlisted` and `ListedOnce` then are case
  distinctions on where a path is renamed to and from. That a path is listed once
  holds without `NoNameReused`.
* **Scores.** `ScoringInv` says that what a stream holds is one reading of the commits so far (`StreamStep`);
  it is inductive, because the date the decay is counted from changes only as long as nothing has been counted.
  `ScoringIsOne` follows without a further step of the system. `JobsAgree`: a commit added to a part can be added
  after the merge as well (`MergeAdds`), so that a chunk read on its own and merged is as if read on (`ChunkMerges`), for
  any cut. `ReadersAgree`: a decay counted from another date is the same up to a factor (`DecaysAreProportional`), by which
  all weights are scaled (`ScaledTables`); the comparison of two scores multiplies either side by its cube
  (`ScaledBetter`), and since `Better` orders the counted files strictly and totally, there is one at each rank.
  What the assumptions say of commits: made after the epoch, at most `Horizon` apart, finitely many files.
* **Installer.** `DestWhole` is not inductive: what is put back could be a backup whose removal stopped
  halfway. `LocalState` says what a process knows of its own directories from where it is,
  which holds whoever else is at work; `SafeToRestore` says that a partial backup is put back only if a removal failed,
  and that an installer alone then still has its destination in place. Hence the assumption
  `RemoveFails => Alone` of `DestinationIsWhole`. `NothingIsLost` needs `LocalState` only and holds
  without it. How an installer that works alone ends (`LoneInstallerEndsWell`, the action property `Ending`, with
  failing removals) adds `LoneState`: until the destination is set aside it is as the process found it, and
  there is no backup to put back; from then on the backup is what it found, until it is put back.

Only model-checked:

* liveness: `Answered`, `EveryReaderAnswers` and the fairness part of
  `ImplementsCall` (the step simulation, `RefinesCall`, is proved);
* that the two modes of the `installer` run are composed as they should be: its `RerunsEndWell` is the `Ending` proved
  above, restricted to the behaviours in which installers run one after another;
* the other invariants of `algorithms`: `LogFraming`, `TreeDiff` and `PathRules` compute with folds over sequences and are compared with definitions of
  the same kind, in the last two with `RECURSIVE` ones.

## Not modelled

Floating-point scores, PageRank, path similarity and hot files; ranks and averages of the query evaluation
(`evaluation/query.rs`); option parsing, text layout and JSON; the arguments given to git
and what git itself computes; the byte layout of packs and indexes, refs and `head_id`; the descent of
gitoxide to a path; discovery of the repository and the checks of `--range`; `scripts/install_skill.sh`
and the npm launcher. These keep no state of their own, are
outside the repository, or are arithmetic TLC cannot follow. `PROJECT.json` gives the reason for each under "components".

## Plan

What is left, in the order of importance:

1. A proof that the output of `git log` is read as printed.
2. An abstract commit-selection specification (some order of visits, the same set of commits)
   refined by `TargetWalk` and by `GixBatch`.
3. `head_id` and refs of the pack store against other processes that move a branch.
4. `scripts/install_skill.sh` against the same abstract installer as `install-skill.js`.
