----------------------------- MODULE OmissionEval -----------------------------
(***************************************************************************)
(* `related eval --task audit` (src/evaluation): the newest commits of a   *)
(* log are held out, every file of a held-out commit is left out in turn,  *)
(* and the audit is asked for it with the other files as the changed set   *)
(* and the older commits as history.                                       *)
(*                                                                         *)
(* A log is a sequence of commits, newest first, each with its files and   *)
(* its renames [old, new] in the order git prints them.  Scores are the    *)
(* numbers of co-changes: how they decay is DirectScoring's matter.        *)
(***************************************************************************)
EXTENDS Aggregation, Integers, SequencesExt

CONSTANTS
  Logs,          \* the logs
  TestCommits,   \* --test-commits
  MaxFiles,      \* --max-files
  Top,           \* --top
  Minimums       \* values of --min-confidence

VARIABLES
  log, minimum,
  at,          \* the held-out commit looked at
  left,        \* its files that have not been left out yet
  cache,       \* answers of TrainingQueries, by seed
  counts,      \* counts of tasks
  rows,        \* accumulator, by confidence band
  totals,      \* accumulator, all tasks
  last         \* the last task evaluated

evalVars == <<log, minimum, at, left, cache, counts, rows, totals, last>>

(* What is known of the logs, and of the options.                          *)
LogCommit == [files : SUBSET Nat, renames : Seq([old : Nat, new : Nat])]
EvalAssumption ==
  /\ TestCommits \in Nat \ {0} /\ MaxFiles \in Nat \ {0} /\ Top \in Nat \ {0}
  /\ Minimums \subseteq Confidence
  /\ \A l \in Logs : /\ l \in Seq(LogCommit) /\ Len(l) > TestCommits
                     /\ \A k \in DOMAIN l : IsFiniteSet(l[k].files)

-----------------------------------------------------------------------------
Older(l) == SubSeq(l, TestCommits + 1, Len(l))

(* Mutant of Known: the renames of every commit are known.                 *)
Known_All(l) == SubSeq(l, 1, Len(l))

(* The commits whose renames are known to the evaluation.                  *)
Known(l) == Older(l)

AllRenames(l) == FlattenSeq([i \in DOMAIN l |-> l[i].renames])

(* Of several renames of one name the last in the sequence decides.        *)
LastOf(r, positions) == r[Max(positions)]

(* aliases: commits are read newest first, a later insertion replaces an   *)
(* earlier one.                                                            *)
Aliases(l) ==
  LET r == AllRenames(Known(l))
  IN  [old \in {r[j].old : j \in DOMAIN r} |-> LastOf(r, {j \in DOMAIN r : r[j].old = old}).new]

(* canonical_path goes on until there is no alias or one was used already. *)
MoreAliases(aliases, current, seen) == current \in DOMAIN aliases /\ current \notin seen

canonical_path(path, aliases) ==
  LET step[n \in 0..Cardinality(DOMAIN aliases)] ==
        IF n = 0 THEN [current |-> path, seen |-> {}]
        ELSE LET s == step[n-1]
             IN  IF MoreAliases(aliases, s.current, s.seen)
                 THEN [current |-> aliases[s.current], seen |-> s.seen \cup {s.current}]
                 ELSE s
  IN  step[Cardinality(DOMAIN aliases)].current

Train(l) == [i \in DOMAIN Older(l) |->
               {canonical_path(f, Aliases(l)) : f \in Older(l)[i].files}]

(* A held-out commit: its own renames are undone, then those of training   *)
(* are applied.                                                            *)
Test(l, k) ==
  LET own == l[k].renames
      Before(f) == IF \E j \in DOMAIN own : own[j].new = f
                   THEN LastOf(own, {j \in DOMAIN own : own[j].new = f}).old ELSE f
  IN  {canonical_path(Before(f), Aliases(l)) : f \in l[k].files}

Counted(files) == files # {} /\ Cardinality(files) <= MaxFiles
known_files(l) == UNION {Train(l)[i] : i \in {j \in DOMAIN Train(l) : Counted(Train(l)[j])}}

(* TrainingQueries::query: the best co-changes of seed in training.        *)
TrainingResults(l, seed) ==
  LET hits(x) == {i \in DOMAIN Train(l) : Counted(Train(l)[i]) /\ {seed, x} \subseteq Train(l)[i]}
      found == {x \in known_files(l) \ {seed} : hits(x) # {}}
  IN  TopResults({[path |-> x, cochanges |-> Cardinality(hits(x)), score |-> Cardinality(hits(x))] :
                    x \in found}, audit_query_limit(Top))

-----------------------------------------------------------------------------
NoCounts == [band \in Confidence |-> 0]

EvalInit ==
  /\ log \in Logs /\ minimum \in Minimums
  /\ at = 0 /\ left = {} /\ cache = << >>
  /\ counts = [candidate |-> 0, evaluated |-> 0, unknown |-> 0, insufficient |-> 0]
  /\ rows = [candidates |-> NoCounts, correct |-> NoCounts, tasks |-> NoCounts,
             correctTasks |-> NoCounts]
  /\ totals = [tasks |-> 0, hits |-> 0, results |-> 0, wrong |-> 0, abstentions |-> 0]
  /\ last = [seeds |-> {}, candidates |-> {}]

(* The known files of a commit that has too few of them for a task.        *)
Insufficient(known) == IF Cardinality(known) < 2 THEN Cardinality(known) ELSE 0

Files == Test(log, at)
KnownHere == Files \cap known_files(log)

NextCommit ==
  /\ at < TestCommits /\ left = {}
  /\ at' = at + 1
  /\ LET files == Test(log, at + 1)
         known == files \cap known_files(log)
     IN  IF Cardinality(files) < 2 \/ Cardinality(files) > MaxFiles
         THEN left' = {} /\ UNCHANGED counts
         ELSE /\ counts' = [counts EXCEPT
                   !.candidate = @ + Cardinality(files),
                   !.unknown = @ + Cardinality(files \ known),
                   !.insufficient = @ + Insufficient(known)]
              /\ left' = IF Cardinality(known) < 2 THEN {} ELSE known
  /\ UNCHANGED <<log, minimum, cache, rows, totals, last>>

(* A seed is asked for once and remembered.                                *)
Ask(seed) ==
  /\ seed \in (IF left = {} THEN {} ELSE KnownHere) \ DOMAIN cache
  /\ cache' = [s \in DOMAIN cache \cup {seed} |->
                 IF s = seed THEN TrainingResults(log, seed) ELSE cache[s]]
  /\ UNCHANGED <<log, minimum, at, left, counts, rows, totals, last>>

(* The candidates counted in the totals.                                   *)
Shown(all) == {c \in all : c.confidence >= minimum}

Answers(seeds) == [s \in seeds |-> [seed |-> s, results |-> cache[s]]]

(* One task: AuditAccumulator::add.                                        *)
Evaluate(omitted) ==
  LET seeds      == KnownHere \ {omitted}
      all        == aggregate_audit_results(seeds, Answers(seeds), Low, Top).shown
      candidates == Shown(all)
      InBand(b)  == {c \in all : c.confidence = b}
      Right(b)   == {c \in InBand(b) : c.path = omitted}
      One(S)     == IF S = {} THEN 0 ELSE 1
      hit        == {c \in candidates : c.path = omitted}
  IN  /\ omitted \in left
      /\ seeds \subseteq DOMAIN cache
      /\ left' = left \ {omitted}
      /\ counts' = [counts EXCEPT !.evaluated = @ + 1]
      /\ rows' = [candidates   |-> [b \in Confidence |-> rows.candidates[b] + Cardinality(InBand(b))],
                  correct      |-> [b \in Confidence |-> rows.correct[b] + Cardinality(Right(b))],
                  tasks        |-> [b \in Confidence |-> rows.tasks[b] + One(InBand(b))],
                  correctTasks |-> [b \in Confidence |-> rows.correctTasks[b] + One(Right(b))]]
      /\ totals' = [tasks       |-> totals.tasks + 1,
                    hits        |-> totals.hits + One(hit),
                    results     |-> totals.results + Cardinality(candidates),
                    wrong       |-> totals.wrong + Cardinality(candidates) - One(hit),
                    abstentions |-> totals.abstentions + 1 - One(candidates)]
      /\ last' = [seeds |-> seeds, candidates |-> candidates]
      /\ UNCHANGED <<log, minimum, at, cache>>

EvalNext ==
  \/ NextCommit
  \/ \E f \in left \cup (IF at = 0 THEN {} ELSE KnownHere) : Ask(f) \/ Evaluate(f)

EvalSpec == EvalInit /\ [][EvalNext]_evalVars

-----------------------------------------------------------------------------
(* Types of the variables, and the accounts of the tasks: every file of an *)
(* eligible commit is evaluated, about to be, unknown, or one of too few.  *)
EvalTypeOK ==
  /\ log \in Logs /\ minimum \in Minimums
  /\ at \in 0..TestCommits
  /\ left # {} => left \subseteq KnownHere
  /\ counts.candidate =
       counts.evaluated + Cardinality(left) + counts.unknown + counts.insufficient
  /\ totals.tasks = counts.evaluated

(* The candidates of a task are those a real audit of its seeds would show *)
(* on this history.  The audit filters by confidence and then cuts at the  *)
(* top, the evaluation cuts first: equal only because the order of the     *)
(* candidates puts confidence first.  Remembered answers are not stale.    *)
EvalIsAudit ==
  last.seeds # {} =>
    last.candidates =
      aggregate_audit_results(last.seeds,
        [s \in last.seeds |-> [seed |-> s, results |-> TrainingResults(log, s)]],
        minimum, Top).shown

(* README.md: rename information does not cross holdout boundaries.  What  *)
(* is made of a held-out commit, and of training, is what would be made of *)
(* it were it the only one held out and followed by training at once.      *)
NoLeak ==
  \A k \in 1..TestCommits :
    LET alone == [i \in DOMAIN log |-> IF i <= TestCommits THEN log[k] ELSE log[i]]
    IN  Test(log, k) = Test(alone, k) /\ Train(log) = Train(alone)

(* docs/json-output.md: rows are computed before the filter by confidence. *)
(* The totals are the sums of the rows from the minimum up.                *)
RowsExplainTotals ==
  LET From(f) == SumFunctionOnSet(f, {b \in Confidence : b >= minimum})
  IN  /\ totals.hits = From(rows.correctTasks)
      /\ totals.hits = From(rows.correct)
      /\ totals.results = From(rows.candidates)
      /\ totals.wrong = totals.results - totals.hits

(* Names of training are joined along a chain of renames, if no name is    *)
(* given up twice and none is taken back.                                  *)
Joined ==
  LET r == AllRenames(Older(log))
  IN  \A j \in DOMAIN r :
        canonical_path(r[j].old, Aliases(log)) = canonical_path(r[j].new, Aliases(log))
GivenUpOnce ==
  LET r == AllRenames(Older(log)) IN \A i, j \in DOMAIN r : i # j => r[i].old # r[j].old
NotTakenBack ==
  LET r == AllRenames(Older(log)) IN \A i, j \in DOMAIN r : i < j => r[i].new # r[j].old
ChainsAreJoined == GivenUpOnce /\ NotTakenBack => Joined

-----------------------------------------------------------------------------
(* What is counted is numbers.                                             *)
CountsAreNumbers ==
  /\ counts \in [candidate : Nat, evaluated : Nat, unknown : Nat, insufficient : Nat]
  /\ rows \in [candidates : [Confidence -> Nat], correct : [Confidence -> Nat],
              tasks : [Confidence -> Nat], correctTasks : [Confidence -> Nat]]
  /\ totals \in [tasks : Nat, hits : Nat, results : Nat, wrong : Int, abstentions : Int]

(* What is remembered of a seed is what training says of it.               *)
NotStale == \A s \in DOMAIN cache : cache[s] = TrainingResults(log, s)

(* The invariant of the evaluation.                                        *)
EvalInv == EvalTypeOK /\ CountsAreNumbers /\ NotStale /\ EvalIsAudit /\ RowsExplainTotals
=============================================================================
