------------------------------ MODULE Aggregation ------------------------------
(***************************************************************************)
(* Changed-set aggregation of src/audit.rs: the results of every seed are  *)
(* summed per candidate path, classified by the strongest single pair,     *)
(* ordered, filtered by confidence and truncated.                          *)
(*                                                                         *)
(* An answer is [seed, results]; a result is [path, cochanges, score].     *)
(* Paths are numbers in the order of their names; scores and co-change     *)
(* counts are naturals.  Evidence, weight, dates and reasons ride along    *)
(* in the code and decide nothing here.                                    *)
(***************************************************************************)
EXTENDS FiniteSetsExt, Functions, Sequences

CONSTANTS
  MediumPairs,    \* MEDIUM_CONFIDENCE_STRONGEST_PAIR
  HighPairs,      \* HIGH_CONFIDENCE_STRONGEST_PAIR
  SeedFactor,     \* 8, of audit_query_limit
  SeedFloor       \* 64, of audit_query_limit

ASSUME ThresholdsAssumption ==
  /\ MediumPairs \in Nat \ {0}
  /\ HighPairs \in Nat
  /\ MediumPairs < HighPairs
  /\ SeedFactor \in Nat \ {0}
  /\ SeedFloor \in Nat \ {0}

Low == 0
Medium == 1
High == 2
Confidence == {Low, Medium, High}

classify_confidence(strongest) ==
  IF strongest >= HighPairs THEN High
  ELSE IF strongest >= MediumPairs THEN Medium
  ELSE Low

audit_query_limit(top) == Max({top * SeedFactor, SeedFloor})

Result == [path : Nat, cochanges : Nat, score : Nat]

(* The best k of a set of results: by score, then by name (truncate_top_by *)
(* with result_cmp).                                                       *)
BetterResult(r, q) == r.score > q.score \/ (r.score = q.score /\ r.path < q.path)
TopResults(results, k) ==
  {r \in results : Cardinality({q \in results : BetterResult(q, r)}) < k}

-----------------------------------------------------------------------------
ResultsFor(answers, path) ==
  {e \in (DOMAIN answers) \X UNION {answers[i].results : i \in DOMAIN answers} :
     e[2] \in answers[e[1]].results /\ e[2].path = path}

(* One entry of the aggregate map, after its seeds are sorted and deduped. *)
Candidate(answers, path) ==
  LET found == ResultsFor(answers, path)
      strongest == Max({e[2].cochanges : e \in found})
  IN  [ path       |-> path,
        support    |-> Cardinality({answers[e[1]].seed : e \in found}),
        score      |-> SumFunctionOnSet([e \in found |-> e[2].score], found),
        cochanges  |-> SumFunctionOnSet([e \in found |-> e[2].cochanges], found),
        strongest  |-> strongest,
        confidence |-> classify_confidence(strongest) ]

(* Every path some seed found, except the seeds themselves.                *)
Candidates(seeds, answers) ==
  {Candidate(answers, p) :
     p \in (UNION {{r.path : r \in answers[i].results} : i \in DOMAIN answers}) \ seeds}

(* Mutant of compare_candidates: support before confidence.                *)
compare_candidates_SupportFirst(c, d) ==
  \/ c.support > d.support
  \/ /\ c.support = d.support
     /\ \/ c.confidence > d.confidence
        \/ /\ c.confidence = d.confidence
           /\ \/ c.score > d.score
              \/ /\ c.score = d.score
                 /\ \/ c.cochanges > d.cochanges
                    \/ c.cochanges = d.cochanges /\ c.path < d.path

(* c is listed before d.                                                   *)
compare_candidates(c, d) ==
  \/ c.confidence > d.confidence
  \/ /\ c.confidence = d.confidence
     /\ \/ c.support > d.support
        \/ /\ c.support = d.support
           /\ \/ c.score > d.score
              \/ /\ c.score = d.score
                 /\ \/ c.cochanges > d.cochanges
                    \/ c.cochanges = d.cochanges /\ c.path < d.path

(* The candidates shown and the number left out for low confidence.        *)
aggregate_audit_results(seeds, answers, minimum, top) ==
  LET all == Candidates(seeds, answers)
      enough == {c \in all : c.confidence >= minimum}
  IN  [ shown    |-> {c \in enough :
                        Cardinality({d \in enough : compare_candidates(d, c)}) < top},
        filtered |-> Cardinality(all) - Cardinality(enough) ]
=============================================================================
