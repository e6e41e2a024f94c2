------------------------------ MODULE RelatedDiff ------------------------------
(***************************************************************************)
(* "related diff": each changed file is asked for in turn, what is found   *)
(* for several of them is merged, and the best of the rest is shown.  The  *)
(* pack reader may fail at any file; git answers then and for all files    *)
(* that follow.  With --exclude the files are asked for without a limit,   *)
(* so that what is left out cannot push out what is to be shown.           *)
(*                                                                         *)
(* Paths and hashes are numbers, in the order of their text.  A commit     *)
(* counts one; its date is the text of its local time and of its offset,   *)
(* and follows its place in the log only where clocks and zones agree.     *)
(* "related query" is the case of one file, asked for by name.             *)
(***************************************************************************)
EXTENDS Integers, FiniteSets, SequencesExt

CONSTANTS
  Files,          \* paths, numbered
  Histories,      \* what git log may print: [files, time, offset, hash], in its order
  Diffs,          \* lists of changed files git may print
  Exclusions,     \* what --exclude may match, {} for no --exclude
  Top,            \* --top
  EvidenceLimit   \* --evidence

VARIABLES
  history, changed, excluded,   \* what the command was started with
  next,       \* number of the file asked for next
  backend,    \* "pack" | "git"
  hinted,     \* that git had to be used instead
  aggregate,  \* for each path found so far, what is known of it
  related,    \* the answer
  status      \* "asking" | "done" | "failed"

input == <<history, changed, excluded>>
vars == <<input, next, backend, hinted, aggregate, related, status>>

(* What is known of the repository, and of git diff: it prints each path   *)
(* once.                                                                   *)
DiffAssumption ==
  /\ Files \subseteq Nat /\ IsFiniteSet(Files)
  /\ Top \in Nat \ {0} /\ EvidenceLimit \in Nat
  /\ \A h \in Histories :
       /\ h \in Seq([files : SUBSET Files, time : Int, offset : Int, hash : Nat])
       /\ \A i, j \in DOMAIN h : h[i].hash = h[j].hash => i = j
  /\ \A c \in Diffs : c \in Seq(Files) /\ \A i, j \in DOMAIN c : c[i] = c[j] => i = j

-----------------------------------------------------------------------------
Smaller(m, n) == IF m <= n THEN m ELSE n

(* result_cmp: score, then path.                                           *)
Better(l, r) == l.score > r.score \/ (l.score = r.score /\ l.path < r.path)

(* Sorted, best first, and cut: the n-th has n - 1 better ones.            *)
truncate_top(results, top) ==
  [n \in 1..Smaller(top, Cardinality(results)) |->
     CHOOSE r \in results : Cardinality({q \in results : Better(q, r)}) = n - 1]

With(x, y) == {i \in DOMAIN history : {x, y} \subseteq history[i].files}

(* The evidence of a query: the first commits in the order of the log.     *)
FirstOf(commits) ==
  [n \in 1..Smaller(EvidenceLimit, Cardinality(commits)) |->
     CHOOSE i \in commits : Cardinality({j \in commits : j < i}) = n - 1]

(* Dates are compared by their text: the local time, then the offset, of   *)
(* which "+" comes before "-".                                             *)
Local(c) == c.time + c.offset
Distance(offset) == IF offset < 0 THEN -offset ELSE offset
OffsetAfter(o, p) ==
  \/ o < 0 /\ p >= 0
  \/ (o < 0 <=> p < 0) /\ Distance(o) > Distance(p)
DateAfter(c, d) ==
  \/ Local(c) > Local(d)
  \/ Local(c) = Local(d) /\ OffsetAfter(c.offset, d.offset)

(* The latest date first, then the smallest hash.                          *)
Sooner(i, j) ==
  \/ DateAfter(history[i], history[j])
  \/ ~DateAfter(history[j], history[i]) /\ history[i].hash < history[j].hash

(* The evidence of a merged result: sorted so, no commit twice, and cut.   *)
LatestOf(commits) ==
  [n \in 1..Smaller(EvidenceLimit, Cardinality(commits)) |->
     CHOOSE i \in commits : Cardinality({j \in commits : Sooner(j, i)}) = n - 1]

(* query_on_demand: the files that changed with the target.                *)
query_on_demand(target, top) ==
  truncate_top({[path |-> x, score |-> Cardinality(With(target, x)), evidence |-> FirstOf(With(target, x))] :
                  x \in {y \in Files \ {target} : With(target, y) # {}}}, top)

(* Mutant of filtered_query_top: what is left out is not thought of.       *)
filtered_query_top_Always(top) == top
filtered_query_top(top) == IF excluded = {} THEN top ELSE Cardinality(Files)

(* Mutant of merge_diff_result: evidence is only added.                    *)
merge_diff_result_Appends(target, source) ==
  [target EXCEPT !.score = @ + source.score,
                 !.evidence = SubSeq(@ \o source.evidence, 1,
                                     Min({EvidenceLimit, Len(@ \o source.evidence)}))]

(* A commit that speaks for both files is shown once.                      *)
merge_diff_result(target, source) ==
  [target EXCEPT !.score = @ + source.score,
                 !.evidence = LatestOf(ToSet(@) \cup ToSet(source.evidence))]

Skipped(path) == path \in ToSet(changed)

Merged(results) ==
  LET found == {r.path : r \in {s \in ToSet(results) : ~Skipped(s.path)}}
      Of(x) == results[CHOOSE i \in DOMAIN results : results[i].path = x]
  IN  [x \in DOMAIN aggregate \cup found |->
         CASE x \notin found             -> aggregate[x]
           [] x \notin DOMAIN aggregate  -> Of(x)
           [] OTHER                      -> merge_diff_result(aggregate[x], Of(x))]

(* filter_related_results: the exclusions first, then the best.            *)
filter_related_results(results, top) ==
  truncate_top({r \in results : r.path \notin excluded}, top)

-----------------------------------------------------------------------------
Init ==
  /\ history \in Histories /\ changed \in Diffs /\ excluded \in Exclusions
  /\ next = 1 /\ backend = "pack" /\ hinted = FALSE
  /\ aggregate = <<>> /\ related = <<>>
  /\ status = IF changed = <<>> THEN "failed" ELSE "asking"

Asking == status = "asking" /\ next <= Len(changed)

Answer ==
  /\ Asking
  /\ aggregate' = Merged(query_on_demand(changed[next], filtered_query_top(Top)))
  /\ next' = next + 1
  /\ UNCHANGED <<input, related, status>>

(* with_default_pack_fallback: the configuration is changed for good, and  *)
(* the first hint is kept.                                                 *)
Fallback == backend = "pack" /\ backend' = "git" /\ hinted' = TRUE

(* The reader answers, or the pack reader fails and git answers.           *)
QueryTarget == Answer /\ UNCHANGED <<backend, hinted>>
QueryFallback == Fallback /\ Answer

(* git fails, after the pack reader or on its own.                         *)
QueryFails ==
  /\ Asking /\ status' = "failed"
  /\ UNCHANGED <<input, next, backend, hinted, aggregate, related>>

Show ==
  /\ status = "asking" /\ next > Len(changed)
  /\ related' = filter_related_results({aggregate[x] : x \in DOMAIN aggregate}, Top)
  /\ status' = "done"
  /\ UNCHANGED <<input, next, backend, hinted, aggregate>>

Next == QueryTarget \/ QueryFallback \/ QueryFails \/ Show

Spec == Init /\ [][Next]_vars

-----------------------------------------------------------------------------
(* The commits in which x changed with one of the changed files, and how   *)
(* often counting each file.                                               *)
Reasons(x) == {r \in ToSet(changed) \X DOMAIN history : {r[1], x} \subseteq history[r[2]].files}
Targets(reasons) == {r[1] : r \in reasons}
Sharing(reasons) == {r[2] : r \in reasons}

(* What is shown for x when it was found for these files: as the log has   *)
(* it for a single one, else the latest of what each of them was shown.    *)
Evidence(x, targets) ==
  IF Cardinality(targets) = 1
  THEN FirstOf(With(CHOOSE t \in targets : TRUE, x))
  ELSE LatestOf(UNION {ToSet(FirstOf(With(t, x))) : t \in targets})

Whole == {x \in Files \ (ToSet(changed) \cup excluded) : Reasons(x) # {}}
Total(x) ==
  [path |-> x, score |-> Cardinality(Reasons(x)), evidence |-> Evidence(x, Targets(Reasons(x)))]

(* Types of the variables; a file that changed is never suggested.         *)
TypeOK ==
  /\ next \in 1..(Len(changed) + 1)
  /\ <<backend, status>> \in {"pack", "git"} \X {"asking", "done", "failed"}
  /\ DOMAIN aggregate \subseteq Files \ ToSet(changed)
  /\ Len(related) <= Top

(* With --exclude, the answer is what the whole diff says: the sums over   *)
(* all changed files, ranked, cut only at the end, in whatever order the   *)
(* files were asked for.                                                   *)
ExcludeHidesNothing ==
  status = "done" /\ excluded # {} =>
    [i \in DOMAIN related |-> <<related[i].path, related[i].score>>] =
      LET best == truncate_top({Total(x) : x \in Whole}, Top)
      IN  [i \in DOMAIN best |-> <<best[i].path, best[i].score>>]

(* Without it each file is asked for its best only; what is shown is still *)
(* true when there was one file, and never more than the whole says.       *)
CutOnlyLowers ==
  status = "done" =>
    /\ \A i \in DOMAIN related : related[i].score <= Total(related[i].path).score
    /\ Len(changed) = 1 => related = truncate_top({Total(x) : x \in Whole}, Top)

(* The dates follow the log: its clocks agree, and so do its zones.        *)
DatesFollowLog == \A i, j \in DOMAIN history : i < j => ~DateAfter(history[j], history[i])

(* Cutting the evidence after every merge loses nothing that one cut at    *)
(* the end would keep, whatever the dates; as much is shown as there is    *)
(* room for, no commit twice; and where the dates follow the log, no       *)
(* commit left out is later than one that is shown, although each file's   *)
(* own evidence was cut in the order of the log.                           *)
EvidenceIsNewest ==
  status = "done" /\ excluded # {} =>
    \A i \in DOMAIN related :
      LET x == related[i].path
          shown == related[i].evidence
          all == Sharing(Reasons(x))
      IN  /\ shown = Evidence(x, Targets(Reasons(x)))
          /\ ToSet(shown) \subseteq all
          /\ Len(shown) = Smaller(EvidenceLimit, Cardinality(all))
          /\ \A m, n \in DOMAIN shown : shown[m] = shown[n] => m = n
          /\ DatesFollowLog =>
               \A j \in all \ ToSet(shown) : \A n \in DOMAIN shown :
                  ~DateAfter(history[j], history[shown[n]])

-----------------------------------------------------------------------------
(* The reasons found so far, and what is kept of them: everything with     *)
(* --exclude; without it nothing that is not true, and the best of the     *)
(* first file.                                                             *)
Found(x) == {r \in Reasons(x) : \E k \in 1..(next - 1) : r[1] = changed[k]}
Kept == {aggregate[x] : x \in DOMAIN aggregate}
AggregateInv ==
  /\ \A x \in DOMAIN aggregate :
       /\ aggregate[x].path = x
       /\ aggregate[x].score \in 0..Cardinality(Found(x))
  /\ excluded # {} =>
       /\ DOMAIN aggregate = {x \in Files \ ToSet(changed) : Found(x) # {}}
       /\ \A x \in DOMAIN aggregate :
            aggregate[x] = [path |-> x, score |-> Cardinality(Found(x)),
                            evidence |-> Evidence(x, Targets(Found(x)))]
  /\ excluded = {} /\ Len(changed) = 1 =>
       Kept = IF next = 1 THEN {} ELSE ToSet(truncate_top({Total(x) : x \in Whole}, Top))

(* The invariant of the command.                                           *)
DiffInv ==
  /\ history \in Histories /\ changed \in Diffs /\ excluded \in Exclusions
  /\ TypeOK /\ AggregateInv
  /\ ExcludeHidesNothing /\ CutOnlyLowers /\ EvidenceIsNewest
=============================================================================
