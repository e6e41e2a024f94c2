-------------------------------- MODULE Explain --------------------------------
(***************************************************************************)
(* "related explain a b": the history of a is read, a co-change graph is   *)
(* built from it, both names are looked up, and the pair is answered with  *)
(* its count and the first commits that show it.  The first file must be   *)
(* in the graph; the second one may also just be tracked.                  *)
(*                                                                         *)
(* A path is a sequence of components.  Between two questions the          *)
(* repository gets commits that add, change and delete files; renames,     *)
(* which the readers follow, are the subject of FollowedBatch and          *)
(* TargetWalk.  A commit is known by its place in the log, newest first.   *)
(***************************************************************************)
EXTENDS Integers, FiniteSets, SequencesExt

CONSTANTS
  Paths,          \* files the repository may hold
  MaxFiles,       \* --max-files-per-commit
  MaxCommits,     \* --max-commits
  EvidenceLimit,  \* --evidence
  MaxLog          \* bound on the commits made

VARIABLES
  log,      \* the files of each commit, deletions left out
  tracked,  \* the files of the newest commit
  asked,    \* the names of the last question
  answer    \* and its answer

vars == <<log, tracked, asked, answer>>

ExplainAssumption == MaxCommits \in Nat /\ EvidenceLimit \in Nat

-----------------------------------------------------------------------------
Touching(target) == {i \in DOMAIN log : target \in log[i]}

(* The commits of a file that git selects: the newest.                     *)
HistoryOf(target) ==
  {i \in Touching(target) : Cardinality({j \in Touching(target) : j < i}) < MaxCommits}

NoPair == [cochanges |-> 0, evidence |-> <<>>]

(* Mutant of AddPair: the last commits are kept instead of the first.      *)
AddPair_Last(pair, commit) ==
  [cochanges |-> pair.cochanges + 1,
   evidence  |-> SubSeq(<<commit>> \o pair.evidence, 1, Min({EvidenceLimit, 1 + Len(pair.evidence)}))]

AddPair(pair, commit) ==
  [cochanges |-> pair.cochanges + 1,
   evidence  |-> IF Len(pair.evidence) < EvidenceLimit
                 THEN Append(pair.evidence, commit) ELSE pair.evidence]

Eligible(commit) == log[commit] # {} /\ Cardinality(log[commit]) <= MaxFiles

(* Two files, after the first n commits have been looked at.               *)
PairOf(commits, key) ==
  LET after[n \in 0..Len(log)] ==
        IF n = 0 THEN NoPair
        ELSE IF n \in commits /\ Eligible(n) /\ key \subseteq log[n] THEN AddPair(after[n-1], n)
        ELSE after[n-1]
  IN  after[Len(log)]

(* build_graph_data: the files of the commits that are counted, and for    *)
(* every two of them, keyed without an order, what they have in common.    *)
Graph(commits) ==
  LET files == UNION {log[i] : i \in {j \in commits : Eligible(j)}}
  IN  [files |-> files,
       pairs |-> [key \in {k \in SUBSET files : Cardinality(k) = 2} |-> PairOf(commits, key)]]

(* match_graph_path: the file itself, or else all whose path ends so.      *)
Matches(files, name) == IF name \in files THEN {name} ELSE {f \in files : IsSuffix(name, f)}

Refused == [kind |-> "refused"]

(* explain_relationship *)
Explained(a_input, b_input) ==
  LET graph == Graph(HistoryOf(a_input))
      As    == Matches(graph.files, a_input)
      Bs    == LET known == Matches(graph.files, b_input)
               IN  IF known = {} THEN {b_input} \cap tracked ELSE known
  IN  IF Cardinality(As) # 1 \/ Cardinality(Bs) # 1 THEN Refused
      ELSE LET a    == CHOOSE f \in As : TRUE
               b    == CHOOSE f \in Bs : TRUE
               pair == IF {a, b} \in DOMAIN graph.pairs THEN graph.pairs[{a, b}] ELSE NoPair
           IN  [kind |-> "answer", a |-> a, b |-> b, related |-> pair.cochanges > 0,
                cochanges |-> pair.cochanges, evidence |-> pair.evidence]

-----------------------------------------------------------------------------
Init == log = <<>> /\ tracked = {} /\ asked = <<>> /\ answer = Refused

(* Somebody commits: files are added or changed, others deleted; what a    *)
(* commit deletes is in no list the readers make (--diff-filter=ACMRT).    *)
Commit(files, deleted) ==
  /\ Len(log) < MaxLog
  /\ files \cup deleted # {}
  /\ log' = <<files>> \o log
  /\ tracked' = (tracked \cup files) \ deleted
  /\ asked' = <<>> /\ answer' = Refused

Ask(a, b) ==
  /\ asked = <<>>
  /\ asked' = <<a, b>> /\ answer' = Explained(a, b)
  /\ UNCHANGED <<log, tracked>>

Next ==
  \/ \E files \in SUBSET Paths : \E deleted \in SUBSET (tracked \ files) : Commit(files, deleted)
  \/ \E a, b \in Paths : Ask(a, b)

Spec == Init /\ [][Next]_vars

-----------------------------------------------------------------------------
Answered == asked # <<>> /\ answer.kind = "answer"

(* Every commit of the window that counts and changes both files, and the  *)
(* newest of some commits.                                                 *)
Shared(window, x, y) == {i \in window : {x, y} \subseteq log[i] /\ Cardinality(log[i]) <= MaxFiles}
Newest(commits) ==
  [n \in 1..(IF EvidenceLimit <= Cardinality(commits) THEN EvidenceLimit ELSE Cardinality(commits)) |->
     CHOOSE i \in commits : Cardinality({j \in commits : j < i}) = n - 1]

(* Types of the variables; what is answered about is in the repository or  *)
(* its history, and no more evidence is shown than asked for.              *)
TypeOK ==
  /\ tracked \subseteq UNION ToSet(log)
  /\ asked \in {<<>>} \cup Paths \X Paths
  /\ Answered => {answer.a, answer.b} \subseteq UNION ToSet(log) /\ Len(answer.evidence) <= EvidenceLimit

(* The first file is never taken for another one: if anything is counted,  *)
(* the file that was named is, since every commit read changed it.         *)
FirstFileIsExact == Answered => answer.a = asked[1]

(* The count is of all commits that changed both files in the window of    *)
(* the first, and the evidence is the newest of them; files that are       *)
(* called unrelated were never changed together there.                     *)
AnswerIsEvidence ==
  Answered /\ answer.a # answer.b =>
    LET shared == Shared(HistoryOf(asked[1]), answer.a, answer.b)
    IN  /\ answer.cochanges = Cardinality(shared)
        /\ answer.related <=> shared # {}
        /\ answer.evidence = Newest(shared)

(* The files can be named in either order: as long as no history is cut    *)
(* off, the other order gives the same count and the same evidence, or     *)
(* refuses when only the first of the two is known to the graph.           *)
SameBothWays ==
  LET other == Explained(asked[2], asked[1])
      Whole(f) == Cardinality(Touching(f)) <= MaxCommits
  IN  Answered /\ answer.b = asked[2] /\ Whole(asked[1]) /\ Whole(asked[2]) =>
        \/ other.kind = "answer" /\ other.b = asked[1]
             /\ <<other.cochanges, other.evidence>> = <<answer.cochanges, answer.evidence>>
        \/ ~answer.related

(* The invariant of the command.                                           *)
ExplainInv ==
  /\ log \in Seq(SUBSET Paths) /\ TypeOK
  /\ asked # <<>> => answer = Explained(asked[1], asked[2])
  /\ FirstFileIsExact /\ AnswerIsEvidence /\ SameBothWays
=============================================================================
