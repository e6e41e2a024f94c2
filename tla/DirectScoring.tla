----------------------------- MODULE DirectScoring -----------------------------
(***************************************************************************)
(* How co-changes with a target become a ranked answer.  Five readers do   *)
(* it, each in its own code:                                               *)
(*   direct   query_direct_from_commits, src/graph.rs: from a list;        *)
(*   graph    build_graph_data and RelatedGraph, same file: for all pairs; *)
(*   git      parse_git_log_direct, src/history/parsers.rs: streaming;     *)
(*   pack     pack_direct_for_target_inner, src/pack/query.rs: streaming;  *)
(*   jobs     pack_direct_for_selected_serial and _parallel, same file:    *)
(*            from the collected commits, in chunks that are merged.       *)
(* They are given the same commits of the target's history, newest first.  *)
(*                                                                         *)
(* Weights are integers: a commit of a given age counts Decayed[age], and  *)
(* 1 / log2(files + 1) is Share[files], in parts of Unit.  Paths are       *)
(* numbers, in the order of their text.                                    *)
(***************************************************************************)
EXTENDS Integers, Sequences, FiniteSets

CONSTANTS
  Others,       \* paths other than the target's
  MaxFiles,     \* --max-files
  Unit, Share,  \* weight of a commit, by its number of files
  Decayed,      \* and by its age: it falls by the same factor in equal times
  Horizon,      \* time between the oldest and the newest commit
  Changes,      \* what a commit of the history can be: [files, time, offset]
  Jobs,         \* values of --jobs
  MaxCommits    \* length of the longest history

Target == 0

(* Commits are made after the epoch; they change the target, but a merge   *)
(* lists no files.                                                         *)
ASSUME ScoringAssumption ==
  /\ Others \subseteq Nat \ {Target} /\ IsFiniteSet(Others)
  /\ MaxFiles \in Nat \ {0} /\ Horizon \in Nat /\ MaxCommits \in Nat /\ Jobs \subseteq Nat
  /\ \A c \in Changes :
       /\ c.files \subseteq Others \cup {Target} /\ (c.files = {} \/ Target \in c.files)
       /\ IsFiniteSet(c.files) /\ c.time \in Nat \ {0} /\ c.offset \in Int
       /\ \A d \in Changes : c.time - d.time <= Horizon
  /\ Unit \in Nat /\ \A n \in 1..MaxFiles : Share[n] \in 1..Unit
  /\ \A n \in 0..Horizon : Decayed[n] \in Nat \ {0}
  /\ \A a, b \in 0..Horizon : \A d \in 0..Horizon :
       a + d <= Horizon /\ b + d <= Horizon =>
         Decayed[a + d] * Decayed[b] = Decayed[a] * Decayed[b + d]

VARIABLES
  commits,      \* the commits of the target's history, newest first
  git,          \* what the git reader has accumulated
  pack          \* what the streaming pack reader has accumulated

scoringVars == <<commits, git, pack>>

-----------------------------------------------------------------------------
Larger(a, b) == IF a >= b THEN a ELSE b
Smaller(a, b) == IF a <= b THEN a ELSE b

(* A pair that was never seen has no last_seen.                            *)
Never == [time |-> 0, offset |-> 0]
NoPair == [cochanges |-> 0, weight |-> 0, other |-> 0, seen |-> Never]
Nothing == [weight |-> 0, pairs |-> [x \in Others |-> NoPair]]

(* Commits that are counted: a merge lists no files, a sweep too many.     *)
Eligible(c) == c.files # {} /\ Cardinality(c.files) <= MaxFiles

(* time_decay: a commit newer than the latest one counts as much as it.    *)
Decay(latest, when) == Decayed[Larger(latest - when, 0)]

(* Of the offsets in the text of a date, "+" comes before "-".             *)
Distance(offset) == IF offset < 0 THEN -offset ELSE offset
OffsetAfter(o, p) ==
  \/ o < 0 /\ p >= 0
  \/ (o < 0 <=> p < 0) /\ Distance(o) > Distance(p)

(* When a date is later: git and direct compare the text, which is local   *)
(* time and then the offset; pack and jobs compare the instant.            *)
Later(by, c, last) ==
  \/ last = Never
  \/ by = "text" /\ c.time + c.offset > last.time + last.offset
  \/ by = "text" /\ c.time + c.offset = last.time + last.offset /\ OffsetAfter(c.offset, last.offset)
  \/ by = "instant" /\ c.time > last.time

OtherWeight(pair, decay) == pair.other + decay

AddToPair(pair, c, decay, by) ==
  [cochanges |-> pair.cochanges + 1,
   weight    |-> pair.weight + decay * Share[Cardinality(c.files)],
   other     |-> OtherWeight(pair, decay),
   seen      |-> IF Later(by, c, pair.seen)
                 THEN [time |-> c.time, offset |-> c.offset] ELSE pair.seen]

(* One commit is added to what was accumulated.                            *)
AddCommit(part, c, latest, by) ==
  IF ~Eligible(c) THEN part
  ELSE [weight |-> part.weight + Decay(latest, c.time),
        pairs  |-> [x \in Others |->
                      IF x \in c.files
                      THEN AddToPair(part.pairs[x], c, Decay(latest, c.time), by)
                      ELSE part.pairs[x]]]

AddAll(s, latest, by) ==
  LET part[k \in 0..Len(s)] ==
        IF k = 0 THEN Nothing ELSE AddCommit(part[k-1], s[k], latest, by)
  IN  part[Len(s)]

Counted(s) == {i \in DOMAIN s : Eligible(s[i])}

(* latest.get_or_insert: the first commit that is counted dates the decay. *)
StreamLatest(s) ==
  IF Counted(s) = {} THEN 0
  ELSE s[CHOOSE i \in Counted(s) : \A j \in Counted(s) : i <= j].time

(* max().unwrap_or(0)                                                      *)
Newest(times) == IF times = {} THEN 0 ELSE CHOOSE t \in times : \A u \in times : u <= t

(* query_direct_from_commits: the newest commit that is counted does.      *)
Direct(s) == AddAll(s, Newest({s[i].time : i \in Counted(s)}), "text")

(* build_graph_data: the newest commit read does, counted or not.          *)
GraphData(s) == AddAll(s, Newest({s[i].time : i \in DOMAIN s}), "text")

(* pack_direct_for_selected_*: the first commit selected does.             *)
CollectedLatest(s) == s[1].time

Serial(s) == IF s = <<>> THEN Nothing ELSE AddAll(s, CollectedLatest(s), "instant")

(* Mutant of LaterPart: on a tie the later chunk wins.                     *)
LaterPart_Tie(source, target) == source.time >= target.time
LaterPart(source, target) == source.time > target.time

MergePair(t, s) ==
  [cochanges |-> t.cochanges + s.cochanges,
   weight    |-> t.weight + s.weight,
   other     |-> t.other + s.other,
   seen      |-> IF LaterPart(s.seen, t.seen) THEN s.seen ELSE t.seen]

(* pack_direct_merge_partial                                               *)
MergePartial(target, source) ==
  [weight |-> target.weight + source.weight,
   pairs  |-> [x \in Others |-> MergePair(target.pairs[x], source.pairs[x])]]

(* div_ceil                                                                *)
DivCeil(n, d) == (n + d - 1) \div d

(* pack_direct_for_selected_parallel: a partial result for each chunk.     *)
Parallel(s, jobs) ==
  LET threads  == Larger(Smaller(jobs, Len(s)), 1)
      size     == Larger(DivCeil(Len(s), threads), 1)
      Chunk(k) == SubSeq(s, (k - 1) * size + 1, Smaller(k * size, Len(s)))
      merged[k \in 0..DivCeil(Len(s), size)] ==
        IF k = 0 THEN Nothing
        ELSE MergePartial(merged[k-1], AddAll(Chunk(k), CollectedLatest(s), "instant"))
  IN  merged[DivCeil(Len(s), size)]

(* direct_scored_pair_cmp: score = weight / sqrt(part.weight * other),     *)
(* compared by its square, then by path.                                   *)
Better(part, x, y) ==
  LET left  == part.pairs[x].weight * part.pairs[x].weight * part.pairs[y].other
      right == part.pairs[y].weight * part.pairs[y].weight * part.pairs[x].other
  IN  left > right \/ (left = right /\ x < y)

(* The answer: path and number of co-changes, best first.                  *)
Scored(part) == {x \in Others : part.pairs[x].cochanges > 0}
Ranked(part) ==
  LET ahead == [x \in Scored(part) |-> {y \in Scored(part) : Better(part, y, x)}]
  IN  [n \in 1..Cardinality(Scored(part)) |->
         LET x == CHOOSE x \in Scored(part) : Cardinality(ahead[x]) = n - 1
         IN  <<x, part.pairs[x].cochanges>>]

-----------------------------------------------------------------------------
ScoringInit == commits = <<>> /\ git = Nothing /\ pack = Nothing

(* The next commit reaches the streaming readers.                          *)
Count(c) ==
  /\ Len(commits) < MaxCommits
  /\ commits' = Append(commits, c)
  /\ git' = AddCommit(git, c, StreamLatest(Append(commits, c)), "text")
  /\ pack' = AddCommit(pack, c, StreamLatest(Append(commits, c)), "instant")

ScoringNext == \E c \in Changes : Count(c)

ScoringSpec == ScoringInit /\ [][ScoringNext]_scoringVars

-----------------------------------------------------------------------------
HonestClocks == \A i, j \in DOMAIN commits : i < j => commits[i].time >= commits[j].time

(* Types of the variables; no score exceeds 1.                             *)
ScoringTypeOK ==
  /\ commits \in Seq(Changes)
  /\ \A part \in {git, pack} : \A x \in Others :
       /\ part.pairs[x].weight * part.pairs[x].weight
            <= Unit * Unit * part.weight * part.pairs[x].other
       /\ part.pairs[x].cochanges <= Len(commits)

(* The answer of the pack reader does not depend on --jobs, whatever the   *)
(* clocks of the commits: chunks cut anywhere add up to the same weights,  *)
(* counts and dates, the offset of the date shown included.                *)
JobsDoNotShow == \A jobs \in Jobs : Parallel(commits, jobs) = Serial(commits)

(* Reading a stream gives what reading the selected commits gives; the     *)
(* clocks must agree with the order of the commits, because a stream takes *)
(* its first counted commit for the newest.                                *)
StreamIsDirect == HonestClocks => git = Direct(commits)

(* All readers rank alike and count alike; the graph, and the reader that  *)
(* collects the commits first, date the decay by another commit, which     *)
(* scales all weights but changes no rank.                                 *)
SameRanking ==
  HonestClocks =>
    /\ Ranked(pack) = Ranked(Direct(commits))
    /\ Ranked(Serial(commits)) = Ranked(pack)
    /\ Ranked(GraphData(commits)) = Ranked(pack)

(* Every co-change counted is a commit of the history that is counted and  *)
(* lists the file: nothing is lost or counted twice on the way.            *)
CountsAreCommits ==
  \A x \in Others :
    pack.pairs[x].cochanges =
      Cardinality({i \in DOMAIN commits : /\ x \in commits[i].files
                                          /\ Cardinality(commits[i].files) <= MaxFiles})

(* What the streaming readers have accumulated, from the commits alone.    *)
ScoringInv ==
  /\ commits \in Seq(Changes)
  /\ git = AddAll(commits, StreamLatest(commits), "text")
  /\ pack = AddAll(commits, StreamLatest(commits), "instant")

(* All readers score alike: neither --jobs nor the form in which the       *)
(* commits come shows in the ranks, and what is counted are commits.       *)
ScoringIsOne ==
  /\ ScoringInv /\ ScoringTypeOK
  /\ JobsDoNotShow /\ StreamIsDirect /\ SameRanking /\ CountsAreCommits
=============================================================================
