----------------------------- MODULE MCTargetWalk -----------------------------
(* Repositories and queries for model checking TargetWalk.                   *)
EXTENDS TargetWalk, TLC

CONSTANTS t, s, u, x, y     \* three paths, two blobs

MCCommits == 1..4
HeadCommit == 4

(* Commit graphs: a chain, a merge of two branches, and a merge whose       *)
(* second parent is itself a child of the first.                            *)
Chain == [c \in MCCommits |-> IF c = 1 THEN <<>> ELSE <<c - 1>>]
Diamond == [c \in MCCommits |->
              CASE c = 4 -> <<3, 2>> [] c = 1 -> <<>> [] OTHER -> <<1>>]
Crossing == [c \in MCCommits |->
               CASE c = 4 -> <<2, 3>> [] c = 1 -> <<>> [] OTHER -> <<c - 1>>]

(* Honest clocks, every commit in one second, and a branch dated before the *)
(* commit it grew from.                                                     *)
Honest == [c \in MCCommits |-> c]
SameSecond == [c \in MCCommits |-> 1]
Skewed == [c \in MCCommits |-> CASE c = 1 -> 3 [] c = 2 -> 1 [] OTHER -> 2]

(* Every content of the given files in the given commits; no file anywhere  *)
(* else.                                                                    *)
TreesOf(files, blobs) ==
  {[p \in Paths |-> IF p \in files THEN f[p] ELSE Absent] :
     f \in [files -> blobs \cup {Absent}]}
Trees(commits, files, blobs) ==
  {[c \in MCCommits |-> IF c \in commits THEN f[c] ELSE [p \in Paths |-> Absent]] :
     f \in [commits -> TreesOf(files, blobs)]}

(* Merges: every content of two files. *)
MergeRepositories ==
  [ head : {HeadCommit}, parents : {Diamond, Crossing}, time : {Honest, SameSecond, Skewed},
    tree : Trees(MCCommits, {t, s}, {x, y}), readable : {MCCommits} ]

(* Chains: every content of three files in the last three commits, so that  *)
(* renames may be ambiguous, undone, or meet a name used before; complete,  *)
(* or cut off above the root as in a shallow clone.                         *)
ChainRepositories ==
  [ head : {HeadCommit}, parents : {Chain}, time : {Honest},
    tree : Trees(2..4, {t, s, u}, {x, y}),
    readable : {MCCommits, MCCommits \ {1}} ]

(* Long histories for the early stops: two files, one of them with a single *)
(* content.                                                                 *)
FastRepositories ==
  [ head : {HeadCommit}, parents : {Chain, Diamond}, time : {Honest, Skewed},
    tree : Trees(MCCommits, {t}, {x, y}), readable : {MCCommits} ]

Options(max, since, scan, fast) ==
  [target |-> t, max |-> max, since |-> since, scan |-> scan, fast |-> fast, maxFiles |-> 2]

MergeQueries == {Options(0, 0, 0, FALSE), Options(2, 0, 0, FALSE), Options(0, 2, 0, FALSE)}
ChainQueries == {Options(0, 0, 0, FALSE)}
FastQueries == {Options(0, 0, scan, TRUE) : scan \in 0..3}
                 \cup {Options(max, 2, 0, TRUE) : max \in 0..2}
                 \cup {Options(max, 0, 2, FALSE) : max \in 0..1}

AllRepositories == MergeRepositories \cup ChainRepositories \cup FastRepositories
AllQueries == MergeQueries \cup ChainQueries \cup FastQueries

(* Every family of repositories with the queries it was made for.           *)
MCInit ==
  /\ \/ repo \in MergeRepositories /\ query \in MergeQueries
     \/ repo \in ChainRepositories /\ query \in ChainQueries
     \/ repo \in FastRepositories /\ query \in FastQueries
  /\ Init

(* The two blobs occur everywhere alike.                                    *)
Blobs == Permutations({x, y})

MCSpec == MCInit /\ [][Next]_vars
=============================================================================
