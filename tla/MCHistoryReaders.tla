--------------------------- MODULE MCHistoryReaders ---------------------------
(* Small instances of the readers of src/history that work in batches.     *)
EXTENDS HistoryReaders

-----------------------------------------------------------------------------
(* Parallel: seven selected commits, one of which prints nothing, others   *)
(* the same: four chunks, the last of one commit, for four threads.        *)
MCPrinted == {"a", "b", "c", "nothing"}
MCSeeds == <<"a", "b", "nothing", "b", "c", "a", "c">>

(* Followed: three commits; the second may rename or copy a file (a copied *)
(* file may be edited in the same commit).  The old name is a target too,  *)
(* and one target is given twice.                                          *)
MCTargets == <<"new", "old", "new">>
Plain(files) == [files |-> files, from |-> "none", to |-> "nothing"]
Moving(files) == [files |-> files, from |-> "old", to |-> "new"]
MCRepos ==
  {<<Plain(a), b, Plain(c)>> :
     a \in {<<"new">>, <<"x", "new">>, <<"old", "new">>},
     b \in {Moving(<<"new">>), Moving(<<"new", "old", "x">>), Plain(<<"new", "x">>)},
     c \in {<<"old", "x">>, <<"x">>}}

(* Gitoxide: five commits in the order of the walk.  One job gives batches *)
(* of two, three jobs batches of three, so that hits, bounds and           *)
(* unreadable commits fall on either side of the end of a batch.           *)
C(listed, parent, old, new, others, time) ==
  [listed |-> listed, parent |-> parent, old |-> old, new |-> new,
   others |-> others, time |-> time]
Changed(time) == C(TRUE, "readable", "a", "b", {"other"}, time)
Other(time) == C(TRUE, "readable", "a", "a", {"other"}, time)     \* or a merge
Cut(time) == C(TRUE, "unreadable", "a", "b", {}, time)            \* at a shallow boundary
Root(time) == C(TRUE, "none", "a", "a", {}, time)
Tree(time) == C(TRUE, "readable", "a", "tree", {}, time)          \* a directory of that name
Lost == C(FALSE, "readable", "a", "b", {}, 2)
Some(time) == {Changed(time), Other(time), Cut(time)}

MCHistories ==
  {<<a, b, c, d, e>> : a \in Some(3), b \in {Changed(2), Root(2), Tree(2)}, c \in Some(3),
                       d \in {Changed(1), Other(1), Lost}, e \in {Changed(2), Cut(2)}}
    \cup {<<>>}
Walk(max, scan, since, jobs) ==
  [mode |-> "walk", max |-> max, scan |-> scan, since |-> since, jobs |-> jobs]
MCQueries ==
  {Walk(max, scan, since, jobs) :
     max \in {0, 1, 2}, scan \in {0, 3}, since \in {0, 2}, jobs \in {1, 3}}
    \cup {[mode |-> "selected", max |-> 2, scan |-> 0, since |-> 0, jobs |-> 1]}
=============================================================================
