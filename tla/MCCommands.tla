------------------------------ MODULE MCCommands ------------------------------
EXTENDS Commands

(* Eval: logs of two held-out and four training commits over five names;   *)
(* 1 may be renamed to 5, and 5 to 4, in training and after it.  No name   *)
(* is given up twice or taken back.                                        *)
C(files, renames) == [files |-> files, renames |-> renames]
To5 == <<[old |-> 1, new |-> 5]>>
To4 == <<[old |-> 5, new |-> 4]>>
MCLogs ==
  {<<a, b, c, d, e, e>> :
     a \in {C({1, 2, 3}, <<>>), C({5, 2}, To5), C({5, 2}, <<>>)},
     b \in {C({5, 2, 3}, To5), C({2}, <<>>)},
     c \in {C({4, 2}, To4), C({1, 2, 3}, <<>>), C({1, 2, 3, 4}, <<>>)},
     d \in {C({5, 3}, To5), C({3, 4}, <<>>)},
     e \in {C({1, 2, 3}, <<>>), C({2, 4}, <<>>)}}
MCMinimums == {0, 1, 2}

(* Diff: five files and histories of up to three commits; one to three     *)
(* changed files; a file can be left out that would be among the best.     *)
(* Dates follow the log, or are all the same with the hashes in the other  *)
(* order, or the same but for the offsets of three zones, or are those of  *)
(* a clock that was set back.                                              *)
MCFiles == 1..5
Commits == {{1, 2}, {1, 4}, {2, 4}, {3, 5}, {1, 2, 3, 4}, {1, 2, 4, 5}, {1, 3, 4, 5}, {2, 3, 4, 5}}
Dated(t, o, h) == [time |-> t, offset |-> o, hash |-> h]
Dates ==
  {<<Dated(3, 0, 1), Dated(2, 0, 2), Dated(1, 0, 3)>>,
   <<Dated(1, 0, 3), Dated(1, 0, 2), Dated(1, 0, 1)>>,
   <<Dated(3, -1, 1), Dated(2, 0, 2), Dated(1, 1, 3)>>,
   <<Dated(1, 0, 1), Dated(3, 0, 2), Dated(2, 0, 3)>>}
DatedHistories ==
  {[i \in 1..n |-> [files |-> c[i], time |-> d[i].time, offset |-> d[i].offset, hash |-> d[i].hash]] :
     n \in 1..3, c \in [1..3 -> Commits], d \in Dates}
MCHistories == DatedHistories
MCDiffs == {<<>>, <<1>>, <<2, 1>>, <<1, 2, 3>>}
MCExclusions == {{}, {3}, {4}}

(* Explain: two files at the root, one of them with namesakes in two       *)
(* directories; a commit may have one file too many, a history one commit  *)
(* too many.                                                               *)
MCPaths == {<<"a">>, <<"c">>, <<"docs", "c">>, <<"lib", "c">>}
=============================================================================
