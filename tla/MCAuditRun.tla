----------------------------- MODULE MCAuditRun -----------------------------
(* Inputs and histories for model checking AuditRun.  Paths: 1 and 2 are    *)
(* changed, 3 to 5 are not; 1 may be a rename of 5, whose removal is not    *)
(* staged (the index then holds both names).                                *)
EXTENDS AuditRun

Found(path, cochanges, score) == [path |-> path, cochanges |-> cochanges, score |-> score]

(* Nothing; a weak and a strong companion; the strong one ranked below a    *)
(* changed file and a medium one; a medium one below what may be an old     *)
(* name.                                                                    *)
FoundSets ==
  { {},
    {Found(3, 1, 2), Found(4, 3, 1)},
    {Found(1, 2, 3), Found(2, 2, 3), Found(3, 2, 2), Found(5, 3, 1)},
    {Found(3, 2, 1), Found(5, 2, 2)} }

PackAnswers == FoundSets \cup {Failed}
GitAnswers == {{Found(3, 1, 2), Found(4, 3, 1)}, {Found(4, 2, 1)}, Failed}

Targets == {1, 2, 5}

(* No file is its own companion.                                            *)
Histories(found) ==
  { [h \in Targets |->
       LET answer == IF h = 2 THEN second ELSE first
       IN  IF answer = Failed THEN Failed ELSE {r \in answer : r.path # h}] :
      first \in found, second \in found }

MCWorlds ==
  { [b \in Backends |-> IF ReadsEveryFormat(b) THEN git ELSE pack] :
      pack \in Histories(PackAnswers), git \in Histories(GitAnswers) }

Plain == <<[path |-> 1, history |-> 1], [path |-> 2, history |-> 2]>>
Renamed == <<[path |-> 1, history |-> 5], [path |-> 2, history |-> 2]>>

BackendChoices ==
  {<<"PackFast", FALSE>>, <<"GitCli", FALSE>>, <<"PackFast", TRUE>>, <<"PackScan", TRUE>>}

MCInputs ==
  { [ changed |-> changed, tracked |-> 1..5, excluded |-> excluded,
      format |-> format, backend |-> choice[1], explicit |-> choice[2],
      scanBounded |-> scanBounded, top |-> top, minimum |-> thresholds[1],
      failOn |-> thresholds[2] ] :
      changed \in {<<>>, Plain, Renamed}, excluded \in {{}, {4}},
      format \in {"sha1", "sha256"}, choice \in BackendChoices, scanBounded \in {FALSE},
      top \in {1, 2},
      thresholds \in {<<Low, NoThreshold>>, <<Medium, Low>>, <<Medium, High>>, <<Low, Medium>>} }
=============================================================================
