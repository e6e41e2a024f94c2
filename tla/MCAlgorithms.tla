----------------------------- MODULE MCAlgorithms -----------------------------
(***************************************************************************)
(* The algorithms on data below the readers and commands, each on bounded  *)
(* inputs: scoring (the module extended), the diff of two trees, taking    *)
(* apart the output of git log, and the rules for paths.  One of them is   *)
(* given inputs, the others rest where they start.                         *)
(***************************************************************************)
EXTENDS DirectScoring, TLC

VARIABLES
  algorithm,                                            \* the one given inputs
  head, parent, files, limited,
  mode, log, rest, header, parsed, pc,
  pattern, path, base, input, absolute

treeVars == <<head, parent, files, limited>>
logVars == <<mode, log, rest, header, parsed, pc>>
pathVars == <<pattern, path, base, input, absolute>>
allVars == <<algorithm, scoringVars, treeVars, logVars, pathVars>>

-----------------------------------------------------------------------------
(* Scoring: histories of up to three commits: alone, with one or two       *)
(* companions, a merge (no files), a commit of too many files; three       *)
(* times; two zones, one of them west.                                     *)
MCShare == <<12, 8, 6>>
MCDecayed == [age \in 0..2 |-> 2^(2 - age)]
MCChanges ==
  [files : {{0}, {0, 1}, {0, 2}, {0, 1, 2}, {}, {0, 1, 2, 3}}, time : 1..3, offset : {0, -1}]

(* Trees with the names a, a. and a0, which a directory a comes between,   *)
(* each a file of one of two contents or a directory; a may hold a         *)
(* directory of its own, one level deeper than is allowed, which loses or  *)
(* gains a file.                                                           *)
File(content) == [blob |-> content]
Dir(f) == [entries |-> f]
A == <<97>>
ADot == <<97, 46>>
AZero == <<97, 48>>
B == <<98>>
Inner == {[x \in {A} |-> File(1)], [x \in {A} |-> File(2)], [x \in {A, B} |-> File(1)],
          [x \in {A, B} |-> IF x = A THEN File(1) ELSE Dir([y \in {A} |-> File(1)])],
          [x \in {A, B} |-> IF x = A THEN File(2) ELSE Dir([y \in {A, B} |-> File(1)])]}
NoEntry == [none |-> TRUE]
Entries == {NoEntry, File(1), File(2)} \cup {Dir(f) : f \in Inner}
Present(e) == {n \in DOMAIN e : e[n] # NoEntry}
MCTrees ==
  {Dir([n \in Present(e) |-> e[n]]) :
     e \in {A :> a @@ ADot :> d @@ AZero :> z :
              a \in Entries, d \in {NoEntry, File(1), Dir([x \in {B} |-> File(1)])},
              z \in {NoEntry, File(1)}}}

(* Logs of up to three commits with paths that begin with a line feed, are *)
(* one, hold a separator, look like a status, have a component that begins *)
(* with a dot or are no text (LF is 10, US 31, "/" 47, "." 46, 255 is in   *)
(* no text), and with subjects that are empty, hold separators or are no   *)
(* text; one commit has no date.                                           *)
Hash == <<97>>
Ordinary == <<97>>
NoText == <<97, 255>>
StatusR == <<82>>
MCPaths == {Ordinary, <<10, 97>>, <<10>>, StatusR, <<97, 47, 46, 98>>, NoText}
One == <<49>>
Usual == <<Hash, One, <<50, 43, 48, 48, 58, 48, 48>>, <<>>>>
Headers == {<<Hash, One, <<50, 43, 48, 57>>, <<31, 10, 31>>>>, <<Hash, One, <<50>>, <<255>>>>,
            <<Hash, <<>>, <<>>, <<90>>>>}
NameLists == {<<>>} \cup {<<<<p>>>> : p \in MCPaths} \cup {<<<<p>>, <<q>>>> : p \in MCPaths, q \in {<<10>>}}
StatusLists ==                       \* M p; R p R, A p; C p R, T a
  {<<>>} \cup {<<<<<<77>>, p>>>> : p \in MCPaths}
    \cup {<<<<<<82>>, p, StatusR>>, <<<<65>>, p>>>> : p \in {Ordinary, <<10, 97>>}}
    \cup {<<<<<<67>>, p, StatusR>>, <<<<84>>, Ordinary>>>> : p \in {<<10, 97>>, NoText}}
MCModes == {"names", "renames", "follow"}
MCPrints ==
  [m \in MCModes |->
     LET lists == IF m = "names" THEN NameLists ELSE StatusLists
     IN  {[fields |-> IF m = "follow" THEN <<Hash>> ELSE Usual, changes |-> x] : x \in lists}
           \cup IF m = "follow" THEN {}
                ELSE {[fields |-> h, changes |-> x] :
                        h \in Headers, x \in {y \in lists : Len(y) <= 1 /\ \A i \in DOMAIN y : Ordinary = y[i][Len(y[i])]}}]

(* Patterns of up to four characters on paths of up to five; up to five    *)
(* components typed at the root or in a directory of it.                   *)
Trees == INSTANCE TreeDiff WITH
           Trees <- MCTrees, Limits <- {1, 2}, MAX_TREE_DIFF_DEPTH <- 1
Framing == INSTANCE LogFraming WITH
             Modes <- MCModes, Commits <- MCPrints, MaxCommits <- 3
PathsOf == INSTANCE PathRules WITH
             Letters <- {"a", "b"}, Names <- {"r", "d", "f"}, Root <- <<"r">>,
             Bases <- {<<"r">>, <<"r", "d">>}, MaxPattern <- 4, MaxPath <- 5, MaxInput <- 5

-----------------------------------------------------------------------------
TreesRest == head = Dir(<<>>)
LogRests == mode = "names"
PathsRest == base = <<"r">> /\ absolute = FALSE

AlgorithmsInit ==
  /\ \/ algorithm = "scoring" /\ TreesRest /\ LogRests /\ PathsRest
     \/ algorithm = "trees" /\ head \in MCTrees /\ LogRests /\ PathsRest
     \/ algorithm = "framing" /\ TreesRest /\ mode \in MCModes /\ PathsRest
     \/ algorithm = "paths" /\ TreesRest /\ LogRests
        /\ base \in {<<"r">>, <<"r", "d">>} /\ absolute \in BOOLEAN
  /\ ScoringInit /\ Trees!Init /\ Framing!Init /\ PathsOf!Init

AlgorithmsNext ==
  \/ algorithm = "scoring" /\ ScoringNext /\ UNCHANGED <<algorithm, treeVars, logVars, pathVars>>
  \/ algorithm = "trees" /\ Trees!Next /\ UNCHANGED <<algorithm, scoringVars, logVars, pathVars>>
  \/ algorithm = "framing" /\ Framing!Next /\ UNCHANGED <<algorithm, scoringVars, treeVars, pathVars>>
  \/ algorithm = "paths" /\ PathsOf!Next /\ UNCHANGED <<algorithm, scoringVars, treeVars, logVars>>

AlgorithmsSpec == AlgorithmsInit /\ [][AlgorithmsNext]_allVars

-----------------------------------------------------------------------------
(* The merge of two trees finds each file that differs, tells when it did  *)
(* not look at all of them, refuses only what is too deep, and a look-up   *)
(* finds what is there.                                                    *)
DiffIsRight ==
  algorithm = "trees" =>
    /\ Trees!TypeOK
    /\ Trees!DiffIsDifference /\ Trees!RefusedOnlyIfDeep
    /\ Trees!LimitTellsBroad /\ Trees!LookupFinds

(* Whatever paths and subjects are made of, the records read are the       *)
(* commits printed, and the output is refused only at a commit that is no  *)
(* UTF-8 text or has no date.                                              *)
LogIsRead == algorithm = "framing" => Framing!TypeOK /\ Framing!ReadIsLog

(* A pattern excludes what its stars could stand for, and whole names      *)
(* only; a name typed by the user stays below the root or is refused.      *)
PathsAreUnderstood ==
  algorithm = "paths" =>
    PathsOf!WildcardIsGlob /\ PathsOf!ExcludesWholeNames /\ PathsOf!InputStaysInside
=============================================================================
