-------------------------------- MODULE Commands --------------------------------
(***************************************************************************)
(* The commands besides audit.  A process runs one of them                 *)
(* (commands/mod.rs): "related eval" is the module extended, diff and      *)
(* explain are instances; those that do not run rest where they start.     *)
(***************************************************************************)
EXTENDS OmissionEval

CONSTANTS
  DiffFiles, Histories, Diffs, Exclusions, DiffEvidence,   \* of RelatedDiff
  Paths, MaxCommits, PairEvidence, MaxLog              \* of Explain

VARIABLES
  command,                                             \* the one that runs
  history, changed, excluded, next, diffBackend, hinted, aggregate, related, status,
  commitLog, tracked, asked, answer

diffVars == <<history, changed, excluded, next, diffBackend, hinted, aggregate, related, status>>
explainVars == <<commitLog, tracked, asked, answer>>
allVars == <<command, evalVars, diffVars, explainVars>>

Diff == INSTANCE RelatedDiff WITH
          Files <- DiffFiles, EvidenceLimit <- DiffEvidence, backend <- diffBackend
Pair == INSTANCE Explain WITH EvidenceLimit <- PairEvidence, log <- commitLog

ASSUME CommandsAssumption ==
  EvalAssumption /\ Diff!DiffAssumption /\ Pair!ExplainAssumption

-----------------------------------------------------------------------------
(* Where a command that does not run rests: anywhere it may start.         *)
EvalRests == log = (CHOOSE l \in Logs : TRUE) /\ minimum = CHOOSE m \in Minimums : TRUE
DiffRests ==
  /\ history = (CHOOSE h \in Histories : TRUE) /\ changed = (CHOOSE c \in Diffs : TRUE)
  /\ excluded = CHOOSE e \in Exclusions : TRUE

CommandsInit ==
  /\ \/ command = "eval" /\ EvalInit /\ DiffRests
     \/ command = "diff" /\ EvalRests /\ Diff!Init
     \/ command = "explain" /\ EvalRests /\ DiffRests
  /\ EvalInit /\ Diff!Init /\ Pair!Init

CommandsNext ==
  \/ command = "eval" /\ EvalNext /\ UNCHANGED <<command, diffVars, explainVars>>
  \/ command = "diff" /\ Diff!Next /\ UNCHANGED <<command, evalVars, explainVars>>
  \/ command = "explain" /\ Pair!Next /\ UNCHANGED <<command, evalVars, diffVars>>

CommandsSpec == CommandsInit /\ [][CommandsNext]_allVars

-----------------------------------------------------------------------------
(* The evaluation measures the audit: the candidates of every task are     *)
(* those a real audit would show, and the totals are the sums of the rows. *)
EvalMeasuresAudit == command = "eval" => EvalInv

(* Renames of training are joined into one name, those of held-out commits *)
(* never reach training or one another.                                    *)
EvalSeesNoFuture == command = "eval" => NoLeak /\ ChainsAreJoined

(* With --exclude the answer of a diff is what all the changed files say   *)
(* together; without, it never says more.                                  *)
DiffIsWhole ==
  command = "diff" =>
    Diff!TypeOK /\ Diff!AggregateInv /\ Diff!ExcludeHidesNothing /\ Diff!CutOnlyLowers

(* The evidence of a merged result is what one sort and one cut at the end *)
(* would show, by the text of the dates; where the dates follow the log it *)
(* is the latest of all that was found.                                    *)
DiffEvidenceIsNewest == command = "diff" => Diff!EvidenceIsNewest

(* A pair is explained with all the commits that show it, under the name   *)
(* given for the first file, and the same way in either order.             *)
ExplainIsEvidence == command = "explain" => Pair!ExplainInv
=============================================================================
