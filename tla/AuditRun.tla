------------------------------- MODULE AuditRun -------------------------------
(***************************************************************************)
(* One run of "related audit" (src/commands/audit.rs) with the backend     *)
(* selection and fallback of src/engine.rs: options are checked, a backend *)
(* is chosen for the repository, the changed paths are read, every seed is *)
(* queried in turn - the configuration may fall back from pack-fast to git *)
(* on the way, and stays there - and the answers are aggregated, printed   *)
(* and turned into an exit code.                                           *)
(*                                                                         *)
(* What a backend would find for a path is given by world: a set of        *)
(* results, or Failed.                                                     *)
(***************************************************************************)
EXTENDS Aggregation

CONSTANTS
  Inputs,      \* command lines and repositories the run may meet
  Worlds,      \* backend -> history path -> set of results or Failed
  Failed,      \* the backend cannot read the repository
  NoThreshold  \* --fail-on-confidence not given

(* "Gix" stands for the backends that are neither named here nor the       *)
(* default: they read sha1 repositories only and are never exact.          *)
Backends == {"GitCli", "GitRemoveEmpty", "PackFast", "PackScan", "Gix"}

(* An input: the changed files with their history paths, in order; the     *)
(* paths that may be candidates; the excluded paths; the object format;    *)
(* and the options.                                                        *)
ASSUME InputsAssumption ==
  \A in \in Inputs :
    /\ in.changed \in Seq([path : Nat, history : Nat])
    /\ in.tracked \subseteq Nat
    /\ in.excluded \subseteq Nat
    /\ in.format \in {"sha1", "sha256"}
    /\ in.backend \in Backends
    /\ in.explicit \in BOOLEAN
    /\ ~in.explicit => in.backend \in {"PackFast", "GitCli"}
    /\ in.scanBounded \in BOOLEAN
    /\ in.top \in Nat \ {0}
    /\ in.minimum \in Confidence
    /\ in.failOn \in Confidence \cup {NoThreshold}

(* Every backend answers, or fails, for every path the inputs ask about.   *)
AskedPaths == UNION {{in.changed[i].history : i \in DOMAIN in.changed} : in \in Inputs}
ASSUME WorldsAssumption ==
  \A w \in Worlds : \A b \in Backends : \A h \in AskedPaths :
    w[b][h] = Failed \/ (w[b][h] \subseteq Result /\ IsFiniteSet(w[b][h]))

VARIABLES
  input,      \* the command line and the repository; never changes
  world,      \* what the backends would find; never changes
  phase,      \* "options", "backend", "paths", "query", "report" or "exit"
  backend,    \* config.backend
  hints,      \* hints shown: "unsupported", "fallback"
  answers,    \* results_by_seed, in seed order: [seed, results]
  askedOf,    \* the backend that answered each seed
  report,     \* the printed object
  code        \* exit code; -1 while the process runs

vars == <<input, world, phase, backend, hints, answers, askedOf, report, code>>

NoReport == [printed |-> FALSE]

Seeds == {input.changed[i].path : i \in DOMAIN input.changed}
ChangedPaths == Seeds \cup {input.changed[i].history : i \in DOMAIN input.changed}
SeedCount == Len(input.changed)

Init ==
  /\ input \in Inputs
  /\ world \in Worlds
  /\ phase = "options"
  /\ backend = input.backend
  /\ hints = {}
  /\ answers = <<>>
  /\ askedOf = <<>>
  /\ report = NoReport
  /\ code = -1

ExitWith(status) == phase' = "exit" /\ code' = status
Continue(next) == phase' = next /\ UNCHANGED code

-----------------------------------------------------------------------------
(* --fail-on-confidence below --min-confidence is refused.                 *)
ThresholdsRefused == input.failOn # NoThreshold /\ input.failOn < input.minimum

CheckOptions ==
  /\ phase = "options"
  /\ IF ThresholdsRefused THEN ExitWith(1) ELSE Continue("backend")
  /\ UNCHANGED <<input, world, backend, hints, answers, askedOf, report>>

(* configure_backend_for_repo *)
ReadsEveryFormat(b) == b \in {"GitCli", "GitRemoveEmpty"}

ConfigureBackend ==
  /\ phase = "backend"
  /\ IF input.format = "sha1" \/ ReadsEveryFormat(backend)
     THEN Continue("paths") /\ UNCHANGED <<backend, hints>>
     ELSE IF input.explicit
     THEN ExitWith(1) /\ UNCHANGED <<backend, hints>>
     ELSE /\ Continue("paths")
          /\ backend' = "GitCli"
          /\ hints' = hints \cup {"unsupported"}
  /\ UNCHANGED <<input, world, answers, askedOf, report>>

(* The repository cannot be discovered or a git command of the command     *)
(* itself fails.                                                           *)
GitCommandFails ==
  /\ phase \in {"backend", "paths"}
  /\ ExitWith(1)
  /\ UNCHANGED <<input, world, backend, hints, answers, askedOf, report>>

CollectPaths ==
  /\ phase = "paths"
  /\ IF SeedCount = 0 THEN ExitWith(1) ELSE Continue("query")
  /\ UNCHANGED <<input, world, backend, hints, answers, askedOf, report>>

-----------------------------------------------------------------------------
(* Mutant of Eligible: only the current names of changed files are left    *)
(* out, not the names their history goes by.                               *)
Eligible_IgnoreHistory(p) ==
  p \in input.tracked /\ p \notin Seeds /\ p \notin input.excluded

(* results.retain(...)                                                     *)
Eligible(p) ==
  /\ p \in input.tracked
  /\ p \notin ChangedPaths
  /\ p \notin input.excluded

(* What a seed contributes: the backend's best results within the per-seed *)
(* bound, and of those the ones that may be candidates.                    *)
Retained(found) ==
  {r \in TopResults(found, audit_query_limit(input.top)) : Eligible(r.path)}

AnswerOf(i, b) ==
  [seed |-> input.changed[i].path, results |-> Retained(world[b][input.changed[i].history])]
Fails(i, b) == world[b][input.changed[i].history] = Failed

(* The git backend chosen from the start reads the histories of all seeds  *)
(* together; one that cannot be read fails them all.                       *)
QueryTogether ==
  /\ phase = "query"
  /\ answers = <<>>
  /\ backend = "GitCli"
  /\ IF \E i \in 1..SeedCount : Fails(i, "GitCli")
     THEN ExitWith(1) /\ UNCHANGED <<answers, askedOf>>
     ELSE /\ answers' = [i \in 1..SeedCount |-> AnswerOf(i, "GitCli")]
          /\ askedOf' = [i \in 1..SeedCount |-> "GitCli"]
          /\ Continue("report")
  /\ UNCHANGED <<input, world, backend, hints, report>>

(* Mutant of FallsBack: an explicit choice is overridden.                  *)
FallsBack_WhenExplicit == backend = "PackFast"
FallsBack == backend = "PackFast" /\ ~input.explicit

Answer(i, b) ==
  /\ answers' = Append(answers, AnswerOf(i, b))
  /\ askedOf' = Append(askedOf, b)
  /\ Continue(IF i = SeedCount THEN "report" ELSE "query")

(* The next seed, under the configuration the seeds before it have left    *)
(* (with_default_pack_fallback).                                           *)
NextSeed == Len(answers) + 1
InLoop == phase = "query" /\ ~(answers = <<>> /\ backend = "GitCli")

QuerySeed ==
  /\ InLoop
  /\ ~Fails(NextSeed, backend)
  /\ Answer(NextSeed, backend)
  /\ UNCHANGED <<input, world, backend, hints, report>>

QueryFallsBack ==
  /\ InLoop
  /\ Fails(NextSeed, backend)
  /\ FallsBack
  /\ ~Fails(NextSeed, "GitCli")
  /\ backend' = "GitCli"
  /\ hints' = hints \cup {"fallback"}
  /\ Answer(NextSeed, "GitCli")
  /\ UNCHANGED <<input, world, report>>

QueryFails ==
  /\ InLoop
  /\ Fails(NextSeed, backend)
  /\ FallsBack => Fails(NextSeed, "GitCli")
  /\ ExitWith(1)
  /\ UNCHANGED <<input, world, backend, hints, answers, askedOf, report>>

-----------------------------------------------------------------------------
(* history_coverage: is the history of backend b only an approximation?    *)
Approximate(b) ==
  ~(\/ b \in {"GitCli", "GitRemoveEmpty"}
    \/ b = "PackScan" /\ ~input.scanBounded)

Enforced(shown) ==
  IF input.failOn = NoThreshold THEN {} ELSE {c \in shown : c.confidence >= input.failOn}

(* Mutant of ExitStatus: the number of findings is the exit code.          *)
ExitStatus_Count(shown) == Cardinality(Enforced(shown))
ExitStatus(shown) == IF Enforced(shown) # {} THEN 3 ELSE 0

(* Aggregate, print the whole object, then decide the exit code.           *)
Report ==
  /\ phase = "report"
  /\ LET result == aggregate_audit_results(Seeds, answers, input.minimum, input.top)
     IN  /\ report' = [ printed     |-> TRUE,
                        shown       |-> result.shown,
                        filtered    |-> result.filtered,
                        hints       |-> hints,
                        findings    |-> Cardinality(Enforced(result.shown)),
                        approximate |-> Approximate(backend) ]
         /\ ExitWith(ExitStatus(result.shown))
  /\ UNCHANGED <<input, world, backend, hints, answers, askedOf>>

(* Standard output cannot be written: whatever was found, this is a        *)
(* runtime error.                                                          *)
ReportFails ==
  /\ phase = "report"
  /\ ExitWith(1)
  /\ UNCHANGED <<input, world, backend, hints, answers, askedOf, report>>

Exited == phase = "exit" /\ UNCHANGED vars

Next ==
  \/ CheckOptions \/ ConfigureBackend \/ GitCommandFails \/ CollectPaths
  \/ QueryTogether \/ QuerySeed \/ QueryFallsBack \/ QueryFails
  \/ Report \/ ReportFails
  \/ Exited

Spec == Init /\ [][Next]_vars

-----------------------------------------------------------------------------
(* The phases, and one recorded answer for every seed asked so far.        *)
TypeOK ==
  /\ phase \in {"options", "backend", "paths", "query", "report", "exit"}
  /\ backend \in Backends
  /\ hints \subseteq {"unsupported", "fallback"}
  /\ code \in {-1, 0, 1, 3}
  /\ phase = "exit" <=> code # -1
  /\ Len(answers) = Len(askedOf)
  /\ Len(answers) <= SeedCount

(* Everything the seeds found that may be a candidate, before any bound.   *)
AllFound(i) == world[askedOf[i]][input.changed[i].history]
Unbounded == [i \in DOMAIN answers |->
                [seed    |-> input.changed[i].path,
                 results |-> {r \in AllFound(i) : Eligible(r.path)}]]

(* The exit code says what was found and never speaks before the report:   *)
(* 3 exactly when a printed report shows a candidate at the threshold, and *)
(* --top cannot hide the last such candidate.                              *)
ExitCodeTellsFindings ==
  /\ code \in {0, 3} => report.printed
  /\ report.printed /\ input.failOn # NoThreshold =>
       (code = 3 <=> \E c \in Candidates(Seeds, answers) : c.confidence >= input.failOn)
  /\ code = 3 => input.failOn # NoThreshold

(* Neither a changed file, nor the old name of one, nor a deleted or       *)
(* excluded file is suggested, whichever backend found it.                 *)
OnlyOmissionsSuggested ==
  report.printed =>
    \A c \in report.shown :
      /\ c.path \in input.tracked \ input.excluded
      /\ \A i \in DOMAIN input.changed :
           c.path \notin {input.changed[i].path, input.changed[i].history}

(* An answer that did not come from the requested backend is never passed  *)
(* off as one: the report carries a hint, and an explicitly chosen backend *)
(* is never replaced.                                                      *)
FallbackVisible ==
  \A i \in DOMAIN askedOf :
    askedOf[i] # input.backend =>
      /\ ~input.explicit
      /\ askedOf[i] = "GitCli"
      /\ report.printed => report.hints # {}

(* Where no seed ran into its bound, a candidate that is not shown is one  *)
(* of low confidence or is outranked by --top shown ones.                  *)
NothingHiddenWithinBudget ==
  report.printed
  /\ (\A i \in DOMAIN answers : Cardinality(AllFound(i)) <= audit_query_limit(input.top)) =>
       \A c \in Candidates(Seeds, Unbounded) :
         \/ c \in report.shown
         \/ c.confidence < input.minimum
         \/ /\ Cardinality(report.shown) = input.top
            /\ \A d \in report.shown :
                 \/ d.confidence > c.confidence
                 \/ d.confidence = c.confidence /\ d.support >= c.support

(* What docs/json-output.md says of history_coverage: it describes the     *)
(* actual audit.  A coverage that is not approximate is not claimed for an *)
(* audit in which some seed was answered by an approximate backend.        *)
CoverageDescribesAudit ==
  report.printed /\ ~report.approximate =>
    \A i \in DOMAIN askedOf : ~Approximate(askedOf[i])
=============================================================================
