---------------------------- MODULE CommandsProofs ----------------------------
(***************************************************************************)
(* Proofs about the commands, for all repositories, histories and options. *)
(*                                                                         *)
(* Of audit, in AuditRun: the inductive invariant ties every recorded      *)
(* answer to the backend that gave it and the report to the answers; what  *)
(* a report says then follows from facts about the aggregation alone:      *)
(* candidates are strictly and totally ordered by compare_candidates, so   *)
(* that keeping the best of them never hides the most confident one.       *)
(*                                                                         *)
(* Of eval, diff and explain, in Commands: what is counted so far is tied  *)
(* to what has been looked at (for eval the remembered answers, for diff   *)
(* the reasons found, for explain the commits that show the pair), and     *)
(* what a command says follows when everything has been looked at.         *)
(***************************************************************************)
EXTENDS AuditRun, Commands, FiniteSetFacts, SequenceTheorems, TLAPS

-----------------------------------------------------------------------------
(* A table of n rows is a sequence of length n.                            *)
LEMMA TableIsSeq ==
  ASSUME NEW S, NEW n \in Nat, NEW f \in [1..n -> S]
  PROVE  f \in Seq(S) /\ Len(f) = n
<1>1. f \in Seq(S)
  BY SeqDef
<1>2. DOMAIN f = 1..n /\ DOMAIN f = 1..Len(f) /\ Len(f) \in Nat
  BY <1>1, LenProperties
<1> QED BY <1>1, <1>2

(* The options are the ones the command accepts.                           *)
LEMMA InputTypes ==
  ASSUME input \in Inputs
  PROVE  /\ input.changed \in Seq([path : Nat, history : Nat])
         /\ SeedCount \in Nat /\ DOMAIN input.changed = 1..SeedCount
         /\ input.tracked \subseteq Nat
         /\ input.backend \in Backends
         /\ input.explicit \in BOOLEAN
         /\ input.top \in Nat \ {0}
         /\ input.minimum \in Confidence
         /\ input.failOn \in Confidence \cup {NoThreshold}
         /\ \A i \in DOMAIN input.changed :
              /\ input.changed[i] \in [path : Nat, history : Nat]
              /\ input.changed[i].history \in AskedPaths
<1>1. input.changed \in Seq([path : Nat, history : Nat])
  BY InputsAssumption DEF InputsAssumption
<1>2. SeedCount \in Nat /\ DOMAIN input.changed = 1..SeedCount
  BY <1>1 DEF SeedCount
<1>3. \A i \in DOMAIN input.changed : input.changed[i].history \in AskedPaths
  BY DEF AskedPaths
<1>4. \A i \in DOMAIN input.changed : input.changed[i] \in [path : Nat, history : Nat]
  <2> SUFFICES ASSUME NEW i \in DOMAIN input.changed
               PROVE  input.changed[i] \in [path : Nat, history : Nat]
    OBVIOUS
  <2>1. i \in 1..Len(input.changed)
    BY <1>1
  <2> QED BY <1>1, <2>1, ElementOfSeq
<1> QED BY <1>1, <1>2, <1>3, <1>4, InputsAssumption DEF InputsAssumption

(* What a backend finds where it does not fail, and what is retained of it.*)
LEMMA FoundTypes ==
  ASSUME input \in Inputs, world \in Worlds, NEW i \in DOMAIN input.changed, NEW b \in Backends,
         ~Fails(i, b)
  PROVE  LET found == world[b][input.changed[i].history]
         IN  /\ found \subseteq Result /\ IsFiniteSet(found)
             /\ Retained(found) \subseteq {r \in found : Eligible(r.path)}
<1>1. input.changed[i].history \in AskedPaths
  BY InputTypes
<1> QED BY <1>1, WorldsAssumption DEF WorldsAssumption, Fails, Retained, TopResults

(* An answer is asked for while there are seeds left; every answer is the  *)
(* one its backend gives, and none of them failed.                         *)
AnswersInv ==
  /\ input \in Inputs /\ world \in Worlds
  /\ answers \in Seq([seed : Nat, results : SUBSET Result])
  /\ askedOf \in Seq(Backends)
  /\ phase \in {"options", "backend", "paths"} => answers = <<>>
  /\ phase = "query" => Len(answers) < SeedCount
  /\ phase = "report" => Len(answers) = SeedCount
  /\ \A i \in DOMAIN answers :
       ~Fails(i, askedOf[i]) /\ answers[i] = AnswerOf(i, askedOf[i])

(* A backend other than the requested one is git, was not chosen against   *)
(* an explicit wish, and has left a hint.                                  *)
FallbackInv ==
  /\ backend # input.backend => ~input.explicit /\ backend = "GitCli" /\ hints # {}
  /\ \A i \in DOMAIN askedOf :
       askedOf[i] # input.backend => ~input.explicit /\ askedOf[i] = "GitCli" /\ hints # {}

(* The report is the aggregate of all answers, and the exit code is the    *)
(* one it stands for; without a report the process has not succeeded.      *)
Aggregate == aggregate_audit_results(Seeds, answers, input.minimum, input.top)
ReportInv ==
  /\ phase \in {"backend", "paths", "query", "report"} => ~ThresholdsRefused
  /\ \/ report = NoReport /\ code \in {-1, 1}
     \/ /\ phase = "exit" /\ ~ThresholdsRefused
        /\ report.printed /\ report.shown = Aggregate.shown /\ report.hints = hints
        /\ code = ExitStatus(report.shown)

(* What every step keeps. *)
IInv == TypeOK /\ AnswersInv /\ FallbackInv /\ ReportInv

(* The initial states satisfy the invariant.                               *)
LEMMA InitIInv == Init => IInv
<1> SUFFICES ASSUME Init PROVE IInv
  OBVIOUS
<1>1. input \in Inputs /\ world \in Worlds /\ SeedCount \in Nat /\ input.backend \in Backends
  BY InputTypes DEF Init
<1>2. DOMAIN answers = {} /\ DOMAIN askedOf = {} /\ Len(answers) = 0 /\ Len(askedOf) = 0
  BY DEF Init
<1>3. TypeOK
  BY <1>1, <1>2 DEF Init, TypeOK
<1>4. AnswersInv
  BY <1>1, <1>2 DEF Init, AnswersInv
<1>5. FallbackInv /\ ReportInv
  BY <1>2 DEF Init, FallbackInv, ReportInv
<1> QED BY <1>3, <1>4, <1>5 DEF IInv

(* Recording the answer of backend b to the next seed.                     *)
LEMMA AnswerRecorded ==
  ASSUME IInv, phase = "query", UNCHANGED <<input, world>>, NEW b \in Backends,
         ~Fails(NextSeed, b), Answer(NextSeed, b)
  PROVE  /\ AnswersInv'
         /\ Len(answers') = Len(askedOf') /\ Len(answers') <= SeedCount
         /\ \A i \in DOMAIN askedOf' : (i \in DOMAIN askedOf /\ askedOf'[i] = askedOf[i])
                                       \/ askedOf'[i] = b
         /\ phase' \in {"query", "report"} /\ code' = code
<1> TypeOK /\ AnswersInv
  BY DEF IInv
<1>1. /\ answers \in Seq([seed : Nat, results : SUBSET Result]) /\ askedOf \in Seq(Backends)
      /\ Len(answers) \in Nat /\ Len(askedOf) = Len(answers) /\ Len(answers) < SeedCount
      /\ SeedCount \in Nat
  BY InputTypes DEF AnswersInv, TypeOK
<1>2. NextSeed \in DOMAIN input.changed
  BY <1>1, InputTypes DEF NextSeed, AnswersInv
<1>3. AnswerOf(NextSeed, b) \in [seed : Nat, results : SUBSET Result]
  <2>1. input.changed[NextSeed] \in [path : Nat, history : Nat]
    BY <1>2, InputTypes DEF AnswersInv
  <2>2. Retained(world[b][input.changed[NextSeed].history]) \subseteq Result
    BY <1>2, FoundTypes DEF AnswersInv
  <2> QED BY <2>1, <2>2 DEF AnswerOf
<1>4. /\ answers' = Append(answers, AnswerOf(NextSeed, b)) /\ askedOf' = Append(askedOf, b)
      /\ phase' = (IF NextSeed = SeedCount THEN "report" ELSE "query") /\ code' = code
  BY DEF Answer, Continue
<1>5. /\ answers' \in Seq([seed : Nat, results : SUBSET Result]) /\ askedOf' \in Seq(Backends)
      /\ Len(answers') = Len(answers) + 1 /\ Len(askedOf') = Len(answers) + 1
      /\ DOMAIN answers' = 1..(Len(answers) + 1) /\ DOMAIN askedOf' = 1..(Len(answers) + 1)
      /\ DOMAIN answers = 1..Len(answers) /\ DOMAIN askedOf = 1..Len(answers)
      /\ \A i \in DOMAIN answers : answers'[i] = answers[i] /\ askedOf'[i] = askedOf[i]
      /\ answers'[NextSeed] = AnswerOf(NextSeed, b) /\ askedOf'[NextSeed] = b
  BY <1>1, <1>3, <1>4, AppendProperties DEF NextSeed
<1>6. \A i \in DOMAIN answers' : i \in DOMAIN answers \/ i = NextSeed
  BY <1>1, <1>5 DEF NextSeed
<1>7. \A i \in DOMAIN answers' :
        ~Fails(i, askedOf'[i]) /\ answers'[i] = AnswerOf(i, askedOf'[i])
  <2> SUFFICES ASSUME NEW i \in DOMAIN answers'
               PROVE  ~Fails(i, askedOf'[i]) /\ answers'[i] = AnswerOf(i, askedOf'[i])
    OBVIOUS
  <2>1. CASE i \in DOMAIN answers
    BY <1>5, <2>1 DEF AnswersInv
  <2>2. CASE i = NextSeed
    BY <1>5, <2>2
  <2> QED BY <1>6, <2>1, <2>2
<1>8. (\A i \in DOMAIN answers : ~Fails(i, askedOf[i]) /\ answers[i] = AnswerOf(i, askedOf[i]))'
  BY <1>7 DEF AnswerOf, Fails, Retained, Eligible, ChangedPaths, Seeds
<1>9. AnswersInv'
  <2>1. SeedCount' = SeedCount
    BY DEF SeedCount
  <2>2. phase' = "query" => Len(answers') < SeedCount
    BY <1>1, <1>4, <1>5 DEF NextSeed
  <2>3. phase' = "report" => Len(answers') = SeedCount
    BY <1>1, <1>4, <1>5 DEF NextSeed
  <2>4. phase' \notin {"options", "backend", "paths"}
    BY <1>4
  <2> QED BY <1>5, <1>8, <2>1, <2>2, <2>3, <2>4 DEF AnswersInv
<1> QED BY <1>1, <1>4, <1>5, <1>6, <1>9 DEF NextSeed

(* Steps that record no answer.                                            *)
LEMMA AnswersKept ==
  ASSUME IInv, UNCHANGED <<input, world, answers, askedOf>>,
         phase' \in {"options", "backend", "paths"} => phase \in {"options", "backend", "paths"},
         phase' = "query" => phase = "query" \/ (phase = "paths" /\ SeedCount # 0),
         phase' = "report" => phase = "report"
  PROVE  AnswersInv'
<1> AnswersInv
  BY DEF IInv
<1>1. SeedCount \in Nat /\ SeedCount' = SeedCount
  BY InputTypes DEF AnswersInv, SeedCount
<1>2. phase' = "query" => Len(answers') < SeedCount
  <2>1. CASE phase = "query"
    BY <2>1 DEF AnswersInv
  <2>2. CASE phase = "paths" /\ SeedCount # 0
    <3>1. Len(answers) = 0
      BY <2>2 DEF AnswersInv
    <3> QED BY <1>1, <2>2, <3>1
  <2> QED BY <2>1, <2>2
<1>3. (\A i \in DOMAIN answers : ~Fails(i, askedOf[i]) /\ answers[i] = AnswerOf(i, askedOf[i]))'
  <2>1. \A i \in DOMAIN answers' : ~Fails(i, askedOf'[i]) /\ answers'[i] = AnswerOf(i, askedOf'[i])
    BY DEF AnswersInv
  <2> QED BY <2>1 DEF AnswerOf, Fails, Retained, Eligible, ChangedPaths, Seeds
<1> QED BY <1>1, <1>2, <1>3 DEF AnswersInv

(* Steps after which nothing has been reported.                            *)
LEMMA NothingReported ==
  ASSUME IInv, UNCHANGED <<input, report>>, phase # "exit",
         \/ phase' = "exit" /\ code' = 1
         \/ phase' \in {"paths", "query", "report"} /\ phase # "options" /\ UNCHANGED code
  PROVE  ReportInv'
<1> TypeOK /\ ReportInv
  BY DEF IInv
<1>1. report = NoReport /\ code = -1
  BY DEF ReportInv, TypeOK
<1>2. ThresholdsRefused' = ThresholdsRefused
  BY DEF ThresholdsRefused
<1>3. phase' \in {"backend", "paths", "query", "report"} => ~ThresholdsRefused
  BY DEF ReportInv, TypeOK
<1> QED BY <1>1, <1>2, <1>3 DEF ReportInv, NoReport

(* Every step keeps the invariant.                                         *)
LEMMA StepIInv ==
  ASSUME IInv, [Next]_vars
  PROVE  IInv'
<1> TypeOK /\ AnswersInv /\ FallbackInv /\ ReportInv
  BY DEF IInv
<1>1. input \in Inputs /\ SeedCount \in Nat
  BY InputTypes DEF AnswersInv
<1>2. CASE CheckOptions
  <2>1. UNCHANGED <<input, world, backend, hints, answers, askedOf, report>>
        /\ phase = "options"
        /\ \/ ThresholdsRefused /\ phase' = "exit" /\ code' = 1
           \/ ~ThresholdsRefused /\ phase' = "backend" /\ code' = code
    BY <1>2 DEF CheckOptions, ExitWith, Continue
  <2>2. AnswersInv'
    BY <2>1, AnswersKept
  <2>3. SeedCount' = SeedCount /\ ThresholdsRefused' = ThresholdsRefused
    BY <2>1 DEF SeedCount, ThresholdsRefused
  <2>4. report = NoReport /\ code = -1
    BY <2>1 DEF ReportInv, TypeOK
  <2>5. TypeOK' /\ FallbackInv'
    BY <2>1, <2>3, <2>4 DEF TypeOK, FallbackInv
  <2>6. ReportInv'
    BY <2>1, <2>3, <2>4 DEF ReportInv, NoReport
  <2> QED BY <2>2, <2>5, <2>6 DEF IInv
<1>3. CASE ConfigureBackend
  <2>1. /\ UNCHANGED <<input, world, answers, askedOf, report>>
        /\ phase = "backend"
        /\ \/ phase' = "exit" /\ code' = 1
           \/ phase' = "paths" /\ code' = code
        /\ \/ UNCHANGED <<backend, hints>>
           \/ ~input.explicit /\ backend' = "GitCli" /\ hints' = hints \cup {"unsupported"}
    BY <1>3 DEF ConfigureBackend, ExitWith, Continue
  <2>2. AnswersInv'
    BY <2>1, AnswersKept
  <2>3. SeedCount' = SeedCount /\ code = -1
    BY <2>1 DEF SeedCount, TypeOK
  <2>4. TypeOK'
    <3>1. backend' \in Backends /\ hints' \subseteq {"unsupported", "fallback"}
      BY <2>1 DEF TypeOK, Backends
    <3>2. phase' \in {"exit", "paths"} /\ code' \in {-1, 1} /\ (phase' = "exit" <=> code' # -1)
      BY <2>1, <2>3
    <3> QED BY <2>1, <2>3, <3>1, <3>2 DEF TypeOK
  <2>5. FallbackInv'
    <3>1. CASE UNCHANGED <<backend, hints>>
      BY <2>1, <3>1 DEF FallbackInv
    <3>2. CASE ~input.explicit /\ backend' = "GitCli" /\ hints' = hints \cup {"unsupported"}
      <4>1. hints' # {}
        BY <3>2
      <4> QED BY <2>1, <3>2, <4>1 DEF FallbackInv
    <3> QED BY <2>1, <3>1, <3>2
  <2>6. ReportInv'
    BY <2>1, NothingReported
  <2> QED BY <2>2, <2>4, <2>5, <2>6 DEF IInv
<1>4. CASE GitCommandFails \/ CollectPaths \/ QueryFails
  <2>1. /\ UNCHANGED <<input, world, backend, hints, answers, askedOf, report>>
        /\ phase # "exit" /\ phase # "options"
        /\ \/ phase' = "exit" /\ code' = 1
           \/ phase = "paths" /\ SeedCount # 0 /\ phase' = "query" /\ code' = code
    BY <1>4 DEF GitCommandFails, CollectPaths, QueryFails, InLoop, ExitWith, Continue
  <2>2. AnswersInv'
    BY <2>1, AnswersKept
  <2>3. SeedCount' = SeedCount /\ code = -1
    BY <2>1 DEF SeedCount, TypeOK
  <2>4. TypeOK' /\ FallbackInv'
    BY <2>1, <2>3 DEF TypeOK, FallbackInv
  <2>5. ReportInv'
    BY <2>1, NothingReported
  <2> QED BY <2>2, <2>4, <2>5 DEF IInv
<1>5. CASE QueryTogether
  <2>1. /\ UNCHANGED <<input, world, backend, hints, report>>
        /\ phase = "query" /\ answers = <<>> /\ backend = "GitCli"
    BY <1>5 DEF QueryTogether
  <2>2. CASE phase' = "exit" /\ code' = 1 /\ UNCHANGED <<answers, askedOf>>
    <3>1. AnswersInv' /\ ReportInv'
      BY <2>1, <2>2, AnswersKept, NothingReported
    <3>2. TypeOK' /\ FallbackInv'
      BY <2>1, <2>2 DEF TypeOK, FallbackInv, SeedCount
    <3> QED BY <3>1, <3>2 DEF IInv
  <2>3. CASE /\ \A i \in 1..SeedCount : ~Fails(i, "GitCli")
             /\ answers' = [i \in 1..SeedCount |-> AnswerOf(i, "GitCli")]
             /\ askedOf' = [i \in 1..SeedCount |-> "GitCli"]
             /\ phase' = "report" /\ code' = code
    <3>1. \A i \in 1..SeedCount : AnswerOf(i, "GitCli") \in [seed : Nat, results : SUBSET Result]
      <4> SUFFICES ASSUME NEW i \in 1..SeedCount
                   PROVE  AnswerOf(i, "GitCli") \in [seed : Nat, results : SUBSET Result]
        OBVIOUS
      <4>1. i \in DOMAIN input.changed /\ input.changed[i] \in [path : Nat, history : Nat]
        BY <1>1, InputTypes
      <4>2. Retained(world["GitCli"][input.changed[i].history]) \subseteq Result
        BY <2>3, <4>1, FoundTypes DEF AnswersInv, Backends
      <4> QED BY <4>1, <4>2 DEF AnswerOf
    <3>2. /\ answers' \in Seq([seed : Nat, results : SUBSET Result]) /\ askedOf' \in Seq(Backends)
          /\ Len(answers') = SeedCount /\ Len(askedOf') = SeedCount
          /\ DOMAIN answers' = 1..SeedCount /\ DOMAIN askedOf' = 1..SeedCount
      <4>1. answers' \in [1..SeedCount -> [seed : Nat, results : SUBSET Result]]
        BY <2>3, <3>1
      <4>2. askedOf' \in [1..SeedCount -> Backends]
        BY <2>3 DEF Backends
      <4>3. DOMAIN answers' = 1..SeedCount /\ DOMAIN askedOf' = 1..SeedCount
        BY <4>1, <4>2
      <4>4. /\ answers' \in Seq([seed : Nat, results : SUBSET Result])
            /\ Len(answers') = SeedCount
        BY <1>1, <4>1, TableIsSeq, Zenon
      <4>5. askedOf' \in Seq(Backends) /\ Len(askedOf') = SeedCount
        BY <1>1, <4>2, TableIsSeq, Zenon
      <4> QED BY <4>3, <4>4, <4>5
    <3>3. (\A i \in DOMAIN answers :
             ~Fails(i, askedOf[i]) /\ answers[i] = AnswerOf(i, askedOf[i]))'
      <4>1. \A i \in DOMAIN answers' : ~Fails(i, askedOf'[i]) /\
                                       answers'[i] = AnswerOf(i, askedOf'[i])
        BY <2>3, <3>2
      <4> QED BY <2>1, <4>1 DEF AnswerOf, Fails, Retained, Eligible, ChangedPaths, Seeds
    <3>4. SeedCount' = SeedCount /\ code = -1
      BY <2>1 DEF SeedCount, TypeOK
    <3>5. AnswersInv'
      BY <2>1, <2>3, <3>2, <3>3, <3>4 DEF AnswersInv
    <3>6. ReportInv'
      BY <2>1, <2>3, NothingReported
    <3>7. FallbackInv'
      BY <2>1, <2>3, <3>2 DEF FallbackInv
    <3>8. TypeOK'
      BY <1>1, <2>1, <2>3, <3>2, <3>4 DEF TypeOK
    <3> QED BY <3>5, <3>6, <3>7, <3>8 DEF IInv
  <2> QED BY <1>5, <2>2, <2>3 DEF QueryTogether, ExitWith, Continue
<1>6. CASE QuerySeed \/ QueryFallsBack
  <2>1. PICK b \in Backends :
          /\ UNCHANGED <<input, world, report>> /\ phase = "query"
          /\ ~Fails(NextSeed, b) /\ Answer(NextSeed, b)
          /\ backend' = b
          /\ \/ b = backend /\ UNCHANGED hints
             \/ b = "GitCli" /\ FallsBack /\ hints' = hints \cup {"fallback"}
    BY <1>6 DEF QuerySeed, QueryFallsBack, InLoop, TypeOK, Backends
  <2>2. /\ AnswersInv'
        /\ Len(answers') = Len(askedOf') /\ Len(answers') <= SeedCount
        /\ \A i \in DOMAIN askedOf' : (i \in DOMAIN askedOf /\ askedOf'[i] = askedOf[i])
                                      \/ askedOf'[i] = b
        /\ phase' \in {"query", "report"} /\ code' = code
    BY <2>1, AnswerRecorded
  <2>3. SeedCount' = SeedCount /\ code = -1
    BY <2>1 DEF SeedCount, TypeOK
  <2>4. TypeOK'
    BY <2>1, <2>2, <2>3 DEF TypeOK
  <2>5. FallbackInv'
    BY <2>1, <2>2 DEF FallbackInv, FallsBack
  <2>6. ReportInv'
    BY <2>1, <2>2, NothingReported
  <2> QED BY <2>2, <2>4, <2>5, <2>6 DEF IInv
<1>7. CASE Report
  <2>1. /\ UNCHANGED <<input, world, backend, hints, answers, askedOf>>
        /\ phase = "report" /\ phase' = "exit"
        /\ report'.printed /\ report'.shown = Aggregate.shown /\ report'.hints = hints
        /\ code' = ExitStatus(Aggregate.shown)
    BY <1>7 DEF Report, ExitWith, Aggregate
  <2>2. AnswersInv'
    BY <2>1, AnswersKept
  <2>3. Aggregate' = Aggregate /\ ThresholdsRefused' = ThresholdsRefused
    BY <2>1 DEF Aggregate, Seeds, ThresholdsRefused
  <2>4. ExitStatus(report.shown)' = ExitStatus(Aggregate.shown)
    BY <2>1 DEF ExitStatus, Enforced
  <2>5. ReportInv'
    BY <2>1, <2>3, <2>4 DEF ReportInv
  <2>6. code' \in {0, 3}
    BY <2>1 DEF ExitStatus
  <2>7. TypeOK' /\ FallbackInv'
    BY <2>1, <2>6 DEF TypeOK, FallbackInv, SeedCount
  <2> QED BY <2>2, <2>5, <2>7 DEF IInv
<1>8. CASE ReportFails
  <2>1. /\ UNCHANGED <<input, world, backend, hints, answers, askedOf, report>>
        /\ phase = "report" /\ phase' = "exit" /\ code' = 1
    BY <1>8 DEF ReportFails, ExitWith
  <2>2. AnswersInv' /\ ReportInv'
    BY <2>1, AnswersKept, NothingReported
  <2>3. TypeOK' /\ FallbackInv'
    BY <2>1 DEF TypeOK, FallbackInv, SeedCount
  <2> QED BY <2>2, <2>3 DEF IInv
<1>9. CASE UNCHANGED vars
  <2>1. AnswersInv'
    BY <1>9, AnswersKept DEF vars
  <2>2. TypeOK' /\ FallbackInv'
    BY <1>9 DEF vars, TypeOK, FallbackInv, SeedCount
  <2>3. ReportInv'
    BY <1>9 DEF vars, ReportInv, Aggregate, Seeds, ThresholdsRefused, ExitStatus, Enforced
  <2> QED BY <2>1, <2>2, <2>3 DEF IInv
<1> QED BY <1>2, <1>3, <1>4, <1>5, <1>6, <1>7, <1>8, <1>9 DEF Next, Exited

-----------------------------------------------------------------------------
(* What the aggregation is about: finitely many results for each seed.     *)
AreAnswers(all) ==
  /\ IsFiniteSet(DOMAIN all)
  /\ \A i \in DOMAIN all : all[i].results \subseteq Result /\ IsFiniteSet(all[i].results)

(* Every candidate is the entry of its path, which some seed found, and    *)
(* what candidates are compared by are numbers.                            *)
LEMMA CandidateTypes ==
  ASSUME NEW seeds, NEW all, AreAnswers(all)
  PROVE  /\ IsFiniteSet(Candidates(seeds, all))
         /\ \A c \in Candidates(seeds, all) :
              /\ c = Candidate(all, c.path)
              /\ \E i \in DOMAIN all : \E r \in all[i].results : c.path = r.path
              /\ c.path \in Nat /\ c.support \in Nat /\ c.score \in Nat /\ c.cochanges \in Nat
              /\ c.confidence \in Confidence
<1> DEFINE everything == UNION {all[i].results : i \in DOMAIN all}
           found(p) == ResultsFor(all, p)
           paths == (UNION {{r.path : r \in all[i].results} : i \in DOMAIN all}) \ seeds
<1>1. IsFiniteSet(everything)
  <2>1. IsFiniteSet({all[i].results : i \in DOMAIN all})
    <3> DEFINE f == [i \in DOMAIN all |-> all[i].results]
    <3>1. IsFiniteSet({f[i] : i \in DOMAIN all})
      BY ImageIsFinite DEF AreAnswers
    <3>2. {f[i] : i \in DOMAIN all} = {all[i].results : i \in DOMAIN all}
      OBVIOUS
    <3> QED BY <3>1, <3>2
  <2> QED BY <2>1, FS_UNION DEF AreAnswers
<1>2. \A p : /\ IsFiniteSet(found(p))
             /\ \A e \in found(p) : e[1] \in DOMAIN all /\ e[2] \in Result
  <2> SUFFICES ASSUME NEW p
               PROVE  /\ IsFiniteSet(found(p))
                      /\ \A e \in found(p) : e[1] \in DOMAIN all /\ e[2] \in Result
    OBVIOUS
  <2>1. IsFiniteSet((DOMAIN all) \X everything)
    BY <1>1, FS_Product DEF AreAnswers
  <2>2. found(p) \subseteq (DOMAIN all) \X everything
    BY DEF ResultsFor
  <2>3. \A e \in found(p) : e[1] \in DOMAIN all /\ e[2] \in everything
    BY <2>2
  <2> QED BY <2>1, <2>2, <2>3, FS_Subset DEF AreAnswers
<1>3. \A r \in Result : r.path \in Nat /\ r.cochanges \in Nat /\ r.score \in Nat
  BY DEF Result
<1>4. \A p : /\ Candidate(all, p).path = p
             /\ Candidate(all, p).support \in Nat
             /\ Candidate(all, p).score \in Nat
             /\ Candidate(all, p).cochanges \in Nat
             /\ Candidate(all, p).confidence \in Confidence
  <2> SUFFICES ASSUME NEW p
               PROVE  /\ Candidate(all, p).path = p
                      /\ Candidate(all, p).support \in Nat
                      /\ Candidate(all, p).score \in Nat
                      /\ Candidate(all, p).cochanges \in Nat
                      /\ Candidate(all, p).confidence \in Confidence
    OBVIOUS
  <2> DEFINE F == found(p)
             strongest == Max({e[2].cochanges : e \in F})
  <2>1. Candidate(all, p) =
          [ path       |-> p,
            support    |-> Cardinality({all[e[1]].seed : e \in F}),
            score      |-> SumFunctionOnSet([e \in F |-> e[2].score], F),
            cochanges  |-> SumFunctionOnSet([e \in F |-> e[2].cochanges], F),
            strongest  |-> strongest,
            confidence |-> classify_confidence(strongest) ]
    BY DEF Candidate
  <2>2. IsFiniteSet(F) /\ \A e \in F : e[2] \in Result
    BY <1>2
  <2> HIDE DEF F, strongest
  <2>3. Cardinality({all[e[1]].seed : e \in F}) \in Nat
    <3> DEFINE f == [e \in F |-> all[e[1]].seed]
    <3>1. IsFiniteSet({f[e] : e \in F})
      BY <2>2, ImageIsFinite
    <3>2. {f[e] : e \in F} = {all[e[1]].seed : e \in F}
      OBVIOUS
    <3> QED BY <3>1, <3>2, FS_CardinalityType
  <2>4. SumFunctionOnSet([e \in F |-> e[2].score], F) \in Nat
    <3>1. [e \in F |-> e[2].score] \in [F -> Nat]
      BY <1>3, <2>2
    <3> QED BY <2>2, <3>1, SumType
  <2>5. SumFunctionOnSet([e \in F |-> e[2].cochanges], F) \in Nat
    <3>1. [e \in F |-> e[2].cochanges] \in [F -> Nat]
      BY <1>3, <2>2
    <3> QED BY <2>2, <3>1, SumType
  <2>6. classify_confidence(strongest) \in Confidence
    BY DEF classify_confidence, Confidence
  <2> QED BY <2>1, <2>3, <2>4, <2>5, <2>6
<1>5. IsFiniteSet(paths)
  <2> DEFINE f == [r \in everything |-> r.path]
  <2>1. UNION {{r.path : r \in all[i].results} : i \in DOMAIN all} = {r.path : r \in everything}
    OBVIOUS
  <2>2. {r.path : r \in everything} = {f[r] : r \in everything}
    OBVIOUS
  <2>3. IsFiniteSet({f[r] : r \in everything})
    BY <1>1, ImageIsFinite
  <2> QED BY <2>1, <2>2, <2>3, FS_Subset
<1>6. Candidates(seeds, all) = {Candidate(all, p) : p \in paths}
  BY DEF Candidates
<1>7. \A p \in paths : \E i \in DOMAIN all : \E r \in all[i].results : p = r.path
  OBVIOUS
<1>8. paths \subseteq Nat
  BY <1>3, <1>7 DEF AreAnswers
<1> HIDE DEF paths
<1>9. IsFiniteSet(Candidates(seeds, all))
  <2> DEFINE f == [p \in paths |-> Candidate(all, p)]
  <2>1. IsFiniteSet({f[p] : p \in paths})
    BY <1>5, ImageIsFinite
  <2> QED BY <1>6, <2>1
<1> QED BY <1>4, <1>6, <1>7, <1>8, <1>9

(* compare_candidates as a set of pairs, and the candidates it ranks.      *)
Ranking(S) == {e \in S \X S : compare_candidates(e[1], e[2])}
Enough(seeds, all, least) == {c \in Candidates(seeds, all) : c.confidence >= least}

(* compare_candidates puts any two candidates in one strict order, and     *)
(* what is shown are the best of them.                                     *)
LEMMA CandidatesAreRanked ==
  ASSUME NEW seeds, NEW all, AreAnswers(all), NEW least, NEW top
  PROVE  LET enough == Enough(seeds, all, least)
         IN  /\ IsFiniteSet(enough)
             /\ IsStrictOrder(enough, Ranking(enough))
             /\ IsTotal(enough, Ranking(enough))
             /\ aggregate_audit_results(seeds, all, least, top).shown =
                  Best(enough, Ranking(enough), top)
<1> DEFINE enough == Enough(seeds, all, least)
<1>1. enough \subseteq Candidates(seeds, all)
  BY DEF Enough
<1>2. IsFiniteSet(enough)
  BY <1>1, CandidateTypes, FS_Subset
<1>3. \A c \in enough :
        /\ c = Candidate(all, c.path)
        /\ c.path \in Nat /\ c.support \in Nat /\ c.score \in Nat /\ c.cochanges \in Nat
        /\ c.confidence \in Nat
  BY <1>1, CandidateTypes DEF Confidence, Low, Medium, High
<1> HIDE DEF enough
<1>4. \A c, d \in enough : <<c, d>> \in Ranking(enough) <=> compare_candidates(c, d)
  BY DEF Ranking
<1>5. \A c \in enough : ~compare_candidates(c, c)
  BY <1>3 DEF compare_candidates
<1>6. ASSUME NEW a \in enough, NEW b \in enough, NEW c \in enough,
             compare_candidates(a, b), compare_candidates(b, c)
      PROVE  compare_candidates(a, c)
  BY <1>3, <1>6 DEF compare_candidates
<1>7. ASSUME NEW a \in enough, NEW b \in enough, a # b
      PROVE  compare_candidates(a, b) \/ compare_candidates(b, a)
  <2>1. a.path # b.path
    BY <1>3, <1>7
  <2> QED BY <1>3, <2>1 DEF compare_candidates
<1>8. aggregate_audit_results(seeds, all, least, top).shown =
        {c \in enough : Cardinality({d \in enough : compare_candidates(d, c)}) < top}
  BY DEF aggregate_audit_results, Enough, enough
<1>9. \A c \in enough : {d \in enough : compare_candidates(d, c)} = Ahead(enough, Ranking(enough), c)
  BY <1>4 DEF Ahead
<1>10. aggregate_audit_results(seeds, all, least, top).shown = Best(enough, Ranking(enough), top)
  BY <1>8, <1>9 DEF Best
<1>11. IsStrictOrder(enough, Ranking(enough)) /\ IsTotal(enough, Ranking(enough))
  BY <1>4, <1>5, <1>6, <1>7 DEF IsStrictOrder, IsTotal
<1> QED BY <1>2, <1>10, <1>11 DEF enough


(* The recorded answers are what the aggregation is about.                 *)
LEMMA RecordedAnswers ==
  ASSUME IInv
  PROVE  /\ AreAnswers(answers)
         /\ \A i \in DOMAIN answers :
              /\ answers[i] = AnswerOf(i, askedOf[i])
              /\ AllFound(i) \subseteq Result /\ IsFiniteSet(AllFound(i))
              /\ answers[i].results = Retained(AllFound(i))
<1> TypeOK /\ AnswersInv
  BY DEF IInv
<1>1. DOMAIN answers = 1..Len(answers) /\ Len(answers) \in Nat /\ DOMAIN askedOf = DOMAIN answers
  BY LenProperties DEF AnswersInv, TypeOK
<1>2. IsFiniteSet(DOMAIN answers)
  BY <1>1, FS_Interval
<1>3. ASSUME NEW i \in DOMAIN answers
      PROVE  /\ answers[i] = AnswerOf(i, askedOf[i])
             /\ AllFound(i) \subseteq Result /\ IsFiniteSet(AllFound(i))
             /\ answers[i].results = Retained(AllFound(i))
             /\ answers[i].results \subseteq AllFound(i)
  <2>1. i \in DOMAIN input.changed
    BY <1>1, InputTypes DEF AnswersInv, TypeOK
  <2>2. askedOf[i] \in Backends
    BY <1>1, ElementOfSeq DEF AnswersInv, TypeOK
  <2>3. answers[i] = AnswerOf(i, askedOf[i]) /\ ~Fails(i, askedOf[i])
    BY DEF AnswersInv
  <2>4. answers[i].results = Retained(AllFound(i))
    BY <2>3 DEF AnswerOf, AllFound
  <2>5. /\ AllFound(i) \subseteq Result /\ IsFiniteSet(AllFound(i))
        /\ Retained(AllFound(i)) \subseteq AllFound(i)
    BY <2>1, <2>2, <2>3, FoundTypes DEF AnswersInv, AllFound
  <2> QED BY <2>3, <2>4, <2>5
<1>4. AreAnswers(answers)
  <2> SUFFICES ASSUME NEW i \in DOMAIN answers
               PROVE  answers[i].results \subseteq Result /\ IsFiniteSet(answers[i].results)
    BY <1>2 DEF AreAnswers
  <2> QED BY <1>3, FS_Subset
<1> QED BY <1>3, <1>4

(* The most confident candidate that is confident enough is shown, however *)
(* few are asked for.                                                      *)
LEMMA MostConfidentIsShown ==
  ASSUME NEW seeds, NEW all, AreAnswers(all), NEW least, NEW top \in Nat \ {0},
         NEW c \in Enough(seeds, all, least)
  PROVE  \E d \in aggregate_audit_results(seeds, all, least, top).shown :
           d.confidence >= c.confidence
<1> DEFINE enough == Enough(seeds, all, least)
           R == Ranking(enough)
<1>1. /\ IsFiniteSet(enough) /\ IsStrictOrder(enough, R)
      /\ aggregate_audit_results(seeds, all, least, top).shown = Best(enough, R, top)
  BY CandidatesAreRanked
<1>2. \A d \in enough : d.confidence \in Nat
  BY CandidateTypes DEF Enough, Confidence, Low, Medium, High
<1>3. \A d, e \in enough : d.confidence > e.confidence => <<d, e>> \in R
  BY <1>2 DEF Ranking, compare_candidates
<1>4. c \in enough
  OBVIOUS
<1> HIDE DEF enough, R
<1>5. PICK d \in enough : \A e \in enough : <<e, d>> \notin R
  <2>1. enough # {} /\ enough \in SUBSET enough
    BY <1>4
  <2> QED BY <1>1, <2>1, FirstExists
<1>6. d \in Best(enough, R, top)
  BY <1>1, <1>5, FirstIsBest
<1>7. d.confidence >= c.confidence
  <2>1. ~(c.confidence > d.confidence)
    BY <1>3, <1>4, <1>5
  <2> QED BY <1>2, <1>4, <2>1
<1> QED BY <1>1, <1>6, <1>7

-----------------------------------------------------------------------------
(* The invariant of an audit, over every set of inputs and worlds.         *)
THEOREM InvariantHolds == Spec => []IInv
BY InitIInv, StepIInv, PTL DEF Spec

(* The phases, the exit codes and the number of answers are as declared.   *)
THEOREM TypesHold == Spec => []TypeOK
<1>1. IInv => TypeOK
  BY DEF IInv
<1> QED BY <1>1, InvariantHolds, PTL

(* An explicitly chosen backend is never replaced, and an answer from      *)
(* another backend than the requested one never goes without a hint.       *)
THEOREM FallbacksAreVisible == Spec => []FallbackVisible
<1>1. ASSUME IInv, NEW i \in DOMAIN askedOf, askedOf[i] # input.backend
      PROVE  /\ ~input.explicit
             /\ askedOf[i] = "GitCli"
             /\ report.printed => report.hints # {}
  BY <1>1 DEF IInv, FallbackInv, ReportInv, NoReport
<1>2. IInv => FallbackVisible
  BY <1>1 DEF FallbackVisible
<1> QED BY <1>2, InvariantHolds, PTL

(* Only tracked files that are neither changed under any of their names    *)
(* nor excluded are suggested, whatever the backends answer.               *)
THEOREM OnlyOmissions == Spec => []OnlyOmissionsSuggested
<1>1. ASSUME IInv, report.printed, NEW c \in report.shown
      PROVE  Eligible(c.path)
  <2>1. report.shown = Aggregate.shown
    BY <1>1 DEF IInv, ReportInv, NoReport
  <2>2. c \in Candidates(Seeds, answers)
    BY <1>1, <2>1 DEF Aggregate, aggregate_audit_results
  <2>3. PICK i \in DOMAIN answers : \E r \in answers[i].results : c.path = r.path
    BY <1>1, <2>2, RecordedAnswers, CandidateTypes
  <2>4. answers[i].results = Retained(AllFound(i))
    BY <1>1, RecordedAnswers
  <2> QED BY <2>3, <2>4 DEF Retained
<1>2. IInv => OnlyOmissionsSuggested
  <2> SUFFICES ASSUME IInv, report.printed, NEW c \in report.shown
               PROVE  /\ c.path \in input.tracked \ input.excluded
                      /\ \A i \in DOMAIN input.changed :
                           c.path \notin {input.changed[i].path, input.changed[i].history}
    BY DEF OnlyOmissionsSuggested
  <2>1. Eligible(c.path)
    BY <1>1
  <2> QED BY <2>1 DEF Eligible, ChangedPaths, Seeds
<1> QED BY <1>2, InvariantHolds, PTL

(* Exit code 3 means that some candidate reaches the threshold, shown or   *)
(* not: --top cannot cut off the last one, since the most confident        *)
(* candidate ranks first.                                                  *)
THEOREM ExitCodeIsRight == Spec => []ExitCodeTellsFindings
<1>1. ASSUME IInv
      PROVE  /\ code \in {0, 3} => report.printed
             /\ code = 3 => input.failOn # NoThreshold
  BY <1>1 DEF IInv, ReportInv, ExitStatus, Enforced
<1>2. ASSUME IInv, report.printed, input.failOn # NoThreshold
      PROVE  code = 3 <=> \E c \in Candidates(Seeds, answers) : c.confidence >= input.failOn
  <2>1. /\ ~ThresholdsRefused /\ report.shown = Aggregate.shown
        /\ code = ExitStatus(report.shown)
    BY <1>2 DEF IInv, ReportInv, NoReport
  <2>2. /\ input.minimum \in Nat /\ input.failOn \in Nat /\ input.failOn >= input.minimum
        /\ input.top \in Nat \ {0}
    BY <1>2, <2>1, InputTypes DEF IInv, AnswersInv, ThresholdsRefused, Confidence, Low, Medium, High
  <2>3. code = 3 <=> \E c \in Aggregate.shown : c.confidence >= input.failOn
    BY <1>2, <2>1 DEF ExitStatus, Enforced
  <2>4. Aggregate.shown \subseteq Candidates(Seeds, answers)
    BY DEF Aggregate, aggregate_audit_results
  <2>5. ASSUME NEW c \in Candidates(Seeds, answers), c.confidence >= input.failOn
        PROVE  \E d \in Aggregate.shown : d.confidence >= input.failOn
    <3>1. \A d \in Candidates(Seeds, answers) : d.confidence \in Nat
      BY <1>2, RecordedAnswers, CandidateTypes DEF Confidence, Low, Medium, High
    <3>2. c \in Enough(Seeds, answers, input.minimum)
      BY <2>2, <2>5, <3>1 DEF Enough
    <3>3. PICK d \in Aggregate.shown : d.confidence >= c.confidence
      BY <1>2, <2>2, <3>2, RecordedAnswers, MostConfidentIsShown DEF Aggregate
    <3> QED BY <2>2, <2>4, <2>5, <3>1, <3>3
  <2> QED BY <2>3, <2>4, <2>5
<1>3. IInv => ExitCodeTellsFindings
  BY <1>1, <1>2 DEF ExitCodeTellsFindings
<1> QED BY <1>3, InvariantHolds, PTL

(* Where no seed ran into its bound nothing is lost but what --top and     *)
(* --min-confidence cut off, and they cut off the lowest candidates.       *)
THEOREM NothingIsHidden == Spec => []NothingHiddenWithinBudget
<1> DEFINE limit == audit_query_limit(input.top)
<1>1. ASSUME IInv, \A i \in DOMAIN answers : Cardinality(AllFound(i)) <= limit
      PROVE  Unbounded = answers
  <2>1. limit \in Nat
    <3>1. input.top * SeedFactor \in Nat /\ SeedFloor \in Nat
      BY <1>1, InputTypes, ThresholdsAssumption DEF IInv, AnswersInv, ThresholdsAssumption
    <3> QED BY <3>1 DEF audit_query_limit, Max
  <2>2. ASSUME NEW i \in DOMAIN answers
        PROVE  answers[i] = [seed |-> input.changed[i].path,
                             results |-> {r \in AllFound(i) : Eligible(r.path)}]
    <3> DEFINE found == AllFound(i)
               R == {e \in found \X found : BetterResult(e[1], e[2])}
    <3>1. /\ found \subseteq Result /\ IsFiniteSet(found) /\ Cardinality(found) <= limit
          /\ answers[i] = AnswerOf(i, askedOf[i])
      BY <1>1, RecordedAnswers
    <3> HIDE DEF found, limit
    <3>2. \A r \in found : r.score \in Nat /\ r.path \in Nat
      BY <3>1 DEF Result
    <3>3. IsStrictOrder(found, R)
      BY <3>2 DEF IsStrictOrder, BetterResult
    <3>4. \A r \in found : {q \in found : BetterResult(q, r)} = Ahead(found, R, r)
      BY DEF Ahead
    <3>5. TopResults(found, limit) = Best(found, R, limit)
      BY <3>4 DEF TopResults, Best
    <3>6. TopResults(found, limit) = found
      <4> HIDE DEF R
      <4> QED BY <2>1, <3>1, <3>3, <3>5, AllAreBest
    <3>7. Retained(found) = {r \in found : Eligible(r.path)}
      BY <3>6 DEF Retained, limit
    <3> QED BY <3>1, <3>7 DEF AnswerOf, AllFound, found
  <2>3. answers = [i \in DOMAIN answers |-> answers[i]]
    BY <1>1 DEF IInv, AnswersInv
  <2> QED BY <2>2, <2>3 DEF Unbounded
<1>2. ASSUME IInv, report.printed, NEW c \in Candidates(Seeds, answers), c \notin report.shown,
             ~(c.confidence < input.minimum)
      PROVE  /\ Cardinality(report.shown) = input.top
             /\ \A d \in report.shown :
                  \/ d.confidence > c.confidence
                  \/ d.confidence = c.confidence /\ d.support >= c.support
  <2> DEFINE enough == Enough(Seeds, answers, input.minimum)
             R == Ranking(enough)
  <2>1. AreAnswers(answers) /\ input.minimum \in Nat /\ input.top \in Nat
    BY <1>2, RecordedAnswers, InputTypes DEF IInv, AnswersInv, Confidence, Low, Medium, High
  <2>2. /\ IsFiniteSet(enough) /\ IsStrictOrder(enough, R) /\ IsTotal(enough, R)
        /\ report.shown = Best(enough, R, input.top)
    BY <1>2, <2>1, CandidatesAreRanked DEF IInv, ReportInv, NoReport, Aggregate
  <2>3. \A d \in Candidates(Seeds, answers) : d.confidence \in Nat /\ d.support \in Nat
    BY <2>1, CandidateTypes DEF Confidence, Low, Medium, High
  <2>4. c \in enough
    BY <1>2, <2>1, <2>3 DEF Enough
  <2>5. ASSUME NEW d \in enough, <<d, c>> \in R
        PROVE  \/ d.confidence > c.confidence
               \/ d.confidence = c.confidence /\ d.support >= c.support
    <3>1. compare_candidates(d, c) /\ d \in Candidates(Seeds, answers)
      BY <2>5 DEF Ranking, Enough
    <3> QED BY <2>3, <3>1 DEF compare_candidates
  <2> HIDE DEF enough, R
  <2>6. /\ Best(enough, R, input.top) # enough
        /\ \A d \in Best(enough, R, input.top) : d \in enough /\ <<d, c>> \in R
    <3>1. c \in enough \ Best(enough, R, input.top)
      BY <1>2, <2>2, <2>4
    <3>2. Best(enough, R, input.top) \subseteq enough
      BY DEF Best
    <3>3. \A d \in Best(enough, R, input.top) :
            \A e \in enough \ Best(enough, R, input.top) : <<d, e>> \in R
      BY <2>1, <2>2, BestFacts
    <3> QED BY <3>1, <3>2, <3>3
  <2>7. Cardinality(Best(enough, R, input.top)) = input.top
    BY <2>1, <2>2, <2>6, BestFacts
  <2> QED BY <2>2, <2>5, <2>6, <2>7
<1>3. IInv => NothingHiddenWithinBudget
  BY <1>1, <1>2 DEF NothingHiddenWithinBudget
<1> QED BY <1>3, InvariantHolds, PTL

-----------------------------------------------------------------------------
(* The evaluation.                                                         *)

(* What the code reads of a log: commits of finitely many files.           *)
LEMMA LogTypes ==
  ASSUME EvalAssumption, NEW l \in Logs
  PROVE  /\ TestCommits \in Nat \ {0} /\ MaxFiles \in Nat \ {0} /\ Top \in Nat \ {0}
         /\ l \in Seq(LogCommit) /\ Len(l) \in Nat /\ DOMAIN l = 1..Len(l) /\ Len(l) > TestCommits
         /\ \A k \in DOMAIN l : /\ l[k].files \subseteq Nat /\ IsFiniteSet(l[k].files)
                                /\ l[k].renames \in Seq([old : Nat, new : Nat])
<1>1. l \in Seq(LogCommit) /\ Len(l) > TestCommits /\ \A k \in DOMAIN l : IsFiniteSet(l[k].files)
  BY DEF EvalAssumption
<1>2. Len(l) \in Nat /\ DOMAIN l = 1..Len(l) /\ \A k \in DOMAIN l : l[k] \in LogCommit
  BY <1>1, LenProperties, ElementOfSeq
<1>3. \A c \in LogCommit : c.files \subseteq Nat /\ c.renames \in Seq([old : Nat, new : Nat])
  BY DEF LogCommit
<1> QED BY <1>1, <1>2, <1>3 DEF EvalAssumption

(* The commits of training are those after the held-out ones.              *)
LEMMA OlderFacts ==
  ASSUME EvalAssumption, NEW l \in Seq(LogCommit), Len(l) > TestCommits
  PROVE  /\ Older(l) \in Seq(LogCommit) /\ Len(Older(l)) = Len(l) - TestCommits
         /\ Len(l) \in Nat /\ TestCommits \in Nat
         /\ DOMAIN Older(l) = 1..(Len(l) - TestCommits)
         /\ \A i \in DOMAIN Older(l) : /\ Older(l)[i] = l[TestCommits + i]
                                       /\ TestCommits + i \in 1..Len(l)
<1>1. TestCommits \in Nat \ {0} /\ Len(l) \in Nat
  BY LenProperties DEF EvalAssumption
<1>2. TestCommits + 1 \in 1..(Len(l) + 1) /\ Len(l) \in TestCommits..Len(l)
  BY <1>1
<1>3. \A k \in (TestCommits + 1)..Len(l) : l[k] \in LogCommit
  BY <1>1, ElementOfSeq
<1>4. /\ Older(l) = [i \in 1..(Len(l) - TestCommits) |-> l[TestCommits + i]]
      /\ Len(Older(l)) = Len(l) - TestCommits
  BY <1>1 DEF Older
<1>5. Older(l) \in Seq(LogCommit)
  BY <1>1, SubSeqProperties DEF Older
<1> QED BY <1>1, <1>4, <1>5

(* The files of a commit after their names are exchanged, and with them    *)
(* the known files, are finitely many.                                     *)
LEMMA FilesAreFinite ==
  ASSUME EvalAssumption, NEW l \in Logs
  PROVE  /\ IsFiniteSet(known_files(l))
         /\ \A i \in DOMAIN Train(l) : IsFiniteSet(Train(l)[i])
         /\ \A k \in 1..TestCommits : IsFiniteSet(Test(l, k))
<1>1. /\ TestCommits \in Nat \ {0} /\ Len(l) \in Nat /\ DOMAIN l = 1..Len(l) /\ Len(l) > TestCommits
      /\ l \in Seq(LogCommit) /\ \A k \in DOMAIN l : IsFiniteSet(l[k].files)
  BY LogTypes
<1>2. \A i \in DOMAIN Train(l) : IsFiniteSet(Train(l)[i])
  <2> SUFFICES ASSUME NEW i \in DOMAIN Train(l) PROVE IsFiniteSet(Train(l)[i])
    OBVIOUS
  <2> DEFINE files == Older(l)[i].files
             g == [f \in files |-> canonical_path(f, Aliases(l))]
  <2>1. i \in DOMAIN Older(l) /\ Train(l)[i] = {canonical_path(f, Aliases(l)) : f \in files}
    BY DEF Train
  <2>2. Train(l)[i] = {g[f] : f \in files}
    BY <2>1
  <2>3. IsFiniteSet(files)
    BY <1>1, <2>1, OlderFacts
  <2> HIDE DEF files
  <2>4. IsFiniteSet({g[f] : f \in files})
    BY <2>3, ImageIsFinite
  <2> QED BY <2>2, <2>4
<1>3. \A k \in 1..TestCommits : IsFiniteSet(Test(l, k))
  <2> SUFFICES ASSUME NEW k \in 1..TestCommits PROVE IsFiniteSet(Test(l, k))
    OBVIOUS
  <2> DEFINE own == l[k].renames
             Before(f) == IF \E j \in DOMAIN own : own[j].new = f
                          THEN LastOf(own, {j \in DOMAIN own : own[j].new = f}).old ELSE f
             g == [f \in l[k].files |-> canonical_path(Before(f), Aliases(l))]
  <2>1. Test(l, k) = {g[f] : f \in l[k].files}
    BY DEF Test
  <2>2. IsFiniteSet(l[k].files)
    BY <1>1
  <2> HIDE DEF g
  <2>3. IsFiniteSet({g[f] : f \in l[k].files})
    BY <2>2, ImageIsFinite
  <2> QED BY <2>1, <2>3
<1>4. IsFiniteSet(known_files(l))
  <2> DEFINE D == {j \in DOMAIN Train(l) : Counted(Train(l)[j])}
             T == {Train(l)[i] : i \in D}
  <2>1. IsFiniteSet(D)
    <3>1. DOMAIN Train(l) = 1..(Len(l) - TestCommits)
      BY <1>1, OlderFacts DEF Train
    <3>2. IsFiniteSet(1..(Len(l) - TestCommits))
      BY <1>1, FS_Interval
    <3> QED BY <3>1, <3>2, FS_Subset
  <2>2. IsFiniteSet(T)
    <3> HIDE DEF D
    <3> QED BY <2>1, ImageIsFinite
  <2>3. \A t \in T : IsFiniteSet(t)
    BY <1>2
  <2>4. known_files(l) = UNION T
    BY DEF known_files
  <2> HIDE DEF T
  <2> QED BY <2>2, <2>3, <2>4, FS_UNION
<1> QED BY <1>2, <1>3, <1>4

-----------------------------------------------------------------------------
(* Renames: a name and the name it gives way to.                           *)
Rename == [old : Nat, new : Nat]

(* What is joined of sequences of renames is a sequence of renames.        *)
LEMMA RenamesAreASeq ==
  ASSUME NEW l \in Seq(LogCommit)
  PROVE  AllRenames(l) \in Seq(Rename)
<1> DEFINE M == Len(l)
           seqs == [i \in DOMAIN l |-> l[i].renames]
           F == [k \in 1..M |-> [s \in Seq(Rename) |-> s \o seqs[k]]]
<1>1. M \in Nat /\ DOMAIN l = 1..M
  BY LenProperties
<1>2. \A i \in 1..M : seqs[i] \in Seq(Rename)
  <2>1. \A c \in LogCommit : c.renames \in Seq(Rename)
    BY DEF LogCommit, Rename
  <2> QED BY <1>1, <2>1, ElementOfSeq
<1>3. seqs = [i \in 1..M |-> seqs[i]] /\ Len(seqs) = M
  BY <1>1
<1> HIDE DEF M, seqs
<1>4. AllRenames(l) = FlattenSeq(seqs)
  BY DEF AllRenames, seqs
<1>5. CASE M = 0
  <2>1. FlattenSeq(seqs) = seqs /\ seqs = <<>>
    BY <1>3, <1>5 DEF FlattenSeq
  <2> QED BY <1>4, <2>1, EmptySeq
<1>6. CASE M # 0
  <2> DEFINE Value(g, i) == IF i = 1 THEN seqs[i] ELSE g[i - 1] \o seqs[i]
             flatten == CHOOSE g : g = [i \in 1..M |-> Value(g, i)]
  <2>1. FlattenSeq(seqs) = flatten[M]
    BY <1>1, <1>3, <1>6 DEF FlattenSeq
  <2>2. \A k \in 1..M : \A s \in Seq(Rename) : F[k][s] = s \o seqs[k] /\ F[k][s] \in Seq(Rename)
    BY <1>2, ConcatProperties
  <2>3. <<>> \in Seq(Rename)
    BY EmptySeq
  <2> HIDE DEF F
  <2>4. \E g \in [0..M -> Seq(Rename)] : IsTable(g, M, <<>>, F)
    BY <1>1, <2>2, <2>3, TableExists
  <2>5. PICK g \in [0..M -> Seq(Rename)] : IsTable(g, M, <<>>, F)
    BY <2>4
  <2>6. PICK h : h = [i \in 1..M |-> g[i]]
    OBVIOUS
  <2>7. \A i \in 1..M : /\ i \in 0..M /\ i - 1 \in 0..M /\ i # 0
                        /\ g[i] = F[i][g[i - 1]] /\ g[i - 1] \in Seq(Rename)
    BY <1>1, <2>5 DEF IsTable
  <2>8. 0 \in 0..M /\ g[0] = <<>>
    BY <1>1, <2>5 DEF IsTable
  <2>9. ASSUME NEW i \in 1..M
        PROVE  g[i] = Value(h, i)
    <3>1. g[i] = g[i - 1] \o seqs[i]
      BY <2>2, <2>7
    <3>2. CASE i = 1
      <4>1. g[i - 1] = <<>>
        BY <2>8, <3>2
      <4> QED BY <1>2, <3>1, <3>2, <4>1, ConcatEmptySeq
    <3>3. CASE i # 1
      <4>1. i - 1 \in 1..M
        BY <1>1, <3>3
      <4>2. h[i - 1] = g[i - 1]
        BY <2>6, <4>1
      <4> QED BY <3>1, <3>3, <4>2
    <3> QED BY <3>2, <3>3
  <2>10. h = [i \in 1..M |-> Value(h, i)]
    <3> HIDE DEF Value
    <3> QED BY <2>6, <2>9
  <2>11. flatten = [i \in 1..M |-> Value(flatten, i)]
    BY <2>10
  <2> HIDE DEF flatten
  <2>12. \A i \in 1..M : i = 1 => flatten[i] = seqs[i]
    BY <2>11
  <2>13. \A i \in 1..M : i # 1 => flatten[i] = flatten[i - 1] \o seqs[i]
    BY <2>11
  <2> DEFINE N == {n \in Nat : \A i \in 1..M : i <= n => flatten[i] \in Seq(Rename)}
  <2>14. 0 \in N
    OBVIOUS
  <2>15. ASSUME NEW n \in Nat, n \in N
         PROVE  n + 1 \in N
    <3> SUFFICES ASSUME NEW i \in 1..M, i <= n + 1 PROVE flatten[i] \in Seq(Rename)
      OBVIOUS
    <3>1. CASE i = 1
      BY <1>2, <2>12, <3>1
    <3>2. CASE i # 1
      <4>1. i - 1 \in 1..M /\ i - 1 <= n
        BY <1>1, <3>2
      <4>2. flatten[i - 1] \in Seq(Rename) /\ seqs[i] \in Seq(Rename)
        BY <1>2, <2>15, <4>1
      <4> QED BY <2>13, <3>2, <4>2, ConcatProperties
    <3> QED BY <3>1, <3>2
  <2>16. M \in N
    <3> HIDE DEF N
    <3> QED BY <1>1, <2>14, <2>15, NumbersByInduction
  <2>17. M \in 1..M
    BY <1>1, <1>6
  <2> QED BY <1>4, <2>1, <2>16, <2>17
<1> QED BY <1>5, <1>6

(* One name after another, and the names used on the way.                  *)
Moved(aliases, s) ==
  IF MoreAliases(aliases, s.current, s.seen)
  THEN [current |-> aliases[s.current], seen |-> s.seen \cup {s.current}]
  ELSE s
IsChain(step, path, aliases) ==
  /\ step[0] = [current |-> path, seen |-> {}]
  /\ \A n \in 1..Cardinality(DOMAIN aliases) : step[n] = Moved(aliases, step[n - 1])

(* canonical_path step by step; it never leaves the path and what the      *)
(* aliases lead to.                                                        *)
LEMMA CanonicalUnfolds ==
  ASSUME NEW aliases, IsFiniteSet(DOMAIN aliases), NEW path
  PROVE  \E step :
           /\ IsChain(step, path, aliases)
           /\ canonical_path(path, aliases) = step[Cardinality(DOMAIN aliases)].current
           /\ \A n \in 0..Cardinality(DOMAIN aliases) :
                /\ step[n].current \in {path} \cup {aliases[x] : x \in DOMAIN aliases}
                /\ step[n].seen \subseteq DOMAIN aliases
<1>1. PICK N \in Nat : N = Cardinality(DOMAIN aliases)
  BY FS_CardinalityType
<1> DEFINE Names == {path} \cup {aliases[x] : x \in DOMAIN aliases}
           S == [current : Names, seen : SUBSET DOMAIN aliases]
           start == [current |-> path, seen |-> {}]
           F == [k \in 1..N |-> [s \in S |-> Moved(aliases, s)]]
<1>2. \A k \in 1..N : \A s \in S : F[k][s] = Moved(aliases, s) /\ F[k][s] \in S
  <2>1. \A s \in S : Moved(aliases, s) \in S
    <3> SUFFICES ASSUME NEW s \in S PROVE Moved(aliases, s) \in S
      OBVIOUS
    <3>1. s.current \in Names /\ s.seen \in SUBSET DOMAIN aliases
      OBVIOUS
    <3>2. CASE MoreAliases(aliases, s.current, s.seen)
      BY <3>1, <3>2 DEF Moved, MoreAliases
    <3>3. CASE ~MoreAliases(aliases, s.current, s.seen)
      BY <3>3 DEF Moved
    <3> QED BY <3>2, <3>3
  <2> HIDE DEF S
  <2> QED BY <2>1
<1>3. start \in S
  OBVIOUS
<1> HIDE DEF F, S, start
<1>4. \E g \in [0..N -> S] : IsTable(g, N, start, F)
  BY <1>2, <1>3, TableExists
<1>5. PICK g \in [0..N -> S] : IsTable(g, N, start, F)
  BY <1>4
<1> DEFINE Value(h, n) == IF n = 0 THEN [current |-> path, seen |-> {}]
                          ELSE LET s == h[n-1]
                               IN  IF MoreAliases(aliases, s.current, s.seen)
                                   THEN [current |-> aliases[s.current], seen |-> s.seen \cup {s.current}]
                                   ELSE s
           step == CHOOSE h : h = [n \in 0..Cardinality(DOMAIN aliases) |-> Value(h, n)]
<1>6. g = [n \in 0..N |-> Value(g, n)]
  <2>1. \A n \in 0..N : g[n] = Value(g, n)
    <3> SUFFICES ASSUME NEW n \in 0..N PROVE g[n] = Value(g, n)
      OBVIOUS
    <3>1. CASE n = 0
      BY <1>5, <3>1 DEF IsTable, start
    <3>2. CASE n # 0
      <4>1. n \in 1..N /\ n - 1 \in 0..N
        BY <3>2
      <4>2. g[n] = F[n][g[n - 1]] /\ g[n - 1] \in S
        BY <1>5, <3>2, <4>1 DEF IsTable
      <4>3. g[n] = Moved(aliases, g[n - 1])
        BY <1>2, <4>1, <4>2
      <4> QED BY <3>2, <4>3 DEF Moved
    <3> QED BY <3>1, <3>2
  <2> HIDE DEF Value
  <2> QED BY <1>5, <2>1
<1>7. step = [n \in 0..N |-> Value(step, n)]
  BY <1>1, <1>6
<1>8. canonical_path(path, aliases) = step[N].current
  BY <1>1 DEF canonical_path
<1> HIDE DEF step
<1>9. step[0] = [current |-> path, seen |-> {}]
  BY <1>1, <1>7
<1>10. \A n \in 1..N : step[n] = Moved(aliases, step[n - 1])
  <2> SUFFICES ASSUME NEW n \in 1..N PROVE step[n] = Moved(aliases, step[n - 1])
    OBVIOUS
  <2>1. n \in 0..N /\ n # 0
    BY <1>1
  <2>2. step[n] = Value(step, n)
    <3> HIDE DEF Value
    <3> QED BY <1>7, <2>1
  <2> QED BY <2>1, <2>2 DEF Moved
<1>11. \A n \in 0..N : step[n] \in S
  <2> DEFINE K == {n \in Nat : n <= N => step[n] \in S}
  <2>1. 0 \in K
    BY <1>3, <1>9 DEF start
  <2>2. ASSUME NEW n \in Nat, n \in K
        PROVE  n + 1 \in K
    <3> SUFFICES ASSUME n + 1 <= N PROVE step[n + 1] \in S
      OBVIOUS
    <3>1. n + 1 \in 1..N /\ (n + 1) - 1 = n /\ step[n] \in S
      BY <1>1, <2>2
    <3>2. step[n + 1] = Moved(aliases, step[n])
      BY <1>10, <3>1
    <3> QED BY <1>2, <3>1, <3>2
  <2>3. Nat \subseteq K
    <3> HIDE DEF K
    <3> QED BY <2>1, <2>2, NumbersByInduction
  <2> QED BY <1>1, <2>3
<1>12. \A n \in 0..N : step[n].current \in Names /\ step[n].seen \subseteq DOMAIN aliases
  BY <1>11 DEF S
<1>13. IsChain(step, path, aliases)
  BY <1>1, <1>9, <1>10 DEF IsChain
<1> QED BY <1>1, <1>8, <1>12, <1>13

(* The names training gives up are finitely many, and each gives way to    *)
(* the new name of one of its renames.                                     *)
LEMMA AliasFacts ==
  ASSUME EvalAssumption, NEW l \in Seq(LogCommit), Len(l) > TestCommits
  PROVE  LET r == AllRenames(Older(l))
         IN  /\ r \in Seq(Rename) /\ DOMAIN r = 1..Len(r) /\ Len(r) \in Nat
             /\ \A j \in DOMAIN r : r[j].old \in Nat /\ r[j].new \in Nat
             /\ DOMAIN Aliases(l) = {r[j].old : j \in DOMAIN r}
             /\ IsFiniteSet(DOMAIN Aliases(l))
             /\ \A x \in DOMAIN Aliases(l) :
                  \E j \in DOMAIN r : r[j].old = x /\ Aliases(l)[x] = r[j].new
<1> DEFINE r == AllRenames(Older(l))
           places(x) == {j \in DOMAIN r : r[j].old = x}
<1>1. r \in Seq(Rename)
  BY OlderFacts, RenamesAreASeq
<1>2. Len(r) \in Nat /\ DOMAIN r = 1..Len(r)
  BY <1>1, LenProperties
<1>3. \A j \in DOMAIN r : r[j].old \in Nat /\ r[j].new \in Nat
  <2>1. \A p \in Rename : p.old \in Nat /\ p.new \in Nat
    BY DEF Rename
  <2> QED BY <1>1, <1>2, <2>1, ElementOfSeq
<1>4. Aliases(l) = [old \in {r[j].old : j \in DOMAIN r} |-> LastOf(r, places(old)).new]
  BY DEF Aliases, Known
<1> HIDE DEF r
<1>5. DOMAIN Aliases(l) = {r[j].old : j \in DOMAIN r}
  BY <1>4
<1>6. IsFiniteSet({r[j].old : j \in DOMAIN r})
  <2> DEFINE f == [j \in DOMAIN r |-> r[j].old]
  <2>0. IsFiniteSet(DOMAIN r)
    BY <1>2, FS_Interval
  <2>1. IsFiniteSet({f[j] : j \in DOMAIN r})
    <3> HIDE DEF f
    <3> QED BY <2>0, ImageIsFinite
  <2>2. {f[j] : j \in DOMAIN r} = {r[j].old : j \in DOMAIN r}
    OBVIOUS
  <2> QED BY <2>1, <2>2
<1>7. ASSUME NEW x \in DOMAIN Aliases(l)
      PROVE  \E j \in DOMAIN r : r[j].old = x /\ Aliases(l)[x] = r[j].new
  <2>1. places(x) # {} /\ places(x) \subseteq 1..Len(r)
    BY <1>2, <1>5
  <2>2. PICK m \in places(x) : \A j \in places(x) : j <= m
    <3>1. IsFiniteSet(places(x))
      <4>1. IsFiniteSet(1..Len(r))
        BY <1>2, FS_Interval
      <4> HIDE DEF places
      <4> QED BY <2>1, <4>1, FS_Subset
    <3> DEFINE R == {p \in places(x) \X places(x) : p[1] < p[2]}
    <3>2. \A i, j \in places(x) : <<i, j>> \in R <=> i < j
      OBVIOUS
    <3>3. places(x) \subseteq Nat
      BY <1>2, <2>1
    <3> HIDE DEF places, R
    <3>4. IsStrictOrder(places(x), R)
      <4>1. \A i, j, k \in places(x) : i \in Nat /\ j \in Nat /\ k \in Nat
        BY <3>3
      <4> QED BY <3>2, <4>1 DEF IsStrictOrder
    <3>5. PICK m \in places(x) : \A j \in places(x) : <<m, j>> \notin R
      BY <2>1, <3>1, <3>4, LastExists
    <3>6. \A j \in places(x) : j <= m
      <4> SUFFICES ASSUME NEW j \in places(x) PROVE j <= m
        OBVIOUS
      <4>1. ~(m < j)
        BY <3>2, <3>5
      <4> QED BY <3>3, <4>1
    <3> QED BY <3>6
  <2>3. Max(places(x)) \in places(x)
    <3>1. \A i \in places(x) : i \in Nat
      BY <1>2, <2>1
    <3> HIDE DEF places
    <3> QED BY <2>2, <3>1 DEF Max
  <2>4. Aliases(l)[x] = r[Max(places(x))].new
    BY <1>4, <1>5 DEF LastOf
  <2> QED BY <2>3, <2>4
<1> QED BY <1>1, <1>2, <1>3, <1>5, <1>6, <1>7 DEF r

(* A name stays a name.                                                    *)
LEMMA CanonicalType ==
  ASSUME EvalAssumption, NEW l \in Seq(LogCommit), Len(l) > TestCommits, NEW f \in Nat
  PROVE  canonical_path(f, Aliases(l)) \in Nat
<1> DEFINE aliases == Aliases(l)
<1>1. IsFiniteSet(DOMAIN aliases) /\ \A x \in DOMAIN aliases : aliases[x] \in Nat
  BY AliasFacts
<1> HIDE DEF aliases
<1>2. PICK step : /\ canonical_path(f, aliases) = step[Cardinality(DOMAIN aliases)].current
                  /\ \A n \in 0..Cardinality(DOMAIN aliases) :
                       step[n].current \in {f} \cup {aliases[x] : x \in DOMAIN aliases}
  BY <1>1, CanonicalUnfolds
<1>3. Cardinality(DOMAIN aliases) \in 0..Cardinality(DOMAIN aliases)
  BY <1>1, FS_CardinalityType
<1>4. canonical_path(f, aliases) \in {f} \cup {aliases[x] : x \in DOMAIN aliases}
  BY <1>2, <1>3
<1> QED BY <1>1, <1>4 DEF aliases

(* What training replies for a seed is a finite set of results.            *)
LEMMA TrainingTypes ==
  ASSUME EvalAssumption, NEW l \in Logs, NEW seed
  PROVE  TrainingResults(l, seed) \subseteq Result /\ IsFiniteSet(TrainingResults(l, seed))
<1> DEFINE hits(x) == {i \in DOMAIN Train(l) : Counted(Train(l)[i]) /\ {seed, x} \subseteq Train(l)[i]}
           found == {x \in known_files(l) \ {seed} : hits(x) # {}}
           result(x) == [path |-> x, cochanges |-> Cardinality(hits(x)), score |-> Cardinality(hits(x))]
           results == {result(x) : x \in found}
<1>1. /\ l \in Seq(LogCommit) /\ Len(l) > TestCommits /\ Len(l) \in Nat /\ DOMAIN l = 1..Len(l)
      /\ TestCommits \in Nat /\ \A k \in DOMAIN l : l[k].files \subseteq Nat
  BY LogTypes
<1>2. known_files(l) \subseteq Nat
  <2>1. \A i \in DOMAIN Train(l) : Train(l)[i] \subseteq Nat
    <3> SUFFICES ASSUME NEW i \in DOMAIN Train(l) PROVE Train(l)[i] \subseteq Nat
      OBVIOUS
    <3>1. i \in DOMAIN Older(l) /\
          Train(l)[i] = {canonical_path(f, Aliases(l)) : f \in Older(l)[i].files}
      BY DEF Train
    <3>2. Older(l)[i].files \subseteq Nat
      BY <1>1, <3>1, OlderFacts
    <3> QED BY <1>1, <3>1, <3>2, CanonicalType
  <2> QED BY <2>1 DEF known_files
<1>3. IsFiniteSet(found)
  BY FilesAreFinite, FS_Subset
<1>4. \A x : Cardinality(hits(x)) \in Nat
  <2>1. DOMAIN Train(l) = 1..(Len(l) - TestCommits)
    BY <1>1, OlderFacts DEF Train
  <2>2. IsFiniteSet(DOMAIN Train(l))
    BY <1>1, <2>1, FS_Interval
  <2>3. \A x : hits(x) \subseteq DOMAIN Train(l)
    OBVIOUS
  <2> HIDE DEF hits
  <2> QED BY <2>2, <2>3, FS_Subset, FS_CardinalityType
<1>5. TrainingResults(l, seed) = TopResults(results, audit_query_limit(Top))
  BY DEF TrainingResults
<1>6. found \subseteq Nat
  BY <1>2
<1> HIDE DEF hits, found
<1>7. results \subseteq Result
  BY <1>4, <1>6 DEF Result
<1>8. IsFiniteSet(results)
  <2> DEFINE f == [x \in found |-> result(x)]
  <2>1. IsFiniteSet({f[x] : x \in found})
    BY <1>3, ImageIsFinite
  <2>2. {f[x] : x \in found} = results
    OBVIOUS
  <2> QED BY <2>1, <2>2
<1>9. TopResults(results, audit_query_limit(Top)) \subseteq results
  BY DEF TopResults
<1> HIDE DEF results
<1> QED BY <1>5, <1>7, <1>8, <1>9, FS_Subset

-----------------------------------------------------------------------------
(* A sum over the bands from a minimum up, written out.                    *)
LEMMA BandSum ==
  ASSUME NEW f \in [Confidence -> Nat], NEW m \in Confidence
  PROVE  SumFunctionOnSet(f, {b \in Confidence : b >= m}) =
           f[2] + (IF m <= 1 THEN f[1] ELSE 0) + (IF m = 0 THEN f[0] ELSE 0)
<1>1. Confidence = {0, 1, 2} /\ f[0] \in Nat /\ f[1] \in Nat /\ f[2] \in Nat
  BY DEF Confidence, Low, Medium, High
<1>2. SumFunctionOnSet(f, {}) = 0
  BY SumOfNone
<1>3. IsFiniteSet({}) /\ IsFiniteSet({2}) /\ IsFiniteSet({1, 2})
  <2>1. IsFiniteSet({}) /\ {} \cup {2} = {2} /\ {2} \cup {1} = {1, 2}
    BY FS_EmptySet
  <2>2. IsFiniteSet({} \cup {2})
    BY <2>1, FS_AddElement
  <2>3. IsFiniteSet({2} \cup {1})
    BY <2>1, <2>2, FS_AddElement
  <2> QED BY <2>1, <2>2, <2>3
<1>4. SumFunctionOnSet(f, {2}) = f[2]
  <2>1. {} \cup {2} = {2}
    OBVIOUS
  <2>2. SumFunctionOnSet(f, {} \cup {2}) = f[2] + SumFunctionOnSet(f, {})
    BY <1>1, <1>3, SumOfOneMore
  <2> QED BY <1>1, <1>2, <2>1, <2>2
<1>5. SumFunctionOnSet(f, {1, 2}) = f[1] + f[2]
  <2>1. {2} \cup {1} = {1, 2}
    OBVIOUS
  <2>2. SumFunctionOnSet(f, {2} \cup {1}) = f[1] + SumFunctionOnSet(f, {2})
    BY <1>1, <1>3, SumOfOneMore
  <2> QED BY <1>4, <2>1, <2>2
<1>6. SumFunctionOnSet(f, {0, 1, 2}) = f[0] + f[1] + f[2]
  <2>1. {1, 2} \cup {0} = {0, 1, 2}
    OBVIOUS
  <2>2. SumFunctionOnSet(f, {1, 2} \cup {0}) = f[0] + SumFunctionOnSet(f, {1, 2})
    BY <1>1, <1>3, SumOfOneMore
  <2>3. f[0] + (f[1] + f[2]) = f[0] + f[1] + f[2]
    BY <1>1
  <2> QED BY <1>5, <2>1, <2>2, <2>3
<1>7. CASE m = 0
  <2>1. {b \in Confidence : b >= m} = {0, 1, 2}
    BY <1>1, <1>7
  <2> QED BY <1>1, <1>6, <1>7, <2>1
<1>8. CASE m = 1
  <2>1. {b \in Confidence : b >= m} = {1, 2}
    BY <1>1, <1>8
  <2>2. SumFunctionOnSet(f, {b \in Confidence : b >= m}) = f[1] + f[2]
    BY <1>5, <2>1
  <2>3. (IF m <= 1 THEN f[1] ELSE 0) = f[1] /\ (IF m = 0 THEN f[0] ELSE 0) = 0
    BY <1>8
  <2> QED BY <1>1, <2>2, <2>3
<1>9. CASE m = 2
  <2>1. {b \in Confidence : b >= m} = {2}
    BY <1>1, <1>9
  <2> QED BY <1>1, <1>4, <1>9, <2>1
<1> QED BY <1>1, <1>7, <1>8, <1>9

(* What is added to the bands is added to the sum.                         *)
LEMMA BandSumGrows ==
  ASSUME NEW f \in [Confidence -> Nat], NEW d \in [Confidence -> Nat], NEW m \in Confidence,
         NEW g \in [Confidence -> Nat], \A b \in Confidence : g[b] = f[b] + d[b]
  PROVE  SumFunctionOnSet(g, {b \in Confidence : b >= m}) =
           SumFunctionOnSet(f, {b \in Confidence : b >= m}) + SumFunctionOnSet(d, {b \in Confidence : b >= m})
<1> DEFINE Sum(h) == SumFunctionOnSet(h, {b \in Confidence : b >= m})
<1>1. /\ Confidence = {0, 1, 2} /\ f[0] \in Nat /\ f[1] \in Nat /\ f[2] \in Nat
      /\ d[0] \in Nat /\ d[1] \in Nat /\ d[2] \in Nat
      /\ g[0] = f[0] + d[0] /\ g[1] = f[1] + d[1] /\ g[2] = f[2] + d[2]
  BY DEF Confidence, Low, Medium, High
<1>2. Sum(f) = f[2] + (IF m <= 1 THEN f[1] ELSE 0) + (IF m = 0 THEN f[0] ELSE 0)
  BY BandSum
<1>3. Sum(g) = g[2] + (IF m <= 1 THEN g[1] ELSE 0) + (IF m = 0 THEN g[0] ELSE 0)
  BY BandSum
<1>4. Sum(d) = d[2] + (IF m <= 1 THEN d[1] ELSE 0) + (IF m = 0 THEN d[0] ELSE 0)
  BY BandSum
<1> DEFINE A == Sum(f)
           B == Sum(g)
           D == Sum(d)
<1> SUFFICES B = A + D
  OBVIOUS
<1>5. /\ A = f[2] + (IF m <= 1 THEN f[1] ELSE 0) + (IF m = 0 THEN f[0] ELSE 0)
      /\ B = g[2] + (IF m <= 1 THEN g[1] ELSE 0) + (IF m = 0 THEN g[0] ELSE 0)
      /\ D = d[2] + (IF m <= 1 THEN d[1] ELSE 0) + (IF m = 0 THEN d[0] ELSE 0)
  BY <1>2, <1>3, <1>4
<1> HIDE DEF A, B, D
<1>6. CASE m = 0
  BY <1>1, <1>5, <1>6
<1>7. CASE m = 1
  BY <1>1, <1>5, <1>7
<1>8. CASE m = 2
  BY <1>1, <1>5, <1>8
<1> QED BY <1>1, <1>6, <1>7, <1>8

(* Cutting at the top and then filtering by confidence is filtering and    *)
(* then cutting: what is listed before a candidate is as confident.        *)
LEMMA FilterAndCutCommute ==
  ASSUME NEW seeds, NEW replies, NEW m \in Confidence, NEW top
  PROVE  {c \in aggregate_audit_results(seeds, replies, Low, top).shown : c.confidence >= m} =
           aggregate_audit_results(seeds, replies, m, top).shown
<1> DEFINE all == Candidates(seeds, replies)
           enough(n) == {c \in all : c.confidence >= n}
           shown(n) == {c \in enough(n) : Cardinality({d \in enough(n) : compare_candidates(d, c)}) < top}
<1>1. \A n : aggregate_audit_results(seeds, replies, n, top).shown = shown(n)
  BY DEF aggregate_audit_results
<1>2. \A c \in all : c.confidence \in Confidence
  <2>1. \A p : Candidate(replies, p).confidence \in Confidence
    BY DEF Candidate, classify_confidence, Confidence
  <2> QED BY <2>1 DEF Candidates
<1>3. Confidence = {0, 1, 2} /\ Low = 0
  BY DEF Confidence, Low, Medium, High
<1> HIDE DEF all
<1>4. enough(Low) = all
  BY <1>2, <1>3
<1>5. \A c \in enough(m) : {d \in enough(m) : compare_candidates(d, c)} = {d \in all : compare_candidates(d, c)}
  <2>1. \A c \in all : \A d \in all : compare_candidates(d, c) => d.confidence >= c.confidence
    BY <1>2, <1>3 DEF compare_candidates
  <2>2. \A c \in all : \A d \in all : c.confidence >= m /\ d.confidence >= c.confidence =>
                       d.confidence >= m
    BY <1>2, <1>3
  <2> QED BY <2>1, <2>2
<1>6. {c \in shown(Low) : c.confidence >= m} = shown(m)
  BY <1>4, <1>5
<1> QED BY <1>1, <1>6

(* Two sets without a common member are counted together.                  *)
LEMMA DisjointCounts ==
  ASSUME NEW S, IsFiniteSet(S), NEW T, IsFiniteSet(T), S \cap T = {}
  PROVE  /\ IsFiniteSet(S \cup T)
         /\ Cardinality(S \cup T) = Cardinality(S) + Cardinality(T)
         /\ Cardinality(S) \in Nat /\ Cardinality(T) \in Nat
<1>1. Cardinality(S) \in Nat /\ Cardinality(T) \in Nat
  BY FS_CardinalityType
<1>2. /\ IsFiniteSet(S \cup T)
      /\ Cardinality(S \cup T) = Cardinality(S) + Cardinality(T) - Cardinality(S \cap T)
  BY FS_Union
<1>3. Cardinality(S \cap T) = 0
  BY FS_EmptySet
<1> QED BY <1>1, <1>2, <1>3

(* The candidates of a task, counted by band.                              *)
One(S) == IF S = {} THEN 0 ELSE 1

InBand(all, b) == {c \in all : c.confidence = b}
RightIn(all, omitted, b) == {c \in InBand(all, b) : c.path = omitted}
EnoughOf(all, m) == {c \in all : c.confidence >= m}
HitIn(all, omitted, m) == {c \in EnoughOf(all, m) : c.path = omitted}

(* Candidates from a confidence up are those of the bands from there up;   *)
(* one of them at most is right.                                           *)
LEMMA BandsOfCandidates ==
  ASSUME NEW all, IsFiniteSet(all), \A c \in all : c.confidence \in Confidence,
         NEW omitted, \A c, d \in all : c.path = d.path => c = d,
         NEW m \in Confidence
  PROVE  /\ Cardinality(EnoughOf(all, m)) \in Nat
         /\ \A b : Cardinality(InBand(all, b)) \in Nat
         /\ \A b : Cardinality(RightIn(all, omitted, b)) = One(RightIn(all, omitted, b))
         /\ Cardinality(EnoughOf(all, m)) =
              Cardinality(InBand(all, 2)) + (IF m <= 1 THEN Cardinality(InBand(all, 1)) ELSE 0)
                                          + (IF m = 0 THEN Cardinality(InBand(all, 0)) ELSE 0)
         /\ One(HitIn(all, omitted, m)) =
              One(RightIn(all, omitted, 2)) + (IF m <= 1 THEN One(RightIn(all, omitted, 1)) ELSE 0)
                                            + (IF m = 0 THEN One(RightIn(all, omitted, 0)) ELSE 0)
<1> DEFINE Band(b) == InBand(all, b)
           Right(b) == RightIn(all, omitted, b)
           enough == EnoughOf(all, m)
           hit == HitIn(all, omitted, m)
<1>0. \A b : Band(b) = {c \in all : c.confidence = b} /\
             Right(b) = {c \in Band(b) : c.path = omitted}
  BY DEF InBand, RightIn
<1>13. enough = {c \in all : c.confidence >= m} /\ hit = {c \in enough : c.path = omitted}
  BY DEF EnoughOf, HitIn
<1> HIDE DEF Band, Right, enough, hit
<1>1. Confidence = {0, 1, 2}
  BY DEF Confidence, Low, Medium, High
<1>2. \A b : IsFiniteSet(Band(b)) /\ Cardinality(Band(b)) \in Nat
  <2>1. \A b : Band(b) \subseteq all
    BY <1>0
  <2> QED BY <2>1, FS_Subset, FS_CardinalityType
<1>3. IsFiniteSet(enough) /\ Cardinality(enough) \in Nat
  <2>1. enough \subseteq all
    BY <1>13
  <2> QED BY <2>1, FS_Subset, FS_CardinalityType
<1>4. \A b : Cardinality(Right(b)) = One(Right(b))
  <2> SUFFICES ASSUME NEW b PROVE Cardinality(Right(b)) = One(Right(b))
    OBVIOUS
  <2>1. CASE Right(b) = {}
    <3> QED BY <2>1, FS_EmptySet DEF One
  <2>2. CASE Right(b) # {}
    <3>1. PICK c : Right(b) = {c}
      BY <1>0, <2>2
    <3> QED BY <2>2, <3>1, FS_Singleton DEF One
  <2> QED BY <2>1, <2>2
<1>5. \A b, e : b # e => Band(b) \cap Band(e) = {}
  BY <1>0
<1>6. Cardinality(Band(1) \cup Band(2)) = Cardinality(Band(1)) + Cardinality(Band(2))
  <2>1. Band(1) \cap Band(2) = {}
    BY <1>5
  <2> QED BY <1>2, <2>1, DisjointCounts
<1>7. Cardinality(Band(0) \cup (Band(1) \cup Band(2))) =
        Cardinality(Band(0)) + Cardinality(Band(1) \cup Band(2))
  <2>1. Band(0) \cap (Band(1) \cup Band(2)) = {}
    BY <1>0
  <2>2. PICK T : T = Band(1) \cup Band(2)
    OBVIOUS
  <2>3. IsFiniteSet(T)
    BY <1>2, <2>2, FS_Union
  <2>4. Band(0) \cap T = {}
    BY <2>1, <2>2
  <2>5. Cardinality(Band(0) \cup T) = Cardinality(Band(0)) + Cardinality(T)
    BY <1>2, <2>3, <2>4, DisjointCounts
  <2> QED BY <2>2, <2>5
<1>8. /\ m = 0 => enough = Band(0) \cup (Band(1) \cup Band(2))
      /\ m = 1 => enough = Band(1) \cup Band(2)
      /\ m = 2 => enough = Band(2)
  BY <1>0, <1>1, <1>13
<1>9. /\ m = 0 => hit = Right(0) \cup (Right(1) \cup Right(2))
      /\ m = 1 => hit = Right(1) \cup Right(2)
      /\ m = 2 => hit = Right(2)
  BY <1>0, <1>8, <1>13
<1>10. \A b, e : b # e => Right(b) = {} \/ Right(e) = {}
  BY <1>0
<1>11. Cardinality(enough) = Cardinality(Band(2)) + (IF m <= 1 THEN Cardinality(Band(1)) ELSE 0)
                              + (IF m = 0 THEN Cardinality(Band(0)) ELSE 0)
  <2> DEFINE A0 == Cardinality(Band(0))
             A1 == Cardinality(Band(1))
             A2 == Cardinality(Band(2))
  <2>1. A0 \in Nat /\ A1 \in Nat /\ A2 \in Nat
    BY <1>2
  <2>2. /\ m = 0 => Cardinality(enough) = A0 + (A1 + A2)
        /\ m = 1 => Cardinality(enough) = A1 + A2
        /\ m = 2 => Cardinality(enough) = A2
    BY <1>6, <1>7, <1>8
  <2> HIDE DEF A0, A1, A2
  <2>3. Cardinality(enough) = A2 + (IF m <= 1 THEN A1 ELSE 0) + (IF m = 0 THEN A0 ELSE 0)
    BY <1>1, <2>1, <2>2
  <2> QED BY <2>3 DEF A0, A1, A2
<1>12. One(hit) = One(Right(2)) + (IF m <= 1 THEN One(Right(1)) ELSE 0)
                              + (IF m = 0 THEN One(Right(0)) ELSE 0)
  <2>1. CASE m = 0
    BY <1>9, <1>10, <2>1 DEF One
  <2>2. CASE m = 1
    BY <1>9, <1>10, <2>2 DEF One
  <2>3. CASE m = 2
    BY <1>9, <2>3 DEF One
  <2> QED BY <1>1, <2>1, <2>2, <2>3
<1> QED BY <1>2, <1>3, <1>4, <1>11, <1>12 DEF Band, Right, enough, hit

-----------------------------------------------------------------------------
(* The invariant of the evaluation: it holds at the start, and every step  *)
(* keeps it.                                                               *)
LEMMA EvalInitInv ==
  ASSUME EvalAssumption, EvalInit
  PROVE  EvalInv
<1>1. minimum \in Confidence /\ log \in Logs /\ TestCommits \in Nat
  BY DEF EvalInit, EvalAssumption
<1>2. EvalTypeOK
  BY <1>1, FS_EmptySet DEF EvalInit, EvalTypeOK
<1>3. CountsAreNumbers
  BY DEF EvalInit, CountsAreNumbers, NoCounts
<1>4. NotStale /\ EvalIsAudit
  BY DEF EvalInit, NotStale, EvalIsAudit
<1>5. RowsExplainTotals
  <2>1. NoCounts \in [Confidence -> Nat] /\ \A b \in {0, 1, 2} : NoCounts[b] = 0
    BY DEF NoCounts, Confidence, Low, Medium, High
  <2>2. SumFunctionOnSet(NoCounts, {b \in Confidence : b >= minimum}) = 0
    BY <1>1, <2>1, BandSum
  <2>3. /\ rows.correctTasks = NoCounts /\ rows.correct = NoCounts /\ rows.candidates = NoCounts
        /\ totals.hits = 0 /\ totals.results = 0 /\ totals.wrong = 0
    BY DEF EvalInit
  <2> QED BY <2>2, <2>3 DEF RowsExplainTotals
<1> QED BY <1>2, <1>3, <1>4, <1>5 DEF EvalInv

(* The tasks of a commit: its known files, unless they are too few.        *)
LEMMA NextCommitKeepsInv ==
  ASSUME EvalAssumption, EvalInv, NextCommit
  PROVE  EvalInv'
<1> DEFINE files == Test(log, at + 1)
           known == files \cap known_files(log)
<1>1. /\ log \in Logs /\ log' = log /\ minimum' = minimum /\ minimum \in Minimums
      /\ cache' = cache /\ rows' = rows /\ totals' = totals /\ last' = last
      /\ at \in 0..TestCommits /\ TestCommits \in Nat /\ at < TestCommits /\ at' = at + 1 /\
         left = {}
  BY DEF EvalInv, EvalTypeOK, NextCommit, EvalAssumption
<1>2. IsFiniteSet(files) /\ IsFiniteSet(known) /\ IsFiniteSet(files \ known)
  <2>1. at + 1 \in 1..TestCommits
    BY <1>1
  <2>2. IsFiniteSet(files)
    BY <1>1, <2>1, FilesAreFinite
  <2>3. known \subseteq files /\ files \ known \subseteq files
    OBVIOUS
  <2> HIDE DEF files, known
  <2> QED BY <2>2, <2>3, FS_Subset
<1>3. /\ Cardinality(files) = Cardinality(files \ known) + Cardinality(known)
      /\ Cardinality(files) \in Nat /\ Cardinality(files \ known) \in Nat /\
         Cardinality(known) \in Nat
  <2>1. (files \ known) \cup known = files /\ (files \ known) \cap known = {}
    OBVIOUS
  <2> HIDE DEF files, known
  <2>2. Cardinality((files \ known) \cup known) = Cardinality(files \ known) + Cardinality(known)
    BY <1>2, <2>1, DisjointCounts
  <2> QED BY <1>2, <2>1, <2>2, FS_CardinalityType
<1>4. /\ counts \in [candidate : Nat, evaluated : Nat, unknown : Nat, insufficient : Nat]
      /\ counts.candidate = counts.evaluated + counts.unknown + counts.insufficient
      /\ totals.tasks = counts.evaluated
  BY <1>1, FS_EmptySet DEF EvalInv, EvalTypeOK, CountsAreNumbers
<1>5. \/ left' = {} /\ counts' = counts
      \/ /\ counts' = [counts EXCEPT !.candidate = @ + Cardinality(files),
                                     !.unknown = @ + Cardinality(files \ known),
                                     !.insufficient = @ + Insufficient(known)]
         /\ left' = IF Cardinality(known) < 2 THEN {} ELSE known
  BY DEF NextCommit
<1>6. KnownHere' = known
  BY <1>1 DEF KnownHere, Files
<1> HIDE DEF files, known
<1>7. /\ counts' \in [candidate : Nat, evaluated : Nat, unknown : Nat, insufficient : Nat]
      /\ counts'.candidate = counts'.evaluated + Cardinality(left') + counts'.unknown + counts'.insufficient
      /\ counts'.evaluated = counts.evaluated
      /\ left' # {} => left' \subseteq known
  <2>1. CASE left' = {} /\ counts' = counts
    BY <1>4, <2>1, FS_EmptySet
  <2>2. CASE /\ counts' = [counts EXCEPT !.candidate = @ + Cardinality(files),
                                     !.unknown = @ + Cardinality(files \ known),
                                     !.insufficient = @ + Insufficient(known)]
             /\ left' = IF Cardinality(known) < 2 THEN {} ELSE known
    <3>1. Insufficient(known) \in Nat /\ Cardinality(left') \in Nat
          /\ Cardinality(left') + Insufficient(known) = Cardinality(known)
      <4>1. CASE Cardinality(known) < 2
        BY <1>3, <2>2, <4>1, FS_EmptySet DEF Insufficient
      <4>2. CASE ~(Cardinality(known) < 2)
        BY <1>3, <2>2, <4>2 DEF Insufficient
      <4> QED BY <4>1, <4>2
    <3>2. /\ counts'.candidate = counts.candidate + Cardinality(files)
          /\ counts'.unknown = counts.unknown + Cardinality(files \ known)
          /\ counts'.insufficient = counts.insufficient + Insufficient(known)
          /\ counts'.evaluated = counts.evaluated
      BY <1>4, <2>2
    <3>3. counts' \in [candidate : Nat, evaluated : Nat, unknown : Nat, insufficient : Nat]
      <4>1. /\ counts.candidate + Cardinality(files) \in Nat
            /\ counts.unknown + Cardinality(files \ known) \in Nat
            /\ counts.insufficient + Insufficient(known) \in Nat
        BY <1>3, <1>4, <3>1
      <4> QED BY <1>4, <2>2, <4>1
    <3>4. /\ counts.candidate \in Nat /\ counts.evaluated \in Nat
          /\ counts.unknown \in Nat /\ counts.insufficient \in Nat
      BY <1>4
    <3>5. left' # {} => left' \subseteq known
      BY <2>2
    <3> QED BY <1>3, <1>4, <3>1, <3>2, <3>3, <3>4, <3>5
  <2> QED BY <1>5, <2>1, <2>2
<1>8. EvalTypeOK'
  <2>1. at' \in 0..TestCommits
    BY <1>1
  <2> QED BY <1>1, <1>4, <1>6, <1>7, <2>1 DEF EvalTypeOK
<1>9. CountsAreNumbers'
  BY <1>1, <1>7 DEF EvalInv, CountsAreNumbers
<1>10. NotStale' /\ EvalIsAudit' /\ RowsExplainTotals'
  BY <1>1 DEF EvalInv, NotStale, EvalIsAudit, RowsExplainTotals
<1> QED BY <1>8, <1>9, <1>10 DEF EvalInv

(* A remembered answer is what training says.                              *)
LEMMA AskKeepsInv ==
  ASSUME EvalInv, NEW seed, Ask(seed)
  PROVE  EvalInv'
<1>1. /\ cache' = [s \in DOMAIN cache \cup {seed} |->
                     IF s = seed THEN TrainingResults(log, seed) ELSE cache[s]]
      /\ UNCHANGED <<log, minimum, at, left, counts, rows, totals, last>>
  BY DEF Ask
<1>2. NotStale'
  BY <1>1 DEF EvalInv, NotStale
<1>3. EvalTypeOK' /\ CountsAreNumbers' /\ EvalIsAudit' /\ RowsExplainTotals'
  BY <1>1 DEF EvalInv, EvalTypeOK, CountsAreNumbers, EvalIsAudit, RowsExplainTotals, KnownHere,
      Files
<1> QED BY <1>2, <1>3 DEF EvalInv

(* A task: the band sums grow by its candidates, and these are the ones an *)
(* audit would show.                                                       *)
LEMMA EvaluateKeepsInv ==
  ASSUME EvalAssumption, EvalInv, NEW omitted, Evaluate(omitted)
  PROVE  EvalInv'
<1> DEFINE seeds      == KnownHere \ {omitted}
           wanted      == [s \in seeds |-> [seed |-> s, results |-> TrainingResults(log, s)]]
           all        == aggregate_audit_results(seeds, Answers(seeds), Low, Top).shown
           candidates == Shown(all)
           hit        == {c \in candidates : c.path = omitted}
<1>1. /\ log \in Logs /\ minimum \in Confidence /\ minimum \in Minimums /\ at \in 0..TestCommits
      /\ log' = log /\ minimum' = minimum /\ at' = at /\ cache' = cache
      /\ omitted \in left /\ left' = left \ {omitted} /\ left \subseteq KnownHere
      /\ KnownHere' = KnownHere
  <2>1. minimum \in Minimums /\ Minimums \subseteq Confidence
    BY DEF EvalInv, EvalTypeOK, EvalAssumption
  <2>2. /\ log \in Logs /\ at \in 0..TestCommits /\ log' = log /\ minimum' = minimum /\ at' = at
        /\ cache' = cache /\ omitted \in left /\ left' = left \ {omitted} /\
           left \subseteq KnownHere
    BY DEF EvalInv, EvalTypeOK, Evaluate
  <2> QED BY <2>1, <2>2 DEF KnownHere, Files
<1>2. Answers(seeds) = wanted
  <2>1. seeds \subseteq DOMAIN cache
    BY DEF Evaluate
  <2>2. \A s \in seeds : cache[s] = TrainingResults(log, s)
    BY <2>1 DEF EvalInv, NotStale
  <2> HIDE DEF seeds
  <2> QED BY <2>2 DEF Answers
<1>3. IsFiniteSet(KnownHere)
  BY <1>1, FilesAreFinite, FS_Intersection DEF KnownHere
<1>4. IsFiniteSet(left) /\ Cardinality(left') = Cardinality(left) - 1 /\ Cardinality(left) \in Nat
  BY <1>1, <1>3, FS_Subset, FS_RemoveElement, FS_CardinalityType
<1>5. AreAnswers(wanted)
  <2>1. IsFiniteSet(seeds)
    BY <1>3, FS_Subset
  <2> HIDE DEF seeds
  <2>2. \A s \in seeds : wanted[s].results = TrainingResults(log, s)
    OBVIOUS
  <2> QED BY <1>1, <2>1, <2>2, TrainingTypes DEF AreAnswers
<1>6. all \subseteq Candidates(seeds, wanted)
  BY <1>2 DEF aggregate_audit_results
<1>7. candidates = aggregate_audit_results(seeds, wanted, minimum, Top).shown
  BY <1>1, <1>2, FilterAndCutCommute DEF Shown
<1>8. /\ IsFiniteSet(all) /\ \A c \in all : c.confidence \in Confidence
      /\ \A c, d \in all : c.path = d.path => c = d
  <2> HIDE DEF seeds, wanted, all
  <2> QED BY <1>5, <1>6, CandidateTypes, FS_Subset
<1>9. /\ counts' = [counts EXCEPT !.evaluated = @ + 1]
      /\ rows' = [candidates   |-> [b \in Confidence |-> rows.candidates[b] + Cardinality(InBand(all, b))],
                  correct      |-> [b \in Confidence |-> rows.correct[b] + Cardinality(RightIn(all, omitted, b))],
                  tasks        |-> [b \in Confidence |-> rows.tasks[b] + One(InBand(all, b))],
                  correctTasks |-> [b \in Confidence |-> rows.correctTasks[b] + One(RightIn(all, omitted, b))]]
      /\ totals' = [tasks       |-> totals.tasks + 1,
                    hits        |-> totals.hits + One(hit),
                    results     |-> totals.results + Cardinality(candidates),
                    wrong       |-> totals.wrong + Cardinality(candidates) - One(hit),
                    abstentions |-> totals.abstentions + 1 - One(candidates)]
      /\ last' = [seeds |-> seeds, candidates |-> candidates]
  BY DEF Evaluate, One, InBand, RightIn
<1>10. EvalIsAudit'
  BY <1>1, <1>7, <1>9 DEF EvalIsAudit
<1>11. NotStale'
  BY <1>1 DEF EvalInv, NotStale
<1> HIDE DEF seeds, wanted, all
<1>12. /\ Cardinality(candidates) \in Nat
       /\ \A b : Cardinality(InBand(all, b)) \in Nat
       /\ \A b : Cardinality(RightIn(all, omitted, b)) = One(RightIn(all, omitted, b))
       /\ Cardinality(candidates) =
            Cardinality(InBand(all, 2)) + (IF minimum <= 1 THEN Cardinality(InBand(all, 1)) ELSE 0)
                                   + (IF minimum = 0 THEN Cardinality(InBand(all, 0)) ELSE 0)
       /\ One(hit) = One(RightIn(all, omitted, 2)) + (IF minimum <= 1 THEN One(RightIn(all, omitted, 1)) ELSE 0)
                                   + (IF minimum = 0 THEN One(RightIn(all, omitted, 0)) ELSE 0)
  <2>1. candidates = EnoughOf(all, minimum) /\ hit = HitIn(all, omitted, minimum)
    BY DEF Shown, EnoughOf, HitIn
  <2> HIDE DEF candidates, hit
  <2>2. /\ IsFiniteSet(all) /\ \A c \in all : c.confidence \in Confidence
        /\ \A c, d \in all : c.path = d.path => c = d
        /\ minimum \in Confidence
    BY <1>1, <1>8
  <2> QED BY ONLY <2>1, <2>2, BandsOfCandidates
<1> HIDE DEF candidates, hit
<1>13. \A S : One(S) \in Nat
  BY DEF One
<1>14. /\ counts \in [candidate : Nat, evaluated : Nat, unknown : Nat, insufficient : Nat]
       /\ rows \in [candidates : [Confidence -> Nat], correct : [Confidence -> Nat],
                    tasks : [Confidence -> Nat], correctTasks : [Confidence -> Nat]]
       /\ totals \in [tasks : Nat, hits : Nat, results : Nat, wrong : Int, abstentions : Int]
  BY DEF EvalInv, CountsAreNumbers
<1>15. /\ \A b \in Confidence : rows.candidates[b] \in Nat /\ rows.correct[b] \in Nat
                             /\ rows.tasks[b] \in Nat /\ rows.correctTasks[b] \in Nat
       /\ totals.tasks \in Nat /\ totals.hits \in Nat /\ totals.results \in Nat
       /\ totals.wrong \in Int /\ totals.abstentions \in Int
  BY <1>14
<1>16. CountsAreNumbers'
  <2>1. counts' \in [candidate : Nat, evaluated : Nat, unknown : Nat, insufficient : Nat]
    BY <1>9, <1>14
  <2>2. rows' \in [candidates : [Confidence -> Nat], correct : [Confidence -> Nat],
                    tasks : [Confidence -> Nat], correctTasks : [Confidence -> Nat]]
    <3>1. [b \in Confidence |-> rows.candidates[b] + Cardinality(InBand(all, b))] \in [Confidence -> Nat]
      BY <1>12, <1>15
    <3>2. [b \in Confidence |-> rows.correct[b] + Cardinality(RightIn(all, omitted, b))] \in [Confidence -> Nat]
      BY <1>12, <1>13, <1>15
    <3>3. [b \in Confidence |-> rows.tasks[b] + One(InBand(all, b))] \in [Confidence -> Nat]
      BY <1>13, <1>15
    <3>4. [b \in Confidence |-> rows.correctTasks[b] + One(RightIn(all, omitted, b))] \in [Confidence -> Nat]
      BY <1>13, <1>15
    <3> QED BY <1>9, <3>1, <3>2, <3>3, <3>4
  <2>3. totals' \in [tasks : Nat, hits : Nat, results : Nat, wrong : Int, abstentions : Int]
    <3>1. /\ totals.tasks + 1 \in Nat /\ totals.hits + One(hit) \in Nat
          /\ totals.results + Cardinality(candidates) \in Nat
          /\ totals.wrong + Cardinality(candidates) - One(hit) \in Int
          /\ totals.abstentions + 1 - One(candidates) \in Int
      BY <1>12, <1>13, <1>15
    <3> QED BY <1>9, <3>1
  <2> QED BY <2>1, <2>2, <2>3 DEF CountsAreNumbers
<1>17. EvalTypeOK'
  <2>1. /\ counts'.candidate = counts.candidate /\ counts'.unknown = counts.unknown
        /\ counts'.insufficient = counts.insufficient /\ counts'.evaluated = counts.evaluated + 1
        /\ counts.evaluated \in Nat /\ counts.unknown \in Nat /\ counts.insufficient \in Nat
    BY <1>9, <1>14
  <2>2. /\ counts.candidate = counts.evaluated + Cardinality(left) + counts.unknown + counts.insufficient
        /\ totals.tasks = counts.evaluated
    BY DEF EvalInv, EvalTypeOK
  <2>3. totals'.tasks = totals.tasks + 1
    BY <1>9
  <2>4. counts'.candidate = counts'.evaluated + Cardinality(left') + counts'.unknown + counts'.insufficient
    BY <1>4, <2>1, <2>2
  <2>5. totals'.tasks = counts'.evaluated
    BY <2>1, <2>2, <2>3
  <2>6. left' # {} => left' \subseteq KnownHere'
    BY <1>1
  <2> QED BY <1>1, <2>4, <2>5, <2>6 DEF EvalTypeOK
<1>18. RowsExplainTotals'
  <2> DEFINE From(f) == SumFunctionOnSet(f, {b \in Confidence : b >= minimum})
  <2>1. /\ totals.hits = From(rows.correctTasks) /\ totals.hits = From(rows.correct)
        /\ totals.results = From(rows.candidates) /\ totals.wrong = totals.results - totals.hits
    BY DEF EvalInv, RowsExplainTotals
  <2>3. Confidence = {0, 1, 2}
    BY DEF Confidence, Low, Medium, High
  <2>4. /\ rows.correctTasks \in [Confidence -> Nat] /\ rows.correct \in [Confidence -> Nat]
        /\ rows.candidates \in [Confidence -> Nat]
        /\ rows'.correctTasks \in [Confidence -> Nat] /\ rows'.correct \in [Confidence -> Nat]
        /\ rows'.candidates \in [Confidence -> Nat]
    BY <1>14, <1>16 DEF CountsAreNumbers
  <2>5. \A b \in {0, 1, 2} : /\ rows'.correctTasks[b] = rows.correctTasks[b] + One(RightIn(all, omitted, b))
                             /\ rows'.correct[b] = rows.correct[b] + One(RightIn(all, omitted, b))
                             /\ rows'.candidates[b] = rows.candidates[b] + Cardinality(InBand(all, b))
    BY <1>9, <1>12, <2>3
  <2>6. \A b : One(RightIn(all, omitted, b)) \in Nat /\ Cardinality(InBand(all, b)) \in Nat
    BY <1>12, <1>13
  <2> DEFINE right == [b \in Confidence |-> One(RightIn(all, omitted, b))]
             found == [b \in Confidence |-> Cardinality(InBand(all, b))]
  <2>7. /\ right \in [Confidence -> Nat] /\
           \A b \in {0, 1, 2} : right[b] = One(RightIn(all, omitted, b))
        /\ found \in [Confidence -> Nat] /\
           \A b \in {0, 1, 2} : found[b] = Cardinality(InBand(all, b))
    BY <2>3, <2>6
  <2> HIDE DEF right, found
  <2>8. From(right) = One(hit)
    BY <1>1, <1>12, <2>7, BandSum
  <2>9. From(found) = Cardinality(candidates)
    BY <1>1, <1>12, <2>7, BandSum
  <2>10. From(rows'.correctTasks) = From(rows.correctTasks) + One(hit)
    <3>1. \A b \in Confidence : rows'.correctTasks[b] = rows.correctTasks[b] + right[b]
      BY <2>3, <2>5, <2>7
    <3> QED BY <1>1, <2>4, <2>7, <2>8, <3>1, BandSumGrows
  <2>11. From(rows'.correct) = From(rows.correct) + One(hit)
    <3>1. \A b \in Confidence : rows'.correct[b] = rows.correct[b] + right[b]
      BY <2>3, <2>5, <2>7
    <3> QED BY <1>1, <2>4, <2>7, <2>8, <3>1, BandSumGrows
  <2>12. From(rows'.candidates) = From(rows.candidates) + Cardinality(candidates)
    <3>1. \A b \in Confidence : rows'.candidates[b] = rows.candidates[b] + found[b]
      BY <2>3, <2>5, <2>7
    <3> QED BY <1>1, <2>4, <2>7, <2>9, <3>1, BandSumGrows
  <2>13. /\ totals'.hits = totals.hits + One(hit)
         /\ totals'.results = totals.results + Cardinality(candidates)
         /\ totals'.wrong = totals.wrong + Cardinality(candidates) - One(hit)
    BY <1>9
  <2>14. /\ totals'.hits = From(rows'.correctTasks) /\ totals'.hits = From(rows'.correct)
         /\ totals'.results = From(rows'.candidates)
    BY <2>1, <2>10, <2>11, <2>12, <2>13
  <2>15. totals'.wrong = totals'.results - totals'.hits
    BY <1>12, <1>13, <1>15, <2>1, <2>13
  <2> QED BY <1>1, <2>14, <2>15 DEF RowsExplainTotals
<1> QED BY <1>10, <1>11, <1>16, <1>17, <1>18 DEF EvalInv

(* The invariant of the evaluation.                                        *)
LEMMA EvalNextInv ==
  ASSUME EvalAssumption, EvalInv, EvalNext
  PROVE  EvalInv'
BY NextCommitKeepsInv, AskKeepsInv, EvaluateKeepsInv DEF EvalNext

-----------------------------------------------------------------------------
(* A held-out commit is read as if it were the only one held out.          *)
LEMMA NothingLeaks ==
  ASSUME EvalAssumption, log \in Logs
  PROVE  NoLeak
<1> SUFFICES ASSUME NEW k \in 1..TestCommits
             PROVE  LET alone == [i \in DOMAIN log |-> IF i <= TestCommits THEN log[k] ELSE log[i]]
                    IN  Test(log, k) = Test(alone, k) /\ Train(log) = Train(alone)
  BY DEF NoLeak
<1> DEFINE alone == [i \in DOMAIN log |-> IF i <= TestCommits THEN log[k] ELSE log[i]]
<1>1. /\ log \in Seq(LogCommit) /\ Len(log) \in Nat /\ DOMAIN log = 1..Len(log) /\
         Len(log) > TestCommits
      /\ TestCommits \in Nat
  BY LogTypes
<1>2. k \in DOMAIN log /\ k \in Nat
  BY <1>1
<1>3. alone \in Seq(LogCommit) /\ Len(alone) = Len(log)
  <2>1. \A i \in 1..Len(log) : log[i] \in LogCommit
    BY <1>1, ElementOfSeq
  <2>2. alone = [i \in 1..Len(log) |-> IF i <= TestCommits THEN log[k] ELSE log[i]]
    BY <1>1
  <2>3. alone \in [1..Len(log) -> LogCommit]
    BY <1>1, <1>2, <2>1, <2>2
  <2> HIDE DEF alone
  <2>4. Len(alone) = Len(log)
    BY <1>1, <2>3
  <2>5. alone \in Seq(LogCommit)
    BY <1>1, <2>3
  <2> QED BY <2>4, <2>5
<1>4. alone[k] = log[k] /\ \A i \in DOMAIN log : i > TestCommits => alone[i] = log[i]
  BY <1>1, <1>2
<1> HIDE DEF alone
<1>5. Older(alone) = Older(log)
  <2>1. /\ Older(log) \in Seq(LogCommit) /\ Len(Older(log)) = Len(log) - TestCommits
        /\ \A i \in DOMAIN Older(log) : Older(log)[i] = log[TestCommits + i]
        /\ DOMAIN Older(log) = 1..(Len(log) - TestCommits)
    BY <1>1, OlderFacts
  <2>2. /\ Older(alone) \in Seq(LogCommit) /\ Len(Older(alone)) = Len(log) - TestCommits
        /\ \A i \in DOMAIN Older(alone) : Older(alone)[i] = alone[TestCommits + i]
        /\ DOMAIN Older(alone) = 1..(Len(log) - TestCommits)
    BY <1>1, <1>3, OlderFacts
  <2>3. \A i \in 1..(Len(log) - TestCommits) : alone[TestCommits + i] = log[TestCommits + i]
    BY <1>1, <1>4
  <2> QED BY <2>1, <2>2, <2>3, SeqEqual
<1>6. Aliases(alone) = Aliases(log)
  BY <1>5 DEF Aliases, Known
<1>7. Train(log) = Train(alone)
  BY <1>5, <1>6 DEF Train
<1>8. Test(log, k) = Test(alone, k)
  BY <1>4, <1>6 DEF Test
<1> QED BY <1>7, <1>8 DEF alone

(* Where no name is given up twice or taken back, a chain of renames never *)
(* comes back to a name it left, so that its end is reached in one step    *)
(* less from the second name than from the first.                          *)
NeverBack(r, aliases) ==
  /\ DOMAIN r = 1..Len(r) /\ Len(r) \in Nat
  /\ IsFiniteSet(DOMAIN aliases)
  /\ DOMAIN aliases = {r[j].old : j \in DOMAIN r}
  /\ \A j \in DOMAIN r : aliases[r[j].old] = r[j].new
  /\ \A i, j \in DOMAIN r : i < j => r[i].new # r[j].old

(* A name and the one it gives way to are followed to the same end: the    *)
(* second is one step ahead.                                               *)
LEMMA ChainsMeet ==
  ASSUME NEW r, NEW aliases, NeverBack(r, aliases), NEW j \in DOMAIN r
  PROVE  canonical_path(r[j].old, aliases) = canonical_path(r[j].new, aliases)
<1> DEFINE x == r[j].old
           y == r[j].new
<1> USE DEF NeverBack
<1>1. PICK N \in Nat : N = Cardinality(DOMAIN aliases)
  BY FS_CardinalityType
<1>2. CASE x = y
  BY <1>2
<1>3. CASE x # y
  <2>1. PICK a : /\ IsChain(a, x, aliases) /\ canonical_path(x, aliases) = a[N].current
    BY <1>1, CanonicalUnfolds
  <2>2. PICK b : /\ IsChain(b, y, aliases) /\ canonical_path(y, aliases) = b[N].current
                 /\ \A n \in 0..N : b[n].seen \subseteq DOMAIN aliases
    BY <1>1, CanonicalUnfolds
  <2>3. /\ a[0] = [current |-> x, seen |-> {}] /\ \A n \in 1..N : a[n] = Moved(aliases, a[n - 1])
        /\ b[0] = [current |-> y, seen |-> {}] /\ \A n \in 1..N : b[n] = Moved(aliases, b[n - 1])
    BY <1>1, <2>1, <2>2 DEF IsChain
  <2>4. x \in DOMAIN aliases /\ aliases[x] = y
    OBVIOUS
  <2>5. N > 0
    <3>1. DOMAIN aliases # {}
      BY <2>4
    <3>2. Cardinality(DOMAIN aliases) # 0
      BY <3>1, FS_EmptySet
    <3> QED BY <1>1, <3>2
  <2> DEFINE Below(c) == c \in DOMAIN aliases => \E i \in DOMAIN r : i < j /\ c = r[i].old
             Good(s, n) == /\ s.current # x /\ x \notin s.seen /\ Below(s.current)
                           /\ s.seen \subseteq DOMAIN aliases
                           /\ Cardinality(s.seen) = n \/ ~MoreAliases(aliases, s.current, s.seen)
  <2>6. ASSUME NEW c, c \in DOMAIN aliases, Below(c)
        PROVE  aliases[c] # x /\ Below(aliases[c])
    <3>1. PICK i \in DOMAIN r : i < j /\ c = r[i].old
      BY <2>6
    <3>2. aliases[c] = r[i].new
      BY <3>1
    <3>3. aliases[c] # x
      BY <3>1, <3>2
    <3>4. ASSUME aliases[c] \in DOMAIN aliases
          PROVE  \E m \in DOMAIN r : m < j /\ aliases[c] = r[m].old
      <4>1. PICK m \in DOMAIN r : aliases[c] = r[m].old
        BY <3>4
      <4>2. ~(i < m)
        BY <3>2, <4>1
      <4> QED BY <3>1, <4>1, <4>2
    <3> QED BY <3>3, <3>4
  <2>7. Good(b[0], 0)
    <3>1. Below(y)
      <4> SUFFICES ASSUME y \in DOMAIN aliases PROVE \E m \in DOMAIN r : m < j /\ y = r[m].old
        OBVIOUS
      <4>1. PICK m \in DOMAIN r : y = r[m].old
        OBVIOUS
      <4>2. ~(j < m) /\ m # j
        BY <1>3, <4>1
      <4> QED BY <4>1, <4>2
    <3> HIDE DEF Below, x, y
    <3> QED BY <1>3, <2>3, <3>1, FS_EmptySet
  <2>8. ASSUME NEW n \in Nat, n + 1 <= N, Good(b[n], n)
        PROVE  Good(b[n + 1], n + 1)
    <3>1. n + 1 \in 1..N /\ (n + 1) - 1 = n
      BY <2>8
    <3>2. b[n + 1] = Moved(aliases, b[n])
      BY <2>3, <3>1
    <3>3. CASE MoreAliases(aliases, b[n].current, b[n].seen)
      <4> DEFINE c == b[n].current
                 S == b[n].seen
      <4>1. b[n + 1] = [current |-> aliases[c], seen |-> S \cup {c}]
        BY <3>2, <3>3 DEF Moved
      <4>2. c \in DOMAIN aliases /\ c \notin S /\ Cardinality(S) = n /\ S \subseteq DOMAIN aliases
        BY <2>8, <3>3 DEF MoreAliases
      <4>3. aliases[c] # x /\ Below(aliases[c])
        BY <2>6, <2>8, <4>2
      <4>4. c # x /\ x \notin S
        <5>1. Good(b[n], n)
          BY <2>8
        <5> HIDE DEF Below, x
        <5> QED BY <5>1
      <4> HIDE DEF c, S
      <4>5. Cardinality(S \cup {c}) = n + 1
        BY <4>2, FS_Subset, FS_AddElement
      <4>6. b[n + 1].current = aliases[c] /\ b[n + 1].seen = S \cup {c}
        BY <4>1
      <4> HIDE DEF Below
      <4> QED BY <4>2, <4>3, <4>4, <4>5, <4>6
    <3>4. CASE ~MoreAliases(aliases, b[n].current, b[n].seen)
      <4>1. b[n + 1] = b[n]
        BY <3>2, <3>4 DEF Moved
      <4> HIDE DEF Below
      <4> QED BY <2>8, <3>4, <4>1
    <3> QED BY <3>3, <3>4
  <2>9. \A n \in 0..N : Good(b[n], n)
    <3> DEFINE K == {n \in Nat : n <= N => Good(b[n], n)}
    <3> HIDE DEF Good
    <3>1. 0 \in K
      BY <2>7
    <3>2. ASSUME NEW n \in Nat, n \in K
          PROVE  n + 1 \in K
      BY <1>1, <2>8, <3>2
    <3>3. Nat \subseteq K
      <4> HIDE DEF K
      <4> QED BY <3>1, <3>2, NumbersByInduction
    <3> QED BY <1>1, <3>3
  <2>10. \A n \in Nat : n + 1 <= N => /\ a[n + 1].current = b[n].current
                                     /\ a[n + 1].seen = b[n].seen \cup {x}
    <3> DEFINE K == {n \in Nat : n + 1 <= N => /\ a[n + 1].current = b[n].current
                                               /\ a[n + 1].seen = b[n].seen \cup {x}}
    <3>1. 0 \in K
      <4>1. 1 \in 1..N /\ 0 + 1 = 1 /\ 1 - 1 = 0
        BY <1>1, <2>5
      <4>2. a[1] = Moved(aliases, a[0])
        BY <2>3, <4>1
      <4>3. MoreAliases(aliases, a[0].current, a[0].seen) /\ a[0].current = x /\ a[0].seen = {}
        BY <2>3, <2>4 DEF MoreAliases
      <4>4. a[1] = [current |-> aliases[x], seen |-> {} \cup {x}]
        BY <4>2, <4>3 DEF Moved
      <4>5. b[0].current = y /\ b[0].seen = {}
        BY <2>3
      <4> HIDE DEF x, y
      <4> QED BY <2>4, <4>1, <4>4, <4>5
    <3>2. ASSUME NEW n \in Nat, n \in K
          PROVE  n + 1 \in K
      <4> SUFFICES ASSUME (n + 1) + 1 <= N
                   PROVE  /\ a[(n + 1) + 1].current = b[n + 1].current
                          /\ a[(n + 1) + 1].seen = b[n + 1].seen \cup {x}
        OBVIOUS
      <4>1. /\ n + 1 \in 1..N /\ (n + 1) - 1 = n /\ n \in 0..N
            /\ (n + 1) + 1 \in 1..N /\ ((n + 1) + 1) - 1 = n + 1
        BY <1>1
      <4>2. a[(n + 1) + 1] = Moved(aliases, a[n + 1]) /\ b[n + 1] = Moved(aliases, b[n])
        BY <2>3, <4>1
      <4>3. a[n + 1].current = b[n].current /\ a[n + 1].seen = b[n].seen \cup {x}
        BY <3>2, <4>1
      <4>4. b[n].current # x
        BY <2>9, <4>1
      <4>5. MoreAliases(aliases, a[n + 1].current, a[n + 1].seen) <=>
            MoreAliases(aliases, b[n].current, b[n].seen)
        BY <4>3, <4>4 DEF MoreAliases
      <4> HIDE DEF x, y
      <4>6. CASE MoreAliases(aliases, b[n].current, b[n].seen)
        <5>1. /\ a[(n + 1) + 1] = [current |-> aliases[a[n + 1].current], seen |-> a[n + 1].seen \cup {a[n + 1].current}]
              /\ b[n + 1] = [current |-> aliases[b[n].current], seen |-> b[n].seen \cup {b[n].current}]
          BY <4>2, <4>5, <4>6 DEF Moved
        <5> QED BY <4>3, <5>1
      <4>7. CASE ~MoreAliases(aliases, b[n].current, b[n].seen)
        <5>1. a[(n + 1) + 1] = a[n + 1] /\ b[n + 1] = b[n]
          BY <4>2, <4>5, <4>7 DEF Moved
        <5> QED BY <4>3, <5>1
      <4> QED BY <4>6, <4>7
    <3> HIDE DEF K
    <3>3. Nat \subseteq K
      BY <3>1, <3>2, NumbersByInduction
    <3> QED BY <3>3 DEF K
  <2>11. PICK M \in Nat : N = M + 1
    <3>1. N - 1 \in Nat /\ N = (N - 1) + 1
      BY <1>1, <2>5
    <3> QED BY <3>1
  <2>12. M \in 0..N /\ N \in 1..N /\ N - 1 = M
    BY <2>11
  <2>13. a[N].current = b[M].current
    BY <2>10, <2>11
  <2>14. ~MoreAliases(aliases, b[M].current, b[M].seen)
    <3> SUFFICES ASSUME MoreAliases(aliases, b[M].current, b[M].seen) PROVE FALSE
      OBVIOUS
    <3> DEFINE c == b[M].current
               S == b[M].seen
    <3>1. /\ c # x /\ x \notin S /\ S \subseteq DOMAIN aliases /\ Cardinality(S) = M
          /\ c \in DOMAIN aliases /\ c \notin S
      BY <2>9, <2>12 DEF MoreAliases
    <3> HIDE DEF c, S, x, y
    <3>2. IsFiniteSet(S) /\ IsFiniteSet(S \cup {c}) /\ Cardinality(S \cup {c}) = M + 1
      BY <3>1, FS_Subset, FS_AddElement
    <3>3. Cardinality((S \cup {c}) \cup {x}) = (M + 1) + 1
      <4>1. x \notin S \cup {c}
        BY <3>1
      <4>2. PICK T : T = S \cup {c}
        OBVIOUS
      <4>3. Cardinality(T \cup {x}) = Cardinality(T) + 1
        BY <3>2, <4>1, <4>2, FS_AddElement
      <4> QED BY <3>2, <4>2, <4>3
    <3>4. (S \cup {c}) \cup {x} \subseteq DOMAIN aliases
      BY <2>4, <3>1
    <3>5. Cardinality((S \cup {c}) \cup {x}) <= N
      BY <1>1, <3>4, FS_Subset
    <3> QED BY <2>11, <3>3, <3>5
  <2>15. b[N] = b[M]
    BY <2>3, <2>12, <2>14 DEF Moved
  <2> QED BY <2>1, <2>2, <2>13, <2>15
<1> QED BY <1>2, <1>3

(* Chains of renames in training are joined.                               *)
LEMMA ChainsJoin ==
  ASSUME EvalAssumption, log \in Logs
  PROVE  ChainsAreJoined
<1> SUFFICES ASSUME GivenUpOnce, NotTakenBack PROVE Joined
  BY DEF ChainsAreJoined
<1> DEFINE r == AllRenames(Older(log))
           aliases == Aliases(log)
<1>1. /\ DOMAIN r = 1..Len(r) /\ Len(r) \in Nat
      /\ DOMAIN aliases = {r[j].old : j \in DOMAIN r} /\ IsFiniteSet(DOMAIN aliases)
      /\ \A x \in DOMAIN aliases : \E j \in DOMAIN r : r[j].old = x /\ aliases[x] = r[j].new
  BY LogTypes, AliasFacts
<1>2. \A i, j \in DOMAIN r : i # j => r[i].old # r[j].old
  BY DEF GivenUpOnce
<1>3. \A i, j \in DOMAIN r : i < j => r[i].new # r[j].old
  BY DEF NotTakenBack
<1>4. Joined <=> \A j \in DOMAIN r : canonical_path(r[j].old, aliases) = canonical_path(r[j].new, aliases)
  BY DEF Joined
<1> HIDE DEF r, aliases
<1>5. \A j \in DOMAIN r : aliases[r[j].old] = r[j].new
  BY <1>1, <1>2
<1>6. \A j \in DOMAIN r : canonical_path(r[j].old, aliases) = canonical_path(r[j].new, aliases)
  <2>1. NeverBack(r, aliases)
    BY <1>1, <1>3, <1>5 DEF NeverBack
  <2> QED BY <2>1, ChainsMeet
<1> QED BY <1>4, <1>6

-----------------------------------------------------------------------------
(* The instances have names of their own for what is said of finite sets.  *)
LEMMA SameFinite ==
  \A S : /\ Diff!Cardinality(S) = Cardinality(S) /\ Pair!Cardinality(S) = Cardinality(S)
         /\ Diff!IsFiniteSet(S) <=> IsFiniteSet(S)
  BY DEF Diff!Cardinality, Pair!Cardinality, Cardinality, Diff!IsFiniteSet, IsFiniteSet

-----------------------------------------------------------------------------
(* Results that can be ranked: one for each path.                          *)
AreResults(S) ==
  /\ IsFiniteSet(S)
  /\ \A r \in S : r.path \in Nat /\ r.score \in Nat
  /\ \A q, r \in S : q.path = r.path => q = r

Order(S) == {p \in S \X S : Diff!Better(p[1], p[2])}

(* truncate_top is the ranking of what is given by result_cmp, and cuts    *)
(* off the worst.                                                          *)
LEMMA OrderFacts ==
  ASSUME NEW D, AreResults(D), NEW S \in SUBSET D, NEW k \in Nat
  PROVE  /\ IsStrictOrder(D, Order(D)) /\ IsTotal(D, Order(D))
         /\ Diff!truncate_top(S, k) = RankedList(S, Order(D), k)
         /\ Diff!truncate_top(S, k) \in Seq(S) /\ Len(Diff!truncate_top(S, k)) <= k
         /\ \A i, j \in DOMAIN Diff!truncate_top(S, k) :
              Diff!truncate_top(S, k)[i] = Diff!truncate_top(S, k)[j] => i = j
         /\ Diff!ToSet(Diff!truncate_top(S, k)) = Best(S, Order(D), k)
<1>1. \A q, r \in D : <<q, r>> \in Order(D) <=> Diff!Better(q, r)
  BY DEF Order
<1>2. \A r \in D : r.path \in Nat /\ r.score \in Nat
  BY DEF AreResults
<1>3. IsStrictOrder(D, Order(D))
  BY <1>1, <1>2 DEF IsStrictOrder, Diff!Better
<1>4. IsTotal(D, Order(D))
  <2> SUFFICES ASSUME NEW q \in D, NEW r \in D, q # r
               PROVE  Diff!Better(q, r) \/ Diff!Better(r, q)
    BY <1>1 DEF IsTotal
  <2>1. q.path # r.path
    BY DEF AreResults
  <2> QED BY <1>2, <2>1 DEF Diff!Better
<1>5. \A r \in S : Ahead(S, Order(D), r) = {q \in S : Diff!Better(q, r)}
  BY <1>1 DEF Ahead
<1>6. IsFiniteSet(S) /\ IsStrictOrder(S, Order(D)) /\ IsTotal(S, Order(D)) /\ Cardinality(S) \in Nat
  BY <1>3, <1>4, FS_Subset, FS_CardinalityType DEF IsStrictOrder, IsTotal, AreResults
<1>7. PICK list : list = Diff!truncate_top(S, k)
  OBVIOUS
<1>8. IsRanked(list, S, Order(D), k)
  <2>1. list = [n \in 1..Shorter(S, k) |->
                  CHOOSE r \in S : Cardinality({q \in S : Diff!Better(q, r)}) = n - 1]
    BY <1>7 DEF Diff!truncate_top, Shorter, Diff!Smaller, Diff!Cardinality, Cardinality
  <2>2. \A n \in 1..Shorter(S, k) :
          list[n] \in S /\ Cardinality(Ahead(S, Order(D), list[n])) = n - 1
    <3> SUFFICES ASSUME NEW n \in 1..Shorter(S, k)
                 PROVE  list[n] \in S /\ Cardinality(Ahead(S, Order(D), list[n])) = n - 1
      OBVIOUS
    <3>1. n \in 1..Cardinality(S)
      BY <1>6 DEF Shorter
    <3>2. \E r \in S : Cardinality(Ahead(S, Order(D), r)) = n - 1
      BY <1>6, <3>1, RanksExist
    <3>3. \E r \in S : Cardinality({q \in S : Diff!Better(q, r)}) = n - 1
      BY <1>5, <3>2
    <3>4. list[n] = CHOOSE r \in S : Cardinality({q \in S : Diff!Better(q, r)}) = n - 1
      BY <2>1
    <3>5. list[n] \in S /\ Cardinality({q \in S : Diff!Better(q, list[n])}) = n - 1
      BY <3>3, <3>4, Zenon
    <3> QED BY <1>5, <3>5
  <2>3. list = [n \in 1..Shorter(S, k) |-> list[n]]
    <3> DEFINE At(n) == CHOOSE r \in S : Cardinality({q \in S : Diff!Better(q, r)}) = n - 1
    <3>1. list = [n \in 1..Shorter(S, k) |-> At(n)]
      BY <2>1
    <3> HIDE DEF At
    <3> QED BY <3>1
  <2> QED BY <2>2, <2>3 DEF IsRanked
<1>9. /\ list = RankedList(S, Order(D), k)
      /\ list \in Seq(S) /\ Len(list) = Shorter(S, k) /\ Shorter(S, k) <= k
      /\ \A i, j \in DOMAIN list : list[i] = list[j] => i = j
      /\ {list[n] : n \in DOMAIN list} = Best(S, Order(D), k)
  BY <1>6, <1>8, RankedIsRankedList
<1>a. Diff!ToSet(list) = Best(S, Order(D), k)
  BY <1>9 DEF Diff!ToSet
<1>b. Len(list) <= k
  BY <1>9
<1> QED BY <1>3, <1>4, <1>7, <1>9, <1>a, <1>b

(* The best of some results are among them, each once, and no more than    *)
(* asked for; all of them if they are no more; and what is not among the   *)
(* best can be left out before.                                            *)
LEMMA Truncated ==
  ASSUME NEW D, AreResults(D), NEW k \in Nat
  PROVE  /\ Diff!truncate_top(D, k) \in Seq(D) /\ Len(Diff!truncate_top(D, k)) <= k
         /\ \A i, j \in DOMAIN Diff!truncate_top(D, k) :
              Diff!truncate_top(D, k)[i] = Diff!truncate_top(D, k)[j] => i = j
         /\ Diff!ToSet(Diff!truncate_top(D, k)) \in SUBSET D
         /\ Cardinality(D) <= k => Diff!ToSet(Diff!truncate_top(D, k)) = D
         /\ \A C \in SUBSET D : Diff!ToSet(Diff!truncate_top(D, k)) \subseteq C =>
              Diff!truncate_top(C, k) = Diff!truncate_top(D, k)
<1>1. IsFiniteSet(D) /\ D \in SUBSET D
  BY DEF AreResults
<1>2. PICK R : R = Order(D)
  OBVIOUS
<1>3. /\ IsStrictOrder(D, R) /\ IsTotal(D, R)
      /\ \A S \in SUBSET D : Diff!truncate_top(S, k) = RankedList(S, R, k)
  BY <1>1, <1>2, OrderFacts
<1>4. PICK list : list = Diff!truncate_top(D, k)
  OBVIOUS
<1>5. /\ list \in Seq(D) /\ Len(list) <= k
      /\ \A i, j \in DOMAIN list : list[i] = list[j] => i = j
      /\ Diff!ToSet(list) = Best(D, R, k)
  BY <1>1, <1>2, <1>4, OrderFacts
<1>8. Best(D, R, k) \in SUBSET D
  BY DEF Best
<1>9. Cardinality(D) <= k => Best(D, R, k) = D
  BY <1>1, <1>3, AllAreBest
<1>a. \A C \in SUBSET D : Best(D, R, k) \subseteq C =>
                          Diff!truncate_top(C, k) = Diff!truncate_top(D, k)
  <2> SUFFICES ASSUME NEW C \in SUBSET D, Best(D, R, k) \subseteq C
               PROVE  Diff!truncate_top(C, k) = Diff!truncate_top(D, k)
    OBVIOUS
  <2>1. RankedList(C, R, k) = RankedList(D, R, k)
    BY <1>1, <1>3, ListOfEnough
  <2> QED BY <1>1, <1>3, <2>1
<1> QED BY <1>4, <1>5, <1>8, <1>9, <1>a

-----------------------------------------------------------------------------
(* What the command was started with.                                      *)
Started == Diff!DiffAssumption /\ history \in Histories /\ changed \in Diffs /\
  excluded \in Exclusions

(* What DiffAssumption says of it.                                         *)
LEMMA StartTypes ==
  ASSUME Started
  PROVE  /\ DiffFiles \subseteq Nat /\ IsFiniteSet(DiffFiles)
         /\ Top \in Nat \ {0} /\ DiffEvidence \in Nat /\ changed \in Seq(DiffFiles)
         /\ Len(history) \in Nat /\ DOMAIN history = 1..Len(history)
         /\ Len(changed) \in Nat /\ DOMAIN changed = 1..Len(changed)
         /\ \A i \in DOMAIN history : /\ history[i].time \in Int /\ history[i].offset \in Int
                                       /\ history[i].hash \in Nat
         /\ \A i, j \in DOMAIN history : history[i].hash = history[j].hash => i = j
         /\ \A i \in DOMAIN changed : changed[i] \in DiffFiles
         /\ \A i, j \in DOMAIN changed : changed[i] = changed[j] => i = j
         /\ Diff!ToSet(changed) = {changed[k] : k \in 1..Len(changed)}
         /\ IsFiniteSet(Diff!ToSet(changed)) /\ Diff!ToSet(changed) \subseteq DiffFiles
         /\ IsFiniteSet(DOMAIN history) /\ DOMAIN history \in SUBSET Nat
<1> DEFINE Commit == [files : SUBSET DiffFiles, time : Int, offset : Int, hash : Nat]
<1>1. /\ DiffFiles \subseteq Nat /\ IsFiniteSet(DiffFiles)
      /\ Top \in Nat \ {0} /\ DiffEvidence \in Nat
      /\ history \in Seq(Commit) /\ changed \in Seq(DiffFiles)
      /\ \A i, j \in DOMAIN history : history[i].hash = history[j].hash => i = j
      /\ \A i, j \in DOMAIN changed : changed[i] = changed[j] => i = j
  BY SameFinite DEF Started, Diff!DiffAssumption
<1> HIDE DEF Commit
<1>2. /\ Len(history) \in Nat /\ DOMAIN history = 1..Len(history)
      /\ Len(changed) \in Nat /\ DOMAIN changed = 1..Len(changed)
  BY <1>1, LenProperties
<1>3. /\ \A i \in DOMAIN history : history[i] \in Commit
      /\ \A i \in DOMAIN changed : changed[i] \in DiffFiles
  BY <1>1, <1>2, ElementOfSeq
<1>4. Diff!ToSet(changed) = {changed[k] : k \in 1..Len(changed)}
  BY <1>2 DEF Diff!ToSet
<1>5. Diff!ToSet(changed) \subseteq DiffFiles
  BY <1>2, <1>3, <1>4
<1>6. IsFiniteSet(Diff!ToSet(changed))
  BY <1>1, <1>5, FS_Subset
<1>7. IsFiniteSet(DOMAIN history) /\ DOMAIN history \in SUBSET Nat
  BY <1>2, FS_Interval
<1>8. \A i \in DOMAIN history : /\ history[i].time \in Int /\ history[i].offset \in Int
                               /\ history[i].hash \in Nat
  BY <1>3 DEF Commit
<1> QED BY <1>1, <1>2, <1>3, <1>4, <1>5, <1>6, <1>7, <1>8

(* The first commits of the log, as a list by rank.                        *)
LEMMA FirstFacts ==
  ASSUME Started, NEW A, A \subseteq DOMAIN history
  PROVE  /\ Diff!ToSet(Diff!FirstOf(A)) = Best(A, Earlier, DiffEvidence)
         /\ Best(A, Earlier, DiffEvidence) \subseteq A
         /\ Len(Diff!FirstOf(A)) = Shorter(A, DiffEvidence)
         /\ \A m, n \in DOMAIN Diff!FirstOf(A) : Diff!FirstOf(A)[m] = Diff!FirstOf(A)[n] => m = n
         /\ Best(A, Earlier, DiffEvidence) # A =>
              Cardinality(Best(A, Earlier, DiffEvidence)) = DiffEvidence
         /\ \A i \in Best(A, Earlier, DiffEvidence), j \in A \ Best(A, Earlier, DiffEvidence) : i < j
<1> DEFINE k == DiffEvidence
<1>1. k \in Nat /\ A \in SUBSET Nat /\ IsFiniteSet(A)
  <2>1. DOMAIN history \in SUBSET Nat /\ IsFiniteSet(DOMAIN history) /\ k \in Nat
    BY StartTypes
  <2> QED BY <2>1, FS_Subset
<1>2. IsStrictOrder(A, Earlier) /\ IsTotal(A, Earlier)
  BY <1>1, EarlierFacts
<1>3. PICK list : list = Diff!FirstOf(A)
  OBVIOUS
<1>4. list = ByNumber(A, k)
  BY <1>3 DEF Diff!FirstOf, ByNumber, Shorter, Diff!Smaller, Diff!Cardinality, Cardinality
<1> HIDE DEF k
<1>5. /\ list = RankedList(A, Earlier, k) /\ Len(list) = Shorter(A, k)
      /\ {list[n] : n \in DOMAIN list} = Best(A, Earlier, k) /\ Best(A, Earlier, k) \subseteq A
  <2>1. /\ ByNumber(A, k) = RankedList(A, Earlier, k) /\ Len(ByNumber(A, k)) = Shorter(A, k)
        /\ {ByNumber(A, k)[n] : n \in DOMAIN ByNumber(A, k)} = Best(A, Earlier, k)
    BY <1>1, ByNumberFacts
  <2>2. Best(A, Earlier, k) \subseteq A
    BY DEF Best
  <2> QED BY <1>4, <2>1, <2>2
<1>6. \A m, n \in DOMAIN list : list[m] = list[n] => m = n
  <2>1. PICK m : m = IF k <= Cardinality(A) THEN k ELSE Cardinality(A)
    OBVIOUS
  <2>2. /\ DOMAIN RankedList(A, Earlier, k) = 1..m
        /\ \A i, j \in 1..m : RankedList(A, Earlier, k)[i] = RankedList(A, Earlier, k)[j] => i = j
    BY <1>1, <1>2, <2>1, RankedListFacts
  <2> QED BY <1>5, <2>2
<1>7. /\ Best(A, Earlier, k) # A => Cardinality(Best(A, Earlier, k)) = k
      /\ \A i \in Best(A, Earlier, k), j \in A \ Best(A, Earlier, k) : <<i, j>> \in Earlier
  BY <1>1, <1>2, BestFacts
<1>8. Diff!ToSet(list) = Best(A, Earlier, k)
  BY <1>5 DEF Diff!ToSet
<1>9. \A i, j : <<i, j>> \in Earlier => i < j
  BY DEF Earlier
<1> QED BY <1>3, <1>5, <1>6, <1>7, <1>8, <1>9 DEF k

(* The text of an offset is an order of the offsets.                       *)
LEMMA OffsetFacts ==
  ASSUME NEW o \in Int, NEW p \in Int
  PROVE  /\ ~(Diff!OffsetAfter(o, p) /\ Diff!OffsetAfter(p, o))
         /\ o = p \/ Diff!OffsetAfter(o, p) \/ Diff!OffsetAfter(p, o)
         /\ \A q \in Int : Diff!OffsetAfter(o, p) /\ Diff!OffsetAfter(p, q) => Diff!OffsetAfter(o, q)
BY DEF Diff!OffsetAfter, Diff!Distance

(* The text of a date orders the commits, with ties.                       *)
After(i, j) == Diff!DateAfter(history[i], history[j])

(* It is a strict order, and what has no order has the same date.          *)
LEMMA DateFacts ==
  ASSUME Started, NEW i \in DOMAIN history, NEW j \in DOMAIN history, NEW l \in DOMAIN history
  PROVE  /\ ~(After(i, j) /\ After(j, i))
         /\ After(i, j) => After(i, l) \/ After(l, j)
<1>1. /\ history[i].time + history[i].offset \in Int /\ history[i].offset \in Int
      /\ history[j].time + history[j].offset \in Int /\ history[j].offset \in Int
      /\ history[l].time + history[l].offset \in Int /\ history[l].offset \in Int
  <2>1. \A n \in DOMAIN history : history[n].time \in Int /\ history[n].offset \in Int
    BY StartTypes
  <2> QED BY <2>1
<1>2. PICK a \in Int, b \in Int, c \in Int :
         /\ a = history[i].time + history[i].offset
         /\ b = history[j].time + history[j].offset
         /\ c = history[l].time + history[l].offset
  BY <1>1
<1>3. PICK o \in Int, p \in Int, q \in Int :
         o = history[i].offset /\ p = history[j].offset /\ q = history[l].offset
  BY <1>1
<1>4. /\ After(i, j) <=> a > b \/ (a = b /\ Diff!OffsetAfter(o, p))
      /\ After(j, i) <=> b > a \/ (b = a /\ Diff!OffsetAfter(p, o))
      /\ After(i, l) <=> a > c \/ (a = c /\ Diff!OffsetAfter(o, q))
      /\ After(l, j) <=> c > b \/ (c = b /\ Diff!OffsetAfter(q, p))
  BY <1>2, <1>3 DEF After, Diff!DateAfter, Diff!Local
<1>5. /\ ~(Diff!OffsetAfter(o, p) /\ Diff!OffsetAfter(p, o))
      /\ Diff!OffsetAfter(o, p) => Diff!OffsetAfter(o, q) \/ Diff!OffsetAfter(q, p)
  <2>1. o = q \/ Diff!OffsetAfter(o, q) \/ Diff!OffsetAfter(q, o)
    BY OffsetFacts
  <2>2. Diff!OffsetAfter(q, o) /\ Diff!OffsetAfter(o, p) => Diff!OffsetAfter(q, p)
    BY OffsetFacts
  <2>3. ~(Diff!OffsetAfter(o, p) /\ Diff!OffsetAfter(p, o))
    BY OffsetFacts
  <2> QED BY <2>1, <2>2, <2>3
<1> QED BY <1>4, <1>5

(* With the hash it leaves no ties.                                        *)
ByDate == {p \in (DOMAIN history) \X (DOMAIN history) : Diff!Sooner(p[1], p[2])}

(* A strict and total order of any commits, which follows their dates.     *)
LEMMA SoonerFacts ==
  ASSUME Started, NEW A, A \subseteq DOMAIN history
  PROVE  /\ IsFiniteSet(A) /\ IsStrictOrder(A, ByDate) /\ IsTotal(A, ByDate)
         /\ \A i \in A : Ahead(A, ByDate, i) = {j \in A : Diff!Sooner(j, i)}
         /\ \A i, j \in A : <<i, j>> \in ByDate => ~After(j, i)
<1>1. /\ IsFiniteSet(DOMAIN history) /\ \A i \in DOMAIN history : history[i].hash \in Nat
      /\ \A i, j \in DOMAIN history : history[i].hash = history[j].hash => i = j
  BY StartTypes
<1>2. \A i, j \in DOMAIN history :
         <<i, j>> \in ByDate <=>
            After(i, j) \/ (~After(j, i) /\ history[i].hash < history[j].hash)
  BY DEF ByDate, Diff!Sooner, After
<1>3. \A i, j, l \in DOMAIN history :
         /\ ~(After(i, j) /\ After(j, i))
         /\ After(i, j) => After(i, l) \/ After(l, j)
  BY DateFacts
<1>4. IsStrictOrder(DOMAIN history, ByDate)
  <2>1. \A i \in DOMAIN history : <<i, i>> \notin ByDate
    BY <1>1, <1>2, <1>3
  <2>2. ASSUME NEW i \in DOMAIN history, NEW j \in DOMAIN history, NEW l \in DOMAIN history,
               <<i, j>> \in ByDate, <<j, l>> \in ByDate
        PROVE  <<i, l>> \in ByDate
    <3>1. ~After(j, i) /\ ~After(l, j)
      BY <1>2, <1>3, <2>2
    <3>2. ~After(l, i)
      BY <1>3, <3>1
    <3>3. CASE After(i, j) \/ After(j, l)
      <4>1. After(i, l)
        BY <1>3, <3>1, <3>3
      <4> QED BY <1>2, <4>1
    <3>4. CASE ~After(i, j) /\ ~After(j, l)
      <4>1. history[i].hash < history[j].hash /\ history[j].hash < history[l].hash
        BY <1>2, <2>2, <3>4
      <4>2. history[i].hash < history[l].hash
        BY <1>1, <4>1
      <4> QED BY <1>2, <3>2, <4>2
    <3> QED BY <3>3, <3>4
  <2> QED BY <2>1, <2>2 DEF IsStrictOrder
<1>5. IsTotal(DOMAIN history, ByDate)
  <2> SUFFICES ASSUME NEW i \in DOMAIN history, NEW j \in DOMAIN history, i # j
               PROVE  <<i, j>> \in ByDate \/ <<j, i>> \in ByDate
    BY DEF IsTotal
  <2>1. history[i].hash < history[j].hash \/ history[j].hash < history[i].hash
    BY <1>1
  <2> QED BY <1>2, <2>1
<1>6. \A i \in A : Ahead(A, ByDate, i) = {j \in A : Diff!Sooner(j, i)}
  BY DEF Ahead, ByDate
<1>7. \A i, j \in A : <<i, j>> \in ByDate => ~After(j, i)
  BY <1>2, <1>3
<1>8. IsFiniteSet(A)
  BY <1>1, FS_Subset
<1>9. IsStrictOrder(A, ByDate) /\ IsTotal(A, ByDate)
  BY <1>4, <1>5 DEF IsStrictOrder, IsTotal
<1> QED BY <1>6, <1>7, <1>8, <1>9

(* The latest commits, as a list by rank.                                  *)
LEMMA LatestFacts ==
  ASSUME Started, NEW A, A \subseteq DOMAIN history
  PROVE  /\ Diff!LatestOf(A) = RankedList(A, ByDate, DiffEvidence)
         /\ Diff!ToSet(Diff!LatestOf(A)) = Best(A, ByDate, DiffEvidence)
         /\ Best(A, ByDate, DiffEvidence) \subseteq A
         /\ Len(Diff!LatestOf(A)) = Shorter(A, DiffEvidence)
         /\ \A m, n \in DOMAIN Diff!LatestOf(A) : Diff!LatestOf(A)[m] = Diff!LatestOf(A)[n] => m = n
<1> DEFINE k == DiffEvidence
<1>1. /\ k \in Nat /\ IsFiniteSet(A) /\ Cardinality(A) \in Nat
      /\ IsStrictOrder(A, ByDate) /\ IsTotal(A, ByDate)
      /\ \A i \in A : Ahead(A, ByDate, i) = {j \in A : Diff!Sooner(j, i)}
  BY StartTypes, SoonerFacts, FS_CardinalityType
<1>2. PICK list : list = Diff!LatestOf(A)
  OBVIOUS
<1>3. list = [n \in 1..Shorter(A, k) |->
                CHOOSE i \in A : Cardinality({j \in A : Diff!Sooner(j, i)}) = n - 1]
  BY <1>2 DEF Diff!LatestOf, Shorter, Diff!Smaller, Diff!Cardinality, Cardinality
<1> HIDE DEF k
<1>4. \A n \in 1..Shorter(A, k) : list[n] \in A /\ Cardinality(Ahead(A, ByDate, list[n])) = n - 1
  <2> SUFFICES ASSUME NEW n \in 1..Shorter(A, k)
               PROVE  list[n] \in A /\ Cardinality(Ahead(A, ByDate, list[n])) = n - 1
    OBVIOUS
  <2>1. n \in 1..Cardinality(A)
    BY <1>1 DEF Shorter
  <2>2. \E i \in A : Cardinality(Ahead(A, ByDate, i)) = n - 1
    BY <1>1, <2>1, RanksExist
  <2>3. \E i \in A : Cardinality({j \in A : Diff!Sooner(j, i)}) = n - 1
    BY <1>1, <2>2
  <2>4. list[n] = CHOOSE i \in A : Cardinality({j \in A : Diff!Sooner(j, i)}) = n - 1
    BY <1>3
  <2>5. list[n] \in A /\ Cardinality({j \in A : Diff!Sooner(j, list[n])}) = n - 1
    BY <2>3, <2>4, Zenon
  <2> QED BY <1>1, <2>5
<1>5. list = [n \in 1..Shorter(A, k) |-> list[n]]
  <2> DEFINE At(n) == CHOOSE i \in A : Cardinality({j \in A : Diff!Sooner(j, i)}) = n - 1
  <2>1. list = [n \in 1..Shorter(A, k) |-> At(n)]
    BY <1>3
  <2> HIDE DEF At
  <2> QED BY <2>1
<1>6. IsRanked(list, A, ByDate, k)
  BY <1>4, <1>5 DEF IsRanked
<1>7. /\ list = RankedList(A, ByDate, k) /\ Len(list) = Shorter(A, k)
      /\ \A m, n \in DOMAIN list : list[m] = list[n] => m = n
      /\ {list[n] : n \in DOMAIN list} = Best(A, ByDate, k)
  BY <1>1, <1>6, RankedIsRankedList
<1>8. Diff!ToSet(list) = Best(A, ByDate, k) /\ Best(A, ByDate, k) \subseteq A
  BY <1>7 DEF Diff!ToSet, Best
<1> QED BY <1>2, <1>7, <1>8 DEF k

(* What was cut off before is not missing from the latest of both.         *)
LEMMA LatestOfLatest ==
  ASSUME Started, NEW A, A \subseteq DOMAIN history, NEW B, B \subseteq DOMAIN history
  PROVE  Diff!LatestOf(Diff!ToSet(Diff!LatestOf(A)) \cup B) = Diff!LatestOf(A \cup B)
<1> DEFINE k == DiffEvidence
           D == A \cup B
           C == Best(A, ByDate, k) \cup B
<1>1. k \in Nat
  BY StartTypes
<1>2. /\ IsFiniteSet(A) /\ IsStrictOrder(A, ByDate) /\ IsTotal(A, ByDate)
  BY SoonerFacts
<1>3. D \subseteq DOMAIN history
  OBVIOUS
<1>4. IsFiniteSet(D) /\ IsStrictOrder(D, ByDate) /\ IsTotal(D, ByDate)
  BY <1>3, SoonerFacts
<1>5. Diff!ToSet(Diff!LatestOf(A)) = Best(A, ByDate, k) /\ C \in SUBSET D
  BY LatestFacts
<1>6. Best(D, ByDate, k) \subseteq C
  <2> SUFFICES ASSUME NEW i \in Best(D, ByDate, k), i \in A
               PROVE  i \in Best(A, ByDate, k)
    BY DEF Best
  <2>1. Cardinality(Ahead(D, ByDate, i)) < k
    BY DEF Best
  <2>2. Ahead(A, ByDate, i) \subseteq Ahead(D, ByDate, i) /\ IsFiniteSet(Ahead(D, ByDate, i))
    <3>1. Ahead(D, ByDate, i) \subseteq D /\ Ahead(A, ByDate, i) \subseteq Ahead(D, ByDate, i)
      BY DEF Ahead
    <3> QED BY <1>4, <3>1, FS_Subset
  <2>3. /\ Cardinality(Ahead(A, ByDate, i)) <= Cardinality(Ahead(D, ByDate, i))
        /\ Cardinality(Ahead(A, ByDate, i)) \in Nat /\ Cardinality(Ahead(D, ByDate, i)) \in Nat
    BY <2>2, FS_Subset, FS_CardinalityType
  <2>4. Cardinality(Ahead(A, ByDate, i)) < k
    BY <1>1, <2>1, <2>3
  <2> QED BY <2>4 DEF Best
<1>7. C \subseteq DOMAIN history
  BY <1>3, <1>5
<1> HIDE DEF k, D, C
<1>8. RankedList(C, ByDate, k) = RankedList(D, ByDate, k)
  BY <1>1, <1>4, <1>5, <1>6, ListOfEnough
<1>9. Diff!LatestOf(C) = Diff!LatestOf(D)
  BY <1>3, <1>7, <1>8, LatestFacts DEF k
<1> QED BY <1>5, <1>9 DEF C, D

(* What is shown for one target, and with one more.                        *)
Pool(x, T) == UNION {Diff!ToSet(Diff!FirstOf(Diff!With(t, x))) : t \in T}

(* What is shown for a single target, and for more or none.                *)
LEMMA EvidenceFacts ==
  ASSUME Started, NEW x
  PROVE  /\ \A T : Pool(x, T) \subseteq DOMAIN history
         /\ \A t : Diff!Evidence(x, {t}) = Diff!FirstOf(Diff!With(t, x))
         /\ \A T : Cardinality(T) # 1 => Diff!Evidence(x, T) = Diff!LatestOf(Pool(x, T))
<1>1. ASSUME NEW T
      PROVE  Pool(x, T) \subseteq DOMAIN history
  <2>1. \A t : Diff!With(t, x) \subseteq DOMAIN history
    BY DEF Diff!With
  <2>2. \A t : Diff!ToSet(Diff!FirstOf(Diff!With(t, x))) \subseteq DOMAIN history
    BY <2>1, FirstFacts
  <2> QED BY <2>2 DEF Pool
<1>2. ASSUME NEW t
      PROVE  Diff!Evidence(x, {t}) = Diff!FirstOf(Diff!With(t, x))
  <2>1. Diff!Cardinality({t}) = 1
    BY SameFinite, FS_Singleton
  <2>2. (CHOOSE s \in {t} : TRUE) = t
    OBVIOUS
  <2> QED BY <2>1, <2>2 DEF Diff!Evidence
<1>3. \A T : Cardinality(T) # 1 => Diff!Evidence(x, T) = Diff!LatestOf(Pool(x, T))
  BY SameFinite DEF Diff!Evidence, Pool
<1> QED BY <1>1, <1>2, <1>3

(* Merging in what one more target found is having asked for it as well.   *)
LEMMA OneMoreTarget ==
  ASSUME Started, NEW x, NEW T, IsFiniteSet(T), T # {}, NEW t, t \notin T
  PROVE  Diff!LatestOf(Diff!ToSet(Diff!Evidence(x, T)) \cup Diff!ToSet(Diff!FirstOf(Diff!With(t, x))))
           = Diff!Evidence(x, T \cup {t})
<1> DEFINE first == Diff!ToSet(Diff!FirstOf(Diff!With(t, x)))
<1>1. Pool(x, T \cup {t}) = Pool(x, T) \cup first
  BY DEF Pool
<1>2. Pool(x, T) \subseteq DOMAIN history /\ first \subseteq DOMAIN history
  <2>1. Pool(x, T) \subseteq DOMAIN history /\ Pool(x, {t}) \subseteq DOMAIN history
    BY EvidenceFacts
  <2>2. Pool(x, {t}) = first
    BY DEF Pool
  <2> QED BY <2>1, <2>2
<1>3. Cardinality(T \cup {t}) # 1
  <2>1. Cardinality(T) \in Nat /\ Cardinality(T) # 0
    BY FS_CardinalityType, FS_EmptySet
  <2>2. Cardinality(T \cup {t}) = Cardinality(T) + 1
    BY FS_AddElement
  <2> QED BY <2>1, <2>2
<1> HIDE DEF first
<1>4. Diff!Evidence(x, T \cup {t}) = Diff!LatestOf(Pool(x, T) \cup first)
  BY <1>1, <1>3, EvidenceFacts
<1>5. CASE Cardinality(T) = 1
  <2>1. PICK s : T = {s}
    BY <1>5, FS_Singleton
  <2>2. Diff!ToSet(Diff!Evidence(x, T)) = Pool(x, T)
    BY <2>1, EvidenceFacts DEF Pool
  <2> QED BY <1>4, <2>2 DEF first
<1>6. CASE Cardinality(T) # 1
  <2>1. Diff!Evidence(x, T) = Diff!LatestOf(Pool(x, T))
    BY <1>6, EvidenceFacts
  <2>2. Diff!LatestOf(Diff!ToSet(Diff!LatestOf(Pool(x, T))) \cup first) = Diff!LatestOf(Pool(x, T) \cup first)
    BY <1>2, LatestOfLatest
  <2> QED BY <1>4, <2>1, <2>2 DEF first
<1> QED BY <1>5, <1>6

(* It depends on the history alone.                                        *)
LEMMA SameEvidence ==
  ASSUME history' = history
  PROVE  /\ \A x, T : Diff!Evidence(x, T)' = Diff!Evidence(x, T)
         /\ Diff!DatesFollowLog' <=> Diff!DatesFollowLog
<1>1. \A i, j : Diff!Sooner(i, j)' <=> Diff!Sooner(i, j)
  BY DEF Diff!Sooner, Diff!DateAfter, Diff!Local, Diff!OffsetAfter, Diff!Distance
<1>2. \A A : Diff!LatestOf(A)' = Diff!LatestOf(A)
  BY <1>1 DEF Diff!LatestOf
<1>3. \A t, x : Diff!With(t, x)' = Diff!With(t, x)
  BY DEF Diff!With
<1>4. \A x, T : Diff!Evidence(x, T)' = Diff!Evidence(x, T)
  <2>1. \A A : Diff!FirstOf(A)' = Diff!FirstOf(A)
    BY DEF Diff!FirstOf, Diff!Smaller
  <2>2. \A t, x : Diff!FirstOf(Diff!With(t, x))' = Diff!FirstOf(Diff!With(t, x))
    BY <1>3, <2>1
  <2>3. \A x, t : Diff!ToSet(Diff!FirstOf(Diff!With(t, x)))' = Diff!ToSet(Diff!FirstOf(Diff!With(t, x)))
    BY <2>2 DEF Diff!ToSet
  <2>4. \A x, T : UNION {Diff!ToSet(Diff!FirstOf(Diff!With(t, x)))' : t \in T} =
                  UNION {Diff!ToSet(Diff!FirstOf(Diff!With(t, x))) : t \in T}
    BY <2>3
  <2>5. \A x, T : Diff!LatestOf(UNION {Diff!ToSet(Diff!FirstOf(Diff!With(t, x))) : t \in T})' =
                  Diff!LatestOf(UNION {Diff!ToSet(Diff!FirstOf(Diff!With(t, x))) : t \in T})
    BY <1>2, <2>4
  <2> QED BY SameFinite, <2>2, <2>5 DEF Diff!Evidence
<1>5. Diff!DatesFollowLog' <=> Diff!DatesFollowLog
  BY DEF Diff!DatesFollowLog
<1> QED BY <1>4, <1>5

(* The commits two files share are finitely many.                          *)
LEMMA WithFacts ==
  ASSUME Started, NEW t, NEW x
  PROVE  /\ Diff!With(t, x) \in SUBSET Nat /\ Diff!With(t, x) \subseteq DOMAIN history
         /\ IsFiniteSet(Diff!With(t, x)) /\ Cardinality(Diff!With(t, x)) \in Nat
<1>1. DOMAIN history \in SUBSET Nat /\ IsFiniteSet(DOMAIN history)
  BY StartTypes
<1>2. Diff!With(t, x) \subseteq DOMAIN history
  BY DEF Diff!With
<1>3. IsFiniteSet(Diff!With(t, x)) /\ Cardinality(Diff!With(t, x)) \in Nat
  BY <1>1, <1>2, FS_Subset, FS_CardinalityType
<1> QED BY <1>1, <1>2, <1>3

(* What the history says of two files, of all the partners of one.         *)
Of(t, x) == [path |-> x, score |-> Cardinality(Diff!With(t, x)), evidence |-> Diff!FirstOf(Diff!With(t, x))]
Partners(t) == {x \in DiffFiles \ {t} : Diff!With(t, x) # {}}
AllOf(t) == {Of(t, x) : x \in Partners(t)}

(* A target has one result for each file that changed with it.             *)
LEMMA AllOfFacts ==
  ASSUME Started, NEW t
  PROVE  /\ AreResults(AllOf(t)) /\ Cardinality(AllOf(t)) <= Cardinality(DiffFiles)
         /\ \A r \in AllOf(t) : r.path \in Partners(t) /\ r = Of(t, r.path)
         /\ \A x \in Partners(t) : Of(t, x) \in AllOf(t)
         /\ \A x : Of(t, x).path = x
<1>1. \A x : Of(t, x).path = x /\ Of(t, x).score = Cardinality(Diff!With(t, x))
  BY DEF Of
<1>2. \A r \in AllOf(t) : r.path \in Partners(t) /\ r = Of(t, r.path)
  BY <1>1 DEF AllOf
<1>3. IsFiniteSet(DiffFiles) /\ DiffFiles \subseteq Nat /\ Partners(t) \subseteq DiffFiles
  BY StartTypes DEF Partners
<1>4. IsFiniteSet(Partners(t)) /\ Cardinality(Partners(t)) <= Cardinality(DiffFiles)
  BY <1>3, FS_Subset
<1>5. /\ IsFiniteSet(AllOf(t)) /\ Cardinality(AllOf(t)) <= Cardinality(Partners(t))
  <2> DEFINE f == [x \in Partners(t) |-> Of(t, x)]
  <2>1. f \in Surjection(Partners(t), AllOf(t))
    BY DEF Surjection, AllOf
  <2> QED BY <1>4, <2>1, FS_Surjection
<1>6. Cardinality(AllOf(t)) <= Cardinality(DiffFiles)
  BY <1>3, <1>4, <1>5, FS_CardinalityType
<1>7. \A r \in AllOf(t) : r.path \in Nat /\ r.score \in Nat
  <2>1. \A x : Cardinality(Diff!With(t, x)) \in Nat
    BY WithFacts
  <2>2. \A r \in AllOf(t) : r.score = Cardinality(Diff!With(t, r.path))
    BY <1>1, <1>2
  <2> QED BY <1>2, <1>3, <2>1, <2>2
<1>8. \A q, r \in AllOf(t) : q.path = r.path => q = r
  BY <1>2
<1>9. \A x \in Partners(t) : Of(t, x) \in AllOf(t)
  BY DEF AllOf
<1> QED BY <1>1, <1>2, <1>5, <1>6, <1>7, <1>8, <1>9 DEF AreResults

(* A query answers with some of the partners of its target, all of them    *)
(* with --exclude.                                                         *)
ListFor(t) == Diff!query_on_demand(t, Diff!filtered_query_top(Top))
News(list) == {r.path : r \in {q \in Diff!ToSet(list) : ~Diff!Skipped(q.path)}}

(* What is asked for without a limit is all there is, with one the best of *)
(* it.                                                                     *)
LEMMA ResultFacts ==
  ASSUME Started, NEW t
  PROVE  /\ ListFor(t) \in Seq(AllOf(t))
         /\ Diff!ToSet(ListFor(t)) \subseteq AllOf(t)
         /\ excluded # {} => Diff!ToSet(ListFor(t)) = AllOf(t)
         /\ excluded = {} => ListFor(t) = Diff!truncate_top(AllOf(t), Top)
         /\ \A x \in News(ListFor(t)) :
              ListFor(t)[CHOOSE i \in DOMAIN ListFor(t) : ListFor(t)[i].path = x] = Of(t, x)
<1>1. ListFor(t) = Diff!truncate_top(AllOf(t), Diff!filtered_query_top(Top))
  BY SameFinite DEF ListFor, Diff!query_on_demand, AllOf, Of, Partners
<1>2. PICK list : list = ListFor(t)
  OBVIOUS
<1>3. PICK k : k = Diff!filtered_query_top(Top)
  OBVIOUS
<1>4. k \in Nat /\ (excluded = {} => k = Top) /\ (excluded # {} => k = Cardinality(DiffFiles))
  <2>1. Top \in Nat /\ Cardinality(DiffFiles) \in Nat
    BY StartTypes, FS_CardinalityType
  <2> QED BY SameFinite, <1>3, <2>1 DEF Diff!filtered_query_top
<1>5. /\ list \in Seq(AllOf(t)) /\ Diff!ToSet(list) \in SUBSET AllOf(t)
      /\ Cardinality(AllOf(t)) <= k => Diff!ToSet(list) = AllOf(t)
  BY <1>1, <1>2, <1>3, <1>4, AllOfFacts, Truncated
<1>6. excluded # {} => Diff!ToSet(list) = AllOf(t)
  BY <1>4, <1>5, AllOfFacts
<1>7. \A i \in DOMAIN list : list[i] = Of(t, list[i].path)
  <2>1. \A i \in DOMAIN list : list[i] \in Diff!ToSet(list)
    BY DEF Diff!ToSet
  <2> QED BY <1>5, <2>1, AllOfFacts
<1>8. ASSUME NEW x \in News(list)
      PROVE  list[CHOOSE i \in DOMAIN list : list[i].path = x] = Of(t, x)
  <2>1. PICK q \in Diff!ToSet(list) : q.path = x
    BY DEF News
  <2>2. \E i \in DOMAIN list : list[i].path = x
    BY <2>1 DEF Diff!ToSet
  <2>3. PICK i : i = CHOOSE j \in DOMAIN list : list[j].path = x
    OBVIOUS
  <2>4. i \in DOMAIN list /\ list[i].path = x
    BY <2>2, <2>3
  <2> QED BY <1>7, <2>3, <2>4
<1>9. excluded = {} => list = Diff!truncate_top(AllOf(t), Top)
  BY <1>1, <1>2, <1>3, <1>4
<1> QED BY <1>2, <1>5, <1>6, <1>8, <1>9

(* Merging adds what is new, and sums what was known before.               *)
LEMMA MergedFacts ==
  ASSUME Started, NEW t
  PROVE  /\ DOMAIN Diff!Merged(ListFor(t)) = DOMAIN aggregate \cup News(ListFor(t))
         /\ News(ListFor(t)) \subseteq Partners(t) \ Diff!ToSet(changed)
         /\ excluded # {} => News(ListFor(t)) = Partners(t) \ Diff!ToSet(changed)
         /\ \A x \in DOMAIN aggregate \ News(ListFor(t)) : Diff!Merged(ListFor(t))[x] = aggregate[x]
         /\ \A x \in News(ListFor(t)) \ DOMAIN aggregate : Diff!Merged(ListFor(t))[x] = Of(t, x)
         /\ \A x \in News(ListFor(t)) \cap DOMAIN aggregate :
              Diff!Merged(ListFor(t))[x] = Diff!merge_diff_result(aggregate[x], Of(t, x))
<1>1. PICK list : list = ListFor(t)
  OBVIOUS
<1>2. PICK news : news = News(list)
  OBVIOUS
<1> DEFINE At(x) == list[CHOOSE i \in DOMAIN list : list[i].path = x]
<1>3. Diff!Merged(list) = [x \in DOMAIN aggregate \cup news |->
                        CASE x \notin news             -> aggregate[x]
                          [] x \notin DOMAIN aggregate -> At(x)
                          [] OTHER                     -> Diff!merge_diff_result(aggregate[x], At(x))]
  BY <1>2 DEF Diff!Merged, News
<1>4. \A x \in news : At(x) = Of(t, x)
  BY <1>1, <1>2, ResultFacts
<1> HIDE DEF At
<1>5. /\ DOMAIN Diff!Merged(list) = DOMAIN aggregate \cup news
      /\ \A x \in DOMAIN aggregate \ news : Diff!Merged(list)[x] = aggregate[x]
      /\ \A x \in news \ DOMAIN aggregate : Diff!Merged(list)[x] = Of(t, x)
      /\ \A x \in news \cap DOMAIN aggregate :
           Diff!Merged(list)[x] = Diff!merge_diff_result(aggregate[x], Of(t, x))
  BY <1>3, <1>4
<1>6. news \subseteq Partners(t) \ Diff!ToSet(changed)
  <2>1. Diff!ToSet(list) \subseteq AllOf(t)
    BY <1>1, ResultFacts
  <2> QED BY <1>2, <2>1, AllOfFacts DEF News, Diff!Skipped
<1>7. ASSUME excluded # {}, NEW x \in Partners(t) \ Diff!ToSet(changed)
      PROVE  x \in news
  <2>1. Of(t, x) \in Diff!ToSet(list) /\ Of(t, x).path = x
    BY <1>1, <1>7, AllOfFacts, ResultFacts
  <2> QED BY <1>2, <2>1 DEF News, Diff!Skipped
<1> QED BY <1>1, <1>2, <1>5, <1>6, <1>7

-----------------------------------------------------------------------------
(* The reasons of the first n files: file n adds its own.                  *)
FoundBy(x, n) == {r \in Diff!Reasons(x) : \E k \in 1..n : r[1] = changed[k]}

(* The reasons are finitely many, and those of file n are new.             *)
LEMMA ReasonsFacts ==
  ASSUME Started, NEW x
  PROVE  /\ IsFiniteSet(Diff!Reasons(x)) /\ Cardinality(Diff!Reasons(x)) \in Nat
         /\ FoundBy(x, 0) = {} /\ FoundBy(x, Len(changed)) = Diff!Reasons(x)
         /\ \A n \in 0..Len(changed) :
              /\ IsFiniteSet(FoundBy(x, n)) /\ Cardinality(FoundBy(x, n)) \in Nat
              /\ Cardinality(FoundBy(x, n)) <= Cardinality(Diff!Reasons(x))
              /\ IsFiniteSet(Diff!Targets(FoundBy(x, n)))
              /\ FoundBy(x, n) # {} => Diff!Targets(FoundBy(x, n)) # {}
         /\ \A n \in 1..Len(changed) :
              /\ FoundBy(x, n) = FoundBy(x, n - 1) \cup ({changed[n]} \X Diff!With(changed[n], x))
              /\ Cardinality(FoundBy(x, n)) =
                   Cardinality(FoundBy(x, n - 1)) + Cardinality(Diff!With(changed[n], x))
              /\ changed[n] \notin Diff!Targets(FoundBy(x, n - 1))
              /\ Diff!With(changed[n], x) # {} =>
                   Diff!Targets(FoundBy(x, n)) = Diff!Targets(FoundBy(x, n - 1)) \cup {changed[n]}
<1>1. /\ IsFiniteSet(Diff!ToSet(changed)) /\ IsFiniteSet(DOMAIN history)
      /\ DOMAIN history = 1..Len(history) /\ Len(changed) \in Nat /\ Len(history) \in Nat
      /\ Diff!ToSet(changed) = {changed[k] : k \in 1..Len(changed)}
      /\ \A i, j \in 1..Len(changed) : changed[i] = changed[j] => i = j
  BY StartTypes
<1>2. IsFiniteSet(Diff!Reasons(x)) /\ Cardinality(Diff!Reasons(x)) \in Nat
  <2>1. IsFiniteSet(Diff!ToSet(changed) \X DOMAIN history)
    BY <1>1, FS_Product
  <2>2. Diff!Reasons(x) \subseteq Diff!ToSet(changed) \X DOMAIN history
    BY DEF Diff!Reasons
  <2> QED BY <2>1, <2>2, FS_Subset, FS_CardinalityType
<1>3. \A r \in Diff!Reasons(x) : /\ r[1] \in Diff!ToSet(changed) /\ r[2] \in DOMAIN history
                                 /\ r = <<r[1], r[2]>> /\ r[2] \in Diff!With(r[1], x)
  BY DEF Diff!Reasons, Diff!With
<1>4. \A t \in Diff!ToSet(changed) : \A i \in Diff!With(t, x) : <<t, i>> \in Diff!Reasons(x)
  BY DEF Diff!Reasons, Diff!With
<1>5. FoundBy(x, 0) = {} /\ FoundBy(x, Len(changed)) = Diff!Reasons(x)
  BY <1>1, <1>3 DEF FoundBy
<1>6. \A n \in 0..Len(changed) :
         /\ IsFiniteSet(FoundBy(x, n)) /\ Cardinality(FoundBy(x, n)) \in Nat
         /\ Cardinality(FoundBy(x, n)) <= Cardinality(Diff!Reasons(x))
         /\ IsFiniteSet(Diff!Targets(FoundBy(x, n)))
         /\ FoundBy(x, n) # {} => Diff!Targets(FoundBy(x, n)) # {}
  <2> SUFFICES ASSUME NEW n \in 0..Len(changed)
               PROVE  /\ IsFiniteSet(FoundBy(x, n)) /\ Cardinality(FoundBy(x, n)) \in Nat
                      /\ Cardinality(FoundBy(x, n)) <= Cardinality(Diff!Reasons(x))
                      /\ IsFiniteSet(Diff!Targets(FoundBy(x, n)))
                      /\ FoundBy(x, n) # {} => Diff!Targets(FoundBy(x, n)) # {}
    OBVIOUS
  <2>1. FoundBy(x, n) \subseteq Diff!Reasons(x)
    BY DEF FoundBy
  <2>2. /\ Diff!Targets(FoundBy(x, n)) \subseteq Diff!ToSet(changed)
        /\ FoundBy(x, n) # {} => Diff!Targets(FoundBy(x, n)) # {}
    BY <1>3, <2>1 DEF Diff!Targets
  <2> QED BY <1>1, <1>2, <2>1, <2>2, FS_Subset, FS_CardinalityType
<1>7. ASSUME NEW n \in 1..Len(changed)
      PROVE  /\ FoundBy(x, n) = FoundBy(x, n - 1) \cup ({changed[n]} \X Diff!With(changed[n], x))
             /\ Cardinality(FoundBy(x, n)) =
                  Cardinality(FoundBy(x, n - 1)) + Cardinality(Diff!With(changed[n], x))
             /\ changed[n] \notin Diff!Targets(FoundBy(x, n - 1))
             /\ Diff!With(changed[n], x) # {} =>
                  Diff!Targets(FoundBy(x, n)) = Diff!Targets(FoundBy(x, n - 1)) \cup {changed[n]}
  <2>1. PICK t : t = changed[n]
    OBVIOUS
  <2>2. PICK W : W = Diff!With(t, x)
    OBVIOUS
  <2>3. PICK old : old = FoundBy(x, n - 1)
    OBVIOUS
  <2>4. t \in Diff!ToSet(changed) /\ n \in Nat /\ n - 1 \in 0..Len(changed)
    BY <1>1, <2>1
  <2>5. \A k \in 1..n : k = n \/ k \in 1..(n - 1)
    BY <2>4
  <2>6. \A r \in FoundBy(x, n) : r \in old \cup ({t} \X W)
    BY <1>3, <2>1, <2>2, <2>3, <2>5 DEF FoundBy
  <2>7. \A r \in old : r \in FoundBy(x, n)
    BY <2>3, <2>4 DEF FoundBy
  <2>8. \A r \in {t} \X W : r \in FoundBy(x, n)
    <3>1. n \in 1..n
      BY <2>4
    <3>2. \A i \in W : <<t, i>> \in Diff!Reasons(x) /\ <<t, i>>[1] = changed[n]
      BY <1>4, <2>1, <2>2, <2>4
    <3> QED BY <3>1, <3>2 DEF FoundBy
  <2>9. FoundBy(x, n) = old \cup ({t} \X W)
    BY <2>6, <2>7, <2>8
  <2>a. /\ old \cap ({t} \X W) = {}
        /\ t \notin Diff!Targets(old)
    <3>1. \A k \in 1..(n - 1) : changed[k] # t
      BY <1>1, <2>1, <2>4
    <3>2. \A r \in old : r[1] # t
      BY <2>3, <3>1 DEF FoundBy
    <3> QED BY <3>2 DEF Diff!Targets
  <2>b. IsFiniteSet(W) /\ Cardinality(W) \in Nat
    BY <2>2, WithFacts
  <2>c. IsFiniteSet({t} \X W) /\ Cardinality({t} \X W) = Cardinality(W)
    <3>1. IsFiniteSet({t}) /\ Cardinality({t}) = 1
      BY FS_Singleton
    <3>2. IsFiniteSet({t} \X W) /\ Cardinality({t} \X W) = Cardinality({t}) * Cardinality(W)
      BY <2>b, <3>1, FS_Product
    <3> QED BY <2>b, <3>1, <3>2
  <2>d. IsFiniteSet(old)
    BY <1>6, <2>3, <2>4
  <2>e. Cardinality(old \cup ({t} \X W)) = Cardinality(old) + Cardinality({t} \X W)
    BY <2>a, <2>c, <2>d, DisjointCounts
  <2>f. W # {} => Diff!Targets(old \cup ({t} \X W)) = Diff!Targets(old) \cup {t}
    <3>1. \A i \in W : <<t, i>> \in {t} \X W /\ <<t, i>>[1] = t
      OBVIOUS
    <3>2. \A r \in {t} \X W : r[1] = t
      OBVIOUS
    <3> QED BY <3>1, <3>2 DEF Diff!Targets
  <2> QED BY <2>1, <2>2, <2>3, <2>9, <2>a, <2>c, <2>e, <2>f
<1> QED BY <1>2, <1>5, <1>6, <1>7

-----------------------------------------------------------------------------
(* What is kept of a path, in terms of the files asked for.                *)
Sum(x, n) == [path |-> x, score |-> Cardinality(FoundBy(x, n)),
              evidence |-> Diff!Evidence(x, Diff!Targets(FoundBy(x, n)))]

(* The aggregate after n files.                                            *)
IsSound(agg, n) ==
  \A x \in DOMAIN agg : agg[x].path = x /\ agg[x].score \in 0..Cardinality(FoundBy(x, n))
IsWhole(agg, n) ==
  /\ DOMAIN agg = {x \in DiffFiles \ Diff!ToSet(changed) : FoundBy(x, n) # {}}
  /\ \A x \in DOMAIN agg : agg[x] = Sum(x, n)
IsFirst(agg, n) ==
  {agg[x] : x \in DOMAIN agg} =
    IF n = 0 THEN {} ELSE Diff!ToSet(Diff!truncate_top({Diff!Total(x) : x \in Diff!Whole}, Top))
IsAggregate(agg, n) ==
  /\ DOMAIN agg \subseteq DiffFiles \ Diff!ToSet(changed)
  /\ IsSound(agg, n)
  /\ excluded # {} => IsWhole(agg, n)
  /\ excluded = {} /\ Len(changed) = 1 => IsFirst(agg, n)

(* AggregateInv in these terms, before a step and after it.                *)
LEMMA AggregateIs ==
  ASSUME Started, next \in 1..(Len(changed) + 1)
  PROVE  /\ DOMAIN aggregate \subseteq DiffFiles \ Diff!ToSet(changed) /\ Diff!AggregateInv <=>
            IsAggregate(aggregate, next - 1)
<1>1. \A x : Diff!Found(x) = FoundBy(x, next - 1)
  BY DEF Diff!Found, FoundBy
<1>2. next - 1 = 0 <=> next = 1
  OBVIOUS
<1>3. \A x : Sum(x, next - 1) = [path |-> x, score |-> Cardinality(Diff!Found(x)),
                                evidence |-> Diff!Evidence(x, Diff!Targets(Diff!Found(x)))]
  BY <1>1 DEF Sum
<1> QED BY SameFinite, <1>1, <1>2, <1>3 DEF Diff!AggregateInv, Diff!Kept, IsAggregate, IsSound,
    IsWhole, IsFirst

(* The same of the next state.                                             *)
LEMMA AggregateIsNext ==
  ASSUME Started', next' \in 1..(Len(changed') + 1), IsAggregate(aggregate, next - 1)'
  PROVE  Diff!AggregateInv'
<1>1. \A x : Diff!Found(x)' = FoundBy(x, next - 1)'
  BY DEF Diff!Found, FoundBy
<1>2. next' - 1 = 0 <=> next' = 1
  OBVIOUS
<1>3. \A x : Sum(x, next - 1)' = [path |-> x, score |-> Cardinality(Diff!Found(x)'),
                                 evidence |-> Diff!Evidence(x, Diff!Targets(Diff!Found(x)))']
  BY <1>1 DEF Sum
<1> QED BY SameFinite, <1>1, <1>2, <1>3 DEF Diff!AggregateInv, Diff!Kept, IsAggregate, IsSound,
    IsWhole, IsFirst

(* AggregateInv speaks of nothing but these variables.                     *)
LEMMA SameAggregate ==
  ASSUME history' = history, changed' = changed, excluded' = excluded,
         next' = next, aggregate' = aggregate, Diff!AggregateInv
  PROVE  Diff!AggregateInv' /\ Diff!Whole' = Diff!Whole /\ \A x : Diff!Total(x)' = Diff!Total(x)
<1>1. \A x : Diff!Reasons(x)' = Diff!Reasons(x) /\ Diff!Found(x)' = Diff!Found(x)
  BY DEF Diff!Reasons, Diff!Found
<1>2. /\ \A x : /\ Diff!Targets(Diff!Reasons(x))' = Diff!Targets(Diff!Reasons(x))
                /\ Diff!Targets(Diff!Found(x))' = Diff!Targets(Diff!Found(x))
      /\ \A x, T : Diff!Evidence(x, T)' = Diff!Evidence(x, T)
  BY <1>1, SameEvidence DEF Diff!Targets
<1>3. \A x : /\ Diff!Evidence(x, Diff!Targets(Diff!Reasons(x)))' =
                 Diff!Evidence(x, Diff!Targets(Diff!Reasons(x)))
             /\ Diff!Evidence(x, Diff!Targets(Diff!Found(x)))' =
                 Diff!Evidence(x, Diff!Targets(Diff!Found(x)))
  BY <1>2
<1>4. \A x : Diff!Total(x)' = Diff!Total(x)
  BY SameFinite, <1>1, <1>3 DEF Diff!Total
<1>5. Diff!Whole' = Diff!Whole
  BY <1>1 DEF Diff!Whole
<1>6. {Diff!Total(x) : x \in Diff!Whole}' = {Diff!Total(x) : x \in Diff!Whole}
  BY <1>4, <1>5
<1>7. Diff!Kept' = Diff!Kept
  BY DEF Diff!Kept
<1>8. Diff!AggregateInv'
  BY SameFinite, <1>1, <1>3, <1>6, <1>7 DEF Diff!AggregateInv
<1> QED BY <1>4, <1>5, <1>8

(* Nor does EvidenceIsNewest of more than these.                           *)
LEMMA SameNewest ==
  ASSUME history' = history, changed' = changed, excluded' = excluded,
         related' = related, status' = status, Diff!EvidenceIsNewest
  PROVE  Diff!EvidenceIsNewest'
<1>1. \A x : Diff!Reasons(x)' = Diff!Reasons(x)
  BY DEF Diff!Reasons
<1>2. /\ \A x : /\ Diff!Targets(Diff!Reasons(x))' = Diff!Targets(Diff!Reasons(x))
                /\ Diff!Sharing(Diff!Reasons(x))' = Diff!Sharing(Diff!Reasons(x))
      /\ \A x, T : Diff!Evidence(x, T)' = Diff!Evidence(x, T)
      /\ Diff!DatesFollowLog' <=> Diff!DatesFollowLog
  BY <1>1, SameEvidence DEF Diff!Targets, Diff!Sharing
<1>3. \A x : Diff!Evidence(x, Diff!Targets(Diff!Reasons(x)))' =
             Diff!Evidence(x, Diff!Targets(Diff!Reasons(x)))
  BY <1>2
<1>4. \A i, j : Diff!DateAfter(history[i], history[j])' <=> Diff!DateAfter(history[i], history[j])
  BY DEF Diff!DateAfter, Diff!Local, Diff!OffsetAfter, Diff!Distance
<1> QED BY SameFinite, <1>2, <1>3, <1>4 DEF Diff!EvidenceIsNewest

(* A file has no reasons to give when it shares no commit.                 *)
LEMMA RowIsEmpty ==
  ASSUME NEW t, NEW W
  PROVE  {t} \X W # {} <=> W # {}
<1>1. \A i \in W : <<t, i>> \in {t} \X W
  OBVIOUS
<1>2. \A r \in {t} \X W : r[2] \in W
  OBVIOUS
<1> QED BY <1>1, <1>2

(* Merged evidence is what is shown for one target more.                   *)
LEMMA EvidenceMerges ==
  ASSUME Started, NEW x, NEW T, IsFiniteSet(T), T # {}, NEW t, t \notin T,
         NEW r, r.evidence = Diff!FirstOf(Diff!With(t, x)),
         NEW m \in Nat, NEW old, old = Diff!Evidence(x, T),
         NEW q, q = [path |-> x, score |-> m, evidence |-> old]
  PROVE  Diff!merge_diff_result(q, r) =
           [path |-> x, score |-> m + r.score, evidence |-> Diff!Evidence(x, T \cup {t})]
<1>1. PICK s : s = m + r.score
  OBVIOUS
<1>2. PICK e : e = Diff!LatestOf(Diff!ToSet(q.evidence) \cup Diff!ToSet(r.evidence))
  OBVIOUS
<1>3. e = Diff!Evidence(x, T \cup {t})
  <2>1. q.evidence = Diff!Evidence(x, T)
    OBVIOUS
  <2> QED BY <1>2, <2>1, OneMoreTarget
<1>4. PICK p : p = Diff!merge_diff_result(q, r)
  OBVIOUS
<1>5. p = [q EXCEPT !.score = s, !.evidence = e]
  BY <1>1, <1>2, <1>4 DEF Diff!merge_diff_result
<1>6. p = [path |-> x, score |-> s, evidence |-> e]
  BY <1>5
<1> QED BY <1>1, <1>3, <1>4, <1>6

(* One more file.                                                          *)
LEMMA AnswerKeepsAggregate ==
  ASSUME Started, NEW n \in 1..Len(changed), IsAggregate(aggregate, n - 1)
  PROVE  IsAggregate(Diff!Merged(ListFor(changed[n])), n)
<1>1. PICK t : t = changed[n]
  OBVIOUS
<1>2. PICK news : news = News(ListFor(t))
  OBVIOUS
<1>3. PICK agg : agg = Diff!Merged(ListFor(t))
  OBVIOUS
<1>4. /\ DOMAIN agg = DOMAIN aggregate \cup news
      /\ news \subseteq Partners(t) \ Diff!ToSet(changed)
      /\ excluded # {} => news = Partners(t) \ Diff!ToSet(changed)
      /\ \A x \in DOMAIN aggregate \ news : agg[x] = aggregate[x]
      /\ \A x \in news \ DOMAIN aggregate : agg[x] = Of(t, x)
      /\ \A x \in news \cap DOMAIN aggregate : agg[x] = Diff!merge_diff_result(aggregate[x], Of(t, x))
  BY <1>1, <1>2, <1>3, MergedFacts
<1>5. /\ Len(changed) \in Nat /\ n \in Nat /\ n - 1 \in 0..Len(changed) /\ n \in 0..Len(changed)
      /\ t \in Diff!ToSet(changed) /\ Diff!ToSet(changed) \subseteq DiffFiles
  BY <1>1, StartTypes
<1>6. \A x : /\ Cardinality(FoundBy(x, n - 1)) \in Nat /\ Cardinality(FoundBy(x, n)) \in Nat
             /\ FoundBy(x, n) = FoundBy(x, n - 1) \cup ({t} \X Diff!With(t, x))
             /\ Cardinality(FoundBy(x, n)) = Cardinality(FoundBy(x, n - 1)) + Cardinality(Diff!With(t, x))
             /\ t \notin Diff!Targets(FoundBy(x, n - 1)) /\ IsFiniteSet(Diff!Targets(FoundBy(x, n - 1)))
             /\ FoundBy(x, n - 1) # {} => Diff!Targets(FoundBy(x, n - 1)) # {}
             /\ Diff!With(t, x) # {} =>
                  Diff!Targets(FoundBy(x, n)) = Diff!Targets(FoundBy(x, n - 1)) \cup {t}
  BY <1>1, <1>5, ReasonsFacts
<1>7. \A x : /\ Cardinality(Diff!With(t, x)) \in Nat
             /\ Diff!With(t, x) \in SUBSET Nat /\ IsFiniteSet(Diff!With(t, x))
  BY WithFacts
<1>8. \A x : Of(t, x) = [path |-> x, score |-> Cardinality(Diff!With(t, x)), evidence |-> Diff!FirstOf(Diff!With(t, x))]
  BY DEF Of
<1>9. /\ DOMAIN aggregate \subseteq DiffFiles \ Diff!ToSet(changed)
      /\ IsSound(aggregate, n - 1)
      /\ excluded # {} => IsWhole(aggregate, n - 1)
      /\ excluded = {} /\ Len(changed) = 1 => IsFirst(aggregate, n - 1)
  BY DEF IsAggregate
<1>a. DOMAIN agg \subseteq DiffFiles \ Diff!ToSet(changed)
  BY <1>4, <1>9 DEF Partners
<1>b. IsSound(agg, n)
  <2> SUFFICES ASSUME NEW x \in DOMAIN agg
               PROVE  agg[x].path = x /\ agg[x].score \in 0..Cardinality(FoundBy(x, n))
    BY DEF IsSound
  <2>1. x \in DOMAIN aggregate =>
          /\ aggregate[x].path = x
          /\ aggregate[x].score \in 0..Cardinality(FoundBy(x, n - 1))
    BY <1>9 DEF IsSound
  <2>2. CASE x \in DOMAIN aggregate \ news
    BY <1>4, <1>6, <1>7, <2>1, <2>2
  <2>3. CASE x \in news \ DOMAIN aggregate
    <3>1. agg[x].path = x /\ agg[x].score = Cardinality(Diff!With(t, x))
      BY <1>4, <1>8, <2>3
    <3> QED BY <1>6, <1>7, <3>1
  <2>4. CASE x \in news \cap DOMAIN aggregate
    <3>1. PICK q : q = aggregate[x]
      OBVIOUS
    <3>2. /\ agg[x].path = q.path
          /\ agg[x].score = q.score + Cardinality(Diff!With(t, x))
      <4>1. agg[x] = Diff!merge_diff_result(q, Of(t, x))
        BY <1>4, <2>4, <3>1
      <4>2. Of(t, x).score = Cardinality(Diff!With(t, x))
        BY <1>8
      <4> QED BY <4>1, <4>2 DEF Diff!merge_diff_result
    <3> QED BY <1>6, <1>7, <2>1, <2>4, <3>1, <3>2
  <2> QED BY <1>4, <2>2, <2>3, <2>4
<1>c. ASSUME excluded # {}
      PROVE  IsWhole(agg, n)
  <2>1. /\ DOMAIN aggregate = {x \in DiffFiles \ Diff!ToSet(changed) : FoundBy(x, n - 1) # {}}
        /\ \A x \in DOMAIN aggregate : aggregate[x] = Sum(x, n - 1)
    BY <1>9, <1>c DEF IsWhole
  <2>2. news = {x \in DiffFiles \ Diff!ToSet(changed) : Diff!With(t, x) # {}}
    BY <1>4, <1>5, <1>c DEF Partners
  <2>3. DOMAIN agg = {x \in DiffFiles \ Diff!ToSet(changed) : FoundBy(x, n) # {}}
    <3>1. \A x : FoundBy(x, n) # {} <=> FoundBy(x, n - 1) # {} \/ Diff!With(t, x) # {}
      <4>1. \A x : {t} \X Diff!With(t, x) # {} <=> Diff!With(t, x) # {}
        BY RowIsEmpty
      <4> QED BY <1>6, <4>1
    <3> QED BY <1>4, <2>1, <2>2, <3>1
  <2>4. ASSUME NEW x \in DOMAIN agg
        PROVE  agg[x] = Sum(x, n)
    <3>1. CASE x \in DOMAIN aggregate \ news
      <4>1. Diff!With(t, x) = {}
        BY <1>a, <2>2, <3>1
      <4>2. FoundBy(x, n) = FoundBy(x, n - 1)
        <5>1. {t} \X Diff!With(t, x) = {}
          BY <4>1
        <5> QED BY <1>6, <5>1
      <4> QED BY <1>4, <2>1, <3>1, <4>2 DEF Sum
    <3>2. CASE x \in news \ DOMAIN aggregate
      <4>1. FoundBy(x, n - 1) = {}
        BY <1>a, <2>1, <3>2
      <4>2. Diff!Targets(FoundBy(x, n)) = {t}
        <5>1. Diff!Targets(FoundBy(x, n - 1)) = {} /\ Diff!With(t, x) # {}
          BY <1>a, <2>2, <3>2, <4>1 DEF Diff!Targets
        <5> QED BY <1>6, <5>1
      <4>3. Cardinality(FoundBy(x, n)) = Cardinality(Diff!With(t, x))
        <5>1. Cardinality(FoundBy(x, n - 1)) = 0
          BY <4>1, FS_EmptySet
        <5> QED BY <1>6, <1>7, <5>1
      <4>4. Diff!Evidence(x, {t}) = Diff!FirstOf(Diff!With(t, x))
        BY EvidenceFacts
      <4> QED BY <1>4, <1>8, <3>2, <4>2, <4>3, <4>4 DEF Sum
    <3>3. CASE x \in news \cap DOMAIN aggregate
      <4> DEFINE T == Diff!Targets(FoundBy(x, n - 1))
                 q == aggregate[x]
                 m == Cardinality(FoundBy(x, n - 1))
      <4>1. q = [path |-> x, score |-> m, evidence |-> Diff!Evidence(x, T)]
        BY <2>1, <3>3 DEF Sum
      <4>2. IsFiniteSet(T) /\ T # {} /\ t \notin T /\ m \in Nat
        BY <1>6, <2>1, <3>3
      <4> HIDE DEF T, q, m
      <4>3. Of(t, x).evidence = Diff!FirstOf(Diff!With(t, x)) /\
            Of(t, x).score = Cardinality(Diff!With(t, x))
        BY <1>8
      <4>4. Diff!merge_diff_result(q, Of(t, x)) =
              [path |-> x, score |-> m + Of(t, x).score, evidence |-> Diff!Evidence(x, T \cup {t})]
        <5>1. PICK old : old = Diff!Evidence(x, T)
          OBVIOUS
        <5>2. q = [path |-> x, score |-> m, evidence |-> old]
          BY <4>1, <5>1
        <5> QED BY <4>2, <4>3, <5>1, <5>2, EvidenceMerges
      <4>5. agg[x] = Diff!merge_diff_result(q, Of(t, x))
        BY <1>4, <3>3 DEF q
      <4>6. /\ T \cup {t} = Diff!Targets(FoundBy(x, n))
            /\ m + Cardinality(Diff!With(t, x)) = Cardinality(FoundBy(x, n))
        <5>1. Diff!With(t, x) # {}
          BY <2>2, <3>3
        <5> QED BY <1>6, <5>1 DEF T, m
      <4> QED BY <4>3, <4>4, <4>5, <4>6 DEF Sum
    <3> QED BY <1>4, <3>1, <3>2, <3>3
  <2> QED BY <2>3, <2>4 DEF IsWhole
<1>d. ASSUME excluded = {}, Len(changed) = 1
      PROVE  IsFirst(agg, n)
  <2>1. n = 1 /\ Diff!ToSet(changed) = {t} /\ n # 0
    <3>1. Diff!ToSet(changed) = {changed[k] : k \in 1..1}
      BY <1>d, StartTypes
    <3>2. n = 1 /\ \A k \in 1..1 : k = 1
      BY <1>5, <1>d
    <3> QED BY <1>1, <3>1, <3>2
  <2>2. DOMAIN aggregate = {}
    <3>1. n - 1 = 0 /\ IsFirst(aggregate, n - 1)
      BY <1>9, <1>d, <2>1
    <3>2. {aggregate[x] : x \in DOMAIN aggregate} = {}
      BY <3>1 DEF IsFirst
    <3> QED BY <3>2
  <2>3. \A x \in DOMAIN agg : agg[x] = Of(t, x)
    BY <1>4, <2>2
  <2>4. \A x : /\ Diff!Reasons(x) = {t} \X Diff!With(t, x)
               /\ Cardinality(Diff!Reasons(x)) = Cardinality(Diff!With(t, x))
               /\ Diff!With(t, x) # {} => Diff!Targets(Diff!Reasons(x)) = {t}
    <3> SUFFICES ASSUME NEW x
                 PROVE  /\ Diff!Reasons(x) = {t} \X Diff!With(t, x)
                        /\ Cardinality(Diff!Reasons(x)) = Cardinality(Diff!With(t, x))
                        /\ Diff!With(t, x) # {} => Diff!Targets(Diff!Reasons(x)) = {t}
      OBVIOUS
    <3>1. /\ FoundBy(x, 0) = {} /\ FoundBy(x, n) = Diff!Reasons(x)
          /\ FoundBy(x, n - 1) = {}
      BY <1>d, <2>1, ReasonsFacts
    <3>2. Cardinality(FoundBy(x, n - 1)) = 0 /\ Diff!Targets(FoundBy(x, n - 1)) = {}
      BY <3>1, FS_EmptySet DEF Diff!Targets
    <3>3. Diff!Reasons(x) = {} \cup ({t} \X Diff!With(t, x))
      BY <1>6, <3>1
    <3>4. Cardinality(Diff!Reasons(x)) = 0 + Cardinality(Diff!With(t, x))
      BY <1>6, <3>1, <3>2
    <3>5. Diff!With(t, x) # {} => Diff!Targets(Diff!Reasons(x)) = {} \cup {t}
      <4>1. Diff!With(t, x) # {} =>
              Diff!Targets(FoundBy(x, n)) = Diff!Targets(FoundBy(x, n - 1)) \cup {t}
        BY <1>6
      <4> QED BY <3>1, <3>2, <4>1
    <3>6. {} \cup ({t} \X Diff!With(t, x)) = {t} \X Diff!With(t, x) /\ {} \cup {t} = {t}
      OBVIOUS
    <3>7. 0 + Cardinality(Diff!With(t, x)) = Cardinality(Diff!With(t, x))
      BY <1>7
    <3> QED BY <3>3, <3>4, <3>5, <3>6, <3>7
  <2>b. \A x \in Partners(t) : Diff!Total(x) = Of(t, x)
    <3> SUFFICES ASSUME NEW x \in Partners(t) PROVE Diff!Total(x) = Of(t, x)
      OBVIOUS
    <3>1. Diff!Targets(Diff!Reasons(x)) = {t}
      BY <2>4 DEF Partners
    <3>2. Diff!Total(x) = [path |-> x, score |-> Cardinality(Diff!Reasons(x)),
                           evidence |-> Diff!Evidence(x, Diff!Targets(Diff!Reasons(x)))]
      BY SameFinite DEF Diff!Total
    <3>3. Diff!Evidence(x, {t}) = Diff!FirstOf(Diff!With(t, x))
      BY EvidenceFacts
    <3> QED BY <1>8, <2>4, <3>1, <3>2, <3>3
  <2>5. Diff!Whole = Partners(t)
    <3>1. \A x : Diff!Reasons(x) # {} <=> Diff!With(t, x) # {}
      <4>1. \A x : {t} \X Diff!With(t, x) # {} <=> Diff!With(t, x) # {}
        BY RowIsEmpty
      <4> QED BY <2>4, <4>1
    <3> QED BY <1>d, <2>1, <3>1 DEF Diff!Whole, Partners
  <2>6. {Diff!Total(x) : x \in Diff!Whole} = AllOf(t)
    BY <2>5, <2>b DEF AllOf
  <2>7. PICK shown : shown = Diff!ToSet(ListFor(t))
    OBVIOUS
  <2>8. shown = Diff!ToSet(Diff!truncate_top(AllOf(t), Top)) /\ shown \subseteq AllOf(t)
    BY <1>d, <2>7, ResultFacts
  <2>9. DOMAIN agg = {r.path : r \in shown}
    <3>1. \A r \in shown : ~Diff!Skipped(r.path)
      BY <2>1, <2>8, AllOfFacts DEF Partners, Diff!Skipped
    <3>2. news = {r.path : r \in shown}
      BY <1>2, <2>7, <3>1 DEF News
    <3> QED BY <1>4, <2>2, <3>2
  <2>a. {agg[x] : x \in DOMAIN agg} = shown
    <3>1. \A r \in shown : r = Of(t, r.path)
      BY <2>8, AllOfFacts
    <3>2. \A r \in shown : r.path \in DOMAIN agg /\ agg[r.path] = r
      BY <2>3, <2>9, <3>1
    <3>3. \A x \in DOMAIN agg : \E r \in shown : r.path = x
      BY <2>9
    <3> QED BY <3>2, <3>3
  <2> QED BY <2>1, <2>6, <2>8, <2>a DEF IsFirst
<1>e. IsAggregate(agg, n)
  BY <1>a, <1>b, <1>c, <1>d DEF IsAggregate
<1> QED BY <1>1, <1>3, <1>e

-----------------------------------------------------------------------------
(* The answer, from the aggregate of all files.                            *)
LEMMA ShownFacts ==
  ASSUME Started, IsAggregate(aggregate, Len(changed)),
         NEW shown, shown = Diff!filter_related_results({aggregate[x] : x \in DOMAIN aggregate}, Top)
  PROVE  /\ shown \in Seq({aggregate[x] : x \in DOMAIN aggregate}) /\ Len(shown) <= Top
         /\ \A i \in DOMAIN shown : shown[i].score <= Cardinality(Diff!Reasons(shown[i].path))
         /\ excluded # {} => /\ shown = Diff!truncate_top({Diff!Total(x) : x \in Diff!Whole}, Top)
                             /\ \A i \in DOMAIN shown : shown[i] = Diff!Total(shown[i].path)
         /\ Len(changed) = 1 => shown = Diff!truncate_top({Diff!Total(x) : x \in Diff!Whole}, Top)
<1>1. PICK kept : kept = {aggregate[x] : x \in DOMAIN aggregate}
  OBVIOUS
<1>2. PICK S : S = {r \in kept : r.path \notin excluded}
  OBVIOUS
<1>3. shown = Diff!truncate_top(S, Top)
  BY <1>1, <1>2 DEF Diff!filter_related_results
<1>4. /\ \A x : /\ FoundBy(x, Len(changed)) = Diff!Reasons(x)
                /\ Cardinality(Diff!Reasons(x)) \in Nat /\ IsFiniteSet(Diff!Reasons(x))
      /\ DiffFiles \subseteq Nat /\ IsFiniteSet(DiffFiles) /\ Top \in Nat /\ Len(changed) \in Nat
  BY ReasonsFacts, StartTypes
<1>5. /\ DOMAIN aggregate \subseteq DiffFiles \ Diff!ToSet(changed)
      /\ \A x \in DOMAIN aggregate : /\ aggregate[x].path = x
                                     /\ aggregate[x].score \in 0..Cardinality(Diff!Reasons(x))
      /\ excluded # {} => IsWhole(aggregate, Len(changed))
      /\ excluded = {} /\ Len(changed) = 1 => IsFirst(aggregate, Len(changed))
  BY <1>4 DEF IsAggregate, IsSound
<1>6. \A r \in kept : /\ r.path \in DOMAIN aggregate /\ r = aggregate[r.path]
                      /\ r.path \in Nat /\ r.score \in Nat
                      /\ r.score <= Cardinality(Diff!Reasons(r.path))
  BY <1>1, <1>4, <1>5
<1>7. AreResults(S) /\ S \subseteq kept
  <2>1. IsFiniteSet(DOMAIN aggregate)
    BY <1>4, <1>5, FS_Subset
  <2>2. IsFiniteSet(kept)
    BY <1>1, <2>1, ImageIsFinite
  <2>3. S \subseteq kept
    BY <1>2
  <2>4. IsFiniteSet(S)
    BY <2>2, <2>3, FS_Subset
  <2>5. \A q, r \in S : q.path = r.path => q = r
    BY <1>6, <2>3
  <2> QED BY <1>6, <2>3, <2>4, <2>5 DEF AreResults
<1>8. shown \in Seq(S) /\ Len(shown) <= Top /\ Diff!ToSet(shown) \subseteq S
  <2>1. AreResults(S) /\ Top \in Nat
    BY <1>4, <1>7
  <2>2. /\ Diff!truncate_top(S, Top) \in Seq(S) /\ Len(Diff!truncate_top(S, Top)) <= Top
        /\ Diff!ToSet(Diff!truncate_top(S, Top)) \in SUBSET S
    BY <2>1, Truncated
  <2> QED BY <1>3, <2>2
<1>9. \A i \in DOMAIN shown : shown[i] \in kept
  <2>1. \A i \in DOMAIN shown : shown[i] \in Diff!ToSet(shown)
    BY DEF Diff!ToSet
  <2> QED BY <1>7, <1>8, <2>1
<1>a. shown \in Seq(kept)
  BY <1>8, <1>9
<1>b. \A i \in DOMAIN shown : shown[i].score <= Cardinality(Diff!Reasons(shown[i].path))
  BY <1>6, <1>9
<1>c. \A x : Sum(x, Len(changed)) = Diff!Total(x) /\ Diff!Total(x).path = x
  <2>1. \A x : Sum(x, Len(changed)) = [path |-> x, score |-> Cardinality(Diff!Reasons(x)),
                                       evidence |-> Diff!Evidence(x, Diff!Targets(Diff!Reasons(x)))]
    BY <1>4 DEF Sum
  <2>2. \A x : Diff!Total(x) = [path |-> x, score |-> Cardinality(Diff!Reasons(x)),
                           evidence |-> Diff!Evidence(x, Diff!Targets(Diff!Reasons(x)))]
    BY SameFinite DEF Diff!Total
  <2> QED BY <2>1, <2>2
<1>d. ASSUME excluded # {}
      PROVE  S = {Diff!Total(x) : x \in Diff!Whole} /\
             \A i \in DOMAIN shown : shown[i] = Diff!Total(shown[i].path)
  <2>1. /\ DOMAIN aggregate = {x \in DiffFiles \ Diff!ToSet(changed) : Diff!Reasons(x) # {}}
        /\ \A x \in DOMAIN aggregate : aggregate[x] = Diff!Total(x)
    <3>1. IsWhole(aggregate, Len(changed))
      BY <1>5, <1>d
    <3> QED BY <1>4, <1>c, <3>1 DEF IsWhole
  <2>2. Diff!Whole = {x \in DOMAIN aggregate : x \notin excluded}
    BY <2>1 DEF Diff!Whole
  <2>3. \A r \in S : r.path \in Diff!Whole /\ r = Diff!Total(r.path)
    BY <1>2, <1>6, <2>1, <2>2
  <2>4. \A x \in Diff!Whole : Diff!Total(x) \in S
    BY <1>1, <1>2, <1>c, <2>1, <2>2
  <2>5. \A i \in DOMAIN shown : shown[i] = Diff!Total(shown[i].path)
    BY <1>6, <1>9, <2>1
  <2> QED BY <2>3, <2>4, <2>5
<1>e. ASSUME excluded = {}, Len(changed) = 1
      PROVE  shown = Diff!truncate_top({Diff!Total(x) : x \in Diff!Whole}, Top)
  <2>1. PICK W : W = {Diff!Total(x) : x \in Diff!Whole}
    OBVIOUS
  <2>2. kept = Diff!ToSet(Diff!truncate_top(W, Top)) /\ S = kept
    <3>1. IsFirst(aggregate, Len(changed)) /\ Len(changed) # 0
      BY <1>5, <1>e
    <3>2. S = kept
      BY <1>2, <1>e
    <3> QED BY <1>1, <2>1, <3>1, <3>2 DEF IsFirst
  <2>3. AreResults(W)
    <3>1. Diff!Whole \subseteq DiffFiles
      BY DEF Diff!Whole
    <3>2. IsFiniteSet(Diff!Whole)
      BY <1>4, <3>1, FS_Subset
    <3>3. IsFiniteSet(W)
      <4> DEFINE f == [x \in Diff!Whole |-> Diff!Total(x)]
      <4>1. IsFiniteSet({f[x] : x \in Diff!Whole})
        BY <3>2, ImageIsFinite
      <4>2. {f[x] : x \in Diff!Whole} = W
        BY <2>1
      <4> QED BY <4>1, <4>2
    <3>4. \A x : Diff!Total(x).score = Cardinality(Diff!Reasons(x))
      BY SameFinite DEF Diff!Total
    <3>5. \A r \in W : \E x \in Diff!Whole : r = Diff!Total(x)
      BY <2>1
    <3>6. \A r \in W : r.path \in Nat /\ r.score \in Nat
      <4> SUFFICES ASSUME NEW r \in W PROVE r.path \in Nat /\ r.score \in Nat
        OBVIOUS
      <4>1. PICK x \in Diff!Whole : r = Diff!Total(x)
        BY <3>5
      <4>2. x \in Nat /\ r.path = x /\ r.score = Cardinality(Diff!Reasons(x))
        BY <1>4, <1>c, <3>1, <3>4, <4>1
      <4> QED BY <1>4, <4>2
    <3>7. \A q, r \in W : q.path = r.path => q = r
      BY <1>c, <3>5
    <3> QED BY <3>3, <3>6, <3>7 DEF AreResults
  <2>4. S \in SUBSET W
    BY <1>4, <2>2, <2>3, Truncated
  <2>5. Diff!truncate_top(S, Top) = Diff!truncate_top(W, Top)
    BY <1>4, <2>2, <2>3, <2>4, Truncated
  <2> QED BY <1>3, <2>1, <2>5
<1> QED BY <1>1, <1>3, <1>8, <1>a, <1>b, <1>d, <1>e

(* As much of the evidence is shown as there is room for, and where the    *)
(* dates follow the log nothing left out is later.                         *)
IsNewestOf(shown, all) ==
  /\ Diff!ToSet(shown) \subseteq all
  /\ Len(shown) = Shorter(all, DiffEvidence)
  /\ \A m, n \in DOMAIN shown : shown[m] = shown[n] => m = n
  /\ Diff!DatesFollowLog =>
       \A j \in all \ Diff!ToSet(shown) : \A n \in DOMAIN shown : ~After(j, shown[n])

(* A single target shows the first of its commits.                         *)
LEMMA EvidenceOfOne ==
  ASSUME Started, NEW A, A \subseteq DOMAIN history
  PROVE  IsNewestOf(Diff!FirstOf(A), A)
<1>1. PICK shown : shown = Diff!FirstOf(A)
  OBVIOUS
<1>2. PICK B : B = Best(A, Earlier, DiffEvidence)
  OBVIOUS
<1>3. /\ Diff!ToSet(shown) = B /\ B \subseteq A /\ Len(shown) = Shorter(A, DiffEvidence)
      /\ \A m, n \in DOMAIN shown : shown[m] = shown[n] => m = n
      /\ \A i \in B, j \in A \ B : i < j
  BY <1>1, <1>2, FirstFacts
<1>4. ASSUME Diff!DatesFollowLog, NEW j \in A \ B, NEW n \in DOMAIN shown
      PROVE  ~After(j, shown[n])
  <2>1. shown[n] \in B
    BY <1>3 DEF Diff!ToSet
  <2>2. shown[n] < j /\ shown[n] \in DOMAIN history /\ j \in DOMAIN history
    BY <1>3, <2>1
  <2> QED BY <1>4, <2>2 DEF Diff!DatesFollowLog, After
<1> QED BY <1>1, <1>3, <1>4 DEF IsNewestOf

(* Several show the latest of the first of each.                          *)
LEMMA EvidenceOfMany ==
  ASSUME Started, NEW x, NEW T
  PROVE  IsNewestOf(Diff!LatestOf(Pool(x, T)), UNION {Diff!With(t, x) : t \in T})
<1> DEFINE k == DiffEvidence
           Kept(t) == Best(Diff!With(t, x), Earlier, k)
<1>1. PICK U : U = Pool(x, T)
  OBVIOUS
<1>2. PICK all : all = UNION {Diff!With(t, x) : t \in T}
  OBVIOUS
<1>3. PICK shown : shown = Diff!LatestOf(U)
  OBVIOUS
<1>4. PICK B : B = Best(U, ByDate, k)
  OBVIOUS
<1>5. \A t : /\ Diff!With(t, x) \subseteq DOMAIN history
             /\ Diff!ToSet(Diff!FirstOf(Diff!With(t, x))) = Kept(t) /\ Kept(t) \subseteq Diff!With(t, x)
             /\ Kept(t) # Diff!With(t, x) => Cardinality(Kept(t)) = k
             /\ \A i \in Kept(t), j \in Diff!With(t, x) \ Kept(t) : i < j
  <2> SUFFICES ASSUME NEW t
               PROVE  /\ Diff!With(t, x) \subseteq DOMAIN history
                      /\ Diff!ToSet(Diff!FirstOf(Diff!With(t, x))) = Kept(t)
                      /\ Kept(t) \subseteq Diff!With(t, x)
                      /\ Kept(t) # Diff!With(t, x) => Cardinality(Kept(t)) = k
                      /\ \A i \in Kept(t), j \in Diff!With(t, x) \ Kept(t) : i < j
    OBVIOUS
  <2>1. Diff!With(t, x) \subseteq DOMAIN history
    BY DEF Diff!With
  <2> QED BY <2>1, FirstFacts
<1> HIDE DEF Kept
<1>6. U = UNION {Kept(t) : t \in T}
  <2>1. \A t : Diff!ToSet(Diff!FirstOf(Diff!With(t, x))) = Kept(t)
    BY <1>5
  <2> QED BY <1>1, <2>1 DEF Pool
<1>7. U \subseteq all /\ all \subseteq DOMAIN history /\ U \subseteq DOMAIN history
  BY <1>2, <1>5, <1>6
<1>8. /\ k \in Nat /\ IsFiniteSet(all) /\ IsFiniteSet(U)
      /\ IsStrictOrder(U, ByDate) /\ IsTotal(U, ByDate)
      /\ \A i, j \in U : <<i, j>> \in ByDate => ~After(j, i)
  BY <1>7, SoonerFacts, StartTypes
<1>9. /\ Diff!ToSet(shown) = B /\ B \subseteq U /\ Len(shown) = Shorter(U, k)
      /\ \A m, n \in DOMAIN shown : shown[m] = shown[n] => m = n
  BY <1>3, <1>4, <1>7, LatestFacts
<1> HIDE DEF k
<1>a. Shorter(U, k) = Shorter(all, k)
  <2>1. CASE U = all
    BY <2>1
  <2>2. CASE U # all
    <3>1. PICK j \in all : j \notin U
      BY <1>7, <2>2
    <3>2. PICK t \in T : j \in Diff!With(t, x)
      BY <1>2, <3>1
    <3>3. Kept(t) \subseteq U /\ Kept(t) # Diff!With(t, x)
      BY <1>6, <3>1, <3>2
    <3>4. Cardinality(Kept(t)) = k
      BY <1>5, <3>3
    <3>5. /\ Cardinality(Kept(t)) <= Cardinality(U) /\ Cardinality(U) <= Cardinality(all)
          /\ Cardinality(U) \in Nat /\ Cardinality(all) \in Nat
      BY <1>7, <1>8, <3>3, FS_Subset, FS_CardinalityType
    <3> QED BY <1>8, <3>4, <3>5 DEF Shorter
  <2> QED BY <2>1, <2>2
<1>b. ASSUME Diff!DatesFollowLog, NEW j \in all \ B, NEW n \in DOMAIN shown
      PROVE  ~After(j, shown[n])
  <2>1. PICK s : s = shown[n]
    OBVIOUS
  <2>2. s \in B /\ s \in U /\ s \in DOMAIN history /\ j \in DOMAIN history
    BY <1>7, <1>9, <2>1 DEF Diff!ToSet
  <2>3. CASE j \in U
    <3>1. <<s, j>> \in ByDate
      BY <1>4, <1>8, <2>2, <2>3, BestFacts
    <3> QED BY <1>8, <2>1, <2>2, <2>3, <3>1
  <2>4. CASE j \notin U
    <3>1. PICK t \in T : j \in Diff!With(t, x)
      BY <1>2
    <3>2. Kept(t) \subseteq U /\ Kept(t) # Diff!With(t, x) /\ j \notin Kept(t)
      BY <1>6, <2>4, <3>1
    <3>3. Cardinality(Kept(t)) = k /\ \A i \in Kept(t) : i < j
      BY <1>5, <3>1, <3>2
    <3>4. PICK p \in Kept(t) : <<p, s>> \notin ByDate
      <4> SUFFICES ASSUME \A p \in Kept(t) : <<p, s>> \in ByDate PROVE FALSE
        OBVIOUS
      <4>1. Kept(t) \subseteq Ahead(U, ByDate, s)
        BY <3>2 DEF Ahead
      <4>2. IsFiniteSet(Ahead(U, ByDate, s))
        <5>1. Ahead(U, ByDate, s) \subseteq U
          BY DEF Ahead
        <5> QED BY <1>8, <5>1, FS_Subset
      <4>3. /\ Cardinality(Kept(t)) <= Cardinality(Ahead(U, ByDate, s))
            /\ Cardinality(Ahead(U, ByDate, s)) \in Nat
        BY <4>1, <4>2, FS_Subset, FS_CardinalityType
      <4>4. Cardinality(Ahead(U, ByDate, s)) < k
        BY <1>4, <2>2 DEF Best
      <4> QED BY <1>8, <3>3, <4>3, <4>4
    <3>5. p \in U /\ p \in DOMAIN history /\ p < j
      BY <1>7, <3>2, <3>3
    <3>6. ~After(p, s)
      <4>1. ~After(s, s)
        BY <2>2, DateFacts
      <4>2. p = s \/ <<s, p>> \in ByDate
        BY <1>8, <2>2, <3>4, <3>5 DEF IsTotal
      <4> QED BY <1>8, <2>2, <3>5, <4>1, <4>2
    <3>7. ~After(j, p)
      BY <1>b, <2>2, <3>5 DEF Diff!DatesFollowLog, After
    <3>8. After(j, s) => After(j, p) \/ After(p, s)
      BY <2>2, <3>5, DateFacts
    <3> QED BY <2>1, <3>6, <3>7, <3>8
  <2> QED BY <2>3, <2>4
<1> QED BY <1>1, <1>2, <1>3, <1>7, <1>9, <1>a, <1>b DEF IsNewestOf, k

(* In either case of the commits that speak for a file.                    *)
LEMMA EvidenceOfTargets ==
  ASSUME Started, NEW x
  PROVE  IsNewestOf(Diff!Evidence(x, Diff!Targets(Diff!Reasons(x))), Diff!Sharing(Diff!Reasons(x)))
<1>1. PICK T : T = Diff!Targets(Diff!Reasons(x))
  OBVIOUS
<1>2. \A r \in Diff!Reasons(x) : r[1] \in Diff!ToSet(changed) /\ r[2] \in Diff!With(r[1], x)
  BY DEF Diff!Reasons, Diff!With
<1>3. \A t \in Diff!ToSet(changed) : \A i \in Diff!With(t, x) : <<t, i>> \in Diff!Reasons(x)
  BY DEF Diff!Reasons, Diff!With
<1>4. \A t \in T : t \in Diff!ToSet(changed)
  BY <1>1, <1>2 DEF Diff!Targets
<1>5. Diff!Sharing(Diff!Reasons(x)) = UNION {Diff!With(t, x) : t \in T}
  <2>1. ASSUME NEW i \in Diff!Sharing(Diff!Reasons(x))
        PROVE  i \in UNION {Diff!With(t, x) : t \in T}
    <3>1. PICK r \in Diff!Reasons(x) : i = r[2]
      BY DEF Diff!Sharing
    <3>2. r[1] \in T /\ i \in Diff!With(r[1], x)
      BY <1>1, <1>2, <3>1 DEF Diff!Targets
    <3> QED BY <3>2
  <2>2. ASSUME NEW t \in T, NEW i \in Diff!With(t, x)
        PROVE  i \in Diff!Sharing(Diff!Reasons(x))
    <3>1. <<t, i>> \in Diff!Reasons(x) /\ <<t, i>>[2] = i
      BY <1>3, <1>4
    <3> QED BY <3>1 DEF Diff!Sharing
  <2> QED BY <2>1, <2>2
<1>6. CASE Cardinality(T) = 1
  <2>1. IsFiniteSet(T)
    <3>1. T \subseteq Diff!ToSet(changed) /\ IsFiniteSet(Diff!ToSet(changed))
      BY <1>4, StartTypes
    <3> QED BY <3>1, FS_Subset
  <2>2. PICK t : T = {t}
    BY <1>6, <2>1, FS_Singleton
  <2>3. Diff!Evidence(x, T) = Diff!FirstOf(Diff!With(t, x)) /\ Diff!With(t, x) \subseteq DOMAIN history
    BY <2>2, EvidenceFacts DEF Diff!With
  <2>4. UNION {Diff!With(u, x) : u \in T} = Diff!With(t, x)
    BY <2>2
  <2> QED BY <1>1, <1>5, <2>3, <2>4, EvidenceOfOne
<1>7. CASE Cardinality(T) # 1
  BY <1>1, <1>5, <1>7, EvidenceFacts, EvidenceOfMany
<1> QED BY <1>6, <1>7

-----------------------------------------------------------------------------
(* DiffInv holds at the start, and every step keeps it.                    *)
LEMMA DiffInit ==
  ASSUME Diff!DiffAssumption, Diff!Init
  PROVE  Diff!DiffInv
<1>1. /\ history \in Histories /\ changed \in Diffs /\ excluded \in Exclusions
      /\ next = 1 /\ diffBackend = "pack" /\ aggregate = <<>> /\ related = <<>>
      /\ status \in {"asking", "failed"} /\ Started
  BY DEF Diff!Init, Started
<1>2. Len(changed) \in Nat /\ Top \in Nat /\ next \in 1..(Len(changed) + 1)
  BY <1>1, StartTypes
<1>3. DOMAIN aggregate = {} /\ Len(related) = 0
  BY <1>1
<1>4. \A x : FoundBy(x, 0) = {}
  BY <1>1, ReasonsFacts
<1>5. IsAggregate(aggregate, 0)
  <2>1. IsSound(aggregate, 0) /\ IsWhole(aggregate, 0) /\ IsFirst(aggregate, 0)
    BY <1>3, <1>4 DEF IsSound, IsWhole, IsFirst
  <2> QED BY <1>3, <2>1 DEF IsAggregate
<1>6. Diff!AggregateInv
  <2>1. next - 1 = 0
    BY <1>1
  <2> QED BY <1>1, <1>2, <1>5, <2>1, AggregateIs
<1>7. Diff!TypeOK
  BY <1>1, <1>2, <1>3 DEF Diff!TypeOK
<1>8. Diff!ExcludeHidesNothing /\ Diff!CutOnlyLowers /\ Diff!EvidenceIsNewest
  BY <1>1 DEF Diff!ExcludeHidesNothing, Diff!CutOnlyLowers, Diff!EvidenceIsNewest
<1> QED BY <1>1, <1>6, <1>7, <1>8 DEF Diff!DiffInv

(* Whatever reader answers.                                                *)
LEMMA AnswerKeepsDiffInv ==
  ASSUME Diff!DiffAssumption, Diff!DiffInv, Diff!Answer, diffBackend' \in {"pack", "git"}
  PROVE  Diff!DiffInv'
<1>1. /\ Started /\ Diff!TypeOK /\ Diff!AggregateInv
      /\ history' = history /\ changed' = changed /\ excluded' = excluded
      /\ related' = related /\ status' = status /\ status = "asking"
      /\ next' = next + 1 /\ next <= Len(changed)
      /\ aggregate' = Diff!Merged(ListFor(changed[next]))
  BY DEF Diff!DiffInv, Started, Diff!Answer, Diff!Asking, Diff!input, ListFor
<1>2. next \in 1..Len(changed) /\ next' \in 1..(Len(changed) + 1) /\ next' - 1 = next
  BY <1>1, StartTypes DEF Diff!TypeOK
<1>3. IsAggregate(aggregate, next - 1)
  BY <1>1, AggregateIs DEF Diff!TypeOK
<1>4. IsAggregate(aggregate', next)
  BY <1>1, <1>2, <1>3, AnswerKeepsAggregate
<1>5. Started' /\ next' \in 1..(Len(changed') + 1)
  BY <1>1, <1>2 DEF Started
<1>6. \A x, n : /\ FoundBy(x, n)' = FoundBy(x, n) /\ Sum(x, n)' = Sum(x, n)
                /\ Diff!Total(x)' = Diff!Total(x) /\ Diff!Reasons(x)' = Diff!Reasons(x)
  <2>1. \A x : Diff!Reasons(x)' = Diff!Reasons(x)
    BY <1>1 DEF Diff!Reasons
  <2>2. \A x, n : FoundBy(x, n)' = FoundBy(x, n)
    BY <1>1, <2>1 DEF FoundBy
  <2>3. \A x, T : Diff!Evidence(x, T)' = Diff!Evidence(x, T)
    BY <1>1, SameEvidence
  <2>4. /\ \A x : Diff!Targets(Diff!Reasons(x))' = Diff!Targets(Diff!Reasons(x))
        /\ \A x, n : Diff!Targets(FoundBy(x, n))' = Diff!Targets(FoundBy(x, n))
    BY <2>1, <2>2 DEF Diff!Targets
  <2>5. /\ \A x : Diff!Evidence(x, Diff!Targets(Diff!Reasons(x)))' =
                  Diff!Evidence(x, Diff!Targets(Diff!Reasons(x)))
        /\ \A x, n : Diff!Evidence(x, Diff!Targets(FoundBy(x, n)))' =
                     Diff!Evidence(x, Diff!Targets(FoundBy(x, n)))
    BY <2>3, <2>4
  <2> QED BY SameFinite, <2>1, <2>2, <2>5 DEF Sum, Diff!Total
<1>7. IsAggregate(aggregate, next - 1)'
  <2>1. Diff!Whole' = Diff!Whole
    BY <1>1, <1>6 DEF Diff!Whole
  <2>2. {Diff!Total(x) : x \in Diff!Whole}' = {Diff!Total(x) : x \in Diff!Whole}
    BY <1>6, <2>1
  <2> QED BY <1>1, <1>2, <1>4, <1>6, <2>2 DEF IsAggregate, IsSound, IsWhole, IsFirst
<1>8. Diff!AggregateInv'
  BY <1>5, <1>7, AggregateIsNext
<1>9. Diff!TypeOK'
  <2>1. DOMAIN aggregate' \subseteq DiffFiles \ Diff!ToSet(changed)
    BY <1>4 DEF IsAggregate
  <2> QED BY <1>1, <1>5, <2>1 DEF Diff!TypeOK
<1>a. (Diff!ExcludeHidesNothing /\ Diff!CutOnlyLowers /\ Diff!EvidenceIsNewest)'
  BY <1>1 DEF Diff!ExcludeHidesNothing, Diff!CutOnlyLowers, Diff!EvidenceIsNewest
<1> QED BY <1>5, <1>8, <1>9, <1>a DEF Diff!DiffInv, Started

(* A failure changes nothing that was found.                               *)
LEMMA FailureKeepsDiffInv ==
  ASSUME Diff!DiffInv, Diff!QueryFails
  PROVE  Diff!DiffInv'
<1>1. /\ history' = history /\ changed' = changed /\ excluded' = excluded
      /\ next' = next /\ diffBackend' = diffBackend /\ aggregate' = aggregate
      /\ related' = related /\ status' = "failed"
  BY DEF Diff!QueryFails, Diff!input
<1>2. Diff!AggregateInv'
  BY <1>1, SameAggregate DEF Diff!DiffInv
<1>3. Diff!TypeOK' /\ (history \in Histories /\ changed \in Diffs /\ excluded \in Exclusions)'
  BY <1>1 DEF Diff!DiffInv, Diff!TypeOK
<1>4. (Diff!ExcludeHidesNothing /\ Diff!CutOnlyLowers /\ Diff!EvidenceIsNewest)'
  BY <1>1 DEF Diff!ExcludeHidesNothing, Diff!CutOnlyLowers, Diff!EvidenceIsNewest
<1> QED BY <1>2, <1>3, <1>4 DEF Diff!DiffInv

(* The answer is made of all that was found.                               *)
LEMMA ShowKeepsDiffInv ==
  ASSUME Diff!DiffAssumption, Diff!DiffInv, Diff!Show
  PROVE  Diff!DiffInv'
<1>1. /\ history' = history /\ changed' = changed /\ excluded' = excluded
      /\ next' = next /\ diffBackend' = diffBackend /\ aggregate' = aggregate
      /\ next > Len(changed) /\ status' = "done"
      /\ related' = Diff!filter_related_results({aggregate[x] : x \in DOMAIN aggregate}, Top)
      /\ Started /\ Diff!TypeOK /\ Diff!AggregateInv
  BY DEF Diff!Show, Diff!input, Diff!DiffInv, Started
<1>2. next - 1 = Len(changed) /\ next \in 1..(Len(changed) + 1) /\ Len(changed) \in Nat
  BY <1>1, StartTypes DEF Diff!TypeOK
<1>3. IsAggregate(aggregate, Len(changed))
  BY <1>1, <1>2, AggregateIs DEF Diff!TypeOK
<1>4. PICK shown : shown = Diff!filter_related_results({aggregate[x] : x \in DOMAIN aggregate}, Top)
  OBVIOUS
<1>5. /\ Len(shown) <= Top
      /\ \A i \in DOMAIN shown : shown[i].score <= Cardinality(Diff!Reasons(shown[i].path))
      /\ excluded # {} => /\ shown = Diff!truncate_top({Diff!Total(x) : x \in Diff!Whole}, Top)
                          /\ \A i \in DOMAIN shown : shown[i] = Diff!Total(shown[i].path)
      /\ Len(changed) = 1 => shown = Diff!truncate_top({Diff!Total(x) : x \in Diff!Whole}, Top)
  BY <1>1, <1>3, <1>4, ShownFacts
<1>6. \A x : Diff!Total(x)' = Diff!Total(x) /\ Diff!Reasons(x)' = Diff!Reasons(x) /\
             Diff!Total(x).score = Cardinality(Diff!Reasons(x))
  <2>1. \A x : Diff!Total(x)' = Diff!Total(x)
    BY <1>1, SameAggregate
  <2> QED BY SameFinite, <1>1, <2>1 DEF Diff!Total, Diff!Reasons
<1>7. Diff!Whole' = Diff!Whole
  BY <1>1, <1>6 DEF Diff!Whole
<1>8. {Diff!Total(x) : x \in Diff!Whole}' = {Diff!Total(x) : x \in Diff!Whole}
  BY <1>6, <1>7
<1>9. Diff!AggregateInv'
  BY <1>1, SameAggregate DEF Diff!DiffInv
<1>a. Diff!TypeOK' /\ (history \in Histories /\ changed \in Diffs /\ excluded \in Exclusions)'
  BY <1>1, <1>4, <1>5 DEF Diff!TypeOK, Started
<1>b. related' = shown
  BY <1>1, <1>4
<1>c. Diff!ExcludeHidesNothing'
  BY <1>1, <1>5, <1>8, <1>b DEF Diff!ExcludeHidesNothing
<1>d. Diff!CutOnlyLowers'
  BY <1>1, <1>5, <1>6, <1>8, <1>b DEF Diff!CutOnlyLowers
<1>e. Diff!EvidenceIsNewest'
  <2>1. /\ \A x, T : Diff!Evidence(x, T)' = Diff!Evidence(x, T)
        /\ Diff!DatesFollowLog' <=> Diff!DatesFollowLog
    BY <1>1, SameEvidence
  <2>2. \A x : /\ Diff!Targets(Diff!Reasons(x))' = Diff!Targets(Diff!Reasons(x))
               /\ Diff!Sharing(Diff!Reasons(x))' = Diff!Sharing(Diff!Reasons(x))
    BY <1>6 DEF Diff!Targets, Diff!Sharing
  <2>3. \A x : Diff!Evidence(x, Diff!Targets(Diff!Reasons(x)))' =
                Diff!Evidence(x, Diff!Targets(Diff!Reasons(x)))
    BY <2>1, <2>2
  <2>4. \A i, j : Diff!DateAfter(history[i], history[j])' <=> After(i, j)
    BY <1>1 DEF After, Diff!DateAfter, Diff!Local, Diff!OffsetAfter, Diff!Distance
  <2>5. ASSUME excluded # {}, NEW i \in DOMAIN shown
        PROVE  LET x == shown[i].path IN
                 /\ shown[i].evidence = Diff!Evidence(x, Diff!Targets(Diff!Reasons(x)))
                 /\ IsNewestOf(shown[i].evidence, Diff!Sharing(Diff!Reasons(x)))
    <3>1. PICK x : x = shown[i].path
      OBVIOUS
    <3>2. shown[i].evidence = Diff!Evidence(x, Diff!Targets(Diff!Reasons(x)))
      <4>1. shown[i] = Diff!Total(x)
        BY <1>5, <2>5, <3>1
      <4> QED BY <4>1 DEF Diff!Total
    <3> QED BY <1>1, <3>1, <3>2, EvidenceOfTargets
  <2>6. \A S : Diff!Smaller(DiffEvidence, Diff!Cardinality(S)) = Shorter(S, DiffEvidence)
    BY SameFinite DEF Shorter, Diff!Smaller
  <2> QED BY <1>1, <1>b, <2>1, <2>2, <2>3, <2>4, <2>5, <2>6 DEF Diff!EvidenceIsNewest, IsNewestOf
<1> QED BY <1>9, <1>a, <1>c, <1>d, <1>e DEF Diff!DiffInv

(* Every step of a diff, and none.                                         *)
LEMMA DiffNext ==
  ASSUME Diff!DiffAssumption, Diff!DiffInv, [Diff!Next]_Diff!vars
  PROVE  Diff!DiffInv'
<1>1. CASE Diff!QueryTarget
  <2>1. Diff!Answer /\ diffBackend' = diffBackend /\ diffBackend \in {"pack", "git"}
    BY <1>1 DEF Diff!QueryTarget, Diff!DiffInv, Diff!TypeOK
  <2> QED BY <2>1, AnswerKeepsDiffInv
<1>2. CASE Diff!QueryFallback
  <2>1. Diff!Answer /\ diffBackend' = "git"
    BY <1>2 DEF Diff!QueryFallback, Diff!Fallback
  <2> QED BY <2>1, AnswerKeepsDiffInv
<1>3. CASE Diff!QueryFails
  BY <1>3, FailureKeepsDiffInv
<1>4. CASE Diff!Show
  BY <1>4, ShowKeepsDiffInv
<1>5. CASE UNCHANGED Diff!vars
  <2>1. /\ history' = history /\ changed' = changed /\ excluded' = excluded
        /\ next' = next /\ diffBackend' = diffBackend /\ aggregate' = aggregate
        /\ related' = related /\ status' = status
    BY <1>5 DEF Diff!vars, Diff!input
  <2>2. Diff!AggregateInv' /\ Diff!Whole' = Diff!Whole /\ \A x : Diff!Total(x)' = Diff!Total(x)
    BY <2>1, SameAggregate DEF Diff!DiffInv
  <2>3. {Diff!Total(x) : x \in Diff!Whole}' = {Diff!Total(x) : x \in Diff!Whole}
    BY <2>2
  <2>4. Diff!ExcludeHidesNothing' /\ Diff!CutOnlyLowers' /\ Diff!EvidenceIsNewest'
    <3>1. Diff!EvidenceIsNewest'
      BY <2>1, SameNewest DEF Diff!DiffInv
    <3> QED BY <2>1, <2>2, <2>3, <3>1 DEF Diff!DiffInv, Diff!ExcludeHidesNothing, Diff!CutOnlyLowers
  <2>5. Diff!TypeOK' /\ (history \in Histories /\ changed \in Diffs /\ excluded \in Exclusions)'
    BY <2>1 DEF Diff!DiffInv, Diff!TypeOK
  <2> QED BY <2>2, <2>4, <2>5 DEF Diff!DiffInv
<1> QED BY <1>1, <1>2, <1>3, <1>4, <1>5 DEF Diff!Next

-----------------------------------------------------------------------------
(* The commits among the first n that are counted for a pair.              *)
Counts(commits, key) == {i \in commits : Pair!Eligible(i) /\ key \subseteq commitLog[i]}
UpTo(S, n) == {i \in S : i <= n}

Named == Pair!ExplainAssumption /\ commitLog \in Seq(SUBSET Paths)

(* A log is a sequence of sets of paths.                                   *)
LEMMA LogFacts ==
  ASSUME Named
  PROVE  /\ MaxCommits \in Nat /\ PairEvidence \in Nat
         /\ Len(commitLog) \in Nat /\ DOMAIN commitLog = 1..Len(commitLog) /\
            DOMAIN commitLog \in SUBSET Nat
         /\ IsFiniteSet(DOMAIN commitLog)
         /\ \A i \in DOMAIN commitLog : commitLog[i] \subseteq Paths
         /\ Pair!ToSet(commitLog) = {commitLog[i] : i \in DOMAIN commitLog}
<1>1. /\ MaxCommits \in Nat /\ PairEvidence \in Nat /\ commitLog \in Seq(SUBSET Paths)
  BY DEF Named, Pair!ExplainAssumption
<1>2. Len(commitLog) \in Nat /\ DOMAIN commitLog = 1..Len(commitLog)
  BY <1>1, LenProperties
<1>3. IsFiniteSet(DOMAIN commitLog)
  BY <1>2, FS_Interval
<1>4. \A i \in DOMAIN commitLog : commitLog[i] \subseteq Paths
  BY <1>1, <1>2, ElementOfSeq
<1> QED BY <1>1, <1>2, <1>3, <1>4 DEF Pair!ToSet

(* A pair, commit by commit.                                               *)
CountedOf(commits, key, n) == n \in commits /\ Pair!Eligible(n) /\ key \subseteq commitLog[n]
Next1(commits, key, pair, n) == IF CountedOf(commits, key, n) THEN Pair!AddPair(pair, n) ELSE pair

(* PairOf commit by commit.                                                *)
LEMMA PairUnfolds ==
  ASSUME Named, NEW commits, NEW key
  PROVE  \E after :
           /\ Pair!PairOf(commits, key) = after[Len(commitLog)] /\ after[0] = Pair!NoPair
           /\ \A n \in 1..Len(commitLog) : after[n] = Next1(commits, key, after[n - 1], n)
<1>1. PICK N \in Nat : N = Len(commitLog)
  BY LogFacts
<1> DEFINE S == [cochanges : Nat, evidence : Seq(Nat)]
           F == [n \in 1..N |-> [pair \in S |-> Next1(commits, key, pair, n)]]
<1>2. \A n \in 1..N : \A pair \in S :
        F[n][pair] = Next1(commits, key, pair, n) /\ F[n][pair] \in S
  <2>1. \A n \in 1..N : \A pair \in S : Next1(commits, key, pair, n) \in S
    <3> SUFFICES ASSUME NEW n \in 1..N, NEW pair \in S
                 PROVE  Next1(commits, key, pair, n) \in S
      OBVIOUS
    <3>1. pair.cochanges + 1 \in Nat /\ pair.evidence \in Seq(Nat) /\ n \in Nat
      BY <1>1
    <3>2. Append(pair.evidence, n) \in Seq(Nat)
      BY <3>1, AppendProperties
    <3>3. Pair!AddPair(pair, n) \in S
      BY <3>1, <3>2 DEF Pair!AddPair
    <3> QED BY <3>3 DEF Next1
  <2> HIDE DEF S
  <2> QED BY <2>1
<1>3. Pair!NoPair \in S
  BY EmptySeq DEF Pair!NoPair
<1> HIDE DEF F, S
<1>4. PICK g \in [0..N -> S] : IsTable(g, N, Pair!NoPair, F)
  BY <1>2, <1>3, TableExists
<1> DEFINE Value(h, n) == IF n = 0 THEN Pair!NoPair
                          ELSE IF n \in commits /\ Pair!Eligible(n) /\
                            key \subseteq commitLog[n] THEN Pair!AddPair(h[n-1], n)
                          ELSE h[n-1]
           after == CHOOSE h : h = [n \in 0..Len(commitLog) |-> Value(h, n)]
<1>5. g = [n \in 0..N |-> Value(g, n)]
  <2>1. \A n \in 0..N : g[n] = Value(g, n)
    <3> SUFFICES ASSUME NEW n \in 0..N PROVE g[n] = Value(g, n)
      OBVIOUS
    <3>1. CASE n = 0
      BY <1>4, <3>1 DEF IsTable
    <3>2. CASE n # 0
      <4>1. n \in 1..N /\ n - 1 \in 0..N
        BY <1>1, <3>2
      <4>2. g[n] = F[n][g[n - 1]] /\ g[n - 1] \in S
        BY <1>4, <3>2, <4>1 DEF IsTable
      <4>3. g[n] = Next1(commits, key, g[n - 1], n)
        BY <1>2, <4>1, <4>2
      <4> QED BY <3>2, <4>3 DEF Next1, CountedOf
    <3> QED BY <3>1, <3>2
  <2> HIDE DEF Value
  <2> QED BY <1>4, <2>1
<1>6. after = [n \in 0..N |-> Value(after, n)]
  BY <1>1, <1>5
<1>7. Pair!PairOf(commits, key) = after[Len(commitLog)]
  BY DEF Pair!PairOf
<1> HIDE DEF after
<1>8. after[0] = Pair!NoPair
  BY <1>1, <1>6
<1>9. \A n \in 1..N : after[n] = Next1(commits, key, after[n - 1], n)
  <2> SUFFICES ASSUME NEW n \in 1..N PROVE after[n] = Next1(commits, key, after[n - 1], n)
    OBVIOUS
  <2>1. n \in 0..N /\ n # 0
    BY <1>1
  <2>2. after[n] = Value(after, n)
    <3> HIDE DEF Value
    <3> QED BY <1>6, <2>1
  <2> QED BY <2>1, <2>2 DEF Next1, CountedOf
<1> QED BY <1>1, <1>7, <1>8, <1>9

(* It counts the commits of the pair, and keeps the newest as evidence.    *)
LEMMA PairIs ==
  ASSUME Named, NEW commits \in SUBSET DOMAIN commitLog, NEW key
  PROVE  /\ Pair!PairOf(commits, key).cochanges = Cardinality(Counts(commits, key))
         /\ Pair!PairOf(commits, key).evidence = ByNumber(Counts(commits, key), PairEvidence)
         /\ IsFiniteSet(Counts(commits, key)) /\ Counts(commits, key) \in SUBSET Nat
<1>1. /\ PairEvidence \in Nat /\ Len(commitLog) \in Nat /\ DOMAIN commitLog = 1..Len(commitLog)
      /\ IsFiniteSet(DOMAIN commitLog) /\ DOMAIN commitLog \in SUBSET Nat
  BY LogFacts
<1>2. PICK K : K = Counts(commits, key)
  OBVIOUS
<1>3. K \subseteq DOMAIN commitLog /\ IsFiniteSet(K) /\ K \in SUBSET Nat
  <2>1. K \subseteq DOMAIN commitLog
    BY <1>2 DEF Counts
  <2> QED BY <1>1, <2>1, FS_Subset
<1>4. PICK after :
        /\ Pair!PairOf(commits, key) = after[Len(commitLog)] /\ after[0] = Pair!NoPair
        /\ \A n \in 1..Len(commitLog) : after[n] = Next1(commits, key, after[n - 1], n)
  BY PairUnfolds
<1> DEFINE Holds(n) == /\ after[n].cochanges = Cardinality(UpTo(K, n))
                       /\ after[n].evidence = ByNumber(UpTo(K, n), PairEvidence)
           D == {n \in Nat : n <= Len(commitLog) => Holds(n)}
<1>5. 0 \in D
  <2>1. UpTo(K, 0) = {}
    BY <1>1, <1>3 DEF UpTo
  <2>2. Cardinality({}) = 0 /\ IsFiniteSet({})
    BY FS_EmptySet
  <2>4. ByNumber({}, PairEvidence) = <<>>
    BY <1>1, NoneByNumber
  <2>5. Pair!NoPair.cochanges = 0 /\ Pair!NoPair.evidence = <<>>
    BY DEF Pair!NoPair
  <2>6. Holds(0)
    BY <1>4, <2>1, <2>2, <2>4, <2>5
  <2> HIDE DEF Holds
  <2> QED BY <2>6
<1>6. ASSUME NEW n \in Nat, n \in D
      PROVE  n + 1 \in D
  <2> SUFFICES ASSUME n + 1 <= Len(commitLog) PROVE Holds(n + 1)
    OBVIOUS
  <2>1. n + 1 \in 1..Len(commitLog) /\ (n + 1) - 1 = n /\ Holds(n)
    BY <1>1, <1>6
  <2>2. after[n + 1] = Next1(commits, key, after[n], n + 1)
    BY <1>4, <2>1
  <2>3. CountedOf(commits, key, n + 1) <=> n + 1 \in K
    BY <1>2 DEF CountedOf, Counts
  <2>4. PICK A : A = UpTo(K, n)
    OBVIOUS
  <2>5. A \in SUBSET Nat /\ IsFiniteSet(A) /\ \A i \in A : i < n + 1
    <3>1. A \subseteq K
      BY <2>4 DEF UpTo
    <3> QED BY <1>3, <2>4, <3>1, FS_Subset DEF UpTo
  <2>6. CASE n + 1 \in K
    <3>1. UpTo(K, n + 1) = A \cup {n + 1}
      BY <1>3, <2>4, <2>6 DEF UpTo
    <3>2. PICK m \in Nat : m = n + 1
      OBVIOUS
    <3>3. /\ Cardinality(A \cup {m}) = Cardinality(A) + 1
          /\ ByNumber(A \cup {m}, PairEvidence) =
               IF Len(ByNumber(A, PairEvidence)) < PairEvidence
               THEN Append(ByNumber(A, PairEvidence), m) ELSE ByNumber(A, PairEvidence)
      BY <1>1, <2>5, <3>2, ByNumberGrows
    <3>4. after[n + 1] = Pair!AddPair(after[n], m)
      BY <2>2, <2>3, <2>6, <3>2 DEF Next1
    <3>5. /\ Pair!AddPair(after[n], m).cochanges = after[n].cochanges + 1
          /\ Pair!AddPair(after[n], m).evidence =
               IF Len(after[n].evidence) < PairEvidence
               THEN Append(after[n].evidence, m) ELSE after[n].evidence
      BY DEF Pair!AddPair
    <3>6. /\ after[n].cochanges = Cardinality(A)
          /\ after[n].evidence = ByNumber(A, PairEvidence)
      BY <2>1, <2>4
    <3>7. UpTo(K, n + 1) = A \cup {m}
      BY <3>1, <3>2
    <3>8. after[n + 1].cochanges = Cardinality(UpTo(K, n + 1))
      BY <3>3, <3>4, <3>5, <3>6, <3>7
    <3>9. after[n + 1].evidence = ByNumber(UpTo(K, n + 1), PairEvidence)
      <4>1. PICK list : list = ByNumber(A, PairEvidence)
        OBVIOUS
      <4>2. after[n + 1].evidence = IF Len(list) < PairEvidence THEN Append(list, m) ELSE list
        BY <3>4, <3>5, <3>6, <4>1
      <4>3. ByNumber(A \cup {m}, PairEvidence) =
              IF Len(list) < PairEvidence THEN Append(list, m) ELSE list
        BY <3>3, <4>1
      <4> QED BY <3>7, <4>2, <4>3
    <3> QED BY <3>8, <3>9
  <2>7. CASE n + 1 \notin K
    <3>1. UpTo(K, n + 1) = A
      BY <1>3, <2>4, <2>7 DEF UpTo
    <3>2. after[n + 1] = after[n]
      BY <2>2, <2>3, <2>7 DEF Next1
    <3> QED BY <2>1, <2>4, <3>1, <3>2
  <2> QED BY <2>6, <2>7
<1>7. Nat \subseteq D
  <2> HIDE DEF D
  <2> QED BY <1>5, <1>6, NumbersByInduction
<1>8. Holds(Len(commitLog))
  BY <1>1, <1>7
<1>9. UpTo(K, Len(commitLog)) = K
  BY <1>1, <1>3 DEF UpTo
<1> QED BY <1>2, <1>3, <1>4, <1>8, <1>9

(* The commits of both files, in the history of one.                       *)
LEMMA WindowFacts ==
  ASSUME Named, NEW x, NEW y
  PROVE  /\ Pair!Touching(x) \subseteq DOMAIN commitLog /\
            Pair!HistoryOf(x) \subseteq Pair!Touching(x)
         /\ \A i \in Pair!HistoryOf(x) : x \in commitLog[i]
         /\ Counts(Pair!HistoryOf(x), {x, y}) = Pair!Shared(Pair!HistoryOf(x), x, y)
         /\ Cardinality(Pair!Touching(x)) <= MaxCommits => Pair!HistoryOf(x) = Pair!Touching(x)
<1>1. /\ MaxCommits \in Nat /\ DOMAIN commitLog \in SUBSET Nat /\ IsFiniteSet(DOMAIN commitLog)
  BY LogFacts
<1>2. Pair!Touching(x) \subseteq DOMAIN commitLog /\ Pair!HistoryOf(x) \subseteq Pair!Touching(x)
  BY SameFinite DEF Pair!Touching, Pair!HistoryOf
<1>3. \A i \in Pair!HistoryOf(x) : x \in commitLog[i]
  BY <1>2 DEF Pair!Touching
<1>4. Counts(Pair!HistoryOf(x), {x, y}) = Pair!Shared(Pair!HistoryOf(x), x, y)
  BY SameFinite DEF Counts, Pair!Shared, Pair!Eligible
<1>5. ASSUME Cardinality(Pair!Touching(x)) <= MaxCommits
      PROVE  Pair!HistoryOf(x) = Pair!Touching(x)
  <2>1. PICK T : T = Pair!Touching(x)
    OBVIOUS
  <2>2. T \in SUBSET Nat /\ IsFiniteSet(T) /\ Cardinality(T) <= MaxCommits
    BY <1>1, <1>2, <1>5, <2>1, FS_Subset
  <2>3. /\ IsStrictOrder(T, Earlier)
        /\ \A i \in T : Ahead(T, Earlier, i) = {j \in T : j < i}
    BY <2>2, EarlierFacts
  <2>4. Best(T, Earlier, MaxCommits) = T
    BY <1>1, <2>2, <2>3, AllAreBest
  <2>5. \A i \in T : Cardinality({j \in T : j < i}) < MaxCommits
    <3> SUFFICES ASSUME NEW i \in T PROVE Cardinality({j \in T : j < i}) < MaxCommits
      OBVIOUS
    <3>1. Cardinality(Ahead(T, Earlier, i)) < MaxCommits
      BY <2>4 DEF Best
    <3> QED BY <2>3, <3>1
  <2>6. Pair!HistoryOf(x) = {i \in T : Cardinality({j \in T : j < i}) < MaxCommits}
    BY SameFinite, <2>1 DEF Pair!HistoryOf
  <2> QED BY <2>1, <2>5, <2>6
<1> QED BY <1>2, <1>3, <1>4, <1>5

(* The newest commits, as a list by rank.                                  *)
LEMMA FirstOnesAre ==
  ASSUME NEW A
  PROVE  Pair!Newest(A) = ByNumber(A, PairEvidence)
BY DEF Pair!Newest, ByNumber, Shorter, Pair!Cardinality, Cardinality

(* Two files of the graph, and files that are not both in it.              *)
FilesOf(commits) == UNION {commitLog[i] : i \in {j \in commits : Pair!Eligible(j)}}
PairFor(commits, x, y) == IF {x, y} \in DOMAIN Pair!Graph(commits).pairs THEN Pair!Graph(commits).pairs[{x, y}]
                          ELSE Pair!NoPair

(* The graph keeps of two files how many commits count them, and the       *)
(* newest of these.                                                        *)
LEMMA PairForIs ==
  ASSUME Named, NEW x, NEW y, NEW pair, pair = PairFor(Pair!HistoryOf(x), x, y)
  PROVE  /\ x # y => /\ pair.cochanges = Cardinality(Pair!Shared(Pair!HistoryOf(x), x, y))
                     /\ pair.evidence = Pair!Newest(Pair!Shared(Pair!HistoryOf(x), x, y))
         /\ x = y => pair = Pair!NoPair
         /\ Len(pair.evidence) <= PairEvidence /\ pair.cochanges \in Nat
         /\ IsFiniteSet(Pair!Shared(Pair!HistoryOf(x), x, y))
<1>1. PICK H : H = Pair!HistoryOf(x)
  OBVIOUS
<1>2. PICK K : K = Pair!Shared(H, x, y)
  OBVIOUS
<1>3. PICK files : files = FilesOf(H)
  OBVIOUS
<1>4. H \in SUBSET DOMAIN commitLog /\ Counts(H, {x, y}) = K /\ PairEvidence \in Nat
  BY <1>1, <1>2, LogFacts, WindowFacts
<1>5. /\ Pair!PairOf(H, {x, y}).cochanges = Cardinality(K)
      /\ Pair!PairOf(H, {x, y}).evidence = ByNumber(K, PairEvidence)
      /\ IsFiniteSet(K) /\ K \in SUBSET Nat
  BY <1>4, PairIs
<1>6. /\ DOMAIN Pair!Graph(H).pairs = {k \in SUBSET files : Cardinality(k) = 2}
      /\ \A key \in DOMAIN Pair!Graph(H).pairs : Pair!Graph(H).pairs[key] = Pair!PairOf(H, key)
  <2>1. PICK keys : keys = {k \in SUBSET files : Cardinality(k) = 2}
    OBVIOUS
  <2>2. Pair!Graph(H) = [files |-> files, pairs |-> [key \in keys |-> Pair!PairOf(H, key)]]
    BY SameFinite, <1>3, <2>1 DEF Pair!Graph, FilesOf
  <2> QED BY <2>1, <2>2
<1>7. {x, y} \in DOMAIN Pair!Graph(H).pairs <=> x # y /\ x \in files /\ y \in files
  <2>1. Cardinality({x, y}) = 2 <=> x # y
    <3>1. IsFiniteSet({x}) /\ Cardinality({x}) = 1
      BY FS_Singleton
    <3>2. CASE x # y
      <4>1. Cardinality({x} \cup {y}) = Cardinality({x}) + 1
        BY <3>1, <3>2, FS_AddElement
      <4>2. {x} \cup {y} = {x, y}
        OBVIOUS
      <4> QED BY <3>1, <3>2, <4>1, <4>2
    <3>3. CASE x = y
      <4>1. {x, y} = {x}
        BY <3>3
      <4> QED BY <3>1, <3>3, <4>1
    <3> QED BY <3>2, <3>3
  <2>2. {x, y} \in SUBSET files <=> x \in files /\ y \in files
    OBVIOUS
  <2> QED BY <1>6, <2>1, <2>2
<1>8. \A i \in K : x \in files /\ y \in files
  BY SameFinite, <1>2, <1>3 DEF Pair!Shared, FilesOf, Pair!Eligible
<1>9. Pair!NoPair.cochanges = 0 /\ Pair!NoPair.evidence = <<>>
  BY DEF Pair!NoPair
<1>a. CASE {x, y} \in DOMAIN Pair!Graph(H).pairs
  <2>1. pair = Pair!PairOf(H, {x, y}) /\ x # y
    BY <1>1, <1>6, <1>7, <1>a DEF PairFor
  <2>2. Len(ByNumber(K, PairEvidence)) <= PairEvidence /\ Cardinality(K) \in Nat
    <3>1. Cardinality(K) \in Nat
      BY <1>5, FS_CardinalityType
    <3>2. Len(ByNumber(K, PairEvidence)) = Shorter(K, PairEvidence)
      BY <1>4, <1>5, ByNumberFacts
    <3> QED BY <1>4, <3>1, <3>2 DEF Shorter
  <2> QED BY <1>1, <1>2, <1>5, <2>1, <2>2, FirstOnesAre
<1>b. CASE {x, y} \notin DOMAIN Pair!Graph(H).pairs
  <2>1. pair = Pair!NoPair
    BY <1>1, <1>b DEF PairFor
  <2>2. x # y => K = {}
    BY <1>7, <1>8, <1>b
  <2>3. Cardinality({}) = 0 /\ ByNumber({}, PairEvidence) = <<>> /\ Len(<<>>) = 0
    BY <1>4, FS_EmptySet, NoneByNumber, EmptySeq
  <2>4. x # y => /\ pair.cochanges = Cardinality(K)
                 /\ pair.evidence = Pair!Newest(K)
    BY <1>9, <2>1, <2>2, <2>3, FirstOnesAre
  <2>5. Len(pair.evidence) <= PairEvidence /\ pair.cochanges \in Nat
    BY <1>4, <1>9, <2>1, <2>3
  <2> QED BY <1>1, <1>2, <1>5, <2>1, <2>4, <2>5
<1> QED BY <1>a, <1>b

(* An answer.                                                              *)
Others(x, y) == LET known == Pair!Matches(FilesOf(Pair!HistoryOf(x)), y)
                IN  IF known = {} THEN {y} \cap tracked ELSE known

IsAnswer(reply, x, a, b) ==
  /\ reply.a = a /\ reply.b = b
  /\ reply.cochanges = PairFor(Pair!HistoryOf(x), a, b).cochanges
  /\ reply.evidence = PairFor(Pair!HistoryOf(x), a, b).evidence
  /\ reply.related <=> reply.cochanges > 0

(* explain_relationship answers when each name stands for one file.        *)
LEMMA ExplainedIs ==
  ASSUME NEW x, NEW y, NEW reply, reply = Pair!Explained(x, y),
         NEW As, As = Pair!Matches(FilesOf(Pair!HistoryOf(x)), x), NEW Bs, Bs = Others(x, y)
  PROVE  /\ reply.kind = "answer" <=> Cardinality(As) = 1 /\ Cardinality(Bs) = 1
         /\ reply.kind = "answer" =>
            IsAnswer(reply, x, CHOOSE f \in As : TRUE, CHOOSE f \in Bs : TRUE)
<1>1. Pair!Graph(Pair!HistoryOf(x)).files = FilesOf(Pair!HistoryOf(x))
  BY SameFinite DEF Pair!Graph, FilesOf
<1>4. PICK a : a = CHOOSE f \in As : TRUE
  OBVIOUS
<1>5. PICK b : b = CHOOSE f \in Bs : TRUE
  OBVIOUS
<1>6. PICK pair : pair = PairFor(Pair!HistoryOf(x), a, b)
  OBVIOUS
<1>7. reply = IF Cardinality(As) # 1 \/ Cardinality(Bs) # 1 THEN Pair!Refused
              ELSE [kind |-> "answer", a |-> a, b |-> b, related |-> pair.cochanges > 0,
                    cochanges |-> pair.cochanges, evidence |-> pair.evidence]
  BY SameFinite, <1>1, <1>4, <1>5, <1>6 DEF Pair!Explained, Others, PairFor
<1>8. Pair!Refused.kind # "answer"
  BY DEF Pair!Refused
<1>9. CASE Cardinality(As) # 1 \/ Cardinality(Bs) # 1
  BY <1>7, <1>8, <1>9
<1>a. CASE Cardinality(As) = 1 /\ Cardinality(Bs) = 1
  <2>1. reply = [kind |-> "answer", a |-> a, b |-> b, related |-> pair.cochanges > 0,
                 cochanges |-> pair.cochanges, evidence |-> pair.evidence]
    BY <1>7, <1>a
  <2>2. /\ reply.kind = "answer" /\ reply.a = a /\ reply.b = b
        /\ reply.cochanges = pair.cochanges /\ reply.evidence = pair.evidence
        /\ reply.related = (pair.cochanges > 0)
    BY <2>1
  <2> QED BY <1>4, <1>5, <1>6, <1>a, <2>2 DEF IsAnswer
<1> QED BY <1>9, <1>a

(* Either the graph knows the file whose history it is, or it is empty.    *)
LEMMA FirstIsItself ==
  ASSUME Named, NEW x, NEW F, F = FilesOf(Pair!HistoryOf(x))
  PROVE  /\ Pair!Matches(F, x) = IF x \in F THEN {x} ELSE {}
         /\ F \subseteq UNION Pair!ToSet(commitLog)
<1>1. Pair!HistoryOf(x) \subseteq DOMAIN commitLog /\
      \A i \in Pair!HistoryOf(x) : x \in commitLog[i]
  BY WindowFacts
<1>2. x \notin F => F = {}
  BY <1>1 DEF FilesOf
<1>3. F \subseteq UNION Pair!ToSet(commitLog)
  <2>1. \A i \in DOMAIN commitLog : commitLog[i] \in Pair!ToSet(commitLog)
    BY DEF Pair!ToSet
  <2> QED BY <1>1, <2>1 DEF FilesOf
<1>4. CASE x \in F
  BY <1>3, <1>4 DEF Pair!Matches
<1>5. CASE x \notin F
  <2>1. Pair!Matches(F, x) \subseteq F
    BY <1>5 DEF Pair!Matches
  <2> QED BY <1>2, <1>3, <1>5, <2>1
<1> QED BY <1>3, <1>4, <1>5

(* The second file may be known from the history or be tracked.            *)
LEMMA OthersAre ==
  ASSUME Named, NEW x, NEW y, tracked \subseteq UNION Pair!ToSet(commitLog)
  PROVE  /\ Others(x, y) \subseteq UNION Pair!ToSet(commitLog)
         /\ y \in FilesOf(Pair!HistoryOf(x)) => Others(x, y) = {y}
<1>1. FilesOf(Pair!HistoryOf(x)) \subseteq UNION Pair!ToSet(commitLog)
  BY FirstIsItself
<1>2. Pair!Matches(FilesOf(Pair!HistoryOf(x)), y) \subseteq FilesOf(Pair!HistoryOf(x))
  BY DEF Pair!Matches
<1>3. y \in FilesOf(Pair!HistoryOf(x)) => Pair!Matches(FilesOf(Pair!HistoryOf(x)), y) = {y}
  BY DEF Pair!Matches
<1> QED BY <1>1, <1>2, <1>3 DEF Others

(* The only one can be chosen.                                             *)
LEMMA OneMember ==
  ASSUME NEW S, Cardinality(S) = 1
  PROVE  (CHOOSE f \in S : TRUE) \in S
<1>1. S # {}
  BY FS_EmptySet
<1> QED BY <1>1

(* What is answered is about the file that was named, and counts what its  *)
(* history says of both.                                                   *)
LEMMA AnswerFacts ==
  ASSUME Named, tracked \subseteq UNION Pair!ToSet(commitLog),
         NEW x, NEW y, NEW reply, reply = Pair!Explained(x, y), reply.kind = "answer"
  PROVE  /\ reply.a = x /\ x \in FilesOf(Pair!HistoryOf(x)) /\ reply.b \in Others(x, y)
         /\ {reply.a, reply.b} \subseteq UNION Pair!ToSet(commitLog) /\
            Len(reply.evidence) <= PairEvidence
         /\ x # reply.b => /\ reply.cochanges = Cardinality(Pair!Shared(Pair!HistoryOf(x), x, reply.b))
                           /\ reply.related <=> Pair!Shared(Pair!HistoryOf(x), x, reply.b) # {}
                           /\ reply.evidence = Pair!Newest(Pair!Shared(Pair!HistoryOf(x), x, reply.b))
         /\ x = reply.b => ~reply.related
<1>1. PICK F : F = FilesOf(Pair!HistoryOf(x))
  OBVIOUS
<1>2. PICK As : As = Pair!Matches(F, x)
  OBVIOUS
<1>3. PICK Bs : Bs = Others(x, y)
  OBVIOUS
<1>4. PICK a : a = CHOOSE f \in As : TRUE
  OBVIOUS
<1>5. PICK b : b = CHOOSE f \in Bs : TRUE
  OBVIOUS
<1>6. Cardinality(As) = 1 /\ Cardinality(Bs) = 1 /\ IsAnswer(reply, x, a, b)
  BY <1>1, <1>2, <1>3, <1>4, <1>5, ExplainedIs
<1>7. a \in As /\ b \in Bs
  BY <1>4, <1>5, <1>6, OneMember
<1>8. As = (IF x \in F THEN {x} ELSE {}) /\ F \subseteq UNION Pair!ToSet(commitLog)
  BY <1>1, <1>2, FirstIsItself
<1>9. a = x /\ x \in F /\ x \in UNION Pair!ToSet(commitLog)
  BY <1>7, <1>8
<1>a. b \in UNION Pair!ToSet(commitLog)
  BY <1>3, <1>7, OthersAre
<1>b. PICK pair : pair = PairFor(Pair!HistoryOf(x), x, b)
  OBVIOUS
<1>c. /\ reply.a = x /\ reply.b = b /\ reply.cochanges = pair.cochanges
      /\ reply.evidence = pair.evidence /\ (reply.related <=> pair.cochanges > 0)
  BY <1>6, <1>9, <1>b DEF IsAnswer
<1>d. PICK K : K = Pair!Shared(Pair!HistoryOf(x), x, b)
  OBVIOUS
<1>e. /\ x # b => pair.cochanges = Cardinality(K) /\ pair.evidence = Pair!Newest(K)
      /\ x = b => pair = Pair!NoPair
      /\ Len(pair.evidence) <= PairEvidence /\ IsFiniteSet(K)
  BY <1>b, <1>d, PairForIs
<1>f. Cardinality(K) \in Nat /\ (Cardinality(K) > 0 <=> K # {})
  BY <1>e, FS_CardinalityType, FS_EmptySet
<1>g. ASSUME x # b
      PROVE  /\ reply.cochanges = Cardinality(K)
             /\ reply.related <=> K # {}
             /\ reply.evidence = Pair!Newest(K)
  <2>1. pair.cochanges > 0 <=> K # {}
    BY <1>e, <1>f, <1>g
  <2> QED BY <1>c, <1>e, <1>g, <2>1
<1>h. x = b => ~reply.related
  <2>1. ~(Pair!NoPair.cochanges > 0)
    BY DEF Pair!NoPair
  <2> QED BY <1>c, <1>e, <2>1
<1>i. Len(reply.evidence) <= PairEvidence
  BY <1>c, <1>e
<1> QED BY <1>1, <1>3, <1>7, <1>9, <1>a, <1>c, <1>d, <1>g, <1>h, <1>i

(* The other order.                                                        *)
LEMMA SwapFacts ==
  ASSUME Named, tracked \subseteq UNION Pair!ToSet(commitLog),
         NEW x, NEW y, Cardinality(Pair!Touching(x)) <= MaxCommits,
           Cardinality(Pair!Touching(y)) <= MaxCommits,
         NEW reply, reply = Pair!Explained(x, y), reply.kind = "answer", reply.b = y, reply.related,
         NEW other, other = Pair!Explained(y, x)
  PROVE  /\ other.kind = "answer" /\ other.b = x
         /\ other.cochanges = reply.cochanges /\ other.evidence = reply.evidence
<1>1. /\ x # y /\ Pair!Shared(Pair!HistoryOf(x), x, y) # {}
      /\ reply.cochanges = Cardinality(Pair!Shared(Pair!HistoryOf(x), x, y))
      /\ reply.evidence = Pair!Newest(Pair!Shared(Pair!HistoryOf(x), x, y))
  BY AnswerFacts
<1>2. Pair!HistoryOf(x) = Pair!Touching(x) /\ Pair!HistoryOf(y) = Pair!Touching(y)
  BY WindowFacts
<1>3. Pair!Shared(Pair!HistoryOf(x), x, y) = Pair!Shared(Pair!HistoryOf(y), y, x)
  BY SameFinite, <1>2 DEF Pair!Shared, Pair!Touching
<1>4. PICK i \in Pair!HistoryOf(y) : {y, x} \subseteq commitLog[i] /\ Pair!Eligible(i)
  BY SameFinite, <1>1, <1>3 DEF Pair!Shared, Pair!Eligible
<1>5. y \in FilesOf(Pair!HistoryOf(y)) /\ x \in FilesOf(Pair!HistoryOf(y))
  BY <1>4 DEF FilesOf
<1>6. Pair!Matches(FilesOf(Pair!HistoryOf(y)), y) = {y} /\ Others(y, x) = {x}
  BY <1>5, FirstIsItself, OthersAre
<1>7. Cardinality({y}) = 1 /\ Cardinality({x}) = 1
  BY FS_Singleton
<1>8. other.kind = "answer"
  <2>1. PICK As : As = Pair!Matches(FilesOf(Pair!HistoryOf(y)), y)
    OBVIOUS
  <2>2. PICK Bs : Bs = Others(y, x)
    OBVIOUS
  <2>3. Cardinality(As) = 1 /\ Cardinality(Bs) = 1
    BY <1>6, <1>7, <2>1, <2>2
  <2> QED BY <2>1, <2>2, <2>3, ExplainedIs
<1>9. /\ other.b \in {x}
      /\ y # other.b => /\ other.cochanges = Cardinality(Pair!Shared(Pair!HistoryOf(y), y, other.b))
                        /\ other.evidence = Pair!Newest(Pair!Shared(Pair!HistoryOf(y), y, other.b))
  BY <1>6, <1>8, AnswerFacts
<1>a. other.b = x
  BY <1>9
<1> QED BY <1>1, <1>3, <1>8, <1>9, <1>a

-----------------------------------------------------------------------------
(* What is kept from step to step; the rest of the invariant follows.      *)
ExplainCore ==
  /\ commitLog \in Seq(SUBSET Paths) /\ tracked \subseteq UNION Pair!ToSet(commitLog)
  /\ asked \in {<<>>} \cup Paths \X Paths
  /\ IF asked = <<>> THEN answer = Pair!Refused ELSE answer = Pair!Explained(asked[1], asked[2])

(* ExplainCore gives the invariant; it holds at the start, and every step  *)
(* keeps it.                                                               *)
LEMMA CoreIsEnough ==
  ASSUME Pair!ExplainAssumption, ExplainCore
  PROVE  Pair!ExplainInv
<1>1. Named /\ tracked \subseteq UNION Pair!ToSet(commitLog)
  BY DEF Named, ExplainCore
<1>2. PICK x : x = asked[1]
  OBVIOUS
<1>3. PICK y : y = asked[2]
  OBVIOUS
<1>4. asked # <<>> => answer = Pair!Explained(x, y)
  BY <1>2, <1>3 DEF ExplainCore
<1>5. ASSUME Pair!Answered
      PROVE  /\ answer.a = x
             /\ {answer.a, answer.b} \subseteq UNION Pair!ToSet(commitLog) /\
                Len(answer.evidence) <= PairEvidence
             /\ x # answer.b => /\ answer.cochanges = Cardinality(Pair!Shared(Pair!HistoryOf(x), x, answer.b))
                                /\ answer.related <=> Pair!Shared(Pair!HistoryOf(x), x, answer.b) # {}
                                /\ answer.evidence = Pair!Newest(Pair!Shared(Pair!HistoryOf(x), x, answer.b))
  <2>1. PICK reply : reply = answer
    OBVIOUS
  <2>2. reply = Pair!Explained(x, y) /\ reply.kind = "answer"
    BY <1>4, <1>5, <2>1 DEF Pair!Answered
  <2>3. reply.a = x /\ {reply.a, reply.b} \subseteq UNION Pair!ToSet(commitLog)
    BY <1>1, <2>2, AnswerFacts
  <2>4. Len(reply.evidence) <= PairEvidence
    BY <1>1, <2>2, AnswerFacts
  <2>5. ASSUME x # reply.b
        PROVE  /\ reply.cochanges = Cardinality(Pair!Shared(Pair!HistoryOf(x), x, reply.b))
               /\ reply.evidence = Pair!Newest(Pair!Shared(Pair!HistoryOf(x), x, reply.b))
    BY <1>1, <2>2, <2>5, AnswerFacts
  <2>6. ASSUME x # reply.b
        PROVE  reply.related <=> Pair!Shared(Pair!HistoryOf(x), x, reply.b) # {}
    BY <1>1, <2>2, <2>6, AnswerFacts
  <2> QED BY <2>1, <2>3, <2>4, <2>5, <2>6
<1>6. Pair!TypeOK
  BY <1>1, <1>5 DEF Pair!TypeOK, ExplainCore
<1>7. Pair!FirstFileIsExact
  BY <1>2, <1>5 DEF Pair!FirstFileIsExact
<1>8. Pair!AnswerIsEvidence
  BY SameFinite, <1>2, <1>5 DEF Pair!AnswerIsEvidence
<1>9. Pair!SameBothWays
  <2>1. PICK other : other = Pair!Explained(y, x)
    OBVIOUS
  <2>2. ASSUME Pair!Answered, answer.b = y, Cardinality(Pair!Touching(x)) <= MaxCommits,
               Cardinality(Pair!Touching(y)) <= MaxCommits, answer.related
        PROVE  /\ other.kind = "answer" /\ other.b = x
               /\ other.cochanges = answer.cochanges /\ other.evidence = answer.evidence
    <3>1. answer = Pair!Explained(x, y) /\ answer.kind = "answer"
      BY <1>4, <2>2 DEF Pair!Answered
    <3> QED BY <1>1, <2>1, <2>2, <3>1, SwapFacts
  <2> QED BY SameFinite, <1>2, <1>3, <2>1, <2>2 DEF Pair!SameBothWays
<1> QED BY <1>1, <1>2, <1>3, <1>4, <1>6, <1>7, <1>8, <1>9 DEF Pair!ExplainInv, Named

(* Nothing was asked at the start.                                         *)
LEMMA ExplainInit ==
  ASSUME Pair!Init
  PROVE  ExplainCore
<1>1. commitLog \in Seq(SUBSET Paths) /\ tracked = {} /\ asked = <<>> /\ answer = Pair!Refused
  BY EmptySeq DEF Pair!Init
<1> QED BY <1>1 DEF ExplainCore

(* An answer depends on the commits and the tracked files only.            *)
LEMMA SameLogSameAnswer ==
  ASSUME commitLog' = commitLog, tracked' = tracked, NEW x, NEW y
  PROVE  Pair!Explained(x, y)' = Pair!Explained(x, y)
<1>1. \A c, k : Pair!PairOf(c, k)' = Pair!PairOf(c, k)
  BY SameFinite DEF Pair!PairOf, Pair!Eligible, Pair!AddPair
<1>2. \A c : Pair!Touching(c)' = Pair!Touching(c)
  BY DEF Pair!Touching
<1>3. \A c : Pair!HistoryOf(c)' = Pair!HistoryOf(c)
  BY SameFinite, <1>2 DEF Pair!HistoryOf
<1>4. \A c : Pair!Graph(c)' = Pair!Graph(c)
  BY SameFinite, <1>1 DEF Pair!Graph, Pair!Eligible
<1> DEFINE Body(graph, here) ==
             LET As == Pair!Matches(graph.files, x)
                 Bs == LET known == Pair!Matches(graph.files, y)
                       IN  IF known = {} THEN {y} \cap here ELSE known
             IN  IF Cardinality(As) # 1 \/ Cardinality(Bs) # 1 THEN Pair!Refused
                 ELSE LET a    == CHOOSE f \in As : TRUE
                          b    == CHOOSE f \in Bs : TRUE
                          pair == IF {a, b} \in DOMAIN graph.pairs THEN graph.pairs[{a, b}] ELSE Pair!NoPair
                      IN  [kind |-> "answer", a |-> a, b |-> b, related |-> pair.cochanges > 0,
                           cochanges |-> pair.cochanges, evidence |-> pair.evidence]
<1>5. Pair!Explained(x, y) = Body(Pair!Graph(Pair!HistoryOf(x)), tracked)
  BY SameFinite DEF Pair!Explained
<1>6. Pair!Explained(x, y)' = Body(Pair!Graph(Pair!HistoryOf(x))', tracked')
  BY SameFinite DEF Pair!Explained
<1> HIDE DEF Body
<1> QED BY <1>3, <1>4, <1>5, <1>6

(* A commit forgets the answer, a question gives a new one.                *)
LEMMA ExplainNext ==
  ASSUME ExplainCore, [Pair!Next]_Pair!vars
  PROVE  ExplainCore'
<1>1. ASSUME NEW files \in SUBSET Paths, NEW deleted, Pair!Commit(files, deleted)
      PROVE  ExplainCore'
  <2>1. /\ commitLog \in Seq(SUBSET Paths) /\ tracked \subseteq UNION Pair!ToSet(commitLog)
        /\ commitLog' = <<files>> \o commitLog /\ tracked' = (tracked \cup files) \ deleted
        /\ asked' = <<>> /\ answer' = Pair!Refused
    BY <1>1 DEF Pair!Commit, ExplainCore
  <2>2. PICK s : s = <<files>>
    OBVIOUS
  <2>3. s \in Seq(SUBSET Paths) /\ Len(s) = 1 /\ s[1] = files
    BY <2>2
  <2>4. /\ commitLog' \in Seq(SUBSET Paths) /\ Len(commitLog') = 1 + Len(commitLog) /\
           Len(commitLog) \in Nat
        /\ DOMAIN commitLog' = 1..(1 + Len(commitLog)) /\ DOMAIN commitLog = 1..Len(commitLog)
        /\ \A i \in 1..(1 + Len(commitLog)) : commitLog'[i] = IF i <= 1 THEN s[i] ELSE commitLog[i - 1]
    BY <2>1, <2>2, <2>3, ConcatProperties, LenProperties
  <2>5. files \in Pair!ToSet(commitLog')
    BY <2>3, <2>4 DEF Pair!ToSet
  <2>6. Pair!ToSet(commitLog) \subseteq Pair!ToSet(commitLog')
    <3> SUFFICES ASSUME NEW i \in DOMAIN commitLog PROVE \E j \in DOMAIN commitLog' : commitLog'[j] = commitLog[i]
      BY DEF Pair!ToSet
    <3>1. i + 1 \in DOMAIN commitLog' /\ commitLog'[i + 1] = commitLog[i]
      BY <2>4
    <3> QED BY <3>1
  <2>7. tracked' \subseteq UNION Pair!ToSet(commitLog')
    BY <2>1, <2>5, <2>6
  <2> QED BY <2>1, <2>4, <2>7 DEF ExplainCore
<1>2. ASSUME NEW a \in Paths, NEW b \in Paths, Pair!Ask(a, b)
      PROVE  ExplainCore'
  <2>1. commitLog' = commitLog /\ tracked' = tracked /\ asked' = <<a, b>> /\
        answer' = Pair!Explained(a, b)
    BY <1>2 DEF Pair!Ask
  <2>2. Pair!Explained(a, b)' = Pair!Explained(a, b)
    BY <2>1, SameLogSameAnswer
  <2>3. asked' \in Paths \X Paths /\ asked'[1] = a /\ asked'[2] = b /\ asked' # <<>>
    BY <2>1
  <2>4. answer' = Pair!Explained(asked[1], asked[2])'
    BY <2>1, <2>2, <2>3
  <2> QED BY <2>1, <2>3, <2>4 DEF ExplainCore
<1>3. CASE UNCHANGED Pair!vars
  <2>1. commitLog' = commitLog /\ tracked' = tracked /\ asked' = asked /\ answer' = answer
    BY <1>3 DEF Pair!vars
  <2>2. Pair!Explained(asked[1], asked[2])' = Pair!Explained(asked[1], asked[2])
    BY <2>1, SameLogSameAnswer
  <2> QED BY <2>1, <2>2 DEF ExplainCore
<1> QED BY <1>1, <1>2, <1>3 DEF Pair!Next

-----------------------------------------------------------------------------
(* The commands together: whichever runs keeps its own invariant, and the  *)
(* others do not move.                                                     *)
CommandsInv == EvalInv /\ Diff!DiffInv /\ ExplainCore

(* While another command runs, the evaluation rests.                       *)
LEMMA EvalRestsKeepsInv ==
  ASSUME EvalInv, UNCHANGED evalVars
  PROVE  EvalInv'
<1>1. /\ log' = log /\ minimum' = minimum /\ at' = at /\ left' = left /\ cache' = cache
      /\ counts' = counts /\ rows' = rows /\ totals' = totals /\ last' = last
  BY DEF evalVars
<1>2. EvalTypeOK'
  BY <1>1 DEF EvalInv, EvalTypeOK, KnownHere, Files
<1>3. CountsAreNumbers' /\ NotStale' /\ EvalIsAudit' /\ RowsExplainTotals'
  BY <1>1 DEF EvalInv, CountsAreNumbers, NotStale, EvalIsAudit, RowsExplainTotals
<1> QED BY <1>2, <1>3 DEF EvalInv

(* Every command starts in its invariant.                                  *)
LEMMA CommandsStart ==
  ASSUME CommandsInit
  PROVE  CommandsInv
<1>1. EvalInit /\ Diff!Init /\ Pair!Init
  BY DEF CommandsInit
<1>2. EvalAssumption /\ Diff!DiffAssumption
  BY CommandsAssumption DEF CommandsAssumption
<1> QED BY <1>1, <1>2, EvalInitInv, DiffInit, ExplainInit DEF CommandsInv

(* A step is one of the command that runs.                                 *)
LEMMA CommandsStep ==
  ASSUME CommandsInv, [CommandsNext]_allVars
  PROVE  CommandsInv'
<1>1. EvalAssumption /\ Diff!DiffAssumption
  BY CommandsAssumption DEF CommandsAssumption
<1>2. EvalInv /\ Diff!DiffInv /\ ExplainCore
  BY DEF CommandsInv
<1>3. /\ EvalNext \/ UNCHANGED evalVars
      /\ [Diff!Next]_Diff!vars
      /\ [Pair!Next]_Pair!vars
  BY DEF CommandsNext, allVars, diffVars, explainVars, Diff!vars, Diff!input, Pair!vars
<1>4. EvalInv'
  BY <1>1, <1>2, <1>3, EvalNextInv, EvalRestsKeepsInv
<1>5. Diff!DiffInv'
  BY <1>1, <1>2, <1>3, DiffNext
<1>6. ExplainCore'
  BY <1>2, <1>3, ExplainNext
<1> QED BY <1>4, <1>5, <1>6 DEF CommandsInv

(* The inductive invariant of the commands besides audit, for all logs,    *)
(* histories, options and files.                                           *)
THEOREM CommandsInvariantHolds == CommandsSpec => []CommandsInv
<1> QED BY CommandsStart, CommandsStep, PTL DEF CommandsSpec

(* The evaluation measures the audit: the candidates it counts for a task  *)
(* are those aggregate_audit_results would show for its seeds, although it *)
(* filters after the cut and the audit before; the rows add up to the      *)
(* totals and no file of a held-out commit is unaccounted for.             *)
THEOREM EvaluationIsTheAudit == CommandsSpec => []EvalMeasuresAudit
<1>1. CommandsInv => EvalMeasuresAudit
  BY DEF CommandsInv, EvalMeasuresAudit
<1> QED BY <1>1, CommandsInvariantHolds, PTL

(* No rename crosses the boundary of a held-out commit, and a chain of     *)
(* renames in training ends in one name, however long it is.               *)
THEOREM NoFutureIsSeen == CommandsSpec => []EvalSeesNoFuture
<1>1. CommandsInv => EvalSeesNoFuture
  <2>1. EvalAssumption
    BY CommandsAssumption DEF CommandsAssumption
  <2>2. ASSUME CommandsInv PROVE log \in Logs
    BY <2>2 DEF CommandsInv, EvalInv, EvalTypeOK
  <2> QED BY <2>1, <2>2, NothingLeaks, ChainsJoin DEF EvalSeesNoFuture
<1> QED BY <1>1, CommandsInvariantHolds, PTL

(* With --exclude a diff is answered with what all changed files say       *)
(* together, whatever order they are asked for in and however many there   *)
(* are; without, no score is higher than that.                             *)
THEOREM DiffsAreWhole == CommandsSpec => []DiffIsWhole
<1>1. CommandsInv => DiffIsWhole
  BY DEF CommandsInv, DiffIsWhole, Diff!DiffInv
<1> QED BY <1>1, CommandsInvariantHolds, PTL

(* Whatever clocks and zones the commits were made with, sorting and       *)
(* cutting the evidence after every merge shows what one sort and one cut  *)
(* at the end would show; where the dates follow the log, the latest.      *)
THEOREM MergedEvidenceIsNewest == CommandsSpec => []DiffEvidenceIsNewest
<1>1. CommandsInv => DiffEvidenceIsNewest
  BY DEF CommandsInv, DiffEvidenceIsNewest, Diff!DiffInv
<1> QED BY <1>1, CommandsInvariantHolds, PTL

(* A pair is explained with every commit of the window that shows it, in   *)
(* either order of the names, for every history and every set of paths.    *)
THEOREM ExplanationsAreEvidence == CommandsSpec => []ExplainIsEvidence
<1>1. CommandsInv => ExplainIsEvidence
  <2>1. Pair!ExplainAssumption
    BY CommandsAssumption DEF CommandsAssumption
  <2> QED BY <2>1, CoreIsEnough DEF CommandsInv, ExplainIsEvidence
<1> QED BY <1>1, CommandsInvariantHolds, PTL
=============================================================================
