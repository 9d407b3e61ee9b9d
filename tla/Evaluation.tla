------------------------------ MODULE Evaluation ------------------------------
(* eval/: the declared checks of a run are executed one after the other, their *)
(* summary and the judge's answer make a composite, and all of it is bundled   *)
(* with the run's identity and sealed by a digest.  Scores of checks are in    *)
(* halves (2 is 1.0), other scores whole percents; a digest is the value it    *)
(* was made of.                                                                *)
EXTENDS NoValue, Integers, Sequences, SequencesExt, Functions, FiniteSets, FiniteSetsExt

CONSTANTS MaxChecks, Weights,
          Configs,       \* records [dw, sw, threshold, all]
          RawScores     \* what a judge may give a dimension

VARIABLE eval

\* What a judge gives is a whole number of points.
ASSUME EvaluationAssumption == RawScores \subseteq Int /\ None \notin Int \cup {"evaluated"}

Percent(n, d) == (200 * n + d) \div (2 * d)
-----------------------------------------------------------------------------
(* DeterministicVerificationEngine and DeterministicCheckExecutor *)

Checks == [id : {1, 2}, kind : {"command", "file", "custom"}, weight : Weights]

ValidDeclarations(checks) ==
  /\ \A i \in DOMAIN checks : checks[i].weight > 0
  /\ \A i, j \in DOMAIN checks : i # j => checks[i].id # checks[j].id

NextCheck == eval.checks[Len(eval.results) + 1]

Result(check, passed, score, timely) ==
  [id |-> check.id, weight |-> check.weight, passed |-> passed, score |-> score, timely |-> timely]

Settled(passed, score, timely) ==
  [eval EXCEPT !.proc = "none", !.results = Append(@, Result(NextCheck, passed, score, timely))]

Unsettled == eval.phase = "checks" /\ eval.proc = "none" /\ Len(eval.results) < Len(eval.checks)

\* Checks of files, of the diff and of patterns settle at once, and so does a
\* command check without a command; a custom check answers with any score.
ExecuteCheck ==
  /\ Unsettled
  /\ \/ /\ NextCheck.kind = "command"
        /\ eval' = [eval EXCEPT !.proc = "running"]
     \/ \E passed \in BOOLEAN :
          /\ NextCheck.kind \in {"command", "file"} /\ (NextCheck.kind = "command" => ~passed)
          /\ eval' = Settled(passed, IF passed THEN 2 ELSE 0, TRUE)
     \/ /\ NextCheck.kind = "custom"
        /\ \/ eval' = Settled(FALSE, 0, TRUE)
           \/ \E passed \in BOOLEAN, score \in {1, 3} : eval' = Settled(passed, score, TRUE)

\* The timer kills the shell; what it started may keep the pipes open.
CommandTimesOut ==
  /\ eval.proc = "running"
  /\ eval' = [eval EXCEPT !.proc = "killed"]

\* A process that was killed by somebody else has no code and passes for 0; the
\* code of a timeout is 124, and no check here expects it.
CommandEnds ==
  /\ eval.proc \in {"running", "killed"}
  /\ \E code \in {0, 1, 124, None} :
       /\ eval.proc = "killed" <=> code = 124
       /\ LET passed == code \in {0, None}
          IN eval' = Settled(passed, IF passed THEN 2 ELSE 0, eval.proc = "running")

PassedCount(results) == Cardinality({i \in DOMAIN results : results[i].passed})

WeightedScore(results) ==
  Percent(FoldSeq(LAMBDA r, sum : sum + r.score * r.weight, 0, results),
          2 * FoldSeq(LAMBDA r, sum : sum + r.weight, 0, results))

Summary(status, results) ==
  [status |-> status, results |-> results, digest |-> results,
   passedCount |-> PassedCount(results), total |-> Len(results),
   passed |-> PassedCount(results) = Len(results),
   score |-> IF status = "evaluated" THEN WeightedScore(results) ELSE 0]

ExecuteChecks ==
  /\ eval.phase = "checks" /\ eval.proc = "none"
  /\ LET status ==
           IF eval.checks = <<>> THEN "not_evaluated"
           ELSE IF ~ValidDeclarations(eval.checks)
                     \/ \E i \in DOMAIN eval.results : eval.results[i].score \notin 0..2
             THEN "invalid" ELSE "evaluated"
     IN /\ Len(eval.results) = Len(eval.checks) \/ ~ValidDeclarations(eval.checks)
        /\ eval' = [eval EXCEPT !.phase = "composite", !.checks = <<>>,
                      !.summary = Summary(status, IF status = "evaluated" THEN eval.results ELSE <<>>)]
-----------------------------------------------------------------------------
(* CompositeEvaluator.evaluate *)

\* validateEvaluatedDeterministicSummary: everything the summary claims is
\* computed again from its results.
ValidSummary(s) ==
  /\ s.score \in 0..100 /\ s.total > 0 /\ Len(s.results) = s.total
  /\ s.passedCount \in 0..s.total /\ s.digest = s.results
  /\ ValidDeclarations(s.results)
  /\ \A i \in DOMAIN s.results : s.results[i].score \in 0..2
  /\ s.passedCount = PassedCount(s.results)
  /\ s.passed = (s.passedCount = s.total)
  /\ s.score = WeightedScore(s.results)

ValidConfig(config) == config.dw + config.sw > 0 /\ config.threshold \in 0..100

CompositeScore(s, judge, config) ==
  IF judge = None THEN s.score
  ELSE Percent(s.score * config.dw + judge * config.sw, 100 * (config.dw + config.sw))

Passes(score, s, config) == score >= config.threshold /\ (config.all => s.passed)

Composite(s, judge, config) ==
  LET status == IF s.status # "evaluated" THEN s.status
                ELSE IF ~ValidConfig(config) \/ ~ValidSummary(s) \/ judge \notin {None} \cup (0..100)
                  THEN "invalid" ELSE "evaluated"
      score == IF status = "evaluated" THEN CompositeScore(s, judge, config) ELSE 0
  IN [status |-> status, run |-> "run", judge |-> judge, config |-> config, summary |-> s,
      score |-> score, passed |-> status = "evaluated" /\ Passes(score, s, config)]

EvaluateComposite ==
  /\ eval.phase = "composite"
  /\ \E judge \in {None, 50, 101}, config \in Configs :
       eval' = [eval EXCEPT !.phase = "bundle", !.composite = Composite(eval.summary, judge, config)]
-----------------------------------------------------------------------------
(* createEvaluationEvidence *)

\* createEvaluationEvidenceDigest throws unless the bundle is complete.
Seal ==
  /\ eval.phase = "bundle" /\ eval.digest = None
  /\ eval.summary.status = "evaluated" /\ eval.composite.status = "evaluated"
  /\ eval' = [eval EXCEPT !.digest = <<eval.summary, eval.composite>>]

\* What is stored can be changed, before it is sealed or after: one field of the
\* summary (that of the composite is then another one), or of the composite.
Tamper ==
  /\ eval.phase = "bundle" /\ ~eval.tampered /\ eval.summary.status = "evaluated"
  /\ \E both \in BOOLEAN :
       LET Changed(s) == IF both THEN [eval EXCEPT !.tampered = TRUE, !.summary = s, !.composite.summary = s]
                         ELSE [eval EXCEPT !.tampered = TRUE, !.summary = s]
       IN \/ eval' = Changed([eval.summary EXCEPT !.score = 100 - @])
          \/ eval' = Changed([eval.summary EXCEPT !.passed = ~@])
          \/ eval' = Changed([eval.summary EXCEPT !.results = Front(@)])
          \/ eval' = Changed([eval.summary EXCEPT !.results[1].passed = ~@])
          \/ eval' = Changed([eval.summary EXCEPT !.results[1].score = 2 - @])
          \/ eval' = [eval EXCEPT !.tampered = TRUE, !.composite.score = 100]
          \/ eval' = [eval EXCEPT !.tampered = TRUE, !.composite.passed = ~@]
          \/ eval' = [eval EXCEPT !.tampered = TRUE, !.composite.run = "other"]
          \/ eval' = [eval EXCEPT !.tampered = TRUE, !.composite.judge = 50]

VerdictTrusted(c, s) == TRUE

\* validComposite
VerdictFollows(c, s) ==
  LET score == CompositeScore(s, c.judge, c.config)
  IN c.score = score /\ c.passed = Passes(score, s, c.config)

ValidBundle(observed) ==
  /\ observed \in {None, "run"} /\ eval.composite.run = "run"
  /\ ValidSummary(eval.summary) /\ eval.composite.summary = eval.summary
  /\ ValidConfig(eval.composite.config) /\ VerdictFollows(eval.composite, eval.summary)

\* "complete" stands for the evaluator's names, the fingerprint of the workspace
\* and artifacts that were verified; the evidence is collecting without them.
CreateEvaluationEvidence ==
  /\ eval.phase = "bundle"
  /\ \E observed \in {None, "run", "other"}, complete \in BOOLEAN :
       LET statuses == {eval.summary.status, eval.composite.status}
           evaluation ==
             IF "invalid" \in statuses THEN "invalid"
             ELSE IF statuses # {"evaluated"} THEN "not_evaluated"
             ELSE IF ~ValidBundle(observed) THEN "invalid"
             ELSE IF ~complete \/ observed = None \/ eval.digest = None THEN "not_evaluated"
             ELSE IF eval.digest # <<eval.summary, eval.composite>> THEN "invalid"
             ELSE "evaluated"
       IN eval' = [eval EXCEPT !.phase = "evidence", !.evaluation = evaluation]
-----------------------------------------------------------------------------
(* LLMJudgeEngine.parseJudgeResponse and normalizeJudgeScore, on a scale of    *)
(* 1 to 5.  A rubric takes the first item that bears its name or its category, *)
(* 3 if there is none; a score above the scale is taken for a percentage.      *)

NormalizeJudgeScore(raw) ==
  IF raw > 5 /\ raw <= 100 THEN raw
  ELSE Percent(Min({4, Max({0, raw - 1})}), 4)

Rubrics == <<[name |-> "n1", category |-> "c"], [name |-> "n2", category |-> "c"]>>

Items == [name : {"n1", "n2", "x"}, category : {"c", "x"}, score : RawScores]

RawScoreOf(items, rubric) ==
  LET matching == {i \in DOMAIN items : items[i].name = rubric.name \/ items[i].category = rubric.category}
  IN IF matching = {} THEN 3 ELSE items[Min(matching)].score

OverallScore(items) ==
  Percent(SumFunction([i \in DOMAIN Rubrics |-> NormalizeJudgeScore(RawScoreOf(items, Rubrics[i]))]),
          100 * Len(Rubrics))

\* The provider's answer, with what could be read in it, if anything.
ParseJudgeResponse ==
  /\ eval.phase = "judge"
  /\ \E items \in SeqOf(Items, 2) :
       eval' = [eval EXCEPT !.phase = "judged", !.judged = OverallScore(items)]
-----------------------------------------------------------------------------
EvaluationInit ==
  \E checks \in SeqOf(Checks, MaxChecks), phase \in {"checks", "judge"} :
    /\ phase = "judge" => checks = <<>>
    /\ eval = [phase |-> phase, checks |-> checks, results |-> <<>>, proc |-> "none",
               summary |-> None, composite |-> None, digest |-> None, tampered |-> FALSE,
               evaluation |-> None, judged |-> 0]

EvaluationNext ==
  \/ ExecuteCheck \/ CommandTimesOut \/ CommandEnds \/ ExecuteChecks \/ EvaluateComposite
  \/ Seal \/ Tamper \/ CreateEvaluationEvidence \/ ParseJudgeResponse
-----------------------------------------------------------------------------
(* Properties *)

\* An evaluation counts only if it says what the checks that were run said: all
\* of them are there, none that ran out of time has passed, and the verdict is
\* the one the composite of those results gives (createEvaluationEvidence,
\* validateEvaluatedDeterministicSummary, validComposite).
EvidenceIsEarned ==
  /\ eval.evaluation = "evaluated" =>
       LET c == eval.composite
           truth == Composite(Summary("evaluated", eval.results), c.judge, c.config)
       IN /\ eval.summary = Summary("evaluated", eval.results)
          /\ c.score = truth.score /\ c.passed = truth.passed
          /\ c.passed /\ c.config.all => \A i \in DOMAIN eval.results : eval.results[i].passed
  /\ \A i \in DOMAIN eval.results : eval.results[i].passed => eval.results[i].timely

\* Whatever a judge answers, its overall score is a percentage
\* (parseJudgeResponse, normalizeJudgeScore).
JudgedIsPercentage == eval.judged \in 0..100
=============================================================================
