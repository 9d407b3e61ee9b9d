------------------------------ MODULE Interview ------------------------------
(* dialog/: a simulated stakeholder answers the turns of an agent by a script, *)
(* keeping which topics the agent has clarified and what it has revealed, and  *)
(* the evaluator grades the transcript and the artifacts.  A turn is what its  *)
(* text has in it: topics whose keywords it names, words of the trigger, a     *)
(* question.  A script has at most one trigger, which holds for every turn     *)
(* that is scripted.                                                           *)
EXTENDS NoValue, Integers, Functions, FiniteSets, FiniteSetsExt

CONSTANTS Topics,
          Required,      \* the topics that must be asked for, a subset
          Bonus,         \* bonusIfAskedEarly
          ScriptedTurns, MaxTurns,
          TurnBound      \* bound: turns of the agent, also after the last one

ASSUME InterviewAssumption ==
  Required \subseteq Topics /\ IsFiniteSet(Topics) /\ Bonus \in Nat /\ MaxTurns \in Nat \ {0}

VARIABLE dialog

\* A trigger fires on its words, or on a topic that was revealed before.
Triggers == [reveals : SUBSET Topics, target : {None} \cup Topics]

InterviewInit ==
  \E trigger \in {None} \cup Triggers, pushback \in BOOLEAN :
    dialog = [trigger |-> trigger, pushback |-> pushback, turn |-> 0,
              status |-> [t \in Topics |-> "missed"], asked |-> [t \in Topics |-> 0],
              revealed |-> {}, pushed |-> FALSE, completed |-> FALSE, quality |-> 0,
              score |-> None]
-----------------------------------------------------------------------------
(* StakeholderSimulator.processTurn *)

\* evaluateClarificationTopics: the first turn that names a topic decides.
EarlyAt(turn) == 2 * turn <= MaxTurns + 1

ClarifiedByLast(turn, mentioned) ==
  [t \in Topics |-> IF t \in mentioned
                      THEN IF EarlyAt(turn) THEN "clarified" ELSE "clarified_late"
                    ELSE dialog.status[t]]

Clarified(turn, mentioned) ==
  [t \in Topics |-> IF t \in mentioned /\ dialog.status[t] = "missed"
                      THEN IF EarlyAt(turn) THEN "clarified" ELSE "clarified_late"
                    ELSE dialog.status[t]]

\* findMatchingTrigger
Matches(turn, words) ==
  /\ turn <= ScriptedTurns /\ dialog.trigger # None
  /\ IF dialog.trigger.target = None THEN words ELSE dialog.trigger.target \in dialog.revealed

\* Turns after the last one are answered too; the dialog only says that it is
\* complete.  "quality" adds what a turn is worth to evaluateQuestionQuality.
ProcessTurn ==
  /\ dialog.turn < TurnBound /\ dialog.score = None
  /\ \E mentioned \in SUBSET Topics, words, question \in BOOLEAN :
       LET turn == dialog.turn + 1
           matched == Matches(turn, words)
       IN dialog' = [dialog EXCEPT
            !.turn = turn,
            !.status = Clarified(turn, mentioned),
            !.asked = [t \in Topics |-> IF t \in mentioned /\ @[t] = 0 THEN turn ELSE @[t]],
            !.revealed = @ \cup mentioned \cup (IF matched THEN dialog.trigger.reveals ELSE {}),
            !.pushed = turn <= ScriptedTurns /\ dialog.pushback /\ ~matched /\ ~question /\ mentioned = {},
            !.completed = @ \/ turn >= MaxTurns,
            !.quality = @ + (IF question THEN 70 ELSE 50)]
-----------------------------------------------------------------------------
(* InterviewEvaluator *)

Rounded(n, d) == (2 * n + d) \div (2 * d)

Weight(t) == IF t \in Required THEN 20 ELSE 10

\* evaluateClarificationCoverage, in tenths of a point; what a missed topic was
\* to cost is not charged.
Earned(t) ==
  CASE dialog.status[t] = "missed"         -> 0
    [] dialog.status[t] = "clarified"      -> 10 * (Weight(t) + Bonus)
    [] dialog.status[t] = "clarified_late" -> 7 * Weight(t)

Capped(n) == Min({100, n})

ClarificationScore ==
  IF Topics = {} THEN 100
  ELSE Capped(Rounded(10 * SumFunction([t \in Topics |-> Earned(t)]),
                      SumFunction([t \in Topics |-> Weight(t)])))

CoverageScore ==
  Rounded(100 * Cardinality({t \in Topics : dialog.status[t] # "missed"}), Max({1, Cardinality(Topics)}))

QuestionScore == IF dialog.turn = 0 THEN 0 ELSE Rounded(dialog.quality, dialog.turn)

\* gradeInterviewArtifact: each criterion that is met adds its weight, a
\* required artifact that is missing has no points, and no artifacts are 100.
ArtifactScores == {0, 100} \cup {a + b + c : a \in {0, 25}, b \in {0, 30}, c \in {0, 45}}

\* The domain terms an agent used are seen by their score only.
Overall(domain, artifacts) ==
  Rounded(30 * ClarificationScore + 25 * CoverageScore + 20 * QuestionScore
            + 15 * domain + 10 * artifacts, 100)

\* Whoever holds the interview grades it when it has stopped asking.
EvaluateTranscript ==
  /\ dialog.score = None
  /\ \E domain \in {0, 100}, artifacts \in ArtifactScores :
       /\ domain > 0 => dialog.turn > 0
       /\ dialog' = [dialog EXCEPT !.score = Overall(domain, artifacts)]

InterviewNext == ProcessTurn \/ EvaluateTranscript
-----------------------------------------------------------------------------
(* Properties *)

\* A topic is clarified by the first turn that names it, early or late as that
\* turn was, and never by what the stakeholder tells by itself; what is clarified
\* was revealed, and a grade is a percentage (processTurn, evaluateTranscript).
ClarifiedWhenAsked ==
  /\ \A t \in Topics :
       /\ dialog.status[t] = IF dialog.asked[t] = 0 THEN "missed"
                             ELSE IF EarlyAt(dialog.asked[t]) THEN "clarified" ELSE "clarified_late"
       /\ dialog.status[t] # "missed" => t \in dialog.revealed
  /\ dialog.score \in {None} \cup (0..100)
  /\ dialog.completed = (dialog.turn >= MaxTurns)

\* Nothing an agent says afterwards takes a clarified topic, a revealed one or
\* points for clarification away (evaluateClarificationTopics).
DialogOnlyGains ==
  /\ dialog.revealed \subseteq dialog'.revealed
  /\ ClarificationScore <= ClarificationScore' /\ CoverageScore <= CoverageScore'
=============================================================================
