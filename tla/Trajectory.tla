------------------------------ MODULE Trajectory ------------------------------
(* analytics/: the anomalies of a finished trajectory, found by one scan for   *)
(* each kind, and the classification of its failure.  A step has the call it   *)
(* made (None: it made none), how it went, the files it edited, the budgets of *)
(* latency it overran, and what its text gives away.  Tokens are not counted.  *)
EXTENDS NoValue, Integers, Sequences, SequencesExt, FiniteSets, FiniteSetsExt

CONSTANTS StepKinds,     \* records [call, error, edits, overran, drifts, sign]
          KnownCalls, Reads, \* the calls that are configured, that only read
          MaxSteps,      \* bound: steps of a trajectory
          MaxIdentical, MaxCycles, EditLimit, Gap

\* Two calls make a repetition; the detector's thresholds are constants.
ASSUME TrajectoryAssumption ==
  /\ MaxIdentical \in Nat \ {0, 1} /\ MaxCycles \in Nat \ {0}
  /\ EditLimit \in Nat /\ Gap \in Nat

VARIABLE trail

Steps == trail.steps
Indices == DOMAIN Steps
-----------------------------------------------------------------------------
(* TrajectoryAnomalyDetector: the scans.  Each finds <<first step, step>>.     *)

\* scanInfiniteLoops: a run of equal calls, reported at each step it goes on.
\* Steps that call nothing are equal calls too.
LookForLoop(s, i) ==
  LET same == i > 1 /\ Steps[i].call = Steps[i - 1].call
      first == IF same THEN s.first ELSE i
  IN [first |-> first,
      found |-> IF same /\ i - first + 1 >= MaxIdentical THEN s.found \cup {<<first, i>>} ELSE s.found]

Loops[i \in 0..Len(Steps)] ==
  IF i = 0 THEN [first |-> 0, found |-> {}] ELSE LookForLoop(Loops[i - 1], i)

ScanInfiniteLoops == Loops[Len(Steps)].found

Errs(step) == step.error \in {"fatal", "exit"}

CountErrors(s, i, count) ==
  [count |-> count,
   found |-> IF count >= MaxCycles THEN s.found \cup {<<i - count + 1, i>>} ELSE s.found]

\* A variant: the recovery in between is not looked at.
LookForErrorAnyhow(s, i) == CountErrors(s, i, IF Errs(Steps[i]) THEN s.count + 1 ELSE s.count)

LookForError(s, i) == CountErrors(s, i, IF Errs(Steps[i]) THEN s.count + 1 ELSE 0)

Cycles[i \in 0..Len(Steps)] ==
  IF i = 0 THEN [count |-> 0, found |-> {}] ELSE LookForError(Cycles[i - 1], i)

\* scanErrorCycles
ScanErrorCycles == Cycles[Len(Steps)].found

\* scanContextForgetting: the same query after more than Gap steps; a repetition
\* that is reported does not become the one to compare with.
LookForQuery(s, i) ==
  LET call == Steps[i].call
  IN IF call \notin Reads THEN s
     ELSE IF s.at[call] # 0 /\ i - s.at[call] > Gap
       THEN [s EXCEPT !.found = @ \cup {<<s.at[call], i>>}]
     ELSE [s EXCEPT !.at[call] = i]

Queries[i \in 0..Len(Steps)] ==
  IF i = 0 THEN [at |-> [c \in Reads |-> 0], found |-> {}] ELSE LookForQuery(Queries[i - 1], i)

ScanContextForgetting == Queries[Len(Steps)].found

EditsOf(file) == {i \in Indices : file \in Steps[i].edits}

\* scanOscillatingEdits
ScanOscillatingEdits ==
  {<<Min(EditsOf(f)), Max(EditsOf(f))>> :
     f \in {g \in UNION {Steps[i].edits : i \in Indices} : Cardinality(EditsOf(g)) >= EditLimit}}

At(Test(_)) == {<<i, i>> : i \in {j \in Indices : Test(Steps[j])}}

\* scanToolHallucinations, scanFormatDrift, scanStallsAndDeadlocks
ScanToolHallucinations == At(LAMBDA s : s.call # None /\ (s.call \notin KnownCalls \/ s.sign = "no tool"))
ScanFormatDrift == At(LAMBDA s : s.drifts)
ScanStalls == At(LAMBDA s : s.overran > 0)

Anomaly(type, severity, found) ==
  {[type |-> type, severity |-> severity, from |-> x[1], at |-> x[2]] : x \in found}

Length(x) == x[2] - x[1] + 1

DetectAnomalies ==
  LET loops == ScanInfiniteLoops
      cycles == ScanErrorCycles
      stalls == ScanStalls
      Hard(found, limit) == {x \in found : Length(x) >= limit}
      Graded(type, found, hard, soft) ==
        Anomaly(type, "critical", hard) \cup Anomaly(type, soft, found \ hard)
  IN UNION {Graded("infinite_retry_loop", loops, Hard(loops, MaxIdentical + 2), "high"),
            Graded("unhandled_error_cycle", cycles, Hard(cycles, 2 * MaxCycles), "high"),
            Graded("stalled_execution", stalls, {x \in stalls : Steps[x[1]].overran > 1}, "medium"),
            Anomaly("tool_hallucination", "high", ScanToolHallucinations),
            Anomaly("format_drift", "medium", ScanFormatDrift),
            Anomaly("oscillating_edits", "high", ScanOscillatingEdits),
            Anomaly("context_forgetting", "low", ScanContextForgetting)}
-----------------------------------------------------------------------------
(* calculateTrajectoryTelemetry and FailureModeClassifier *)

ErrorCount == Cardinality({i \in Indices : Errs(Steps[i]) \/ Steps[i].error = "soft"})

Calls == {i \in Indices : Steps[i].call # None}

Duplicates == {i \in Calls : \E j \in Calls : j < i /\ Steps[j].call = Steps[i].call}

\* identifyCandidateCauses: in percent of confidence, the first of each kind of
\* anomaly and every step whose error text tells.
Causes(anomalies) ==
  LET Of(types, category, confidence) ==
        {[category |-> category, confidence |-> confidence, step |-> a.from] :
           a \in {x \in anomalies : x.type \in types /\
                    \A y \in anomalies : y.type \in types => x.at <= y.at}}
      Told(sign, category, confidence) ==
        {[category |-> category, confidence |-> confidence, step |-> i] :
           i \in {j \in Indices : Steps[j].sign = sign}}
      invalid == {Steps[a.at].call : a \in {x \in anomalies : x.type = "tool_hallucination"}}
      Unknown == \E i \in Indices :
        /\ Steps[i].call \in invalid \ KnownCalls
        /\ \A j \in 1..(i - 1) : Steps[j].call \in KnownCalls \cup {None} /\ Steps[j].sign # "no tool"
  IN UNION {Of({"infinite_retry_loop"}, "model_capability", 95),
            Of({"tool_hallucination"}, "model_capability", IF Unknown THEN 99 ELSE 85),
            Of({"stalled_execution"}, "deadlock_or_stall", 90),
            Of({"format_drift"}, "protocol_violation", 80),
            Told("environment", "environment_error", 92),
            Told("model", "model_capability", 85)}

Penalty(a) ==
  CASE a.severity = "critical" -> 25 [] a.severity = "high" -> 15
    [] a.severity = "medium" -> 8 [] a.severity = "low" -> 4

\* computeHealthScore
HealthScore(outcome, anomalies) ==
  LET retry == IF Calls = {} THEN 0
               ELSE (40 * Cardinality(Duplicates) + Cardinality(Calls)) \div (2 * Cardinality(Calls))
      score == (IF outcome = "success" THEN 100 ELSE 50)
                 - SumFunction([a \in anomalies |-> Penalty(a)]) - 3 * ErrorCount - retry
  IN Max({0, Min({100, score})})

\* classifyFailure: a success has no cause; causes are ranked by confidence.
Classified(outcome, anomalies) ==
  LET causes == Causes(anomalies)
      Top == {c \in causes : \A d \in causes : d.confidence <= c.confidence}
  IN IF outcome = "success" THEN "none"
     ELSE IF causes = {} THEN "unknown_failure"
     ELSE (CHOOSE c \in Top : \A d \in Top : c.step <= d.step).category
-----------------------------------------------------------------------------
TrajectoryInit ==
  trail = [steps |-> <<>>, anomalies |-> {}, outcome |-> None, cause |-> "none", health |-> 0]

RecordStep ==
  /\ trail.outcome = None /\ Len(trail.steps) < MaxSteps
  /\ \E step \in StepKinds : trail' = [trail EXCEPT !.steps = Append(@, step)]

GenerateDiagnosticSummary ==
  /\ trail.outcome = None
  /\ \E outcome \in {"success", "failure"} :
       LET anomalies == DetectAnomalies
       IN trail' = [trail EXCEPT !.outcome = outcome, !.anomalies = anomalies,
                      !.cause = Classified(outcome, anomalies),
                      !.health = HealthScore(outcome, anomalies)]

TrajectoryNext == RecordStep \/ GenerateDiagnosticSummary
-----------------------------------------------------------------------------
(* Properties *)

Found(type) == {<<a.from, a.at>> : a \in {x \in trail.anomalies : x.type = type}}

\* The scans, each one pass over the steps, report what they are meant to: all
\* stretches of equal calls and of errors that are long enough, from where they
\* begin, and no others; forgotten queries are equal and far apart
\* (scanInfiniteLoops, scanErrorCycles, scanContextForgetting).
ScansMeetDefinition ==
  trail.outcome # None =>
    LET Stretches(Holds(_, _), length) ==
          {x \in Indices \X Indices :
             /\ x[2] - x[1] + 1 >= length
             /\ \A i \in x[1]..x[2] : Holds(x[1], i)
             /\ x[1] = 1 \/ ~Holds(x[1] - 1, x[1]) \/ ~Holds(x[1], x[1] - 1)}
    IN /\ Found("infinite_retry_loop") =
            Stretches(LAMBDA i, j : Steps[i].call = Steps[j].call, MaxIdentical)
       /\ Found("unhandled_error_cycle") = Stretches(LAMBDA i, j : Errs(Steps[j]), MaxCycles)
       /\ \A x \in Found("context_forgetting") :
            x[2] - x[1] > Gap /\ Steps[x[1]].call = Steps[x[2]].call

\* A success is given no cause and a failure always one; only a flawless success
\* has full health, and a failure never more than half (classifyFailure,
\* computeHealthScore).
DiagnosisFits ==
  trail.outcome # None =>
    /\ (trail.cause = "none") = (trail.outcome = "success")
    /\ trail.health \in 0..(IF trail.outcome = "success" THEN 100 ELSE 50)
    /\ trail.health = 100 => trail.anomalies = {} /\ ErrorCount = 0 /\ trail.outcome = "success"
=============================================================================
