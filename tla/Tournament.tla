------------------------------ MODULE Tournament ------------------------------
(* runner/tournament-planner.ts, tournament-scheduler.ts and arena-runner.ts:  *)
(* the schedule of a tournament, its validation, and the battles that are run  *)
(* over it.  Models and scenarios are numbered; providers and the skill are    *)
(* the same throughout.  The sweep of a battle is seen by its summary only.    *)
EXTENDS NoValue, Integers, FiniteSets, FiniteSetsExt

CONSTANTS MaxModels, MaxScenarios,
          Attempts   \* what became of a candidate's cell

VARIABLE contest

ASSUME TournamentAssumption == 
  MaxModels \in Nat /\ MaxScenarios \in Nat /\ None # "simulated"

Pairing(round, match, scenario, a, b) ==
  [roundNumber |-> round, matchIndex |-> match, scenario |-> scenario, a |-> a, b |-> b]

Bye(round, model) == [roundNumber |-> round, model |-> model]

\* The powers of two, by doubling.
Doubled(n) ==
  LET power[k \in 0..n] == IF k = 0 THEN 1 ELSE 2 * power[k - 1] IN power

CeilLog2(n) == Min({k \in 0..n : Doubled(n)[k] >= n})

MaximumTournamentRounds(mode, n) ==
  IF mode = "round-robin" THEN n - 1 + (n % 2) ELSE CeilLog2(n) + 1
-----------------------------------------------------------------------------
(* createTournamentPlan *)

\* A variant: all seats move.
RotatedWhole(n, round, i) == 1 + ((i - 1 - (round - 1)) % n)

\* The circle method: the first seat stays, the others move on by one a round.
Rotated(n, round, i) ==
  IF i = 1 THEN 1 ELSE 2 + ((i - 2 - (round - 1)) % (n - 1))

\* Seat n + 1 of an odd field is the bye.
RoundRobinSchedule(n, scenarios, rounds) ==
  LET seats == n + (n % 2)
      Left(r, m) == Rotated(seats, r, m + 1)
      Right(r, m) == Rotated(seats, r, seats - m)
      Scenario(r) == 1 + ((r - 1) % scenarios)
      meetings == (1..rounds) \X (0..(seats \div 2 - 1))
  IN [pairings |-> {Pairing(x[1], x[2], Scenario(x[1]), Left(x[1], x[2]), Right(x[1], x[2])) :
                      x \in {y \in meetings : Left(y[1], y[2]) <= n /\ Right(y[1], y[2]) <= n}},
      byes |-> {Bye(x[1], Min({Left(x[1], x[2]), Right(x[1], x[2])})) :
                      x \in {y \in meetings : n < Max({Left(y[1], y[2]), Right(y[1], y[2])})}},
      unplanned |-> {}]

\* Only the opening round can be planned; the last of an odd field sits out.
SwissOpeningSchedule(n, rounds) ==
  [pairings  |-> {Pairing(1, m, 1, 2 * m + 1, 2 * m + 2) : m \in 0..(n \div 2 - 1)},
   byes      |-> IF n % 2 = 0 THEN {} ELSE {Bye(1, n)},
   unplanned |-> 2..rounds]

Before(p, q) ==
  p.roundNumber < q.roundNumber \/ (p.roundNumber = q.roundNumber /\ p.matchIndex < q.matchIndex)

\* slice(0, maxMatches), in the order the rounds were planned.
Limited(pairings, maxMatches) ==
  IF maxMatches = None THEN pairings
  ELSE {p \in pairings : Cardinality({q \in pairings : Before(q, p)}) < maxMatches}

CreateTournamentPlan(input) ==
  LET schedule == IF input.mode = "round-robin"
                    THEN RoundRobinSchedule(input.models, input.scenarios, input.rounds)
                    ELSE SwissOpeningSchedule(input.models, input.rounds)
  IN [mode |-> input.mode, models |-> input.models, scenarios |-> input.scenarios,
      rounds |-> input.rounds, pairings |-> Limited(schedule.pairings, input.maxMatches),
      byes |-> schedule.byes, unplanned |-> schedule.unplanned]

Players(plan, round) ==
  {<<p.matchIndex, p.a>> : p \in {q \in plan.pairings : q.roundNumber = round}}
    \cup {<<p.matchIndex, p.b>> : p \in {q \in plan.pairings : q.roundNumber = round}}

Seated(plan, round) == {x[2] : x \in Players(plan, round)}

Sitting(plan, round) == {b.model : b \in {x \in plan.byes : x.roundNumber = round}}
-----------------------------------------------------------------------------
(* normalizeTournamentPlan, with normalizePairing, normalizeBye and            *)
(* validatePlanSchedule: what a plan, whoever made it, must satisfy.           *)

SoundPairing(plan, p) ==
  /\ p.roundNumber \in 1..plan.rounds /\ p.matchIndex >= 0
  /\ p.scenario \in 1..plan.scenarios
  /\ p.a \in 1..plan.models /\ p.b \in 1..plan.models /\ p.a # p.b

ExpectedByes(plan) ==
  IF plan.mode = "swiss" THEN plan.models % 2
  ELSE IF plan.models % 2 = 0 THEN 0 ELSE plan.rounds

SoundSchedule(plan) ==
  /\ \A p \in plan.pairings :
        p.roundNumber \notin plan.unplanned /\ p.matchIndex < (plan.models + 1) \div 2
  /\ \A p, q \in plan.pairings : p # q =>
        /\ {p.a, p.b} # {q.a, q.b}
        /\ p.roundNumber = q.roundNumber =>
             p.matchIndex # q.matchIndex /\ {p.a, p.b} \cap {q.a, q.b} = {}
  /\ \A x, y \in plan.byes : x # y => x.roundNumber # y.roundNumber
  /\ \A x \in plan.byes :
        x.roundNumber \notin plan.unplanned /\ x.model \notin Seated(plan, x.roundNumber)

NormalizeTournamentPlan(plan) ==
  /\ plan.models >= 2 /\ plan.scenarios >= 1 /\ plan.pairings # {}
  /\ plan.rounds \in 1..MaximumTournamentRounds(plan.mode, plan.models)
  /\ \A p \in plan.pairings : SoundPairing(plan, p)
  /\ \A x \in plan.byes : x.roundNumber \in 1..plan.rounds /\ x.model \in 1..plan.models
  /\ plan.unplanned = IF plan.mode = "swiss" THEN 2..plan.rounds ELSE {}
  /\ Cardinality(plan.byes) = ExpectedByes(plan)
  /\ SoundSchedule(plan)
-----------------------------------------------------------------------------
(* ArenaRunner.  A result names the candidate it is for ("x": neither) and how *)
(* its cell and record ended.                                                  *)

Results == [model : {"a", "b", "x"}, attempt : Attempts]

\* A sweep plans a cell for each model; what it reports may be less or worse.
Summaries ==
  [complete : BOOLEAN, distinctRuns : BOOLEAN, results : UNION {kSubset(k, Results) : k \in 0..2}]

CandidatesMatchPairing(summary) ==
  /\ Cardinality(summary.results) = 2 /\ summary.distinctRuns
  /\ {r.model : r \in summary.results} = {"a", "b"}

\* normalizeArenaDiagnostic takes a diagnostic of any kind only if its candidates
\* are distinct runs of distinct models; otherwise the tournament throws.
SoundCandidates(summary) ==
  /\ summary.distinctRuns \/ Cardinality(summary.results) < 2
  /\ \A r, q \in summary.results : r # q => r.model # q.model

\* summarySupportsSimulation and the conditions after it, in their order.
Judged(summary) ==
  LET Some(kinds) == \E r \in summary.results : r.attempt \in kinds
  IN IF \E r \in summary.results : r.model = "x" THEN "candidate_identity_mismatch"
     ELSE IF Some({"eligible"}) THEN "throws"
     ELSE IF ~CandidatesMatchPairing(summary)
       THEN IF SoundCandidates(summary) THEN "candidate_identity_mismatch" ELSE "throws"
     ELSE IF ~summary.complete \/ Some({"failed"}) THEN "candidate_failed"
     ELSE IF Some({"unrecorded"}) THEN "candidate_incomplete"
     ELSE IF Some({"invalid"}) THEN "candidate_evidence_invalid"
     ELSE IF Some({"errors"}) THEN "candidate_failed"
     ELSE "simulated_candidates"

\* What runBattle can make of a sweep; "throws" is no diagnostic.
Verdicts == {Judged(summary) : summary \in Summaries}
-----------------------------------------------------------------------------
(* TournamentScheduler *)

TournamentInit ==
  \E mode \in {"round-robin", "swiss"}, n \in 2..MaxModels, scenarios \in 1..MaxScenarios,
     dry, live, hasConfig \in BOOLEAN :
    \E rounds \in 1..MaximumTournamentRounds(mode, n), maxMatches \in {None} \cup 1..3 :
      contest = [input |-> [mode |-> mode, models |-> n, scenarios |-> scenarios,
                            rounds |-> rounds, maxMatches |-> maxMatches],
                 config |-> [dry |-> dry, live |-> live, hasConfig |-> hasConfig],
                 phase |-> "input", plan |-> None, fought |-> 0, reasons |-> {}, result |-> None]

PlanTournament ==
  /\ contest.phase = "input"
  /\ contest' = [contest EXCEPT !.phase = "planned", !.plan = CreateTournamentPlan(contest.input)]

\* The plan is the caller's to change before it is run.
AlterPlan ==
  /\ contest.phase = "planned"
  /\ \E p \in contest.plan.pairings, model \in 1..contest.plan.models,
        round \in 1..contest.plan.rounds :
       contest' = [contest EXCEPT !.phase = "altered",
         !.plan.pairings = (@ \ {p}) \cup {[p EXCEPT !.b = model, !.roundNumber = round]}]

Ended(status) == [contest EXCEPT !.phase = "ended", !.result = status]

RunTournament ==
  /\ contest.phase \in {"planned", "altered"}
  /\ contest' =
       IF ~NormalizeTournamentPlan(contest.plan) THEN Ended("throws")
       ELSE IF contest.config.dry THEN Ended("planned")
       ELSE IF contest.config.live THEN Ended("not_evaluated")
       ELSE IF ~contest.config.hasConfig THEN Ended("failed")
       ELSE [contest EXCEPT !.phase = "running"]

Unfought == Cardinality(contest.plan.pairings) - contest.fought

\* The battles of a plan, one after the other; one that throws ends them all.
RunBattle ==
  /\ contest.phase = "running" /\ Unfought > 0
  /\ \E reason \in Verdicts :
       contest' = IF reason = "throws" THEN Ended("throws")
                  ELSE [contest EXCEPT !.fought = @ + 1, !.reasons = @ \cup {reason}]

CreateTournamentDiagnostic ==
  /\ contest.phase = "running" /\ Unfought = 0
  /\ contest' = Ended(IF contest.reasons \subseteq {"simulated_candidates"}
                        THEN "simulated" ELSE "failed")

TournamentNext ==
  \/ PlanTournament \/ AlterPlan \/ RunTournament \/ RunBattle \/ CreateTournamentDiagnostic
-----------------------------------------------------------------------------
(* Properties *)

\* Every plan that is made is accepted, no two models meet twice, nobody plays
\* twice in a round, and a full round robin lets every pair meet and nobody sit
\* out who could play (createRoundRobinSchedule, createSwissOpeningSchedule).
PlanIsSchedule ==
  contest.phase = "planned" =>
    LET plan == contest.plan
        whole == contest.input.maxMatches = None /\ plan.mode = "round-robin"
    IN /\ NormalizeTournamentPlan(plan)
       /\ whole => \A r \in 1..plan.rounds :
             Seated(plan, r) \cup Sitting(plan, r) = 1..plan.models
       /\ whole /\ plan.rounds = MaximumTournamentRounds(plan.mode, plan.models) =>
             {{p.a, p.b} : p \in plan.pairings} = kSubset(2, 1..plan.models)

\* A tournament is reported as simulated only if every pairing of a sound plan
\* was fought and won its evidence; none is in a dry or live tournament
\* (runTournament, runBattle).
SimulatedIsEarned ==
  /\ contest.result = "simulated" =>
       /\ NormalizeTournamentPlan(contest.plan)
       /\ contest.fought = Cardinality(contest.plan.pairings)
       /\ contest.reasons = {"simulated_candidates"}
  /\ contest.fought > 0 => ~contest.config.dry /\ ~contest.config.live
=============================================================================
