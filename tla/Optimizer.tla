------------------------------ MODULE Optimizer ------------------------------
(* optimizer/: the budget controller (token budgets, rate ceilings, circuit    *)
(* breaker) between the requests that ask it, and the routing of a scenario by *)
(* the Pareto frontier.  Time is a count of ticks; profile and provider are    *)
(* registered once, before any request.  Money is left out, the token budget   *)
(* stands for it; prompt and completion tokens are one.                        *)
EXTENDS NoValue, Integers, Sequences, SequencesExt, Functions, FiniteSets, FiniteSetsExt

CONSTANTS Limit, Burst,           \* the profile's tokens and burst allowance
          ResetInterval,
          MinRate, MaxRate,       \* a provider's floor and ceiling, requests per window
          MaxSlots,
          WindowSize, Cooldown,
          FailLimit, ScaleUpAfter, \* 5 and 20 in the code
          MaxEstimate,
          MaxReported,            \* bound: the tokens that one answer reports
          MaxTime,                \* bound: ticks
          Ranks                   \* costs, latencies and qualities of candidates

VARIABLE budget

\* Ceilings and limits of a validated profile and provider.
ASSUME OptimizerAssumption ==
  /\ {Limit, Burst, ResetInterval, WindowSize, Cooldown, MaxEstimate, MaxReported, MaxTime} \subseteq Nat
  /\ {MinRate, MaxRate} \subseteq Nat /\ MinRate <= MaxRate
  /\ {MaxSlots, FailLimit, ScaleUpAfter} \subseteq Nat \ {0}
  /\ Ranks \subseteq Int /\ IsFiniteSet(Ranks)

Registered ==
  [on |-> "budget", now |-> 0, used |-> 0, burstUsed |-> 0, lastReset |-> 0,
   rate |-> MaxRate, active |-> 0, breaker |-> "closed", resetAt |-> 0,
   failures |-> 0, successes |-> 0, history |-> <<>>, slots |-> <<>>,
   excess |-> 0]        \* history variable: tokens reported beyond their estimates since then

Candidate == [cost : Ranks, latency : Ranks, quality : Ranks]

OptimizerInit ==
  \/ \E allowBurst \in BOOLEAN : budget = [Registered EXCEPT !.on = <<"budget", allowBurst>>]
  \/ \E n \in 1..3 : \E candidates \in kSubset(n, Candidate) :
       budget = [on |-> <<"route", FALSE>>, candidates |-> candidates, chosen |-> None,
                 frontier |-> {}, chain |-> {}, target |-> None]

Budgeting == budget.on[1] = "budget"

AllowBurst == budget.on[2]

Tick == Budgeting /\ budget.now < MaxTime /\ budget' = [budget EXCEPT !.now = @ + 1]

\* resetProfileIfDue
Reset(b) ==
  IF b.now - b.lastReset >= ResetInterval
    THEN [b EXCEPT !.used = 0, !.burstUsed = 0, !.lastReset = b.now, !.excess = 0] ELSE b

\* pruneRateHistory
PrunedHistory(b) == [b EXCEPT !.history = SelectSeq(@, LAMBDA t : t >= b.now - WindowSize)]

\* The one state change that canExecute makes of its own: an open breaker whose
\* time has come is half open.
HalfOpened(b) ==
  IF b.breaker = "open" /\ b.now >= b.resetAt THEN [b EXCEPT !.breaker = "half_open"] ELSE b

WithinTokens(b, estimate) ==
  \/ b.used + estimate <= Limit
  \/ AllowBurst /\ b.used + estimate - Limit <= Burst - b.burstUsed

\* canExecute, in its order: the budget, the breaker, concurrency, the rate.
Admits(b, estimate) ==
  /\ WithinTokens(b, estimate)
  /\ b.breaker # "open" /\ b.active < MaxSlots /\ Len(b.history) < b.rate

\* A budget that is used up is refused before the bucket is looked at.
Asked(b, estimate) ==
  IF WithinTokens(Reset(b), estimate) THEN HalfOpened(PrunedHistory(Reset(b))) ELSE Reset(b)

\* canExecute and, when it allows, acquireSlot in the same turn.
Request(estimate) ==
  /\ Budgeting
  /\ LET b == Asked(budget, estimate)
     IN budget' = IF Admits(b, estimate)
                    THEN [b EXCEPT !.active = @ + 1, !.slots = Append(@, estimate)] ELSE b

ScaledUpFreely(b) == [b EXCEPT !.rate = 2 * @, !.successes = 0]

\* scaleUpCeiling by a factor of two, scaleDownCeiling to the half.
ScaledUp(b) ==
  IF b.rate >= MaxRate THEN b
  ELSE [b EXCEPT !.rate = Min({MaxRate, 2 * @}), !.successes = 0]

ScaledDown(b) == [b EXCEPT !.rate = Max({MinRate, @ \div 2}), !.successes = 0]

Failed(b) ==
  LET c == [b EXCEPT !.failures = Min({FailLimit, @ + 1}), !.successes = 0]
  IN IF c.failures >= FailLimit
       THEN [c EXCEPT !.breaker = "open", !.resetAt = c.now + Cooldown] ELSE c

\* A success closes a half open breaker, never an open one; the streak of
\* failures ends all the same.
Succeeded(b) ==
  LET c == [b EXCEPT !.successes = Min({ScaleUpAfter, @ + 1}), !.failures = 0,
                     !.breaker = IF @ = "half_open" THEN "closed" ELSE @]
  IN IF c.successes >= ScaleUpAfter THEN ScaledUp(c) ELSE c

Beyond(estimate, tokens) == IF tokens > estimate THEN tokens - estimate ELSE 0

Spent(b, tokens, estimate) ==
  LET r == Reset(b)
      total == r.used + tokens
  IN [r EXCEPT !.used = total, !.excess = @ + Beyond(estimate, tokens),
               !.burstUsed = IF total > Limit THEN Min({Burst, total - Limit}) ELSE @]

\* releaseSlot, in any order; it charges what is reported, whatever the request
\* was admitted for.
ReleaseSlot(i, tokens, isError) ==
  /\ Budgeting /\ i \in DOMAIN budget.slots
  /\ LET b == [budget EXCEPT !.active = Max({0, @ - 1}), !.slots = RemoveAt(@, i),
                             !.history = Append(@, budget.now)]
     IN budget' = Spent(IF isError THEN Failed(b) ELSE Succeeded(b), tokens, budget.slots[i])

RecordThrottleEvent == Budgeting /\ budget' = ScaledDown(budget)

\* getUsageSnapshot resets, too.
GetUsageSnapshot == Budgeting /\ budget' = Reset(budget)
-----------------------------------------------------------------------------
(* OptimizerEngine.  Throughput goes with latency.                             *)

NotWorse(a, b) == a.cost <= b.cost /\ a.latency <= b.latency /\ a.quality >= b.quality

Dominates(a, b) == NotWorse(a, b) /\ a # b

SatisfiesConstraints(c, constraints) ==
  c.cost <= constraints.cost /\ c.latency <= constraints.latency
    /\ c.quality >= constraints.quality

ComputeParetoFrontier(candidates, constraints) ==
  LET valid == {c \in candidates : SatisfiesConstraints(c, constraints)}
  IN {c \in valid : \A d \in valid : ~Dominates(d, c)}

\* What the targets sort by; "balanced" sorts by ranks that depend on the order
\* candidates were given in, and may put any optimal one first.
Better(a, b, target) ==
  CASE target = "cost" -> a.cost < b.cost
    [] target = "latency" -> a.latency < b.latency
    [] target = "quality" -> a.quality > b.quality
    [] OTHER -> FALSE

OptimizeScenario ==
  /\ ~Budgeting
  /\ \E target \in {"cost", "latency", "quality", "balanced"}, constraints \in Candidate :
       LET frontier == ComputeParetoFrontier(budget.candidates, constraints)
       IN \E primary \in frontier :
            /\ \A c \in frontier : ~Better(c, primary, target)
            /\ budget' = [budget EXCEPT !.frontier = {c \in budget.candidates :
                                                      SatisfiesConstraints(c, constraints)},
                            !.chosen = primary, !.chain = frontier \ {primary}, !.target = target]

OptimizerNext ==
  \/ Tick \/ RecordThrottleEvent \/ GetUsageSnapshot \/ OptimizeScenario
  \/ \E estimate \in 1..MaxEstimate : Request(estimate)
  \/ \E i \in 1..MaxSlots, tokens \in 0..MaxReported, isError \in BOOLEAN :
       ReleaseSlot(i, tokens, isError)
-----------------------------------------------------------------------------
(* Properties *)

\* However admissions, late answers and resets interleave, a budget is overrun
\* by the requests that were admitted beside the last one and by what answers
\* reported beyond the estimates they were admitted with, which the code does not
\* bound, and by nothing else; and never more requests are out than the provider
\* allows (canExecute, acquireSlot, releaseSlot).
OvershootIsBounded ==
  Budgeting =>
    /\ budget.used + SumFunction(budget.slots) <=
         Limit + (IF AllowBurst THEN Burst ELSE 0) + (MaxSlots - 1) * MaxEstimate + budget.excess
    /\ Len(budget.slots) = budget.active /\ budget.active <= MaxSlots

\* The ceiling stays between floor and ceiling of the configuration, and a
\* closed breaker has seen no full streak of failures (scaleUpCeiling,
\* scaleDownCeiling, releaseSlot).
CeilingsHold ==
  Budgeting =>
    /\ budget.rate \in MinRate..MaxRate
    /\ budget.breaker = "closed" => budget.failures < FailLimit
    /\ budget.breaker = "open" => budget.resetAt <= budget.now + Cooldown

\* An open breaker is only left through half open, after its cooldown: an answer
\* that comes late closes nothing (canExecute, releaseSlot).
BreakerWaits ==
  Budgeting /\ budget.breaker = "open" =>
    /\ budget'.breaker # "closed"
    /\ budget'.breaker = "half_open" => budget.now >= budget.resetAt

\* The recommended model is the best of all that satisfy the constraints, not
\* only of the frontier, and no fallback is dominated (computeParetoFrontier,
\* optimizeScenario).
RecommendationIsBest ==
  ~Budgeting /\ budget.chosen # None =>
    \A c \in budget.frontier :
      /\ ~Better(c, budget.chosen, budget.target) /\ ~Dominates(c, budget.chosen)
      /\ \A d \in budget.chain : ~Dominates(c, d)
      /\ \E d \in {budget.chosen} \cup budget.chain : NotWorse(d, c)
=============================================================================
