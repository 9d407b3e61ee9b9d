-------------------------------- MODULE Study --------------------------------
(* What makes up a study: the sandbox and the workspace a run is made in, the  *)
(* skills it is given, the plan of a sweep, the matrices and tournaments of    *)
(* runs and the faults injected into them, the budget they are held to and the *)
(* terms of their requests, and the verdict on their outcome.  They share no   *)
(* state; a behaviour is one of them at work, the others being off.            *)
EXTENDS Workspace, Sandbox, Tournament, Harness, Optimizer, Chaos, Evaluation, Interview,
        SkillStore, SkillText, SweepPlan, ProviderTerms

CONSTANT Off

vars == <<ws, box, contest, harness, budget, chaos, eval, dialog, store, text, plan, terms>>

Init ==
  \/ /\ WorkspaceInit
     /\ box = Off /\ contest = Off /\ harness = Off /\ budget = Off /\ chaos = Off
     /\ eval = Off /\ dialog = Off /\ store = Off /\ text = Off /\ plan = Off
     /\ terms = Off
  \/ /\ SandboxInit
     /\ ws = Off /\ contest = Off /\ harness = Off /\ budget = Off /\ chaos = Off
     /\ eval = Off /\ dialog = Off /\ store = Off /\ text = Off /\ plan = Off
     /\ terms = Off
  \/ /\ TournamentInit
     /\ ws = Off /\ box = Off /\ harness = Off /\ budget = Off /\ chaos = Off
     /\ eval = Off /\ dialog = Off /\ store = Off /\ text = Off /\ plan = Off
     /\ terms = Off
  \/ /\ HarnessInit
     /\ ws = Off /\ box = Off /\ contest = Off /\ budget = Off /\ chaos = Off
     /\ eval = Off /\ dialog = Off /\ store = Off /\ text = Off /\ plan = Off
     /\ terms = Off
  \/ /\ OptimizerInit
     /\ ws = Off /\ box = Off /\ contest = Off /\ harness = Off /\ chaos = Off
     /\ eval = Off /\ dialog = Off /\ store = Off /\ text = Off /\ plan = Off
     /\ terms = Off
  \/ /\ ChaosInit
     /\ ws = Off /\ box = Off /\ contest = Off /\ harness = Off /\ budget = Off
     /\ eval = Off /\ dialog = Off /\ store = Off /\ text = Off /\ plan = Off
     /\ terms = Off
  \/ /\ EvaluationInit
     /\ ws = Off /\ box = Off /\ contest = Off /\ harness = Off /\ budget = Off
     /\ chaos = Off /\ dialog = Off /\ store = Off /\ text = Off /\ plan = Off
     /\ terms = Off
  \/ /\ InterviewInit
     /\ ws = Off /\ box = Off /\ contest = Off /\ harness = Off /\ budget = Off
     /\ chaos = Off /\ eval = Off /\ store = Off /\ text = Off /\ plan = Off
     /\ terms = Off
  \/ /\ StoreInit
     /\ ws = Off /\ box = Off /\ contest = Off /\ harness = Off /\ budget = Off
     /\ chaos = Off /\ eval = Off /\ dialog = Off /\ text = Off /\ plan = Off
     /\ terms = Off
  \/ /\ TextInit
     /\ ws = Off /\ box = Off /\ contest = Off /\ harness = Off /\ budget = Off
     /\ chaos = Off /\ eval = Off /\ dialog = Off /\ store = Off /\ plan = Off
     /\ terms = Off
  \/ /\ PlanInit
     /\ ws = Off /\ box = Off /\ contest = Off /\ harness = Off /\ budget = Off
     /\ chaos = Off /\ eval = Off /\ dialog = Off /\ store = Off /\ text = Off
     /\ terms = Off
  \/ /\ TermsInit
     /\ ws = Off /\ box = Off /\ contest = Off /\ harness = Off /\ budget = Off
     /\ chaos = Off /\ eval = Off /\ dialog = Off /\ store = Off /\ text = Off
     /\ plan = Off

Next ==
  \/ /\ ws # Off /\ WorkspaceNext
     /\ UNCHANGED <<box, contest, harness, budget, chaos, eval, dialog, store, text,
                   plan, terms>>
  \/ /\ box # Off /\ SandboxNext
     /\ UNCHANGED <<ws, contest, harness, budget, chaos, eval, dialog, store, text, plan,
                   terms>>
  \/ /\ contest # Off /\ TournamentNext
     /\ UNCHANGED <<ws, box, harness, budget, chaos, eval, dialog, store, text, plan,
                   terms>>
  \/ /\ harness # Off /\ HarnessNext
     /\ UNCHANGED <<ws, box, contest, budget, chaos, eval, dialog, store, text, plan,
                   terms>>
  \/ /\ budget # Off /\ OptimizerNext
     /\ UNCHANGED <<ws, box, contest, harness, chaos, eval, dialog, store, text, plan,
                   terms>>
  \/ /\ chaos # Off /\ ChaosNext
     /\ UNCHANGED <<ws, box, contest, harness, budget, eval, dialog, store, text, plan,
                   terms>>
  \/ /\ eval # Off /\ EvaluationNext
     /\ UNCHANGED <<ws, box, contest, harness, budget, chaos, dialog, store, text, plan,
                   terms>>
  \/ /\ dialog # Off /\ InterviewNext
     /\ UNCHANGED <<ws, box, contest, harness, budget, chaos, eval, store, text, plan,
                   terms>>
  \/ /\ store # Off /\ StoreNext
     /\ UNCHANGED <<ws, box, contest, harness, budget, chaos, eval, dialog, text, plan,
                   terms>>
  \/ /\ text # Off /\ TextNext
     /\ UNCHANGED <<ws, box, contest, harness, budget, chaos, eval, dialog, store, plan,
                   terms>>
  \/ /\ plan # Off /\ PlanNext
     /\ UNCHANGED <<ws, box, contest, harness, budget, chaos, eval, dialog, store, text,
                   terms>>
  \/ /\ terms # Off /\ TermsNext
     /\ UNCHANGED <<ws, box, contest, harness, budget, chaos, eval, dialog, store, text,
                   plan>>

Spec == Init /\ [][Next]_vars
-----------------------------------------------------------------------------
(* Properties: those of the parts, each where the part is at work.             *)

\* A run is kept apart from what is around it: what is written stays in its
\* directory; a sandbox that has terminated has left nothing behind; what a
\* rollback leaves is of a late injection, a failed cleanup or a process no pid
\* file names; and the skills it is given are of verified downloads, whole unless
\* installs overlapped or a copy broke off (openAuthorizedRunDirectory,
\* ContainerInstance.teardown, restoreAll, downloadSkill).
IsolationHolds ==
  /\ ws # Off => WritesStayInLayout
  /\ box # Off => TerminatedIsClean /\ GcTellsTruth
  /\ chaos # Off => RollbackIsComplete /\ EffectsAreRecorded
  /\ store # Off => CacheIsVerified /\ RegistryAgrees

\* A tournament is planned as a schedule and its simulation is earned, a matrix
\* is run whole, its histories can be sent and its catalog is what the files say,
\* and a sweep is admitted with the cells of its product, has one plan, and keeps
\* in its checkpoint what it was told, which a resume accepts unless sanitizing
\* changed the descriptor of a cell (createTournamentPlan, ArenaRunner, runMatrix,
\* AgentHarness, generateMatrixCells, bindSweepPlan, CheckpointLedger).
CampaignIsWhole ==
  /\ contest # Off => PlanIsSchedule /\ SimulatedIsEarned
  /\ harness # Off => MatrixIsWhole /\ HistoryIsWhole /\ CatalogIsWhole
  /\ plan # Off => AdmittedIsRunnable /\ OnePlan /\ CheckpointIsSound

\* A budget is overrun by what was admitted beside the last request and by what
\* answers reported beyond their estimates, ceilings stay within their limits, the
\* recommended configuration is not dominated, thinking fits its model, every
\* token is charged, and once where cached tokens count as input and reasoned ones
\* as output, and a verdict says what the checks, the judge and the dialog said
\* (BudgetController.canExecute, optimizeScenario, applyThinkingToGenerateOptions,
\* calculateDetailedCostUSD, createEvaluationEvidence, parseJudgeResponse,
\* processTurn).
ReckoningHolds ==
  /\ budget # Off => OvershootIsBounded /\ CeilingsHold /\ RecommendationIsBest
  /\ terms # Off => ThinkingFits /\ ChargedOnce /\ AdapterIsEntitled
  /\ eval # Off => EvidenceIsEarned /\ JudgedIsPercentage
  /\ dialog # Off => ClarifiedWhenAsked

\* What is computed from the whole of something says all of it and nothing else:
\* a diff for which git answered the changes of its workspace, a frontmatter what
\* its lines since the last bare one say of a key, a manifest its text (parseGitDiff,
\* parseYamlBlock, parseSkillContent).
DerivedIsTrue ==
  /\ ws # Off => DiffTellsChanges
  /\ text # Off => FrontmatterIsBlocks /\ ManifestIsText /\ PromptIsWithinLimit

NoneStepsBack ==
  /\ box # Off => TeardownIsFinal
  /\ budget # Off => BreakerWaits
  /\ dialog # Off => DialogOnlyGains

\* A sandbox never comes back from its teardown, an open breaker admits nobody
\* before its time, and an interview takes no point away (teardown, canExecute,
\* evaluateClarificationTopics).
NoStepBack == [][NoneStepsBack]_vars
=============================================================================
