SPECIFICATION Spec
CHECK_DEADLOCK FALSE
CONSTANTS
  None = None
  Off = Off
  Files = {p, q}
  CacheFile = c
  Texts = {x, y}
  MaxEdits = 2
  Commands = {d, e}
  MaxModels = 5
  MaxScenarios = 2
  Attempts = {"done", "failed", "unrecorded", "invalid", "errors", "eligible"}
  Cells = 3
  Workers = {v, w}
  MaxMessages = 6
  MaxCalls = 3
  MaxTokens = 5
  Entries <- Catalogs
  Limit = 4
  Burst = 1
  ResetInterval = 3
  MinRate = 1
  MaxRate = 3
  MaxSlots = 2
  WindowSize = 2
  Cooldown = 2
  FailLimit = 2
  ScaleUpAfter = 2
  MaxEstimate = 2
  MaxTime = 4
  Ranks = {1, 2}
  Faults = {1, 2}
  Schedules <- SomeSchedules
  MaxConcurrent = 2
  MaxTriggers = 2
  MaxChecks = 2
  Weights = {0, 1, 2}
  Configs <- SomeConfigs
  RawScores <- OnAndOffTheScale
  Topics = {t, u}
  Required = {t}
  Bonus = 15
  ScriptedTurns = 1
  MaxTurns = 2
  TurnBound = 3
  Versions = {a, b, bad, nil}
  Refused = {bad}
  NoManifest = nil
  Clients = {m, n}
  MaxFetchRetries = 1
  Categories = {r, s}
  Faulty = 2
  Keys = {k, l}
  Words = {i, j}
  Critical = {i}
  MaxLines = 4
  MaxRuleLimit = 3
  Scenarios = {"s1", "s2"}
  Skills = {"k1"}
  ProviderOfModel <- SomeModels
  Strange = "odd"
  PlanProcs = {m, n}
  Fingerprints = {p, q}
  PlannedCells = {x, y}
  Durations = {0, 1}
  MaxDeaths = 2
  MaxReported = 3
  Models <- ThinkingModels
  Callers = {"anthropic", "google", "custom"}
  Budgets = {0, 500, 9000, 70000}
  Headroom = 4096
  Floor = 1024
  TokenCounts = {0, 1, 2, 3}

  
  
  
  
PROPERTIES
  NoStepBack
