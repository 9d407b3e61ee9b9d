# A TLA+ model of skill-benchmarks

skill-benchmarks runs matrices of AI-agent benchmark cells (model × skill ×
scenario) in Docker containers, records durable evidence for every cell and
reports on it.  This directory models the parts of `src/src` whose correctness
depends on interleavings, failures, limits and long sequences of calls.  Every
definition is translated from the TypeScript source; `PROJECT.json` maps it to
its lines.

The program is one Node.js process (a second process may contend for the same
output directory).  Code between two `await`s runs without interruption, so **an
action of a model is what one coroutine does between two awaits**, and the
interleavings are those of coroutines, callbacks, timers and external answers.
Docker, the file system, the providers and the terminals are external: they
answer in any way the client code tells apart.

## The system

| Part | State | Operations | Hard behaviour |
|---|---|---|---|
| Sweep engine (`sweep/sweep-engine.ts`, `sweep-worker-pool.ts`, `sweep-finalization.ts`, `sweep-outcome.ts`) | status, pause gate, abort signal, cell queue, in-flight counters, results, tallies | `run`, `pause`, `resume`, `abort`, worker loop, drain, finalize | pause/abort in any order, a worker that throws, a failing checkpoint, limits |
| Sweep planning (`sweep/matrix-cell-planner.ts`, `sweep-plan.ts`, `sweep-config-validation.ts`) | the bound plan, candidates, links | admit, plan cells, bind | two processes bind one identity, deaths between system calls |
| Checkpoint ledger (`sweep/checkpoint*.ts`) | completed / failed / aborted sets, totals, file, backup, write lock | `record*`, `persistState`, load | writers queue behind a lock whose owner may fail; deaths between file operations |
| Cell execution (`sweep/cell-execution.ts`, `terminal-cell-persistence.ts`, `run-evidence.ts`) | claim, attempt, container, workspace, files, row | claim, attempt, retry, release, persist | a failure or a death between two of its writes, resources to give back |
| Sweep lease (`sweep/sweep-lease*.ts`) | hard links in the output root | acquire, recover, release | two processes, deaths between any two system calls |
| Token bucket and transport (`sweep/token-bucket.ts`, `providers/transport`) | tokens, requests, backoff, queue, timer, permits | acquire, finalize, drain timer, retry loop | lost wake-up, starvation, limits, late answers |
| Container pool and instances (`infrastructure/container`) | active, creating and failed-creation maps, wait queue, drain promise; the state of an instance | acquire, release, drain; exec, extract, teardown; collect | capacity, cancellation races, the drain barrier, commands that outlive their client |
| Runner (`runner`) | turns, budget, tool calls, scopes of cancellation, history, catalog | turn loop, tools, prune, matrix runner, tournaments | timeouts racing answers, nested deadlines |
| Workspace and telemetry (`infrastructure/workspace`, `telemetry`) | directories, baseline, event buffer, samples | hydrate, diff, dispose; emit, flush, close; poll | partial failure, order of answers |
| Providers and models (`providers`, `models`) | stream buffer, lease on a response | read a stream, end a turn, price it | chunks cut anywhere, tokens charged once |
| Live views (`tunnel`, `streaming`) | sessions, ring buffers, viewers, frames, channels | push, join, resize, broadcast, heartbeat | viewers joining and failing in the middle of output |
| Replay and analytics (`replay`, `analytics`) | a loaded session, an export, a player; findings | load, cross-check, export, import, step; detect | evidence of different runs, deaths during an export |
| Optimizer, chaos, evaluation, dialog, skills | budgets and breakers; faults; checks and verdicts; topics; caches | admit, charge, reset; inject, roll back; judge; answer; download | late answers, overlapping installs, timers |
| Reporting, server, TUI, CLI, generator, scripts | rows; none | queries, text | none concurrent |

The engine calls cell execution for each claimed cell; cell execution acquires a
container from the pool and a workspace, runs the runner (which asks the token
bucket before a provider turn), persists evidence through `run-evidence` and the
reporting database, and returns a result which the engine writes to the
checkpoint ledger.  The lease covers all of it.  The other parts read what a run
leaves behind, look at it while it goes on, or set it up.

What makes each part correct:

* *Sweep engine*: every planned cell is run once and gets one public result;
  limits hold; nothing starts after an abort; a run ends; checkpoint, database
  and `outcome.json` agree.
* *Planning, ledger and resumed evidence*: one plan per identity; the ledger only
  grows; what a run leaves behind is what the next run accepts; records are final.
* *Cell execution and runner*: whatever step fails, resources are given back, the
  row and the files say the same, the log is the log of the run, money spent is
  money recorded, and a cell ends.
* *Sweep lease*: one run per output root; a dead owner does not block the next.
* *Token bucket and provider turns*: no window of time sees more turns than rate
  and burst allow; permits are neither lost nor doubled; queued callers are served
  in order and woken; a turn ends.
* *Container pool*: the limit holds over everything that owns or may own a
  resource; no slot idles while someone waits; a resource is never forgotten; a
  finished drain is a barrier.
* *Views*: nothing lost, repeated or out of order.  *Replay*: nothing shown that
  the evidence contradicts.  *Verdicts*: earned by what was checked.

## Modules

| Module | Models | Checked by |
|---|---|---|
| `CellLifecycle` | abstract: a cell is queued, held, then has one final result | refined by `SweepEngine` |
| `SweepEngine` | one `run()`: workers, gate, drain, checkpoint lock, finalization | `MCSweepEngine` |
| `SweepEngineProofs` | proofs about `SweepEngine` | |
| `EventScribe` → `AgentRunner` → `CellExecution` | the event log, the agent loop, and the cell that runs it; each extends the one before | `Cell.cfg` |
| `CellExecutionProofs` | proofs about `CellExecution` and the two it extends | |
| `SweepLease` | processes contending for the lease, with crashes | `MCSweepLease` |
| `SlotPool` | abstract: a closable set of at most Limit slots | refined by `ContainerPool` |
| `ContainerPool` | `ContainerPoolManager`, its queue and creation leases | `MCContainerPool` |
| `ContainerPoolProofs` | proofs about `ContainerPool` | |
| `TokenBucket` | `TokenBucketRateLimiter` and the permits it hands out | with the next |
| `ProviderRequest` | composes `TokenBucket` with the retry loop of provider turns | `MCProviderRequest` |
| `ProviderRequestProofs` | proofs about `TokenBucket` and `ProviderRequest` | |
| `Tunnel`, `Canvas`, `Broadcast`, `Replay`, `Telemetry`, `Trajectory`, `ProviderStream` | what looks at a run | `Observe`, `MCObserve` |
| `Workspace`, `Sandbox`, `Tournament`, `Harness`, `Optimizer`, `Chaos`, `Evaluation`, `Interview`, `SkillStore`, `SkillText`, `SweepPlan`, `ProviderTerms` | what a study is made of | `Study`, `MCStudy` |
| `IsolationProofs` → `StudyProofs` | proofs about the parts of `Study`: `Workspace`, `Sandbox`, `Chaos` and `SkillStore` in the first, the others and their conjunction in the second | |
| `ObserveProofs` | proofs about the seven parts of `Observe` | |
| `FoldTheorems` | facts about folds, sums, scans, nested loops and least elements that `StudyProofs` and `ObserveProofs` share | |
| `NoValue` | the constant for an absent value, shared by the parts | |

### SweepEngine

The coroutines are the pool workers and `Main`, the body of `executeRun`; `pc`
says at which await each stands.  `Main` goes through lease, plan, open, pool,
drain, finalize, close, release.  A worker takes a cell at the top of its loop
(gate, abort check, slot), executes it, publishes its result and queues behind
the checkpoint's write lock (`writers`).  `executeSweepCell` is reduced to its
contract: it claims the run identity and ends with a terminal status, with or
without a database row, or with an identity conflict.  `db` is a row per cell;
`ckpt` stands for both the ledger's state and its file, which the code always
replaces together (`SweepPlan` takes them apart).  `files` says of each cell's
artifacts whether there are none, some, all and in agreement with the row, or all
and at odds with it: what `validateTerminalCell` compares field by field is one
value per cell here, and `CellExecution` says when a cell's files and row do
differ.  A resumed run validates what it finds, so the resume instance begins in
every state of evidence that a run may leave, whether it is accepted or not.
`Faults` names the operations that may throw.  `pauseStarts` is history.

The refinement maps a cell to *queued* while it is in the queue, *held* while it
has no result, and its last public result afterwards.

### EventScribe, AgentRunner, CellExecution

`EventScribe` is the log of an attempt: a buffer, a chain of writes that stays
rejected after a failure, and a close.  `AgentRunner` adds the loop of turns: the
provider's answer, its cost, its tool calls one after the other, each wait raced
against the signal of the innermost scope, with `operations` for what goes on
after its wait was given up.  `CellExecution` adds the claim, the workspace, the
attempts with their containers, and the persistence: `files` are `manifest.json`,
`result.json`, `terminal-failure.json` and a temporary, `row` and `claim` the
database.  `Crash` may come at every await and loses memory; `Restart` gives the
same cell to another process.  `faults` counts what has failed.

### SweepLease

A process runs a program of system calls, one per step, so two processes
interleave at every call, and a process may die between any two.  `dir` maps the
names of the directory to files, `bin` the same names with `.remove` appended.
Link counts are computed from the two, as the file system does.  Published names
are read the way `readPublishedOwner` does, the name first, then the candidate.
The scan for debris reads the two published names and the directory in one step.
`slipped` and `stuck` are history: a removal has unlinked a file it had not looked
at, and a put-back has found its name taken.  `MCSweepLease` has both the search
and a schedule along which six processes are led, by steps of `SweepLease` alone.

### ContainerPool

A request is one `acquire()`; its lease and container go by its name.  The maps
`creating`, `failed` and `active` are the manager's, and overlap as they do in
the code between a publication and the handling of the settled promise.  A docker
command in flight ends by an action with any result the client reports, including
a resource that the daemon creates after its CLI was killed, or it does not end:
the pool gives no command a timeout, and `hung` says which lease waits for one
that hangs, and whether it has a signal (create, start) or none (the inspections
and removals).

### TokenBucket and ProviderRequest

Numbers are integers in the units of the configuration and a `Tick` is one unit
of time; `requests` and `tokens` are the bucket, `queue`, `timer`, `backoff` the
limiter's, `permit` what each caller has.  `excess` is history: the largest
surplus of permits over refill in any window that ends now.  In
`ProviderRequest` a caller runs the retry loop of `executeProviderRequest`, and
every step of the loop is joined to the step of the bucket it makes.

### Observe and Study

Their parts share no state in the code, so a behaviour is one part at work and
the others `Off`: a run checks each part on its own, and no product of unrelated
states is built.  A part has one variable, a record with the fields of its
class; its properties are operators of its own module, which the conjunctions of
`Observe` and `Study` collect.

| Part | What its state is, and what is checked |
|---|---|
| `Tunnel` | a PTY session with its ring buffer and its web-socket and event-stream viewers, listeners that throw, a session removed and made anew: every viewer sees the tail of the output in order, an ended session is silent |
| `Canvas` | a double-buffered grid and the screen of a receiver: after any mix of frames, deltas and resizes the screen is the grid |
| `Broadcast` | subscribers, channels, numbered messages, heartbeats: no empty channel, no number goes back |
| `Replay` | artifacts read one by one while another process swaps files, an export with deaths, a player: a session is never contradicted by the evidence, an export is whole or absent |
| `Telemetry` | overlapping polls over counters that reset; diagnostics whose sources fail |
| `Trajectory` | the steps of a run, scans for loops, cycles and forgetting against their definition by intervals, and the diagnosis |
| `ProviderStream` | the lines of a response in chunks cut anywhere, three adapters, the lease on the response |
| `Workspace` | two files, edits between baseline and diff; the text of a diff parsed to a manifest; a run directory swapped under the writer |
| `Sandbox` | one instance with commands that outlive their client, teardown, and the garbage collection of another process |
| `Tournament` | plans of two to five models, round robin and Swiss, normalisation, battles |
| `Harness` | the matrix runner, pruning of a conversation, the scenario catalog |
| `Optimizer` | a budget and a breaker between requests that overlap; the Pareto frontier |
| `Chaos` | an experiment with timers, late injections, shared disciplines and rules, pid files, failed cleanups, abort and rollback |
| `Evaluation`, `Interview` | checks and timers, the composite, a judge's score; a stakeholder's topics |
| `SkillStore`, `SkillText` | two downloads of one skill with deaths and copies that fail or stop half way, the registry; the line parser of manifests against a definition by blocks |
| `SweepPlan` | admission of a matrix, the binding of a plan by processes that die, the checkpoint's file and backup, which hold the sanitized state where memory holds the state |
| `ProviderTerms` | thinking limits, prices, the choice of an adapter, errors worth a retry |

## What the runs check

| Run | Question | Properties |
|---|---|---|
| `sweep_faults` | every operation fails at will: is a cell run twice or lost, is a report untrue, is work left outside the lease, what does a resume accept? | `CellConservation`, `ReportsAreTrue`, `LeaseCoversWork`, `EvidenceReconciles` |
| `sweep_resume` | from an empty root and every evidence directory a run may leave, with pauses, aborts and failing checkpoints: limits, gate, final records, refinement, the end | `TypeOK`, `InFlightWithinLimits`, `PauseOverrun`, `NoStartAfterAbort`, `EvidenceIsFinal`, `CellsFollowLifecycle`, `RunEnds` |
| `cell` | one cell with timeouts of every scope, aborts, retries, faults and deaths: its log, its money, its resources, its evidence, its end | `LogIsTrue`, `SpendAccounted`, `CompletedCellIsClean`, `EvidenceAgrees`, `CellEnds` |
| `lease` | three processes, two deaths: what alone may put the lease at risk, and what blocks a lone process | `SlipBreaksLease`, `LoneConflictHasCause` |
| `pool_faults` | capacity, idle slots, orphans, startup delays, the drain barrier, refinement of `SlotPool` | `SlotsBounded`, `NoIdleSlot`, `NoOrphan`, `StartupSpacing`, `DrainBarrier`, `PoolIsSlotPool` |
| `pool_live` | commands that may hang: order of the queue; every `acquire()` is answered once and every drain ends, unless what it waits for hangs | `QueueIsFair`, `CallsAnswered` |
| `request` | the rate over every window, permits across retries and aborts, the queue, the end of a turn | `RateConforms`, `PermitFollowsTurn`, `QueueIsServed`, `AbortStopsTurn`, `TurnEnds` |
| `observe` | the seven parts of `Observe` | `ViewersFollow`, `ReplayIsTrue`, `FindingsHold`, `StreamsKeepOrder` |
| `study` | the twelve parts of `Study`: is a run kept apart, a campaign whole, a reckoning right; is what is read out of a whole text or diff all of it? | `IsolationHolds`, `CampaignIsWhole`, `ReckoningHolds`, `DerivedIsTrue`, `NoStepBack` |
| `sweep_outcome_durability`, `cell_own_evidence`, `lease_two_holders` | three disagreements of the repository with itself (below) | `OutcomeDurability`, `OwnCellReconciles`, `OneHolder` |

All but the last three pass.  Deadlock is checked except in the runs of the lease
and of the cell, where processes and cells stop in the end, in `observe` and
`study`, whose parts end, and in `pool_live`, where a hung command may stop all.

### Bounds, and why they are enough

* Sweep: two workers and three cells of two models (one limited to one cell at
  a time) under one provider: two cells compete for one model while a third can
  run, and there is a cell left for the drain while both workers are busy.  The
  violation run needs two cells only.  Retries for a slot are a state, not a
  counter; nothing else is bounded.
* Cell: two turns of at most one tool call and a budget that one answer exhausts,
  one retry, two operations that fail (a death counts as one): a first and a
  second attempt, a fault in the handling of a fault, a death after a fault.
* Lease: with three processes one publishes a new file under a name that two
  others are removing, and removals do unlink files they have not looked at.
  `MaxCrashes` = 2 lets one of them clean up after a dead cleaner.  Three are *not*
  enough for everything.  That two hold the lease takes six, too many for a search;
  so the property of this run says what a slip puts at risk and nothing of what it
  does not, and `lease_two_holders` leads six processes to it along a schedule that
  fixes who takes the next step and no more.  A put-back that finds its name taken
  takes four.
* Pool: two slots and three requests where every docker call may fail, so that
  two creations overlap and a third waits; one slot and three requests for the
  order of the queue and liveness, where no symmetry can be used.
* Request: one caller asks for more tokens than the bucket holds, one for a few; a
  request costs two units so that a partial refill exists.  `MaxThrottles` bounds
  the 429 answers, `BackoffMax` is the code's own cap, `MaxRetries` = 1 gives a
  first and a second attempt.
* Observe: one viewer of each kind and a chunk larger than the ring (4 of 3
  bytes); a canvas wide or tall, drawn on and off its grid; two subscribers; logs
  of up to three events; three overlapping polls; trajectories of five steps, as
  long as two overlapping stretches; three lines of a stream in chunks cut
  anywhere.
* Study: two processes, clients or workers wherever there is a race; an answer may
  report more than the largest estimate (`MaxReported`); tournaments
  up to five models, the least with byes, odd rotation and cut-off rounds;
  budgets a request short of and beyond the limit; two faults of kinds that share
  something or differ, for two places,
  so that two share the network; two copies or renames that fail (`Faulty`); texts
  of four lines, two keys with items and
  subkeys between them; two deaths.

### Fairness

`sweep_resume` assumes weak fairness of each coroutine: the event loop runs every
resolved promise, and cells end because a run has its own timeout (which `cell`
shows: `CellEnds`).  Nobody is assumed to pause, resume or abort.  `cell` assumes
that the deadline of the scenario fires, that a fired signal settles the wait
that is raced against it, and that the cell goes on; neither provider nor tool is
assumed to answer.  That the cell goes on covers the commands of its container's
release, which have no deadline in the docker client: it is an assumption.
`pool_live` assumes that promises are handled, that the queue timer fires, and that
a docker command ends unless it hangs, which any may do: a timer is armed only for
a `timeoutMs` (`docker-client.ts:122`), which the pool never gives.  A hung create
or start ends when its signal aborts, a hung inspection or removal never; so
`CallsAnswered` promises an answer unless a command of the caller's own lease hangs,
and the end of a drain unless a command without a signal hangs in a promise it
waits for.  Callers need not release.
`request` assumes that clocks run and timers fire, that attempts end
by answer, failure or their timeout, and that a response is given up in a
`finally` block.  The other runs state no fairness and check safety only.

## What is proved

TLAPS proves, for every value of the constants that satisfies the assumptions of
the module, what follows.

**Sweep engine** (`SweepEngineProofs`)

* `TypeCorrect`: `TypeOK` is inductive.  It is proved part by part, a lemma for
  each group of variables.
* `CellsConserved`: a cell is queued, held by one coroutine, or published once.
  The invariant is `TypeOK`, `IdleHoldsNothing` (a coroutine outside the steps of
  a cell holds none: without it a worker could take a second cell) and
  `CellConservation`.  Every action is first classified as one of a few moves of
  a cell, and the moves are shown to conserve cells.
* `EngineFollowsLifecycle`: from that invariant, every step of the engine is a
  step of `CellLifecycle` or stutters.
* `LimitsHold`: the three counters count the cells that execute and stay within
  the limits of models and providers.  Every step is classified by what it does to
  the set of busy workers: none enters or leaves, one enters a cell that the
  limits admit, or one leaves its own.  The counters are compared with the
  cardinalities of those sets, whose members are gained and lost one at a time;
  `Math.max(0, n - 1)` is then a plain decrement.  `IdleHoldsNothing` is needed to
  know that nobody is busy when the pool starts.
* `AbortStartsNothing` (`NoStartAfterAbort`): of those three, only an entry
  makes a worker busy, and it needs the signal not to be aborted.
* `EvidenceStands` (`EvidenceIsFinal`): records are never replaced.  The
  invariant is `ClaimHeld`: an executing coroutine's cell is claimed; with
  `CellConservation` no other coroutine works on that cell, so a record is only
  written over the writer's own claim.
* `PauseHolds` (`PauseOverrun`): `GateHolds` says of each worker how many starts
  it has had since the gate closed and whether it stands past the gate: one start
  is possible only for a worker that was past it when it closed.
* `LeaseCovers` (`LeaseCoversWork`): the lease is held as long as the database is
  open, so no row is written without it, and no work is left when it is released,
  *unless a worker threw*: its siblings may then still run, and write the
  checkpoint, without the lease.  `StagesOK` says what `Main` may leave behind when
  it goes from one stage to the next (no worker in a cell after the pool was joined,
  unless one has thrown), `LockQueueOK` that the write lock is held by exactly one
  of those who are at it.
* `ReportsTrue` (`ReportsAreTrue`) and `EvidenceReconcilesAtEnd`
  (`EvidenceReconciles`): the truth of a report is that of the chain it comes
  from, so the invariant follows a result from the hand of the coroutine that
  made it (`HandTrue`) to the row (`RowTrue`), the published result
  (`ResultTrue`), and the ledger and its counters (`FreshTrue`, `CountsOK`);
  `QueueServed` says that the pool ends with an empty queue or with a reason, and
  `StatusOK`, `OutcomeOK` what the final status and file were computed from.  Of the
  evidence both directions are proved: it is accepted *exactly* if every cell has
  its record and artifacts that agree with it and the outcome does not say
  `aborted` over a checkpoint without an aborted cell.  A fault-free run may leave
  evidence that is refused; these are all the ways it may.

**Cell execution** (`CellExecutionProofs`), from one invariant `Sound`, whose parts
say how the loop, the scopes and the stage of the cell fit together (`Types`,
`Coupled`):

* `SpendIsAccounted` (`SpendAccounted`): what has been spent before an answer is
  within the budget, so the overrun is one answer at most.
* `CompletedMeansClean` (`CompletedCellIsClean`): `CleanOK` ties each stage to what
  it still owes (container, workspace, operations in flight).
* `EvidenceStaysTrue` (`EvidenceAgrees`): `RowOK` and `FilesOK` say for each stage
  which of row, claim and files may exist and that they agree; `DoneOK` that
  nothing changes them once the cell is over, also when the process dies.
* `LogStaysTrue` (`LogIsTrue`): `LogOK` says that of each attempt the entries in the
  log followed by its buffer are what its scribe emitted, and `StreamOK` that the
  events of the first attempt have one start and nothing after their end.

**Container pool** (`ContainerPoolProofs`)

* `CapacityHolds` (`SlotsBounded`): at most `maxPoolConcurrency` requests hold a
  slot.  The code adds up three maps that may overlap; the invariant bounds the
  union, for which one needs that a lease at work is in `creatingLeases`, so that
  its publication adds nobody.
* `NobodyIdles` (`NoIdleSlot`), `NothingOrphaned` (`NoOrphan`), `DrainIsBarrier`
  (`DrainBarrier`), `StartupsAreSpaced` (`StartupSpacing`), `QueueServedFairly`
  (`QueueIsFair`), all from `PoolInv`: the queue holds each unanswered caller once
  (`QueueOK`, `AnswersOK`), a lease is in the maps its stage says (`PlacesOK`), a
  drain under way has closed the queue (`DrainOK`), a lease overtakes another in
  startup only past one that was cancelled (`LockOK`), and the daemon holds nothing
  of a lease that the pool has forgotten (`DockerOK`).
* `PoolImplementsSlots` (`PoolIsSlotPool`): every step of the pool maps to a step of
  `SlotPool` or a stutter; the slots are the union that `CapacityHolds` bounds.

**Limiter and provider turns** (`ProviderRequestProofs`)

* `TurnsUseLimiter`: a behaviour of the turns is one of `TokenBucket`, so what is
  proved of the bucket holds of the turns.
* `RateLimited` (`RateConforms`): the permits of any window are at most the burst
  plus what was refilled.  The invariant, `excess + requests <= Burst`, pairs the
  surplus of the worst window with what is left in the bucket (`Conserved`).
* `WaitersServed` (`QueueIsServed`): the timer runs while anybody waits, and no
  step leaves a caller waiting whom the limiter could serve.  The drain loop is a
  recursive function of the queue; what it leaves over is shown by an induction.
* `NoPermitLeaks` (`PermitFollowsTurn`), `AbortIsHeeded` (`AbortStopsTurn`): from
  `LimiterOK` (the counters count the permits that are out) and `TurnInv` (where a
  turn stands says whether it has one).

**What looks at a run** (`ObserveProofs`)

* `ViewsKeepOrder` (`StreamsKeepOrder`): for any number of viewers, channels and
  subscribers and any size of a canvas.  The invariant of the canvas says that the
  receiver's screen is the grid the next frame is compared with, so that a frame of
  changes alone gives the whole picture; that of the hub, that nobody has a number
  which was not given out; that of the tunnel, what the next theorem needs.
* `ViewersSeeAll` (`ViewersFollow`): `TunnelInv` says that the ring of a session is
  the tail of its output, within its capacity, and that each viewer has a tail too;
  chunks and bytes evicted by a push are found by `EvictedIs`, those sent to who
  joins by `ScrollbackIs`.  In the hub no channel is kept without a member.  Of a
  provider's stream the invariant `StreamOK` says that what has not come, what waits
  in the buffer and the lines not yet handled are adjacent parts of what was sent,
  cut before a head or after one, and that the consumer was told of the lines
  handled so far (`Tells`).  `SplitIs` shows that a chunk cut anywhere completes
  whole lines, `TellsMore` what one line adds, `FinishedIs` where the server's own
  end lies.
* `ReplayStaysTrue` (`ReplayIsTrue`): `ReplayInv` says that what is loaded is sound,
  that is, contradicted by nothing it was loaded from and equal to what its export
  gives back (`LoadIsSound`, `ImportIsInverse`, lemmas about any log, manifest and
  result of the shape that `SourceShape` names), and that the target name is on the
  new file only once that is whole.  That the evidence a command finds has this
  shape, sound or damaged, is `SourcesAreShaped`.
* `FindingsStand` (`FindingsHold`).  *Telemetry* (`ProbeInv`): readings stay within
  what the counter has reached however polls overlap, only a running profiler has
  a timer, and a stopped one counts the answers it is owed; so the least, the mean
  and the greatest of a summary lie where its samples do.  A record of diagnostics
  is of the error that was asked about, and made only when every source has
  answered or failed.  *Trajectory* (`TrailInv`): the code goes once through the steps, with a
  counter or the place of the last query; `LoopPass`, `CyclePass` and `QueryPass`
  say what that state and the findings so far must be after `n` steps.
  That they are so after each step is an induction over the steps (`AllNat`, and
  `Recursion` for the recursive functions of the scans).  So, for trajectories of any
  length and any thresholds, the scans find exactly the stretches the definition by
  intervals names.  The health of a diagnosis loses a sum of penalties, none of them
  negative, from a base that only a success has in full.

**What makes up a study** (`IsolationProofs`, `StudyProofs`).  The parts share no
state, so `StudyInv` says of each that its own invariant holds while it is at work;
each has a lemma for what it starts with, one for its steps, and one for what
follows, and the five theorems put them together.

* `RunsAreIsolated` (`IsolationHolds`).  *Workspace*: nothing was written before
  there was an authority, which is set once.  *Sandbox*: `Dismantled` says for
  each step of the teardown what it has taken away, whatever the daemon did after
  its client was killed, and that no transition leads out of it; `Collected`, that
  a collection names only what was there when it listed.  *Chaos*: `Numbered` (a
  pid file names the last injection), `OnRecord` (what is recorded of a fault
  against what is left of it) and `RollingBack` (each effect that stands is still
  to be restored, or is one of those the rollback is known to miss).  *Skills*: what
  is cached and answered is of a verified version, and is all of it unless a copy
  is under way, installs overlapped, or a copy failed or broke off, which the code
  does not notice; a staging directory is its client's alone; catalog, manifests and
  index of the registry agree.
* `CampaignsAreWhole` (`CampaignIsWhole`).  *Schedule*: the circle method is sound
  for every number of models.  All seats but one, an odd number, turn; so the sum of
  the seats of a match tells its round, whence no pair meets twice and all have met
  after the last (`SumOfSeats`, `MeetOnce`, `AllMeet`), by linear arithmetic.
  *Tournament*: what was fought was
  fought live over a plan that was validated.  *Admission*: the nested loops number
  the product of scenarios, skills, models and runs row by row (`LoopIsNumbered`),
  so what is admitted has each cell once and in order.  *Matrix*: a cell is where one
  worker has it, and its container with it.  *History*: each answer of a tool
  stands behind the call that asked for it, with only answers between, so that a
  cut before anything but an answer severs none; *catalog*: each entry once, as
  its file says.  *Binding*: whoever is past the link wants what the file holds,
  and nothing ran before there was a file.  *Ledger*: memory and
  what is about to be written satisfy the contract, whose sum of durations is that
  of the state before and one more; file and backup hold what sanitizing makes of
  such a state, with the same accounts, and satisfy the contract too unless it
  changed the descriptor of a cell (`SanitizedIsSound`).
* `ReckoningsHold` (`ReckoningHolds`).  *Budget*: what is used and what is in flight
  is within limit and allowance plus the estimates of all slots but one and what
  answers reported beyond their estimates (`excess`), which nothing bounds; the rate
  and the slots stay within their bounds through the history that scales them.
  *Terms*: a budget that was resolved from effort, clamped and raised to a floor lies within the
  model's limits.  *Evaluation*: summary, composite and digest follow from the
  checks, so that a verdict which was tampered with is refused.  *Dialog*: the
  status of a topic follows from the turn that asked for it.
* `DerivedAreTrue` (`DerivedIsTrue`): what the parsers of a diff and of a manifest,
  and the cut of a prompt, make of any text.  Each is compared with a definition by
  places: the sections of a diff, the block below the last occurrence of a key, the
  last heading before a bullet.  The proofs are inductions over the lines (`AllSeq`):
  what one more line does to the parser's state (`ParseGrows`, `RunGrows`,
  `SectionGrows`) is what it does to the definition (`TellsGrows`, `BlockGrows`,
  `SectionsGrow`), and lines of one section leave what was read of another
  (`LinesRefine`).  The diff of two trees is then read section by section
  (`SectionReads`, `RenameReads`, `DiffTells`).
* `NothingSteppedBack` (`NoStepBack`), from the same invariants: a grade is a
  rounded quotient of sums, and a topic that is clarified can only raise them.

What ledgers, slots and grades add up is a fold over a set or a sequence.
`FoldTheorems` proves what these sums are (`TotalIs`, `SumOfAppend`, `SumOfRemoved`,
`SumOfBounded`) by induction on the size of a set, written by hand over a
well-founded relation on the naturals.  The same induction gives what a recursive
function of a scan computes (`Recursion`), what a fold over a sequence does with one
more element (`ScannedStep`, `FlattenGrows`) and which element of a nested loop's
sequence comes from which iteration (`RowsJoin`, `LoopIsNumbered`).

The assumptions are those of the modules: finitely many workers and at least one,
positive limits, a bucket of positive size and rate, `Main` no worker, `None` no
fingerprint and nothing else that stands for a value, names of files, stages and
requests that are not `None`, finitely many subscribers of the hub, a buffer of at least one
line and chunks whose sizes are naturals, a player opened
on a session of at least one frame (a log without events does not load); gauges
that are naturals and a counter that can tick; thresholds such that a loop needs
two calls and a cycle one error (a configuration may set others, which the code
does not check; its defaults are three and three, `anomaly-detector.ts:16`).  Of the
parts of a study: counts, times and prices are naturals, and the least rate of a
provider is at most its greatest, which `BudgetController` takes for granted (a
floor above the maximum would raise the ceiling over it); a sweep has finitely many
cells, whose durations are not negative; a fixture has finitely many files; what
stands for an unknown name is in no
catalog; a catalog's entries are a list; ranks and
raw scores are integers where the code has floating point; a dialog has finitely
many topics, and its bonus is not negative.

Only model-checked:

* every liveness property: fairness and `ENABLED` are out of the prover's reach;
* `SlipBreaksLease` and `LoneConflictHasCause` of `SweepLease`, for three processes.

## Where the code disagrees with the repository

* `sweep_outcome_durability`: a cell whose record could not be saved is reported
  with `evidenceDurable: true` (`sweep-outcome.ts:77`), against
  `docs/architecture/02-execution-and-artifacts/matrix-sweeps.md:9`.
* `cell_own_evidence`: an abort between the end of a run and the disposal of its
  workspace gives the row another reason than the result in the evidence
  (`cell-execution.ts:218`), which `terminal-reconciliation.ts:268` rejects.
* `lease_two_holders`: two processes hold the lease of one output root, against
  what `sweep-lease.ts:22` promises the second and `:108` asserts of the first.
  `removeEntry` unlinks `name.remove` by its name (`sweep-lease-namespace.ts:107`),
  and the file it has looked at (`:93`) may no longer be the one there.  One dead
  process that left both published names is enough: three others judge its recovery
  entry stale; the first removes it and publishes its own; the second has the first's
  quarantined file before it, takes it for the dead one's, and is overtaken; the
  third quarantines the new entry, which the second then unlinks unseen.  A fourth
  acquires the lease while the first is about to quarantine the dead lock, catches
  the fourth's instead, and a fifth finds the name free.

Observed while modelling, with no text that says otherwise (the models have them
so, and the properties state them as exceptions where they meet them):

* Sweep: `resume()` after the end of a paused run sets the status back to
  running.  The engine's own abort (`sweep-engine.ts:225`, `:242`) does not open
  the gate: parked workers wait for a `resume()`, hence the `~Parked` of
  `RunEnds`.  When a worker throws, the database is closed and the lease released
  while other workers are still in cells (`LeaseCoversWork`).  An abort that comes
  after the last cell has its result writes an `aborted` outcome over a checkpoint
  that says otherwise, which `terminal-reconciliation.ts:95` refuses
  (`EvidenceReconciles`).
* Plan and ledger: a process that dies between the link of the plan and the
  removal of its candidate leaves a plan with two names, which every later run
  refuses.  Durations are summed in one order by the ledger and in another by its
  validator, and compared exactly.  The checkpoint is written sanitized
  (`checkpoint.ts:128`) and its cells are compared with the plan as they are
  (`checkpoint-reconciliation.ts:88`): a model entry with a key that sanitizing drops
  or rewrites leaves a checkpoint which every resume refuses (`CheckpointIsSound`).
  The configuration admits a rate limit of 0, which the bucket takes for 1
  (`token-bucket.ts:50`).
* Cell: a retried attempt numbers its events from one again over the same file, so
  that replay rejects the log of a cell that was retried.
* Pool: an inspection or a removal that hangs leaves its release pending for ever,
  and with it a drain (`creation-lease.ts:256`).
  `publishInstance` never sees a draining pool.  A waiter for the startup
  lock that is cancelled hands on a lock it never had, so two delays may overlap
  (`StartupSpacing`).  A container that the daemon creates late, and a volume
  listed without labels, escape the cleanup (`unseen` in `NoOrphan`).
* Instances: a command that timed out leaves the instance ready while the command
  runs on.  The collection asks for every volume with the workspace label to be
  removed, also those of living containers; the daemon refuses these.
* Limiter: a shorter backoff replaces a longer one; a reservation clamped at zero
  is credited back in full; the ten per cent rule admits requests larger than what
  is left, so that tokens per minute are no hard limit.
* Lease: a process that dies between the quarantine of an entry and its removal
  leaves a `.remove` entry that makes later acquisitions fail until it is removed
  by hand.  Nobody needs to die for one: a removal that has caught the entry of a
  live process puts it back, finds a newer one under its name, and leaves it where
  it is without a word (`sweep-lease-namespace.ts:114`); four processes can come to
  that.  `LoneConflictHasCause` knows no third cause.  And a
  `release()` that meets a contender fails and leaves its lock to be cleared.
* Providers: the Anthropic and the Gemini stream end a turn with `tool_calls` but
  pass no call on; cached tokens that the provider counts beside the input are
  taken out of it once more (`pricing.ts:157`).
* Workspace: the tarball of a fixture is packed, but the `tar -xf -` that should
  unpack it is given no input (`hydration.ts:153`).  The local diff looks at no exit
  code (`diff.ts:235`): a `git` that fails makes an empty manifest, or one without the
  new files, of a workspace that has changed (`DiffTellsChanges` speaks of those for
  which it answered).
* Skills: the temporary tarball is removed before the second attempt to unpack it
  (`downloader.ts:135`).  The exit code of the copy into the cache is not looked at
  (`downloader.ts:193`), so that part of a skill, or of two, is answered and then
  taken for a fresh cache (`CacheIsVerified` names the causes); an id stays in the
  index of the category it had before.  A line at the margin without a key, such as
  a comment, ends a list (`parser.ts:69`), and the item after it replaces the ones
  before (`FrontmatterIsBlocks`).
* Optimizer: a request is charged what its answer reports, whatever it was admitted
  for (`budget-controller.ts:126`), so an overrun has no bound but the answers'.
* Evaluation: a judge's score above the scale is taken for a percentage (6 of 5 is
  6 %).
* Chaos: an injection that a timer has begun may end after `restoreAll()`; a cleanup
  that fails is recorded as a restoration (`fault-injector.ts:92`); the pid file of a
  throttle names the loop of the last core only (`fault-injector.ts:172`), and a
  second injection writes over it.

## Not modelled

The parts marked `not_modelled` in `PROJECT.json`: argument parsing and terminal
output, the HTTP routes and reporting views over the database, which only read,
the generator and the scripts, which write text, and the process and parsing
helpers, whose callers' modules take them as they are.

Of the modelled parts: events and progress estimates, a second `run()` of one
engine, `getStatus()`, JSON and tar formats, escape sequences and binary frames,
request bodies and retry headers, numeric ranges of the configuration,
syncs that fail once a lease or an outcome is in place (those of plan and checkpoint
are modelled), the modes of files and the identity of directories outside
`Workspace` and `Replay`, lease owners on other hosts (never stale), money where tokens stand for it, ratings and
report texts, the prompts, and what a tool does to files.

Hazards no property covers: tokens per minute, which the code itself treats as a
heuristic, and the choice between two backoffs, of which nothing says which
should win.

## What is left

1. `CellExecution` as an implementation of the contract that `SweepEngine` uses
   for a cell, stated as a refinement.
2. `SlipBreaksLease` for any number of processes; TLC has it for three.
3. The text formats left out above where a check of another module reads them
   back: retry headers, the tunnel's frames.
