----------------------------- MODULE SweepEngine -----------------------------
(***************************************************************************)
(* One call of MatrixSweepEngine.run(): the worker pool of                 *)
(* sweep-worker-pool.ts, the pause / resume / abort controls, the          *)
(* checkpoint ledger behind its write lock, the abort drain and the        *)
(* finalization.                                                           *)
(*                                                                         *)
(* JavaScript runs one task at a time, so an action is what the code does  *)
(* between two awaits of one coroutine.  The coroutines are the pool       *)
(* workers and Main, the body of executeRun; both execute cells, Main only *)
(* while it drains the queue of an aborted sweep.  What happens inside     *)
(* executeSweepCell is reduced to its contract: the claim of the run       *)
(* identity, then one terminal status with or without a database row.      *)
(***************************************************************************)
EXTENDS Naturals, FiniteSets, Sequences

CONSTANTS
    NumCells,           \* planned cells; a cell is its index in the plan
    Workers,            \* min(maxGlobalConcurrency, NumCells) coroutines
    Main,               \* the coroutine of executeRun
    ModelOf,            \* [Cells -> model]
    ProviderOf,         \* [Cells -> provider]
    ModelLimit,         \* [model -> Nat], concurrencyLimit of its entry
    ProviderLimit,      \* maxPerProviderConcurrency
    StopOnFirstFailure, \* config.stopOnFirstFailure
    AutoResume,         \* config.checkpoint.autoResume
    Faults,             \* the operations that may fail in this instance
    NoCell

Cells     == 1..NumCells
Procs     == Workers \cup {Main}
Models    == {ModelOf[c] : c \in Cells}
Providers == {ProviderOf[c] : c \in Cells}

FaultKinds == {"lease", "plan", "open", "claim", "artifacts", "evidence",
               "save", "checkpoint", "outcome", "release"}

ASSUME EngineAssumption ==
    /\ NumCells \in Nat \ {0}
    /\ IsFiniteSet(Workers)
    /\ Workers # {}
    /\ Main \notin Workers
    /\ NoCell \notin Cells
    /\ DOMAIN ModelOf = Cells
    /\ DOMAIN ProviderOf = Cells
    /\ ModelLimit \in [Models -> Nat \ {0}]
    /\ ProviderLimit \in Nat \ {0}
    /\ StopOnFirstFailure \in BOOLEAN
    /\ AutoResume \in BOOLEAN
    /\ Faults \subseteq FaultKinds

VARIABLES
    status,         \* SweepExecutionStatus of the engine
    isPaused,       \* isPaused
    resumer,        \* resumeResolver is not null
    aborted,        \* abortController.signal.aborted
    queue,          \* cellQueue: it only shrinks, so a set kept in plan order
    modelInFlight,  \* [Models -> Nat]
    providerInFlight,
    inFlight,       \* inFlightCount
    pc,             \* where each coroutine awaits
    cell,           \* the cell a coroutine works on
    returned,       \* the MatrixCellResult executeSweepCell returned
    writers,        \* persistState calls in the order they took writeLock
    ckpt,           \* the checkpoint file and the ledger's state: one value
    db,             \* rows of runs and run_claims, per cell
    files,          \* what the directory of each cell's run holds
    dbOpen,
    lease,          \* the output-root lease is held
    checkpointLoaded,
    checkpointBroken,   \* checkpointPersistenceFailed
    identityConflict,   \* terminalIdentityConflict
    results,        \* public results pushed, per cell
    durableRecords, \* the run record remembered for the outcome, per cell
    counts,         \* completedCount, failedCount, abortedCount, skippedCount
    outcome,        \* outcome.json
    runError,       \* executeRun is leaving by an exception
    pauseStarts     \* history: cells a worker started since the last pause

control == <<status, isPaused, resumer, aborted>>
pool    == <<queue, modelInFlight, providerInFlight, inFlight>>
disk    == <<ckpt, db, files, outcome>>
tally   == <<results, durableRecords, counts>>
flags   == <<checkpointBroken, identityConflict, runError>>
session == <<dbOpen, lease, checkpointLoaded>>

vars == <<control, pool, pc, cell, returned, writers, disk, session, flags,
          tally, pauseStarts>>
-----------------------------------------------------------------------------
(* Values *)

RecordStatus == {"completed", "failed", "timed_out", "aborted"}
PublicStatus == {"completed", "failed", "aborted", "skipped"}

\* A row of runs (its status), a row of run_claims, or neither.
DbRow == RecordStatus \cup {"none", "claimed"}

\* The artifacts of a run, as far as validateTerminalCell tells them apart:
\* none at all, those of a run that has not ended, or a manifest and a terminal
\* file that agree, or do not, with the row, with the record and the scenario
\* result in the checkpoint, and with each other.
RunFiles == {"none", "some", "agree", "differ"}

\* MatrixCellResult: the status of its runRecord, or an identity conflict,
\* which carries no record.
CellResult == RecordStatus \cup {"conflict", "none"}

\* createCellResult: every record that is not completed or aborted is a
\* failed cell in public.
Public(result) ==
    IF result \in {"completed", "aborted"} THEN result ELSE "failed"

Kinds == {"completed", "failed", "aborted"}
EmptyCheckpoint == [kind \in Kinds |-> {}]
NoOutcome == [status |-> "none", orchestrationFailure |-> FALSE,
              entries |-> <<>>]

\* resolveCheckpointStatus, and the "pending" of a ledger never written.
CheckpointStatus(k) ==
    LET terminal == k.completed \cup k.failed \cup k.aborted IN
    IF terminal = {} THEN "pending"
    ELSE IF terminal # Cells THEN "running"
    ELSE IF k.aborted # {} THEN "aborted"
    ELSE IF k.failed # {} THEN "failed"
    ELSE "completed"

CheckpointAbortedAsFailed(k, c, result) ==
    IF result = "completed" THEN [k EXCEPT !.completed = @ \cup {c}]
    ELSE [k EXCEPT !.failed = @ \cup {c}]

\* recordCellSuccess / recordCellAborted / recordCellFailure.
CheckpointWith(k, c, result) == [k EXCEPT ![Public(result)] = @ \cup {c}]

Executing == {"exec", "returned", "write", "written", "unwritten"}
WorkerPc  == {"idle", "top", "parked", "ready", "retry", "exited", "threw"}
MainPc    == {"lease", "plan", "open", "pool", "drain", "finalize", "close",
              "release", "done"}
-----------------------------------------------------------------------------
(* The evidence a resumed run accepts *)

\* validateTerminalCell: the row has the public status of the checkpoint set,
\* and the artifacts of the run agree with row and checkpoint field by field.
CellReconciles(kind, row, artifacts) ==
    row \in RecordStatus /\ Public(row) = kind /\ artifacts = "agree"

\* validateCheckpointTerminalEvidence: the three id sets are disjoint, the
\* evidence of a terminal cell is validated, and any other cell has no run
\* record and no artifacts.
CheckpointReconciles(k, rows, artifacts) ==
    /\ k.completed \cap k.failed = {}
    /\ k.completed \cap k.aborted = {}
    /\ k.failed \cap k.aborted = {}
    /\ \A kind \in Kinds : \A c \in k[kind] :
           CellReconciles(kind, rows[c], artifacts[c])
    /\ \A c \in Cells \ (k.completed \cup k.failed \cup k.aborted) :
           rows[c] \notin RecordStatus /\ artifacts[c] = "none"

\* validateSweepOutcomeEvidence.  An outcome is required once a checkpoint
\* was loaded, and must agree with checkpoint and database cell by cell.
OutcomeReconciles(o, k, rows, required) ==
    IF o = NoOutcome
    THEN ~required
    ELSE /\ o.status = CheckpointStatus(k)
         /\ ~o.orchestrationFailure
         /\ \A c \in Cells :
                LET e == o.entries[c] IN
                /\ e.evidenceDurable <=> (rows[c] \in RecordStatus)
                /\ e.evidenceDurable => e.status = rows[c]
                /\ \/ e.publicStatus = "completed" /\ c \in k.completed
                   \/ e.publicStatus = "failed" /\ c \in k.failed
                   \/ e.publicStatus = "aborted" /\ c \in k.aborted

\* writeSweepOutcome: what one cell's entry says.
OutcomeEntry(record, published) ==
    [status |-> IF record # "none" THEN record
                ELSE IF published = "skipped" THEN "skipped"
                ELSE "unstarted",
     evidenceDurable |-> record # "none",
     publicStatus |-> published]

\* The evidence directory a run may start from.  A fresh run finds nothing.
\* A resumed run finds a finished sweep, whatever validation will say of its
\* cells, or a plan whose run died before its first checkpoint: perhaps with the
\* claims of the cells then in flight and what they had written, never with
\* records, because validation refuses those before run() is called.
FreshEvidence ==
    /\ ckpt = EmptyCheckpoint
    /\ db = [c \in Cells |-> "none"]
    /\ files = [c \in Cells |-> "none"]
    /\ outcome = NoOutcome

InterruptedEvidence ==
    /\ ckpt = EmptyCheckpoint
    /\ db \in [Cells -> {"none", "claimed"}]
    /\ Cardinality({c \in Cells : db[c] = "claimed"}) <= Cardinality(Workers)
    /\ files \in [Cells -> {"none", "some"}]
    /\ \A c \in Cells : files[c] = "some" => db[c] = "claimed"
    /\ outcome = NoOutcome

FinishedEvidence ==
    \E rows \in [Cells -> RecordStatus] :
        /\ db = rows
        /\ files \in [Cells -> {"agree", "differ"}]
        /\ ckpt = [kind \in Kinds |->
                      {c \in Cells : Public(rows[c]) = kind}]
        /\ outcome = [status |-> CheckpointStatus(ckpt),
                      orchestrationFailure |-> FALSE,
                      entries |-> [c \in Cells |->
                          OutcomeEntry(rows[c], Public(rows[c]))]]

Init ==
    /\ status = "running"
    /\ isPaused = FALSE
    /\ resumer = FALSE
    /\ aborted = FALSE
    /\ queue = Cells
    /\ modelInFlight = [m \in Models |-> 0]
    /\ providerInFlight = [p \in Providers |-> 0]
    /\ inFlight = 0
    /\ pc = [p \in Procs |-> IF p = Main THEN "lease" ELSE "idle"]
    /\ cell = [p \in Procs |-> NoCell]
    /\ returned = [p \in Procs |-> "none"]
    /\ writers = <<>>
    /\ \/ FreshEvidence
       \/ AutoResume /\ (InterruptedEvidence \/ FinishedEvidence)
    /\ checkpointLoaded = (AutoResume /\ ckpt # EmptyCheckpoint)
    /\ dbOpen = FALSE
    /\ lease = FALSE
    /\ checkpointBroken = FALSE
    /\ identityConflict = FALSE
    /\ results = [c \in Cells |-> <<>>]
    /\ durableRecords = [c \in Cells |-> "none"]
    /\ counts = [published \in PublicStatus |-> 0]
    /\ runError = FALSE
    /\ pauseStarts = [w \in Workers |-> 0]
-----------------------------------------------------------------------------
(* Pause, resume, abort: called by listeners and by the embedding process *)

\* The workers whose pausePromise resolves when resumeResolver is called.
OpenGate(at) ==
    [p \in Procs |-> IF resumer /\ at[p] = "parked" THEN "ready" ELSE at[p]]

Pause ==
    /\ ~isPaused
    /\ status = "running"
    /\ isPaused' = TRUE
    /\ status' = "paused"
    /\ resumer' = TRUE
    /\ pauseStarts' = [w \in Workers |-> 0]
    /\ UNCHANGED <<aborted, pool, pc, cell, returned, writers, disk, session,
                   flags, tally>>

Resume ==
    /\ isPaused
    /\ isPaused' = FALSE
    /\ status' = "running"
    /\ resumer' = FALSE
    /\ pc' = OpenGate(pc)
    /\ UNCHANGED <<aborted, pool, cell, returned, writers, disk, session,
                   flags, tally, pauseStarts>>

\* abort() leaves isPaused as it is.
Abort ==
    /\ status' = "aborted"
    /\ aborted' = TRUE
    /\ resumer' = FALSE
    /\ pc' = OpenGate(pc)
    /\ UNCHANGED <<isPaused, pool, cell, returned, writers, disk, session,
                   flags, tally, pauseStarts>>
-----------------------------------------------------------------------------
(* executeRun before the pool *)

Goto(p, label) == pc' = [pc EXCEPT ![p] = label]

\* acquireSweepLease: a conflict throws before the try block, so nothing is
\* released.
AcquireLease ==
    /\ pc[Main] = "lease"
    /\ \/ lease' = TRUE /\ Goto(Main, "plan") /\ UNCHANGED <<status, runError>>
       \/ /\ "lease" \in Faults
          /\ runError' = TRUE
          /\ status' = IF status = "aborted" THEN status ELSE "failed"
          /\ Goto(Main, "done")
          /\ UNCHANGED lease
    /\ UNCHANGED <<isPaused, resumer, aborted, pool, cell, returned, writers,
                   disk, dbOpen, checkpointLoaded, checkpointBroken,
                   identityConflict, tally, pauseStarts>>

BindPlan ==
    /\ pc[Main] = "plan"
    /\ \/ Goto(Main, "open") /\ UNCHANGED runError
       \/ "plan" \in Faults /\ runError' = TRUE /\ Goto(Main, "release")
    /\ UNCHANGED <<control, pool, cell, returned, writers, disk, session,
                   checkpointBroken, identityConflict, tally, pauseStarts>>

\* The database opens, the resumed evidence is validated a second time under
\* the lease, and every worker runs to its first await.
OpenDatabase ==
    /\ pc[Main] = "open"
    /\ dbOpen' = TRUE
    /\ IF AutoResume => /\ CheckpointReconciles(ckpt, db, files)
                        /\ OutcomeReconciles(outcome, ckpt, db, checkpointLoaded)
       THEN /\ pc' = [p \in Procs |-> IF p = Main THEN "pool" ELSE "top"]
            /\ UNCHANGED runError
       ELSE Goto(Main, "close") /\ runError' = TRUE
    /\ UNCHANGED <<control, pool, cell, returned, writers, disk, lease,
                   checkpointLoaded, checkpointBroken, identityConflict,
                   tally, pauseStarts>>

\* The database does not open: a preflight outcome with every cell unstarted
\* is written (best effort) unless one exists, and the run fails.
DatabasePreflightFails ==
    /\ pc[Main] = "open"
    /\ "open" \in Faults
    /\ outcome' \in {outcome} \cup
           (IF outcome # NoOutcome THEN {}
            ELSE {[status |-> "failed", orchestrationFailure |-> TRUE,
                   entries |-> [c \in Cells |-> OutcomeEntry("none", "pending")]]})
    /\ runError' = TRUE
    /\ Goto(Main, "release")
    /\ UNCHANGED <<control, pool, cell, returned, writers, ckpt, db, files, session,
                   checkpointBroken, identityConflict, tally, pauseStarts>>
-----------------------------------------------------------------------------
(* The worker loop *)

GateIgnored == TRUE
GateOpen == ~(isPaused /\ resumer)

\* while (cellQueue.length > 0 && !aborted) await waitIfPaused(): the promise
\* awaited is the one of the pause in force now, so a later pause does not
\* hold a worker that already passed.
LoopTop(w) ==
    /\ pc[w] = "top"
    /\ Goto(w, IF queue = {} \/ aborted THEN "exited"
               ELSE IF GateOpen THEN "ready"
               ELSE "parked")
    /\ UNCHANGED <<control, pool, cell, returned, writers, disk, session,
                   flags, tally, pauseStarts>>

\* A cell the limits admit: cellQueue.findIndex(...).
EligibleForProvider(c) ==
    /\ c \in queue
    /\ providerInFlight[ProviderOf[c]] < ProviderLimit

Eligible(c) ==
    /\ c \in queue
    /\ modelInFlight[ModelOf[c]] < ModelLimit[ModelOf[c]]
    /\ providerInFlight[ProviderOf[c]] < ProviderLimit

FirstEligible(c) == Eligible(c) /\ \A d \in Cells : Eligible(d) => c <= d

\* if (input.signal.aborted) return, after the gate.
StartAnyway == TRUE
MayStart == ~aborted

\* The gate opened: leave if aborted, else wait 50ms if nothing is eligible.
PassGate(w) ==
    /\ pc[w] = "ready"
    /\ ~MayStart \/ \A c \in Cells : ~Eligible(c)
    /\ Goto(w, IF ~MayStart THEN "exited" ELSE "retry")
    /\ UNCHANGED <<control, pool, cell, returned, writers, disk, session,
                   flags, tally, pauseStarts>>

\* waitForRetry(50, signal) ends, by its timer or by the signal.
RetryElapsed(w) ==
    /\ pc[w] = "retry"
    /\ Goto(w, IF aborted THEN "exited" ELSE "top")
    /\ UNCHANGED <<control, pool, cell, returned, writers, disk, session,
                   flags, tally, pauseStarts>>

\* cellQueue.splice / cellQueue.shift.
Peek(c) == UNCHANGED queue
Take(c) == queue' = queue \ {c}

\* results.push of one public result, with the counter that goes with it.
Push(c, published) ==
    /\ results' = [results EXCEPT ![c] = Append(@, published)]
    /\ counts' = [counts EXCEPT ![published] = @ + 1]

\* executeCell of a cell the checkpoint has completed.
SkipCell(c) ==
    /\ c \in ckpt.completed
    /\ Take(c)
    /\ Push(c, "skipped")
    /\ UNCHANGED <<control, modelInFlight, providerInFlight, inFlight, cell,
                   returned, writers, disk, session, flags, durableRecords,
                   pauseStarts>>

SkipByWorker(w) ==
    /\ pc[w] = "ready"
    /\ MayStart
    /\ \E c \in Cells : FirstEligible(c) /\ SkipCell(c)
    /\ Goto(w, "top")

Occupy(c) ==
    /\ modelInFlight' = [modelInFlight EXCEPT ![ModelOf[c]] = @ + 1]
    /\ providerInFlight' = [providerInFlight EXCEPT ![ProviderOf[c]] = @ + 1]
    /\ inFlight' = inFlight + 1

Decrement(n) == IF n = 0 THEN 0 ELSE n - 1

VacateTwice(c) ==
    /\ modelInFlight' = [modelInFlight EXCEPT ![ModelOf[c]] = @ - 2]
    /\ providerInFlight' = [providerInFlight EXCEPT ![ProviderOf[c]] = @ - 2]
    /\ inFlight' = inFlight - 2

Vacate(c) ==
    /\ modelInFlight' = [modelInFlight EXCEPT ![ModelOf[c]] = Decrement(@)]
    /\ providerInFlight' =
           [providerInFlight EXCEPT ![ProviderOf[c]] = Decrement(@)]
    /\ inFlight' = Decrement(inFlight)

\* claimRunIdentity: the first synchronous step of a cell.  A row of runs or
\* run_claims is a conflict; any other database error is thrown.  What the
\* claimed run then writes while it executes is not told apart.
ClaimOverRecord(p, c) ==
    /\ dbOpen
    /\ db' = [db EXCEPT ![c] = "claimed"]
    /\ files' = [files EXCEPT ![c] = "some"]
    /\ Goto(p, "exec")
    /\ UNCHANGED returned

Claim(p, c) ==
    \/ /\ dbOpen
       /\ db[c] = "none"
       /\ db' = [db EXCEPT ![c] = "claimed"]
       /\ files' = [files EXCEPT ![c] = "some"]
       /\ Goto(p, "exec")
       /\ UNCHANGED returned
    \/ /\ dbOpen
       /\ db[c] # "none"
       /\ returned' = [returned EXCEPT ![p] = "conflict"]
       /\ Goto(p, "returned")
       /\ UNCHANGED <<db, files>>

ClaimThrows == ~dbOpen \/ "claim" \in Faults

Dispatch(w) ==
    /\ pc[w] = "ready"
    /\ MayStart
    /\ \E c \in Cells :
           /\ FirstEligible(c)
           /\ c \notin ckpt.completed
           /\ Take(c)
           /\ cell' = [cell EXCEPT ![w] = c]
           /\ Occupy(c)
           /\ Claim(w, c)
    /\ pauseStarts' = IF isPaused THEN [pauseStarts EXCEPT ![w] = @ + 1]
                      ELSE pauseStarts
    /\ UNCHANGED <<control, writers, ckpt, outcome, session, flags, tally>>

\* The claim throws: the finally block undoes the counters, the worker's
\* promise rejects, and the cell is neither queued nor published.
DispatchThrows(w) ==
    /\ pc[w] = "ready"
    /\ MayStart
    /\ ClaimThrows
    /\ \E c \in Cells :
           /\ FirstEligible(c)
           /\ c \notin ckpt.completed
           /\ Take(c)
           /\ cell' = [cell EXCEPT ![w] = c]
    /\ Goto(w, "threw")
    /\ UNCHANGED <<control, modelInFlight, providerInFlight, inFlight,
                   returned, writers, disk, session, flags, tally,
                   pauseStarts>>
-----------------------------------------------------------------------------
(* One cell, by a worker or by the drain *)

\* The terminal status of an execution, decided in the same task that
\* persists it: success only if the signal is not aborted by then.  A drained
\* cell is not executed, its status is aborted.
TerminalStatus(p) ==
    IF p = Main THEN {"aborted"}
    ELSE IF aborted THEN {"failed", "timed_out", "aborted"}
    ELSE {"completed", "failed", "timed_out"}

\* The artifacts of an ended run need not agree with its row and with what the
\* checkpoint will hold: the signal is read again after the run has ended, a
\* failed disposal overrides its result, a scenario that does not load leaves no
\* manifest, the checkpoint's copy of the record is sanitized.  CellExecution
\* says when; here it is a choice, for the instances that name it a fault.
LeaveArtifacts(c) ==
    \E f \in {"agree", "differ"} :
        /\ f = "differ" => "artifacts" \in Faults
        /\ files' = [files EXCEPT ![c] = f]

\* persistTerminalCell succeeds: run record and result artifact are durable.
FinishCell(p) ==
    /\ pc[p] = "exec"
    /\ dbOpen
    /\ \E s \in TerminalStatus(p) :
           /\ db' = [db EXCEPT ![cell[p]] = s]
           /\ returned' = [returned EXCEPT ![p] = s]
    /\ LeaveArtifacts(cell[p])
    /\ Goto(p, "returned")
    /\ UNCHANGED <<control, pool, cell, writers, ckpt, outcome, session,
                   flags, tally, pauseStarts>>

\* createPersistenceFailureResult: the status of its record.
FailureKeepsStatus == "completed"
FailureStatus == "failed"

\* The manifest, the artifact or the transaction failed.  The failure record
\* is inserted if the database allows; the result carries a record either way.
\* The failure file is written, or not, before the row.
PersistenceFails(p) ==
    /\ pc[p] = "exec"
    /\ ~dbOpen \/ Faults \cap {"evidence", "save"} # {}
    /\ returned' = [returned EXCEPT ![p] = FailureStatus]
    /\ LeaveArtifacts(cell[p])
    /\ \/ dbOpen /\ db' = [db EXCEPT ![cell[p]] = "failed"]
       \/ (~dbOpen \/ "save" \in Faults) /\ UNCHANGED db
    /\ Goto(p, "returned")
    /\ UNCHANGED <<control, pool, cell, writers, ckpt, outcome, session,
                   flags, tally, pauseStarts>>

\* The record is kept for the outcome.
Remember(p) ==
    durableRecords' = IF returned[p] \in RecordStatus
                      THEN [durableRecords EXCEPT ![cell[p]] = returned[p]]
                      ELSE durableRecords

\* The coroutine is done with its cell: a worker leaves executeScheduledCell
\* and loops, the drain takes the next cell.
Leave(p) ==
    /\ cell' = [cell EXCEPT ![p] = NoCell]
    /\ returned' = [returned EXCEPT ![p] = "none"]
    /\ IF p = Main
       THEN UNCHANGED <<modelInFlight, providerInFlight, inFlight>>
       ELSE Vacate(cell[p])

After(p) == IF p = Main THEN "drain" ELSE "top"

\* recordCellResult up to its first await: queue behind the write lock.
RequestCheckpoint(p) ==
    /\ pc[p] = "returned"
    /\ ~checkpointBroken
    /\ returned[p] # "conflict"
    /\ writers' = Append(writers, p)
    /\ Goto(p, "write")
    /\ UNCHANGED <<control, pool, cell, returned, disk, session, flags, tally,
                   pauseStarts>>

\* recordCellResult of an identity conflict: the signal is aborted, and only
\* the signal: a parked worker stays parked.
RecordConflict(p) ==
    /\ pc[p] = "returned"
    /\ ~checkpointBroken
    /\ returned[p] = "conflict"
    /\ identityConflict' = TRUE
    /\ aborted' = TRUE
    /\ Push(cell[p], "failed")
    /\ Goto(p, After(p))
    /\ Leave(p)
    /\ UNCHANGED <<status, isPaused, resumer, queue, writers, disk, session,
                   checkpointBroken, runError, durableRecords, pauseStarts>>

\* recordCheckpointFailure, for a write that failed and for every result that
\* arrives once one has.
RecordCheckpointFailure(p) ==
    /\ \/ pc[p] = "unwritten"
       \/ pc[p] = "returned" /\ checkpointBroken
    /\ checkpointBroken' = TRUE
    /\ aborted' = TRUE
    /\ Remember(p)
    /\ Push(cell[p], "failed")
    /\ Goto(p, After(p))
    /\ Leave(p)
    /\ UNCHANGED <<status, isPaused, resumer, queue, writers, disk, session,
                   identityConflict, runError, pauseStarts>>

OwnsLock(p) == writers # <<>> /\ Head(writers) = p

\* The owner of the write lock writes the snapshot; the ledger's state
\* follows the file, and the finally block hands the lock on.
WriteCheckpoint(p) ==
    /\ pc[p] = "write"
    /\ OwnsLock(p)
    /\ writers' = Tail(writers)
    /\ ckpt' = CheckpointWith(ckpt, cell[p], returned[p])
    /\ Goto(p, "written")
    /\ UNCHANGED <<control, pool, cell, returned, db, files, outcome, session, flags,
                   tally, pauseStarts>>

CheckpointFailsLocked(p) ==
    /\ pc[p] = "write"
    /\ OwnsLock(p)
    /\ "checkpoint" \in Faults
    /\ Goto(p, "unwritten")
    /\ UNCHANGED <<control, pool, cell, returned, writers, disk, session,
                   flags, tally, pauseStarts>>

\* The write fails: file and ledger keep what they had.
CheckpointFails(p) ==
    /\ pc[p] = "write"
    /\ OwnsLock(p)
    /\ "checkpoint" \in Faults
    /\ writers' = Tail(writers)
    /\ Goto(p, "unwritten")
    /\ UNCHANGED <<control, pool, cell, returned, disk, session, flags, tally,
                   pauseStarts>>

\* The rest of recordCellResult.  The first failure may abort the sweep.
Publish(p) ==
    /\ pc[p] = "written"
    /\ Remember(p)
    /\ Push(cell[p], Public(returned[p]))
    /\ Leave(p)
    /\ IF /\ StopOnFirstFailure
          /\ Public(returned[p]) = "failed"
          /\ ~aborted
       THEN /\ status' = "aborted"
            /\ aborted' = TRUE
            /\ resumer' = FALSE
            /\ pc' = [OpenGate(pc) EXCEPT ![p] = After(p)]
       ELSE Goto(p, After(p)) /\ UNCHANGED <<status, aborted, resumer>>
    /\ UNCHANGED <<isPaused, queue, writers, disk, session, flags,
                   pauseStarts>>
-----------------------------------------------------------------------------
(* executeRun after the pool *)

\* Promise.all over the workers.
FirstWorkerExited == \E w \in Workers : pc[w] = "exited"

PoolSettled == \A w \in Workers : pc[w] = "exited"

PoolDone ==
    /\ pc[Main] = "pool"
    /\ PoolSettled
    /\ Goto(Main, IF aborted THEN "drain" ELSE "finalize")
    /\ UNCHANGED <<control, pool, cell, returned, writers, disk, session,
                   flags, tally, pauseStarts>>

\* Promise.all rejects with the first worker, whatever the others are doing.
PoolRejects ==
    /\ pc[Main] = "pool"
    /\ \E w \in Workers : pc[w] = "threw"
    /\ runError' = TRUE
    /\ Goto(Main, "close")
    /\ UNCHANGED <<control, pool, cell, returned, writers, disk, session,
                   checkpointBroken, identityConflict, tally, pauseStarts>>

FirstPlanned(c) ==
    c \notin ckpt.completed /\ \A d \in Cells \ ckpt.completed : c <= d

FirstQueued(c) == c \in queue /\ \A d \in queue : c <= d

SkipByDrain ==
    /\ pc[Main] = "drain"
    /\ \E c \in Cells : FirstQueued(c) /\ SkipCell(c)
    /\ UNCHANGED pc

\* terminalizeAbortedCell.
Drain ==
    /\ pc[Main] = "drain"
    /\ \E c \in Cells :
           /\ FirstQueued(c)
           /\ c \notin ckpt.completed
           /\ Take(c)
           /\ cell' = [cell EXCEPT ![Main] = c]
           /\ Claim(Main, c)
    /\ UNCHANGED <<control, modelInFlight, providerInFlight, inFlight,
                   writers, ckpt, outcome, session, flags, tally,
                   pauseStarts>>

DrainThrows ==
    /\ pc[Main] = "drain"
    /\ ClaimThrows
    /\ \E c \in Cells :
           /\ FirstQueued(c)
           /\ c \notin ckpt.completed
           /\ Take(c)
           /\ cell' = [cell EXCEPT ![Main] = c]
    /\ runError' = TRUE
    /\ Goto(Main, "close")
    /\ UNCHANGED <<control, modelInFlight, providerInFlight, inFlight,
                   returned, writers, disk, session, checkpointBroken,
                   identityConflict, tally, pauseStarts>>

DrainDone ==
    /\ pc[Main] = "drain"
    /\ queue = {}
    /\ Goto(Main, "finalize")
    /\ UNCHANGED <<control, pool, cell, returned, writers, disk, session,
                   flags, tally, pauseStarts>>

LastPublished(c) ==
    IF results[c] = <<>> THEN "pending" ELSE results[c][Len(results[c])]

\* resolveTerminalStatus.
TerminalSweepStatus ==
    IF checkpointBroken \/ identityConflict THEN "failed"
    ELSE IF aborted THEN "aborted"
    ELSE IF counts.failed > 0 THEN "failed"
    ELSE "completed"

\* finalizeSweepExecution: the outcome is written once, and only by a run
\* that loaded no checkpoint; if it cannot be written the run throws.
Finalize ==
    /\ pc[Main] = "finalize"
    /\ checkpointLoaded \/ outcome = NoOutcome
    /\ status' = TerminalSweepStatus
    /\ outcome' =
         IF checkpointLoaded THEN outcome
         ELSE [status |-> TerminalSweepStatus,
               orchestrationFailure |-> checkpointBroken \/ identityConflict,
               entries |-> [c \in Cells |->
                   OutcomeEntry(durableRecords[c], LastPublished(c))]]
    /\ Goto(Main, "close")
    /\ UNCHANGED <<isPaused, resumer, aborted, pool, cell, returned, writers,
                   ckpt, db, files, session, flags, tally, pauseStarts>>

FinalizeThrows ==
    /\ pc[Main] = "finalize"
    /\ ~checkpointLoaded
    /\ outcome # NoOutcome \/ "outcome" \in Faults
    /\ runError' = TRUE
    /\ Goto(Main, "close")
    /\ UNCHANGED <<control, pool, cell, returned, writers, disk, session,
                   checkpointBroken, identityConflict, tally, pauseStarts>>

CloseDatabase ==
    /\ pc[Main] = "close"
    /\ dbOpen' = FALSE
    /\ Goto(Main, "release")
    /\ UNCHANGED <<control, pool, cell, returned, writers, disk, lease,
                   checkpointLoaded, flags, tally, pauseStarts>>

\* sweepLease.release(), then the catch block of run().
ReleaseLease ==
    /\ pc[Main] = "release"
    /\ \/ lease' = FALSE /\ UNCHANGED runError
       \/ /\ "release" \in Faults
          /\ lease' \in BOOLEAN
          /\ runError' = TRUE
    /\ status' = IF runError' /\ status # "aborted" THEN "failed" ELSE status
    /\ Goto(Main, "done")
    /\ UNCHANGED <<isPaused, resumer, aborted, pool, cell, returned, writers,
                   disk, dbOpen, checkpointLoaded, checkpointBroken,
                   identityConflict, tally, pauseStarts>>
-----------------------------------------------------------------------------
CellStep(p) ==
    \/ FinishCell(p)
    \/ PersistenceFails(p)
    \/ RequestCheckpoint(p)
    \/ RecordConflict(p)
    \/ RecordCheckpointFailure(p)
    \/ WriteCheckpoint(p)
    \/ CheckpointFails(p)
    \/ Publish(p)

WorkerStep(w) ==
    \/ LoopTop(w)
    \/ PassGate(w)
    \/ RetryElapsed(w)
    \/ SkipByWorker(w)
    \/ Dispatch(w)
    \/ DispatchThrows(w)
    \/ CellStep(w)

MainStep ==
    \/ AcquireLease
    \/ BindPlan
    \/ OpenDatabase
    \/ DatabasePreflightFails
    \/ PoolDone
    \/ PoolRejects
    \/ SkipByDrain
    \/ Drain
    \/ DrainThrows
    \/ DrainDone
    \/ CellStep(Main)
    \/ Finalize
    \/ FinalizeThrows
    \/ CloseDatabase
    \/ ReleaseLease

Caller == Pause \/ Resume \/ Abort

\* The run is over and no worker is left behind: what remains is idle.
Settled == /\ pc[Main] = "done"
           /\ \A w \in Workers : pc[w] \in {"idle", "exited", "threw"}

Terminated == Settled /\ UNCHANGED vars

Next == (\E w \in Workers : WorkerStep(w)) \/ MainStep \/ Caller \/ Terminated

Spec == Init /\ [][Next]_vars

\* Each coroutine the event loop has made runnable is run; a cell's execution
\* ends because runs have a wall-clock limit.  Callers promise nothing.
Fairness == WF_vars(MainStep) /\ \A w \in Workers : WF_vars(WorkerStep(w))

FairSpec == Spec /\ Fairness
-----------------------------------------------------------------------------
(* Type correctness *)

ControlOK ==
    /\ status \in {"running", "paused", "aborted", "failed", "completed"}
    /\ isPaused \in BOOLEAN
    /\ resumer \in BOOLEAN
    /\ aborted \in BOOLEAN

PoolOK ==
    /\ queue \subseteq Cells
    /\ modelInFlight \in [Models -> Nat]
    /\ providerInFlight \in [Providers -> Nat]
    /\ inFlight \in Nat

CoroutinesOK ==
    /\ pc \in [Procs -> WorkerPc \cup MainPc \cup Executing]
    /\ cell \in [Procs -> Cells \cup {NoCell}]
    /\ returned \in [Procs -> CellResult]
    /\ writers \in Seq(Procs)
    /\ \A p \in Procs :
           /\ pc[p] \in Executing => cell[p] \in Cells
           /\ pc[p] = "returned" => returned[p] # "none"
           /\ pc[p] \in {"write", "written", "unwritten"} =>
                  returned[p] \in RecordStatus

EvidenceOK ==
    /\ ckpt \in [Kinds -> SUBSET Cells]
    /\ db \in [Cells -> DbRow]
    /\ files \in [Cells -> RunFiles]

FlagsOK ==
    /\ dbOpen \in BOOLEAN
    /\ lease \in BOOLEAN
    /\ checkpointLoaded \in BOOLEAN
    /\ checkpointBroken \in BOOLEAN
    /\ identityConflict \in BOOLEAN
    /\ runError \in BOOLEAN

TallyOK ==
    /\ results \in [Cells -> Seq(PublicStatus)]
    /\ durableRecords \in [Cells -> RecordStatus \cup {"none"}]
    /\ counts \in [PublicStatus -> Nat]
    /\ pauseStarts \in [Workers -> Nat]

\* Every variable holds a value of its type, the counters of cells in flight
\* never go below zero, and a coroutine that executes holds a cell.
TypeOK == ControlOK /\ PoolOK /\ CoroutinesOK /\ EvidenceOK /\ FlagsOK /\ TallyOK
-----------------------------------------------------------------------------
(* Safety *)

Running(p) == pc[p] \in Executing

\* A planned cell is in exactly one place: queued, held by one coroutine, or
\* published once.  Workers pick cells between awaits and the drain takes over
\* the same queue, so a cell run twice, or dropped, would show here.
CellConservation ==
    \A c \in Cells :
        /\ Len(results[c]) <= 1
        /\ c \in queue =>
               results[c] = <<>> /\ \A p \in Procs : cell[p] # c
        /\ \A p \in Procs : cell[p] = c =>
               /\ results[c] = <<>>
               /\ \A q \in Procs : cell[q] = c => q = p
        /\ c \in queue \/ (\E p \in Procs : cell[p] = c) \/ results[c] # <<>>

\* A coroutine between cells holds none, and the workers have not started
\* before the database is open.
BetweenCells == {"idle", "top", "parked", "ready", "retry", "exited", "lease",
                 "plan", "open", "pool", "drain", "finalize"}

IdleHoldsNothing ==
    /\ \A p \in Procs : pc[p] \in BetweenCells => cell[p] = NoCell
    /\ pc[Main] \in {"lease", "plan", "open"} =>
           \A w \in Workers : pc[w] = "idle"

\* The three counters of the pool say how many cells are executing, and no
\* model, provider or sweep runs more than its limit.
InFlightWithinLimits ==
    /\ inFlight = Cardinality({w \in Workers : Running(w)})
    /\ \A m \in Models :
           LET n == Cardinality({w \in Workers :
                        Running(w) /\ ModelOf[cell[w]] = m})
           IN modelInFlight[m] = n /\ n <= ModelLimit[m]
    /\ \A v \in Providers :
           LET n == Cardinality({w \in Workers :
                        Running(w) /\ ProviderOf[cell[w]] = v})
           IN providerInFlight[v] = n /\ n <= ProviderLimit

\* Nothing reports a cell completed before the database holds its completed
\* run record: not the checkpoint, not the public results, not the outcome, and
\* not a run that returns "completed", which completed every cell with no error.
CompletedIsDurable ==
    /\ pc[Main] = "done" /\ status = "completed" =>
           ckpt.completed = Cells /\ ~runError /\ ~checkpointBroken /\ ~identityConflict
    /\ \A c \in ckpt.completed : db[c] = "completed"
    /\ \A c \in Cells :
           LastPublished(c) = "completed" => db[c] = "completed"
    /\ ~checkpointLoaded /\ outcome # NoOutcome =>
           \A c \in Cells :
               outcome.entries[c].status = "completed" => db[c] = "completed"

\* What a run reports is true: completed cells are durable, the progress counters
\* agree with the published results at every await, and a run that finalized has
\* a result for every cell; an abort, a drain, a broken checkpoint or a resumed
\* run loses none.
ReportsAreTrue ==
    /\ CompletedIsDurable
    /\ \A k \in PublicStatus :
           counts[k] = Cardinality({c \in Cells : LastPublished(c) = k})
    /\ pc[Main] = "finalize" => \A c \in Cells : Len(results[c]) = 1

QuietAtEnd ==
    pc[Main] \in {"close", "release", "done"} /\ ~runError =>
        /\ writers = <<>>
        /\ \A w \in Workers : pc[w] = "exited"
        /\ \A p \in Procs : cell[p] = NoCell

\* The lease covers the work: the database is closed before the lease is
\* released, so no row is written without it.  Promise.all does not wait for the
\* siblings of a worker that threw: then, and only then, cells may still execute
\* when the lease is gone, and what they report goes to the checkpoint.  A run
\* that ended in the regular way left the write lock free, every worker out of
\* its loop, and no cell in anybody's hands.
LeaseCoversWork ==
    /\ dbOpen => lease
    /\ (\E p \in Procs : Running(p)) /\ ~lease =>
           runError /\ \E w \in Workers : pc[w] = "threw"
    /\ QuietAtEnd

\* The evidence a finished run leaves, when no write of the run itself failed,
\* is accepted by the validation of a resumed run exactly if every cell has its
\* record and artifacts that agree with it (when they do is CellExecution's
\* Reconciles, whose exception is OwnCellReconciles) and the run was not aborted
\* when it had no cell left to abort: its outcome then says "aborted" over a
\* checkpoint that does not, which terminal-reconciliation.ts:95 refuses.
EvidenceReconciles ==
    pc[Main] = "done" /\ ~runError /\ ~checkpointLoaded
        /\ ~checkpointBroken /\ ~identityConflict =>
    (/\ CheckpointReconciles(ckpt, db, files)
     /\ OutcomeReconciles(outcome, ckpt, db, TRUE)
     <=>
     /\ \A c \in Cells : db[c] \in RecordStatus /\ files[c] = "agree"
     /\ outcome.status = "aborted" => \E c \in Cells : db[c] = "aborted")

\* Between a pause and the resume or abort that ends it, a worker starts at
\* most the one cell whose gate it had already passed.
PauseOverrun == isPaused /\ ~aborted => \A w \in Workers : pauseStarts[w] <= 1
-----------------------------------------------------------------------------
(* Action properties *)

\* Once the signal is aborted no worker starts a cell, only the drain takes
\* cells from the queue.
NoStartAfterAbort ==
    [][aborted => \A w \in Workers : ~Running(w) => ~Running(w)']_vars

\* Evidence is final: a run record is never replaced, a claim only gives way to
\* a record, a checkpoint only grows, and an abort is never taken back.
EvidenceIsFinal ==
    [][/\ \A c \in Cells : /\ db[c] \in RecordStatus => db'[c] = db[c]
                           /\ db[c] = "claimed" => db'[c] # "none"
       /\ \A k \in DOMAIN ckpt : ckpt[k] \subseteq ckpt'[k]
       /\ aborted => aborted']_vars
-----------------------------------------------------------------------------
(* Refinement *)

\* The stage of a cell: queued, held, or its public result.
StageOf(c) == IF c \in queue THEN "queued"
              ELSE IF results[c] = <<>> THEN "held"
              ELSE LastPublished(c)

CellStages == [c \in Cells |-> StageOf(c)]

Lifecycle == INSTANCE CellLifecycle WITH Results <- Kinds, stage <- CellStages

\* Every run of the engine is a run of CellLifecycle: each cell is taken once
\* and its one result is final.
CellsFollowLifecycle == Lifecycle!Spec
-----------------------------------------------------------------------------
(* Liveness *)

Parked == \E w \in Workers : pc[w] = "parked"

\* A run ends unless a caller leaves it paused: retries for a slot, pauses and
\* resumes in any order, aborts and throws do not hang it.  An aborted run with
\* no worker parked at the gate ends even if it is never resumed.
RunEnds ==
    /\ []<>~Parked => <>(pc[Main] = "done")
    /\ (aborted /\ ~Parked) ~> (pc[Main] = "done")
-----------------------------------------------------------------------------
(* What the repository says that the code does not do *)

\* Only cells with a durable run record are reported with a record's status,
\* the others are unstarted (docs/architecture/02-execution-and-artifacts/
\* matrix-sweeps.md:9, terminal-reconciliation.ts:152).
OutcomeDurability ==
    pc[Main] = "done" /\ ~checkpointLoaded /\ outcome # NoOutcome =>
        \A c \in Cells :
            outcome.entries[c].evidenceDurable => db[c] \in RecordStatus
=============================================================================
