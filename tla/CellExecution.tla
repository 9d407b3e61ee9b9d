--------------------------- MODULE CellExecution ---------------------------
(***************************************************************************)
(* One cell of a sweep, from the claim of its run identity to its terminal *)
(* evidence: sweep/cell-execution.ts, aborted-cell-terminalization.ts,     *)
(* terminal-cell-persistence.ts, run-evidence.ts, atomic-evidence-writer.ts*)
(* and reporting/run-store.ts, over the agent loop of AgentRunner.         *)
(*                                                                         *)
(* The process may die at any step; a later process that is given the same *)
(* cell finds the claim and the files the first one left.                  *)
(***************************************************************************)
EXTENDS AgentRunner

CONSTANT MaxRetries     \* config.maxRetriesPerCell

ASSUME CellAssumption == MaxRetries \in Nat

VARIABLES
    cell,       \* the local variables of executeSweepCell and of the persistence
    container,  \* the cell holds a container of the pool
    workspace,  \* the disposable workspace directory
    claim,      \* the row of run_claims
    row,        \* the row of runs: its termination reason
    files       \* manifest.json, result.json, terminal-failure.json, temporary

resources == <<container, workspace>>
evidence == <<claim, row, files>>
vars == <<cell, resources, evidence, runnerVars, scribeVars>>

None == "none"

Entry == [at |-> "start", attempt |-> 0, infra |-> FALSE, result |-> None,
          reason |-> None, prefer |-> FALSE, returned |-> None]

Init ==
    /\ RunnerInit
    /\ cell = Entry
    /\ container = FALSE
    /\ workspace = "absent"
    /\ claim = FALSE
    /\ row = None
    /\ files = [manifest |-> FALSE, result |-> None, failure |-> None, temp |-> FALSE]

(* An operation that fails for this reason, or by a fault. *)
FailsFor(reason) == IF reason THEN NoFault ELSE Fault

Goto(place) == cell' = [cell EXCEPT !.at = place]
Return(status) == cell' = [cell EXCEPT !.at = "done", !.returned = status]

(* mapTerminalStatus and the public status of createCellResult *)
StatusOf(reason) ==
    IF reason = "success" THEN "completed"
    ELSE IF reason = "aborted" THEN "aborted" ELSE "failed"

(***************************************************************************)
(* claimRunIdentity.  A sweep that is already aborted terminalises the     *)
(* cell without running it.                                                *)
(***************************************************************************)
Taken == claim \/ row # None

ClaimIdentity ==
    /\ cell.at = "start"
    /\ \/ Taken /\ Return("conflict") /\ NoFault /\ UNCHANGED claim
       \/ /\ ~Taken
          /\ claim' = TRUE
          /\ Goto(IF aborted THEN "terminalize" ELSE "prepare")
          /\ NoFault
       \/ Fault /\ Return("thrown") /\ UNCHANGED claim
    /\ UNCHANGED <<resources, row, files, runnerVars, logVars>>

(* persistTerminalFailure: the manifest could not be written. *)
NoManifest ==
    /\ Fault
    /\ cell' = [cell EXCEPT !.at = "failureFile", !.reason = "persistence_failed", !.prefer = TRUE]
    /\ UNCHANGED files

Manifest == NoFault /\ files' = [files EXCEPT !.manifest = TRUE]

(* terminalizeAbortedSweepCell *)
Terminalize ==
    /\ cell.at = "terminalize"
    /\ \/ Manifest /\ cell' = [cell EXCEPT !.at = "insert", !.reason = "aborted"]
       \/ NoManifest
    /\ UNCHANGED <<resources, claim, row, runnerVars, logVars>>

Infrastructure == Fault /\ cell' = [cell EXCEPT !.at = "dispose", !.infra = TRUE]

(* The layout, the scenario and the adapter's mode, then the manifest. *)
Prepare ==
    /\ cell.at = "prepare"
    /\ \/ Manifest /\ Goto("workspace")
       \/ NoManifest
       \/ Infrastructure /\ UNCHANGED files
    /\ UNCHANGED <<resources, claim, row, runnerVars, logVars>>

(* createDisposableWorkspace; one that fails half way is never disposed of. *)
MakeWorkspace ==
    /\ cell.at = "workspace"
    /\ \/ workspace' = "open" /\ Goto("attempt") /\ NoFault
       \/ workspace' \in {"absent", "partial"} /\ Infrastructure
    /\ UNCHANGED <<container, evidence, runnerVars, logVars>>

(***************************************************************************)
(* The attempts.  Each opens a scribe on the same log.                     *)
(***************************************************************************)
BeginAttempt ==
    /\ cell.at = "attempt"
    /\ ~aborted
    /\ cell' = [cell EXCEPT !.attempt = @ + 1, !.at = IF local THEN "running" ELSE "acquire"]
    /\ IF local THEN StartRun(cell.attempt + 1) ELSE UNCHANGED <<runnerVars, scribeVars>>
    /\ UNCHANGED <<resources, evidence>>

AttemptsAborted ==
    /\ cell.at = "attempt"
    /\ aborted
    /\ Goto("dispose")
    /\ UNCHANGED <<resources, evidence, runnerVars, scribeVars>>

AcquireContainer ==
    /\ cell.at = "acquire"
    /\ \/ /\ container' = TRUE
          /\ IF aborted
             THEN Goto("release") /\ UNCHANGED <<runnerVars, scribeVars>>
             ELSE Goto("running") /\ StartRun(cell.attempt)
       \/ /\ FailsFor(aborted)
          /\ Goto("decide")
          /\ UNCHANGED <<container, runnerVars, logVars>>
    /\ UNCHANGED <<workspace, evidence>>

(* runnerEngine.run settles once the scribe is closed. *)
RunSettles ==
    /\ cell.at = "running"
    /\ run.at = "close"
    /\ \/ ReturnsResult /\ cell' = [cell EXCEPT !.at = "release", !.result = run.reason]
       \/ Throws /\ Goto("release")
    /\ run' = NoRun
    /\ scopes' = NoCauses
    /\ UNCHANGED <<aborted, operations, local, resources, evidence>>

(* release tears the container down, and with it whatever runs inside. *)
ReleaseContainer ==
    /\ cell.at = "release"
    /\ \/ /\ container' = FALSE
          /\ operations' = IF container THEN {} ELSE operations
          /\ Goto("decide")
          /\ NoFault
       \/ /\ container
          /\ Fault
          /\ cell' = [cell EXCEPT !.at = "decide", !.infra = TRUE]
          /\ UNCHANGED <<container, operations>>
    /\ UNCHANGED <<workspace, evidence, aborted, scopes, run, local, logVars>>

(* The break at the end of the loop body, and the loop's own condition. *)
Decide ==
    /\ cell.at = "decide"
    /\ Goto(IF cell.infra \/ cell.result # None \/ aborted \/ cell.attempt > MaxRetries
            THEN "dispose" ELSE "attempt")
    /\ UNCHANGED <<resources, evidence, runnerVars, scribeVars>>

(* A variant: the outcome of the run stands whatever became of its container. *)
ReasonOfRun ==
    IF cell.result = "timeout" THEN "timeout"
    ELSE IF aborted THEN "aborted"
    ELSE IF cell.result # None THEN cell.result ELSE "error"

(* resolveTerminationReason, read when the workspace is gone. *)
TerminationReason ==
    IF cell.infra THEN "error"
    ELSE IF cell.result = "timeout" THEN "timeout"
    ELSE IF aborted THEN "aborted"
    ELSE IF cell.result # None THEN cell.result ELSE "error"

(* A command that is still being killed may make the removal fail. *)
Dispose ==
    /\ cell.at = "dispose"
    /\ \/ /\ workspace' = IF workspace = "open" THEN "absent" ELSE workspace
          /\ cell' = [cell EXCEPT !.at = "insert", !.reason = TerminationReason]
          /\ NoFault
       \/ /\ workspace = "open"
          /\ FailsFor(local /\ operations # {})
          /\ cell' = [cell EXCEPT !.at = "insert", !.reason = "error", !.infra = TRUE]
          /\ UNCHANGED workspace
    /\ UNCHANGED <<container, evidence, runnerVars, logVars>>

(***************************************************************************)
(* persistTerminalCell: one transaction inserts the row, removes the claim *)
(* and publishes result.json; no other callback runs in between, but the   *)
(* process may die and each step may fail.                                 *)
(***************************************************************************)
ToFailureFile(prefer) == cell' = [cell EXCEPT !.at = "failureFile", !.prefer = prefer]

(* A variant: the row is committed before the artifact is published. *)
InsertAndCommit ==
    /\ cell.at = "insert"
    /\ row' = cell.reason
    /\ claim' = FALSE
    /\ Goto("publish")
    /\ UNCHANGED <<resources, files, runnerVars, scribeVars>>

(* saveRunRecord takes any error after the INSERT for an identity conflict. *)
InsertRow ==
    /\ cell.at = "insert"
    /\ \/ Goto("publish") /\ NoFault
       \/ Fault /\ ToFailureFile(FALSE)
       \/ Fault /\ Return("conflict")
    /\ UNCHANGED <<resources, evidence, runnerVars, logVars>>

(* commitEvidence up to the link of the temporary file to its name. *)
PublishResult ==
    /\ cell.at = "publish"
    /\ \/ /\ files.result = None
          /\ files' = [files EXCEPT !.result = cell.reason, !.temp = TRUE]
          /\ Goto("unlink")
          /\ NoFault
       \/ /\ Fault
          /\ files' \in {files, [files EXCEPT !.temp = TRUE]}
          /\ ToFailureFile(FALSE)
    /\ UNCHANGED <<resources, claim, row, runnerVars, logVars>>

(* The rest of commitEvidence: the temporary name goes, now or in finally. *)
UnlinkTemporary ==
    /\ cell.at = "unlink"
    /\ \/ files' = [files EXCEPT !.temp = FALSE] /\ Goto("commit") /\ NoFault
       \/ files' \in {files, [files EXCEPT !.temp = FALSE]} /\ Goto("discard") /\ Fault
    /\ UNCHANGED <<resources, claim, row, runnerVars, logVars>>

CommitRow ==
    /\ cell.at = "commit"
    /\ \/ /\ row' = cell.reason
          /\ claim' = FALSE
          /\ Return(StatusOf(cell.reason))
          /\ NoFault
       \/ Fault /\ Goto("discard") /\ UNCHANGED <<row, claim>>
    /\ UNCHANGED <<resources, files, runnerVars, logVars>>

(* discardCommittedRunResult wants the only link of the file it published. *)
DiscardResult ==
    /\ cell.at = "discard"
    /\ \/ /\ ~files.temp
          /\ files' = [files EXCEPT !.result = None]
          /\ ToFailureFile(TRUE)
          /\ NoFault
       \/ files.temp /\ ToFailureFile(FALSE) /\ NoFault /\ UNCHANGED files
       \/ /\ Fault
          /\ files' \in {files, [files EXCEPT !.result = None]}
          /\ ToFailureFile(FALSE)
    /\ UNCHANGED <<resources, claim, row, runnerVars, logVars>>

(* createPersistenceFailureResult: a file that says so, under either name. *)
FailureFile ==
    /\ cell.at = "failureFile"
    /\ cell' = [cell EXCEPT !.at = "failureRow", !.reason = "persistence_failed"]
    /\ \/ /\ cell.prefer /\ files.result = None
          /\ files' = [files EXCEPT !.result = "persistence_failed"]
          /\ NoFault
       \/ /\ FailsFor(~cell.prefer \/ files.result # None)
          /\ files' = [files EXCEPT !.failure = "persistence_failed"]
       \/ Fault /\ UNCHANGED files
    /\ UNCHANGED <<resources, claim, row, runnerVars, logVars>>

(* Outside a transaction the row may be there and the claim too. *)
FailureRow ==
    /\ cell.at = "failureRow"
    /\ cell' = [cell EXCEPT !.at = "done", !.returned = "failed", !.result = None]
    /\ \/ row' = "persistence_failed" /\ claim' = FALSE /\ NoFault
       \/ Fault /\ row' \in {row, "persistence_failed"} /\ UNCHANGED claim
    /\ UNCHANGED <<resources, files, runnerVars, logVars>>

(***************************************************************************)
(* The process dies: memory is lost, the database rolls back, the files    *)
(* stay.  Another process is given the cell again.                         *)
(***************************************************************************)
Crash ==
    /\ cell.at \notin {"start", "done", "dead"}
    /\ Fault
    /\ Goto("dead")
    /\ run' = NoRun
    /\ scopes' = NoCauses
    /\ scribe' = NoScribe
    /\ operations' = {}
    /\ UNCHANGED <<resources, evidence, aborted, local, log>>

Restart ==
    /\ cell.at = "dead"
    /\ cell' = Entry
    /\ aborted' = FALSE
    /\ container' = FALSE
    /\ UNCHANGED <<workspace, evidence, scopes, run, operations, local, scribeVars>>

CellStep ==
    \/ ClaimIdentity \/ Terminalize \/ Prepare \/ MakeWorkspace
    \/ BeginAttempt \/ AttemptsAborted \/ AcquireContainer \/ RunSettles
    \/ ReleaseContainer \/ Decide \/ Dispose
    \/ InsertRow \/ PublishResult \/ UnlinkTemporary \/ CommitRow \/ DiscardResult
    \/ FailureFile \/ FailureRow

(* After the cell has returned nobody listens to its signals. *)
Next ==
    \/ CellStep
    \/ Crash \/ Restart
    \/ cell.at # "dead" /\ cell.returned = None /\ RunnerStep
       /\ UNCHANGED <<cell, resources, evidence>>

(***************************************************************************)
(* Timers fire, a signal that has fired settles the wait that is raced     *)
(* against it, and the cell goes on from every wait that is over.  Nothing *)
(* makes a provider or a command answer.                                   *)
(***************************************************************************)
Fairness ==
    /\ WF_vars(CellStep)
    /\ WF_vars(ScenarioTimesOut /\ UNCHANGED <<cell, resources, evidence>>)
    /\ WF_vars((ProviderFails \/ ToolCancelled) /\ scopes.turn # "none"
               /\ UNCHANGED <<cell, resources, evidence>>)

Spec == Init /\ [][Next]_vars /\ Fairness

(***************************************************************************)
(* What a resumed sweep and the verifiers accept as the evidence of a cell *)
(* (sweep/terminal-reconciliation.ts, validateTerminalCell): a manifest, a *)
(* row, one terminal file that says the same, and the scenario result that *)
(* the checkpoint holds ended for the reason of the row.                   *)
(***************************************************************************)
Reconciles ==
    LET written == {files.result, files.failure} \ {None}
    IN  /\ files.manifest
        /\ row # None
        /\ written = {row}
        /\ files.result = None \/ files.failure = None
        /\ cell.returned = "completed" => files.result # None
        /\ cell.result # None => cell.result = row

-----------------------------------------------------------------------------
(* What is in events.jsonl of each attempt is what its scribe emitted, in  *)
(* order, without a gap and without a duplicate, and an event that is not  *)
(* there is still in the buffer: a failed append is not repeated over the  *)
(* part it wrote, and no second process appends to the log of the first.   *)
(* A result of the first attempt comes with a log that replay accepts      *)
(* (EventScribe.flush and close, claimRunIdentity, RunnerEngine.run).      *)
LogIsTrue ==
    LET Of(k, n) == Cardinality({i \in 1 .. n : log[i].by = k})
    IN  /\ \A i \in DOMAIN log : log[i].seq = Of(log[i].by, i)
        /\ scribe.open => Of(scribe.id, Len(log)) + Len(scribe.buffer) >= scribe.emitted
        /\ cell.result # None /\ cell.attempt = 1 => Canonical(log)

(* The budget is overrun by at most the answer that exhausted it, and the  *)
(* cost of a run is that of its recorded turns and, when the last turn     *)
(* failed after its answer, of that one (RunnerEngine.run).                *)
SpendAccounted ==
    run.at # "idle" =>
        /\ run.cost = 0 \/ run.cost - run.now.spent < MaxCost
        /\ run.cost - run.recorded \in {0, run.now.spent}
        /\ run.at = "close" /\ run.reason \in {"success", "max_turns", "budget_exceeded"}
              => run.recorded = run.cost

(* A cell reported as completed holds no container and no workspace, and   *)
(* in a container nothing of it is still running, not even a command whose *)
(* tool had timed out (executeSweepCell, its finally blocks).              *)
CompletedCellIsClean ==
    cell.returned = "completed" =>
        /\ ~container
        /\ workspace = "absent"
        /\ local \/ operations = {}

(* A row that reports an outcome of the run has the result.json of that    *)
(* outcome and no failure file beside it, whatever failed and whenever the *)
(* process died, and what the cell returned is what the row says; once an  *)
(* event of the cell is on disk its identity is never free again           *)
(* (persistTerminalCell, rollback, discardCommittedRunResult,              *)
(* claimRunIdentity).                                                      *)
EvidenceAgrees ==
    /\ row \notin {None, "persistence_failed"} =>
          files.result = row /\ files.failure = None
    /\ cell.returned \in {"completed", "aborted"} => StatusOf(row) = cell.returned
    /\ log # <<>> => Taken

(* The terminal evidence of a cell that met no fault reconciles: what      *)
(* scripts/operator-contract/runtime-sweep-abort.ts asks of aborted sweeps. *)
OwnCellReconciles ==
    cell.returned \in {"completed", "aborted", "failed"} /\ faults = 0 => Reconciles

(* A claimed cell ends whatever the provider, the tools and the faults do: *)
(* it returns, unless the process dies (the deadlines of the scopes).      *)
CellEnds == cell.at = "prepare" ~> cell.at \in {"done", "dead"}
=============================================================================
