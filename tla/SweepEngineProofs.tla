-------------------------- MODULE SweepEngineProofs --------------------------
(***************************************************************************)
(* Theorems about SweepEngine, for every plan, pool size, set of limits    *)
(* and set of faults: its types, what becomes of its cells, its counters,  *)
(* an abort, and durable evidence; then what it tells the outside, which   *)
(* is how far a pause is overrun, what the lease covers, that results,     *)
(* counters and outcome are true, and that the evidence of a run           *)
(* reconciles with itself.                                                 *)
(***************************************************************************)
EXTENDS SweepEngine, FiniteSetTheorems, TLAPS

\* Every result a coroutine can hold has a public status and a checkpoint set.
LEMMA Statuses ==
    \A r \in CellResult : Public(r) \in PublicStatus /\ Public(r) \in Kinds
BY DEF RecordStatus, CellResult, PublicStatus, Kinds, Public

\* The model and the provider of a cell have a counter.
LEMMA CellKeys == \A c \in Cells : ModelOf[c] \in Models /\ ProviderOf[c] \in Providers
BY DEF Models, Providers

\* Math.max(0, n - 1).
LEMMA DecrementNat == \A n \in Nat : Decrement(n) \in Nat
BY DEF Decrement

\* The initial states are well typed.
LEMMA TypeInit == Init => TypeOK
<1> SUFFICES ASSUME Init PROVE TypeOK
  OBVIOUS
<1> USE EngineAssumption
<1>1. ControlOK
  BY DEF Init, ControlOK
<1>2. PoolOK
  BY DEF Init, PoolOK
<1>3. CoroutinesOK
  BY DEF Init, CoroutinesOK, Procs, WorkerPc, MainPc, Executing, CellResult
<1>4. EvidenceOK
  <2>1. CASE FreshEvidence
    BY <2>1 DEF FreshEvidence, EmptyCheckpoint, DbRow, RunFiles, EvidenceOK
  <2>2. CASE InterruptedEvidence
    BY <2>2 DEF InterruptedEvidence, EmptyCheckpoint, DbRow, RunFiles, EvidenceOK
  <2>3. CASE FinishedEvidence
    BY <2>3 DEF FinishedEvidence, DbRow, RunFiles, EvidenceOK
  <2>4. QED BY <2>1, <2>2, <2>3 DEF Init
<1>5. FlagsOK
  BY DEF Init, FlagsOK
<1>6. TallyOK
  BY DEF Init, TallyOK, PublicStatus
<1>7. QED
  BY <1>1, <1>2, <1>3, <1>4, <1>5, <1>6 DEF TypeOK

\* Kept well typed by every step: the status, the gate and what aborts and stops the run.
LEMMA ControlStep == TypeOK /\ [Next]_vars => ControlOK'
<1> SUFFICES ASSUME TypeOK, [Next]_vars PROVE ControlOK'
  OBVIOUS
<1> USE DEF TypeOK, ControlOK, control
<1>1. ASSUME NEW p \in Procs, CellStep(p) PROVE ControlOK'
  BY <1>1 DEF CellStep, FinishCell, PersistenceFails, RequestCheckpoint,
     RecordConflict, RecordCheckpointFailure, WriteCheckpoint, CheckpointFails,
     Publish
<1>2. ASSUME NEW w \in Workers, WorkerStep(w) PROVE ControlOK'
  BY <1>1, <1>2 DEF WorkerStep, LoopTop, PassGate, RetryElapsed, SkipByWorker,
     SkipCell, Dispatch, DispatchThrows, Procs
<1>3. CASE MainStep
  BY <1>1, <1>3 DEF MainStep, AcquireLease, BindPlan, OpenDatabase,
     DatabasePreflightFails, PoolDone, PoolRejects, SkipByDrain, SkipCell,
     Drain, DrainThrows, DrainDone, Finalize, FinalizeThrows, CloseDatabase,
     ReleaseLease, TerminalSweepStatus, Procs
<1>4. CASE Caller
  BY <1>4 DEF Caller, Pause, Resume, Abort
<1>5. CASE UNCHANGED vars
  BY <1>5 DEF vars
<1>6. QED
  BY <1>2, <1>3, <1>4, <1>5 DEF Next, Terminated

\* A coroutine that takes a cell adds one to its counters.
LEMMA OccupyOK ==
    ASSUME PoolOK, NEW c \in Cells, Occupy(c), queue' \subseteq Cells
    PROVE  PoolOK'
BY CellKeys DEF PoolOK, Occupy

\* A coroutine that leaves a cell takes one away, never below zero.
LEMMA VacateOK ==
    ASSUME PoolOK, NEW c \in Cells, Vacate(c), queue' \subseteq Cells
    PROVE  PoolOK'
BY CellKeys, DecrementNat DEF PoolOK, Vacate

\* Kept well typed by every step: the queue and the counters of models and providers.
LEMMA PoolStep == TypeOK /\ [Next]_vars => PoolOK'
<1> SUFFICES ASSUME TypeOK, [Next]_vars PROVE PoolOK'
  OBVIOUS
<1> USE DEF TypeOK, pool
<1>1. ASSUME NEW p \in Procs, CellStep(p) PROVE PoolOK'
  <2>1. CASE FinishCell(p) \/ PersistenceFails(p) \/ RequestCheckpoint(p)
             \/ WriteCheckpoint(p) \/ CheckpointFails(p)
    BY <2>1 DEF FinishCell, PersistenceFails, RequestCheckpoint,
       WriteCheckpoint, CheckpointFails, PoolOK
  <2>2. CASE RecordConflict(p) \/ RecordCheckpointFailure(p) \/ Publish(p)
    <3>1. queue' = queue /\ Leave(p)
      BY <2>2 DEF RecordConflict, RecordCheckpointFailure, Publish
    <3>2. cell[p] \in Cells
      BY <2>2 DEF RecordConflict, RecordCheckpointFailure, Publish,
         CoroutinesOK, Executing
    <3>3. CASE p = Main
      BY <3>1, <3>3 DEF Leave, PoolOK
    <3>4. CASE p # Main
      BY <3>1, <3>2, <3>4, VacateOK DEF Leave, PoolOK
    <3>5. QED BY <3>3, <3>4
  <2>3. QED BY <1>1, <2>1, <2>2 DEF CellStep
<1>2. ASSUME NEW w \in Workers, WorkerStep(w) PROVE PoolOK'
  <2>1. CASE Dispatch(w)
    BY <2>1, OccupyOK DEF Dispatch, Take, PoolOK
  <2>2. CASE LoopTop(w) \/ PassGate(w) \/ RetryElapsed(w) \/ SkipByWorker(w)
             \/ DispatchThrows(w)
    BY <2>2 DEF LoopTop, PassGate, RetryElapsed, SkipByWorker, SkipCell,
       DispatchThrows, Take, PoolOK
  <2>3. QED BY <1>1, <1>2, <2>1, <2>2 DEF WorkerStep, Procs
<1>3. CASE MainStep
  BY <1>1, <1>3 DEF MainStep, AcquireLease, BindPlan, OpenDatabase,
     DatabasePreflightFails, PoolDone, PoolRejects, SkipByDrain, SkipCell,
     Drain, DrainThrows, DrainDone, Finalize, FinalizeThrows, CloseDatabase,
     ReleaseLease, Procs, Take, PoolOK
<1>4. CASE Caller
  BY <1>4 DEF Caller, Pause, Resume, Abort, PoolOK
<1>5. CASE UNCHANGED vars
  BY <1>5 DEF vars, PoolOK
<1>6. QED
  BY <1>2, <1>3, <1>4, <1>5 DEF Next, Terminated

\* Kept well typed by every step: the records, claims and checkpoint sets.
LEMMA EvidenceStep == TypeOK /\ [Next]_vars => EvidenceOK'
<1> SUFFICES ASSUME TypeOK, [Next]_vars PROVE EvidenceOK'
  OBVIOUS
<1> USE DEF TypeOK, disk
<1>1. ASSUME NEW p \in Procs, CellStep(p) PROVE EvidenceOK'
  <2>1. CASE WriteCheckpoint(p)
    <3>1. cell[p] \in Cells /\ returned[p] \in CellResult
      BY <2>1 DEF WriteCheckpoint, CoroutinesOK, Executing
    <3>2. Public(returned[p]) \in Kinds
      BY <3>1, Statuses
    <3>3. QED
      BY <2>1, <3>1, <3>2 DEF WriteCheckpoint, CheckpointWith, EvidenceOK
  <2>2. CASE FinishCell(p)
    <3>1. TerminalStatus(p) \subseteq DbRow
      BY DEF TerminalStatus, DbRow, RecordStatus
    <3>2. files' \in [Cells -> RunFiles]
      BY <2>2 DEF FinishCell, LeaveArtifacts, RunFiles, EvidenceOK
    <3>3. QED BY <2>2, <3>1, <3>2 DEF FinishCell, EvidenceOK
  <2>3. CASE PersistenceFails(p)
    BY <2>3 DEF PersistenceFails, LeaveArtifacts, RunFiles, EvidenceOK, DbRow,
       RecordStatus
  <2>4. CASE RequestCheckpoint(p) \/ RecordConflict(p) \/ Publish(p)
             \/ RecordCheckpointFailure(p) \/ CheckpointFails(p)
    BY <2>4 DEF RequestCheckpoint, RecordConflict, RecordCheckpointFailure,
       CheckpointFails, Publish, EvidenceOK
  <2>5. QED BY <1>1, <2>1, <2>2, <2>3, <2>4 DEF CellStep
<1>2. ASSUME NEW w \in Workers, WorkerStep(w) PROVE EvidenceOK'
  BY <1>1, <1>2 DEF WorkerStep, LoopTop, PassGate, RetryElapsed, SkipByWorker,
     SkipCell, Dispatch, DispatchThrows, Procs, Claim, DbRow, RunFiles, EvidenceOK
<1>3. CASE MainStep
  BY <1>1, <1>3 DEF MainStep, AcquireLease, BindPlan, OpenDatabase,
     DatabasePreflightFails, PoolDone, PoolRejects, SkipByDrain, SkipCell,
     Drain, DrainThrows, DrainDone, Finalize, FinalizeThrows, CloseDatabase,
     ReleaseLease, Procs, Claim, DbRow, RunFiles, EvidenceOK
<1>4. CASE Caller
  BY <1>4 DEF Caller, Pause, Resume, Abort, EvidenceOK
<1>5. CASE UNCHANGED vars
  BY <1>5 DEF vars, EvidenceOK
<1>6. QED
  BY <1>2, <1>3, <1>4, <1>5 DEF Next, Terminated

\* Kept well typed by every step: the flags of faults and of the resources the run opened.
LEMMA FlagsStep == TypeOK /\ [Next]_vars => FlagsOK'
<1> SUFFICES ASSUME TypeOK, [Next]_vars PROVE FlagsOK'
  OBVIOUS
<1> USE DEF TypeOK, FlagsOK, flags, session
<1>1. ASSUME NEW p \in Procs, CellStep(p) PROVE FlagsOK'
  BY <1>1 DEF CellStep, FinishCell, PersistenceFails, RequestCheckpoint,
     RecordConflict, RecordCheckpointFailure, WriteCheckpoint,
     CheckpointFails, Publish
<1>2. ASSUME NEW w \in Workers, WorkerStep(w) PROVE FlagsOK'
  BY <1>1, <1>2 DEF WorkerStep, LoopTop, PassGate, RetryElapsed, SkipByWorker,
     SkipCell, Dispatch, DispatchThrows, Procs
<1>3. CASE MainStep
  BY <1>1, <1>3 DEF MainStep, AcquireLease, BindPlan, OpenDatabase,
     DatabasePreflightFails, PoolDone, PoolRejects, SkipByDrain, SkipCell,
     Drain, DrainThrows, DrainDone, Finalize, FinalizeThrows, CloseDatabase,
     ReleaseLease, Procs
<1>4. CASE Caller
  BY <1>4 DEF Caller, Pause, Resume, Abort
<1>5. CASE UNCHANGED vars
  BY <1>5 DEF vars
<1>6. QED
  BY <1>2, <1>3, <1>4, <1>5 DEF Next, Terminated

\* Publishing a result keeps results and counters well typed.
LEMMA PushOK ==
    ASSUME TallyOK, NEW c \in Cells, NEW s \in PublicStatus, Push(c, s)
    PROVE  /\ results' \in [Cells -> Seq(PublicStatus)]
           /\ counts' \in [PublicStatus -> Nat]
BY DEF TallyOK, Push

\* Kept well typed by every step: the results and the tallies kept with them.
LEMMA TallyStep == TypeOK /\ [Next]_vars => TallyOK'
<1> SUFFICES ASSUME TypeOK, [Next]_vars PROVE TallyOK'
  OBVIOUS
<1> USE DEF TypeOK, tally
<1>0. "failed" \in PublicStatus /\ "skipped" \in PublicStatus
  BY DEF PublicStatus
<1>1. ASSUME NEW p \in Procs, CellStep(p) PROVE TallyOK'
  <2>1. CASE FinishCell(p) \/ PersistenceFails(p) \/ RequestCheckpoint(p)
             \/ WriteCheckpoint(p) \/ CheckpointFails(p)
    BY <2>1 DEF FinishCell, PersistenceFails, RequestCheckpoint,
       WriteCheckpoint, CheckpointFails, TallyOK
  <2>2. CASE RecordConflict(p) \/ RecordCheckpointFailure(p) \/ Publish(p)
    <3>1. /\ \E s \in PublicStatus : Push(cell[p], s)
          /\ Remember(p) \/ UNCHANGED durableRecords
          /\ UNCHANGED pauseStarts
      BY <1>0, <2>2, Statuses DEF RecordConflict, RecordCheckpointFailure,
         Publish, CoroutinesOK
    <3>2. cell[p] \in Cells
      BY <2>2 DEF RecordConflict, RecordCheckpointFailure, Publish,
         CoroutinesOK, Executing
    <3>3. QED BY <3>1, <3>2, PushOK DEF Remember, TallyOK
  <2>3. QED BY <1>1, <2>1, <2>2 DEF CellStep
<1>2. ASSUME NEW w \in Workers, WorkerStep(w) PROVE TallyOK'
  <2>1. CASE SkipByWorker(w)
    BY <1>0, <2>1, PushOK DEF SkipByWorker, SkipCell, TallyOK
  <2>2. CASE Dispatch(w)
    BY <2>2 DEF Dispatch, TallyOK
  <2>3. CASE LoopTop(w) \/ PassGate(w) \/ RetryElapsed(w) \/ DispatchThrows(w)
    BY <2>3 DEF LoopTop, PassGate, RetryElapsed, DispatchThrows, TallyOK
  <2>4. QED BY <1>1, <1>2, <2>1, <2>2, <2>3 DEF WorkerStep, Procs
<1>3. CASE MainStep
  <2>1. CASE SkipByDrain
    BY <1>0, <2>1, PushOK DEF SkipByDrain, SkipCell, TallyOK
  <2>2. CASE MainStep /\ ~SkipByDrain
    BY <1>1, <2>2 DEF MainStep, AcquireLease, BindPlan, OpenDatabase,
       DatabasePreflightFails, PoolDone, PoolRejects, Drain, DrainThrows,
       DrainDone, Finalize, FinalizeThrows, CloseDatabase, ReleaseLease,
       Procs, TallyOK
  <2>3. QED BY <1>3, <2>1, <2>2
<1>4. CASE Caller
  BY <1>4 DEF Caller, Pause, Resume, Abort, TallyOK
<1>5. CASE UNCHANGED vars
  BY <1>5 DEF vars, TallyOK
<1>6. QED
  BY <1>2, <1>3, <1>4, <1>5 DEF Next, Terminated

Labels == WorkerPc \cup MainPc \cup Executing

\* A coroutine may go anywhere but into a cell while it keeps what it holds.
LEMMA GotoOK ==
    ASSUME CoroutinesOK, NEW p \in Procs, NEW l \in Labels \ Executing,
           Goto(p, l), UNCHANGED <<cell, returned, writers>>
    PROVE  CoroutinesOK'
BY DEF CoroutinesOK, Goto, Labels, Executing

\* Opening the gate moves parked workers only.
LEMMA OpenGateOK ==
    ASSUME CoroutinesOK
    PROVE  /\ OpenGate(pc) \in [Procs -> Labels]
           /\ \A q \in Procs : OpenGate(pc)[q] \in Executing => OpenGate(pc)[q] = pc[q]
BY DEF CoroutinesOK, OpenGate, Labels, WorkerPc, Executing

\* A claim puts the coroutine into the cell, or hands it a conflict.
LEMMA ClaimOK ==
    ASSUME CoroutinesOK, NEW p \in Procs, NEW c \in Cells, Claim(p, c),
           cell' = [cell EXCEPT ![p] = c], UNCHANGED writers
    PROVE  CoroutinesOK'
BY DEF CoroutinesOK, Claim, Goto, Labels, Executing, CellResult

\* Leaving a cell, with or without opening the gate.
LEMMA LeaveOK ==
    ASSUME CoroutinesOK, NEW p \in Procs, Leave(p), UNCHANGED writers,
           Goto(p, After(p)) \/ pc' = [OpenGate(pc) EXCEPT ![p] = After(p)]
    PROVE  CoroutinesOK'
<1>1. After(p) \in Labels \ Executing
  BY DEF After, Labels, WorkerPc, MainPc, Executing
<1>2. /\ cell' = [cell EXCEPT ![p] = NoCell]
      /\ returned' = [returned EXCEPT ![p] = "none"]
  BY DEF Leave
<1>3. /\ pc' \in [Procs -> Labels]
      /\ pc'[p] \notin Executing
      /\ \A q \in Procs \ {p} : pc'[q] \in Executing => pc'[q] = pc[q]
  <2>1. CASE Goto(p, After(p))
    BY <1>1, <2>1 DEF Goto, CoroutinesOK, Labels
  <2>2. CASE pc' = [OpenGate(pc) EXCEPT ![p] = After(p)]
    BY <1>1, <2>2, OpenGateOK
  <2>3. QED BY <2>1, <2>2
<1>4. "none" \in CellResult
  BY DEF CellResult
<1>5. QED
  BY <1>2, <1>3, <1>4 DEF CoroutinesOK, Labels, Executing

\* Kept well typed by every step: where every coroutine is and what it holds.
LEMMA CoroutinesStep == TypeOK /\ [Next]_vars => CoroutinesOK'
<1> SUFFICES ASSUME TypeOK, [Next]_vars PROVE CoroutinesOK'
  OBVIOUS
<1> USE DEF TypeOK
<1>0. /\ {"exited", "parked", "ready", "retry", "top", "threw", "plan", "done",
          "open", "release", "close", "drain", "finalize", "pool", "idle"}
             \subseteq Labels \ Executing
      /\ Main \in Procs
      /\ Workers \subseteq Procs
  BY DEF Labels, WorkerPc, MainPc, Executing, Procs
<1>1. ASSUME NEW p \in Procs, CellStep(p) PROVE CoroutinesOK'
  <2>1. CASE FinishCell(p)
    <3>1. TerminalStatus(p) \subseteq CellResult \ {"none"}
      BY DEF TerminalStatus, CellResult, RecordStatus
    <3>2. QED
      BY <2>1, <3>1 DEF FinishCell, Goto, CoroutinesOK, Executing
  <2>2. CASE PersistenceFails(p)
    <3>1. FailureStatus \in CellResult \ {"none"}
      BY DEF FailureStatus, CellResult, RecordStatus
    <3>2. QED
      BY <2>2, <3>1 DEF PersistenceFails, Goto, CoroutinesOK, Executing
  <2>3. CASE RequestCheckpoint(p)
    <3>1. returned[p] \in RecordStatus
      BY <2>3 DEF RequestCheckpoint, CoroutinesOK, CellResult, RecordStatus
    <3>2. QED
      BY <2>3, <3>1 DEF RequestCheckpoint, Goto, CoroutinesOK, Executing
  <2>4. CASE WriteCheckpoint(p) \/ CheckpointFails(p)
    <3>0. writers \in Seq(Procs) /\ writers # <<>> /\ writers' = Tail(writers)
      BY <2>4 DEF WriteCheckpoint, CheckpointFails, OwnsLock, CoroutinesOK
    <3>1. writers' \in Seq(Procs)
      BY <3>0
    <3>2. QED
      BY <2>4, <3>1 DEF WriteCheckpoint, CheckpointFails, Goto, CoroutinesOK,
         Executing
  <2>5. CASE RecordConflict(p) \/ RecordCheckpointFailure(p) \/ Publish(p)
    BY <2>5, LeaveOK DEF RecordConflict, RecordCheckpointFailure, Publish
  <2>6. QED BY <1>1, <2>1, <2>2, <2>3, <2>4, <2>5 DEF CellStep
<1>2. ASSUME NEW w \in Workers, WorkerStep(w) PROVE CoroutinesOK'
  <2>1. CASE LoopTop(w)
    BY <1>0, <2>1, GotoOK DEF LoopTop
  <2>2. CASE PassGate(w) \/ RetryElapsed(w)
    BY <1>0, <2>2, GotoOK DEF PassGate, RetryElapsed
  <2>3. CASE SkipByWorker(w)
    BY <1>0, <2>3, GotoOK DEF SkipByWorker, SkipCell
  <2>4. CASE Dispatch(w)
    BY <1>0, <2>4, ClaimOK DEF Dispatch
  <2>5. CASE DispatchThrows(w)
    BY <1>0, <2>5 DEF DispatchThrows, Goto, CoroutinesOK, Labels, Executing
  <2>6. QED BY <1>0, <1>1, <1>2, <2>1, <2>2, <2>3, <2>4, <2>5 DEF WorkerStep
<1>3. CASE MainStep
  <2>1. CASE AcquireLease \/ BindPlan \/ DatabasePreflightFails \/ PoolDone
             \/ PoolRejects \/ DrainDone \/ Finalize \/ FinalizeThrows
             \/ CloseDatabase \/ ReleaseLease
    BY <1>0, <2>1, GotoOK DEF AcquireLease, BindPlan, DatabasePreflightFails,
       PoolDone, PoolRejects, DrainDone, Finalize, FinalizeThrows,
       CloseDatabase, ReleaseLease
  <2>2. CASE OpenDatabase
    BY <1>0, <2>2, GotoOK DEF OpenDatabase, CoroutinesOK, Labels, Executing
  <2>3. CASE SkipByDrain
    BY <2>3 DEF SkipByDrain, SkipCell, CoroutinesOK
  <2>4. CASE Drain
    BY <1>0, <2>4, ClaimOK DEF Drain
  <2>5. CASE DrainThrows
    BY <1>0, <2>5 DEF DrainThrows, Goto, CoroutinesOK, Labels, Executing
  <2>6. QED BY <1>0, <1>1, <1>3, <2>1, <2>2, <2>3, <2>4, <2>5 DEF MainStep
<1>4. CASE Caller
  <2>1. /\ UNCHANGED <<cell, returned, writers>>
        /\ pc' = pc \/ pc' = OpenGate(pc)
    BY <1>4 DEF Caller, Pause, Resume, Abort
  <2>2. /\ pc' \in [Procs -> Labels]
        /\ \A q \in Procs : pc'[q] \in Executing => pc'[q] = pc[q]
    BY <2>1, OpenGateOK DEF CoroutinesOK, Labels
  <2>3. QED BY <2>1, <2>2 DEF CoroutinesOK, Labels, Executing
<1>5. CASE UNCHANGED vars
  BY <1>5 DEF vars, CoroutinesOK
<1>6. QED
  BY <1>2, <1>3, <1>4, <1>5 DEF Next, Terminated

(***************************************************************************)
(* Type correctness: in every reachable state each variable has its type,  *)
(* the in-flight counters are natural numbers, and a coroutine inside a    *)
(* cell's steps holds a planned cell (executeScheduledCell and             *)
(* recordCellResult never run without one).                                *)
(***************************************************************************)
THEOREM TypeCorrect == Spec => []TypeOK
<1>1. TypeOK /\ [Next]_vars => TypeOK'
  BY ControlStep, PoolStep, CoroutinesStep, EvidenceStep, FlagsStep, TallyStep
  DEF TypeOK
<1>2. QED
  BY TypeInit, <1>1, PTL DEF Spec

(***************************************************************************)
(* The cells: every step keeps, takes, skips or publishes one cell, so no  *)
(* cell is run twice, dropped, or given two results, and the engine        *)
(* implements CellLifecycle.                                               *)
(***************************************************************************)

\* The four things a step can do to the cells.
Kept == UNCHANGED <<queue, cell, results>>

Taken(p, c) ==
    /\ c \in queue
    /\ cell[p] = NoCell
    /\ queue' = queue \ {c}
    /\ cell' = [cell EXCEPT ![p] = c]
    /\ UNCHANGED results

Skipped(c) ==
    /\ c \in queue
    /\ queue' = queue \ {c}
    /\ results' = [results EXCEPT ![c] = Append(@, "skipped")]
    /\ UNCHANGED cell

Published(p, s) ==
    /\ cell[p] \in Cells
    /\ results' = [results EXCEPT ![cell[p]] = Append(@, s)]
    /\ cell' = [cell EXCEPT ![p] = NoCell]
    /\ UNCHANGED queue

OneMove == \/ Kept
           \/ \E p \in Procs, c \in Cells : Taken(p, c)
           \/ \E c \in Cells : Skipped(c)
           \/ \E p \in Procs, s \in Kinds : Published(p, s)

\* A coroutine takes a cell only from a place where it holds none.
LEMMA StepMoves == TypeOK /\ IdleHoldsNothing /\ [Next]_vars => OneMove
<1> SUFFICES ASSUME TypeOK, IdleHoldsNothing, [Next]_vars PROVE OneMove
  OBVIOUS
<1> USE DEF pool, tally
<1>1. ASSUME NEW p \in Procs, CellStep(p) PROVE OneMove
  <2>1. CASE FinishCell(p) \/ PersistenceFails(p) \/ RequestCheckpoint(p)
             \/ WriteCheckpoint(p) \/ CheckpointFails(p)
    BY <2>1 DEF FinishCell, PersistenceFails, RequestCheckpoint,
       WriteCheckpoint, CheckpointFails, OneMove, Kept
  <2>2. CASE RecordConflict(p) \/ RecordCheckpointFailure(p) \/ Publish(p)
    <3>1. cell[p] \in Cells /\ returned[p] \in CellResult
      BY <2>2 DEF RecordConflict, RecordCheckpointFailure, Publish, TypeOK,
         CoroutinesOK, Executing
    <3>2. "failed" \in Kinds /\ Public(returned[p]) \in Kinds
      BY <3>1, Statuses DEF Kinds
    <3>3. \/ Published(p, "failed")
          \/ Published(p, Public(returned[p]))
      BY <2>2, <3>1 DEF RecordConflict, RecordCheckpointFailure, Publish,
         Push, Leave, Published
    <3>4. QED BY <3>2, <3>3 DEF OneMove
  <2>3. QED BY <1>1, <2>1, <2>2 DEF CellStep
<1>2. ASSUME NEW w \in Workers, WorkerStep(w) PROVE OneMove
  <2>1. CASE LoopTop(w) \/ PassGate(w) \/ RetryElapsed(w)
    BY <2>1 DEF LoopTop, PassGate, RetryElapsed, OneMove, Kept
  <2>2. CASE SkipByWorker(w)
    BY <2>2 DEF SkipByWorker, SkipCell, FirstEligible, Eligible, Take, Push,
       OneMove, Skipped
  <2>3. CASE Dispatch(w) \/ DispatchThrows(w)
    <3>1. w \in Procs /\ cell[w] = NoCell
      BY <2>3 DEF Dispatch, DispatchThrows, IdleHoldsNothing, BetweenCells,
         Procs
    <3>2. QED
      BY <2>3, <3>1 DEF Dispatch, DispatchThrows, FirstEligible, Eligible,
         Take, OneMove, Taken
  <2>4. QED BY <1>1, <1>2, <2>1, <2>2, <2>3 DEF WorkerStep, Procs
<1>3. CASE MainStep
  <2>1. CASE SkipByDrain
    BY <2>1 DEF SkipByDrain, SkipCell, FirstQueued, Take, Push, OneMove,
       Skipped
  <2>2. CASE Drain \/ DrainThrows
    <3>1. Main \in Procs /\ cell[Main] = NoCell
      BY <2>2 DEF Drain, DrainThrows, IdleHoldsNothing, BetweenCells, Procs
    <3>2. QED
      BY <2>2, <3>1 DEF Drain, DrainThrows, FirstQueued, Take, OneMove, Taken
  <2>3. CASE CellStep(Main)
    BY <1>1, <2>3 DEF Procs
  <2>4. CASE MainStep /\ ~SkipByDrain /\ ~Drain /\ ~DrainThrows
             /\ ~CellStep(Main)
    BY <2>4 DEF MainStep, AcquireLease, BindPlan, OpenDatabase,
       DatabasePreflightFails, PoolDone, PoolRejects, DrainDone, Finalize,
       FinalizeThrows, CloseDatabase, ReleaseLease, OneMove, Kept
  <2>5. QED BY <1>3, <2>1, <2>2, <2>3, <2>4
<1>4. CASE Caller
  BY <1>4 DEF Caller, Pause, Resume, Abort, OneMove, Kept
<1>5. CASE UNCHANGED vars
  BY <1>5 DEF vars, OneMove, Kept
<1>6. QED
  BY <1>2, <1>3, <1>4, <1>5 DEF Next, Terminated

\* No move breaks the conservation of cells.
LEMMA MovesConserve ==
    TypeOK /\ TypeOK' /\ CellConservation /\ OneMove => CellConservation'
<1> SUFFICES ASSUME TypeOK, TypeOK', CellConservation, OneMove,
                    NEW c \in Cells
             PROVE  /\ Len(results'[c]) <= 1
                    /\ c \in queue' =>
                         results'[c] = <<>> /\ \A p \in Procs : cell'[p] # c
                    /\ \A p \in Procs : cell'[p] = c =>
                         /\ results'[c] = <<>>
                         /\ \A q \in Procs : cell'[q] = c => q = p
                    /\ \/ c \in queue'
                       \/ \E p \in Procs : cell'[p] = c
                       \/ results'[c] # <<>>
  BY DEF CellConservation
<1>1. /\ cell \in [Procs -> Cells \cup {NoCell}]
      /\ results \in [Cells -> Seq(PublicStatus)]
  BY DEF TypeOK, CoroutinesOK, TallyOK
<1>2. CASE Kept
  BY <1>2 DEF Kept, CellConservation
<1>3. ASSUME NEW p \in Procs, NEW d \in Cells, Taken(p, d)
      PROVE  /\ results' = results
             /\ d \in queue /\ results[d] = <<>> /\ cell[p] = NoCell
             /\ queue' = queue \ {d}
             /\ cell' = [cell EXCEPT ![p] = d]
             /\ \A q \in Procs : cell[q] # d
  BY <1>3 DEF Taken, CellConservation
<1>4. CASE \E p \in Procs, d \in Cells : Taken(p, d)
  BY <1>1, <1>3, <1>4, EngineAssumption DEF CellConservation
<1>5. CASE \E d \in Cells : Skipped(d)
  BY <1>1, <1>5 DEF Skipped, CellConservation, PublicStatus
<1>6. CASE \E p \in Procs, s \in Kinds : Published(p, s)
  BY <1>1, <1>6, EngineAssumption DEF Published, CellConservation, Kinds,
     PublicStatus
<1>7. QED BY <1>2, <1>4, <1>5, <1>6 DEF OneMove

\* Initially every cell is queued and nobody holds one.
LEMMA CellInit == Init => IdleHoldsNothing /\ CellConservation
<1> SUFFICES ASSUME Init PROVE IdleHoldsNothing /\ CellConservation
  OBVIOUS
<1>1. /\ queue = Cells
      /\ cell = [p \in Procs |-> NoCell]
      /\ results = [c \in Cells |-> <<>>]
      /\ pc = [p \in Procs |-> IF p = Main THEN "lease" ELSE "idle"]
  BY DEF Init
<1>2. IdleHoldsNothing
  BY <1>1, EngineAssumption DEF IdleHoldsNothing, Procs
<1>3. CellConservation
  BY <1>1, EngineAssumption DEF CellConservation
<1>4. QED BY <1>2, <1>3

\* A coroutine that leaves a cell, or takes one, or moves on between cells,
\* holds a cell only where its steps need one.
LEMMA IdleStep == TypeOK /\ IdleHoldsNothing /\ [Next]_vars => IdleHoldsNothing'
<1> SUFFICES ASSUME TypeOK, IdleHoldsNothing, [Next]_vars PROVE IdleHoldsNothing'
  OBVIOUS
<1>0. /\ pc \in [Procs -> Labels]
      /\ cell \in [Procs -> Cells \cup {NoCell}]
      /\ Main \in Procs /\ Workers \subseteq Procs /\ Main \notin Workers
  BY EngineAssumption DEF TypeOK, CoroutinesOK, Labels, Procs
<1>1. ASSUME NEW p \in Procs, NEW l,
             pc[p] \notin {"idle", "lease", "plan", "open"},
             l \notin {"idle", "lease", "plan", "open"},
             \/ pc' = [pc EXCEPT ![p] = l]
             \/ pc' = [OpenGate(pc) EXCEPT ![p] = l],
             \/ cell' = cell /\ (l \in BetweenCells => cell[p] = NoCell)
             \/ \E c : /\ cell' = [cell EXCEPT ![p] = c]
                       /\ l \in BetweenCells => c = NoCell
      PROVE  IdleHoldsNothing'
  <2>1. \A q \in Procs \ {p} :
            /\ cell'[q] = cell[q]
            /\ pc'[q] = pc[q] \/ (pc[q] = "parked" /\ pc'[q] = "ready")
    BY <1>0, <1>1 DEF OpenGate
  <2>2. pc'[p] = l /\ (l \in BetweenCells => cell'[p] = NoCell)
    BY <1>0, <1>1 DEF OpenGate
  <2>3. \A q \in Procs : pc'[q] \in BetweenCells => cell'[q] = NoCell
    BY <2>1, <2>2 DEF IdleHoldsNothing, BetweenCells
  <2>4. pc'[Main] \in {"lease", "plan", "open"} =>
            \A w \in Workers : pc'[w] = "idle"
    <3>1. SUFFICES ASSUME pc'[Main] \in {"lease", "plan", "open"}
                   PROVE  \A w \in Workers : pc'[w] = "idle"
      OBVIOUS
    <3>2. p # Main /\ pc[Main] \in {"lease", "plan", "open"}
      <4>1. p # Main
        BY <1>1, <2>2, <3>1
      <4>2. pc'[Main] = pc[Main] \/ pc'[Main] = "ready"
        BY <1>0, <2>1, <4>1
      <4>3. QED BY <3>1, <4>1, <4>2
    <3>3. \A w \in Workers : pc[w] = "idle"
      BY <3>2 DEF IdleHoldsNothing
    <3>4. FALSE
      <4>1. CASE p \in Workers
        BY <1>1, <3>3, <4>1
      <4>2. QED BY <3>2, <4>1 DEF Procs
    <3>5. QED BY <3>4
  <2>5. QED BY <2>3, <2>4 DEF IdleHoldsNothing
<1>2. ASSUME NEW p \in Procs, CellStep(p) PROVE IdleHoldsNothing'
  <2>1. CASE FinishCell(p) \/ PersistenceFails(p) \/ RequestCheckpoint(p)
             \/ WriteCheckpoint(p) \/ CheckpointFails(p)
    <3>1. PICK l \in {"returned", "write", "written", "unwritten"} :
               pc' = [pc EXCEPT ![p] = l]
      BY <2>1 DEF FinishCell, PersistenceFails, RequestCheckpoint,
         WriteCheckpoint, CheckpointFails, Goto
    <3>2. pc[p] \in {"exec", "returned", "write"} /\ cell' = cell
      BY <2>1 DEF FinishCell, PersistenceFails, RequestCheckpoint,
         WriteCheckpoint, CheckpointFails
    <3>3. QED BY <1>1, <3>1, <3>2 DEF BetweenCells
  <2>2. CASE RecordConflict(p) \/ RecordCheckpointFailure(p) \/ Publish(p)
    <3>1. /\ After(p) \notin {"idle", "lease", "plan", "open"}
          /\ pc[p] \notin {"idle", "lease", "plan", "open"}
          /\ cell' = [cell EXCEPT ![p] = NoCell]
          /\ \/ pc' = [pc EXCEPT ![p] = After(p)]
             \/ pc' = [OpenGate(pc) EXCEPT ![p] = After(p)]
      BY <2>2 DEF RecordConflict, RecordCheckpointFailure, Publish, Goto,
         Leave, After
    <3>2. QED BY <1>1, <3>1
  <2>3. QED BY <1>2, <2>1, <2>2 DEF CellStep
<1>3. ASSUME NEW w \in Workers, WorkerStep(w) PROVE IdleHoldsNothing'
  <2>1. CASE LoopTop(w)
    <3>1. cell[w] = NoCell
      BY <1>0, <2>1 DEF LoopTop, IdleHoldsNothing, BetweenCells
    <3>2. PICK l \in {"exited", "ready", "parked"} : pc' = [pc EXCEPT ![w] = l]
      BY <2>1 DEF LoopTop, Goto
    <3>3. QED BY <1>0, <1>1, <2>1, <3>1, <3>2 DEF LoopTop
  <2>2. CASE PassGate(w) \/ RetryElapsed(w)
    <3>1. cell[w] = NoCell
      BY <1>0, <2>2 DEF PassGate, RetryElapsed, IdleHoldsNothing, BetweenCells
    <3>2. QED BY <1>0, <1>1, <2>2, <3>1 DEF PassGate, RetryElapsed, Goto
  <2>3. CASE SkipByWorker(w)
    <3>1. cell[w] = NoCell
      BY <1>0, <2>3 DEF SkipByWorker, IdleHoldsNothing, BetweenCells
    <3>2. pc[w] = "ready" /\ pc' = [pc EXCEPT ![w] = "top"] /\ cell' = cell
      BY <2>3 DEF SkipByWorker, SkipCell, Goto
    <3>3. QED BY <1>1, <1>0, <3>1, <3>2, "top" \notin {"idle", "lease", "plan", "open"}
  <2>4. CASE Dispatch(w) \/ DispatchThrows(w)
    <3>1. PICK c \in Cells : cell' = [cell EXCEPT ![w] = c]
      BY <2>4 DEF Dispatch, DispatchThrows
    <3>2. PICK l \in {"exec", "returned", "threw"} : pc' = [pc EXCEPT ![w] = l]
      BY <2>4 DEF Dispatch, DispatchThrows, Claim, Goto
    <3>3. QED
      BY <1>0, <1>1, <2>4, <3>1, <3>2 DEF Dispatch, DispatchThrows,
         BetweenCells
  <2>5. QED BY <1>0, <1>2, <1>3, <2>1, <2>2, <2>3, <2>4 DEF WorkerStep
<1>4. CASE MainStep
  <2>1. CASE AcquireLease \/ BindPlan \/ DatabasePreflightFails
    BY <1>0, <2>1 DEF AcquireLease, BindPlan, DatabasePreflightFails, Goto,
       IdleHoldsNothing, BetweenCells
  <2>2. CASE OpenDatabase
    <3>1. /\ \A q \in Procs : cell'[q] = NoCell
          /\ pc'[Main] \notin {"lease", "plan", "open"}
      BY <1>0, <2>2 DEF OpenDatabase, Goto, IdleHoldsNothing, BetweenCells,
         Procs
    <3>2. QED BY <3>1 DEF IdleHoldsNothing
  <2>3. CASE PoolDone \/ PoolRejects \/ DrainDone \/ Finalize
             \/ FinalizeThrows
    <3>1. cell[Main] = NoCell
      BY <1>0, <2>3 DEF PoolDone, PoolRejects, DrainDone, Finalize,
         FinalizeThrows, IdleHoldsNothing, BetweenCells
    <3>2. QED
      BY <1>0, <1>1, <2>3, <3>1 DEF PoolDone, PoolRejects, DrainDone,
         Finalize, FinalizeThrows, Goto
  <2>4. CASE CloseDatabase \/ ReleaseLease
    BY <1>0, <1>1, <2>4 DEF CloseDatabase, ReleaseLease, Goto, BetweenCells
  <2>5. CASE SkipByDrain
    BY <2>5 DEF SkipByDrain, SkipCell, IdleHoldsNothing
  <2>6. CASE Drain \/ DrainThrows
    <3>1. PICK c \in Cells : cell' = [cell EXCEPT ![Main] = c]
      BY <2>6 DEF Drain, DrainThrows
    <3>2. PICK l \in {"exec", "returned", "close"} : pc' = [pc EXCEPT ![Main] = l]
      BY <2>6 DEF Drain, DrainThrows, Claim, Goto
    <3>3. QED
      BY <1>0, <1>1, <2>6, <3>1, <3>2 DEF Drain, DrainThrows, BetweenCells
  <2>7. QED
    BY <1>0, <1>2, <1>4, <2>1, <2>2, <2>3, <2>4, <2>5, <2>6 DEF MainStep
<1>5. CASE Caller
  <2>1. cell' = cell /\ (pc' = pc \/ pc' = OpenGate(pc))
    BY <1>5 DEF Caller, Pause, Resume, Abort
  <2>2. QED BY <1>0, <2>1 DEF IdleHoldsNothing, BetweenCells, OpenGate
<1>6. CASE UNCHANGED vars
  BY <1>6 DEF vars, IdleHoldsNothing
<1>7. QED
  BY <1>3, <1>4, <1>5, <1>6 DEF Next, Terminated

(***************************************************************************)
(* Conservation: a planned cell is always in exactly one place, queued,    *)
(* held by one coroutine, or published once, so the workers and the drain  *)
(* of runSweepWorkerPool never run a cell twice and never drop one,        *)
(* whatever fails and whoever pauses or aborts.                            *)
(***************************************************************************)
THEOREM CellsConserved == Spec => []CellConservation
<1> DEFINE IInv == TypeOK /\ IdleHoldsNothing /\ CellConservation
<1>1. Init => IInv
  BY TypeInit, CellInit
<1>2. IInv /\ [Next]_vars => IInv'
  <2>1. TypeOK /\ [Next]_vars => TypeOK'
    BY ControlStep, PoolStep, CoroutinesStep, EvidenceStep, FlagsStep,
       TallyStep DEF TypeOK
  <2>2. QED BY <2>1, StepMoves, MovesConserve, IdleStep
<1>3. QED
  BY <1>1, <1>2, PTL DEF Spec

\* The lifecycle starts with every cell queued.
LEMMA LifecycleInit == Init => Lifecycle!Init
BY DEF Init, Lifecycle!Init, CellStages, StageOf

\* A move of the engine is a move of the cell's lifecycle, or none.
LEMMA LifecycleStep ==
    ASSUME TypeOK, CellConservation, OneMove
    PROVE  [Lifecycle!Next]_CellStages
<1>1. /\ cell \in [Procs -> Cells \cup {NoCell}]
      /\ results \in [Cells -> Seq(PublicStatus)]
      /\ queue \subseteq Cells
  BY DEF TypeOK, CoroutinesOK, TallyOK, PoolOK
<1>2. CASE Kept
  BY <1>2 DEF Kept, CellStages, StageOf, LastPublished
<1>3. ASSUME NEW c \in Cells, NEW to, StageOf(c)' = to,
             \A d \in Cells \ {c} : StageOf(d)' = StageOf(d)
      PROVE  CellStages' = [CellStages EXCEPT ![c] = to]
  BY <1>3 DEF CellStages
<1>4. ASSUME NEW p \in Procs, NEW c \in Cells, Taken(p, c)
      PROVE  Lifecycle!Take(c)
  <2>1. StageOf(c) = "queued" /\ StageOf(c)' = "held"
    BY <1>4 DEF Taken, CellConservation, StageOf
  <2>2. \A d \in Cells \ {c} : StageOf(d)' = StageOf(d)
    BY <1>4 DEF Taken, StageOf, LastPublished
  <2>3. QED
    BY <1>3, <2>1, <2>2 DEF Lifecycle!Take, Lifecycle!Move, CellStages
<1>5. ASSUME NEW c \in Cells, Skipped(c)
      PROVE  Lifecycle!Skip(c)
  <2>0. results[c] = <<>> /\ results'[c] = Append(<<>>, "skipped")
        /\ c \notin queue'
    BY <1>1, <1>5 DEF Skipped, CellConservation
  <2>1. StageOf(c) = "queued" /\ StageOf(c)' = "skipped"
    BY <1>5, <2>0 DEF Skipped, StageOf, LastPublished
  <2>2. \A d \in Cells \ {c} : StageOf(d)' = StageOf(d)
    BY <1>1, <1>5 DEF Skipped, StageOf, LastPublished
  <2>3. QED
    BY <1>3, <2>1, <2>2 DEF Lifecycle!Skip, Lifecycle!Move, CellStages
<1>6. ASSUME NEW p \in Procs, NEW s \in Kinds, NEW c \in Cells, c = cell[p],
             Published(p, s)
      PROVE  Lifecycle!Finish(c)
  <2>0. /\ results[c] = <<>> /\ results'[c] = Append(<<>>, s)
        /\ c \notin queue /\ c \notin queue'
    BY <1>1, <1>6 DEF Published, CellConservation
  <2>1. StageOf(c) = "held" /\ StageOf(c)' = s
    BY <2>0 DEF StageOf, LastPublished
  <2>2. \A d \in Cells \ {c} : StageOf(d)' = StageOf(d)
    BY <1>1, <1>6 DEF Published, StageOf, LastPublished
  <2>3. QED
    BY <1>3, <2>1, <2>2 DEF Lifecycle!Finish, Lifecycle!Move, CellStages
<1>7. QED
  BY <1>2, <1>4, <1>5, <1>6 DEF OneMove, Lifecycle!Next, Published

(***************************************************************************)
(* Refinement: the engine implements CellLifecycle.  A cell is taken once  *)
(* by a worker or by the drain, gets one public result, and that result is *)
(* final; a cell the checkpoint completed is skipped, never taken.         *)
(***************************************************************************)
THEOREM EngineFollowsLifecycle == Spec => CellsFollowLifecycle
<1>1. TypeOK /\ IdleHoldsNothing /\ CellConservation /\ [Next]_vars
      => [Lifecycle!Next]_CellStages
  BY StepMoves, LifecycleStep
<1>2. TypeOK /\ IdleHoldsNothing /\ [Next]_vars => IdleHoldsNothing'
  BY IdleStep
<1>3. Init => IdleHoldsNothing
  BY CellInit
<1>4. QED
  BY <1>1, <1>2, <1>3, TypeCorrect, CellsConserved, LifecycleInit, PTL
  DEF Spec, CellsFollowLifecycle, Lifecycle!Spec

(***************************************************************************)
(* The counters, an abort and durable evidence: the limits of models,      *)
(* providers and the sweep hold at every step, an aborted sweep starts     *)
(* nothing, and no record is ever replaced.                                *)
(***************************************************************************)

\* The workers that execute a cell, and those among them of a model or provider.
Busy == {w \in Workers : Running(w)}
OnModel(m) == {w \in Busy : ModelOf[cell[w]] = m}
OnProvider(v) == {w \in Busy : ProviderOf[cell[w]] = v}

\* The three things a step can do to the busy workers and their counters.
Steady ==
    /\ Busy' = Busy
    /\ \A w \in Busy : cell'[w] = cell[w]
    /\ UNCHANGED <<modelInFlight, providerInFlight, inFlight>>

Enters(w, c) ==
    /\ MayStart
    /\ w \notin Busy
    /\ Eligible(c)
    /\ Occupy(c)
    /\ Busy' = Busy \cup {w}
    /\ cell' = [cell EXCEPT ![w] = c]

Leaves(w) ==
    /\ w \in Busy
    /\ Vacate(cell[w])
    /\ Busy' = Busy \ {w}
    /\ \A v \in Busy' : cell'[v] = cell[v]

PoolMove == \/ Steady
            \/ \E w \in Workers, c \in Cells : Enters(w, c)
            \/ \E w \in Workers : Leaves(w)

\* One coroutine moves, and opening the gate moves parked ones: who else is
\* busy stays so.
LEMMA OthersStay ==
    ASSUME TypeOK, NEW p \in Procs, NEW l,
           \/ pc' = [pc EXCEPT ![p] = l]
           \/ pc' = [OpenGate(pc) EXCEPT ![p] = l]
    PROVE  /\ \A q \in Procs \ {p} : Running(q)' <=> Running(q)
           /\ Running(p)' <=> l \in Executing
BY DEF TypeOK, CoroutinesOK, OpenGate, Running, Executing

\* A step of a cell keeps its worker busy until it leaves.
LEMMA CellStepMoves ==
    ASSUME TypeOK, NEW p \in Procs, CellStep(p)
    PROVE  PoolMove
<1>0. Main \notin Workers /\ Workers \subseteq Procs
  BY EngineAssumption DEF Procs
<1>1. CASE FinishCell(p) \/ PersistenceFails(p) \/ RequestCheckpoint(p)
           \/ WriteCheckpoint(p) \/ CheckpointFails(p)
  <2>1. PICK l \in {"returned", "write", "written", "unwritten"} :
             pc' = [pc EXCEPT ![p] = l]
    BY <1>1 DEF FinishCell, PersistenceFails, RequestCheckpoint,
       WriteCheckpoint, CheckpointFails, Goto
  <2>2. /\ Running(p)
        /\ UNCHANGED <<cell, modelInFlight, providerInFlight, inFlight>>
    BY <1>1 DEF FinishCell, PersistenceFails, RequestCheckpoint,
       WriteCheckpoint, CheckpointFails, pool, Running, Executing
  <2>3. \A q \in Procs : Running(q)' <=> Running(q)
    BY <2>1, <2>2, OthersStay DEF Executing
  <2>4. QED BY <1>0, <2>2, <2>3 DEF PoolMove, Steady, Busy
<1>2. CASE RecordConflict(p) \/ RecordCheckpointFailure(p) \/ Publish(p)
  <2>1. /\ Running(p)
        /\ Leave(p)
        /\ \/ pc' = [pc EXCEPT ![p] = After(p)]
           \/ pc' = [OpenGate(pc) EXCEPT ![p] = After(p)]
    BY <1>2 DEF RecordConflict, RecordCheckpointFailure, Publish, Goto,
       Running, Executing
  <2>2. /\ \A q \in Procs \ {p} : Running(q)' <=> Running(q)
        /\ ~Running(p)'
    BY <2>1, OthersStay DEF After, Executing
  <2>3. cell' = [cell EXCEPT ![p] = NoCell] /\ cell \in [Procs -> Cells \cup {NoCell}]
    BY <2>1 DEF Leave, TypeOK, CoroutinesOK
  <2>4. CASE p = Main
    BY <1>0, <2>1, <2>2, <2>3, <2>4 DEF PoolMove, Steady, Busy, Leave
  <2>5. CASE p # Main
    <3>1. p \in Workers
      BY <2>5 DEF Procs
    <3>2. Busy' = Busy \ {p} /\ p \in Busy
      BY <1>0, <2>1, <2>2, <3>1 DEF Busy
    <3>3. Vacate(cell[p])
      BY <2>1, <2>5 DEF Leave
    <3>4. \A v \in Busy' : cell'[v] = cell[v]
      BY <1>0, <2>3, <3>2 DEF Busy
    <3>5. Leaves(p)
      BY <3>2, <3>3, <3>4 DEF Leaves
    <3>6. QED BY <3>1, <3>5 DEF PoolMove
  <2>6. QED BY <2>4, <2>5
<1>3. QED BY <1>1, <1>2 DEF CellStep

\* Only a worker that passed the gate enters a cell, one that the limits admit.
LEMMA WorkerStepMoves ==
    ASSUME TypeOK, NEW w \in Workers, WorkerStep(w)
    PROVE  PoolMove
<1>0. w \in Procs /\ Workers \subseteq Procs
  BY DEF Procs
<1>1. CASE LoopTop(w) \/ PassGate(w) \/ RetryElapsed(w) \/ SkipByWorker(w)
           \/ DispatchThrows(w)
  <2>1. PICK l \in {"exited", "ready", "parked", "retry", "top", "threw"} :
             pc' = [pc EXCEPT ![w] = l]
    BY <1>1 DEF LoopTop, PassGate, RetryElapsed, SkipByWorker, DispatchThrows,
       Goto
  <2>2. ~Running(w)
    BY <1>1 DEF LoopTop, PassGate, RetryElapsed, SkipByWorker, DispatchThrows,
       Running, Executing
  <2>3. \A q \in Procs : Running(q)' <=> Running(q)
    BY <1>0, <2>1, <2>2, OthersStay DEF Executing
  <2>4. \A q \in Procs \ {w} : cell'[q] = cell[q]
    BY <1>1 DEF LoopTop, PassGate, RetryElapsed, SkipByWorker, SkipCell,
       DispatchThrows, TypeOK, CoroutinesOK
  <2>5. UNCHANGED <<modelInFlight, providerInFlight, inFlight>>
    BY <1>1 DEF LoopTop, PassGate, RetryElapsed, SkipByWorker, SkipCell,
       DispatchThrows, pool
  <2>6. QED BY <1>0, <2>2, <2>3, <2>4, <2>5 DEF PoolMove, Steady, Busy
<1>2. CASE Dispatch(w)
  <2>1. PICK c \in Cells : /\ Eligible(c)
                           /\ Occupy(c)
                           /\ cell' = [cell EXCEPT ![w] = c]
                           /\ Claim(w, c)
    BY <1>2 DEF Dispatch, FirstEligible
  <2>2. PICK l \in {"exec", "returned"} : pc' = [pc EXCEPT ![w] = l]
    BY <2>1 DEF Claim, Goto
  <2>3. ~Running(w)
    BY <1>2 DEF Dispatch, Running, Executing
  <2>4. /\ \A q \in Procs \ {w} : Running(q)' <=> Running(q)
        /\ Running(w)'
    BY <1>0, <2>2, OthersStay DEF Executing
  <2>5. Busy' = Busy \cup {w} /\ w \notin Busy
    BY <1>0, <2>3, <2>4 DEF Busy
  <2>6. MayStart
    BY <1>2 DEF Dispatch
  <2>7. QED BY <2>1, <2>5, <2>6 DEF PoolMove, Enters
<1>3. CASE CellStep(w)
  BY <1>0, <1>3, CellStepMoves
<1>4. QED BY <1>1, <1>2, <1>3 DEF WorkerStep

\* executeRun, before the pool, while it drains and after it, leaves the
\* executing workers and their counters alone.
LEMMA MainStepMoves ==
    ASSUME TypeOK, IdleHoldsNothing, MainStep
    PROVE  PoolMove
<1>0. Main \in Procs /\ Main \notin Workers /\ Workers \subseteq Procs
  BY EngineAssumption DEF Procs
<1>1. CASE OpenDatabase
  <2>1. \A w \in Workers : pc[w] = "idle"
    BY <1>1 DEF OpenDatabase, IdleHoldsNothing
  <2>2. \A w \in Workers : pc'[w] \in {"idle", "top"}
    BY <1>0, <1>1, <2>1 DEF OpenDatabase, Goto, TypeOK, CoroutinesOK
  <2>3. \A w \in Workers : ~Running(w) /\ ~Running(w)'
    BY <2>1, <2>2 DEF Running, Executing
  <2>4. UNCHANGED <<cell, modelInFlight, providerInFlight, inFlight>>
    BY <1>1 DEF OpenDatabase, pool
  <2>5. QED BY <2>3, <2>4 DEF PoolMove, Steady, Busy
<1>2. CASE CellStep(Main)
  BY <1>0, <1>2, CellStepMoves
<1>3. ASSUME MainStep, ~OpenDatabase, ~CellStep(Main)
      PROVE  /\ UNCHANGED <<modelInFlight, providerInFlight, inFlight>>
             /\ cell' = cell \/ \E c \in Cells : cell' = [cell EXCEPT ![Main] = c]
             /\ \E l : pc' = [pc EXCEPT ![Main] = l]
  <2>1. CASE SkipByDrain
    <3>1. pc' = [pc EXCEPT ![Main] = pc[Main]]
      BY <1>0, <2>1 DEF SkipByDrain, TypeOK, CoroutinesOK
    <3>2. QED BY <2>1, <3>1 DEF SkipByDrain, SkipCell
  <2>2. CASE Drain \/ DrainThrows
    <3>1. \E c \in Cells : cell' = [cell EXCEPT ![Main] = c]
      BY <2>2 DEF Drain, DrainThrows
    <3>2. \E l : pc' = [pc EXCEPT ![Main] = l]
      BY <2>2 DEF Drain, DrainThrows, Claim, Goto
    <3>3. UNCHANGED <<modelInFlight, providerInFlight, inFlight>>
      BY <2>2 DEF Drain, DrainThrows
    <3>4. QED BY <3>1, <3>2, <3>3
  <2>3. CASE AcquireLease \/ BindPlan \/ DatabasePreflightFails \/ PoolDone
             \/ PoolRejects \/ DrainDone \/ Finalize \/ FinalizeThrows
             \/ CloseDatabase \/ ReleaseLease
    BY <2>3 DEF AcquireLease, BindPlan, DatabasePreflightFails, PoolDone,
       PoolRejects, DrainDone, Finalize, FinalizeThrows, CloseDatabase,
       ReleaseLease, Goto, pool
  <2>4. QED BY <1>3, <2>1, <2>2, <2>3 DEF MainStep
<1>4. CASE ~OpenDatabase /\ ~CellStep(Main)
  <2>1. \A w \in Workers : Running(w)' <=> Running(w)
    BY <1>0, <1>3, <1>4, OthersStay
  <2>2. \A w \in Workers : cell'[w] = cell[w]
    BY <1>0, <1>3, <1>4 DEF TypeOK, CoroutinesOK
  <2>3. QED BY <1>3, <1>4, <2>1, <2>2 DEF PoolMove, Steady, Busy
<1>5. QED BY <1>1, <1>2, <1>4

\* Every step of the engine moves the busy workers in one of the three ways.
LEMMA StepPoolMoves ==
    TypeOK /\ IdleHoldsNothing /\ [Next]_vars => PoolMove
<1> SUFFICES ASSUME TypeOK, IdleHoldsNothing, [Next]_vars PROVE PoolMove
  OBVIOUS
<1>1. CASE Caller
  <2>1. /\ UNCHANGED <<cell, modelInFlight, providerInFlight, inFlight>>
        /\ pc' = pc \/ pc' = OpenGate(pc)
    BY <1>1 DEF Caller, Pause, Resume, Abort, pool
  <2>2. \A w \in Workers : Running(w)' <=> Running(w)
    BY <2>1 DEF OpenGate, Running, Executing, Procs
  <2>3. QED BY <2>1, <2>2 DEF PoolMove, Steady, Busy
<1>2. CASE UNCHANGED vars
  BY <1>2 DEF vars, pool, PoolMove, Steady, Busy, Running
<1>3. QED
  BY <1>1, <1>2, WorkerStepMoves, MainStepMoves DEF Next, Terminated

\* The limits of the pool, said with the sets of busy workers.
Limits ==
    /\ inFlight = Cardinality(Busy)
    /\ \A m \in Models : /\ modelInFlight[m] = Cardinality(OnModel(m))
                         /\ modelInFlight[m] <= ModelLimit[m]
    /\ \A v \in Providers : /\ providerInFlight[v] = Cardinality(OnProvider(v))
                            /\ providerInFlight[v] <= ProviderLimit

\* It is the property the runs check.
LEMMA LimitsMeans == Limits <=> InFlightWithinLimits
<1>1. /\ {w \in Workers : Running(w)} = Busy
      /\ \A m : {w \in Workers : Running(w) /\ ModelOf[cell[w]] = m} = OnModel(m)
      /\ \A v : {w \in Workers : Running(w) /\ ProviderOf[cell[w]] = v}
                = OnProvider(v)
  BY DEF Busy, OnModel, OnProvider
<1>2. QED BY <1>1 DEF Limits, InFlightWithinLimits

\* The busy workers are finitely many.
LEMMA BusyFinite ==
    /\ IsFiniteSet(Busy)
    /\ \A m : IsFiniteSet(OnModel(m))
    /\ \A v : IsFiniteSet(OnProvider(v))
BY EngineAssumption, FS_Subset DEF Busy, OnModel, OnProvider

\* One member more, one member less.
LEMMA PlusOne ==
    ASSUME NEW S, IsFiniteSet(S), NEW x, x \notin S
    PROVE  Cardinality(S \cup {x}) = Cardinality(S) + 1
BY FS_AddElement

\* Math.max(0, n - 1) on the size of a set that has the member is the size
\* without it.
LEMMA MinusOne ==
    ASSUME NEW S, IsFiniteSet(S), NEW x \in S
    PROVE  Decrement(Cardinality(S)) = Cardinality(S \ {x})
<1>1. Cardinality(S) \in Nat /\ Cardinality(S \ {x}) = Cardinality(S) - 1
  BY FS_RemoveElement, FS_CardinalityType
<1>2. Cardinality(S) # 0
  BY FS_EmptySet
<1>3. QED BY <1>1, <1>2 DEF Decrement

\* Nobody enters or leaves: the sets, and so the counters, stay.
LEMMA SteadyKeepsLimits ==
    ASSUME TypeOK, Limits, Steady
    PROVE  Limits'
<1>1. /\ \A m : OnModel(m)' = OnModel(m)
      /\ \A v : OnProvider(v)' = OnProvider(v)
  BY DEF Steady, OnModel, OnProvider
<1>2. QED BY <1>1 DEF Steady, Limits

\* A worker enters only a cell whose model and provider are below their limits.
LEMMA EntryKeepsLimits ==
    ASSUME TypeOK, Limits, NEW w \in Workers, NEW c \in Cells, Enters(w, c)
    PROVE  Limits'
<1>0. /\ w \in Procs /\ Busy \subseteq Procs /\ w \notin Busy
      /\ cell \in [Procs -> Cells \cup {NoCell}]
      /\ cell' = [cell EXCEPT ![w] = c]
      /\ Busy' = Busy \cup {w}
  BY DEF Enters, TypeOK, CoroutinesOK, Procs, Busy
<1>1. /\ modelInFlight \in [Models -> Nat]
      /\ providerInFlight \in [Providers -> Nat]
  BY DEF TypeOK, PoolOK
<1>2. \A m : OnModel(m)' = IF m = ModelOf[c] THEN OnModel(m) \cup {w}
                           ELSE OnModel(m)
  BY <1>0 DEF OnModel
<1>3. \A v : OnProvider(v)' = IF v = ProviderOf[c] THEN OnProvider(v) \cup {w}
                              ELSE OnProvider(v)
  BY <1>0 DEF OnProvider
<1>4. \A m : w \notin OnModel(m)
  BY <1>0 DEF OnModel
<1>5. \A v : w \notin OnProvider(v)
  BY <1>0 DEF OnProvider
<1>6. inFlight' = Cardinality(Busy')
  BY <1>0, PlusOne, BusyFinite DEF Enters, Occupy, Limits
<1>7. ASSUME NEW m \in Models
      PROVE  /\ modelInFlight'[m] = Cardinality(OnModel(m)')
             /\ modelInFlight'[m] <= ModelLimit[m]
  <2>1. ModelLimit[m] \in Nat /\ modelInFlight[m] \in Nat
    BY <1>1, EngineAssumption
  <2>2. CASE m = ModelOf[c]
    <3>1. modelInFlight'[m] = modelInFlight[m] + 1
      BY <1>1, <2>2 DEF Enters, Occupy
    <3>2. Cardinality(OnModel(m)') = Cardinality(OnModel(m)) + 1
      BY <1>2, <1>4, <2>2, PlusOne, BusyFinite
    <3>3. modelInFlight[m] < ModelLimit[m]
      BY <2>2 DEF Enters, Eligible
    <3>4. QED BY <2>1, <3>1, <3>2, <3>3 DEF Limits
  <2>3. CASE m # ModelOf[c]
    <3>1. modelInFlight'[m] = modelInFlight[m] /\ OnModel(m)' = OnModel(m)
      BY <1>1, <1>2, <2>3 DEF Enters, Occupy
    <3>2. QED BY <3>1 DEF Limits
  <2>4. QED BY <2>2, <2>3
<1>8. ASSUME NEW v \in Providers
      PROVE  /\ providerInFlight'[v] = Cardinality(OnProvider(v)')
             /\ providerInFlight'[v] <= ProviderLimit
  <2>1. ProviderLimit \in Nat /\ providerInFlight[v] \in Nat
    BY <1>1, EngineAssumption
  <2>2. CASE v = ProviderOf[c]
    <3>1. providerInFlight'[v] = providerInFlight[v] + 1
      BY <1>1, <2>2 DEF Enters, Occupy
    <3>2. Cardinality(OnProvider(v)') = Cardinality(OnProvider(v)) + 1
      BY <1>3, <1>5, <2>2, PlusOne, BusyFinite
    <3>3. providerInFlight[v] < ProviderLimit
      BY <2>2 DEF Enters, Eligible
    <3>4. QED BY <2>1, <3>1, <3>2, <3>3 DEF Limits
  <2>3. CASE v # ProviderOf[c]
    <3>1. /\ providerInFlight'[v] = providerInFlight[v]
          /\ OnProvider(v)' = OnProvider(v)
      BY <1>1, <1>3, <2>3 DEF Enters, Occupy
    <3>2. QED BY <3>1 DEF Limits
  <2>4. QED BY <2>2, <2>3
<1>9. QED BY <1>6, <1>7, <1>8 DEF Limits

\* A worker that leaves gives back what its own cell occupied.
LEMMA LeavingKeepsLimits ==
    ASSUME TypeOK, Limits, NEW w \in Workers, Leaves(w)
    PROVE  Limits'
<1>0. /\ w \in Busy
      /\ Busy' = Busy \ {w}
      /\ \A q \in Busy' : cell'[q] = cell[q]
  BY DEF Leaves
<1>1. /\ modelInFlight \in [Models -> Nat]
      /\ providerInFlight \in [Providers -> Nat]
  BY DEF TypeOK, PoolOK
<1>2. \A m : OnModel(m)' = OnModel(m) \ {w}
  BY <1>0 DEF OnModel
<1>3. \A v : OnProvider(v)' = OnProvider(v) \ {w}
  BY <1>0 DEF OnProvider
<1>4. \A m : w \in OnModel(m) <=> m = ModelOf[cell[w]]
  BY <1>0 DEF OnModel
<1>5. \A v : w \in OnProvider(v) <=> v = ProviderOf[cell[w]]
  BY <1>0 DEF OnProvider
<1>6. inFlight' = Cardinality(Busy')
  BY <1>0, MinusOne, BusyFinite DEF Leaves, Vacate, Limits
<1>7. ASSUME NEW m \in Models
      PROVE  /\ modelInFlight'[m] = Cardinality(OnModel(m)')
             /\ modelInFlight'[m] <= ModelLimit[m]
  <2>1. ModelLimit[m] \in Nat /\ modelInFlight[m] \in Nat
    BY <1>1, EngineAssumption
  <2>2. CASE m = ModelOf[cell[w]]
    <3>1. modelInFlight'[m] = Decrement(modelInFlight[m])
      BY <1>1, <2>2 DEF Leaves, Vacate
    <3>2. Decrement(Cardinality(OnModel(m))) = Cardinality(OnModel(m)')
      BY <1>2, <1>4, <2>2, MinusOne, BusyFinite
    <3>3. Decrement(modelInFlight[m]) <= modelInFlight[m]
      BY <2>1 DEF Decrement
    <3>4. Decrement(modelInFlight[m]) \in Nat
      BY <2>1, DecrementNat
    <3>5. QED BY <2>1, <3>1, <3>2, <3>3, <3>4 DEF Limits
  <2>3. CASE m # ModelOf[cell[w]]
    <3>1. modelInFlight'[m] = modelInFlight[m]
      BY <1>1, <2>3 DEF Leaves, Vacate
    <3>2. OnModel(m)' = OnModel(m)
      BY <1>2, <1>4, <2>3
    <3>3. QED BY <3>1, <3>2 DEF Limits
  <2>4. QED BY <2>2, <2>3
<1>8. ASSUME NEW v \in Providers
      PROVE  /\ providerInFlight'[v] = Cardinality(OnProvider(v)')
             /\ providerInFlight'[v] <= ProviderLimit
  <2>1. ProviderLimit \in Nat /\ providerInFlight[v] \in Nat
    BY <1>1, EngineAssumption
  <2>2. CASE v = ProviderOf[cell[w]]
    <3>1. providerInFlight'[v] = Decrement(providerInFlight[v])
      BY <1>1, <2>2 DEF Leaves, Vacate
    <3>2. Decrement(Cardinality(OnProvider(v))) = Cardinality(OnProvider(v)')
      BY <1>3, <1>5, <2>2, MinusOne, BusyFinite
    <3>3. Decrement(providerInFlight[v]) <= providerInFlight[v]
      BY <2>1 DEF Decrement
    <3>4. Decrement(providerInFlight[v]) \in Nat
      BY <2>1, DecrementNat
    <3>5. QED BY <2>1, <3>1, <3>2, <3>3, <3>4 DEF Limits
  <2>3. CASE v # ProviderOf[cell[w]]
    <3>1. providerInFlight'[v] = providerInFlight[v]
      BY <1>1, <2>3 DEF Leaves, Vacate
    <3>2. OnProvider(v)' = OnProvider(v)
      BY <1>3, <1>5, <2>3
    <3>3. QED BY <3>1, <3>2 DEF Limits
  <2>4. QED BY <2>2, <2>3
<1>9. QED BY <1>6, <1>7, <1>8 DEF Limits

\* Nobody is busy at the start.
LEMMA LimitsInit == Init => Limits
<1> SUFFICES ASSUME Init PROVE Limits
  OBVIOUS
<1>1. Busy = {}
  BY EngineAssumption DEF Init, Busy, Running, Executing, Procs
<1>2. (\A m : OnModel(m) = {}) /\ (\A v : OnProvider(v) = {})
  BY <1>1 DEF OnModel, OnProvider
<1>3. Cardinality({}) = 0
  BY FS_EmptySet
<1>4. inFlight = Cardinality(Busy)
  BY <1>1, <1>3 DEF Init
<1>5. ASSUME NEW m \in Models
      PROVE  modelInFlight[m] = Cardinality(OnModel(m)) /\ 0 <= ModelLimit[m]
  <2>1. ModelLimit[m] \in Nat \ {0}
    BY EngineAssumption
  <2>2. modelInFlight = [n \in Models |-> 0]
    BY DEF Init
  <2>3. modelInFlight[m] = 0 /\ Cardinality(OnModel(m)) = 0
    BY <1>2, <1>3, <2>2
  <2>4. QED BY <2>1, <2>3
<1>6. ASSUME NEW v \in Providers
      PROVE  providerInFlight[v] = Cardinality(OnProvider(v))
  BY <1>2, <1>3 DEF Init
<1>7. /\ \A m \in Models : modelInFlight[m] = 0
      /\ \A v \in Providers : providerInFlight[v] = 0
      /\ 0 <= ProviderLimit
  BY EngineAssumption DEF Init
<1>8. QED BY <1>4, <1>5, <1>6, <1>7 DEF Limits

\* A coroutine that moves between cells holds none, at every step.
LEMMA AlwaysIdle == Spec => []IdleHoldsNothing
<1>1. Init => IdleHoldsNothing
  BY CellInit
<1>2. QED
  BY <1>1, IdleStep, TypeCorrect, PTL DEF Spec

(***************************************************************************)
(* Limits: modelInFlight, providerInFlight and inFlightCount always count  *)
(* the cells that execute, whatever conflict, checkpoint failure or abort  *)
(* ends them, and no model and no provider runs more than its limit        *)
(* (executeScheduledCell of sweep-worker-pool.ts).                         *)
(***************************************************************************)
THEOREM LimitsHold == Spec => []InFlightWithinLimits
<1>1. TypeOK /\ Limits /\ PoolMove => Limits'
  BY SteadyKeepsLimits, EntryKeepsLimits, LeavingKeepsLimits DEF PoolMove
<1>2. TypeOK /\ IdleHoldsNothing /\ Limits /\ [Next]_vars => Limits'
  BY <1>1, StepPoolMoves
<1>3. QED
  BY <1>2, LimitsInit, LimitsMeans, TypeCorrect, AlwaysIdle, PTL DEF Spec

(***************************************************************************)
(* Abort: once the signal is aborted, by a caller, by the first failure,   *)
(* by an identity conflict or by a broken checkpoint, no worker starts     *)
(* another cell, also not one that waits at the gate or for a retry.       *)
(***************************************************************************)
THEOREM AbortStartsNothing == Spec => NoStartAfterAbort
<1>1. ASSUME PoolMove, aborted, NEW w \in Workers, ~Running(w)
      PROVE  ~Running(w)'
  <2>1. w \notin Busy
    BY <1>1 DEF Busy
  <2>2. \A v \in Workers, c \in Cells : ~Enters(v, c)
    BY <1>1 DEF Enters, MayStart
  <2>3. Busy' \subseteq Busy
    BY <1>1, <2>2 DEF PoolMove, Steady, Leaves
  <2>4. QED BY <2>1, <2>3 DEF Busy
<1>2. TypeOK /\ IdleHoldsNothing /\ [Next]_vars
      => (aborted => \A w \in Workers : ~Running(w) => ~Running(w)')
  BY <1>1, StepPoolMoves
<1>3. QED
  BY <1>2, TypeCorrect, AlwaysIdle, PTL DEF Spec, NoStartAfterAbort

\* An executing coroutine holds the claim of its cell, the one row that a
\* terminal record may replace.
ClaimHeld == \A p \in Procs : pc[p] = "exec" => db[cell[p]] = "claimed"

\* The three things a step can do to the rows of the database.
RowsKept ==
    /\ UNCHANGED db
    /\ \A q \in Procs : pc'[q] = "exec" => pc[q] = "exec" /\ cell'[q] = cell[q]

Claims(p, c) ==
    /\ c \in queue
    /\ db[c] = "none"
    /\ db' = [db EXCEPT ![c] = "claimed"]
    /\ cell' = [cell EXCEPT ![p] = c]
    /\ \A q \in Procs \ {p} : pc'[q] = "exec" => pc[q] = "exec"

Records(p, s) ==
    /\ pc[p] = "exec"
    /\ pc'[p] # "exec"
    /\ db' = [db EXCEPT ![cell[p]] = s]
    /\ UNCHANGED cell
    /\ \A q \in Procs \ {p} : pc'[q] = "exec" => pc[q] = "exec"

RowMove == \/ RowsKept
           \/ \E p \in Procs, c \in Cells : Claims(p, c)
           \/ \E p \in Procs, s \in RecordStatus : Records(p, s)

\* A step of a cell writes at most the record of the cell it claimed.
LEMMA CellStepRows ==
    ASSUME TypeOK, NEW p \in Procs, CellStep(p)
    PROVE  RowMove
<1>0. /\ pc \in [Procs -> WorkerPc \cup MainPc \cup Executing]
      /\ cell \in [Procs -> Cells \cup {NoCell}]
  BY DEF TypeOK, CoroutinesOK
<1>1. CASE FinishCell(p) \/ PersistenceFails(p)
  <2>1. /\ pc[p] = "exec"
        /\ pc' = [pc EXCEPT ![p] = "returned"]
        /\ cell' = cell
    BY <1>1 DEF FinishCell, PersistenceFails, Goto
  <2>2. db' = db \/ \E s \in RecordStatus : db' = [db EXCEPT ![cell[p]] = s]
    BY <1>1 DEF FinishCell, PersistenceFails, TerminalStatus, RecordStatus
  <2>3. \A q \in Procs \ {p} : pc'[q] = pc[q]
    BY <1>0, <2>1
  <2>4. pc'[p] # "exec"
    BY <1>0, <2>1
  <2>5. QED BY <2>1, <2>2, <2>3, <2>4 DEF RowMove, RowsKept, Records
<1>2. CASE RequestCheckpoint(p) \/ WriteCheckpoint(p) \/ CheckpointFails(p)
  <2>1. /\ cell' = cell /\ db' = db
        /\ \E l \in {"write", "written", "unwritten"} : pc' = [pc EXCEPT ![p] = l]
    BY <1>2 DEF RequestCheckpoint, WriteCheckpoint, CheckpointFails, Goto, disk
  <2>2. QED BY <1>0, <2>1 DEF RowMove, RowsKept
<1>3. CASE RecordConflict(p) \/ RecordCheckpointFailure(p) \/ Publish(p)
  <2>1. /\ cell' = [cell EXCEPT ![p] = NoCell] /\ db' = db
        /\ \/ pc' = [pc EXCEPT ![p] = After(p)]
           \/ pc' = [OpenGate(pc) EXCEPT ![p] = After(p)]
    BY <1>3 DEF RecordConflict, RecordCheckpointFailure, Publish, Goto,
       Leave, disk
  <2>2. QED BY <1>0, <2>1 DEF RowMove, RowsKept, After, OpenGate
<1>4. QED BY <1>1, <1>2, <1>3 DEF CellStep

\* A worker or the drain claims a row that nobody has, and only for a queued
\* cell.
LEMMA StepRows == TypeOK /\ [Next]_vars => RowMove
<1> SUFFICES ASSUME TypeOK, [Next]_vars PROVE RowMove
  OBVIOUS
<1>0. /\ pc \in [Procs -> WorkerPc \cup MainPc \cup Executing]
      /\ cell \in [Procs -> Cells \cup {NoCell}]
      /\ Main \in Procs /\ Workers \subseteq Procs
  BY DEF TypeOK, CoroutinesOK, Procs
<1>1. ASSUME NEW p \in Procs, NEW c \in Cells, c \in queue, Claim(p, c),
             pc[p] # "exec", cell' = [cell EXCEPT ![p] = c]
      PROVE  RowMove
  <2>1. CASE db[c] = "none"
    <3>1. pc' = [pc EXCEPT ![p] = "exec"] /\ db' = [db EXCEPT ![c] = "claimed"]
      BY <1>1, <2>1 DEF Claim, Goto
    <3>2. Claims(p, c)
      BY <1>0, <1>1, <2>1, <3>1 DEF Claims
    <3>3. QED BY <3>2 DEF RowMove
  <2>2. CASE db[c] # "none"
    <3>1. pc' = [pc EXCEPT ![p] = "returned"] /\ db' = db
      BY <1>1, <2>2 DEF Claim, Goto
    <3>2. QED BY <1>0, <1>1, <3>1 DEF RowMove, RowsKept
  <2>3. QED BY <2>1, <2>2
<1>2. ASSUME NEW p \in Procs, NEW l, l # "exec", pc' = [pc EXCEPT ![p] = l],
             \/ cell' = cell
             \/ \E c \in Cells : cell' = [cell EXCEPT ![p] = c],
             db' = db
      PROVE  RowMove
  BY <1>0, <1>2 DEF RowMove, RowsKept
<1>3. ASSUME NEW w \in Workers, WorkerStep(w) PROVE RowMove
  <2>1. CASE LoopTop(w) \/ PassGate(w) \/ RetryElapsed(w) \/ SkipByWorker(w)
             \/ DispatchThrows(w)
    <3>1. /\ \E l \in {"exited", "ready", "parked", "retry", "top", "threw"} :
                 pc' = [pc EXCEPT ![w] = l]
          /\ db' = db
          /\ \/ cell' = cell
             \/ \E c \in Cells : cell' = [cell EXCEPT ![w] = c]
      BY <2>1 DEF LoopTop, PassGate, RetryElapsed, SkipByWorker, SkipCell,
         DispatchThrows, Goto, disk
    <3>2. QED BY <1>0, <1>2, <3>1
  <2>2. CASE Dispatch(w)
    <3>1. PICK c \in Cells : /\ c \in queue
                             /\ cell' = [cell EXCEPT ![w] = c]
                             /\ Claim(w, c)
      BY <2>2 DEF Dispatch, FirstEligible, Eligible
    <3>2. pc[w] # "exec"
      BY <2>2 DEF Dispatch
    <3>3. QED BY <1>0, <1>1, <3>1, <3>2
  <2>3. QED BY <1>0, <1>3, <2>1, <2>2, CellStepRows DEF WorkerStep
<1>4. CASE MainStep
  <2>1. CASE OpenDatabase
    BY <1>0, <2>1 DEF OpenDatabase, Goto, disk, RowMove, RowsKept
  <2>2. CASE SkipByDrain
    BY <2>2 DEF SkipByDrain, SkipCell, disk, RowMove, RowsKept
  <2>3. CASE Drain
    <3>1. PICK c \in Cells : /\ c \in queue
                             /\ cell' = [cell EXCEPT ![Main] = c]
                             /\ Claim(Main, c)
      BY <2>3 DEF Drain, FirstQueued
    <3>2. pc[Main] # "exec"
      BY <2>3 DEF Drain
    <3>3. QED BY <1>0, <1>1, <3>1, <3>2
  <2>4. CASE AcquireLease \/ BindPlan \/ DatabasePreflightFails \/ PoolDone
             \/ PoolRejects \/ DrainThrows \/ DrainDone \/ Finalize
             \/ FinalizeThrows \/ CloseDatabase \/ ReleaseLease
    <3>1. /\ \E l \in {"plan", "done", "open", "release", "drain", "finalize",
                       "close"} : pc' = [pc EXCEPT ![Main] = l]
          /\ db' = db
          /\ \/ cell' = cell
             \/ \E c \in Cells : cell' = [cell EXCEPT ![Main] = c]
      BY <2>4 DEF AcquireLease, BindPlan, DatabasePreflightFails, PoolDone,
         PoolRejects, DrainThrows, DrainDone, Finalize, FinalizeThrows,
         CloseDatabase, ReleaseLease, Goto, disk
    <3>2. QED BY <1>0, <1>2, <3>1
  <2>5. QED BY <1>0, <1>4, <2>1, <2>2, <2>3, <2>4, CellStepRows DEF MainStep
<1>5. CASE Caller
  <2>1. cell' = cell /\ db' = db /\ (pc' = pc \/ pc' = OpenGate(pc))
    BY <1>5 DEF Caller, Pause, Resume, Abort, disk
  <2>2. QED BY <1>0, <2>1 DEF OpenGate, RowMove, RowsKept
<1>6. CASE UNCHANGED vars
  BY <1>6 DEF vars, disk, RowMove, RowsKept
<1>7. QED BY <1>3, <1>4, <1>5, <1>6 DEF Next, Terminated

\* The claim is held: the other coroutines work on other cells.
LEMMA ClaimStays ==
    ASSUME TypeOK, CellConservation, ClaimHeld, RowMove
    PROVE  ClaimHeld'
<1>0. /\ db \in [Cells -> DbRow]
      /\ cell \in [Procs -> Cells \cup {NoCell}]
      /\ \A p \in Procs : pc[p] = "exec" => cell[p] \in Cells
  BY DEF TypeOK, EvidenceOK, CoroutinesOK, Executing
<1>1. CASE RowsKept
  BY <1>1 DEF RowsKept, ClaimHeld
<1>2. ASSUME NEW p \in Procs, NEW c \in Cells, Claims(p, c), NEW q \in Procs,
             pc'[q] = "exec"
      PROVE  db'[cell'[q]] = "claimed"
  <2>1. CASE q = p
    BY <1>0, <1>2, <2>1 DEF Claims
  <2>2. CASE q # p
    <3>1. pc[q] = "exec" /\ cell'[q] = cell[q] /\ cell[q] \in Cells
      BY <1>0, <1>2, <2>2 DEF Claims
    <3>2. db[cell[q]] = "claimed" /\ cell[q] # c
      BY <1>2, <3>1 DEF ClaimHeld, Claims
    <3>3. QED BY <1>0, <1>2, <3>1, <3>2 DEF Claims
  <2>3. QED BY <2>1, <2>2
<1>3. ASSUME NEW p \in Procs, NEW s \in RecordStatus, Records(p, s),
             NEW q \in Procs, pc'[q] = "exec"
      PROVE  db'[cell'[q]] = "claimed"
  <2>1. q # p /\ pc[q] = "exec" /\ cell'[q] = cell[q]
    BY <1>3 DEF Records
  <2>2. cell[p] \in Cells /\ cell[q] \in Cells
    BY <1>0, <1>3, <2>1 DEF Records
  <2>3. cell[q] # cell[p]
    BY <2>1, <2>2 DEF CellConservation
  <2>4. QED BY <1>0, <1>3, <2>1, <2>2, <2>3 DEF Records, ClaimHeld
<1>4. QED BY <1>1, <1>2, <1>3 DEF RowMove, ClaimHeld

\* A move of the rows replaces no record and drops no claim.
LEMMA RowsAreFinal ==
    ASSUME TypeOK, ClaimHeld, RowMove, NEW c \in Cells
    PROVE  /\ db[c] \in RecordStatus => db'[c] = db[c]
           /\ db[c] = "claimed" => db'[c] # "none"
<1>0. /\ db \in [Cells -> DbRow]
      /\ "claimed" \notin RecordStatus /\ "none" \notin RecordStatus
  BY DEF TypeOK, EvidenceOK, RecordStatus
<1>1. CASE RowsKept
  BY <1>0, <1>1 DEF RowsKept
<1>2. CASE \E p \in Procs, d \in Cells : Claims(p, d)
  BY <1>0, <1>2 DEF Claims
<1>3. CASE \E p \in Procs, s \in RecordStatus : Records(p, s)
  BY <1>0, <1>3 DEF Records, ClaimHeld
<1>4. QED BY <1>1, <1>2, <1>3 DEF RowMove

\* The checkpoint only gains the cell that the owner of the write lock adds,
\* and no step takes an abort back.
LEMMA CheckpointGrows ==
    ASSUME TypeOK, [Next]_vars
    PROVE  /\ \A k \in DOMAIN ckpt : ckpt[k] \subseteq ckpt'[k]
           /\ aborted => aborted'
<1>0. ckpt \in [Kinds -> SUBSET Cells]
  BY DEF TypeOK, EvidenceOK
<1>1. ASSUME NEW p \in Procs, CellStep(p)
      PROVE  /\ \A k \in DOMAIN ckpt : ckpt[k] \subseteq ckpt'[k]
             /\ aborted => aborted'
  <2>1. CASE WriteCheckpoint(p)
    BY <1>0, <2>1 DEF WriteCheckpoint, CheckpointWith, control
  <2>2. CASE ~WriteCheckpoint(p)
    BY <1>1, <2>2 DEF CellStep, FinishCell, PersistenceFails,
       RequestCheckpoint, RecordConflict, RecordCheckpointFailure,
       CheckpointFails, Publish, control, disk
  <2>3. QED BY <2>1, <2>2
<1>2. ASSUME NEW w \in Workers, WorkerStep(w), ~CellStep(w)
      PROVE  ckpt' = ckpt /\ aborted' = aborted
  BY <1>2 DEF WorkerStep, LoopTop, PassGate, RetryElapsed, SkipByWorker,
     SkipCell, Dispatch, DispatchThrows, control, disk
<1>3. ASSUME MainStep, ~CellStep(Main)
      PROVE  ckpt' = ckpt /\ aborted' = aborted
  <2>1. CASE AcquireLease \/ BindPlan \/ OpenDatabase
             \/ DatabasePreflightFails \/ PoolDone \/ PoolRejects
    BY <2>1 DEF AcquireLease, BindPlan, OpenDatabase, DatabasePreflightFails,
       PoolDone, PoolRejects, control, disk
  <2>2. CASE SkipByDrain \/ Drain \/ DrainThrows \/ DrainDone
    BY <2>2 DEF SkipByDrain, SkipCell, Drain, DrainThrows, DrainDone,
       control, disk
  <2>3. CASE Finalize \/ FinalizeThrows \/ CloseDatabase \/ ReleaseLease
    BY <2>3 DEF Finalize, FinalizeThrows, CloseDatabase, ReleaseLease,
       control, disk
  <2>4. QED BY <1>3, <2>1, <2>2, <2>3 DEF MainStep
<1>4. CASE Caller
  BY <1>4 DEF Caller, Pause, Resume, Abort, disk
<1>5. CASE UNCHANGED vars
  BY <1>5 DEF vars, control, disk
<1>6. Workers \subseteq Procs /\ Main \in Procs
  BY DEF Procs
<1>7. QED BY <1>1, <1>2, <1>3, <1>4, <1>5, <1>6 DEF Next, Terminated

(***************************************************************************)
(* Evidence: a run record is never replaced and a claim never dropped,     *)
(* because only the coroutine that claimed a cell writes its record; the   *)
(* checkpoint forgets no cell, and an abort is final (claimRunIdentity,    *)
(* persistTerminalCell and the write lock of the checkpoint ledger).       *)
(***************************************************************************)
THEOREM EvidenceStands == Spec => EvidenceIsFinal
<1>1. Init => ClaimHeld
  BY EngineAssumption DEF Init, ClaimHeld, Procs
<1>2. TypeOK /\ CellConservation /\ ClaimHeld /\ [Next]_vars => ClaimHeld'
  BY StepRows, ClaimStays
<1>3. TypeOK /\ ClaimHeld /\ [Next]_vars =>
         /\ \A c \in Cells : /\ db[c] \in RecordStatus => db'[c] = db[c]
                             /\ db[c] = "claimed" => db'[c] # "none"
         /\ \A k \in DOMAIN ckpt : ckpt[k] \subseteq ckpt'[k]
         /\ aborted => aborted'
  BY StepRows, RowsAreFinal, CheckpointGrows
<1>4. QED
  BY <1>1, <1>2, <1>3, TypeCorrect, CellsConserved, PTL
  DEF Spec, EvidenceIsFinal

(***************************************************************************)
(* The gate                                                                *)
(***************************************************************************)

\* As long as a pause is in force, a worker that started a cell in it is not
\* past the gate.
GateHolds ==
    isPaused /\ ~aborted =>
        /\ resumer
        /\ \A w \in Workers : /\ pauseStarts[w] <= 1
                              /\ pauseStarts[w] = 1 => pc[w] # "ready"

\* A step that leaves the gate alone and sends nobody through it.
GateKept ==
    /\ isPaused' /\ ~aborted' => isPaused /\ ~aborted /\ (resumer => resumer')
    /\ UNCHANGED pauseStarts
    /\ isPaused' /\ ~aborted' /\ resumer =>
           \A w \in Workers : pc'[w] = "ready" => pc[w] = "ready"

LEMMA KeptGateHolds ==
    ASSUME GateHolds, GateKept
    PROVE  GateHolds'
BY DEF GateHolds, GateKept

\* A step of a cell aborts the sweep, or leaves the gate alone.
LEMMA CellStepGate ==
    ASSUME TypeOK, NEW p \in Procs, CellStep(p)
    PROVE  GateKept
<1>0. pc \in [Procs -> WorkerPc \cup MainPc \cup Executing] /\ Workers \subseteq Procs
  BY DEF TypeOK, CoroutinesOK, Procs
<1>1. CASE FinishCell(p) \/ PersistenceFails(p) \/ RequestCheckpoint(p)
           \/ WriteCheckpoint(p) \/ CheckpointFails(p)
  <2>1. /\ \E l \in {"returned", "write", "written", "unwritten"} :
               pc' = [pc EXCEPT ![p] = l]
        /\ UNCHANGED <<control, pauseStarts>>
    BY <1>1 DEF FinishCell, PersistenceFails, RequestCheckpoint,
       WriteCheckpoint, CheckpointFails, Goto
  <2>2. QED BY <1>0, <2>1 DEF GateKept, control
<1>2. CASE RecordConflict(p) \/ RecordCheckpointFailure(p)
  BY <1>2 DEF RecordConflict, RecordCheckpointFailure, GateKept
<1>3. CASE Publish(p)
  <2>1. CASE aborted'
    BY <1>3, <2>1 DEF Publish, GateKept
  <2>2. CASE ~aborted'
    <3>1. /\ pc' = [pc EXCEPT ![p] = After(p)]
          /\ UNCHANGED <<isPaused, resumer, aborted, pauseStarts>>
      BY <1>3, <2>2 DEF Publish, Goto
    <3>2. After(p) # "ready"
      BY DEF After
    <3>3. QED BY <1>0, <3>1, <3>2 DEF GateKept
  <2>3. QED BY <2>1, <2>2
<1>4. QED BY <1>1, <1>2, <1>3 DEF CellStep

\* A pause holds a worker before its next cell.
LEMMA WorkerStepGate ==
    ASSUME TypeOK, GateHolds, NEW w \in Workers, WorkerStep(w)
    PROVE  GateHolds'
<1>0. /\ pc \in [Procs -> WorkerPc \cup MainPc \cup Executing]
      /\ pauseStarts \in [Workers -> Nat]
      /\ Workers \subseteq Procs
  BY DEF TypeOK, CoroutinesOK, TallyOK, Procs
<1>1. CASE LoopTop(w)
  <2>1. PICK l : /\ pc' = [pc EXCEPT ![w] = l]
                 /\ isPaused /\ resumer => l # "ready"
    BY <1>1 DEF LoopTop, Goto, GateOpen
  <2>2. UNCHANGED <<isPaused, resumer, aborted, pauseStarts>>
    BY <1>1 DEF LoopTop, control
  <2>3. QED BY <1>0, <2>1, <2>2 DEF GateHolds
<1>2. CASE PassGate(w) \/ RetryElapsed(w) \/ SkipByWorker(w) \/ DispatchThrows(w)
  <2>1. /\ \E l \in {"exited", "retry", "top", "threw"} : pc' = [pc EXCEPT ![w] = l]
        /\ UNCHANGED <<control, pauseStarts>>
    BY <1>2 DEF PassGate, RetryElapsed, SkipByWorker, SkipCell,
       DispatchThrows, Goto
  <2>2. GateKept
    BY <1>0, <2>1 DEF GateKept, control
  <2>3. QED BY <2>2, KeptGateHolds
<1>3. CASE Dispatch(w)
  <2>1. /\ pc[w] = "ready"
        /\ \E l \in {"exec", "returned"} : pc' = [pc EXCEPT ![w] = l]
        /\ UNCHANGED <<isPaused, resumer, aborted>>
        /\ pauseStarts' = IF isPaused THEN [pauseStarts EXCEPT ![w] = @ + 1]
                          ELSE pauseStarts
    BY <1>3 DEF Dispatch, Claim, Goto, control
  <2>2. isPaused /\ ~aborted => pauseStarts[w] = 0
    BY <1>0, <2>1 DEF GateHolds
  <2>3. QED BY <1>0, <2>1, <2>2 DEF GateHolds
<1>4. CASE CellStep(w)
  BY <1>0, <1>4, CellStepGate, KeptGateHolds
<1>5. QED BY <1>1, <1>2, <1>3, <1>4 DEF WorkerStep

LEMMA GateStep == TypeOK /\ GateHolds /\ [Next]_vars => GateHolds'
<1> SUFFICES ASSUME TypeOK, GateHolds, [Next]_vars PROVE GateHolds'
  OBVIOUS
<1>0. /\ pc \in [Procs -> WorkerPc \cup MainPc \cup Executing]
      /\ Main \in Procs /\ Main \notin Workers /\ Workers \subseteq Procs
  BY EngineAssumption DEF TypeOK, CoroutinesOK, Procs
<1>1. CASE \E w \in Workers : WorkerStep(w)
  BY <1>1, WorkerStepGate
<1>2. CASE MainStep
  <2>1. CASE OpenDatabase
    <3>1. /\ \A w \in Workers : pc'[w] = "ready" => pc[w] = "ready"
          /\ UNCHANGED <<control, pauseStarts>>
      BY <1>0, <2>1 DEF OpenDatabase, Goto
    <3>2. QED BY <3>1, KeptGateHolds DEF GateKept, control
  <2>2. CASE SkipByDrain
    BY <2>2, KeptGateHolds DEF SkipByDrain, SkipCell, control, GateKept
  <2>3. CASE CellStep(Main)
    BY <1>0, <2>3, CellStepGate, KeptGateHolds
  <2>4. CASE MainStep /\ ~OpenDatabase /\ ~SkipByDrain /\ ~CellStep(Main)
    <3>1. \E l : pc' = [pc EXCEPT ![Main] = l]
      BY <2>4 DEF MainStep, AcquireLease, BindPlan, DatabasePreflightFails,
         PoolDone, PoolRejects, Drain, DrainThrows, DrainDone, Finalize,
         FinalizeThrows, CloseDatabase, ReleaseLease, Claim, Goto
    <3>2. UNCHANGED <<isPaused, resumer, aborted, pauseStarts>>
      BY <2>4 DEF MainStep, AcquireLease, BindPlan, DatabasePreflightFails,
         PoolDone, PoolRejects, Drain, DrainThrows, DrainDone, Finalize,
         FinalizeThrows, CloseDatabase, ReleaseLease, control
    <3>3. QED BY <1>0, <3>1, <3>2, KeptGateHolds DEF GateKept
  <2>5. QED BY <1>2, <2>1, <2>2, <2>3, <2>4
<1>3. CASE Caller
  <2>1. CASE Pause
    BY <2>1 DEF Pause, GateHolds
  <2>2. CASE Resume \/ Abort
    BY <2>2 DEF Resume, Abort, GateHolds
  <2>3. QED BY <1>3, <2>1, <2>2 DEF Caller
<1>4. CASE UNCHANGED vars
  BY <1>4 DEF vars, control, GateHolds
<1>5. QED BY <1>1, <1>2, <1>3, <1>4 DEF Next, Terminated

(***************************************************************************)
(* Pause: between pause() and the resume() or abort() that ends it, a      *)
(* worker starts at most the one cell whose gate it had already passed,    *)
(* however many workers there are and whatever their cells do meanwhile.   *)
(***************************************************************************)
THEOREM PauseHolds == Spec => []PauseOverrun
<1>1. Init => GateHolds
  BY DEF Init, GateHolds
<1>2. GateHolds => PauseOverrun
  BY DEF GateHolds, PauseOverrun
<1>3. QED
  BY <1>1, <1>2, GateStep, TypeCorrect, PTL DEF Spec

(***************************************************************************)
(* The stages of a run                                                     *)
(***************************************************************************)

Ended == pc[Main] \in {"close", "release", "done"}

AllExited == \A w \in Workers : pc[w] = "exited"

\* Nobody is left in a cell: every worker left its loop, or the run fails
\* before any started.  Otherwise a worker threw.
Abandoned ==
    /\ runError
    /\ (\A w \in Workers : pc[w] = "idle") \/ (\E w \in Workers : pc[w] = "threw")

\* How far Main has come says where the workers are and what the run holds.
StagesOK ==
    /\ pc[Main] \in MainPc \cup Executing
    /\ \A w \in Workers : pc[w] \in WorkerPc \cup Executing
    /\ pc[Main] \notin {"lease", "done"} => lease
    /\ runError => Ended
    /\ pc[Main] \in {"drain", "finalize"} \cup Executing => AllExited
    /\ pc[Main] \in {"drain"} \cup Executing => aborted
    /\ Ended => AllExited \/ Abandoned
    /\ Ended /\ ~runError => cell[Main] = NoCell

\* Where a step of a cell goes: on in the cell, or out of it.
CellMove(p) ==
    /\ pc[p] \in Executing
    /\ \E l \in Executing \cup {After(p)} :
           \/ pc' = [pc EXCEPT ![p] = l]
           \/ pc' = [OpenGate(pc) EXCEPT ![p] = l]
    /\ \A q \in Procs \ {p} : cell'[q] = cell[q]
    /\ aborted => aborted'
    /\ UNCHANGED <<lease, dbOpen, checkpointLoaded, runError>>

LEMMA CellStepStage ==
    ASSUME TypeOK, NEW p \in Procs, CellStep(p)
    PROVE  CellMove(p)
<1>1. CASE FinishCell(p) \/ PersistenceFails(p) \/ RequestCheckpoint(p)
           \/ WriteCheckpoint(p) \/ CheckpointFails(p)
  <2>1. /\ pc[p] \in Executing
        /\ \E l \in Executing : pc' = [pc EXCEPT ![p] = l]
    BY <1>1 DEF FinishCell, PersistenceFails, RequestCheckpoint,
       WriteCheckpoint, CheckpointFails, Goto, Executing
  <2>2. UNCHANGED <<cell, control, session, flags>>
    BY <1>1 DEF FinishCell, PersistenceFails, RequestCheckpoint,
       WriteCheckpoint, CheckpointFails
  <2>3. QED BY <2>1, <2>2 DEF CellMove, control, session, flags
<1>2. CASE RecordConflict(p) \/ RecordCheckpointFailure(p) \/ Publish(p)
  <2>1. /\ pc[p] \in Executing
        /\ \/ pc' = [pc EXCEPT ![p] = After(p)]
           \/ pc' = [OpenGate(pc) EXCEPT ![p] = After(p)]
    BY <1>2 DEF RecordConflict, RecordCheckpointFailure, Publish, Goto, Executing
  <2>2. cell' = [cell EXCEPT ![p] = NoCell] /\ cell \in [Procs -> Cells \cup {NoCell}]
    BY <1>2 DEF RecordConflict, RecordCheckpointFailure, Publish, Leave,
       TypeOK, CoroutinesOK
  <2>3. (aborted => aborted') /\ UNCHANGED <<session, runError>>
    BY <1>2 DEF RecordConflict, RecordCheckpointFailure, Publish, flags
  <2>4. QED BY <2>1, <2>2, <2>3 DEF CellMove, session
<1>3. QED BY <1>1, <1>2 DEF CellStep

\* A worker moves between the labels of workers, and never back from an end.
WorkerMove ==
    /\ UNCHANGED <<lease, dbOpen, checkpointLoaded, runError>>
    /\ pc'[Main] = pc[Main]
    /\ cell'[Main] = cell[Main]
    /\ aborted => aborted'
    /\ \A v \in Workers :
           /\ pc'[v] \in WorkerPc \cup Executing
           /\ pc[v] \in {"idle", "exited", "threw"} => pc'[v] = pc[v]

LEMMA WorkerStepStage ==
    ASSUME TypeOK, StagesOK, NEW w \in Workers, WorkerStep(w)
    PROVE  WorkerMove
<1>0. /\ pc \in [Procs -> Labels]
      /\ cell \in [Procs -> Cells \cup {NoCell}]
      /\ Main \in Procs /\ Main \notin Workers /\ Workers \subseteq Procs
  BY EngineAssumption DEF TypeOK, CoroutinesOK, Labels, Procs
<1>1. CASE CellStep(w)
  <2>1. CellMove(w)
    BY <1>0, <1>1, CellStepStage
  <2>2. PICK l \in Executing \cup {"top"} :
             \/ pc' = [pc EXCEPT ![w] = l]
             \/ pc' = [OpenGate(pc) EXCEPT ![w] = l]
    BY <1>0, <2>1 DEF CellMove, After
  <2>3. pc[Main] # "parked"
    BY DEF StagesOK, MainPc, Executing
  <2>4. pc'[Main] = pc[Main]
    BY <1>0, <2>2, <2>3 DEF OpenGate
  <2>5. \A v \in Workers \ {w} : pc'[v] = pc[v] \/ (pc[v] = "parked" /\ pc'[v] = "ready")
    BY <1>0, <2>2 DEF OpenGate
  <2>6. pc'[w] = l /\ pc[w] \in Executing
    BY <1>0, <2>1, <2>2 DEF CellMove, OpenGate
  <2>7. \A v \in Workers :
            /\ pc'[v] \in WorkerPc \cup Executing
            /\ pc[v] \in {"idle", "exited", "threw"} => pc'[v] = pc[v]
    BY <2>2, <2>5, <2>6 DEF StagesOK, WorkerPc, Executing
  <2>8. QED BY <1>0, <2>1, <2>4, <2>7 DEF WorkerMove, CellMove
<1>2. CASE ~CellStep(w)
  <2>1. /\ pc[w] \notin {"idle", "exited", "threw"}
        /\ \E l \in WorkerPc \cup Executing : pc' = [pc EXCEPT ![w] = l]
    BY <1>2 DEF WorkerStep, LoopTop, PassGate, RetryElapsed, SkipByWorker,
       Dispatch, DispatchThrows, Claim, Goto, WorkerPc, Executing
  <2>2. UNCHANGED <<control, session, flags>>
    BY <1>2 DEF WorkerStep, LoopTop, PassGate, RetryElapsed, SkipByWorker,
       SkipCell, Dispatch, DispatchThrows
  <2>3. cell' = cell \/ \E c \in Cells : cell' = [cell EXCEPT ![w] = c]
    BY <1>2 DEF WorkerStep, LoopTop, PassGate, RetryElapsed, SkipByWorker,
       SkipCell, Dispatch, DispatchThrows
  <2>4. QED
    BY <1>0, <2>1, <2>2, <2>3 DEF WorkerMove, StagesOK, control, session, flags
<1>3. QED BY <1>1, <1>2

\* A worker changes no stage of Main, and an exited worker stays.
LEMMA WorkerKeepsStages ==
    ASSUME StagesOK, WorkerMove
    PROVE  StagesOK'
BY DEF StagesOK, WorkerMove, Ended, AllExited, Abandoned

\* Main alone moves: what its new label asks for is all there is to show.
LEMMA MainKeepsStages ==
    ASSUME TypeOK, StagesOK, NEW l \in MainPc \cup Executing,
           \/ pc' = [pc EXCEPT ![Main] = l]
           \/ pc' = [OpenGate(pc) EXCEPT ![Main] = l],
           l \notin {"lease", "done"} => lease',
           runError' => l \in {"close", "release", "done"},
           l \in {"drain", "finalize"} \cup Executing => AllExited,
           l \in {"drain"} \cup Executing => aborted',
           l \in {"close", "release", "done"} =>
               \/ AllExited
               \/ runError' /\ \A w \in Workers : pc[w] = "idle"
               \/ runError' /\ \E w \in Workers : pc[w] = "threw",
           l \in {"close", "release", "done"} /\ ~runError' => cell'[Main] = NoCell
    PROVE  StagesOK'
<1>0. /\ pc \in [Procs -> Labels]
      /\ Main \in Procs /\ Main \notin Workers /\ Workers \subseteq Procs
  BY EngineAssumption DEF TypeOK, CoroutinesOK, Labels, Procs
<1>1. pc'[Main] = l
  BY <1>0 DEF OpenGate
<1>2. \A w \in Workers : pc'[w] = pc[w] \/ (pc[w] = "parked" /\ pc'[w] = "ready")
  BY <1>0 DEF OpenGate
<1>3. \A w \in Workers : pc'[w] \in WorkerPc \cup Executing
  BY <1>2 DEF StagesOK, WorkerPc
<1>4. /\ AllExited => AllExited'
      /\ (\A w \in Workers : pc[w] = "idle") => (\A w \in Workers : pc'[w] = "idle")
      /\ (\E w \in Workers : pc[w] = "threw") => (\E w \in Workers : pc'[w] = "threw")
  BY <1>2 DEF AllExited
<1>5. QED
  BY <1>1, <1>3, <1>4 DEF StagesOK, Ended, Abandoned

LEMMA MainStepStages ==
    ASSUME TypeOK, IdleHoldsNothing, StagesOK, MainStep
    PROVE  StagesOK'
<1>0. /\ pc \in [Procs -> Labels]
      /\ cell \in [Procs -> Cells \cup {NoCell}]
      /\ Main \in Procs /\ Main \notin Workers /\ Workers \subseteq Procs
  BY EngineAssumption DEF TypeOK, CoroutinesOK, Labels, Procs
<1> USE DEF session, flags, control
<1>1. CASE AcquireLease \/ BindPlan \/ DatabasePreflightFails
  <2>1. /\ \A w \in Workers : pc[w] = "idle"
        /\ pc[Main] \in {"lease", "plan", "open"}
    BY <1>1 DEF AcquireLease, BindPlan, DatabasePreflightFails, IdleHoldsNothing
  <2>2. ~runError /\ (pc[Main] # "lease" => lease)
    BY <2>1 DEF StagesOK, Ended
  <2>3. PICK l \in {"plan", "open", "done", "release"} :
             /\ pc' = [pc EXCEPT ![Main] = l]
             /\ l # "done" => lease'
             /\ (l \in {"done", "release"}) <=> runError'
    BY <1>1, <2>2 DEF AcquireLease, BindPlan, DatabasePreflightFails, Goto
  <2>4. QED BY <2>1, <2>3, MainKeepsStages DEF MainPc, Executing
<1>2. CASE OpenDatabase
  <2>1. /\ \A w \in Workers : pc[w] = "idle"
        /\ pc[Main] = "open" /\ lease /\ ~runError
    BY <1>2 DEF OpenDatabase, IdleHoldsNothing, StagesOK, Ended
  <2>2. CASE runError'
    <3>1. pc' = [pc EXCEPT ![Main] = "close"] /\ lease'
      BY <1>2, <2>1, <2>2 DEF OpenDatabase, Goto
    <3>2. QED BY <2>1, <2>2, <3>1, MainKeepsStages DEF MainPc, Executing
  <2>3. CASE ~runError'
    <3>1. /\ pc'[Main] = "pool" /\ lease'
          /\ \A w \in Workers : pc'[w] = "top"
      BY <1>0, <1>2, <2>1, <2>3 DEF OpenDatabase
    <3>2. QED BY <2>3, <3>1 DEF StagesOK, Ended, MainPc, WorkerPc, Executing
  <2>4. QED BY <2>2, <2>3
<1>3. CASE PoolDone \/ PoolRejects
  <2>1. pc[Main] = "pool" /\ lease' /\ ~runError
    BY <1>3 DEF PoolDone, PoolRejects, StagesOK, Ended
  <2>2. PICK l \in {"drain", "finalize", "close"} :
             /\ pc' = [pc EXCEPT ![Main] = l]
             /\ l # "close" => AllExited /\ ~runError'
             /\ l = "drain" => aborted'
             /\ l = "close" => runError' /\ \E w \in Workers : pc[w] = "threw"
    <3>1. CASE PoolDone
      <4>1. AllExited /\ ~runError' /\ aborted' = aborted
        BY <2>1, <3>1 DEF PoolDone, PoolSettled, AllExited
      <4>2. pc' = [pc EXCEPT ![Main] = IF aborted THEN "drain" ELSE "finalize"]
        BY <3>1 DEF PoolDone, Goto
      <4>3. CASE aborted
        BY <4>1, <4>2, <4>3
      <4>4. CASE ~aborted
        BY <4>1, <4>2, <4>4
      <4>5. QED BY <4>3, <4>4
    <3>2. CASE PoolRejects
      BY <3>2 DEF PoolRejects, Goto
    <3>3. QED BY <1>3, <3>1, <3>2
  <2>3. QED BY <2>1, <2>2, MainKeepsStages DEF MainPc, Executing
<1>4. CASE SkipByDrain
  <2>1. UNCHANGED <<pc, lease, runError, aborted, cell>>
    BY <1>4 DEF SkipByDrain, SkipCell
  <2>2. QED BY <2>1 DEF StagesOK, Ended, AllExited, Abandoned
<1>5. CASE Drain \/ DrainThrows \/ DrainDone
  <2>1. /\ pc[Main] = "drain" /\ lease' /\ ~runError
        /\ AllExited /\ aborted'
    BY <1>5 DEF Drain, DrainThrows, DrainDone, StagesOK, Ended
  <2>2. PICK l \in {"exec", "returned", "close", "finalize"} :
             /\ pc' = [pc EXCEPT ![Main] = l]
             /\ (l = "close") <=> runError'
    <3>1. CASE Drain
      <4>1. ~runError'
        BY <2>1, <3>1 DEF Drain
      <4>2. \E l \in {"exec", "returned"} : pc' = [pc EXCEPT ![Main] = l]
        BY <3>1 DEF Drain, Claim, Goto
      <4>3. QED BY <4>1, <4>2
    <3>2. CASE DrainThrows
      BY <3>2 DEF DrainThrows, Goto
    <3>3. CASE DrainDone
      <4>1. ~runError' /\ pc' = [pc EXCEPT ![Main] = "finalize"]
        BY <2>1, <3>3 DEF DrainDone, Goto
      <4>2. QED BY <4>1
    <3>4. QED BY <1>5, <3>1, <3>2, <3>3
  <2>3. QED BY <2>1, <2>2, MainKeepsStages DEF MainPc, Executing
<1>6. CASE CellStep(Main)
  <2>1. CellMove(Main)
    BY <1>0, <1>6, CellStepStage
  <2>2. pc[Main] \in Executing /\ AllExited /\ aborted' /\ lease' /\ ~runError'
    BY <2>1 DEF CellMove, StagesOK, Ended, Executing
  <2>3. PICK l \in Executing \cup {"drain"} :
             \/ pc' = [pc EXCEPT ![Main] = l]
             \/ pc' = [OpenGate(pc) EXCEPT ![Main] = l]
    BY <2>1 DEF CellMove, After
  <2>4. QED BY <2>2, <2>3, MainKeepsStages DEF MainPc, Executing
<1>7. CASE Finalize \/ FinalizeThrows
  <2>1. /\ pc[Main] = "finalize" /\ AllExited /\ cell[Main] = NoCell
        /\ pc' = [pc EXCEPT ![Main] = "close"] /\ cell' = cell /\ lease' = lease
    BY <1>0, <1>7 DEF Finalize, FinalizeThrows, Goto, StagesOK,
       IdleHoldsNothing, BetweenCells
  <2>2. lease
    BY <2>1 DEF StagesOK
  <2>3. QED BY <2>1, <2>2, MainKeepsStages DEF MainPc, Executing
<1>8. CASE CloseDatabase \/ ReleaseLease
  <2>1. /\ pc[Main] \in {"close", "release"} /\ cell' = cell
        /\ AllExited \/ Abandoned
        /\ runError => runError'
        /\ ~runError => cell[Main] = NoCell
    BY <1>8 DEF CloseDatabase, ReleaseLease, StagesOK, Ended
  <2>2. PICK l \in {"release", "done"} :
             pc' = [pc EXCEPT ![Main] = l] /\ (l = "release" => lease')
    BY <1>8 DEF CloseDatabase, ReleaseLease, Goto, StagesOK
  <2>3. QED BY <2>1, <2>2, MainKeepsStages DEF MainPc, Executing, Abandoned
<1>9. QED
  BY <1>1, <1>2, <1>3, <1>4, <1>5, <1>6, <1>7, <1>8 DEF MainStep

LEMMA StagesStep ==
    TypeOK /\ IdleHoldsNothing /\ StagesOK /\ [Next]_vars => StagesOK'
<1> SUFFICES ASSUME TypeOK, IdleHoldsNothing, StagesOK, [Next]_vars
             PROVE  StagesOK'
  OBVIOUS
<1>1. CASE \E w \in Workers : WorkerStep(w)
  BY <1>1, WorkerStepStage, WorkerKeepsStages
<1>2. CASE MainStep
  BY <1>2, MainStepStages
<1>3. CASE Caller
  <2>1. /\ UNCHANGED <<cell, lease, runError>>
        /\ aborted => aborted'
        /\ pc' = pc \/ pc' = OpenGate(pc)
    BY <1>3 DEF Caller, Pause, Resume, Abort, session, flags
  <2>2. pc'[Main] = pc[Main]
    BY <2>1 DEF OpenGate, Procs, StagesOK, MainPc, Executing
  <2>3. \A w \in Workers : pc'[w] = pc[w] \/ (pc[w] = "parked" /\ pc'[w] = "ready")
    BY <2>1 DEF OpenGate, Procs
  <2>4. WorkerMove \/ UNCHANGED <<pc, cell, lease, runError, aborted>>
    BY <1>3, <2>1, <2>2, <2>3 DEF WorkerMove, StagesOK, WorkerPc, Caller,
       Pause, Resume, Abort, session
  <2>5. QED
    BY <2>4, WorkerKeepsStages DEF StagesOK, Ended, AllExited, Abandoned
<1>4. CASE UNCHANGED vars
  BY <1>4 DEF vars, control, session, flags, StagesOK, Ended, AllExited, Abandoned
<1>5. QED BY <1>1, <1>2, <1>3, <1>4 DEF Next, Terminated

LEMMA StagesInit == Init => StagesOK
BY EngineAssumption DEF Init, StagesOK, Ended, Procs, MainPc, WorkerPc, Executing

LEMMA AlwaysStaged == Spec => []StagesOK
BY StagesInit, StagesStep, TypeCorrect, AlwaysIdle, PTL DEF Spec

(***************************************************************************)
(* The write lock                                                          *)
(***************************************************************************)

\* Only coroutines that wait to write are in the queue of the lock, once each.
LockQueueOK ==
    \A i \in DOMAIN writers :
        /\ pc[writers[i]] = "write"
        /\ \A j \in DOMAIN writers : writers[i] = writers[j] => i = j

\* The owner leaves the queue.
LEMMA OwnerLeaves ==
    ASSUME TypeOK, LockQueueOK, NEW p \in Procs, NEW l, OwnsLock(p),
           writers' = Tail(writers), pc' = [pc EXCEPT ![p] = l]
    PROVE  LockQueueOK'
<1>1. /\ writers \in Seq(Procs) /\ writers # <<>> /\ writers[1] = p
      /\ pc \in [Procs -> Labels]
  BY DEF TypeOK, CoroutinesOK, OwnsLock, Labels
<1>2. /\ Len(writers) \in Nat \ {0}
      /\ DOMAIN writers = 1..Len(writers)
      /\ DOMAIN Tail(writers) = 1..(Len(writers) - 1)
      /\ \A i \in DOMAIN Tail(writers) : Tail(writers)[i] = writers[i + 1]
  BY <1>1
<1>3. \A i \in DOMAIN Tail(writers) : i + 1 \in DOMAIN writers /\ writers[i + 1] # p
  BY <1>1, <1>2 DEF LockQueueOK
<1>4. \A i \in DOMAIN Tail(writers) : writers[i + 1] \in Procs /\ pc[writers[i + 1]] = "write"
  BY <1>1, <1>2, <1>3 DEF LockQueueOK
<1>5. \A i, j \in DOMAIN Tail(writers) : writers[i + 1] = writers[j + 1] => i = j
  BY <1>1, <1>2, <1>3 DEF LockQueueOK
<1>6. QED BY <1>1, <1>2, <1>3, <1>4, <1>5 DEF LockQueueOK

\* A coroutine with a result joins the queue.
LEMMA WriterJoins ==
    ASSUME TypeOK, LockQueueOK, NEW p \in Procs, pc[p] # "write",
           writers' = Append(writers, p), pc' = [pc EXCEPT ![p] = "write"]
    PROVE  LockQueueOK'
<1>1. writers \in Seq(Procs) /\ pc \in [Procs -> Labels]
  BY DEF TypeOK, CoroutinesOK, Labels
<1>2. /\ Len(writers) \in Nat
      /\ DOMAIN writers = 1..Len(writers)
      /\ DOMAIN writers' = 1..(Len(writers) + 1)
      /\ \A i \in DOMAIN writers : writers'[i] = writers[i] /\ writers[i] \in Procs
      /\ writers'[Len(writers) + 1] = p
  BY <1>1
<1>3. \A i \in DOMAIN writers : writers[i] # p /\ pc[writers[i]] = "write"
  BY DEF LockQueueOK
<1>4. \A i \in DOMAIN writers' : i \in DOMAIN writers \/ i = Len(writers) + 1
  BY <1>2
<1>5. \A i \in DOMAIN writers' : pc'[writers'[i]] = "write"
  BY <1>1, <1>2, <1>3, <1>4
<1>6. \A i, j \in DOMAIN writers' : writers'[i] = writers'[j] => i = j
  BY <1>2, <1>3, <1>4 DEF LockQueueOK
<1>7. QED BY <1>5, <1>6 DEF LockQueueOK

\* Nobody else that waits is moved.
LEMMA WritersStay ==
    ASSUME LockQueueOK, writers \in Seq(Procs), writers' = writers,
           \A q \in Procs : pc[q] = "write" => pc'[q] = "write"
    PROVE  LockQueueOK'
<1>1. \A i \in DOMAIN writers : writers[i] \in Procs
  OBVIOUS
<1>2. QED BY <1>1 DEF LockQueueOK

LEMMA LockStep == TypeOK /\ IdleHoldsNothing /\ LockQueueOK /\ [Next]_vars => LockQueueOK'
<1> SUFFICES ASSUME TypeOK, IdleHoldsNothing, LockQueueOK, [Next]_vars
             PROVE  LockQueueOK'
  OBVIOUS
<1>0. /\ pc \in [Procs -> Labels] /\ writers \in Seq(Procs)
      /\ Main \in Procs /\ Main \notin Workers /\ Workers \subseteq Procs
  BY EngineAssumption DEF TypeOK, CoroutinesOK, Labels, Procs
<1>1. ASSUME NEW p \in Procs, CellStep(p) PROVE LockQueueOK'
  <2>1. CASE RequestCheckpoint(p)
    BY <2>1, WriterJoins DEF RequestCheckpoint, Goto
  <2>2. CASE WriteCheckpoint(p) \/ CheckpointFails(p)
    BY <2>2, OwnerLeaves DEF WriteCheckpoint, CheckpointFails, Goto
  <2>3. CASE FinishCell(p) \/ PersistenceFails(p) \/ RecordConflict(p)
             \/ RecordCheckpointFailure(p) \/ Publish(p)
    <3>1. /\ pc[p] # "write"
          /\ \E l : \/ pc' = [pc EXCEPT ![p] = l]
                    \/ pc' = [OpenGate(pc) EXCEPT ![p] = l]
          /\ writers' = writers
      BY <2>3 DEF FinishCell, PersistenceFails, RecordConflict,
         RecordCheckpointFailure, Publish, Goto
    <3>2. \A q \in Procs : pc[q] = "write" => pc'[q] = "write"
      BY <1>0, <3>1 DEF OpenGate
    <3>3. QED BY <1>0, <3>1, <3>2, WritersStay
  <2>4. QED BY <1>1, <2>1, <2>2, <2>3 DEF CellStep
<1>2. ASSUME NEW w \in Workers, WorkerStep(w), ~CellStep(w) PROVE LockQueueOK'
  <2>1. /\ pc[w] # "write" /\ \E l : pc' = [pc EXCEPT ![w] = l]
        /\ writers' = writers
    BY <1>2 DEF WorkerStep, LoopTop, PassGate, RetryElapsed, SkipByWorker,
       SkipCell, Dispatch, DispatchThrows, Claim, Goto
  <2>2. QED BY <1>0, <2>1, WritersStay
<1>3. ASSUME MainStep, ~CellStep(Main) PROVE LockQueueOK'
  <2>1. CASE OpenDatabase
    <3>1. writers' = writers /\ \A q \in Procs : pc[q] # "write"
      BY <1>0, <2>1 DEF OpenDatabase, IdleHoldsNothing, Procs
    <3>2. QED BY <1>0, <3>1, WritersStay
  <2>2. CASE SkipByDrain
    BY <1>0, <2>2, WritersStay DEF SkipByDrain, SkipCell
  <2>3. CASE ~OpenDatabase /\ ~SkipByDrain
    <3>1. /\ pc[Main] # "write" /\ \E l : pc' = [pc EXCEPT ![Main] = l]
          /\ writers' = writers
      BY <1>3, <2>3 DEF MainStep, AcquireLease, BindPlan,
         DatabasePreflightFails, PoolDone, PoolRejects, Drain, DrainThrows,
         DrainDone, Finalize, FinalizeThrows, CloseDatabase, ReleaseLease,
         Claim, Goto
    <3>2. QED BY <1>0, <3>1, WritersStay
  <2>4. QED BY <2>1, <2>2, <2>3
<1>4. CASE Caller
  <2>1. writers' = writers /\ (pc' = pc \/ pc' = OpenGate(pc))
    BY <1>4 DEF Caller, Pause, Resume, Abort
  <2>2. QED BY <1>0, <2>1, WritersStay DEF OpenGate
<1>5. CASE UNCHANGED vars
  BY <1>5 DEF vars, LockQueueOK
<1>6. QED BY <1>0, <1>1, <1>2, <1>3, <1>4, <1>5 DEF Next, Terminated

LEMMA AlwaysQueued == Spec => []LockQueueOK
<1>1. Init => LockQueueOK
  BY DEF Init, LockQueueOK
<1>2. QED BY <1>1, LockStep, TypeCorrect, AlwaysIdle, PTL DEF Spec

\* At the regular end nobody waits for the lock and nobody holds a cell.
LEMMA EndIsQuiet ==
    ASSUME TypeOK, IdleHoldsNothing, StagesOK, LockQueueOK, Ended, ~runError
    PROVE  /\ writers = <<>>
           /\ AllExited
           /\ \A p \in Procs : cell[p] = NoCell
<1>1. AllExited /\ cell[Main] = NoCell
  BY DEF StagesOK, Abandoned
<1>2. \A p \in Procs : cell[p] = NoCell
  BY <1>1 DEF AllExited, IdleHoldsNothing, BetweenCells, Procs
<1>3. \A p \in Procs : pc[p] # "write"
  BY <1>1 DEF AllExited, Procs, Ended
<1>4. writers \in Seq(Procs)
  BY DEF TypeOK, CoroutinesOK
<1>5. writers = <<>>
  <2>1. SUFFICES ASSUME writers # <<>> PROVE FALSE
    OBVIOUS
  <2>2. 1 \in DOMAIN writers /\ writers[1] \in Procs
    BY <1>4, <2>1
  <2>3. QED BY <1>3, <2>2 DEF LockQueueOK
<1>6. QED BY <1>1, <1>2, <1>5

\* The database is open from the preflight to the close, under the lease.
OpenUnderLease == dbOpen => pc[Main] \in {"pool", "drain", "finalize", "close"} \cup Executing

LEMMA AlwaysUnderLease == Spec => []OpenUnderLease
<1>1. Init => OpenUnderLease
  BY DEF Init, OpenUnderLease
<1>2. TypeOK /\ IdleHoldsNothing /\ StagesOK /\ OpenUnderLease /\ [Next]_vars
      => OpenUnderLease'
  <2> SUFFICES ASSUME TypeOK, IdleHoldsNothing, StagesOK, OpenUnderLease, [Next]_vars
               PROVE  OpenUnderLease'
    OBVIOUS
  <2>0. /\ pc \in [Procs -> Labels]
        /\ Main \in Procs /\ Main \notin Workers /\ Workers \subseteq Procs
    BY EngineAssumption DEF TypeOK, CoroutinesOK, Labels, Procs
  <2> USE DEF session
  <2>1. ASSUME NEW w \in Workers, WorkerStep(w) PROVE OpenUnderLease'
    <3>1. WorkerMove
      BY <2>1, WorkerStepStage
    <3>2. dbOpen' = dbOpen
      BY <2>1 DEF WorkerStep, CellStep, LoopTop, PassGate, RetryElapsed,
         SkipByWorker, SkipCell, Dispatch, DispatchThrows, FinishCell,
         PersistenceFails, RequestCheckpoint, RecordConflict,
         RecordCheckpointFailure, WriteCheckpoint, CheckpointFails, Publish
    <3>3. QED BY <3>1, <3>2 DEF WorkerMove, OpenUnderLease
  <2>2. CASE CellStep(Main)
    <3>1. CellMove(Main)
      BY <2>0, <2>2, CellStepStage
    <3>2. PICK l \in Executing \cup {"drain"} :
             \/ pc' = [pc EXCEPT ![Main] = l]
             \/ pc' = [OpenGate(pc) EXCEPT ![Main] = l]
      BY <3>1 DEF CellMove, After
    <3>3. pc'[Main] = l
      BY <2>0, <3>2 DEF OpenGate
    <3>4. QED BY <3>3 DEF OpenUnderLease
  <2>3. CASE AcquireLease \/ BindPlan \/ DatabasePreflightFails
    BY <2>3 DEF AcquireLease, BindPlan, DatabasePreflightFails, OpenUnderLease,
       Executing
  <2>4. CASE OpenDatabase
    <3>1. pc'[Main] \in {"pool", "close"}
      BY <2>0, <2>4 DEF OpenDatabase, Goto
    <3>2. QED BY <3>1 DEF OpenUnderLease
  <2>5. CASE PoolDone \/ PoolRejects \/ DrainThrows \/ DrainDone \/ Finalize
             \/ FinalizeThrows
    <3>1. PICK l \in {"drain", "finalize", "close"} : pc' = [pc EXCEPT ![Main] = l]
      BY <2>5 DEF PoolDone, PoolRejects, DrainThrows, DrainDone, Finalize,
         FinalizeThrows, Goto
    <3>2. QED BY <2>0, <3>1 DEF OpenUnderLease
  <2>6. CASE SkipByDrain
    BY <2>6 DEF SkipByDrain, SkipCell, OpenUnderLease
  <2>7. CASE Drain
    <3>1. PICK l \in {"exec", "returned"} : pc' = [pc EXCEPT ![Main] = l]
      BY <2>7 DEF Drain, Claim, Goto
    <3>2. QED BY <2>0, <3>1 DEF OpenUnderLease, Executing
  <2>8. CASE CloseDatabase \/ ReleaseLease
    BY <2>8 DEF CloseDatabase, ReleaseLease, OpenUnderLease, Executing
  <2>9. CASE Caller
    <3>1. dbOpen' = dbOpen /\ (pc' = pc \/ pc' = OpenGate(pc))
      BY <2>9 DEF Caller, Pause, Resume, Abort
    <3>2. QED BY <2>0, <3>1 DEF OpenGate, OpenUnderLease, Executing
  <2>10. CASE UNCHANGED vars
    BY <2>10 DEF vars, OpenUnderLease
  <2>11. QED
    BY <2>1, <2>2, <2>3, <2>4, <2>5, <2>6, <2>7, <2>8, <2>9, <2>10
    DEF Next, MainStep, Terminated
<1>3. QED
  BY <1>1, <1>2, TypeCorrect, AlwaysIdle, AlwaysStaged, PTL DEF Spec

(***************************************************************************)
(* The lease covers the work: the database is open only under it, so no    *)
(* row is written without it; a cell executes without it only if a worker  *)
(* threw and executeRun left without its siblings, which is what           *)
(* Promise.all does; and a run that ended in the regular way left nobody   *)
(* waiting for the write lock, no worker in its loop and no cell in        *)
(* anyone's hands.                                                         *)
(***************************************************************************)
THEOREM LeaseCovers == Spec => []LeaseCoversWork
<1>1. ASSUME TypeOK, IdleHoldsNothing, StagesOK, NEW p \in Procs, Running(p), ~lease
      PROVE  runError /\ \E w \in Workers : pc[w] = "threw"
  <2>1. pc[Main] \in {"lease", "done"}
    BY <1>1 DEF StagesOK
  <2>2. p \in Workers
    BY <1>1, <2>1 DEF Running, Executing, Procs
  <2>3. pc[Main] = "done" /\ pc[p] \notin {"idle", "exited"}
    BY <1>1, <2>1, <2>2 DEF IdleHoldsNothing, Running, Executing
  <2>4. ~AllExited /\ Abandoned
    BY <2>2, <2>3, <1>1 DEF StagesOK, Ended, AllExited
  <2>5. QED BY <2>2, <2>3, <2>4 DEF Abandoned
<1>2. StagesOK /\ OpenUnderLease => (dbOpen => lease)
  BY DEF StagesOK, OpenUnderLease, Executing
<1>3. TypeOK /\ IdleHoldsNothing /\ StagesOK /\ LockQueueOK /\ OpenUnderLease
      => LeaseCoversWork
  BY <1>1, <1>2, EndIsQuiet DEF LeaseCoversWork, QuietAtEnd, Ended, AllExited
<1>4. QED
  BY <1>3, TypeCorrect, AlwaysIdle, AlwaysStaged, AlwaysQueued, AlwaysUnderLease, PTL

(***************************************************************************)
(* What a step does to cells, rows, records and results                    *)
(***************************************************************************)

\* The other coroutines keep their cell and enter none of its steps.
Rest(p) ==
    \A q \in Procs \ {p} :
        /\ pc'[q] \in Executing => pc'[q] = pc[q]
        /\ cell'[q] = cell[q]
        /\ returned'[q] = returned[q]

NoEvidence == UNCHANGED <<ckpt, db, durableRecords>>
NoResult   == UNCHANGED <<results, counts>>

PushedOn(c, s) ==
    /\ results' = [results EXCEPT ![c] = Append(@, s)]
    /\ counts' = [counts EXCEPT ![s] = @ + 1]

Idles ==
    /\ NoEvidence
    /\ NoResult
    /\ UNCHANGED <<queue, cell, returned>>
    /\ \A q \in Procs : pc'[q] \in Executing => pc'[q] = pc[q]

Skips(c) ==
    /\ c \in queue
    /\ c \in ckpt.completed
    /\ queue' = queue \ {c}
    /\ PushedOn(c, "skipped")
    /\ NoEvidence
    /\ UNCHANGED <<cell, returned>>
    /\ \A q \in Procs : pc'[q] \in Executing => pc'[q] = pc[q]

\* A coroutine takes a cell: it claims it, meets a row, or throws.
Takes(p, c) ==
    /\ c \in queue
    /\ cell[p] = NoCell
    /\ queue' = queue \ {c}
    /\ cell'[p] = c
    /\ Rest(p)
    /\ NoResult
    /\ UNCHANGED <<ckpt, durableRecords>>
    /\ \/ /\ db[c] = "none"
          /\ db' = [db EXCEPT ![c] = "claimed"]
          /\ pc'[p] = "exec"
          /\ returned'[p] = returned[p]
       \/ /\ UNCHANGED db
          /\ pc'[p] = "returned"
          /\ returned'[p] = "conflict"
       \/ /\ UNCHANGED db
          /\ pc'[p] \notin Executing
          /\ returned'[p] = returned[p]

\* A cell ends with a result, and the record of it unless that fails.
Ends(p, s) ==
    /\ pc[p] = "exec"
    /\ pc'[p] = "returned"
    /\ returned'[p] = s
    /\ s = "aborted" => aborted
    /\ \/ db' = [db EXCEPT ![cell[p]] = s]
       \/ s = "failed" /\ UNCHANGED db
    /\ Rest(p)
    /\ NoResult
    /\ UNCHANGED <<queue, cell, ckpt, durableRecords>>

\* It waits for the lock, or its write fails.
Waits(p) ==
    /\ pc[p] \in {"returned", "write"}
    /\ pc'[p] \in {"write", "unwritten"}
    /\ Rest(p)
    /\ NoEvidence
    /\ NoResult
    /\ UNCHANGED <<queue, cell, returned>>

\* It writes the checkpoint.
Saves(p) ==
    /\ pc[p] = "write"
    /\ pc'[p] = "written"
    /\ ckpt' = CheckpointWith(ckpt, cell[p], returned[p])
    /\ Rest(p)
    /\ NoResult
    /\ UNCHANGED <<queue, cell, returned, db, durableRecords>>

\* It publishes the result: as it was written, or as the failure to write it.
Reports(p, s) ==
    /\ pc[p] \in {"returned", "written", "unwritten"}
    /\ pc'[p] \notin Executing
    /\ cell'[p] = NoCell
    /\ returned'[p] = "none"
    /\ Rest(p)
    /\ PushedOn(cell[p], s)
    /\ UNCHANGED <<queue, ckpt, db>>
    /\ \/ s = "failed" /\ identityConflict' /\ UNCHANGED durableRecords
       \/ s = "failed" /\ checkpointBroken' /\ Remember(p)
       \/ pc[p] = "written" /\ s = Public(returned[p]) /\ Remember(p)

CellForm(p) ==
    \/ \E s \in RecordStatus : Ends(p, s)
    \/ Waits(p)
    \/ Saves(p)
    \/ \E s \in Kinds : Reports(p, s)

StepForm ==
    \/ Idles
    \/ \E c \in Cells : Skips(c)
    \/ \E p \in Procs, c \in Cells : Takes(p, c)
    \/ \E p \in Procs : CellForm(p)

\* The rest of the coroutines, when one moves.
LEMMA OneMoves ==
    ASSUME TypeOK, NEW p \in Procs, NEW l,
           \/ pc' = [pc EXCEPT ![p] = l]
           \/ pc' = [OpenGate(pc) EXCEPT ![p] = l],
           cell' = cell \/ \E c : cell' = [cell EXCEPT ![p] = c],
           returned' = returned \/ \E r : returned' = [returned EXCEPT ![p] = r]
    PROVE  pc'[p] = l /\ Rest(p)
<1>1. /\ pc \in [Procs -> Labels]
      /\ cell \in [Procs -> Cells \cup {NoCell}]
      /\ returned \in [Procs -> CellResult]
  BY DEF TypeOK, CoroutinesOK, Labels
<1>2. \A q \in Procs \ {p} : pc'[q] = pc[q] \/ pc'[q] = "ready"
  BY <1>1 DEF OpenGate
<1>3. pc'[p] = l
  BY <1>1 DEF OpenGate
<1>4. QED BY <1>1, <1>2, <1>3 DEF Rest, Executing

LEMMA CellStepForm ==
    ASSUME TypeOK, StagesOK, NEW p \in Procs, CellStep(p)
    PROVE  CellForm(p)
<1>0. /\ pc \in [Procs -> Labels]
      /\ cell \in [Procs -> Cells \cup {NoCell}]
      /\ returned \in [Procs -> CellResult]
  BY DEF TypeOK, CoroutinesOK, Labels
<1> USE DEF disk, tally, pool
<1>1. CASE FinishCell(p)
  <2>1. PICK s \in TerminalStatus(p) :
             /\ db' = [db EXCEPT ![cell[p]] = s]
             /\ returned' = [returned EXCEPT ![p] = s]
    BY <1>1 DEF FinishCell
  <2>2. s \in RecordStatus /\ (s = "aborted" => p = Main \/ aborted)
    BY DEF TerminalStatus, RecordStatus
  <2>3. pc[p] = "exec" /\ (p = Main => aborted)
    BY <1>1 DEF FinishCell, StagesOK, Executing
  <2>4. /\ pc' = [pc EXCEPT ![p] = "returned"]
        /\ UNCHANGED <<queue, cell, ckpt, tally>>
    BY <1>1 DEF FinishCell, Goto
  <2>5. pc'[p] = "returned" /\ Rest(p)
    BY <2>1, <2>4, OneMoves
  <2>6. Ends(p, s)
    BY <1>0, <2>1, <2>2, <2>3, <2>4, <2>5 DEF Ends, NoResult
  <2>7. QED BY <2>2, <2>6 DEF CellForm
<1>2. CASE PersistenceFails(p)
  <2>1. /\ pc[p] = "exec"
        /\ returned' = [returned EXCEPT ![p] = "failed"]
        /\ db' = [db EXCEPT ![cell[p]] = "failed"] \/ db' = db
        /\ pc' = [pc EXCEPT ![p] = "returned"]
        /\ UNCHANGED <<queue, cell, ckpt, tally>>
    BY <1>2 DEF PersistenceFails, Goto, FailureStatus
  <2>2. pc'[p] = "returned" /\ Rest(p)
    BY <2>1, OneMoves
  <2>3. Ends(p, "failed")
    BY <1>0, <2>1, <2>2 DEF Ends, NoResult
  <2>4. QED BY <2>3 DEF CellForm, RecordStatus
<1>3. CASE RequestCheckpoint(p) \/ CheckpointFails(p)
  <2>1. /\ pc[p] \in {"returned", "write"}
        /\ \E l \in {"write", "unwritten"} : pc' = [pc EXCEPT ![p] = l]
        /\ UNCHANGED <<pool, cell, returned, disk, tally>>
    BY <1>3 DEF RequestCheckpoint, CheckpointFails, Goto
  <2>2. pc'[p] \in {"write", "unwritten"} /\ Rest(p)
    BY <2>1, OneMoves
  <2>3. Waits(p)
    BY <2>1, <2>2 DEF Waits, NoResult, NoEvidence
  <2>4. QED BY <2>3 DEF CellForm
<1>4. CASE WriteCheckpoint(p)
  <2>1. /\ pc[p] = "write"
        /\ pc' = [pc EXCEPT ![p] = "written"]
        /\ ckpt' = CheckpointWith(ckpt, cell[p], returned[p])
        /\ UNCHANGED <<pool, cell, returned, db, tally>>
    BY <1>4 DEF WriteCheckpoint, Goto
  <2>2. pc'[p] = "written" /\ Rest(p)
    BY <2>1, OneMoves
  <2>3. Saves(p)
    BY <2>1, <2>2 DEF Saves, NoResult
  <2>4. QED BY <2>3 DEF CellForm
<1>5. CASE RecordConflict(p) \/ RecordCheckpointFailure(p) \/ Publish(p)
  <2>1. /\ pc[p] \in {"returned", "written", "unwritten"}
        /\ \/ pc' = [pc EXCEPT ![p] = After(p)]
           \/ pc' = [OpenGate(pc) EXCEPT ![p] = After(p)]
        /\ cell' = [cell EXCEPT ![p] = NoCell]
        /\ returned' = [returned EXCEPT ![p] = "none"]
        /\ UNCHANGED <<queue, ckpt, db>>
    BY <1>5 DEF RecordConflict, RecordCheckpointFailure, Publish, Leave, Goto
  <2>2. pc'[p] = After(p) /\ After(p) \notin Executing /\ Rest(p)
    BY <2>1, OneMoves DEF After, Executing
  <2>3. /\ "failed" \in Kinds /\ Public(returned[p]) \in Kinds
        /\ cell'[p] = NoCell /\ returned'[p] = "none"
    BY <1>0, <2>1, Statuses DEF Kinds
  <2>4. CASE RecordConflict(p)
    <3>1. Reports(p, "failed")
      BY <2>1, <2>2, <2>3, <2>4 DEF RecordConflict, Reports, PushedOn, Push
    <3>2. QED BY <2>3, <3>1 DEF CellForm
  <2>5. CASE RecordCheckpointFailure(p)
    <3>1. Reports(p, "failed")
      BY <2>1, <2>2, <2>3, <2>5 DEF RecordCheckpointFailure, Reports, PushedOn, Push
    <3>2. QED BY <2>3, <3>1 DEF CellForm
  <2>6. CASE Publish(p)
    <3>1. Reports(p, Public(returned[p]))
      BY <2>1, <2>2, <2>3, <2>6 DEF Publish, Reports, PushedOn, Push
    <3>2. QED BY <2>3, <3>1 DEF CellForm
  <2>7. QED BY <1>5, <2>4, <2>5, <2>6
<1>6. QED BY <1>1, <1>2, <1>3, <1>4, <1>5 DEF CellStep

LEMMA StepForms ==
    TypeOK /\ IdleHoldsNothing /\ StagesOK /\ [Next]_vars => StepForm
<1> SUFFICES ASSUME TypeOK, IdleHoldsNothing, StagesOK, [Next]_vars
             PROVE  StepForm
  OBVIOUS
<1>0. /\ pc \in [Procs -> Labels]
      /\ cell \in [Procs -> Cells \cup {NoCell}]
      /\ returned \in [Procs -> CellResult]
      /\ Main \in Procs /\ Main \notin Workers /\ Workers \subseteq Procs
  BY EngineAssumption DEF TypeOK, CoroutinesOK, Labels, Procs
<1> USE DEF disk, tally, pool
<1>1. ASSUME NEW p \in Procs, NEW l, l \notin Executing, pc' = [pc EXCEPT ![p] = l]
      PROVE  \A q \in Procs : pc'[q] \in Executing => pc'[q] = pc[q]
  BY <1>0, <1>1
<1>2. ASSUME NEW p \in Procs, NEW c \in Cells, c \in queue, cell[p] = NoCell,
             Take(c), cell' = [cell EXCEPT ![p] = c],
             UNCHANGED <<ckpt, tally>>,
             \/ Claim(p, c)
             \/ UNCHANGED <<db, returned>> /\ \E l : l \notin Executing /\ Goto(p, l)
      PROVE  StepForm
  <2>1. PICK l : pc' = [pc EXCEPT ![p] = l]
    BY <1>2 DEF Claim, Goto
  <2>2. returned' = returned \/ \E r : returned' = [returned EXCEPT ![p] = r]
    BY <1>2 DEF Claim
  <2>3. pc'[p] = l /\ Rest(p) /\ cell'[p] = c
    BY <1>0, <1>2, <2>1, <2>2, OneMoves
  <2>4. \/ /\ db[c] = "none"
           /\ db' = [db EXCEPT ![c] = "claimed"]
           /\ pc'[p] = "exec"
           /\ returned'[p] = returned[p]
        \/ /\ UNCHANGED db
           /\ pc'[p] = "returned"
           /\ returned'[p] = "conflict"
        \/ /\ UNCHANGED db
           /\ pc'[p] \notin Executing
           /\ returned'[p] = returned[p]
    BY <1>0, <1>2 DEF Claim, Goto
  <2>5. Takes(p, c)
    BY <1>2, <2>3, <2>4 DEF Takes, Take, NoResult
  <2>6. QED BY <2>5 DEF StepForm
<1>3. ASSUME NEW w \in Workers, WorkerStep(w) PROVE StepForm
  <2>1. CASE LoopTop(w) \/ PassGate(w) \/ RetryElapsed(w)
    <3>1. /\ \E l : l \notin Executing /\ pc' = [pc EXCEPT ![w] = l]
          /\ UNCHANGED <<pool, cell, returned, disk, tally>>
      BY <2>1 DEF LoopTop, PassGate, RetryElapsed, Goto, Executing
    <3>2. Idles
      BY <1>0, <1>1, <3>1 DEF Idles, NoEvidence, NoResult
    <3>3. QED BY <3>2 DEF StepForm
  <2>2. CASE SkipByWorker(w)
    <3>1. PICK c \in Cells : c \in queue /\ SkipCell(c)
      BY <2>2 DEF SkipByWorker, FirstEligible, Eligible
    <3>2. "top" \notin Executing /\ pc' = [pc EXCEPT ![w] = "top"]
      BY <2>2 DEF SkipByWorker, Goto, Executing
    <3>3. Skips(c)
      BY <1>0, <1>1, <3>1, <3>2 DEF Skips, SkipCell, Take, Push, PushedOn, NoEvidence
    <3>4. QED BY <3>3 DEF StepForm
  <2>3. CASE Dispatch(w) \/ DispatchThrows(w)
    <3>1. PICK c \in Cells : c \in queue /\ Take(c) /\ cell' = [cell EXCEPT ![w] = c]
               /\ (Claim(w, c) \/ (UNCHANGED <<db, returned>> /\ Goto(w, "threw")))
      BY <2>3 DEF Dispatch, DispatchThrows, FirstEligible, Eligible
    <3>2. cell[w] = NoCell /\ UNCHANGED <<ckpt, tally>>
      BY <1>0, <2>3 DEF Dispatch, DispatchThrows, IdleHoldsNothing, BetweenCells
    <3>3. "threw" \notin Executing
      BY DEF Executing
    <3>4. QED BY <1>0, <1>2, <3>1, <3>2, <3>3
  <2>4. QED
    BY <1>0, <1>3, <2>1, <2>2, <2>3, CellStepForm DEF WorkerStep, StepForm
<1>4. CASE MainStep
  <2>1. CASE OpenDatabase
    <3>1. /\ \A q \in Procs : pc'[q] \notin Executing
          /\ UNCHANGED <<pool, cell, returned, disk, tally>>
      BY <1>0, <2>1 DEF OpenDatabase, IdleHoldsNothing, Goto, Executing, Procs
    <3>2. Idles
      BY <3>1 DEF Idles, NoEvidence, NoResult
    <3>3. QED BY <3>2 DEF StepForm
  <2>2. CASE SkipByDrain
    <3>1. PICK c \in Cells : c \in queue /\ SkipCell(c)
      BY <2>2 DEF SkipByDrain, FirstQueued
    <3>2. pc' = pc
      BY <2>2 DEF SkipByDrain
    <3>3. Skips(c)
      BY <3>1, <3>2 DEF Skips, SkipCell, Take, Push, PushedOn, NoEvidence
    <3>4. QED BY <3>3 DEF StepForm
  <2>3. CASE Drain \/ DrainThrows
    <3>1. PICK c \in Cells : c \in queue /\ Take(c) /\ cell' = [cell EXCEPT ![Main] = c]
               /\ (Claim(Main, c) \/ (UNCHANGED <<db, returned>> /\ Goto(Main, "close")))
      BY <2>3 DEF Drain, DrainThrows, FirstQueued
    <3>2. cell[Main] = NoCell /\ UNCHANGED <<ckpt, tally>>
      BY <1>0, <2>3 DEF Drain, DrainThrows, IdleHoldsNothing, BetweenCells
    <3>3. "close" \notin Executing
      BY DEF Executing
    <3>4. QED BY <1>0, <1>2, <3>1, <3>2, <3>3
  <2>4. CASE AcquireLease \/ BindPlan \/ DatabasePreflightFails \/ PoolDone
             \/ PoolRejects \/ DrainDone \/ Finalize \/ FinalizeThrows
             \/ CloseDatabase \/ ReleaseLease
    <3>1. /\ \E l : l \notin Executing /\ pc' = [pc EXCEPT ![Main] = l]
          /\ UNCHANGED <<pool, cell, returned, ckpt, db, tally>>
      BY <2>4 DEF AcquireLease, BindPlan, DatabasePreflightFails, PoolDone,
         PoolRejects, DrainDone, Finalize, FinalizeThrows, CloseDatabase,
         ReleaseLease, Goto, Executing
    <3>2. Idles
      BY <1>0, <1>1, <3>1 DEF Idles, NoEvidence, NoResult
    <3>3. QED BY <3>2 DEF StepForm
  <2>5. QED
    BY <1>0, <1>4, <2>1, <2>2, <2>3, <2>4, CellStepForm DEF MainStep, StepForm
<1>5. CASE Caller
  <2>1. /\ UNCHANGED <<pool, cell, returned, disk, tally>>
        /\ pc' = pc \/ pc' = OpenGate(pc)
    BY <1>5 DEF Caller, Pause, Resume, Abort
  <2>2. Idles
    BY <1>0, <2>1 DEF Idles, NoEvidence, NoResult, OpenGate, Executing
  <2>3. QED BY <2>2 DEF StepForm
<1>6. CASE UNCHANGED vars
  BY <1>6 DEF vars, Idles, NoEvidence, NoResult, StepForm
<1>7. QED BY <1>3, <1>4, <1>5, <1>6 DEF Next, Terminated

(***************************************************************************)
(* Truth                                                                   *)
(***************************************************************************)

\* A result is the row of its cell, or the failure to write that row.
Matches(c, result) == db[c] = result \/ (result = "failed" /\ db[c] = "claimed")

Carrying == {"returned", "write", "written", "unwritten"}

\* What a coroutine has in its hands is true.
HandTrue(p) ==
    /\ pc[p] = "exec" =>
           /\ \A k \in Kinds : cell[p] \notin ckpt[k]
           /\ durableRecords[cell[p]] = "none"
    /\ pc[p] \in Carrying /\ returned[p] \in RecordStatus => Matches(cell[p], returned[p])
    /\ pc[p] = "written" => cell[p] \in ckpt[Public(returned[p])]
    /\ returned[p] = "aborted" => aborted

\* The checkpoint and the remembered record of a cell agree with its row.
RowTrue(c) ==
    /\ \A k \in Kinds : c \in ckpt[k] =>
           \/ db[c] \in RecordStatus /\ Public(db[c]) = k
           \/ db[c] = "claimed" /\ k = "failed"
    /\ durableRecords[c] # "none" => Matches(c, durableRecords[c])

\* The public result of a cell agrees with its row and with the checkpoint.
ResultTrue(c) ==
    /\ LastPublished(c) = "completed" => db[c] = "completed"
    /\ LastPublished(c) \in {"completed", "skipped"} => c \in ckpt.completed
    /\ LastPublished(c) = "aborted" => aborted
    /\ results[c] # <<>> /\ ~checkpointBroken /\ ~identityConflict
           /\ LastPublished(c) # "skipped" =>
           c \in ckpt[LastPublished(c)] /\ durableRecords[c] # "none"

\* A run that resumed nothing has no cell done before it takes it.
FreshTrue(c) ==
    ~checkpointLoaded =>
        /\ c \in queue => \A k \in Kinds : c \notin ckpt[k]
        /\ LastPublished(c) # "skipped"
        /\ db[c] = "aborted" => aborted

Truth ==
    /\ \A p \in Procs : HandTrue(p)
    /\ \A c \in Cells : RowTrue(c) /\ ResultTrue(c) /\ FreshTrue(c)

\* The row of a cell changes only while somebody executes it.
LEMMA RowStays ==
    ASSUME TypeOK, StepForm, NEW c \in Cells, db[c] # "none",
           \A p \in Procs : pc[p] = "exec" => cell[p] # c
    PROVE  db'[c] = db[c]
<1>0. db \in [Cells -> DbRow]
  BY DEF TypeOK, EvidenceOK
<1>1. CASE Idles \/ \E d \in Cells : Skips(d)
  BY <1>1 DEF Idles, Skips, NoEvidence
<1>2. CASE \E p \in Procs, d \in Cells : Takes(p, d)
  BY <1>0, <1>2 DEF Takes
<1>3. ASSUME NEW p \in Procs, CellForm(p)
      PROVE  db'[c] = db[c]
  <2>1. CASE \E s \in RecordStatus : Ends(p, s)
    BY <1>0, <2>1 DEF Ends
  <2>2. CASE Waits(p) \/ Saves(p) \/ \E s \in Kinds : Reports(p, s)
    BY <2>2 DEF Waits, Saves, Reports, NoEvidence
  <2>3. QED BY <1>3, <2>1, <2>2 DEF CellForm
<1>4. QED BY <1>1, <1>2, <1>3 DEF StepForm

\* The checkpoint gains the cell of the coroutine that writes it, the records
\* the cell of the one that reports.
LEMMA EvidenceChanges ==
    ASSUME TypeOK, StepForm, NEW c \in Cells
    PROVE  /\ \A k \in Kinds : c \in ckpt'[k] =>
                  \/ c \in ckpt[k]
                  \/ \E p \in Procs : /\ Saves(p) /\ cell[p] = c
                                      /\ k = Public(returned[p])
           /\ \/ durableRecords'[c] = durableRecords[c]
              \/ \E p \in Procs, s \in Kinds :
                     /\ Reports(p, s) /\ cell[p] = c
                     /\ returned[p] \in RecordStatus
                     /\ durableRecords'[c] = returned[p]
<1>0. /\ ckpt \in [Kinds -> SUBSET Cells]
      /\ durableRecords \in [Cells -> RecordStatus \cup {"none"}]
      /\ returned \in [Procs -> CellResult]
  BY DEF TypeOK, EvidenceOK, TallyOK, CoroutinesOK
<1>1. CASE Idles \/ \E d \in Cells : Skips(d)
  BY <1>1 DEF Idles, Skips, NoEvidence
<1>2. CASE \E p \in Procs, d \in Cells : Takes(p, d)
  BY <1>2 DEF Takes
<1>3. ASSUME NEW p \in Procs, (\E s \in RecordStatus : Ends(p, s)) \/ Waits(p)
      PROVE  ckpt' = ckpt /\ durableRecords' = durableRecords
  BY <1>3 DEF Ends, Waits, NoEvidence
<1>4. ASSUME NEW p \in Procs, Saves(p)
      PROVE  /\ durableRecords' = durableRecords
             /\ \A k \in Kinds : c \in ckpt'[k] =>
                    c \in ckpt[k] \/ (cell[p] = c /\ k = Public(returned[p]))
  BY <1>0, <1>4, Statuses DEF Saves, CheckpointWith
<1>5. ASSUME NEW p \in Procs, NEW s \in Kinds, Reports(p, s)
      PROVE  /\ ckpt' = ckpt
             /\ \/ durableRecords'[c] = durableRecords[c]
                \/ /\ cell[p] = c /\ returned[p] \in RecordStatus
                   /\ durableRecords'[c] = returned[p]
  BY <1>0, <1>5 DEF Reports, Remember
<1>6. QED BY <1>1, <1>2, <1>3, <1>4, <1>5 DEF StepForm, CellForm

\* No result is pushed but by a skip and by the coroutine that reports.
LEMMA ResultChanges ==
    ASSUME TypeOK, StepForm, NEW c \in Cells
    PROVE  \/ results'[c] = results[c] /\ LastPublished(c)' = LastPublished(c)
           \/ Skips(c) /\ LastPublished(c)' = "skipped"
           \/ \E p \in Procs, s \in Kinds :
                  Reports(p, s) /\ cell[p] = c /\ LastPublished(c)' = s
<1>0. results \in [Cells -> Seq(PublicStatus)]
  BY DEF TypeOK, TallyOK
<1>1. ASSUME NEW s, results'[c] = Append(results[c], s)
      PROVE  LastPublished(c)' = s
  <2>1. results[c] \in Seq(PublicStatus)
    BY <1>0
  <2>2. /\ Len(results[c]) \in Nat
        /\ results'[c] # <<>>
        /\ Len(results'[c]) = Len(results[c]) + 1
        /\ results'[c][Len(results[c]) + 1] = s
    BY <1>1, <2>1
  <2>3. QED BY <2>2 DEF LastPublished
<1>2. ASSUME results'[c] = results[c]
      PROVE  LastPublished(c)' = LastPublished(c)
  BY <1>2 DEF LastPublished
<1>3. ASSUME NEW d \in Cells, Skips(d)
      PROVE  \/ results'[c] = results[c]
             \/ d = c /\ results'[c] = Append(results[c], "skipped")
  BY <1>0, <1>3 DEF Skips, PushedOn
<1>4. ASSUME NEW p \in Procs, NEW s \in Kinds, Reports(p, s)
      PROVE  \/ results'[c] = results[c]
             \/ cell[p] = c /\ results'[c] = Append(results[c], s)
  BY <1>0, <1>4 DEF Reports, PushedOn
<1>5. ASSUME \/ Idles
             \/ \E p \in Procs, d \in Cells : Takes(p, d)
             \/ \E p \in Procs : \/ \E s \in RecordStatus : Ends(p, s)
                                 \/ Waits(p) \/ Saves(p)
      PROVE  results' = results
  BY <1>5 DEF Idles, Takes, Ends, Waits, Saves, NoResult
<1>6. QED
  BY <1>1, <1>2, <1>3, <1>4, <1>5 DEF StepForm, CellForm

\* The facts about the state that every part of the argument starts from.
Known ==
    /\ TypeOK
    /\ CellConservation
    /\ ClaimHeld
    /\ Truth
    /\ StepForm
    /\ aborted => aborted'
    /\ checkpointBroken => checkpointBroken'
    /\ identityConflict => identityConflict'
    /\ checkpointLoaded' = checkpointLoaded
    /\ \A k \in Kinds : ckpt[k] \subseteq ckpt'[k]

\* Two coroutines do not hold the same cell.
LEMMA Apart ==
    ASSUME TypeOK, CellConservation, NEW p \in Procs, NEW q \in Procs,
           pc[p] \in Executing, cell[p] = cell[q]
    PROVE  p = q
BY DEF TypeOK, CoroutinesOK, CellConservation

\* A coroutine that does not move keeps a true hand.
LEMMA OtherHand ==
    ASSUME Known, NEW p \in Procs,
           pc'[p] \in Executing => pc'[p] = pc[p],
           cell'[p] = cell[p], returned'[p] = returned[p]
    PROVE  HandTrue(p)'
<1>0. pc[p] \in Executing => cell[p] \in Cells
  BY DEF Known, TypeOK, CoroutinesOK
<1>1. HandTrue(p) /\ TypeOK /\ StepForm /\ CellConservation
  BY DEF Known, Truth
<1>2. ASSUME pc'[p] = "exec"
      PROVE  /\ \A k \in Kinds : cell'[p] \notin ckpt'[k]
             /\ durableRecords'[cell'[p]] = "none"
  <2>1. pc[p] = "exec" /\ cell[p] \in Cells
    BY <1>0, <1>2 DEF Executing
  <2>2. ASSUME NEW q \in Procs, cell[q] = cell[p]
        PROVE  pc[q] = "exec"
    BY <1>1, <2>1, <2>2, Apart DEF Executing
  <2>3. /\ \A k \in Kinds : cell[p] \notin ckpt[k]
        /\ durableRecords[cell[p]] = "none"
    BY <1>1, <2>1 DEF HandTrue
  <2>4. /\ \A q \in Procs : Saves(q) => cell[q] # cell[p]
        /\ \A q \in Procs, s \in Kinds : Reports(q, s) => cell[q] # cell[p]
    BY <2>2 DEF Saves, Reports
  <2>5. QED BY <1>1, <2>1, <2>3, <2>4, EvidenceChanges
<1>3. ASSUME pc'[p] \in Carrying, returned'[p] \in RecordStatus
      PROVE  Matches(cell[p], returned[p])'
  <2>1. pc[p] \in Carrying /\ pc[p] \in Executing /\ cell[p] \in Cells
    BY <1>0, <1>3 DEF Carrying, Executing
  <2>2. Matches(cell[p], returned[p])
    BY <1>1, <1>3, <2>1 DEF HandTrue
  <2>3. db[cell[p]] # "none"
    BY <1>3, <2>2 DEF Matches, RecordStatus
  <2>4. \A q \in Procs : pc[q] = "exec" => cell[q] # cell[p]
    BY <1>1, <2>1, Apart DEF Carrying
  <2>5. db'[cell[p]] = db[cell[p]]
    BY <1>1, <2>1, <2>3, <2>4, RowStays
  <2>6. QED BY <2>2, <2>5 DEF Matches
<1>4. ASSUME pc'[p] = "written"
      PROVE  cell'[p] \in ckpt'[Public(returned'[p])]
  <2>1. pc[p] = "written"
    BY <1>4 DEF Executing
  <2>2. cell[p] \in ckpt[Public(returned[p])] /\ Public(returned[p]) \in Kinds
    BY <1>1, <2>1, Statuses DEF HandTrue, TypeOK, CoroutinesOK
  <2>3. QED BY <2>2 DEF Known
<1>5. returned'[p] = "aborted" => aborted'
  BY <1>1 DEF Known, HandTrue
<1>6. QED BY <1>2, <1>3, <1>4, <1>5 DEF HandTrue

\* A coroutine that takes a cell nobody has a row of starts with nothing.
LEMMA TakerHand ==
    ASSUME Known, NEW p \in Procs, NEW c \in Cells, Takes(p, c)
    PROVE  HandTrue(p)'
<1>1. HandTrue(p) /\ RowTrue(c)
  BY DEF Known, Truth
<1>2. /\ cell'[p] = c /\ ckpt' = ckpt /\ durableRecords' = durableRecords
      /\ pc'[p] = "exec" => db[c] = "none"
      /\ pc'[p] \in Carrying => returned'[p] = "conflict"
      /\ pc'[p] # "written"
      /\ returned'[p] \in {returned[p], "conflict"}
  BY DEF Takes, Carrying, Executing
<1>3. db[c] = "none" =>
          (\A k \in Kinds : c \notin ckpt[k]) /\ durableRecords[c] = "none"
  <2>1. SUFFICES ASSUME db[c] = "none"
                 PROVE  (\A k \in Kinds : c \notin ckpt[k]) /\ durableRecords[c] = "none"
    OBVIOUS
  <2>2. db[c] \notin RecordStatus /\ db[c] # "claimed"
    BY <2>1 DEF RecordStatus
  <2>3. durableRecords[c] \in RecordStatus \cup {"none"}
    BY DEF Known, TypeOK, TallyOK
  <2>4. QED BY <1>1, <2>2, <2>3 DEF RowTrue, Matches
<1>4. "conflict" \notin RecordStatus /\ "conflict" # "aborted"
  BY DEF RecordStatus
<1>5. returned'[p] = "aborted" => aborted'
  BY <1>1, <1>2, <1>4 DEF HandTrue, Known
<1>6. QED BY <1>2, <1>3, <1>4, <1>5 DEF HandTrue

\* A coroutine that goes on in its cell keeps it true.
LEMMA MoverHand ==
    ASSUME Known, NEW p \in Procs, CellForm(p)
    PROVE  HandTrue(p)'
<1>0. /\ TypeOK
      /\ HandTrue(p)
      /\ pc[p] \in Executing => cell[p] \in Cells
      /\ returned[p] \in CellResult
  BY DEF Known, Truth, TypeOK, CoroutinesOK
<1>1. ASSUME NEW s \in RecordStatus, Ends(p, s) PROVE HandTrue(p)'
  <2>1. /\ pc[p] = "exec" /\ pc'[p] = "returned" /\ cell' = cell
        /\ returned'[p] = s /\ (s = "aborted" => aborted)
        /\ cell[p] \in Cells
    BY <1>0, <1>1 DEF Ends, Executing
  <2>2. db[cell[p]] = "claimed" /\ db \in [Cells -> DbRow]
    BY <2>1 DEF Known, ClaimHeld, TypeOK, EvidenceOK
  <2>3. Matches(cell[p], returned[p])'
    BY <1>1, <2>1, <2>2 DEF Ends, Matches
  <2>4. QED BY <2>1, <2>3 DEF HandTrue, Known
<1>2. CASE Waits(p)
  <2>1. /\ pc[p] \in {"returned", "write"} /\ pc'[p] \in {"write", "unwritten"}
        /\ cell' = cell /\ returned' = returned /\ db' = db
    BY <1>2 DEF Waits, NoEvidence
  <2>2. QED BY <1>0, <2>1 DEF HandTrue, Known, Carrying, Matches
<1>3. CASE Saves(p)
  <2>1. /\ pc[p] = "write" /\ pc'[p] = "written"
        /\ cell' = cell /\ returned' = returned /\ db' = db
        /\ ckpt' = CheckpointWith(ckpt, cell[p], returned[p])
    BY <1>3 DEF Saves
  <2>2. Public(returned[p]) \in Kinds /\ ckpt \in [Kinds -> SUBSET Cells]
    BY <1>0, Statuses DEF TypeOK, EvidenceOK
  <2>3. cell[p] \in ckpt'[Public(returned[p])]
    BY <2>1, <2>2 DEF CheckpointWith
  <2>4. QED BY <1>0, <2>1, <2>3 DEF HandTrue, Known, Carrying, Matches
<1>4. ASSUME NEW s \in Kinds, Reports(p, s) PROVE HandTrue(p)'
  <2>1. pc'[p] \notin Executing /\ returned'[p] = "none"
    BY <1>4 DEF Reports
  <2>2. QED BY <2>1 DEF HandTrue, Carrying, Executing
<1>5. QED BY <1>1, <1>2, <1>3, <1>4 DEF CellForm

LEMMA HandsStayTrue ==
    ASSUME Known, NEW p \in Procs
    PROVE  HandTrue(p)'
<1>1. CASE Idles \/ \E c \in Cells : Skips(c)
  <2>1. /\ pc'[p] \in Executing => pc'[p] = pc[p]
        /\ cell'[p] = cell[p] /\ returned'[p] = returned[p]
    BY <1>1 DEF Idles, Skips
  <2>2. QED BY <2>1, OtherHand
<1>2. ASSUME NEW q \in Procs, Rest(q), q # p PROVE HandTrue(p)'
  <2>1. /\ pc'[p] \in Executing => pc'[p] = pc[p]
        /\ cell'[p] = cell[p] /\ returned'[p] = returned[p]
    BY <1>2 DEF Rest
  <2>2. QED BY <2>1, OtherHand
<1>3. ASSUME NEW q \in Procs, NEW c \in Cells, Takes(q, c) PROVE HandTrue(p)'
  <2>1. Rest(q)
    BY <1>3 DEF Takes
  <2>2. QED BY <1>2, <1>3, <2>1, TakerHand
<1>4. ASSUME NEW q \in Procs, CellForm(q) PROVE HandTrue(p)'
  <2>1. Rest(q)
    BY <1>4 DEF CellForm, Ends, Waits, Saves, Reports
  <2>2. QED BY <1>2, <1>4, <2>1, MoverHand
<1>5. StepForm
  BY DEF Known
<1>6. QED BY <1>1, <1>3, <1>4, <1>5 DEF StepForm

\* Who writes or reports a cell carries it.
LEMMA Carried ==
    ASSUME Known, NEW p \in Procs, pc[p] \in Carrying
    PROVE  /\ cell[p] \in Cells
           /\ returned[p] \in RecordStatus => Matches(cell[p], returned[p])
           /\ \A q \in Procs : pc[q] = "exec" => cell[q] # cell[p]
<1>1. pc[p] \in Executing /\ pc[p] # "exec"
  BY DEF Carrying, Executing
<1>2. cell[p] \in Cells /\ HandTrue(p)
  BY <1>1 DEF Known, TypeOK, CoroutinesOK, Truth
<1>3. \A q \in Procs : pc[q] = "exec" => cell[q] # cell[p]
  BY <1>1, Apart DEF Known
<1>4. QED BY <1>2, <1>3 DEF HandTrue

LEMMA RowsStayTrue ==
    ASSUME Known, NEW c \in Cells
    PROVE  RowTrue(c)'
<1>0. /\ TypeOK /\ StepForm /\ RowTrue(c)
      /\ "none" \notin RecordStatus
  BY DEF Known, Truth, RecordStatus
<1>1. ASSUME NEW p \in Procs, pc[p] = "exec", cell[p] = c
      PROVE  (\A k \in Kinds : c \notin ckpt[k]) /\ durableRecords[c] = "none"
  BY <1>1 DEF Known, Truth, HandTrue
<1>2. ASSUME NEW p \in Procs, pc[p] \in Carrying, cell[p] = c,
             returned[p] \in RecordStatus
      PROVE  Matches(c, returned[p]) /\ db'[c] = db[c]
  <2>1. Matches(c, returned[p]) /\ \A q \in Procs : pc[q] = "exec" => cell[q] # c
    BY <1>2, Carried
  <2>2. db[c] # "none"
    BY <1>0, <1>2, <2>1 DEF Matches
  <2>3. QED BY <1>0, <2>1, <2>2, RowStays
<1>3. ASSUME NEW k \in Kinds, c \in ckpt'[k]
      PROVE  \/ db'[c] \in RecordStatus /\ Public(db'[c]) = k
             \/ db'[c] = "claimed" /\ k = "failed"
  <2>1. CASE c \in ckpt[k]
    <3>1. \A p \in Procs : pc[p] = "exec" => cell[p] # c
      BY <1>1, <2>1
    <3>2. \/ db[c] \in RecordStatus /\ Public(db[c]) = k
          \/ db[c] = "claimed" /\ k = "failed"
      BY <1>0, <2>1 DEF RowTrue
    <3>3. db'[c] = db[c]
      BY <1>0, <3>1, <3>2, RowStays
    <3>4. QED BY <3>2, <3>3
  <2>2. CASE c \notin ckpt[k]
    <3>1. PICK p \in Procs : Saves(p) /\ cell[p] = c /\ k = Public(returned[p])
      BY <1>0, <1>3, <2>2, EvidenceChanges
    <3>2. pc[p] = "write" /\ returned[p] \in RecordStatus
      BY <1>0, <3>1 DEF Saves, TypeOK, CoroutinesOK
    <3>3. Matches(c, returned[p]) /\ db'[c] = db[c]
      BY <1>2, <3>1, <3>2 DEF Carrying
    <3>4. "failed" = Public("failed")
      BY DEF Public
    <3>5. QED BY <3>1, <3>2, <3>3, <3>4 DEF Matches
  <2>3. QED BY <2>1, <2>2
<1>4. ASSUME durableRecords'[c] # "none"
      PROVE  Matches(c, durableRecords[c])'
  <2>1. CASE durableRecords'[c] = durableRecords[c]
    <3>1. \A p \in Procs : pc[p] = "exec" => cell[p] # c
      BY <1>1, <1>4, <2>1
    <3>2. Matches(c, durableRecords[c]) /\ durableRecords[c] \in RecordStatus
      BY <1>0, <1>4, <2>1 DEF RowTrue, TypeOK, TallyOK
    <3>3. db'[c] = db[c]
      BY <1>0, <3>1, <3>2, RowStays DEF Matches
    <3>4. QED BY <2>1, <3>2, <3>3 DEF Matches
  <2>2. CASE durableRecords'[c] # durableRecords[c]
    <3>1. PICK p \in Procs, s \in Kinds :
               /\ Reports(p, s) /\ cell[p] = c
               /\ returned[p] \in RecordStatus
               /\ durableRecords'[c] = returned[p]
      BY <1>0, <2>2, EvidenceChanges
    <3>2. pc[p] \in Carrying
      BY <3>1 DEF Reports, Carrying
    <3>3. QED BY <1>2, <3>1, <3>2 DEF Matches
  <2>3. QED BY <2>1, <2>2
<1>5. QED BY <1>3, <1>4 DEF RowTrue

LEMMA LastIsPublic ==
    ASSUME TypeOK, NEW c \in Cells
    PROVE  /\ results[c] # <<>> => LastPublished(c) \in PublicStatus
           /\ results[c] = <<>> => LastPublished(c) = "pending"
<1>1. results[c] \in Seq(PublicStatus)
  BY DEF TypeOK, TallyOK
<1>2. results[c] # <<>> => Len(results[c]) \in DOMAIN results[c]
  BY <1>1
<1>3. QED BY <1>1, <1>2 DEF LastPublished

LEMMA ResultsStayTrue ==
    ASSUME Known, NEW c \in Cells
    PROVE  ResultTrue(c)'
<1>0. /\ TypeOK /\ StepForm /\ ResultTrue(c)
      /\ "none" \notin RecordStatus
      /\ ckpt \in [Kinds -> SUBSET Cells]
  BY DEF Known, Truth, RecordStatus, TypeOK, EvidenceOK
<1>1. ckpt.completed \subseteq ckpt'.completed
  BY DEF Known, Kinds
<1>2. CASE results'[c] = results[c] /\ LastPublished(c)' = LastPublished(c)
  <2>1. db[c] = "completed" => db'[c] = "completed"
    <3>1. SUFFICES ASSUME db[c] = "completed" PROVE db'[c] = "completed"
      OBVIOUS
    <3>2. \A p \in Procs : pc[p] = "exec" => cell[p] # c
      BY <3>1 DEF Known, ClaimHeld
    <3>3. QED BY <1>0, <3>1, <3>2, RowStays
  <2>2. durableRecords[c] # "none" => durableRecords'[c] # "none"
    BY <1>0, EvidenceChanges
  <2>3. results[c] # <<>> /\ LastPublished(c) # "skipped" =>
            ckpt[LastPublished(c)] \subseteq ckpt'[LastPublished(c)]
    BY <1>0, LastIsPublic DEF Known, Kinds, PublicStatus
  <2>4. /\ LastPublished(c)' = "completed" => db'[c] = "completed"
        /\ LastPublished(c)' \in {"completed", "skipped"} => c \in ckpt'.completed
        /\ LastPublished(c)' = "aborted" => aborted'
    BY <1>0, <1>1, <1>2, <2>1 DEF ResultTrue, Known
  <2>5. results'[c] # <<>> /\ ~checkpointBroken' /\ ~identityConflict'
            /\ LastPublished(c)' # "skipped" =>
            c \in ckpt'[LastPublished(c)'] /\ durableRecords'[c] # "none"
    BY <1>0, <1>2, <2>2, <2>3 DEF ResultTrue, Known
  <2>6. QED BY <2>4, <2>5 DEF ResultTrue
<1>3. CASE Skips(c) /\ LastPublished(c)' = "skipped"
  BY <1>1, <1>3 DEF ResultTrue, Skips
<1>4. ASSUME NEW p \in Procs, NEW s \in Kinds, Reports(p, s), cell[p] = c,
             LastPublished(c)' = s
      PROVE  ResultTrue(c)'
  <2>1. /\ pc[p] \in Carrying /\ ckpt' = ckpt /\ db' = db
        /\ HandTrue(p)
    BY <1>4 DEF Reports, Carrying, Known, Truth
  <2>2. CASE s = "failed" /\ (identityConflict' \/ checkpointBroken')
    BY <1>4, <2>2 DEF ResultTrue
  <2>3. CASE pc[p] = "written" /\ s = Public(returned[p]) /\ Remember(p)
    <3>1. returned[p] \in RecordStatus
      BY <1>0, <2>3 DEF TypeOK, CoroutinesOK
    <3>2. durableRecords'[c] = returned[p]
      BY <1>0, <1>4, <2>3, <3>1 DEF Remember, TypeOK, TallyOK
    <3>3. c \in ckpt'[s] /\ Matches(c, returned[p])
      BY <1>4, <2>1, <2>3, <3>1 DEF HandTrue
    <3>4. /\ s = "completed" => returned[p] = "completed"
          /\ s = "aborted" => returned[p] = "aborted"
          /\ s # "skipped"
      BY <2>3, <3>1 DEF Public, RecordStatus
    <3>5. QED
      BY <1>0, <1>4, <2>1, <3>1, <3>2, <3>3, <3>4
      DEF ResultTrue, HandTrue, Known, Matches
  <2>4. QED BY <1>4, <2>2, <2>3 DEF Reports
<1>5. QED BY <1>0, <1>2, <1>3, <1>4, ResultChanges

\* The queue only shrinks, and a row becomes aborted only by a run that is.
LEMMA QueueAndRows ==
    ASSUME TypeOK, StepForm
    PROVE  /\ queue' \subseteq queue
           /\ \A c \in Cells : db'[c] = "aborted" => db[c] = "aborted" \/ aborted
<1>0. db \in [Cells -> DbRow]
  BY DEF TypeOK, EvidenceOK
<1>1. CASE Idles \/ \E d \in Cells : Skips(d)
  BY <1>1 DEF Idles, Skips, NoEvidence
<1>2. CASE \E p \in Procs, d \in Cells : Takes(p, d)
  BY <1>0, <1>2 DEF Takes
<1>3. ASSUME NEW p \in Procs, CellForm(p)
      PROVE  /\ queue' \subseteq queue
             /\ \A c \in Cells : db'[c] = "aborted" => db[c] = "aborted" \/ aborted
  <2>1. CASE \E s \in RecordStatus : Ends(p, s)
    BY <1>0, <2>1 DEF Ends
  <2>2. CASE Waits(p) \/ Saves(p) \/ \E s \in Kinds : Reports(p, s)
    BY <2>2 DEF Waits, Saves, Reports, NoEvidence
  <2>3. QED BY <1>3, <2>1, <2>2 DEF CellForm
<1>4. QED BY <1>1, <1>2, <1>3 DEF StepForm

LEMMA FreshStaysTrue ==
    ASSUME Known, NEW c \in Cells
    PROVE  FreshTrue(c)'
<1> SUFFICES ASSUME ~checkpointLoaded'
             PROVE  /\ c \in queue' => \A k \in Kinds : c \notin ckpt'[k]
                    /\ LastPublished(c)' # "skipped"
                    /\ db'[c] = "aborted" => aborted'
  BY DEF FreshTrue
<1>0. /\ TypeOK /\ StepForm /\ FreshTrue(c) /\ ~checkpointLoaded
      /\ aborted => aborted'
  BY DEF Known, Truth
<1>1. c \in queue' => \A k \in Kinds : c \notin ckpt'[k]
  <2>1. SUFFICES ASSUME c \in queue', NEW k \in Kinds, c \in ckpt'[k] PROVE FALSE
    OBVIOUS
  <2>2. c \in queue
    BY <1>0, <2>1, QueueAndRows
  <2>3. c \notin ckpt[k] /\ \A p \in Procs : cell[p] # c
    BY <1>0, <2>2 DEF FreshTrue, Known, CellConservation
  <2>4. QED BY <1>0, <2>1, <2>3, EvidenceChanges
<1>2. LastPublished(c)' # "skipped"
  <2>1. ~Skips(c)
    BY <1>0 DEF Skips, FreshTrue, Kinds
  <2>2. "skipped" \notin Kinds
    BY DEF Kinds
  <2>3. QED BY <1>0, <2>1, <2>2, ResultChanges DEF FreshTrue
<1>3. db'[c] = "aborted" => aborted'
  BY <1>0, QueueAndRows DEF FreshTrue
<1>4. QED BY <1>1, <1>2, <1>3

\* The flags that only go up.
LEMMA FlagsRise ==
    ASSUME TypeOK, [Next]_vars
    PROVE  /\ checkpointBroken => checkpointBroken'
           /\ identityConflict => identityConflict'
           /\ checkpointLoaded' = checkpointLoaded
<1> USE DEF flags, session
<1>1. ASSUME NEW p \in Procs, CellStep(p)
      PROVE  /\ checkpointBroken => checkpointBroken'
             /\ identityConflict => identityConflict'
             /\ checkpointLoaded' = checkpointLoaded
  BY <1>1 DEF CellStep, FinishCell, PersistenceFails, RequestCheckpoint,
     RecordConflict, RecordCheckpointFailure, WriteCheckpoint,
     CheckpointFails, Publish
<1>2. ASSUME NEW w \in Workers, WorkerStep(w), ~CellStep(w)
      PROVE  UNCHANGED <<checkpointBroken, identityConflict, checkpointLoaded>>
  BY <1>2 DEF WorkerStep, LoopTop, PassGate, RetryElapsed, SkipByWorker,
     SkipCell, Dispatch, DispatchThrows
<1>3. ASSUME MainStep, ~CellStep(Main)
      PROVE  UNCHANGED <<checkpointBroken, identityConflict, checkpointLoaded>>
  BY <1>3 DEF MainStep, AcquireLease, BindPlan, OpenDatabase,
     DatabasePreflightFails, PoolDone, PoolRejects, SkipByDrain, SkipCell,
     Drain, DrainThrows, DrainDone, Finalize, FinalizeThrows, CloseDatabase,
     ReleaseLease
<1>4. CASE Caller
  BY <1>4 DEF Caller, Pause, Resume, Abort
<1>5. CASE UNCHANGED vars
  BY <1>5 DEF vars
<1>6. Workers \subseteq Procs /\ Main \in Procs
  BY DEF Procs
<1>7. QED BY <1>1, <1>2, <1>3, <1>4, <1>5, <1>6 DEF Next, Terminated

LEMMA TruthStep ==
    TypeOK /\ IdleHoldsNothing /\ StagesOK /\ CellConservation /\ ClaimHeld
        /\ Truth /\ [Next]_vars => Truth'
<1> SUFFICES ASSUME TypeOK, IdleHoldsNothing, StagesOK, CellConservation,
                    ClaimHeld, Truth, [Next]_vars
             PROVE  Truth'
  OBVIOUS
<1>1. DOMAIN ckpt = Kinds
  BY DEF TypeOK, EvidenceOK
<1>2. Known
  BY <1>1, StepForms, FlagsRise, CheckpointGrows DEF Known
<1>3. (\A p \in Procs : HandTrue(p)')
      /\ \A c \in Cells : RowTrue(c)' /\ ResultTrue(c)' /\ FreshTrue(c)'
  BY <1>2, HandsStayTrue, RowsStayTrue, ResultsStayTrue, FreshStaysTrue
<1>4. QED BY <1>3 DEF Truth

LEMMA TruthInit == Init => Truth
<1> SUFFICES ASSUME Init PROVE Truth
  OBVIOUS
<1>1. /\ \A p \in Procs : pc[p] \notin Executing /\ returned[p] = "none"
      /\ \A c \in Cells : durableRecords[c] = "none" /\ results[c] = <<>>
  BY DEF Init, Executing
<1>2. \A p \in Procs : HandTrue(p)
  BY <1>1 DEF HandTrue, Carrying, Executing
<1>3. \A c \in Cells : ResultTrue(c)
  BY <1>1 DEF ResultTrue, LastPublished
<1>4. CASE FreshEvidence \/ InterruptedEvidence
  <2>1. \A c \in Cells : /\ db[c] # "aborted"
                         /\ \A k \in Kinds : c \notin ckpt[k]
    BY <1>4 DEF FreshEvidence, InterruptedEvidence, EmptyCheckpoint
  <2>2. QED
    BY <1>1, <1>2, <1>3, <2>1 DEF Truth, RowTrue, FreshTrue, LastPublished
<1>5. CASE AutoResume /\ FinishedEvidence
  <2>1. PICK rows \in [Cells -> RecordStatus] :
             /\ db = rows
             /\ ckpt = [kind \in Kinds |-> {c \in Cells : Public(rows[c]) = kind}]
    BY <1>5 DEF FinishedEvidence
  <2>2. \A c \in Cells : RowTrue(c)
    BY <1>1, <2>1 DEF RowTrue
  <2>3. ckpt # EmptyCheckpoint
    <3>1. 1 \in Cells
      BY EngineAssumption DEF Cells
    <3>2. rows[1] \in CellResult
      BY <2>1, <3>1 DEF CellResult
    <3>3. Public(rows[1]) \in Kinds
      BY <3>2, Statuses
    <3>4. 1 \in ckpt[Public(rows[1])]
      BY <2>1, <3>1, <3>3
    <3>5. QED BY <3>3, <3>4 DEF EmptyCheckpoint
  <2>4. checkpointLoaded
    BY <1>5, <2>3 DEF Init
  <2>5. QED BY <1>2, <1>3, <2>2, <2>4 DEF Truth, FreshTrue
<1>6. QED BY <1>4, <1>5 DEF Init

LEMMA AlwaysClaimed == Spec => []ClaimHeld
<1>1. Init => ClaimHeld
  BY EngineAssumption DEF Init, ClaimHeld, Procs
<1>2. TypeOK /\ CellConservation /\ ClaimHeld /\ [Next]_vars => ClaimHeld'
  BY StepRows, ClaimStays
<1>3. QED
  BY <1>1, <1>2, TypeCorrect, CellsConserved, PTL DEF Spec

LEMMA AlwaysTrue == Spec => []Truth
BY TruthInit, TruthStep, TypeCorrect, AlwaysIdle, AlwaysStaged,
   CellsConserved, AlwaysClaimed, PTL DEF Spec

(***************************************************************************)
(* The counters                                                            *)
(***************************************************************************)

WithResult(k) == {c \in Cells : LastPublished(c) = k}

CountsOK == \A k \in PublicStatus : counts[k] = Cardinality(WithResult(k))

LEMMA CellsFinite == IsFiniteSet(Cells) /\ \A k : IsFiniteSet(WithResult(k))
<1>1. IsFiniteSet(Cells)
  BY FS_Interval, EngineAssumption DEF Cells
<1>2. QED BY <1>1, FS_Subset DEF WithResult

\* A pushed result moves its cell, which had none, into one set.
LEMMA PushCounts ==
    ASSUME TypeOK, CountsOK, NEW d \in Cells, NEW s \in PublicStatus,
           results[d] = <<>>, PushedOn(d, s)
    PROVE  CountsOK'
<1>0. /\ results \in [Cells -> Seq(PublicStatus)]
      /\ counts \in [PublicStatus -> Nat]
  BY DEF TypeOK, TallyOK
<1>1. LastPublished(d) = "pending" /\ "pending" \notin PublicStatus
  BY LastIsPublic DEF PublicStatus
<1>2. results'[d] = <<s>>
  BY <1>0 DEF PushedOn
<1>3. LastPublished(d)' = s
  BY <1>2 DEF LastPublished
<1>4. \A c \in Cells \ {d} : LastPublished(c)' = LastPublished(c)
  BY <1>0 DEF PushedOn, LastPublished
<1>5. /\ WithResult(s)' = WithResult(s) \cup {d}
      /\ d \notin WithResult(s)
      /\ \A k \in PublicStatus \ {s} : WithResult(k)' = WithResult(k)
  BY <1>1, <1>3, <1>4 DEF WithResult
<1>6. Cardinality(WithResult(s) \cup {d}) = Cardinality(WithResult(s)) + 1
  BY <1>5, CellsFinite, PlusOne
<1>7. /\ counts'[s] = counts[s] + 1
      /\ \A k \in PublicStatus \ {s} : counts'[k] = counts[k]
  BY <1>0 DEF PushedOn
<1>8. QED BY <1>5, <1>6, <1>7 DEF CountsOK

LEMMA CountsStep ==
    TypeOK /\ CellConservation /\ StepForm /\ CountsOK => CountsOK'
<1> SUFFICES ASSUME TypeOK, CellConservation, StepForm, CountsOK PROVE CountsOK'
  OBVIOUS
<1>1. CASE NoResult
  <2>1. \A k : WithResult(k)' = WithResult(k)
    BY <1>1 DEF NoResult, WithResult, LastPublished
  <2>2. QED BY <1>1, <2>1 DEF NoResult, CountsOK
<1>2. ASSUME NEW c \in Cells, Skips(c) PROVE CountsOK'
  <2>1. results[c] = <<>> /\ PushedOn(c, "skipped")
    BY <1>2 DEF Skips, CellConservation
  <2>2. QED BY <2>1, PushCounts DEF PublicStatus
<1>3. ASSUME NEW p \in Procs, NEW s \in Kinds, Reports(p, s) PROVE CountsOK'
  <2>1. cell[p] \in Cells
    BY <1>3 DEF Reports, TypeOK, CoroutinesOK, Executing
  <2>2. results[cell[p]] = <<>> /\ PushedOn(cell[p], s) /\ s \in PublicStatus
    BY <1>3, <2>1 DEF Reports, CellConservation, Kinds, PublicStatus
  <2>3. QED BY <2>1, <2>2, PushCounts
<1>4. QED
  BY <1>1, <1>2, <1>3 DEF StepForm, CellForm, Idles, Takes, Ends, Waits, Saves

LEMMA AlwaysCounted == Spec => []CountsOK
<1>1. Init => CountsOK
  <2>1. SUFFICES ASSUME Init PROVE CountsOK
    OBVIOUS
  <2>2. \A c \in Cells : LastPublished(c) = "pending"
    BY <2>1 DEF Init, LastPublished
  <2>3. \A k \in PublicStatus : WithResult(k) = {} /\ counts[k] = 0
    BY <2>1, <2>2 DEF Init, WithResult, PublicStatus
  <2>4. QED BY <2>3, FS_EmptySet DEF CountsOK
<1>2. QED
  BY <1>1, CountsStep, StepForms, TypeCorrect, AlwaysIdle, AlwaysStaged,
     CellsConserved, PTL DEF Spec

(***************************************************************************)
(* The queue is empty when the run finalizes                               *)
(***************************************************************************)

QueueServed ==
    /\ \A w \in Workers : pc[w] = "exited" => queue = {} \/ aborted
    /\ pc[Main] = "finalize" \/ (Ended /\ ~runError) => queue = {}

\* A worker leaves its loop when nothing is queued, or the sweep is aborted.
LEMMA WorkersServe ==
    ASSUME TypeOK, StagesOK, QueueServed, queue' \subseteq queue,
           NEW w \in Workers, WorkerStep(w)
    PROVE  QueueServed'
<1>0. /\ pc \in [Procs -> Labels]
      /\ Main \in Procs /\ Main \notin Workers /\ Workers \subseteq Procs
  BY EngineAssumption DEF TypeOK, CoroutinesOK, Labels, Procs
<1>1. WorkerMove
  BY WorkerStepStage
<1>2. ASSUME NEW v \in Workers, pc'[v] = "exited", pc[v] # "exited"
      PROVE  queue = {} \/ aborted
  <2>1. CASE CellStep(w)
    <3>1. CellMove(w)
      BY <1>0, <2>1, CellStepStage
    <3>2. PICK l \in Executing \cup {"top"} :
             \/ pc' = [pc EXCEPT ![w] = l]
             \/ pc' = [OpenGate(pc) EXCEPT ![w] = l]
      BY <1>0, <3>1 DEF CellMove, After
    <3>3. pc'[v] # "exited"
      BY <1>0, <1>2, <3>2 DEF OpenGate, Executing
    <3>4. QED BY <1>2, <3>3
  <2>2. CASE LoopTop(w)
    <3>1. pc'[v] = pc[v] \/ queue = {} \/ aborted \/ pc'[v] \in {"ready", "parked"}
      BY <1>0, <2>2 DEF LoopTop, Goto
    <3>2. QED BY <1>2, <3>1
  <2>3. CASE PassGate(w) \/ RetryElapsed(w)
    <3>1. pc'[v] = pc[v] \/ aborted \/ pc'[v] \in {"retry", "top"}
      BY <1>0, <2>3 DEF PassGate, RetryElapsed, MayStart, Goto
    <3>2. QED BY <1>2, <3>1
  <2>4. CASE SkipByWorker(w) \/ Dispatch(w) \/ DispatchThrows(w)
    <3>1. pc'[v] = pc[v] \/ pc'[v] \in {"top", "exec", "returned", "threw"}
      BY <1>0, <2>4 DEF SkipByWorker, Dispatch, DispatchThrows, Claim, Goto
    <3>2. QED BY <1>2, <3>1
  <2>5. QED BY <2>1, <2>2, <2>3, <2>4 DEF WorkerStep
<1>3. \A v \in Workers : pc'[v] = "exited" => queue' = {} \/ aborted'
  BY <1>1, <1>2 DEF QueueServed, WorkerMove
<1>4. pc'[Main] = "finalize" \/ (Ended' /\ ~runError') => queue' = {}
  BY <1>1 DEF QueueServed, WorkerMove, Ended
<1>5. QED BY <1>3, <1>4 DEF QueueServed

LEMMA MainServes ==
    ASSUME TypeOK, IdleHoldsNothing, StagesOK, QueueServed, queue' \subseteq queue,
           MainStep
    PROVE  QueueServed'
<1>0. /\ pc \in [Procs -> Labels]
      /\ Main \in Procs /\ Main \notin Workers /\ Workers \subseteq Procs
      /\ Workers # {}
  BY EngineAssumption DEF TypeOK, CoroutinesOK, Labels, Procs
<1> USE DEF session, flags, control
<1>1. ASSUME NEW l, \/ pc' = [pc EXCEPT ![Main] = l]
                    \/ pc' = [OpenGate(pc) EXCEPT ![Main] = l],
             aborted => aborted',
             l = "finalize" \/ (l \in {"close", "release", "done"} /\ ~runError')
                 => queue = {}
      PROVE  QueueServed'
  <2>1. pc'[Main] = l
    BY <1>0, <1>1 DEF OpenGate
  <2>2. \A w \in Workers : pc'[w] = pc[w] \/ pc'[w] = "ready"
    BY <1>0, <1>1 DEF OpenGate
  <2>3. \A w \in Workers : pc'[w] = "exited" => queue' = {} \/ aborted'
    BY <1>1, <2>2 DEF QueueServed
  <2>4. pc'[Main] = "finalize" \/ (Ended' /\ ~runError') => queue' = {}
    BY <1>1, <2>1 DEF Ended
  <2>5. QED BY <2>3, <2>4 DEF QueueServed
<1>2. CASE AcquireLease \/ BindPlan \/ DatabasePreflightFails
  <2>1. PICK l \in {"plan", "open", "done", "release"} :
             /\ pc' = [pc EXCEPT ![Main] = l]
             /\ l \in {"done", "release"} => runError'
             /\ aborted' = aborted
    BY <1>2 DEF AcquireLease, BindPlan, DatabasePreflightFails, Goto
  <2>2. QED BY <1>1, <2>1
<1>3. CASE OpenDatabase
  <2>1. /\ \A w \in Workers : pc'[w] # "exited"
        /\ pc'[Main] = "pool" \/ (pc'[Main] = "close" /\ runError')
    BY <1>0, <1>3 DEF OpenDatabase, IdleHoldsNothing, Goto
  <2>2. QED BY <2>1 DEF QueueServed, Ended
<1>4. CASE PoolDone
  <2>1. queue = {} \/ aborted
    BY <1>0, <1>4 DEF PoolDone, PoolSettled, QueueServed
  <2>2. /\ pc' = [pc EXCEPT ![Main] = IF aborted THEN "drain" ELSE "finalize"]
        /\ aborted' = aborted
    BY <1>4 DEF PoolDone, Goto
  <2>3. QED BY <1>1, <2>1, <2>2
<1>5. CASE PoolRejects \/ DrainThrows \/ FinalizeThrows
  <2>1. /\ pc' = [pc EXCEPT ![Main] = "close"] /\ runError'
        /\ aborted' = aborted
    BY <1>5 DEF PoolRejects, DrainThrows, FinalizeThrows, Goto
  <2>2. QED BY <1>1, <2>1
<1>6. CASE SkipByDrain
  <2>1. UNCHANGED <<pc, runError, aborted>>
    BY <1>6 DEF SkipByDrain, SkipCell
  <2>2. QED BY <2>1 DEF QueueServed, Ended
<1>7. CASE Drain \/ DrainDone
  <2>1. PICK l \in {"exec", "returned", "finalize"} :
             /\ pc' = [pc EXCEPT ![Main] = l]
             /\ l = "finalize" => queue = {}
             /\ aborted' = aborted
    BY <1>7 DEF Drain, DrainDone, Claim, Goto
  <2>2. QED BY <1>1, <2>1
<1>8. CASE CellStep(Main)
  <2>1. CellMove(Main)
    BY <1>0, <1>8, CellStepStage
  <2>2. PICK l \in Executing \cup {"drain"} :
             \/ pc' = [pc EXCEPT ![Main] = l]
             \/ pc' = [OpenGate(pc) EXCEPT ![Main] = l]
    BY <2>1 DEF CellMove, After
  <2>3. QED BY <1>1, <2>1, <2>2 DEF CellMove, Executing
<1>9. CASE Finalize \/ CloseDatabase \/ ReleaseLease
  <2>1. PICK l : /\ pc' = [pc EXCEPT ![Main] = l] /\ l # "finalize"
                 /\ pc[Main] = "finalize" \/ Ended
                 /\ aborted' = aborted
                 /\ runError => runError'
    BY <1>9 DEF Finalize, CloseDatabase, ReleaseLease, Goto, Ended
  <2>2. ~runError' => queue = {}
    BY <2>1 DEF QueueServed
  <2>3. QED BY <1>1, <2>1, <2>2
<1>10. QED
  BY <1>2, <1>3, <1>4, <1>5, <1>6, <1>7, <1>8, <1>9 DEF MainStep

LEMMA AlwaysServed == Spec => []QueueServed
<1>1. Init => QueueServed
  BY EngineAssumption DEF Init, QueueServed, Ended, Procs
<1>2. TypeOK /\ IdleHoldsNothing /\ StagesOK /\ QueueServed /\ [Next]_vars
      => QueueServed'
  <2>1. SUFFICES ASSUME TypeOK, IdleHoldsNothing, StagesOK, QueueServed, [Next]_vars
                 PROVE  QueueServed'
    OBVIOUS
  <2>2. queue' \subseteq queue
    BY <2>1, StepForms, QueueAndRows
  <2>3. CASE Caller
    <3>1. /\ UNCHANGED <<queue, runError>>
          /\ aborted => aborted'
          /\ pc' = pc \/ pc' = OpenGate(pc)
      BY <2>3 DEF Caller, Pause, Resume, Abort, pool, flags
    <3>2. pc'[Main] = pc[Main]
      BY <2>1, <3>1 DEF OpenGate, Procs, StagesOK, MainPc, Executing
    <3>3. \A w \in Workers : pc'[w] = pc[w] \/ pc'[w] = "ready"
      BY <3>1 DEF OpenGate, Procs
    <3>4. QED BY <2>1, <3>1, <3>2, <3>3 DEF QueueServed, Ended
  <2>4. CASE UNCHANGED vars
    BY <2>1, <2>4 DEF vars, pool, control, flags, QueueServed, Ended
  <2>5. QED
    BY <2>1, <2>2, <2>3, <2>4, WorkersServe, MainServes DEF Next, Terminated
<1>3. QED
  BY <1>1, <1>2, TypeCorrect, AlwaysIdle, AlwaysStaged, PTL DEF Spec

\* Once the queue is empty and nobody holds a cell, every cell has a result.
LEMMA AllReported ==
    ASSUME TypeOK, IdleHoldsNothing, StagesOK, CellConservation, QueueServed,
           pc[Main] = "finalize" \/ (Ended /\ ~runError)
    PROVE  /\ queue = {}
           /\ \A p \in Procs : cell[p] = NoCell
           /\ \A c \in Cells : results[c] # <<>> /\ Len(results[c]) = 1
<1>1. AllExited /\ cell[Main] = NoCell /\ queue = {}
  BY DEF StagesOK, Abandoned, IdleHoldsNothing, BetweenCells, QueueServed, Procs
<1>2. \A p \in Procs : cell[p] = NoCell
  BY <1>1 DEF AllExited, IdleHoldsNothing, BetweenCells, Procs
<1>3. \A c \in Cells : results[c] # <<>>
  BY <1>1, <1>2, EngineAssumption DEF CellConservation
<1>4. ASSUME NEW c \in Cells PROVE Len(results[c]) = 1
  <2>1. results[c] \in Seq(PublicStatus)
    BY DEF TypeOK, TallyOK
  <2>2. \A s \in Seq(PublicStatus) : Len(s) \in Nat /\ (Len(s) = 0 => s = <<>>)
    OBVIOUS
  <2>3. Len(results[c]) \in Nat /\ Len(results[c]) # 0
    BY <1>3, <2>1, <2>2
  <2>4. Len(results[c]) <= 1
    BY DEF CellConservation
  <2>5. \A n \in Nat : n <= 1 /\ n # 0 => n = 1
    OBVIOUS
  <2>6. QED BY <2>3, <2>4, <2>5
<1>5. QED BY <1>1, <1>2, <1>3, <1>4

(***************************************************************************)
(* The outcome                                                             *)
(***************************************************************************)

\* A run that returns "completed" met no fault and completed every cell.
StatusOK ==
    status = "completed" =>
        /\ Ended /\ ~runError /\ ~checkpointBroken /\ ~identityConflict
        /\ ckpt.completed = Cells

OutcomeTrue ==
    ~checkpointLoaded /\ outcome # NoOutcome =>
        \A c \in Cells : outcome.entries[c].status = "completed" => db[c] = "completed"

\* The outcome of a finished run is what its records and results say, and its
\* status the one of the moment it was written.
OutcomeTells ==
    /\ outcome # NoOutcome
    /\ ~outcome.orchestrationFailure
    /\ outcome.entries = [c \in Cells |-> OutcomeEntry(durableRecords[c], LastPublished(c))]
    /\ \/ outcome.status = "aborted" /\ aborted
       \/ /\ outcome.status = IF counts.failed > 0 THEN "failed" ELSE "completed"
          /\ \A c \in Cells : db[c] # "aborted"

OutcomeOK ==
    /\ OutcomeTrue
    /\ Ended /\ ~runError /\ ~checkpointLoaded /\ ~checkpointBroken
           /\ ~identityConflict => OutcomeTells

\* Nothing but the flags of the caller and the last steps of Main moves at the
\* regular end.
EndRests ==
    /\ UNCHANGED <<ckpt, db, files, outcome, durableRecords, results, counts,
                   checkpointBroken, identityConflict, checkpointLoaded>>
    /\ aborted => aborted'

LEMMA EndedStep ==
    ASSUME TypeOK, StagesOK, [Next]_vars, Ended, ~runError
    PROVE  /\ EndRests
           /\ Ended'
           /\ runError' => status' # "completed"
<1>0. /\ pc \in [Procs -> Labels] /\ Main \in Procs
      /\ AllExited
  BY DEF TypeOK, CoroutinesOK, Labels, Procs, StagesOK, Abandoned
<1> USE DEF disk, tally, flags, session, control
<1>1. ASSUME NEW w \in Workers PROVE ~WorkerStep(w)
  <2>1. pc[w] = "exited"
    BY <1>0 DEF AllExited
  <2>2. QED
    BY <2>1 DEF WorkerStep, CellStep, LoopTop, PassGate, RetryElapsed,
       SkipByWorker, Dispatch, DispatchThrows, FinishCell, PersistenceFails,
       RequestCheckpoint, RecordConflict, RecordCheckpointFailure,
       WriteCheckpoint, CheckpointFails, Publish
<1>2. CASE MainStep
  <2>1. CloseDatabase \/ ReleaseLease
    BY <1>2 DEF Ended, MainStep, AcquireLease, BindPlan, OpenDatabase,
       DatabasePreflightFails, PoolDone, PoolRejects, SkipByDrain, Drain,
       DrainThrows, DrainDone, Finalize, FinalizeThrows, CellStep, FinishCell,
       PersistenceFails, RequestCheckpoint, RecordConflict,
       RecordCheckpointFailure, WriteCheckpoint, CheckpointFails, Publish
  <2>2. CASE CloseDatabase
    BY <1>0, <2>2 DEF CloseDatabase, EndRests, Ended, Goto
  <2>3. CASE ReleaseLease
    BY <1>0, <2>3 DEF ReleaseLease, EndRests, Ended, Goto
  <2>4. QED BY <2>1, <2>2, <2>3
<1>3. CASE Caller
  <2>1. /\ EndRests /\ runError' = runError
        /\ pc' = pc \/ pc' = OpenGate(pc)
    BY <1>3 DEF Caller, Pause, Resume, Abort, EndRests
  <2>2. QED BY <1>0, <2>1 DEF Ended, OpenGate
<1>4. CASE UNCHANGED vars
  BY <1>4 DEF vars, EndRests, Ended
<1>5. QED BY <1>1, <1>2, <1>3, <1>4 DEF Next, Terminated

\* A run comes to its regular end by finalizing.
LEMMA EndBegins ==
    ASSUME TypeOK, IdleHoldsNothing, StagesOK, [Next]_vars, Ended', ~runError',
           ~(Ended /\ ~runError)
    PROVE  MainStep /\ Finalize
<1>0. /\ pc \in [Procs -> Labels] /\ Main \in Procs /\ Main \notin Workers
      /\ Workers \subseteq Procs
  BY EngineAssumption DEF TypeOK, CoroutinesOK, Labels, Procs
<1> USE DEF flags
<1>1. ASSUME NEW w \in Workers, WorkerStep(w) PROVE FALSE
  <2>1. WorkerMove
    BY <1>1, WorkerStepStage
  <2>2. QED BY <2>1 DEF WorkerMove, Ended
<1>2. CASE Caller \/ UNCHANGED vars
  <2>1. /\ runError' = runError
        /\ pc' = pc \/ pc' = OpenGate(pc)
    BY <1>2 DEF Caller, Pause, Resume, Abort, vars
  <2>2. QED BY <1>0, <2>1 DEF Ended, OpenGate
<1>3. ASSUME MainStep PROVE Finalize
  <2>1. CASE AcquireLease \/ BindPlan \/ DatabasePreflightFails \/ PoolDone
    <3>1. runError' \/ \E l \in {"plan", "open", "drain", "finalize"} :
                           pc' = [pc EXCEPT ![Main] = l]
      BY <2>1 DEF AcquireLease, BindPlan, DatabasePreflightFails, PoolDone, Goto
    <3>2. QED BY <1>0, <3>1 DEF Ended
  <2>2. CASE OpenDatabase
    <3>1. runError' \/ pc'[Main] = "pool"
      BY <1>0, <2>2 DEF OpenDatabase
    <3>2. QED BY <3>1 DEF Ended
  <2>3. CASE PoolRejects \/ DrainThrows \/ FinalizeThrows
    BY <2>3 DEF PoolRejects, DrainThrows, FinalizeThrows
  <2>4. CASE SkipByDrain
    <3>1. pc[Main] = "drain" /\ pc' = pc
      BY <2>4 DEF SkipByDrain
    <3>2. QED BY <3>1 DEF Ended
  <2>5. CASE Drain \/ DrainDone
    <3>1. \E l \in {"exec", "returned", "finalize"} : pc' = [pc EXCEPT ![Main] = l]
      BY <2>5 DEF Drain, DrainDone, Claim, Goto
    <3>2. QED BY <1>0, <3>1 DEF Ended
  <2>6. CASE CellStep(Main)
    <3>1. \E l \in Executing \cup {"drain"} :
             \/ pc' = [pc EXCEPT ![Main] = l]
             \/ pc' = [OpenGate(pc) EXCEPT ![Main] = l]
      BY <1>0, <2>6, CellStepStage DEF CellMove, After
    <3>2. pc'[Main] \in Executing \cup {"drain"}
      BY <1>0, <3>1 DEF OpenGate
    <3>3. QED BY <3>2 DEF Ended, Executing
  <2>7. CASE CloseDatabase \/ ReleaseLease
    <3>1. Ended /\ (runError => runError')
      BY <2>7 DEF CloseDatabase, ReleaseLease, Ended
    <3>2. QED BY <3>1
  <2>8. QED
    BY <1>3, <2>1, <2>2, <2>3, <2>4, <2>5, <2>6, <2>7 DEF MainStep
<1>4. QED BY <1>1, <1>2, <1>3 DEF Next, Terminated

\* Only finalizing makes a run "completed".
LEMMA CompletedBegins ==
    ASSUME TypeOK, [Next]_vars, status' = "completed", status # "completed"
    PROVE  Finalize
<1> USE DEF control
<1>1. ASSUME NEW p \in Procs, CellStep(p) PROVE FALSE
  BY <1>1 DEF CellStep, FinishCell, PersistenceFails, RequestCheckpoint,
     RecordConflict, RecordCheckpointFailure, WriteCheckpoint,
     CheckpointFails, Publish
<1>2. ASSUME NEW w \in Workers, WorkerStep(w) PROVE FALSE
  BY <1>1, <1>2 DEF WorkerStep, LoopTop, PassGate, RetryElapsed, SkipByWorker,
     SkipCell, Dispatch, DispatchThrows, Procs
<1>3. CASE MainStep
  BY <1>1, <1>3 DEF MainStep, AcquireLease, BindPlan, OpenDatabase,
     DatabasePreflightFails, PoolDone, PoolRejects, SkipByDrain, SkipCell,
     Drain, DrainThrows, DrainDone, FinalizeThrows, CloseDatabase,
     ReleaseLease, Procs
<1>4. CASE Caller \/ UNCHANGED vars
  BY <1>4 DEF Caller, Pause, Resume, Abort, vars
<1>5. QED BY <1>2, <1>3, <1>4 DEF Next, Terminated

\* What a run that finalizes knows of its cells.
Final ==
    /\ TypeOK
    /\ \A c \in Cells : results[c] # <<>>
    /\ \A c \in Cells : RowTrue(c) /\ ResultTrue(c) /\ FreshTrue(c)
    /\ CountsOK

LEMMA NoneFailed ==
    ASSUME Final
    PROVE  counts.failed > 0 <=> \E c \in Cells : LastPublished(c) = "failed"
<1>1. counts["failed"] = Cardinality(WithResult("failed")) /\ counts["failed"] \in Nat
  BY DEF Final, CountsOK, PublicStatus, TypeOK, TallyOK
<1>2. counts["failed"] = 0 <=> WithResult("failed") = {}
  BY <1>1, CellsFinite, FS_EmptySet
<1>3. QED BY <1>1, <1>2 DEF WithResult

LEMMA StatusStep ==
    TypeOK /\ StagesOK /\ StatusOK /\ [Next]_vars
        /\ (pc[Main] = "finalize" => Final) => StatusOK'
<1> SUFFICES ASSUME TypeOK, StagesOK, StatusOK, [Next]_vars,
                    pc[Main] = "finalize" => Final, status' = "completed"
             PROVE  /\ Ended' /\ ~runError' /\ ~checkpointBroken' /\ ~identityConflict'
                    /\ ckpt'.completed = Cells
  BY DEF StatusOK
<1>1. CASE status = "completed"
  BY <1>1, EndedStep DEF StatusOK, EndRests
<1>2. CASE status # "completed"
  <2>1. Finalize
    BY <1>2, CompletedBegins
  <2>2. /\ pc[Main] = "finalize"
        /\ pc' = [pc EXCEPT ![Main] = "close"]
        /\ TerminalSweepStatus = "completed"
        /\ UNCHANGED <<ckpt, checkpointBroken, identityConflict, runError>>
    BY <2>1 DEF Finalize, Goto, flags
  <2>3. ~checkpointBroken /\ ~identityConflict /\ ~aborted /\ ~(counts.failed > 0)
    BY <2>2 DEF TerminalSweepStatus
  <2>4. ~runError
    BY <2>2 DEF StagesOK, Ended
  <2>5. Ended'
    BY <2>2 DEF Ended, TypeOK, CoroutinesOK, Procs
  <2>6. \A c \in Cells : LastPublished(c) \in {"completed", "skipped"}
    BY <2>2, <2>3, NoneFailed, LastIsPublic DEF Final, ResultTrue, PublicStatus
  <2>7. ckpt.completed = Cells
    BY <2>2, <2>6 DEF Final, ResultTrue, TypeOK, EvidenceOK, Kinds
  <2>8. QED BY <2>2, <2>3, <2>4, <2>5, <2>7
<1>3. QED BY <1>1, <1>2

\* The outcome is written by the preflight, which completes nothing, and by
\* the finalization.
LEMMA OutcomeChanges ==
    ASSUME TypeOK, [Next]_vars
    PROVE  \/ outcome' = outcome
           \/ Finalize
           \/ DatabasePreflightFails
<1> USE DEF disk
<1>1. ASSUME NEW p \in Procs, CellStep(p) PROVE outcome' = outcome
  BY <1>1 DEF CellStep, FinishCell, PersistenceFails, RequestCheckpoint,
     RecordConflict, RecordCheckpointFailure, WriteCheckpoint,
     CheckpointFails, Publish
<1>2. ASSUME NEW w \in Workers, WorkerStep(w) PROVE outcome' = outcome
  BY <1>1, <1>2 DEF WorkerStep, LoopTop, PassGate, RetryElapsed, SkipByWorker,
     SkipCell, Dispatch, DispatchThrows, Procs
<1>3. ASSUME MainStep, ~Finalize, ~DatabasePreflightFails PROVE outcome' = outcome
  BY <1>1, <1>3 DEF MainStep, AcquireLease, BindPlan, OpenDatabase,
     PoolDone, PoolRejects, SkipByDrain, SkipCell, Drain, DrainThrows,
     DrainDone, FinalizeThrows, CloseDatabase, ReleaseLease, Procs
<1>4. CASE Caller \/ UNCHANGED vars
  BY <1>4 DEF Caller, Pause, Resume, Abort, vars
<1>5. QED BY <1>2, <1>3, <1>4 DEF Next, Terminated

\* The outcome a finalizing run writes completes the cells whose record it has.
LEMMA FinalizeOutcome ==
    ASSUME Finalize, ~checkpointLoaded
    PROVE  /\ outcome' = [status |-> TerminalSweepStatus,
                          orchestrationFailure |-> checkpointBroken \/ identityConflict,
                          entries |-> [c \in Cells |->
                              OutcomeEntry(durableRecords[c], LastPublished(c))]]
           /\ UNCHANGED <<db, durableRecords, results, counts, aborted,
                          checkpointLoaded, checkpointBroken, identityConflict>>
           /\ \A c \in Cells : LastPublished(c)' = LastPublished(c)
BY DEF Finalize, control, session, flags, tally, LastPublished

LEMMA OutcomeTrueStep ==
    TypeOK /\ ClaimHeld /\ (\A c \in Cells : RowTrue(c)) /\ OutcomeTrue
        /\ [Next]_vars => OutcomeTrue'
<1> SUFFICES ASSUME TypeOK, ClaimHeld, \A c \in Cells : RowTrue(c), OutcomeTrue,
                    [Next]_vars, ~checkpointLoaded', outcome' # NoOutcome,
                    NEW c \in Cells, outcome'.entries[c].status = "completed"
             PROVE  db'[c] = "completed"
  BY DEF OutcomeTrue
<1>0. ~checkpointLoaded
  BY FlagsRise
<1>1. db[c] = "completed" => db'[c] = "completed"
  BY StepRows, RowsAreFinal DEF RecordStatus
<1>2. CASE outcome' = outcome
  BY <1>0, <1>1, <1>2 DEF OutcomeTrue
<1>3. CASE Finalize
  <2>1. OutcomeEntry(durableRecords[c], LastPublished(c)).status = "completed"
    BY <1>0, <1>3, FinalizeOutcome
  <2>2. durableRecords[c] = "completed"
    BY <2>1 DEF OutcomeEntry
  <2>3. QED BY <1>1, <2>2 DEF RowTrue, Matches
<1>4. CASE DatabasePreflightFails /\ outcome' # outcome
  <2>1. outcome'.entries[c] = OutcomeEntry("none", "pending")
    BY <1>4 DEF DatabasePreflightFails
  <2>2. QED BY <2>1 DEF OutcomeEntry
<1>5. QED BY <1>2, <1>3, <1>4, OutcomeChanges

LEMMA OutcomeStep ==
    TypeOK /\ IdleHoldsNothing /\ StagesOK /\ ClaimHeld
        /\ (\A c \in Cells : RowTrue(c) /\ FreshTrue(c))
        /\ OutcomeOK /\ [Next]_vars => OutcomeOK'
<1> SUFFICES ASSUME TypeOK, IdleHoldsNothing, StagesOK, ClaimHeld,
                    \A c \in Cells : RowTrue(c) /\ FreshTrue(c),
                    OutcomeOK, [Next]_vars
             PROVE  OutcomeOK'
  OBVIOUS
<1>1. OutcomeTrue'
  BY OutcomeTrueStep DEF OutcomeOK
<1>2. ASSUME Ended', ~runError', ~checkpointLoaded', ~checkpointBroken',
             ~identityConflict'
      PROVE  OutcomeTells'
  <2>1. CASE Ended /\ ~runError
    <3>1. EndRests
      BY <2>1, EndedStep
    <3>2. OutcomeTells
      BY <1>2, <2>1, <3>1 DEF EndRests, OutcomeOK
    <3>3. \A c \in Cells : LastPublished(c)' = LastPublished(c)
      BY <3>1 DEF EndRests, LastPublished
    <3>4. /\ outcome' # NoOutcome
          /\ ~outcome'.orchestrationFailure
          /\ outcome'.entries = [c \in Cells |-> OutcomeEntry(durableRecords'[c], LastPublished(c)')]
      BY <3>1, <3>2, <3>3 DEF EndRests, OutcomeTells
    <3>5. \/ outcome'.status = "aborted" /\ aborted'
          \/ /\ outcome'.status = IF counts'.failed > 0 THEN "failed" ELSE "completed"
             /\ \A c \in Cells : db'[c] # "aborted"
      BY <3>1, <3>2 DEF EndRests, OutcomeTells
    <3>6. QED BY <3>4, <3>5 DEF OutcomeTells
  <2>2. CASE ~(Ended /\ ~runError)
    <3>1. Finalize /\ ~checkpointLoaded
      BY <1>2, <2>2, EndBegins, FlagsRise
    <3>2. ~checkpointBroken /\ ~identityConflict
      BY <1>2, <3>1, FinalizeOutcome
    <3>3. /\ outcome'.status = TerminalSweepStatus
          /\ ~outcome'.orchestrationFailure
          /\ outcome'.entries = [c \in Cells |-> OutcomeEntry(durableRecords[c], LastPublished(c))]
      <4>1. outcome' = [status |-> TerminalSweepStatus,
                        orchestrationFailure |-> checkpointBroken \/ identityConflict,
                        entries |-> [c \in Cells |->
                            OutcomeEntry(durableRecords[c], LastPublished(c))]]
        BY <3>1, FinalizeOutcome
      <4>2. (checkpointBroken \/ identityConflict) = FALSE
        BY <3>2
      <4>3. outcome'.orchestrationFailure = (checkpointBroken \/ identityConflict)
        BY <4>1
      <4>4. QED BY <4>1, <4>2, <4>3
    <3>4. TerminalSweepStatus = IF aborted THEN "aborted"
                                ELSE IF counts.failed > 0 THEN "failed"
                                ELSE "completed"
      BY <3>2 DEF TerminalSweepStatus
    <3>5. outcome' # NoOutcome
      BY <3>3, <3>4 DEF NoOutcome
    <3>6. ~aborted => \A c \in Cells : db[c] # "aborted"
      BY <3>1 DEF FreshTrue
    <3>7. \/ outcome'.status = "aborted" /\ aborted'
          \/ /\ outcome'.status = IF counts'.failed > 0 THEN "failed" ELSE "completed"
             /\ \A c \in Cells : db'[c] # "aborted"
      BY <3>1, <3>3, <3>4, <3>6, FinalizeOutcome
    <3>8. outcome'.entries = [c \in Cells |-> OutcomeEntry(durableRecords'[c], LastPublished(c)')]
      BY <3>1, <3>3, FinalizeOutcome
    <3>9. QED BY <3>3, <3>5, <3>7, <3>8 DEF OutcomeTells
  <2>3. QED BY <2>1, <2>2
<1>3. QED BY <1>1, <1>2 DEF OutcomeOK

LEMMA OutcomeInit == Init => StatusOK /\ OutcomeOK
<1> SUFFICES ASSUME Init PROVE StatusOK /\ OutcomeOK
  OBVIOUS
<1>1. StatusOK
  BY DEF Init, StatusOK
<1>2. ~Ended
  BY DEF Init, Ended, Procs
<1>3. CASE FreshEvidence \/ InterruptedEvidence
  BY <1>2, <1>3
  DEF FreshEvidence, InterruptedEvidence, OutcomeOK, OutcomeTrue, StatusOK, Init
<1>4. CASE AutoResume /\ FinishedEvidence
  <2>1. PICK rows \in [Cells -> RecordStatus] :
             ckpt = [kind \in Kinds |-> {c \in Cells : Public(rows[c]) = kind}]
    BY <1>4 DEF FinishedEvidence
  <2>2. 1 \in Cells
    BY EngineAssumption DEF Cells
  <2>3. Public(rows[1]) \in Kinds
    BY <2>1, <2>2, Statuses DEF CellResult
  <2>4. ckpt # EmptyCheckpoint
    BY <2>1, <2>2, <2>3 DEF EmptyCheckpoint
  <2>5. checkpointLoaded
    BY <1>4, <2>4 DEF Init
  <2>6. QED BY <1>1, <1>2, <2>5 DEF OutcomeOK, OutcomeTrue
<1>5. QED BY <1>3, <1>4 DEF Init

LEMMA AlwaysFinal == Spec => [](pc[Main] = "finalize" => Final)
<1>1. TypeOK /\ IdleHoldsNothing /\ StagesOK /\ CellConservation /\ QueueServed
      /\ Truth /\ CountsOK => (pc[Main] = "finalize" => Final)
  BY AllReported DEF Final, Truth
<1>2. QED
  BY <1>1, TypeCorrect, AlwaysIdle, AlwaysStaged, CellsConserved, AlwaysServed,
     AlwaysTrue, AlwaysCounted, PTL

LEMMA AlwaysOutcome == Spec => [](StatusOK /\ OutcomeOK)
<1>1. Truth => \A c \in Cells : RowTrue(c) /\ FreshTrue(c)
  BY DEF Truth
<1>2. TypeOK /\ IdleHoldsNothing /\ StagesOK /\ ClaimHeld /\ Truth
      /\ (pc[Main] = "finalize" => Final) /\ StatusOK /\ OutcomeOK /\ [Next]_vars
      => (StatusOK /\ OutcomeOK)'
  BY <1>1, StatusStep, OutcomeStep
<1>3. QED
  BY <1>2, OutcomeInit, TypeCorrect, AlwaysIdle, AlwaysStaged, AlwaysClaimed,
     AlwaysTrue, AlwaysFinal, PTL DEF Spec

(***************************************************************************)
(* What a run reports is true: nothing calls a cell completed before its   *)
(* completed record is durable, not the checkpoint, not the results, not   *)
(* the outcome and not the status of the run; the four counters agree with *)
(* the results at every await; and a run that finalizes has exactly one    *)
(* result for every cell.                                                  *)
(***************************************************************************)
THEOREM ReportsTrue == Spec => []ReportsAreTrue
<1>1. Truth /\ TypeOK => /\ \A c \in ckpt.completed : db[c] = "completed"
                         /\ \A c \in Cells : LastPublished(c) = "completed" => db[c] = "completed"
  <2>1. SUFFICES ASSUME Truth, TypeOK
                 PROVE  /\ \A c \in ckpt.completed : db[c] = "completed"
                        /\ \A c \in Cells : LastPublished(c) = "completed" => db[c] = "completed"
    OBVIOUS
  <2>2. ASSUME NEW c \in ckpt.completed PROVE db[c] = "completed"
    <3>1. c \in Cells /\ "completed" \in Kinds /\ c \in ckpt["completed"]
      BY <2>1 DEF TypeOK, EvidenceOK, Kinds
    <3>2. db[c] \in RecordStatus /\ Public(db[c]) = "completed"
      BY <2>1, <3>1 DEF Truth, RowTrue
    <3>3. QED BY <3>2 DEF Public
  <2>3. \A c \in Cells : LastPublished(c) = "completed" => db[c] = "completed"
    BY <2>1 DEF Truth, ResultTrue
  <2>4. QED BY <2>2, <2>3
<1>2. Truth /\ TypeOK /\ StatusOK /\ OutcomeOK => CompletedIsDurable
  BY <1>1 DEF CompletedIsDurable, StatusOK, OutcomeOK, OutcomeTrue
<1>3. TypeOK /\ IdleHoldsNothing /\ StagesOK /\ CellConservation /\ QueueServed
      => (pc[Main] = "finalize" => \A c \in Cells : Len(results[c]) = 1)
  BY AllReported
<1>4. CountsOK => \A k \in PublicStatus :
                      counts[k] = Cardinality({c \in Cells : LastPublished(c) = k})
  BY DEF CountsOK, WithResult
<1>5. TypeOK /\ IdleHoldsNothing /\ StagesOK /\ CellConservation /\ QueueServed
      /\ Truth /\ CountsOK /\ StatusOK /\ OutcomeOK => ReportsAreTrue
  BY <1>2, <1>3, <1>4 DEF ReportsAreTrue
<1>6. QED
  BY <1>5, TypeCorrect, AlwaysIdle, AlwaysStaged, CellsConserved, AlwaysServed,
     AlwaysTrue, AlwaysCounted, AlwaysOutcome, PTL

(***************************************************************************)
(* The evidence of a run reconciles with itself                            *)
(***************************************************************************)

\* The end of a run whose writes all succeeded.
CleanEnd ==
    /\ TypeOK
    /\ \A c \in Cells : results[c] # <<>>
    /\ \A c \in Cells : RowTrue(c) /\ ResultTrue(c) /\ FreshTrue(c)
    /\ CountsOK
    /\ ~checkpointLoaded /\ ~checkpointBroken /\ ~identityConflict
    /\ \A c \in Cells : db[c] \in RecordStatus

\* Then row, record, public result and checkpoint set of a cell are one.
LEMMA CellAgrees ==
    ASSUME CleanEnd, NEW c \in Cells
    PROVE  /\ LastPublished(c) \in Kinds
           /\ LastPublished(c) = Public(db[c])
           /\ \A k \in Kinds : c \in ckpt[k] <=> k = Public(db[c])
           /\ durableRecords[c] = db[c]
<1>1. /\ LastPublished(c) \in PublicStatus \ {"skipped"}
      /\ c \in ckpt[LastPublished(c)]
      /\ durableRecords[c] # "none"
  BY LastIsPublic DEF CleanEnd, ResultTrue, FreshTrue
<1>2. LastPublished(c) \in Kinds
  BY <1>1 DEF PublicStatus, Kinds
<1>3. db[c] \in RecordStatus /\ db[c] # "claimed"
  BY DEF CleanEnd, RecordStatus
<1>4. \A k \in Kinds : c \in ckpt[k] => k = Public(db[c])
  BY <1>3 DEF CleanEnd, RowTrue
<1>5. durableRecords[c] = db[c]
  BY <1>1, <1>3 DEF CleanEnd, RowTrue, Matches
<1>6. QED BY <1>1, <1>2, <1>4, <1>5

\* Every cell is in the checkpoint, so its artifacts decide.
LEMMA CheckpointAgrees ==
    ASSUME CleanEnd, \A c \in Cells : files[c] = "agree"
    PROVE  CheckpointReconciles(ckpt, db, files)
<1>0. /\ ckpt \in [Kinds -> SUBSET Cells]
      /\ {"completed", "failed", "aborted"} \subseteq Kinds
  BY DEF CleanEnd, TypeOK, EvidenceOK, Kinds
<1>1. ASSUME NEW k \in Kinds, NEW c \in ckpt[k]
      PROVE  CellReconciles(k, db[c], files[c])
  <2>1. c \in Cells
    BY <1>0, <1>1
  <2>2. QED BY <1>1, <2>1, CellAgrees DEF CleanEnd, CellReconciles
<1>2. \A j, k \in Kinds : j # k => ckpt[j] \cap ckpt[k] = {}
  BY <1>1 DEF CellReconciles
<1>3. ASSUME NEW c \in Cells
      PROVE  c \in ckpt.completed \cup ckpt.failed \cup ckpt.aborted
  BY CellAgrees DEF Kinds
<1>4. /\ ckpt["completed"] \cap ckpt["failed"] = {}
      /\ ckpt["completed"] \cap ckpt["aborted"] = {}
      /\ ckpt["failed"] \cap ckpt["aborted"] = {}
  BY <1>0, <1>2
<1>5. QED BY <1>1, <1>3, <1>4 DEF CheckpointReconciles

LEMMA OutcomeAgrees ==
    ASSUME CleanEnd, OutcomeTells,
           outcome.status = "aborted" => \E c \in Cells : db[c] = "aborted"
    PROVE  OutcomeReconciles(outcome, ckpt, db, TRUE)
<1>0. ckpt \in [Kinds -> SUBSET Cells]
  BY DEF CleanEnd, TypeOK, EvidenceOK
<1>1. ASSUME NEW c \in Cells
      PROVE  LET e == outcome.entries[c]
             IN  /\ e.evidenceDurable <=> (db[c] \in RecordStatus)
                 /\ e.evidenceDurable => e.status = db[c]
                 /\ \/ e.publicStatus = "completed" /\ c \in ckpt.completed
                    \/ e.publicStatus = "failed" /\ c \in ckpt.failed
                    \/ e.publicStatus = "aborted" /\ c \in ckpt.aborted
  <2>1. /\ db[c] \in RecordStatus /\ db[c] # "none"
        /\ durableRecords[c] = db[c]
        /\ LastPublished(c) \in {"completed", "failed", "aborted"}
        /\ c \in ckpt[LastPublished(c)]
    BY CellAgrees DEF CleanEnd, RecordStatus, Kinds
  <2>2. outcome.entries[c] = OutcomeEntry(db[c], LastPublished(c))
    BY <2>1 DEF OutcomeTells
  <2>3. OutcomeEntry(db[c], LastPublished(c)) =
            [status |-> db[c], evidenceDurable |-> TRUE, publicStatus |-> LastPublished(c)]
    <3>1. (db[c] # "none") = TRUE
      BY <2>1
    <3>2. QED BY <2>1, <3>1 DEF OutcomeEntry
  <2>4. QED BY <2>1, <2>2, <2>3
<1>2. /\ ckpt.aborted # {} <=> \E c \in Cells : db[c] = "aborted"
      /\ ckpt.failed # {} <=> \E c \in Cells : LastPublished(c) = "failed"
  <2>1. \A c \in Cells : /\ c \in ckpt.aborted <=> db[c] = "aborted"
                         /\ c \in ckpt.failed <=> LastPublished(c) = "failed"
    BY CellAgrees DEF Kinds, Public, CleanEnd, RecordStatus
  <2>2. ckpt.aborted \subseteq Cells /\ ckpt.failed \subseteq Cells
    BY <1>0 DEF Kinds
  <2>3. QED BY <2>1, <2>2
<1>3. counts.failed > 0 <=> ckpt.failed # {}
  BY <1>2, NoneFailed DEF Final, CleanEnd
<1>4. CheckpointStatus(ckpt) = IF ckpt.aborted # {} THEN "aborted"
                               ELSE IF ckpt.failed # {} THEN "failed"
                               ELSE "completed"
  <2>1. ckpt.completed \cup ckpt.failed \cup ckpt.aborted = Cells
    <3>1. ckpt["completed"] \cup ckpt["failed"] \cup ckpt["aborted"] \subseteq Cells
      BY <1>0 DEF Kinds
    <3>2. \A c \in Cells : c \in ckpt.completed \cup ckpt.failed \cup ckpt.aborted
      BY CellAgrees DEF Kinds
    <3>3. QED BY <3>1, <3>2
  <2>2. Cells # {}
    <3>1. 1 \in Cells
      BY EngineAssumption DEF Cells
    <3>2. QED BY <3>1
  <2>3. QED BY <2>1, <2>2 DEF CheckpointStatus
<1>5. outcome.status = CheckpointStatus(ckpt)
  <2>1. CASE outcome.status = "aborted" /\ aborted
    BY <1>2, <1>4, <2>1
  <2>2. CASE /\ outcome.status = IF counts.failed > 0 THEN "failed" ELSE "completed"
             /\ \A c \in Cells : db[c] # "aborted"
    BY <1>2, <1>3, <1>4, <2>2
  <2>3. QED BY <2>1, <2>2 DEF OutcomeTells
<1>6. QED BY <1>1, <1>5 DEF OutcomeReconciles, OutcomeTells

\* What the checkpoint of a regular end lists is what was published, so a cell
\* without a record or with other artifacts is refused, and so is an outcome
\* that says "aborted" over a checkpoint that does not.
LEMMA AcceptedAgrees ==
    ASSUME TypeOK, ~checkpointLoaded,
           \A c \in Cells : results[c] # <<>>,
           \A c \in Cells : ResultTrue(c) /\ FreshTrue(c),
           ~checkpointBroken, ~identityConflict, OutcomeTells,
           CheckpointReconciles(ckpt, db, files),
           OutcomeReconciles(outcome, ckpt, db, TRUE)
    PROVE  /\ \A c \in Cells : db[c] \in RecordStatus /\ files[c] = "agree"
           /\ outcome.status = "aborted" => \E c \in Cells : db[c] = "aborted"
<1>0. /\ ckpt \in [Kinds -> SUBSET Cells]
      /\ {"completed", "failed", "aborted"} \subseteq Kinds
  BY DEF TypeOK, EvidenceOK, Kinds
<1>1. ASSUME NEW c \in Cells
      PROVE  db[c] \in RecordStatus /\ files[c] = "agree"
  <2>1. /\ LastPublished(c) \in PublicStatus \ {"skipped"}
        /\ c \in ckpt[LastPublished(c)]
    BY LastIsPublic DEF ResultTrue, FreshTrue
  <2>2. LastPublished(c) \in Kinds
    BY <2>1 DEF PublicStatus, Kinds
  <2>3. CellReconciles(LastPublished(c), db[c], files[c])
    BY <2>1, <2>2 DEF CheckpointReconciles
  <2>4. QED BY <2>3 DEF CellReconciles
<1>2. ASSUME outcome.status = "aborted" PROVE \E c \in Cells : db[c] = "aborted"
  <2>1. CheckpointStatus(ckpt) = "aborted"
    BY <1>2 DEF OutcomeReconciles, OutcomeTells
  <2>2. ckpt.aborted # {}
    BY <2>1 DEF CheckpointStatus
  <2>3. PICK c \in ckpt["aborted"] : TRUE
    BY <2>2
  <2>4. c \in Cells /\ CellReconciles("aborted", db[c], files[c])
    BY <1>0, <2>3 DEF CheckpointReconciles
  <2>5. db[c] = "aborted"
    BY <2>4 DEF CellReconciles, Public, RecordStatus
  <2>6. QED BY <2>4, <2>5
<1>3. QED BY <1>1, <1>2

(***************************************************************************)
(* The evidence of a run none of whose own writes failed is accepted by a  *)
(* resumed run exactly if each cell has its record and artifacts that      *)
(* agree with it, and the outcome does not say "aborted" over a checkpoint *)
(* without an aborted cell (validateCheckpointTerminalEvidence and         *)
(* validateSweepOutcomeEvidence over what the ledger and                   *)
(* finalizeSweepExecution wrote).                                          *)
(***************************************************************************)
THEOREM EvidenceReconcilesAtEnd == Spec => []EvidenceReconciles
<1>1. TypeOK /\ IdleHoldsNothing /\ StagesOK /\ CellConservation /\ QueueServed
      /\ Truth /\ CountsOK /\ OutcomeOK => EvidenceReconciles
  <2>1. SUFFICES ASSUME TypeOK, IdleHoldsNothing, StagesOK, CellConservation,
                        QueueServed, Truth, CountsOK, OutcomeOK,
                        pc[Main] = "done", ~runError, ~checkpointLoaded,
                        ~checkpointBroken, ~identityConflict
                 PROVE  /\ CheckpointReconciles(ckpt, db, files)
                        /\ OutcomeReconciles(outcome, ckpt, db, TRUE)
                        <=>
                        /\ \A c \in Cells : db[c] \in RecordStatus /\ files[c] = "agree"
                        /\ outcome.status = "aborted" => \E c \in Cells : db[c] = "aborted"
    BY DEF EvidenceReconciles
  <2>2. Ended
    BY <2>1 DEF Ended
  <2>3. \A c \in Cells : results[c] # <<>>
    BY <2>1, <2>2, AllReported
  <2>4. OutcomeTells
    BY <2>1, <2>2 DEF OutcomeOK
  <2>5. ASSUME \A c \in Cells : db[c] \in RecordStatus /\ files[c] = "agree",
               outcome.status = "aborted" => \E c \in Cells : db[c] = "aborted"
        PROVE  /\ CheckpointReconciles(ckpt, db, files)
               /\ OutcomeReconciles(outcome, ckpt, db, TRUE)
    <3>1. CleanEnd
      BY <2>1, <2>3, <2>5 DEF CleanEnd, Truth
    <3>2. QED BY <2>4, <2>5, <3>1, CheckpointAgrees, OutcomeAgrees
  <2>6. ASSUME CheckpointReconciles(ckpt, db, files),
               OutcomeReconciles(outcome, ckpt, db, TRUE)
        PROVE  /\ \A c \in Cells : db[c] \in RecordStatus /\ files[c] = "agree"
               /\ outcome.status = "aborted" => \E c \in Cells : db[c] = "aborted"
    BY <2>1, <2>3, <2>4, <2>6, AcceptedAgrees DEF Truth
  <2>7. QED BY <2>5, <2>6
<1>2. QED
  BY <1>1, TypeCorrect, AlwaysIdle, AlwaysStaged, CellsConserved, AlwaysServed,
     AlwaysTrue, AlwaysCounted, AlwaysOutcome, PTL

=============================================================================
