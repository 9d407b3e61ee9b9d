------------------------------ MODULE SweepPlan ------------------------------
(* sweep/: what comes before a sweep's cells run and what is kept of them: the *)
(* admission of a configuration and its cells, the binding of a sweep identity *)
(* to the fingerprint of its plan, and the checkpoint ledger with its file,    *)
(* backup and validation.  Files are what links and renames make of them; a    *)
(* process may die between any two calls.                                      *)
EXTENDS NoValue, Integers, Sequences, SequencesExt, FiniteSets, FiniteSetsExt

CONSTANTS Scenarios, Skills,   \* what catalog and registry know
          ProviderOfModel,     \* the model registry
          Strange,             \* a name that none of them knows
          PlanProcs,           \* processes that bind one sweep identity
          Fingerprints,
          PlannedCells,
          Durations,
          MaxDeaths            \* bound: deaths of the process, and syncs of a rename that fail

VARIABLE plan

\* A fingerprint is a hash, never undefined.
ASSUME FingerprintsAssumption == None \notin Fingerprints

\* What nobody knows is in no catalog.
ASSUME StrangeAssumption == Strange \notin Scenarios \cup Skills

\* A sweep has so many cells, durations are counted, and a code or an outcome is
\* a word.
ASSUME LedgerAssumption ==
  /\ IsFiniteSet(PlannedCells) /\ Durations \subseteq Nat
  /\ None \notin {"ok", "completed", "failed", "aborted", "skipped"}

KnownModels == DOMAIN ProviderOfModel

Providers == {ProviderOfModel[m] : m \in KnownModels}

Selections(S) == SeqOf(S \cup {Strange}, 2)

PlanInit ==
  \/ \E scenarios \in Selections(Scenarios), skills \in Selections(Skills),
        models \in SeqOf([id : KnownModels \cup {Strange}, provider : Providers], 2),
        requested \in {None} \cup Providers, wellFormed \in BOOLEAN :
       plan = [on |-> "matrix", scenarios |-> scenarios, skills |-> skills, models |-> models,
               requested |-> requested, wellFormed |-> wellFormed, code |-> None, cells |-> <<>>]
  \/ plan = [on |-> "bind", file |-> None, links |-> 0, stages |-> {},
             at |-> [p \in PlanProcs |-> "idle"], wants |-> [p \in PlanProcs |-> None],
             resumes |-> [p \in PlanProcs |-> FALSE], ran |-> {}, deaths |-> 0]
  \/ \E described \in [PlannedCells -> {"plain", "sensitive"}] :
       plan = [on |-> "ledger", described |-> described, mem |-> None, disk |-> None,
               backup |-> None, temporary |-> FALSE, at |-> "off", next |-> None, told |-> {},
               deaths |-> 0, broken |-> FALSE, spoiled |-> FALSE]
-----------------------------------------------------------------------------
(* validateMatrixSweepConfig and generateMatrixCells                           *)

HasDuplicates(s) == Cardinality(ToSet(s)) # Len(s)

SelectorCode(s) ==
  IF s = <<>> THEN "empty_matrix" ELSE IF HasDuplicates(s) THEN "duplicate_selector" ELSE "ok"

\* The models are looked at one by one, the first that is wrong gives the code.
ModelCode(i) ==
  LET m == plan.models[i]
  IN IF \E j \in 1..(i - 1) : plan.models[j].id = m.id THEN "duplicate_selector"
     ELSE IF m.id \notin KnownModels THEN "model_unresolved"
     ELSE IF ProviderOfModel[m.id] # m.provider
             \/ plan.requested \notin {None, ProviderOfModel[m.id]} THEN "provider_model_mismatch"
     ELSE "ok"

ModelsCode ==
  LET wrong == {i \in DOMAIN plan.models : ModelCode(i) # "ok"}
  IN IF plan.models = <<>> THEN "empty_matrix"
     ELSE IF wrong # {} THEN ModelCode(Min(wrong)) ELSE "ok"

\* The checks in their order: shape and numbers, selectors, models, catalog.
AdmissionCodes ==
  <<IF plan.wellFormed THEN "ok" ELSE "invalid",
    SelectorCode(plan.scenarios), SelectorCode(plan.skills), ModelsCode,
    IF ToSet(plan.scenarios) \subseteq Scenarios THEN "ok" ELSE "scenario_unresolved",
    IF ToSet(plan.skills) \subseteq Skills THEN "ok" ELSE "skill_unresolved">>

Refusals == {i \in DOMAIN AdmissionCodes : AdmissionCodes[i] # "ok"}

\* A model's provider, unless one is requested for the whole run.
EffectiveProvider(m) == IF plan.requested # None THEN plan.requested ELSE m.provider

LevelCount == 2
RepetitionCount == 2

\* The occurrences of a matrix, in the order of the nested loops.
MatrixCells ==
  FlattenSeq([s \in DOMAIN plan.scenarios |->
    FlattenSeq([k \in DOMAIN plan.skills |->
      FlattenSeq([m \in DOMAIN plan.models |->
        FlattenSeq([l \in 1..LevelCount |->
          [r \in 1..RepetitionCount |->
            [at |-> <<s, k, m, l, r>>, provider |-> EffectiveProvider(plan.models[m])]]])])])])

AdmitSweep ==
  /\ plan.on = "matrix" /\ plan.code = None
  /\ plan' = IF Refusals # {} THEN [plan EXCEPT !.code = AdmissionCodes[Min(Refusals)]]
             ELSE [plan EXCEPT !.code = "ok", !.cells = MatrixCells]
-----------------------------------------------------------------------------
(* bindSweepPlan                                                               *)

Steps(p, from, to) ==
  /\ plan.on = "bind" /\ plan.at[p] = from
  /\ plan' = [plan EXCEPT !.at[p] = to]

BindSweepPlan(p, fingerprint, autoResume) ==
  /\ plan.on = "bind" /\ plan.at[p] = "idle"
  /\ plan' = [plan EXCEPT !.at[p] = "read", !.wants[p] = fingerprint, !.resumes[p] = autoResume]

\* readBinding: a plan with another link than its own is not accepted, whether
\* its publication is under way or was cut off.
ReadBinding(p) ==
  Steps(p, "read",
    IF plan.file = None THEN "list"
    ELSE IF plan.links # 1 \/ plan.file # plan.wants[p] \/ ~plan.resumes[p] THEN "refused"
    ELSE "bound")

\* What is in the namespace besides the lease's own files occupies it.
ListNamespace(p) == Steps(p, "list", IF plan.stages # {} \/ plan.file # None THEN "refused" ELSE "create")

CreateCandidate(p) ==
  /\ plan.on = "bind" /\ plan.at[p] = "create"
  /\ plan' = [plan EXCEPT !.at[p] = "link", !.stages = @ \cup {p}]

\* Writing, syncing or checking the candidate fails: it is taken away again, if
\* that does not fail as well.
CandidateFails(p) ==
  /\ plan.on = "bind" /\ plan.at[p] = "link"
  /\ \E left \in {{}, {p}} : plan' = [plan EXCEPT !.at[p] = "refused", !.stages = (@ \ {p}) \cup left]

\* link(2) does not replace a plan that is there.
LinksPlan(s, p) ==
  IF s.file = None THEN [s EXCEPT !.file = s.wants[p], !.links = 2, !.at[p] = "unlink"]
  ELSE [s EXCEPT !.at[p] = "refused", !.stages = @ \ {p}]

LinkPlan(p) == plan.on = "bind" /\ plan.at[p] = "link" /\ plan' = LinksPlan(plan, p)

\* A sync that fails after the link, or after the unlink, is an error, which
\* leaves the plan where it is.
RemoveOwnedCandidate(p) ==
  /\ plan.on = "bind" /\ plan.at[p] = "unlink"
  /\ \/ \E end \in {"bound", "refused"} :
          plan' = [plan EXCEPT !.at[p] = end, !.links = 1, !.stages = @ \ {p}]
     \/ plan' = [plan EXCEPT !.at[p] = "refused"]

\* The sweep of a bound plan runs, to its end.
RunsBound(p) ==
  /\ plan.on = "bind" /\ plan.at[p] = "bound"
  /\ plan' = [plan EXCEPT !.at[p] = "idle", !.ran = @ \cup {plan.wants[p]}]

GivesUpBinding(p) == Steps(p, "refused", "idle")

BinderDies(p) ==
  /\ plan.on = "bind" /\ plan.at[p] \notin {"idle", "refused"} /\ plan.deaths < MaxDeaths
  /\ plan' = [plan EXCEPT !.at[p] = "idle", !.deaths = @ + 1]
-----------------------------------------------------------------------------
(* CheckpointLedger and checkpoint-storage.  A state is the outcome, the       *)
(* duration and the descriptor of each cell it tracks, the sum that is kept    *)
(* beside them, and whether all it was made of are whole milliseconds: a       *)
(* runner measures fractions, whose floating-point sum depends on the order.   *)
(* A descriptor is sensitive when its metadata has a key or a text that the    *)
(* sanitizing of artifacts drops or rewrites (apiVersion is such a key).       *)

Outcomes == {"completed", "failed", "aborted", "skipped"}

LedgerState ==
  [status : {"pending", "running", "aborted", "failed", "completed"},
   of : [PlannedCells -> Outcomes \cup {None}], took : [PlannedCells -> Int],
   cell : [PlannedCells -> {None, "plain", "sensitive", "redacted"}], duration : Int, whole : BOOLEAN]

\* A file that is not there has no state.
ASSUME StateAssumption == None \notin LedgerState

EmptyLedger ==
  [status |-> "pending", of |-> [c \in PlannedCells |-> None],
   took |-> [c \in PlannedCells |-> 0], cell |-> [c \in PlannedCells |-> None],
   duration |-> 0, whole |-> TRUE]

Tracked(state) == {c \in PlannedCells : state.of[c] # None}

ResolveCheckpointStatus(of) ==
  LET statuses == {of[c] : c \in PlannedCells}
  IN IF None \in statuses THEN "running"
     ELSE IF "aborted" \in statuses THEN "aborted"
     ELSE IF "failed" \in statuses THEN "failed" ELSE "completed"

RecordedAnew(state, c, outcome, took, whole) ==
  LET of == [state.of EXCEPT ![c] = outcome]
  IN [status |-> ResolveCheckpointStatus(of), of |-> of,
      took |-> [state.took EXCEPT ![c] = took], cell |-> [state.cell EXCEPT ![c] = plan.described[c]],
      duration |-> took, whole |-> state.whole /\ whole]

\* recordCellSuccess, -Failure, -Aborted; what is skipped took no time.
Recorded(state, c, outcome, took, whole) ==
  LET of == [state.of EXCEPT ![c] = outcome]
  IN [status |-> ResolveCheckpointStatus(of), of |-> of,
      took |-> [state.took EXCEPT ![c] = took], cell |-> [state.cell EXCEPT ![c] = plan.described[c]],
      duration |-> state.duration + took, whole |-> state.whole /\ whole]

\* sanitizeBenchmarkArtifactStreamValue: what it drops or rewrites is not there
\* when the file is read again.
Redacted(descriptor) == IF descriptor = "sensitive" THEN "redacted" ELSE descriptor

Sanitized(state) == [state EXCEPT !.cell = [c \in PlannedCells |-> Redacted(state.cell[c])]]

\* validateCheckpointStateContract: the accounts, where the durations are added
\* by outcome here and in the order of recording there, which is the same for
\* whole ones only, and the descriptor of each cell against the plan's.
Accounts(state) ==
  /\ state.status =
       IF Tracked(state) = {} THEN "pending"
       ELSE IF Tracked(state) # PlannedCells THEN "running"
       ELSE IF \E c \in PlannedCells : state.of[c] = "aborted" THEN "aborted"
       ELSE IF \E c \in PlannedCells : state.of[c] = "failed" THEN "failed" ELSE "completed"
  /\ \A c \in PlannedCells : state.of[c] \in {None, "skipped"} => state.took[c] = 0
  /\ state.whole => state.duration = MapThenSumSet(LAMBDA c : state.took[c], PlannedCells)

DescribedAsPlanned(state) == \A c \in Tracked(state) : state.cell[c] = plan.described[c]

Contract(state) == Accounts(state) /\ DescribedAsPlanned(state)

Ledgering == plan.on = "ledger"

\* load: the file, or the backup when it cannot be parsed; no file is a new
\* ledger.
LoadedState ==
  IF plan.disk # None /\ ~plan.broken THEN plan.disk
  ELSE IF plan.backup # None /\ ~plan.spoiled THEN plan.backup ELSE EmptyLedger

\* A sweep resumes from what passes the contract; it is refused, and changes
\* nothing, when what was loaded does not, or when fractions add up otherwise.
LoadLedger ==
  /\ Ledgering /\ plan.at = "off" /\ Contract(LoadedState)
  /\ plan' = [plan EXCEPT !.at = "idle", !.next = None, !.mem = LoadedState]

\* persistState, one call at a time behind the write lock.
PersistState(c) ==
  /\ Ledgering /\ plan.at = "idle" /\ plan.mem.of[c] = None
  /\ \E outcome \in Outcomes, took \in Durations, whole \in BOOLEAN :
       /\ outcome = "skipped" => took = 0
       /\ took = 0 => whole
       /\ plan' = [plan EXCEPT !.at = "backup", !.temporary = FALSE,
                               !.next = Recorded(plan.mem, c, outcome, took, whole)]

\* preserveCheckpointBackup: the first file there ever was, and no later one; a
\* damaged one is as good as any.  It may fail before its link or after it.
PreserveBackup ==
  /\ Ledgering /\ plan.at = "backup"
  /\ \/ /\ plan.disk # None /\ plan.backup = None
        /\ \E to \in {"temporary", "idle"} :
             plan' = [plan EXCEPT !.at = to, !.backup = plan.disk, !.spoiled = plan.broken,
                                  !.next = IF to = "idle" THEN None ELSE @]
     \/ /\ plan.disk = None \/ plan.backup # None
        /\ plan' = [plan EXCEPT !.at = "temporary"]
     \/ plan' = [plan EXCEPT !.at = "idle", !.next = None]

WriteTemporary ==
  /\ Ledgering /\ plan.at = "temporary"
  /\ \/ plan' = [plan EXCEPT !.at = "rename", !.temporary = TRUE]
     \/ plan' = [plan EXCEPT !.at = "idle", !.next = None]

\* What is written is the sanitized state, what stays in memory is the state;
\* the lock is handed on and the caller is told.
RenameCheckpoint ==
  /\ Ledgering /\ plan.at = "rename"
  /\ plan' = [plan EXCEPT !.at = "idle", !.disk = Sanitized(plan.next), !.mem = plan.next, !.next = None,
                          !.temporary = FALSE, !.broken = FALSE, !.told = Tracked(plan.next)]

\* The directory cannot be synced after the rename: the caller is told of an
\* error and the memory stays behind the file.
RenameIsNotSynced ==
  /\ Ledgering /\ plan.at = "rename" /\ plan.deaths < MaxDeaths
  /\ plan' = [plan EXCEPT !.at = "idle", !.disk = Sanitized(plan.next), !.next = None,
                          !.temporary = FALSE, !.broken = FALSE, !.deaths = @ + 1]

LedgerDies ==
  /\ Ledgering /\ plan.at # "off" /\ plan.deaths < MaxDeaths
  /\ plan' = [plan EXCEPT !.at = "off", !.mem = None, !.next = None, !.deaths = @ + 1]

\* The file is damaged from outside while nobody uses it.
CheckpointBreaks ==
  /\ Ledgering /\ plan.at = "off" /\ plan.disk # None /\ ~plan.broken
  /\ plan' = [plan EXCEPT !.broken = TRUE, !.told = {}]

PlanNext ==
  \/ AdmitSweep
  \/ \E p \in PlanProcs :
       \/ ReadBinding(p) \/ ListNamespace(p) \/ CreateCandidate(p) \/ CandidateFails(p)
       \/ LinkPlan(p) \/ RemoveOwnedCandidate(p) \/ RunsBound(p) \/ GivesUpBinding(p)
       \/ BinderDies(p)
       \/ \E f \in Fingerprints, resume \in BOOLEAN : BindSweepPlan(p, f, resume)
  \/ LoadLedger \/ PreserveBackup \/ WriteTemporary \/ RenameCheckpoint \/ RenameIsNotSynced
  \/ LedgerDies \/ CheckpointBreaks
  \/ \E c \in PlannedCells : PersistState(c)
-----------------------------------------------------------------------------
(* Properties *)

\* What is admitted can run: every name is known and named once, every cell has
\* the provider that serves its model, and the n-th occurrence is the n-th of
\* the product, none twice and none missing (validateMatrixSweepConfig,
\* generateMatrixCells).
AdmittedIsRunnable ==
  plan.on = "matrix" /\ plan.code = "ok" =>
    LET K == Len(plan.skills)
        M == Len(plan.models)
        Occurrence(at) ==
          ((((at[1] - 1) * K + at[2] - 1) * M + at[3] - 1) * LevelCount + at[4] - 1) * RepetitionCount + at[5]
    IN /\ plan.cells # <<>>
       /\ Len(plan.cells) = Cardinality(ToSet(plan.scenarios)) * Cardinality(ToSet(plan.skills))
                              * Cardinality({m.id : m \in ToSet(plan.models)}) * LevelCount * RepetitionCount
       /\ \A n \in DOMAIN plan.cells :
            /\ Occurrence(plan.cells[n].at) = n
            /\ plan.cells[n].provider = ProviderOfModel[plan.models[plan.cells[n].at[3]].id]
       /\ Strange \notin ToSet(plan.scenarios) \cup ToSet(plan.skills)

\* A sweep identity belongs to one plan for ever, also if its lease should fail
\* and two processes bind it at once: all that are bound, or ever ran, have the
\* fingerprint of the file (bindSweepPlan, publishBinding).
OnePlan ==
  plan.on = "bind" =>
    /\ \A p \in PlanProcs : plan.at[p] \in {"unlink", "bound"} => plan.file = plan.wants[p]
    /\ plan.ran \subseteq {plan.file}

\* Whatever dies when, the accounts of a checkpoint, and what the callers were
\* told of it, are in the file; a resumed sweep's validation accepts it unless
\* sanitizing changed the descriptor of a cell it tracks or fractions of a
\* millisecond add up otherwise, and accepts what is in memory all the same
\* (persistState, writeCheckpointSnapshot, validateCheckpointStateContract).
CheckpointIsSound ==
  Ledgering =>
    /\ plan.mem # None => Contract(plan.mem)
    /\ \A state \in {plan.disk, plan.backup} : state # None =>
         /\ Accounts(state) /\ Tracked(state) # {}
         /\ DescribedAsPlanned(state) \/ \E c \in Tracked(state) : plan.described[c] = "sensitive"
    /\ ~plan.broken /\ plan.disk # None => plan.told \subseteq Tracked(plan.disk)
=============================================================================
