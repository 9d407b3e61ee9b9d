------------------------------- MODULE Sandbox -------------------------------
(* infrastructure/container: one container instance with its state machine,    *)
(* the docker subprocess behind every call, and the garbage collection another *)
(* process may run meanwhile.  The daemon is external: a call that the client  *)
(* gives up may have been carried out all the same.                            *)
EXTENDS NoValue, FiniteSets

CONSTANTS Commands

VARIABLE box

Valid ==
  [PENDING    |-> {"CREATING", "ERRORED", "TEARDOWN"},
   CREATING   |-> {"HYDRATING", "READY", "ERRORED", "TEARDOWN"},
   HYDRATING  |-> {"READY", "ERRORED", "TEARDOWN"},
   READY      |-> {"EXECUTING", "EXTRACTING", "TEARDOWN", "ERRORED"},
   EXECUTING  |-> {"READY", "EXTRACTING", "ERRORED", "TEARDOWN"},
   EXTRACTING |-> {"READY", "TEARDOWN", "ERRORED"},
   TEARDOWN   |-> {"TERMINATED", "ERRORED"},
   ERRORED    |-> {"TEARDOWN", "TERMINATED"},
   TERMINATED |-> {}]

CanTransition(b, to) == to \in Valid[b.state]

\* The callers that ask canTransition first.
Towards(b, to) == IF CanTransition(b, to) THEN [b EXCEPT !.state = to] ELSE b

\* Those that do not: transition() throws, and nothing happens.
Becomes(b, to) == b.state = to \/ CanTransition(b, to)

SandboxInit ==
  \E dry \in BOOLEAN :
    box = [state |-> "READY", commands |-> {}, extracting |-> FALSE, processes |-> {},
           container |-> "running", volume |-> TRUE, stale |-> FALSE,
           teardown |-> "no", failed |-> FALSE, containerRemoved |-> FALSE,
           volumeRemoved |-> FALSE,
           gc |-> [phase |-> "off", dry |-> dry, listed |-> FALSE, pruned |-> {}, errors |-> FALSE,
                   before |-> None]]
-----------------------------------------------------------------------------
(* runSubprocess: what the client sees and whether the daemon did it.  A timer *)
(* or an abort kills the client process only; an abort seen before the spawn   *)
(* does nothing.  A success means it was done; removing what is not there is   *)
(* taken for one (removeContainer, removeVolume, killContainer).               *)

Answers == {[ok |-> TRUE, done |-> TRUE], [ok |-> FALSE, done |-> FALSE], [ok |-> FALSE, done |-> TRUE]}

\* The daemon keeps a volume that a container, running or not, still mounts.
RemoveVolumeAnswers(b) ==
  IF b.volume /\ b.container # "gone" THEN {[ok |-> FALSE, done |-> FALSE]} ELSE Answers

Killed(b) == [b EXCEPT !.container = IF @ = "running" THEN "stopped" ELSE @, !.processes = {}]

RemovedIf(b, answer) ==
  IF answer.done THEN [b EXCEPT !.container = "gone", !.processes = {}] ELSE b

VolumeRemovedIf(b, answer) == IF answer.done THEN [b EXCEPT !.volume = FALSE] ELSE b
-----------------------------------------------------------------------------
(* ContainerInstance *)

ExecuteCommand(c) ==
  /\ c \notin box.commands \cup box.processes
  /\ Becomes(box, "EXECUTING")
  /\ box' = [box EXCEPT !.state = "EXECUTING", !.commands = @ \cup {c},
                        !.processes = IF box.container = "running" THEN @ \cup {c} ELSE @]

\* The process ended, or its answer is 124 because the timer killed the client
\* and left the process in the container.
CommandAnswers(c, timedOut) ==
  /\ c \in box.commands
  /\ LET b == [box EXCEPT !.commands = @ \ {c}, !.processes = IF timedOut THEN @ ELSE @ \ {c}]
     IN box' = IF b.state = "EXECUTING" THEN Towards(b, "READY") ELSE b

CommandThrows(c) ==
  /\ c \in box.commands
  /\ box' = Towards([box EXCEPT !.commands = @ \ {c}], "ERRORED")

ExtractGitDiff ==
  /\ ~box.extracting /\ Becomes(box, "EXTRACTING")
  /\ box' = [box EXCEPT !.state = "EXTRACTING", !.extracting = TRUE]

ExtractEnds(throws) ==
  /\ box.extracting
  /\ LET b == [box EXCEPT !.extracting = FALSE]
     IN box' = IF b.state = "EXTRACTING" /\ ~throws THEN Towards(b, "READY") ELSE b

\* teardown(): one attempt at a time; a failed one may be repeated, and repeats
\* only what it has not done.
Teardown ==
  /\ box.state # "TERMINATED" /\ box.teardown = "no"
  /\ box' = [Towards(box, "TEARDOWN") EXCEPT
               !.teardown = IF box.containerRemoved THEN "volume" ELSE "kill", !.failed = FALSE]

TeardownKills ==
  /\ box.teardown = "kill"
  /\ \E answer \in Answers :
       box' = [(IF answer.done THEN Killed(box) ELSE box) EXCEPT !.teardown = "container"]

TeardownRemovesContainer ==
  /\ box.teardown = "container"
  /\ \E answer \in Answers :
       box' = [RemovedIf(box, answer) EXCEPT !.teardown = "volume",
                 !.containerRemoved = answer.ok, !.failed = ~answer.ok]

TeardownRemovesVolume ==
  /\ box.teardown = "volume"
  /\ IF box.volumeRemoved THEN box' = [box EXCEPT !.teardown = "end"]
     ELSE \E answer \in RemoveVolumeAnswers(box) :
            box' = [VolumeRemovedIf(box, answer) EXCEPT !.teardown = "end",
                      !.volumeRemoved = answer.ok, !.failed = @ \/ ~answer.ok]

\* A variant: the failures of the teardown are forgotten.
EndStateAlways(b) == "TERMINATED"

EndState(b) == IF b.failed THEN "ERRORED" ELSE "TERMINATED"

TeardownEnds ==
  /\ box.teardown = "end"
  /\ box' = Towards([box EXCEPT !.teardown = "no"], EndState(box))
-----------------------------------------------------------------------------
(* garbageCollectStaleResources: managed containers by age, then every         *)
(* workspace volume, whoever owns it.  One failure stops nothing but itself.   *)

GrowsStale == ~box.stale /\ box' = [box EXCEPT !.stale = TRUE]

GcLists(fails) ==
  /\ box.gc.phase = "off"
  /\ box' = [box EXCEPT !.gc.phase = "containers", !.gc.errors = fails,
               !.gc.before = [container |-> box.container, volume |-> box.volume],
               !.gc.listed = ~fails /\ box.container # "gone" /\ box.stale]

GcPrunesContainer ==
  /\ box.gc.phase = "containers"
  /\ IF ~box.gc.listed THEN box' = [box EXCEPT !.gc.phase = "volumes"]
     ELSE IF box.gc.dry
       THEN box' = [box EXCEPT !.gc.phase = "volumes", !.gc.pruned = {"container"}]
       ELSE \E answer \in Answers, killed \in {box, Killed(box)} :
              box' = [RemovedIf(killed, answer) EXCEPT !.gc.phase = "volumes",
                        !.gc.pruned = IF answer.ok THEN {"container"} ELSE {},
                        !.gc.errors = @ \/ ~answer.ok]

GcListsNoVolumes ==
  /\ box.gc.phase = "volumes"
  /\ box' = [box EXCEPT !.gc.phase = "done", !.gc.errors = TRUE]

GcPrunesVolume ==
  /\ box.gc.phase = "volumes"
  /\ IF ~box.volume THEN box' = [box EXCEPT !.gc.phase = "done"]
     ELSE IF box.gc.dry
       THEN box' = [box EXCEPT !.gc.phase = "done", !.gc.pruned = @ \cup {"volume"}]
       ELSE \E answer \in RemoveVolumeAnswers(box) :
              box' = [VolumeRemovedIf(box, answer) EXCEPT !.gc.phase = "done",
                        !.gc.pruned = IF answer.ok THEN @ \cup {"volume"} ELSE @,
                        !.gc.errors = @ \/ ~answer.ok]

SandboxNext ==
  \/ \E c \in Commands :
       \/ ExecuteCommand(c) \/ CommandThrows(c)
       \/ \E timedOut \in BOOLEAN : CommandAnswers(c, timedOut)
  \/ ExtractGitDiff \/ \E throws \in BOOLEAN : ExtractEnds(throws)
  \/ Teardown \/ TeardownKills \/ TeardownRemovesContainer \/ TeardownRemovesVolume
  \/ TeardownEnds
  \/ GrowsStale \/ \E fails \in BOOLEAN : GcLists(fails)
  \/ GcPrunesContainer \/ GcListsNoVolumes \/ GcPrunesVolume
-----------------------------------------------------------------------------
(* Properties *)

\* A terminated instance has left nothing behind, whatever commands, aborted
\* calls and repeated teardowns went before (performTeardown).
TerminatedIsClean ==
  box.state = "TERMINATED" =>
    box.container = "gone" /\ ~box.volume /\ box.processes = {}

\* The collection reports only what is gone, takes no container that was young,
\* and touches nothing in a dry run.
GcTellsTruth ==
  /\ ~box.gc.dry /\ "container" \in box.gc.pruned => box.container = "gone" /\ box.stale
  /\ ~box.gc.dry /\ "volume" \in box.gc.pruned => ~box.volume
  /\ "container" \in box.gc.pruned => box.gc.before.container # "gone"

\* A container in teardown never works again: no late answer of a command or an
\* extraction brings it back (executeCommand, extractGitDiff, teardown).
TeardownIsFinal ==
  box.state \in {"TEARDOWN", "TERMINATED"} \/ box.teardown # "no" =>
    box'.state \in {"TEARDOWN", "ERRORED", "TERMINATED"}
=============================================================================
