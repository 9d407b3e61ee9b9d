-------------------------------- MODULE Chaos --------------------------------
(* chaos/: an experiment injects the faults of a schedule into the container   *)
(* of a scenario, on timers and on the runner's notifications, while earlier   *)
(* faults end on timers of their own; at the end all are rolled back.  A fault *)
(* is of the network's queue discipline or of its blocking rules, which all    *)
(* such faults share, a file, or processes of which a pid file names the last. *)
(* A killed process and a dropped page cache, which no command brings back,    *)
(* are left out.                                                               *)
EXTENDS Integers, FiniteSets, FiniteSetsExt

CONSTANTS Faults,        \* the items of a schedule, each with one fault
          Schedules,     \* what kind of fault each is, and what triggers it
          MaxConcurrent,
          MaxTriggers   \* bound: triggers of one item

VARIABLE chaos

Kinds == {"net", "block", "file", "process", "cores"}

ASSUME ChaosAssumption ==
  /\ Schedules \subseteq [Faults -> [kind : Kinds, trigger : {"time", "call"}]]
  /\ MaxConcurrent \in Nat

\* A fault is restored by a timer of its own or in the course of restoreAll.
Restorers == Faults \X {"timer", "all"}

Idle == [stage |-> "no", read |-> 0]

ChaosInit ==
  \E s \in Schedules, autoRollbackOnExit, abortOnCatastrophicFailure \in BOOLEAN :
    chaos = [kind |-> [f \in Faults |-> s[f].kind],
             trigger |-> [f \in Faults |-> s[f].trigger], rollback |-> autoRollbackOnExit,
             abort |-> abortOnCatastrophicFailure, phase |-> "running",
             timers |-> {f \in Faults : s[f].trigger = "time"},
             triggered |-> [f \in Faults |-> 0], count |-> 0, violations |-> 0,
             inject |-> [f \in Faults |-> "no"], number |-> [f \in Faults |-> 0],
             record |-> [f \in Faults |-> "none"], own |-> [f \in Faults |-> 0],
             pid |-> [f \in Faults |-> 0], expiring |-> {},
             restore |-> [r \in Restorers |-> Idle],
             effects |-> {}, todo |-> {}, late |-> {}, missed |-> {}]

Running == chaos.phase = "running"
-----------------------------------------------------------------------------
(* executeExperiment: triggerFault.  activeFaults only grows, so it counts the *)
(* faults ever injected, and its length numbers the injections.                *)

Triggered(c, f) ==
  IF c.count >= MaxConcurrent THEN [c EXCEPT !.violations = 1]
  ELSE [c EXCEPT !.count = @ + 1, !.inject[f] = "commands", !.number[f] = c.count + 1]

\* A schedule timer fires once; nobody waits for what it triggers.
TimeElapsed(f) ==
  /\ f \in chaos.timers
  /\ chaos' = Triggered([chaos EXCEPT !.timers = @ \ {f}], f)

\* notifyTurnStart, notifyTurnEnd, notifyBeforeToolCall, notifyAfterToolCall:
\* the runner waits for the injection, and may notify again.
Notify(f) ==
  /\ Running /\ chaos.trigger[f] = "call" /\ chaos.triggered[f] < MaxTriggers
  /\ \A g \in Faults : chaos.trigger[g] = "call" => chaos.inject[g] = "no"
  /\ chaos' = Triggered([chaos EXCEPT !.triggered[f] = @ + 1], f)
-----------------------------------------------------------------------------
(* ContainerFaultInjector.  An effect is a fault, the number of its injection, *)
(* and whether it is what the pid file names or another core's loop.           *)

SameKind(c, f) == {e \in c.effects : c.kind[e[1]] = c.kind[f]}

HasPidFile(c, f) == c.kind[f] \in {"process", "cores"}

Cleared(c, f) == IF c.kind[f] = "net" THEN [c EXCEPT !.effects = @ \ SameKind(c, f)] ELSE c

\* The commands of a discipline clear the one before; a pid file is written over.
Applied(c, f) ==
  LET n == c.number[f]
  IN [Cleared(c, f) EXCEPT
        !.effects = @ \cup {<<f, n, "last">>}
                      \cup (IF c.kind[f] = "cores" THEN {<<f, n, "others">>} ELSE {}),
        !.pid[f] = IF HasPidFile(c, f) THEN n ELSE 0]

CleanedUp(c, f) ==
  [c EXCEPT
     !.effects = IF c.kind[f] \in {"net", "block"} THEN @ \ SameKind(c, f)
                 ELSE IF HasPidFile(c, f) THEN @ \ {<<f, c.pid[f], "last">>}
                 ELSE {e \in @ : e[1] # f},
     !.pid[f] = 0]

\* A command that fails may have had its effect, and one that has had none may
\* report a success, most being run with "|| true".
RunInjectionCommands(f) ==
  /\ chaos.inject[f] = "commands"
  /\ \E ok \in BOOLEAN, after \in {chaos, Cleared(chaos, f), Applied(chaos, f)} :
       chaos' = [after EXCEPT !.inject[f] = IF ok THEN "active" ELSE "failed"]

\* The record replaces an earlier one of the same fault, whose timer is neither
\* cleared nor known any more; a fault that failed, or is to last, has none.
Injected(f) ==
  /\ chaos.inject[f] \in {"active", "failed"}
  /\ \E lasting \in BOOLEAN :
       chaos' = [chaos EXCEPT
         !.inject[f] = "no", !.record[f] = chaos.inject[f], !.own[f] = chaos.number[f],
         !.expiring = IF chaos.inject[f] = "active" /\ ~lasting
                        THEN @ \cup {<<f, chaos.number[f]>>} ELSE @]

\* restore: the record is read, and its timer cleared, even by an older timer.
RestoreBegun(c, r) ==
  LET f == r[1]
  IN IF c.record[f] = "none" THEN c
     ELSE [c EXCEPT !.restore[r] = [stage |-> "commands", read |-> c.own[f]],
                    !.expiring = @ \ {<<f, c.own[f]>>}]

FaultExpires(f) ==
  /\ chaos.restore[<<f, "timer">>] = Idle
  /\ \E t \in chaos.expiring :
       /\ t[1] = f
       /\ chaos' = RestoreBegun([chaos EXCEPT !.expiring = @ \ {t}], <<f, "timer">>)

\* The outcome of the cleanup is not looked at.
RunCleanupCommands(r) ==
  /\ chaos.restore[r].stage = "commands"
  /\ \/ chaos' = [CleanedUp(chaos, r[1]) EXCEPT !.restore[r].stage = "done"]
     \/ chaos' = [chaos EXCEPT !.restore[r].stage = "done",
                               !.missed = IF r[2] = "all" THEN @ \cup {r[1]} ELSE @]

\* The record that was read is written back, over one of an injection since.
Restored(r) ==
  /\ chaos.restore[r].stage = "done"
  /\ chaos' = [chaos EXCEPT !.restore[r] = Idle, !.record[r[1]] = "restored",
                            !.own[r[1]] = chaos.restore[r].read]
-----------------------------------------------------------------------------
(* The end of the experiment *)

ToRestoreActive(c) == {f \in Faults : c.record[f] = "active"}

\* restoreAll takes the faults that have a record, whatever it says.
ToRestore(c) == {f \in Faults : c.record[f] # "none"}

\* finally: the schedule's timers are cleared, but the injections they have
\* begun are not awaited.
Finally(c) ==
  [c EXCEPT !.timers = {}, !.late = {f \in Faults : c.inject[f] # "no"}, !.missed = {},
            !.phase = IF c.rollback THEN "restoring" ELSE "ended",
            !.todo = IF c.rollback THEN ToRestore(c) ELSE {}]

\* The runner returns or throws; it has waited for the injections it asked for.
\* After a throw everything may be restored a first time, the timers still set.
ScenarioEnds ==
  /\ Running
  /\ \A f \in Faults : chaos.trigger[f] = "call" => chaos.inject[f] = "no"
  /\ \/ chaos' = Finally(chaos)
     \/ /\ chaos.abort
        /\ chaos' = [chaos EXCEPT !.phase = "aborting", !.todo = ToRestore(chaos)]

\* restoreAll: one fault after the other.
RestoreNext(f) ==
  /\ chaos.phase \in {"aborting", "restoring"} /\ f \in chaos.todo
  /\ \A g \in Faults : chaos.restore[<<g, "all">>] = Idle
  /\ chaos' = RestoreBegun([chaos EXCEPT !.todo = @ \ {f}], <<f, "all">>)

AllRestored ==
  /\ chaos.phase \in {"aborting", "restoring"} /\ chaos.todo = {}
  /\ \A g \in Faults : chaos.restore[<<g, "all">>] = Idle
  /\ chaos' = IF chaos.phase = "aborting" THEN Finally(chaos)
              ELSE [chaos EXCEPT !.phase = "ended"]

ChaosNext ==
  \/ ScenarioEnds \/ AllRestored
  \/ \E f \in Faults :
       \/ TimeElapsed(f) \/ Notify(f) \/ RunInjectionCommands(f) \/ Injected(f)
       \/ FaultExpires(f) \/ RestoreNext(f)
  \/ \E r \in Restorers : RunCleanupCommands(r) \/ Restored(r)
-----------------------------------------------------------------------------
(* Properties *)

\* What rolling back leaves in the container is accounted for: it is of a fault
\* that a timer was still injecting when the scenario ended, or whose cleanup
\* failed, or it is a process no pid file names, of an earlier injection or of
\* another core.  And never more faults were injected than may act at once
\* (executeExperiment, restoreAll, restore).
RollbackIsComplete ==
  /\ chaos.phase = "ended" /\ chaos.rollback =>
       /\ \A e \in chaos.effects :
            \/ e[1] \in chaos.late \cup chaos.missed
            \/ HasPidFile(chaos, e[1]) /\ (e[2] < chaos.number[e[1]] \/ e[3] = "others")
       /\ {f \in Faults : chaos.record[f] = "active"} \subseteq chaos.late
  /\ Cardinality({e[2] : e \in chaos.effects}) <= MaxConcurrent

\* What acts on the container is known: it is being injected, or has a record by
\* which it can be rolled back (inject, restore).
EffectsAreRecorded ==
  \A e \in chaos.effects : chaos.inject[e[1]] # "no" \/ chaos.record[e[1]] # "none"
=============================================================================
