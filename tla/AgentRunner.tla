---------------------------- MODULE AgentRunner ----------------------------
(***************************************************************************)
(* One scenario run of the agent loop (runner/runner-engine.ts,            *)
(* turn-provider-execution.ts, tool-dispatcher.ts, tool-handlers.ts,       *)
(* local-command-execution.ts, context-manager.ts) under the nested        *)
(* cancellation scopes of shared/cancellation.ts.                          *)
(*                                                                         *)
(* A turn asks the provider for an answer, runs the tools it calls one     *)
(* after the other and records both.  The code between two awaits runs to  *)
(* the end: an action goes from one await (of the provider, of a command,  *)
(* of the scribe's close) to the next.  Waits are raced against the signal *)
(* of the innermost scope: when the signal wins, the operation is left     *)
(* behind and goes on by itself (operations).                              *)
(***************************************************************************)
EXTENDS EventScribe

CONSTANTS
    MaxTurns,           \* limits.maxTurns
    MaxCost,            \* limits.maxCostUSD, in units of cost
    MaxToolFailures,    \* limits.maxConsecutiveToolFailures
    StopOnToolFailures, \* limits.stopOnToolFailures
    MaxCalls,           \* bound: tool calls in one answer
    TurnCosts           \* what one answer may cost

ASSUME RunnerAssumption ==
    /\ {MaxTurns, MaxCost, MaxToolFailures, MaxCalls} \subseteq Nat
    /\ StopOnToolFailures \in BOOLEAN
    /\ TurnCosts \subseteq Nat

VARIABLES
    aborted,    \* the caller's signal (the sweep's)
    scopes,     \* why each open scope's signal is aborted: "none" if it is not
    run,        \* the local variables of runWithinScenario
    operations, \* tool calls left behind while they were running
    local       \* TRUE: tools run on the host; FALSE: in a container

runnerVars == <<aborted, scopes, run, operations, local>>

Causes == {"none", "abort", "timeout"}
NoCauses == [scenario |-> "none", turn |-> "none"]

NoTurn == [spent |-> 0, calls |-> 0, answered |-> 0, bad |-> 0]

NoRun == [at |-> "idle", turn |-> 0, cost |-> 0, recorded |-> 0, failures |-> 0,
          reason |-> "success", final |-> FALSE, now |-> NoTurn]

RunnerInit ==
    /\ ScribeInit
    /\ aborted = FALSE
    /\ scopes = NoCauses
    /\ run = NoRun
    /\ operations = {}
    /\ local \in BOOLEAN

(***************************************************************************)
(* Cancellation scopes.  An abort runs down the listeners at once, and a   *)
(* scope keeps its first cause; throwIfAborted reports the caller's cause  *)
(* before its own.                                                         *)
(***************************************************************************)
First(cause, new) == IF cause = "none" THEN new ELSE cause

(* A variant: the scope of the turn does not listen to the scenario's. *)
CancelledAlone(new) == [scopes EXCEPT !.scenario = First(@, new)]

Cancelled(new) ==
    [scenario |-> First(scopes.scenario, new),
     turn     |-> First(scopes.turn, First(scopes.scenario, new))]

(* classifyTurnFailure *)
ReasonOf(cause) == IF cause = "abort" THEN "aborted" ELSE "timeout"

InTurn == run.at \in {"provider", "command"}

CallerAborts ==
    /\ ~aborted
    /\ aborted' = TRUE
    /\ scopes' = IF run.at = "idle" THEN scopes ELSE Cancelled("abort")
    /\ UNCHANGED <<run, operations, local, scribeVars>>

ScenarioTimesOut ==
    /\ run.at # "idle"
    /\ scopes.scenario = "none"
    /\ scopes' = Cancelled("timeout")
    /\ UNCHANGED <<aborted, run, operations, local, scribeVars>>

TurnTimesOut ==
    /\ InTurn
    /\ scopes.turn = "none"
    /\ scopes' = [scopes EXCEPT !.turn = "timeout"]
    /\ UNCHANGED <<aborted, run, operations, local, scribeVars>>

(***************************************************************************)
(* The loop head: the turn limit, the scenario's signal, the budget and    *)
(* the run of failed turns, in this order; then a turn, in a scope of its  *)
(* own, or the end of the run.  An answer without text on the last turn is *)
(* reported as max_turns.                                                  *)
(***************************************************************************)
(* A variant: the budget is exceeded only when it is overrun. *)
PastBudget(r) == r.cost > MaxCost

OverBudget(r) == r.cost >= MaxCost

LoopExit(r, cause) ==
    IF r.turn >= MaxTurns THEN r.reason
    ELSE IF cause # "none" THEN ReasonOf(cause)
    ELSE IF OverBudget(r) THEN "budget_exceeded"
    ELSE IF r.failures >= MaxToolFailures THEN "tool_error_loop"
    ELSE "none"

Finished(r, reason) ==
    [r EXCEPT !.at = "close",
              !.reason = IF r.turn >= MaxTurns /\ reason = "success" /\ ~r.final
                         THEN "max_turns" ELSE reason]

LoopHead(r, cause) ==
    IF LoopExit(r, cause) # "none" THEN Finished(r, LoopExit(r, cause))
    ELSE [r EXCEPT !.at = "provider", !.now = NoTurn]

(* turn:start or run:finish *)
HeadEvent(r, cause) == IF LoopExit(r, cause) = "none" THEN "step" ELSE "run:finish"

StartRun(k) ==
    LET cause == IF aborted THEN "abort" ELSE "none"
    IN  /\ run.at = "idle"
        /\ scopes' = [scenario |-> cause, turn |-> cause]
        /\ run' = LoopHead(NoRun, cause)
        /\ scribe' = EmitAll(Open(k), <<"run:start", HeadEvent(NoRun, cause)>>)
        /\ UNCHANGED <<aborted, operations, local, log, faults>>

(***************************************************************************)
(* The end of a turn: its telemetry, then the next turn unless the answer  *)
(* called no tool or a failed tool ends the run.                           *)
(***************************************************************************)
Recorded(r) ==
    [r EXCEPT !.recorded = @ + r.now.spent,
              !.turn = @ + 1,
              !.failures = IF r.now.calls = 0 THEN @
                           ELSE IF r.now.bad = r.now.calls THEN @ + 1 ELSE 0]

StopsAtFailure(r) == StopOnToolFailures /\ r.now.bad > 0

EndTurn(r, events) ==
    LET next == Recorded(r)
        reason == IF StopsAtFailure(r) THEN "tool_error_loop"
                  ELSE IF r.now.calls = 0 THEN "success"
                  ELSE LoopExit(next, scopes.scenario)
    IN  /\ run' = IF reason = "none" THEN LoopHead(next, "none") ELSE Finished(next, reason)
        /\ scopes' = IF reason = "none" THEN [scopes EXCEPT !.turn = "none"] ELSE scopes
        /\ scribe' = EmitAll(scribe, events \o
                             <<"step", IF reason = "none" THEN "step" ELSE "run:finish">>)

(* The catch of the turn: any error ends the loop. *)
FailTurn(reason) ==
    /\ run' = Finished(run, reason)
    /\ scribe' = EmitAll(scribe, <<"step", "run:finish">>)

(***************************************************************************)
(* The provider.  An answer that wins the race is paid for; its tools are  *)
(* dispatched one by one.                                                  *)
(***************************************************************************)
ProviderAnswers ==
    /\ run.at = "provider"
    /\ scopes.turn = "none"
    /\ \E n \in 0 .. MaxCalls, c \in TurnCosts, text \in BOOLEAN :
          LET paid == [run EXCEPT !.cost = @ + c, !.now = [@ EXCEPT !.spent = c, !.calls = n]]
          IN  IF n = 0
              THEN EndTurn([paid EXCEPT !.final = text], <<>>)
              ELSE /\ ~text
                   /\ run' = [paid EXCEPT !.at = "command"]
                   /\ scribe' = Emit(scribe, "step")
                   /\ UNCHANGED scopes
    /\ UNCHANGED <<aborted, operations, local, log, faults>>

(* The provider failed, or the signal won and its answer is lost. *)
ProviderFails ==
    /\ run.at = "provider"
    /\ \/ scopes.turn = "none" /\ \E reason \in {"timeout", "error"} : FailTurn(reason)
       \/ scopes.turn # "none" /\ FailTurn(ReasonOf(scopes.turn))
    /\ UNCHANGED <<aborted, scopes, operations, local, log, faults>>

(* A rate limit leaves run by an exception: no run:finish, no result. *)
RateLimited ==
    /\ run.at = "provider"
    /\ scopes.turn = "none"
    /\ run' = [run EXCEPT !.at = "close", !.reason = "thrown"]
    /\ scribe' = Emit(scribe, "step")
    /\ UNCHANGED <<aborted, scopes, operations, local, log, faults>>

(***************************************************************************)
(* Tool calls.  Every outcome, an exception of the handler and a timeout   *)
(* of the tool's own scope included, is a result in the conversation; only *)
(* a cancellation from above leaves the call without one.  A command whose *)
(* wait is over goes on: it is killed on the host, and runs to its own     *)
(* deadline in a container.                                                *)
(***************************************************************************)
Call == [turn |-> run.turn, n |-> run.now.answered + 1]

Answered(failed) ==
    LET now == [run.now EXCEPT !.answered = @ + 1, !.bad = IF failed THEN @ + 1 ELSE @]
        r == [run EXCEPT !.now = now]
    IN  IF r.now.answered = r.now.calls
        THEN EndTurn(r, <<"step">>)
        ELSE /\ run' = r
             /\ scribe' = EmitAll(scribe, <<"step", "step">>)
             /\ UNCHANGED scopes

ToolEnds ==
    /\ run.at = "command"
    /\ scopes.turn = "none"
    /\ \E failed \in BOOLEAN : Answered(failed)
    /\ UNCHANGED <<aborted, operations, local, log, faults>>

ToolTimesOut ==
    /\ run.at = "command"
    /\ scopes.turn = "none"
    /\ Answered(TRUE)
    /\ operations' = operations \union {Call}
    /\ UNCHANGED <<aborted, local, log, faults>>

ToolCancelled ==
    /\ run.at = "command"
    /\ scopes.turn # "none"
    /\ FailTurn(ReasonOf(scopes.turn))
    /\ operations' = operations \union {Call}
    /\ UNCHANGED <<aborted, scopes, local, log, faults>>

OperationEnds ==
    /\ \E o \in operations : operations' = operations \ {o}
    /\ UNCHANGED <<aborted, scopes, run, local, scribeVars>>

(* A variant: a failure of the close is swallowed. *)
(* The finally of run: a result, unless the run or the close threw. *)
ReturnsResult == run.reason # "thrown" /\ CloseWrites

Throws ==
    \/ run.reason = "thrown" /\ CloseWrites
    \/ CloseThrows

RunnerStep ==
    \/ CallerAborts \/ ScenarioTimesOut \/ TurnTimesOut
    \/ ProviderAnswers \/ ProviderFails \/ RateLimited
    \/ ToolEnds \/ ToolTimesOut \/ ToolCancelled \/ OperationEnds
    \/ Flush /\ UNCHANGED runnerVars
=============================================================================
