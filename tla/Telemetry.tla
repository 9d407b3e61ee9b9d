------------------------------ MODULE Telemetry ------------------------------
(* infrastructure/telemetry: the resource profiler, whose polls overlap, the   *)
(* summary of its samples, the classification of errors and the capture of     *)
(* diagnostics.  The container's counters only grow, except when it restarts;  *)
(* one counter stands for each of cpu time, disk and network, and one gauge    *)
(* for memory and processes.                                                   *)
EXTENDS NoValue, Integers, Sequences, FiniteSets, FiniteSetsExt

CONSTANTS MaxPolls, MaxCount, Gauges

ASSUME TelemetryAssumption == MaxCount \in Nat \ {0} /\ Gauges \subseteq Nat

VARIABLE probe

-----------------------------------------------------------------------------
(* Errors: the taxonomy's classes, and the order in which classifyError tries  *)
(* the patterns on the message of an error it does not know.                   *)

CategoryOf ==
  [ERR_DOCKER_DAEMON_UNAVAILABLE |-> "INFRASTRUCTURE_FAULT",
   ERR_IMAGE_PULL_FAILED         |-> "INFRASTRUCTURE_FAULT",
   ERR_VOLUME_CREATION_FAILED    |-> "INFRASTRUCTURE_FAULT",
   ERR_CONTAINER_BOOT_TIMEOUT    |-> "INFRASTRUCTURE_FAULT",
   ERR_OOM_KILLED                |-> "INFRASTRUCTURE_FAULT",
   ERR_COMMAND_TIMEOUT           |-> "EXECUTION_TIMEOUT",
   ERR_TURN_TIMEOUT              |-> "EXECUTION_TIMEOUT",
   ERR_SCENARIO_TIMEOUT          |-> "EXECUTION_TIMEOUT",
   ERR_INVALID_TOOL_PAYLOAD      |-> "AGENT_TOOL_ERROR",
   ERR_COMMAND_NON_ZERO_EXIT     |-> "AGENT_TOOL_ERROR",
   ERR_OUTPUT_LIMIT_EXCEEDED     |-> "AGENT_TOOL_ERROR",
   ERR_DIFF_EXTRACTION_FAILED    |-> "STATE_INTEGRITY_ERROR",
   ERR_BASELINE_TAMPERING        |-> "STATE_INTEGRITY_ERROR"]

Patterns ==
  <<"ERR_OOM_KILLED", "ERR_DOCKER_DAEMON_UNAVAILABLE", "ERR_IMAGE_PULL_FAILED",
    "ERR_VOLUME_CREATION_FAILED", "ERR_COMMAND_TIMEOUT", "ERR_TURN_TIMEOUT",
    "ERR_SCENARIO_TIMEOUT", "ERR_OUTPUT_LIMIT_EXCEEDED", "ERR_INVALID_TOOL_PAYLOAD",
    "ERR_BASELINE_TAMPERING", "ERR_DIFF_EXTRACTION_FAILED">>

\* An error is [code] when it is one of ours; else the patterns its message
\* matches and whether it carries exit code 137.
Foreign(matches, oom) == [code |-> None, matches |-> matches, oom |-> oom]

Known(code) == [code |-> code, matches |-> {}, oom |-> FALSE]

ClassifyError(error) ==
  IF error.code # None THEN error.code
  ELSE IF error.oom \/ "ERR_OOM_KILLED" \in error.matches THEN "ERR_OOM_KILLED"
  ELSE IF error.matches = {} THEN "ERR_DOCKER_DAEMON_UNAVAILABLE"
  ELSE Patterns[Min({i \in DOMAIN Patterns : Patterns[i] \in error.matches})]

Errors ==
  {Known(code) : code \in DOMAIN CategoryOf}
    \cup {Foreign(m, oom) : m \in {{}} \cup kSubset(1, {Patterns[i] : i \in DOMAIN Patterns})
                                       \cup kSubset(2, {Patterns[i] : i \in DOMAIN Patterns}),
                            oom \in BOOLEAN}
-----------------------------------------------------------------------------
(* Samples and their summary *)

Sample(reading, previous) ==
  [counter |-> reading.counter, gauge |-> reading.gauge,
   \* parseDockerStats: no load if the counter went backwards.
   load    |-> IF reading.counter >= previous THEN reading.counter - previous ELSE 0]

\* computeMetricsSummary: cpu time from the first to the last sample, disk and
\* network from the least to the largest, one sample for itself.
ComputeMetricsSummary(samples) ==
  LET counters == {samples[i].counter : i \in DOMAIN samples}
      single == Len(samples) = 1
      grown == samples[Len(samples)].counter - samples[1].counter
  IN IF samples = <<>> THEN [cpuTime |-> 0, io |-> 0, peakGauge |-> 0, finalGauge |-> 0, peakLoad |-> 0]
     ELSE [cpuTime    |-> IF single THEN samples[1].counter ELSE IF grown > 0 THEN grown ELSE 0,
           io         |-> IF single THEN samples[1].counter ELSE Max(counters) - Min(counters),
           peakGauge  |-> Max({samples[i].gauge : i \in DOMAIN samples}),
           finalGauge |-> samples[Len(samples)].gauge,
           peakLoad   |-> Max({samples[i].load : i \in DOMAIN samples})]
-----------------------------------------------------------------------------
(* ResourceProfiler: start() polls at once and on every interval; a poll       *)
(* reads, then records whenever it is answered.                                *)

TelemetryInit ==
  \/ \E error \in Errors :
       probe = [mode |-> "diagnose", error |-> error, parts |-> [p \in {"inspect", "dmesg", "logs"} |-> "asked"],
                file |-> "none", record |-> None]
  \/ probe = [mode |-> "profile", running |-> FALSE, timer |-> FALSE, counter |-> 1, lastCpu |-> 0,
              pending |-> <<>>, polls |-> 0, samples |-> <<>>, late |-> 0, restarted |-> FALSE]

Profiling == probe.mode = "profile"

CounterGrows ==
  /\ Profiling /\ probe.counter < MaxCount
  /\ probe' = [probe EXCEPT !.counter = @ + 1]

ContainerRestarts ==
  /\ Profiling /\ ~probe.restarted
  /\ probe' = [probe EXCEPT !.counter = 0, !.restarted = TRUE]

Polled(p, gauge) ==
  [p EXCEPT !.pending = Append(@, [counter |-> p.counter, gauge |-> gauge]), !.polls = @ + 1]

StartProfiler ==
  /\ Profiling /\ ~probe.running /\ probe.polls < MaxPolls
  /\ \E gauge \in Gauges :
       probe' = Polled([probe EXCEPT !.running = TRUE, !.timer = TRUE], gauge)

PollTimer ==
  /\ Profiling /\ probe.timer /\ probe.polls < MaxPolls
  /\ \E gauge \in Gauges : probe' = Polled(probe, gauge)

StopKeepsTimer(p) == [p EXCEPT !.running = FALSE, !.late = Len(p.pending)]

\* late: the answers that may still come in after stop().
Stopped(p) == [p EXCEPT !.running = FALSE, !.timer = FALSE, !.late = Len(p.pending)]

StopProfiler ==
  /\ Profiling /\ probe.running
  /\ probe' = Stopped(probe)

\* Answers come in any order, some fail or are empty; none asks whether the
\* profiler still runs.
PollAnswers ==
  /\ Profiling
  /\ \E i \in DOMAIN probe.pending, answered \in BOOLEAN :
       LET reading == probe.pending[i]
           rest == [probe EXCEPT !.pending = SubSeq(@, 1, i - 1) \o SubSeq(@, i + 1, Len(@)),
                                 !.late = IF probe.running THEN @ ELSE @ - 1]
       IN probe' = IF ~answered THEN rest
                   ELSE [rest EXCEPT !.samples = Append(@, Sample(reading, probe.lastCpu)),
                                     !.lastCpu = reading.counter]

ClearSamples ==
  /\ Profiling /\ probe.samples # <<>>
  /\ probe' = [probe EXCEPT !.samples = <<>>, !.lastCpu = 0]
-----------------------------------------------------------------------------
(* captureDiagnostics: each source is asked in turn and stands for itself; the *)
(* record names the error as classified, and is written if it can be.          *)

AskSource ==
  /\ ~Profiling
  /\ \E p \in DOMAIN probe.parts, answer \in {"given", "failed", "absent"} :
       /\ probe.parts[p] = "asked"
       /\ probe' = [probe EXCEPT !.parts[p] = answer]

WriteDiagnostics ==
  /\ ~Profiling /\ probe.record = None
  /\ \A p \in DOMAIN probe.parts : probe.parts[p] # "asked"
  /\ \E file \in {"written", "none"} :
       probe' = [probe EXCEPT !.file = file,
                   !.record = [code |-> ClassifyError(probe.error),
                               category |-> CategoryOf[ClassifyError(probe.error)],
                               parts |-> probe.parts]]

TelemetryNext ==
  \/ CounterGrows \/ ContainerRestarts \/ StartProfiler \/ PollTimer \/ StopProfiler
  \/ PollAnswers \/ ClearSamples \/ AskSource \/ WriteDiagnostics
-----------------------------------------------------------------------------
(* Properties *)

\* The summary never claims more than the counter reached nor less than its
\* extremes, in whatever order overlapping polls were answered; and a stopped
\* profiler takes only the answers it was owed (pollOnce, computeMetricsSummary).
SummaryIsBounded ==
  Profiling =>
    LET s == ComputeMetricsSummary(probe.samples)
    IN /\ s.cpuTime <= s.io /\ s.io <= MaxCount
       /\ s.finalGauge <= s.peakGauge
       /\ s.peakLoad <= MaxCount
       /\ ~probe.running => probe.late = Len(probe.pending)

\* However many sources fail, the record carries the error: known ones as they
\* are, and memory kills before any other reading (captureDiagnostics).
DiagnosticsKeepError ==
  ~Profiling /\ probe.record # None =>
    /\ probe.error.code # None => probe.record.code = probe.error.code
    /\ probe.error.oom => probe.record.code = "ERR_OOM_KILLED"
    /\ \A p \in DOMAIN probe.parts : probe.record.parts[p] # "asked"
    /\ probe.record.category = "EXECUTION_TIMEOUT" /\ probe.error.code = None =>
         probe.error.matches \cap {"ERR_OOM_KILLED", "ERR_DOCKER_DAEMON_UNAVAILABLE"} = {}
=============================================================================
