------------------------------- MODULE Observe -------------------------------
(* What looks at a run, while it goes on and afterwards: the reader of its     *)
(* provider's stream, the tunnel to its terminal, the live canvas, the         *)
(* telemetry hub, the profiler, the replay of its evidence and the analysis of *)
(* its trajectory.  They share no state; a behaviour is one of them at work,   *)
(* the others being off.                                                       *)
EXTENDS Tunnel, Canvas, Broadcast, Replay, Telemetry, Trajectory, ProviderStream

CONSTANT Off

vars == <<tunnel, canvas, hub, replay, probe, trail, wire>>

Init ==
  \/ /\ TunnelInit
     /\ canvas = Off /\ hub = Off /\ replay = Off /\ probe = Off /\ trail = Off
     /\ wire = Off
  \/ /\ CanvasInit
     /\ tunnel = Off /\ hub = Off /\ replay = Off /\ probe = Off /\ trail = Off
     /\ wire = Off
  \/ /\ BroadcastInit
     /\ tunnel = Off /\ canvas = Off /\ replay = Off /\ probe = Off /\ trail = Off
     /\ wire = Off
  \/ /\ ReplayInit
     /\ tunnel = Off /\ canvas = Off /\ hub = Off /\ probe = Off /\ trail = Off
     /\ wire = Off
  \/ /\ TelemetryInit
     /\ tunnel = Off /\ canvas = Off /\ hub = Off /\ replay = Off /\ trail = Off
     /\ wire = Off
  \/ /\ TrajectoryInit
     /\ tunnel = Off /\ canvas = Off /\ hub = Off /\ replay = Off /\ probe = Off
     /\ wire = Off
  \/ /\ WireInit
     /\ tunnel = Off /\ canvas = Off /\ hub = Off /\ replay = Off /\ probe = Off
     /\ trail = Off

Next ==
  \/ /\ tunnel # Off /\ TunnelNext
     /\ UNCHANGED <<canvas, hub, replay, probe, trail, wire>>
  \/ /\ canvas # Off /\ CanvasNext
     /\ UNCHANGED <<tunnel, hub, replay, probe, trail, wire>>
  \/ /\ hub # Off /\ BroadcastNext
     /\ UNCHANGED <<tunnel, canvas, replay, probe, trail, wire>>
  \/ /\ replay # Off /\ ReplayNext
     /\ UNCHANGED <<tunnel, canvas, hub, probe, trail, wire>>
  \/ /\ probe # Off /\ TelemetryNext
     /\ UNCHANGED <<tunnel, canvas, hub, replay, trail, wire>>
  \/ /\ trail # Off /\ TrajectoryNext
     /\ UNCHANGED <<tunnel, canvas, hub, replay, probe, wire>>
  \/ /\ wire # Off /\ WireNext
     /\ UNCHANGED <<tunnel, canvas, hub, replay, probe, trail>>

Spec == Init /\ [][Next]_vars
-----------------------------------------------------------------------------
(* Properties: those of the parts, each where the part is at work.             *)

\* Every viewer sees the tail of the session's output in order, the screen of a
\* canvas follows its grid, the hub keeps no channel without a member, and the
\* turn of a stream holds all its lines and tells its tokens (pushOutput,
\* CanvasStreamer.snapshot, TelemetryBroadcaster, generateStream).
ViewersFollow ==
  /\ tunnel # Off => TunnelKeepsOutput
  /\ canvas # Off => ScreenFollows
  /\ hub # Off => NoEmptyChannel
  /\ wire # Off => StreamIsWhole /\ LeaseTellsUsage

\* A session that has ended says nothing more, a frame shows the grid of its
\* moment, and the hub's messages reach a subscriber in the order of their
\* numbers (terminate, computeDelta, broadcast).
StreamsKeepOrder ==
  [][/\ tunnel # Off => EndedIsSilent
     /\ canvas # Off => FrameShowsGrid
     /\ hub # Off => HubKeepsOrder]_vars

\* A replay shows only what events, manifest and result agree on, an export is
\* the whole session or nothing, and the player stays within it
\* (loadReplaySession, writeReplayExportAtomic, TuiReplayPlayer).
ReplayIsTrue ==
  replay # Off => ReplayIsEvidence /\ ExportIsWhole /\ PlayerStaysInSession

\* The summary of the samples stays within what was sampled, diagnostics keep
\* the error they are for, and the scans of a trajectory and its diagnosis are
\* what they are defined to be (computeMetricsSummary, captureDiagnostics,
\* detectAnomalies, classifyFailure).
FindingsHold ==
  /\ probe # Off => SummaryIsBounded /\ DiagnosticsKeepError
  /\ trail # Off => ScansMeetDefinition /\ DiagnosisFits
=============================================================================
