------------------------------- MODULE Replay -------------------------------
(***************************************************************************)
(* The replay of a finished run (src/replay, the replay command and the    *)
(* verified artifact reads): persisted events, manifest and result are     *)
(* read and checked against each other, projected into a session of        *)
(* frames, exported atomically to a file, re-imported from that file, or   *)
(* stepped through in a player.  Another process may touch the directory   *)
(* while the command runs, and the command may die at any step.            *)
(*                                                                         *)
(* A fact an artifact states is a key with one of two values; a log is a   *)
(* sequence of typed events.  A file's content is one of "input", "old"    *)
(* (what was there before), "partial" and "session", the serialised form   *)
(* of the session the command loaded.                                      *)
(***************************************************************************)
EXTENDS NoValue, Integers, Sequences, FiniteSets, Functions

CONSTANTS MiddleTypes,   \* the event types a log may have between its ends
          Frames         \* the lengths of the session a player is opened on

VARIABLE replay

---------------------------------------------------------------------------
\* Events and what they say.

StatusOf(reason) ==
  CASE reason = "success" -> "completed"
    [] reason = "timeout" -> "timed_out"
    [] reason = "aborted" -> "aborted"
    [] OTHER -> "failed"

FrameOf(type) ==
  CASE type = "run:start" -> "session_start"
    [] type = "run:finish" -> "session_end"
    [] type = "turn:start" -> "turn_start"
    [] type = "turn:error" -> "error"
    [] type = "tool:dispatch" -> "tool_call"
    [] type = "tool:finish" -> "tool_result"
    [] type = "TOOL_CALL_STARTED" -> "command_start"
    [] type = "RESOURCE_SAMPLE" -> "resource_sample"
    [] type = "GIT_DIFF_CAPTURED" -> "git_diff"
    [] OTHER -> "generic"

IsDispatch(event) == event.type \in {"tool:dispatch", "TOOL_CALL_STARTED"}

\* Every envelope and payload is well formed, the log is one run from its
\* start to its finish, numbered from 1 without gaps, in increasing time.
ValidEvents(log) ==
  /\ Len(log) > 0
  /\ \A i \in DOMAIN log : log[i].valid
  /\ log[1].type = "run:start" /\ log[Len(log)].type = "run:finish"
  /\ \A type \in {"run:start", "run:finish"} :
       Cardinality({i \in DOMAIN log : log[i].type = type}) = 1
  /\ \A i \in DOMAIN log :
       /\ log[i].run = log[1].run
       /\ log[i].seq = i
       /\ log[i].at > IF i = 1 THEN 0 ELSE log[i - 1].at

Says(log) ==
  [run |-> log[1].run, scenario |-> log[1].says.scenario, skill |-> log[1].says.skill,
   reason |-> log[Len(log)].says.reason,
   status |-> StatusOf(log[Len(log)].says.reason)]

\* What either states; f first.
Both(f, g) == [k \in DOMAIN f \cup DOMAIN g |-> IF k \in DOMAIN f THEN f[k] ELSE g[k]]

Agree(f, g) == \A k \in DOMAIN f \cap DOMAIN g : f[k] = g[k]

Failure(kind) == [failed |-> kind, session |-> None]

Loaded(session) == [failed |-> "no", session |-> session]

---------------------------------------------------------------------------
\* Loading.

\* The facts only an artifact states; a session of bare events claims none.
Claims == {"sweep", "provider", "cohort", "tokens"}

ProjectSession(log, kind, identity) ==
  IF ~Agree(identity, Says(log)) THEN Failure("invalid")
  ELSE Loaded([kind   |-> kind,
               claims |-> Restrict(identity, Claims \cap DOMAIN identity),
               facts  |-> Says(log),
               frames |-> [i \in DOMAIN log |->
                            [index |-> i - 1, type |-> FrameOf(log[i].type),
                             elapsed |-> log[i].at - log[1].at]],
               tools  |-> Cardinality({i \in DOMAIN log : IsDispatch(log[i])}),
               events |-> log])

ArtifactsAgreeTogether(manifest, result, expected) ==
  /\ manifest.valid /\ result.valid
  /\ result.says.status = StatusOf(result.says.reason)
  /\ Agree(manifest.says, result.says) /\ Agree(expected, manifest.says)

\* Manifest and result are valid by themselves, agree on what both state and
\* with whatever the reporting row expects of either.
ArtifactsAgree(manifest, result, expected) ==
  /\ manifest.valid /\ result.valid
  /\ result.says.status = StatusOf(result.says.reason)
  /\ Agree(manifest.says, result.says)
  /\ Agree(expected, manifest.says) /\ Agree(expected, result.says)

LoadCanonical(source) ==
  CASE None \in {source.manifest, source.result} -> Failure("unavailable")
    [] ~source.owned -> Failure("invalid")
    [] ~ArtifactsAgree(source.manifest, source.result, source.expected) -> Failure("invalid")
    [] ~ValidEvents(source.log) -> Failure("invalid")
    [] OTHER -> ProjectSession(source.log, "canonical-run",
                               Both(source.manifest.says, source.result.says))

LoadDirect(source) ==
  IF ~ValidEvents(source.log) \/ Claims \cap DOMAIN source.expected # {}
    THEN Failure("invalid")
    ELSE ProjectSession(source.log, "direct", source.expected)

\* What identity an exported session gives back: its claims, and for a direct
\* one none are tolerated.
ExportedIdentity(document) == document.claims

ImportSession(document) ==
  IF \/ ~ValidEvents(document.events)
     \/ document.kind = "direct" /\ DOMAIN document.claims # {}
     \/ document.kind = "canonical-run" /\ ~({"provider", "tokens"} \subseteq DOMAIN document.claims)
    THEN Failure("invalid")
    ELSE LET rebuilt == ProjectSession(document.events, document.kind, ExportedIdentity(document))
         IN IF rebuilt.failed = "no" /\ rebuilt.session = document THEN rebuilt ELSE Failure("invalid")

\* The document itself must be an export of the run that was asked for.
LoadExported(source) ==
  LET imported == ImportSession(source.document)
  IN IF /\ imported.failed = "no" /\ "run" \in DOMAIN source.expected
        /\ imported.session.facts.run # source.expected.run
       THEN Failure("invalid") ELSE imported

\* A companion artifact given alone, a bad extension, or artifacts beside a JSON
\* document are refused before anything is read.
LoadReplaySession(source) ==
  CASE source.extension = "json" ->
         IF source.manifest # None \/ source.result # None THEN Failure("invalid")
         ELSE LoadExported(source)
    [] source.extension = "jsonl" ->
         IF source.manifest = None /\ source.result = None
           THEN LoadDirect(source) ELSE LoadCanonical(source)
    [] OTHER -> Failure("invalid")

---------------------------------------------------------------------------
\* The evidence a command may find: a sound run, or one with one thing wrong.

SoundLog(type, reason) ==
  <<[type |-> "run:start", run |-> "a", seq |-> 1, at |-> 1, valid |-> TRUE,
     says |-> [scenario |-> "a", skill |-> "a"]],
    [type |-> type, run |-> "a", seq |-> 2, at |-> 2, valid |-> TRUE, says |-> None],
    [type |-> "run:finish", run |-> "a", seq |-> 3, at |-> 4, valid |-> TRUE,
     says |-> [reason |-> reason]]>>

DamagedEvents(log) ==
  {[log EXCEPT ![i].valid = FALSE] : i \in 1 .. 3}
    \cup {[log EXCEPT ![i].run = "b"] : i \in 1 .. 3}
    \cup {[log EXCEPT ![i].seq = 1] : i \in 2 .. 3}
    \cup {[log EXCEPT ![i].at = 1] : i \in 2 .. 3}

DamagedLogs(log) ==
  DamagedEvents(log)
    \cup {[log EXCEPT ![2].type = t] : t \in {"run:start", "run:finish"}}
    \cup {<<log[2], log[3]>>, <<log[1], log[2]>>, <<log[1], log[3]>>, <<>>}
    \cup {[log EXCEPT ![1].says.scenario = "b"], [log EXCEPT ![3].says.reason = "error"]}

SoundManifest == [valid |-> TRUE,
                  says |-> [run |-> "a", scenario |-> "a", skill |-> "a", sweep |-> "a", provider |-> "a"]]

SoundResult(reason) ==
  [valid |-> TRUE,
   says |-> Both(SoundManifest.says, [reason |-> reason, status |-> StatusOf(reason),
                                      cohort |-> "a", tokens |-> "a"])]

Altered(artifact) ==
  {[artifact EXCEPT !.valid = FALSE]}
    \cup {[artifact EXCEPT !.says[k] = "b"] : k \in DOMAIN artifact.says}

Canonical(type, reason) ==
  [extension |-> "jsonl", owned |-> TRUE, log |-> SoundLog(type, reason), document |-> None,
   manifest |-> SoundManifest, result |-> SoundResult(reason),
   expected |-> SoundResult(reason).says]

\* A run with its artifacts, and the same log given alone.
SoundRun == Canonical("tool:dispatch", "success")

BareRun == [SoundRun EXCEPT !.manifest = None, !.result = None, !.expected = [run |-> "a"]]

\* An exported session, and with something changed in it.
AlteredSession(d) ==
  {[d EXCEPT !.claims = [sweep |-> "a"]], [d EXCEPT !.tools = 7],
   [d EXCEPT !.frames[2].type = "generic"], [d EXCEPT !.facts.status = "failed"],
   [d EXCEPT !.events[2].seq = 1], d}

Documents == AlteredSession(LoadReplaySession(SoundRun).session)
               \cup AlteredSession(LoadReplaySession(BareRun).session)

DamagedRuns ==
  {[SoundRun EXCEPT !.log = l] : l \in DamagedLogs(SoundRun.log)}
    \cup {[SoundRun EXCEPT !.manifest = m] : m \in Altered(SoundRun.manifest) \cup {None}}
    \cup {[SoundRun EXCEPT !.result = r] : r \in Altered(SoundRun.result) \cup {None}}
    \cup {[SoundRun EXCEPT !.expected[k] = "b"] : k \in DOMAIN SoundRun.expected}

SoundRuns == {Canonical(t, r) : t \in MiddleTypes, r \in {"success", "timeout", "error"}}

\* Found in another place or under another name, or with artifacts too many.
StrayRuns == {[SoundRun EXCEPT !.owned = FALSE], [SoundRun EXCEPT !.extension = "other"],
              [SoundRun EXCEPT !.extension = "json"]}

BareRuns == {BareRun, [BareRun EXCEPT !.expected = [sweep |-> "a"]],
             [BareRun EXCEPT !.expected = [run |-> "b"]]}

\* What was exported, by whoever asks for this run.
ExportsFor(r) ==
  {[BareRun EXCEPT !.extension = "json", !.document = d, !.expected = [run |-> r]] : d \in Documents}

ExportedRuns == ExportsFor("a") \cup ExportsFor("b")

Sources == SoundRuns \cup DamagedRuns \cup StrayRuns \cup BareRuns \cup ExportedRuns

---------------------------------------------------------------------------
\* The atomic export.  name -> file and file -> content; "events" is the
\* protected input, "out" the target, "tmp" the exclusive temporary file.

Names == {"events", "out", "tmp"}

SoundDisk == [entry |-> [events |-> 1, out |-> 2, tmp |-> 0],
              content |-> [f \in 1 .. 3 |-> IF f = 1 THEN "input" ELSE "old"]]

Distinct(disk) == disk.entry["out"] # disk.entry["events"]

Player == [index |-> 0, playing |-> FALSE, timer |-> FALSE, open |-> FALSE, frames |-> 0]

\* A session that loads has a frame, and what an artifact states is not None.
ASSUME ReplayAssumption ==
  /\ Frames \subseteq Nat \ {0}
  /\ None \notin {SoundManifest, SoundResult("success")}

ReplayInit ==
  \/ \E source \in Sources, entry \in {SoundDisk.entry, [SoundDisk.entry EXCEPT !["out"] = 0],
                                       [SoundDisk.entry EXCEPT !["out"] = 1]} :
       replay = [phase |-> "load", source |-> source, outcome |-> None,
                 disk |-> [SoundDisk EXCEPT !.entry = entry], again |-> None, player |-> Player]
  \/ \E n \in Frames : \E playing \in BOOLEAN, first \in {-1, 0, n + 1} :
       replay = [phase |-> "player", source |-> None, outcome |-> None, disk |-> SoundDisk,
                 again |-> None,
                 player |-> [index |-> IF first < 0 THEN 0 ELSE IF first > n - 1 THEN n - 1 ELSE first,
                             playing |-> playing, timer |-> playing, open |-> TRUE, frames |-> n]]

\* The command refuses an output that is its input before it reads anything.
RunReplayCommand ==
  /\ replay.phase = "load"
  /\ LET outcome == IF Distinct(replay.disk) THEN LoadReplaySession(replay.source)
                    ELSE Failure("unavailable")
     IN replay' = [replay EXCEPT !.outcome = outcome,
                                 !.phase = IF outcome.failed = "no" THEN "export" ELSE "failed"]

\* O_EXCL creation, then the whole content and fsync.
WriteTemporary ==
  /\ replay.phase = "export"
  /\ IF Distinct(replay.disk)
       THEN \E content \in {"partial", "session"} :
              replay' = [replay EXCEPT
                           !.disk = [entry |-> [@.entry EXCEPT !["tmp"] = 3],
                                     content |-> [@.content EXCEPT ![3] = content]],
                           !.phase = IF content = "partial" THEN "cleanup" ELSE "written"]
       ELSE replay' = [replay EXCEPT !.phase = "failed"]

\* The temporary entry is read back, the collision checked again, then renamed.
PublishExport ==
  /\ replay.phase = "written"
  /\ IF replay.disk.entry["tmp"] = 3 /\ replay.disk.content[3] = "session"
        /\ Distinct(replay.disk)
       THEN replay' = [replay EXCEPT !.disk.entry = [@ EXCEPT !["out"] = 3, !["tmp"] = 0],
                                     !.phase = "published"]
       ELSE replay' = [replay EXCEPT !.phase = "cleanup"]

VerifyPublished ==
  /\ replay.phase = "published"
  /\ replay' = [replay EXCEPT !.phase = IF replay.disk.entry["out"] = 3
                                           /\ replay.disk.content[3] = "session"
                                          THEN "verified" ELSE "failed"]

RemoveTemporary ==
  /\ replay.phase = "cleanup"
  /\ replay' = [replay EXCEPT !.disk.entry["tmp"] = 0, !.phase = "failed"]

\* Another process links the target name to the input or drops the target.
OtherProcess ==
  /\ replay.phase \in {"export", "written", "published"}
  /\ \E file \in {0, 1} :
       /\ replay.disk.entry["out"] # file
       /\ replay' = [replay EXCEPT !.disk.entry["out"] = file]

CommandDies ==
  /\ replay.phase \in {"export", "written", "published", "cleanup"}
  /\ replay' = [replay EXCEPT !.phase = "dead"]

ImportExport ==
  /\ replay.phase = "verified"
  /\ replay' = [replay EXCEPT !.again = ImportSession(replay.outcome.session),
                              !.phase = "imported"]

---------------------------------------------------------------------------
\* The terminal player: keys, and the timer that plays.

Moved(player, index) ==
  [player EXCEPT !.index = IF index < 0 THEN 0
                           ELSE IF index > player.frames - 1 THEN player.frames - 1 ELSE index]

NextFrame(player) ==
  IF player.index < player.frames - 1 THEN Moved(player, player.index + 1)
  ELSE [player EXCEPT !.playing = FALSE]

PressKey ==
  /\ replay.phase = "player" /\ replay.player.open
  /\ LET p == replay.player
     IN \E key \in {"space", "right", "left", "home", "end", "quit"} :
          replay' = [replay EXCEPT !.player =
            CASE key = "space" -> [p EXCEPT !.playing = ~@, !.timer = ~p.playing]
              [] key = "right" -> NextFrame(p)
              [] key = "left"  -> IF p.index > 0 THEN Moved(p, p.index - 1) ELSE p
              [] key = "home"  -> Moved(p, 0)
              [] key = "end"   -> Moved(p, p.frames - 1)
              [] key = "quit"  -> [p EXCEPT !.open = FALSE, !.timer = FALSE]]

PlaybackTick ==
  /\ replay.phase = "player" /\ replay.player.timer /\ replay.player.playing
  /\ replay' = [replay EXCEPT !.player = NextFrame(@)]

ReplayNext ==
  \/ RunReplayCommand \/ WriteTemporary \/ PublishExport \/ VerifyPublished
  \/ RemoveTemporary \/ OtherProcess \/ CommandDies \/ ImportExport
  \/ PressKey \/ PlaybackTick

---------------------------------------------------------------------------

\* A session that loads is one whole run in order, and nothing it claims is
\* contradicted by the log, the manifest, the result or the reporting row.
ReplayIsEvidence ==
  replay.phase \in {"export", "written", "published", "verified", "imported"} =>
    LET s == replay.outcome.session
        src == replay.source
    IN /\ \A i \in DOMAIN s.frames :
            /\ s.frames[i].index = i - 1
            /\ i > 1 => s.frames[i].elapsed > s.frames[i - 1].elapsed
       /\ \A stated \in {src.expected, s.claims} : Agree(stated, s.facts)
       /\ \A artifact \in {src.manifest, src.result} \ {None} :
            /\ Agree(artifact.says, s.facts) /\ Agree(artifact.says, s.claims)
       /\ src.extension = "jsonl" => src.log = s.events /\ Agree(src.expected, s.claims)
       /\ s.kind = "direct" => s.claims = <<>>

\* The target name never shows a partial export, the input is never written, and
\* an export that verified imports as exactly the session it was made from.
ExportIsWhole ==
  /\ replay.disk.content[1] = "input" \/ replay.phase = "player"
  /\ replay.disk.entry["events"] = 1
  /\ replay.disk.entry["out"] = 3 => replay.disk.content[3] = "session"
  /\ replay.phase = "imported" => replay.again = Loaded(replay.outcome.session)

\* The player never leaves the session, plays only with its timer armed and
\* leaves no timer behind when it closes.
PlayerStaysInSession ==
  replay.phase = "player" =>
    /\ replay.player.index \in 0 .. replay.player.frames - 1
    /\ replay.player.open /\ replay.player.playing => replay.player.timer
    /\ ~replay.player.open => ~replay.player.timer
============================================================================
