------------------------------ MODULE Workspace ------------------------------
(* infrastructure/workspace: the directories of a run and the authority to     *)
(* write in them, the hydration of a workspace from a fixture with its git     *)
(* baseline and fingerprint, the agent's edits, and the extraction of the diff *)
(* and its manifest.  A file is a text and an executable bit; git itself is    *)
(* external, and so is the other process that may replace a directory.         *)
EXTENDS NoValue, Integers, Sequences, SequencesExt, FiniteSets

CONSTANTS Files,      \* paths git and the fingerprint both see
          CacheFile,  \* a path under a directory the fingerprint ignores
          Texts, MaxEdits

VARIABLE ws

Paths == Files \cup {CacheFile}

File == [text : Texts, exec : BOOLEAN]

Plain(text) == [text |-> text, exec |-> FALSE]

NoFiles == [p \in Paths |-> None]

\* There are finitely many paths, and what is absent is neither a path nor a file.
ASSUME WorkspaceAssumption == IsFiniteSet(Files) /\ None \notin Paths \cup File

Levels == {"output", "runs", "run"}

\* Either a fixture to hydrate from, or the directories of a run to prepare.
WorkspaceInit ==
  \E fixture \in [Paths -> {None} \cup {Plain(t) : t \in Texts}],
     repository \in BOOLEAN, place \in {"new", "layout"} :
    /\ place = "layout" => fixture = NoFiles /\ ~repository
    /\ ws = [fixture |-> fixture, repository |-> repository, tree |-> NoFiles,
             baseline |-> None, before |-> None, manifest |-> None, edits |-> 0,
             known |-> {}, answered |-> TRUE,
             place |-> place, dirs |-> [l \in Levels |-> "absent"], authority |-> None,
             writer |-> "idle", descriptor |-> None, wrote |-> {}]
-----------------------------------------------------------------------------
(* Directories: ensureArtifactDirectory makes what is absent and refuses a     *)
(* link; the identities seen last are the authority every later write compares *)
(* with.  "made" is the directory this process prepared, "other" one that came *)
(* in its place.                                                               *)

PrepareLayout ==
  /\ ws.place = "layout" /\ ws.authority = None
  /\ \A l \in Levels : ws.dirs[l] # "link"
  /\ LET made == [l \in Levels |-> IF ws.dirs[l] = "absent" THEN "made" ELSE ws.dirs[l]]
     IN ws' = [ws EXCEPT !.dirs = made, !.authority = made]

OtherReplacesDirectory ==
  /\ ws.place = "layout"
  /\ \E l \in Levels, kind \in {"link", "other", "made"} :
       /\ ws.dirs[l] # kind /\ (kind = "made" => ws.authority # None)
       /\ ws' = [ws EXCEPT !.dirs[l] = kind]

\* requireRunArtifactAuthority: every level is a directory, the one prepared.
Authorized == ws.authority # None /\ ws.dirs = ws.authority

\* openAuthorizedRunDirectory checks, opens without following a link, compares
\* what it opened and checks again; the other process may come in between.
CheckAuthority ==
  /\ ws.writer = "idle" /\ Authorized
  /\ ws' = [ws EXCEPT !.writer = "checked"]

OpenRunDirectory ==
  /\ ws.writer = "checked"
  /\ ws' = IF ws.dirs["run"] = "link" THEN [ws EXCEPT !.writer = "idle"]
           ELSE [ws EXCEPT !.writer = "opened", !.descriptor = ws.dirs["run"]]

IsOpenedByName(descriptor) == Authorized

IsRunDirectory(descriptor) == descriptor = ws.authority["run"] /\ Authorized

WriteArtifact ==
  /\ ws.writer = "opened"
  /\ ws' = [ws EXCEPT !.writer = "idle", !.descriptor = None,
                      !.wrote = IF IsRunDirectory(ws.descriptor) THEN @ \cup {ws.descriptor} ELSE @]
-----------------------------------------------------------------------------
(* Fingerprints *)

\* generateWorkspaceFingerprint: path -> hash of its text, but for what lies
\* under an ignored name.
Fingerprint(tree) ==
  [p \in {q \in Files : tree[q] # None} |-> tree[p].text]

DiffFingerprints(before, after) ==
  [added     |-> DOMAIN after \ DOMAIN before,
   deleted   |-> DOMAIN before \ DOMAIN after,
   modified  |-> {p \in DOMAIN before \cap DOMAIN after : before[p] # after[p]},
   unchanged |-> {p \in DOMAIN before \cap DOMAIN after : before[p] = after[p]}]
-----------------------------------------------------------------------------
(* Hydration *)

Overlay(tree, fixture) == [p \in Paths |-> IF fixture[p] # None THEN fixture[p] ELSE tree[p]]

\* hydrateLocalWorkspace: the fixture over what is there; without a repository
\* everything is committed, with one only its HEAD is tagged (here: the fixture
\* as committed, so that a file in the target before stays outside it).
HydrateLocal ==
  /\ ws.place = "new"
  /\ LET tree == Overlay(ws.tree, ws.fixture)
         baseline == IF ws.repository THEN ws.fixture ELSE tree
     IN ws' = [ws EXCEPT !.place = "local", !.tree = tree, !.baseline = baseline,
                         !.known = {p \in Paths : baseline[p] # None},
                         !.before = Fingerprint(tree)]

\* hydrateContainerWorkspace packs the fixture and never hands the archive to
\* the process that unpacks it: tar reads an empty input.  Where that is an
\* error the hydration throws; where it is not, the baseline is an empty commit
\* and the fingerprint that of the fixture on the host.
HydrateContainer(emptyArchiveFails) ==
  /\ ws.place = "new"
  /\ ws' = IF emptyArchiveFails THEN [ws EXCEPT !.place = "failed"]
           ELSE [ws EXCEPT !.place = "container", !.baseline = NoFiles,
                           !.before = Fingerprint(ws.fixture)]

\* git init, add, commit or tag fails: hydration throws before a fingerprint.
HydrationFails ==
  /\ ws.place = "new"
  /\ ws' = [ws EXCEPT !.place = "failed", !.tree = Overlay(ws.tree, ws.fixture)]

Edit ==
  /\ ws.place \in {"local", "container"} /\ ws.edits < MaxEdits
  /\ \E p \in Paths, file \in File \cup {None} :
       /\ file # ws.tree[p]
       /\ ws' = [ws EXCEPT !.tree[p] = file, !.edits = @ + 1, !.manifest = None]
-----------------------------------------------------------------------------
(* git diff --binary --full-index <tag>, after add --intent-to-add: external.  *)
(* One section per path: its header, its extended header, its hunk.            *)

Line(kind, path) == [kind |-> kind, path |-> path]

Section(base, tree, p) ==
  LET old == base[p]  new == tree[p]
      at(kind) == Line(kind, p)
  IN IF old = None THEN <<at("diff"), at("new file"), at("@@"), at("+")>>
     ELSE IF new = None THEN <<at("diff"), at("deleted file"), at("@@"), at("-")>>
     ELSE IF old.text = new.text THEN <<at("diff"), at("old mode"), at("new mode")>>
     ELSE IF old.exec = new.exec THEN <<at("diff"), at("@@"), at("-"), at("+")>>
     ELSE <<at("diff"), at("old mode"), at("new mode"), at("@@"), at("-"), at("+")>>

\* An exact rename: the old path is gone, the new one has its text.
RenameSection(p, q) ==
  <<Line("diff", q), Line("rename from", p), Line("rename to", q)>>

Changed(base, tree) == {p \in Paths : base[p] # tree[p]}

GitDiff(base, tree) ==
  LET renames == {r \in Changed(base, tree) \X Changed(base, tree) :
                    tree[r[1]] = None /\ base[r[2]] = None /\ base[r[1]] = tree[r[2]]}
      order == SetToSeq(Changed(base, tree))
      one == IF Cardinality(renames) = 1 THEN CHOOSE r \in renames : TRUE ELSE <<None, None>>
  IN FlattenSeq([i \in DOMAIN order |->
        CASE order[i] = one[1] -> <<>>
          [] order[i] = one[2] -> RenameSection(one[1], one[2])
          [] OTHER -> Section(base, tree, order[i])])

\* parseGitDiff: a header opens a file and publishes the one before; the lines
\* after it refine its type, and only those in a hunk are counted.
OpenFile(p) ==
  [path |-> p, old |-> p, type |-> "modified", insertions |-> 0, deletions |-> 0, hunks |-> 0]

\* A variant: a change of mode overrides what is known.
RefineUnguarded(file, line) ==
  CASE line.kind = "new file" -> [file EXCEPT !.type = "added"]
    [] line.kind = "deleted file" -> [file EXCEPT !.type = "deleted"]
    [] line.kind \in {"old mode", "new mode"} -> [file EXCEPT !.type = "permission_change"]
    [] line.kind = "rename from" -> [file EXCEPT !.type = "renamed", !.old = line.path]
    [] line.kind = "rename to" -> [file EXCEPT !.type = "renamed", !.path = line.path]
    [] line.kind = "@@" -> [file EXCEPT !.hunks = @ + 1]
    [] file.hunks > 0 /\ line.kind = "+" -> [file EXCEPT !.insertions = @ + 1]
    [] file.hunks > 0 /\ line.kind = "-" -> [file EXCEPT !.deletions = @ + 1]
    [] OTHER -> file

Refine(file, line) ==
  CASE line.kind = "new file" -> [file EXCEPT !.type = "added"]
    [] line.kind = "deleted file" -> [file EXCEPT !.type = "deleted"]
    [] line.kind \in {"old mode", "new mode"} ->
         [file EXCEPT !.type = IF @ = "modified" THEN "permission_change" ELSE @]
    [] line.kind = "rename from" -> [file EXCEPT !.type = "renamed", !.old = line.path]
    [] line.kind = "rename to" -> [file EXCEPT !.type = "renamed", !.path = line.path]
    [] line.kind = "@@" ->
         [file EXCEPT !.hunks = @ + 1, !.type = IF @ = "permission_change" THEN "modified" ELSE @]
    [] file.hunks > 0 /\ line.kind = "+" -> [file EXCEPT !.insertions = @ + 1]
    [] file.hunks > 0 /\ line.kind = "-" -> [file EXCEPT !.deletions = @ + 1]
    [] OTHER -> file

\* What comes before the first header is skipped.
Noted(files, line) ==
  CASE line.kind = "diff" -> Append(files, OpenFile(line.path))
    [] line.kind # "diff" /\ files = <<>> -> files
    [] OTHER -> Append(Front(files), Refine(Last(files), line))

ParseGitDiff(lines) ==
  LET upTo[n \in 0..Len(lines)] == IF n = 0 THEN <<>> ELSE Noted(upTo[n - 1], lines[n])
  IN upTo[Len(lines)]

HashAt(fingerprint, p) == IF p \in DOMAIN fingerprint THEN fingerprint[p] ELSE None

\* git add --intent-to-add: the index knows every file there is, and forgets none.
InIndex == ws.known \cup {p \in Paths : ws.tree[p] # None}

ManifestFor(files, after) ==
  [i \in DOMAIN files |->
     [file |-> files[i], before |-> HashAt(ws.before, files[i].old),
      after |-> HashAt(after, files[i].path)]]

\* What a diff tells when the index knows these paths: no file beyond them.
DiffOf(known) ==
  ParseGitDiff(GitDiff(ws.baseline, [p \in Paths |-> IF p \in known THEN ws.tree[p] ELSE None]))

\* extractDiffFromLocal looks at no exit code: when git add fails a file the
\* index does not know is not told, and when git diff fails nothing is.
ExtractDiff ==
  /\ ws.place = "local" /\ ws.manifest = None
  /\ \E known \in {ws.known, InIndex}, diffed \in BOOLEAN :
       ws' = [ws EXCEPT !.known = known, !.answered = diffed /\ known = InIndex,
                        !.manifest = ManifestFor(IF diffed THEN DiffOf(known) ELSE <<>>,
                                              Fingerprint(ws.tree))]

\* extractDiffFromContainer has only the fingerprint before, and throws unless
\* both commands succeed.
ExtractContainerDiff ==
  /\ ws.place = "container" /\ ws.manifest = None
  /\ ws' = [ws EXCEPT !.known = InIndex, !.answered = TRUE,
                      !.manifest = ManifestFor(DiffOf(InIndex), <<>>)]

WorkspaceNext ==
  \/ PrepareLayout \/ OtherReplacesDirectory
  \/ CheckAuthority \/ OpenRunDirectory \/ WriteArtifact
  \/ HydrateLocal \/ HydrationFails \/ \E b \in BOOLEAN : HydrateContainer(b)
  \/ Edit \/ ExtractDiff \/ ExtractContainerDiff
-----------------------------------------------------------------------------
(* Properties *)

EntriesFor(p) == {i \in DOMAIN ws.manifest : ws.manifest[i].file.path = p}

\* The manifest of a local workspace for which git answered tells each change
\* once and as it is: its type and counts fit the two files, its hashes are
\* theirs, and it names a path the fingerprints differ on.  What a failed git
\* leaves is a manifest that tells less (parseGitDiff, diffFingerprints).
DiffTellsChanges ==
  ws.manifest # None /\ ws.place = "local" /\ ws.answered =>
    /\ \A p \in Paths : Cardinality(EntriesFor(p)) <= 1
    /\ \A i \in DOMAIN ws.manifest :
         LET e == ws.manifest[i]  f == e.file
             old == ws.baseline[f.old]  new == ws.tree[f.path]
         IN /\ f.type = "added" <=> old = None
            /\ f.type = "deleted" <=> new = None
            /\ f.type = "permission_change" <=>
                 old # None /\ new # None /\ f.old = f.path /\ old.text = new.text
            /\ f.insertions - f.deletions =
                 (IF new # None /\ old = None THEN 1 ELSE 0) - (IF new = None THEN 1 ELSE 0)
            /\ f.old \in Files /\ old # None => e.before = old.text
            /\ f.path \in Files /\ new # None => e.after = new.text
    /\ LET d == DiffFingerprints(ws.before, Fingerprint(ws.tree))
       IN \A p \in d.added \cup d.modified \cup d.deleted :
            \E i \in DOMAIN ws.manifest : p \in {ws.manifest[i].file.path, ws.manifest[i].file.old}

\* Artifacts are only ever written into the run directory that was prepared,
\* whenever another process swaps it (openAuthorizedRunDirectory).
WritesStayInLayout == ws.wrote = {} \/ ws.wrote = {ws.authority["run"]}
=============================================================================
