---------------------------- MODULE IsolationProofs ----------------------------
(***************************************************************************)
(* The parts of a study that keep a run apart from what is around it, and  *)
(* what it is given, proved for every value of their constants: the        *)
(* directories it writes in and the diff of its workspace, its sandbox,    *)
(* the faults injected into it, the skills it is given and the texts they  *)
(* are read from.  For each part an inductive invariant (WorkspaceInv,     *)
(* SandboxInv, ChaosInv, StoreInv, TextInv): it holds of what the part     *)
(* starts with (...Starts), every step keeps it (...Keeps), and it implies *)
(* the part's properties (...Holds).  StudyProofs puts them together.      *)
(*                                                                         *)
(* A record is represented by its fields and, field by field, by what the  *)
(* fields are: DOMAIN r = ...Fields.  What is computed along a sequence is *)
(* a scan of FoldTheorems: one lemma says what it is of no element, and of *)
(* one more (...Grows), and an invariant is kept by that.                  *)
(***************************************************************************)
EXTENDS Workspace, Sandbox, Chaos, SkillStore, SkillText, FoldTheorems

-----------------------------------------------------------------------------
(* The workspace of a run                                                  *)

WorkspaceFields ==
  {"fixture", "repository", "tree", "baseline", "before", "manifest", "edits", "known", "answered",
   "place", "dirs", "authority", "writer", "descriptor", "wrote"}

\* Nothing is written before there is an authority, which is set once.
WritesInv ==
  /\ DOMAIN ws = WorkspaceFields /\ ws = [x \in WorkspaceFields |-> ws[x]]
  /\ ws.authority = None => ws.wrote = {}
  /\ WritesStayInLayout

\* A run begins with nothing written (prepareRunArtifactDirectory).
LEMMA WritesStart == WorkspaceInit => WritesInv
  <1> SUFFICES ASSUME WorkspaceInit PROVE WritesInv
    OBVIOUS
  <1>1. PICK fixture \in [Paths -> {None} \cup {Plain(t) : t \in Texts}], repository \in BOOLEAN,
             place \in {"new", "layout"} :
          ws = [fixture |-> fixture, repository |-> repository, tree |-> NoFiles,
                baseline |-> None, before |-> None, manifest |-> None, edits |-> 0,
                known |-> {}, answered |-> TRUE,
                place |-> place, dirs |-> [l \in Levels |-> "absent"], authority |-> None,
                writer |-> "idle", descriptor |-> None, wrote |-> {}]
    BY Zenon DEF WorkspaceInit
  <1> HIDE DEF WorkspaceInit
  <1> DEFINE none == [l \in Levels |-> "absent"]
  <1> HIDE DEF none
  <1>2. ws = [fixture |-> fixture, repository |-> repository, tree |-> NoFiles,
                baseline |-> None, before |-> None, manifest |-> None, edits |-> 0,
                known |-> {}, answered |-> TRUE,
                place |-> place, dirs |-> none, authority |-> None,
                writer |-> "idle", descriptor |-> None, wrote |-> {}]
    BY <1>1 DEF none
  <1> QED
    BY <1>2 DEF WritesInv, WorkspaceFields, WritesStayInLayout

\* What the writer, the preparation, the hydration, an edit and the diff leave
\* written (openAuthorizedRunDirectory and the rest of infrastructure/workspace).
LEMMA WritesKeep == WritesInv /\ WorkspaceNext => WritesInv'
  <1> SUFFICES ASSUME WritesInv, WorkspaceNext PROVE WritesInv'
    OBVIOUS
  <1>0. DOMAIN ws = WorkspaceFields /\ ws = [x \in WorkspaceFields |-> ws[x]]
    BY DEF WritesInv
  <1>1. ASSUME DOMAIN ws' = WorkspaceFields, ws' = [x \in WorkspaceFields |-> ws'[x]],
               UNCHANGED <<ws.authority, ws.wrote>>
        PROVE  WritesInv'
    BY <1>1 DEF WritesInv, WritesStayInLayout
  <1>2. CASE PrepareLayout
    <2> DEFINE made == [l \in Levels |-> IF ws.dirs[l] = "absent" THEN "made" ELSE ws.dirs[l]]
    <2>1. ws' = [ws EXCEPT !.dirs = made, !.authority = made] /\ ws.authority = None
      BY <1>2 DEF PrepareLayout
    <2> HIDE DEF made
    <2> QED
      BY <2>1, <1>0 DEF WritesInv, WritesStayInLayout, WorkspaceFields
  <1>3. CASE WriteArtifact
    <2>1. PICK wrote : ws' = [ws EXCEPT !.writer = "idle", !.descriptor = None, !.wrote = wrote]
                 /\ \/ wrote = ws.wrote
                    \/ /\ ws.authority # None /\ ws.descriptor = ws.authority["run"]
                       /\ wrote = ws.wrote \cup {ws.descriptor}
      BY <1>3 DEF WriteArtifact, IsRunDirectory, Authorized
    <2> QED
      BY <2>1, <1>0 DEF WritesInv, WritesStayInLayout, WorkspaceFields
  <1>4. CASE OtherReplacesDirectory
    <2>1. PICK dirs : ws' = [ws EXCEPT !.dirs = dirs]
      <3>1. PICK l \in Levels, kind \in {"link", "other", "made"} : ws' = [ws EXCEPT !.dirs[l] = kind]
        BY <1>4 DEF OtherReplacesDirectory
      <3> QED
        BY <3>1
    <2> QED
      BY <2>1, <1>0, <1>1 DEF WorkspaceFields
  <1>5. CASE CheckAuthority \/ OpenRunDirectory
    BY <1>5, <1>0, <1>1 DEF CheckAuthority, OpenRunDirectory, WorkspaceFields
  <1>6. CASE HydrateLocal
    <2>1. PICK tree, baseline, known, before :
            ws' = [ws EXCEPT !.place = "local", !.tree = tree, !.baseline = baseline, !.known = known,
                             !.before = before]
      BY <1>6, Zenon DEF HydrateLocal
    <2> QED
      BY <2>1, <1>0, <1>1 DEF WorkspaceFields
  <1>7. CASE HydrationFails
    <2>1. PICK tree : ws' = [ws EXCEPT !.place = "failed", !.tree = tree]
      BY <1>7, Zenon DEF HydrationFails
    <2> QED
      BY <2>1, <1>0, <1>1 DEF WorkspaceFields
  <1>8. ASSUME NEW b \in BOOLEAN, HydrateContainer(b) PROVE WritesInv'
    <2>1. \/ ws' = [ws EXCEPT !.place = "failed"]
          \/ ws' = [ws EXCEPT !.place = "container", !.baseline = NoFiles,
                              !.before = Fingerprint(ws.fixture)]
      BY <1>8 DEF HydrateContainer
    <2>2. PICK place, baseline, before :
            ws' = [ws EXCEPT !.place = place, !.baseline = baseline, !.before = before]
      <3>1. CASE ws' = [ws EXCEPT !.place = "failed"]
        <4>1. ws' = [ws EXCEPT !.place = "failed", !.baseline = ws.baseline, !.before = ws.before]
          BY <3>1, <1>0 DEF WorkspaceFields
        <4> QED
          BY <4>1
      <3> QED
        BY <2>1, <3>1, Zenon
    <2> QED
      BY <2>2, <1>0, <1>1 DEF WorkspaceFields
  <1>9. CASE Edit
    <2>1. PICK tree, edits : ws' = [ws EXCEPT !.tree = tree, !.edits = edits, !.manifest = None]
      <3>1. PICK p \in Paths, file \in File \cup {None} :
              ws' = [ws EXCEPT !.tree[p] = file, !.edits = @ + 1, !.manifest = None]
        BY <1>9 DEF Edit
      <3> QED
        BY <3>1
    <2> QED
      BY <2>1, <1>0, <1>1 DEF WorkspaceFields
  <1>10. CASE ExtractDiff \/ ExtractContainerDiff
    <2>1. PICK known, answered, manifest :
            ws' = [ws EXCEPT !.known = known, !.answered = answered, !.manifest = manifest]
      <3>1. CASE ExtractDiff
        BY <3>1, Zenon DEF ExtractDiff
      <3>2. CASE ExtractContainerDiff
        BY <3>2, Zenon DEF ExtractContainerDiff
      <3> QED
        BY <1>10, <3>1, <3>2, Zenon
    <2> QED
      BY <2>1, <1>0, <1>1 DEF WorkspaceFields
  <1> QED
    BY <1>2, <1>3, <1>4, <1>5, <1>6, <1>7, <1>8, <1>9, <1>10 DEF WorkspaceNext

\* What the invariant of a workspace says of its directories.
LEMMA WritesHold == WritesInv => WritesStayInLayout
  BY DEF WritesInv
-----------------------------------------------------------------------------
(* The diff of a workspace: its lines are parsed one by one                *)

FileTypes == {"modified", "added", "deleted", "permission_change", "renamed"}

\* What is known of a file.
FileRecord ==
  [path : Paths, old : Paths, type : FileTypes, insertions : Nat, deletions : Nat, hunks : Nat]

DiffKinds ==
  {"diff", "new file", "deleted file", "old mode", "new mode", "rename from", "rename to", "@@", "+", "-"}

DiffLine == [kind : DiffKinds, path : Paths]

\* The last of a sequence, and what is before it.
LEMMA LastOfAppended ==
    ASSUME NEW S, NEW s \in Seq(S), NEW x \in S
    PROVE  Front(Append(s, x)) = s /\ Last(Append(s, x)) = x
  <1> DEFINE r == Append(s, x)
  <1>1. r \in Seq(S) /\ Len(r) = Len(s) + 1 /\ r[Len(s) + 1] = x /\ \A i \in 1..Len(s) : r[i] = s[i]
    OBVIOUS
  <1>2. Front(r) = SubSeq(r, 1, Len(r) - 1) /\ Last(r) = r[Len(r)]
    BY DEF Front, Last
  <1> HIDE DEF r
  <1>3. Len(r) - 1 = Len(s) /\ Len(s) \in Nat
    BY <1>1
  <1>4. SubSeq(r, 1, Len(s)) \in Seq(S) /\ Len(SubSeq(r, 1, Len(s))) = Len(s)
        /\ \A i \in 1..Len(s) : SubSeq(r, 1, Len(s))[i] = r[i]
    BY <1>1, <1>3
  <1>5. SubSeq(r, 1, Len(s)) = s
    <2>1. ASSUME NEW a \in Seq(S), NEW b \in Seq(S), Len(a) = Len(b), \A i \in 1..Len(a) : a[i] = b[i]
          PROVE  a = b
      BY <2>1
    <2> QED
      BY <1>1, <1>4, <2>1
  <1> QED
    BY <1>1, <1>2, <1>3, <1>5 DEF r

\* A file with these facts.
Known(path, old, type, insertions, deletions, hunks) ==
  [path |-> path, old |-> old, type |-> type, insertions |-> insertions, deletions |-> deletions,
   hunks |-> hunks]

LEMMA KnownIs ==
    ASSUME NEW path \in Paths, NEW old \in Paths, NEW type \in FileTypes,
           NEW i \in Nat, NEW d \in Nat, NEW h \in Nat
    PROVE  Known(path, old, type, i, d, h) \in FileRecord
  BY DEF Known, FileRecord

LEMMA FileIsKnown ==
    ASSUME NEW f \in FileRecord
    PROVE  /\ f = Known(f.path, f.old, f.type, f.insertions, f.deletions, f.hunks)
           /\ f.path \in Paths /\ f.old \in Paths /\ f.type \in FileTypes
           /\ f.insertions \in Nat /\ f.deletions \in Nat /\ f.hunks \in Nat
  BY DEF Known, FileRecord

\* What a line makes of a file.
LEMMA RefineIs ==
    ASSUME NEW f, NEW l
    PROVE  /\ l.kind = "new file" => Refine(f, l) = [f EXCEPT !.type = "added"]
           /\ l.kind = "deleted file" => Refine(f, l) = [f EXCEPT !.type = "deleted"]
           /\ l.kind \in {"old mode", "new mode"} =>
                Refine(f, l) = [f EXCEPT !.type = IF @ = "modified" THEN "permission_change" ELSE @]
           /\ l.kind = "rename from" => Refine(f, l) = [f EXCEPT !.type = "renamed", !.old = l.path]
           /\ l.kind = "rename to" => Refine(f, l) = [f EXCEPT !.type = "renamed", !.path = l.path]
           /\ l.kind = "@@" =>
                Refine(f, l) =
                  [f EXCEPT !.hunks = @ + 1, !.type = IF @ = "permission_change" THEN "modified" ELSE @]
           /\ f.hunks > 0 /\ l.kind = "+" => Refine(f, l) = [f EXCEPT !.insertions = @ + 1]
           /\ f.hunks > 0 /\ l.kind = "-" => Refine(f, l) = [f EXCEPT !.deletions = @ + 1]
           /\ l.kind \in {"+", "-", "diff"} /\ ~(f.hunks > 0 /\ l.kind \in {"+", "-"}) => Refine(f, l) = f
  <1>1. l.kind = "new file" => Refine(f, l) = [f EXCEPT !.type = "added"]
    BY DEF Refine
  <1>2. l.kind = "deleted file" => Refine(f, l) = [f EXCEPT !.type = "deleted"]
    BY DEF Refine
  <1>3. l.kind \in {"old mode", "new mode"} =>
          Refine(f, l) = [f EXCEPT !.type = IF @ = "modified" THEN "permission_change" ELSE @]
    BY DEF Refine
  <1>4. l.kind = "rename from" => Refine(f, l) = [f EXCEPT !.type = "renamed", !.old = l.path]
    BY DEF Refine
  <1>5. l.kind = "rename to" => Refine(f, l) = [f EXCEPT !.type = "renamed", !.path = l.path]
    BY DEF Refine
  <1>6. l.kind = "@@" =>
          Refine(f, l) =
            [f EXCEPT !.hunks = @ + 1, !.type = IF @ = "permission_change" THEN "modified" ELSE @]
    BY DEF Refine
  <1>7. f.hunks > 0 /\ l.kind = "+" => Refine(f, l) = [f EXCEPT !.insertions = @ + 1]
    BY DEF Refine
  <1>8. f.hunks > 0 /\ l.kind = "-" => Refine(f, l) = [f EXCEPT !.deletions = @ + 1]
    BY DEF Refine
  <1>9. l.kind \in {"+", "-", "diff"} /\ ~(f.hunks > 0 /\ l.kind \in {"+", "-"}) => Refine(f, l) = f
    BY DEF Refine
  <1> QED
    BY <1>1, <1>2, <1>3, <1>4, <1>5, <1>6, <1>7, <1>8, <1>9

\* The same in terms of the facts.
RefinedTo(path, old, type, i, d, h, l) ==
  CASE l.kind = "new file" -> Known(path, old, "added", i, d, h)
    [] l.kind = "deleted file" -> Known(path, old, "deleted", i, d, h)
    [] l.kind \in {"old mode", "new mode"} ->
         Known(path, old, IF type = "modified" THEN "permission_change" ELSE type, i, d, h)
    [] l.kind = "rename from" -> Known(path, l.path, "renamed", i, d, h)
    [] l.kind = "rename to" -> Known(l.path, old, "renamed", i, d, h)
    [] l.kind = "@@" -> Known(path, old, IF type = "permission_change" THEN "modified" ELSE type, i, d, h + 1)
    [] h > 0 /\ l.kind = "+" -> Known(path, old, type, i + 1, d, h)
    [] h > 0 /\ l.kind = "-" -> Known(path, old, type, i, d + 1, h)
    [] OTHER -> Known(path, old, type, i, d, h)

LEMMA RefineKnown ==
    ASSUME NEW path, NEW old, NEW type, NEW i, NEW d, NEW h, NEW l, l.kind \in DiffKinds
    PROVE  Refine(Known(path, old, type, i, d, h), l) = RefinedTo(path, old, type, i, d, h, l)
  <1> DEFINE f == Known(path, old, type, i, d, h)
             g == RefinedTo(path, old, type, i, d, h, l)
  <1>0. f.path = path /\ f.old = old /\ f.type = type /\ f.insertions = i /\ f.deletions = d /\ f.hunks = h
    BY DEF Known
  <1>1. \A t : [f EXCEPT !.type = t] = Known(path, old, t, i, d, h)
    BY DEF Known
  <1>2. \A t, q : [f EXCEPT !.type = t, !.old = q] = Known(path, q, t, i, d, h)
    <2>1. \A t, q : [Known(path, old, t, i, d, h) EXCEPT !.old = q] = Known(path, q, t, i, d, h)
      BY DEF Known
    <2> HIDE DEF f
    <2> QED
      BY <1>1, <2>1
  <1>3. \A t, q : [f EXCEPT !.type = t, !.path = q] = Known(q, old, t, i, d, h)
    <2>1. \A t, q : [Known(path, old, t, i, d, h) EXCEPT !.path = q] = Known(q, old, t, i, d, h)
      BY DEF Known
    <2> HIDE DEF f
    <2> QED
      BY <1>1, <2>1
  <1>4. \A t, n : [f EXCEPT !.hunks = n, !.type = t] = Known(path, old, t, i, d, n)
    <2>1. \A n : [f EXCEPT !.hunks = n] = Known(path, old, type, i, d, n)
      BY DEF Known
    <2>2. \A t, n : [Known(path, old, type, i, d, n) EXCEPT !.type = t] = Known(path, old, t, i, d, n)
      BY DEF Known
    <2> HIDE DEF f
    <2> QED
      BY <2>1, <2>2
  <1>5. \A n : [f EXCEPT !.insertions = n] = Known(path, old, type, n, d, h)
    BY DEF Known
  <1>6. \A n : [f EXCEPT !.deletions = n] = Known(path, old, type, i, n, h)
    BY DEF Known
  <1>7. /\ l.kind = "new file" => g = Known(path, old, "added", i, d, h)
        /\ l.kind = "deleted file" => g = Known(path, old, "deleted", i, d, h)
        /\ l.kind \in {"old mode", "new mode"} =>
             g = Known(path, old, IF type = "modified" THEN "permission_change" ELSE type, i, d, h)
        /\ l.kind = "rename from" => g = Known(path, l.path, "renamed", i, d, h)
        /\ l.kind = "rename to" => g = Known(l.path, old, "renamed", i, d, h)
        /\ l.kind = "@@" =>
             g = Known(path, old, IF type = "permission_change" THEN "modified" ELSE type, i, d, h + 1)
        /\ h > 0 /\ l.kind = "+" => g = Known(path, old, type, i + 1, d, h)
        /\ h > 0 /\ l.kind = "-" => g = Known(path, old, type, i, d + 1, h)
        /\ l.kind \in {"+", "-", "diff"} /\ ~(h > 0 /\ l.kind \in {"+", "-"}) => g = f
    BY DEF RefinedTo
  <1> HIDE DEF f, g
  <1>8. CASE l.kind = "new file"
    <2>1. Refine(f, l) = [f EXCEPT !.type = "added"]
      BY <1>8, RefineIs
    <2> QED
      BY <1>1, <1>7, <1>8, <2>1 DEF f, g
  <1>9. CASE l.kind = "deleted file"
    <2>1. Refine(f, l) = [f EXCEPT !.type = "deleted"]
      BY <1>9, RefineIs
    <2> QED
      BY <1>1, <1>7, <1>9, <2>1 DEF f, g
  <1>10. CASE l.kind \in {"old mode", "new mode"}
    <2>1. Refine(f, l) = [f EXCEPT !.type = IF f.type = "modified" THEN "permission_change" ELSE f.type]
      BY <1>10, RefineIs
    <2> QED
      BY <1>0, <1>1, <1>7, <1>10, <2>1 DEF f, g
  <1>11. CASE l.kind = "rename from"
    <2>1. Refine(f, l) = [f EXCEPT !.type = "renamed", !.old = l.path]
      BY <1>11, RefineIs
    <2>2. g = Known(path, l.path, "renamed", i, d, h)
      BY <1>7, <1>11
    <2>3. Refine(f, l) = Known(path, l.path, "renamed", i, d, h)
      BY <1>2, <2>1
    <2> QED
      BY <2>2, <2>3, Zenon DEF f, g
  <1>12. CASE l.kind = "rename to"
    <2>1. Refine(f, l) = [f EXCEPT !.type = "renamed", !.path = l.path]
      BY <1>12, RefineIs
    <2>2. g = Known(l.path, old, "renamed", i, d, h)
      BY <1>7, <1>12
    <2>3. Refine(f, l) = Known(l.path, old, "renamed", i, d, h)
      BY <1>3, <2>1
    <2> QED
      BY <2>2, <2>3, Zenon DEF f, g
  <1>13. CASE l.kind = "@@"
    <2> DEFINE type2 == IF type = "permission_change" THEN "modified" ELSE type
    <2>1. Refine(f, l) = [f EXCEPT !.hunks = f.hunks + 1,
                                   !.type = IF f.type = "permission_change" THEN "modified" ELSE f.type]
      BY <1>13, RefineIs
    <2>2. Refine(f, l) = [f EXCEPT !.hunks = h + 1, !.type = type2]
      BY <1>0, <2>1
    <2>3. g = Known(path, old, type2, i, d, h + 1)
      BY <1>7, <1>13
    <2> HIDE DEF type2
    <2>4. Refine(f, l) = Known(path, old, type2, i, d, h + 1)
      BY <1>4, <2>2
    <2> QED
      BY <2>3, <2>4, Zenon DEF f, g
  <1>14. CASE h > 0 /\ l.kind = "+"
    <2>1. Refine(f, l) = [f EXCEPT !.insertions = f.insertions + 1]
      BY <1>0, <1>14, RefineIs
    <2> QED
      BY <1>0, <1>5, <1>7, <1>14, <2>1 DEF f, g
  <1>15. CASE h > 0 /\ l.kind = "-"
    <2>1. Refine(f, l) = [f EXCEPT !.deletions = f.deletions + 1]
      BY <1>0, <1>15, RefineIs
    <2> QED
      BY <1>0, <1>6, <1>7, <1>15, <2>1 DEF f, g
  <1>16. CASE l.kind \in {"+", "-", "diff"} /\ ~(h > 0 /\ l.kind \in {"+", "-"})
    <2>1. Refine(f, l) = f
      BY <1>0, <1>16, RefineIs
    <2> QED
      BY <1>7, <1>16, <2>1 DEF f, g
  <1> QED
    BY <1>8, <1>9, <1>10, <1>11, <1>12, <1>13, <1>14, <1>15, <1>16 DEF DiffKinds

\* A line keeps what is known of a file of its type.
LEMMA RefineIsTyped ==
    ASSUME NEW f \in FileRecord, NEW l \in DiffLine
    PROVE  Refine(f, l) \in FileRecord
  <1>1. /\ f = Known(f.path, f.old, f.type, f.insertions, f.deletions, f.hunks)
        /\ f.path \in Paths /\ f.old \in Paths /\ f.type \in FileTypes
        /\ f.insertions \in Nat /\ f.deletions \in Nat /\ f.hunks \in Nat
    BY FileIsKnown
  <1>2. l.path \in Paths /\ l.kind \in DiffKinds
    BY DEF DiffLine
  <1>3. ASSUME NEW path \in Paths, NEW old \in Paths, NEW type \in FileTypes,
               NEW i \in Nat, NEW d \in Nat, NEW h \in Nat
        PROVE  RefinedTo(path, old, type, i, d, h, l) \in FileRecord
    <2>1. \A t \in FileTypes, q \in Paths, o \in Paths, x \in Nat, y \in Nat, z \in Nat :
            Known(q, o, t, x, y, z) \in FileRecord
      BY KnownIs
    <2>2. /\ {"modified", "added", "deleted", "permission_change", "renamed"} \subseteq FileTypes
          /\ h + 1 \in Nat /\ i + 1 \in Nat /\ d + 1 \in Nat
      BY DEF FileTypes
    <2> QED
      BY <1>2, <2>1, <2>2 DEF RefinedTo
  <1>4. Refine(f, l) = RefinedTo(f.path, f.old, f.type, f.insertions, f.deletions, f.hunks, l)
    BY <1>1, <1>2, RefineKnown
  <1> QED
    BY <1>1, <1>3, <1>4

LEMMA NotedIsTyped ==
    ASSUME NEW files \in Seq(FileRecord), NEW l \in DiffLine
    PROVE  Noted(files, l) \in Seq(FileRecord)
  <1>1. CASE l.kind = "diff"
    <2>1. OpenFile(l.path) \in FileRecord
      BY DEF OpenFile, FileRecord, FileTypes, DiffLine
    <2> QED
      BY <1>1, <2>1 DEF Noted
  <1>2. CASE l.kind # "diff" /\ files = <<>>
    BY <1>2 DEF Noted
  <1>3. CASE l.kind # "diff" /\ files # <<>>
    <2>1. Noted(files, l) = Append(Front(files), Refine(Last(files), l))
      BY <1>3 DEF Noted
    <2>2. Front(files) \in Seq(FileRecord) /\ Last(files) \in FileRecord
      <3>1. Len(files) \in Nat /\ Len(files) # 0
        BY <1>3, EmptySeq
      <3>2. Len(files) - 1 \in 0..Len(files) /\ Len(files) \in 1..Len(files)
        BY <3>1
      <3> QED
        BY <3>2 DEF Front, Last
    <2>3. Refine(Last(files), l) \in FileRecord
      BY <2>2, RefineIsTyped
    <2> QED
      BY <2>1, <2>2, <2>3
  <1> QED
    BY <1>1, <1>2, <1>3

NotedStep == [p \in Seq(FileRecord) \X DiffLine |-> Noted(p[1], p[2])]

\* What is parsed of no lines, and of one line more (parseGitDiff).
LEMMA ParseGrows ==
    /\ ParseGitDiff(<<>>) = <<>>
    /\ \A s \in Seq(DiffLine) : ParseGitDiff(s) \in Seq(FileRecord)
    /\ \A s \in Seq(DiffLine), x \in DiffLine :
         ParseGitDiff(Append(s, x)) = Noted(ParseGitDiff(s), x)
  <1> DEFINE S == DiffLine  T == Seq(FileRecord)  nil == <<>>  step == NotedStep
  <1>1. \A t \in T, x \in S : step[<<t, x>>] = Noted(t, x)
    BY DEF NotedStep
  <1>2. nil \in T /\ \A t \in T, x \in S : Noted(t, x) \in T
    BY NotedIsTyped
  <1>3. Scanner(S, T, step)
    BY <1>1, <1>2 DEF Scanner
  <1> HIDE DEF S
  <1>4. ASSUME NEW s \in Seq(S) PROVE ParseGitDiff(s) = Scanned(T, s, nil, step)
    <2> DEFINE fun == CHOOSE f : f = [n \in 0..Len(s) |-> IF n = 0 THEN <<>> ELSE Noted(f[n - 1], s[n])]
    <2>0. Len(s) \in Nat /\ \A i \in 1..Len(s) : s[i] \in S /\ i - 1 \in 0..Len(s)
      OBVIOUS
    <2> HIDE DEF T, nil, step
    <2>1. PICK f : Scans(f, T, s, nil, step)
      BY <1>2, <1>3, ScanExists
    <2>2. f \in [0..Len(s) -> T] /\ f[0] = nil /\ \A i \in 1..Len(s) : f[i] = step[<<f[i - 1], s[i]>>]
      BY <2>1 DEF Scans
    <2>3. ASSUME NEW n \in 0..Len(s)
          PROVE  f[n] = IF n = 0 THEN <<>> ELSE Noted(f[n - 1], s[n])
      <3>1. CASE n = 0
        BY <2>2, <3>1 DEF nil
      <3>2. CASE n # 0
        <4>1. n \in 1..Len(s)
          BY <2>0, <3>2
        <4>2. f[n - 1] \in T /\ s[n] \in S
          BY <2>0, <2>2, <4>1
        <4> QED
          BY <1>1, <2>2, <3>2, <4>1, <4>2
      <3> QED
        BY <3>1, <3>2
    <2>4. f = [n \in 0..Len(s) |-> IF n = 0 THEN <<>> ELSE Noted(f[n - 1], s[n])]
      BY <2>2, <2>3
    <2>5. fun = [n \in 0..Len(s) |-> IF n = 0 THEN <<>> ELSE Noted(fun[n - 1], s[n])]
      BY <2>4
    <2>6. ParseGitDiff(s) = fun[Len(s)]
      BY DEF ParseGitDiff
    <2> HIDE DEF fun
    <2>7. ASSUME NEW i \in 1..Len(s), fun[i - 1] \in T PROVE fun[i] = step[<<fun[i - 1], s[i]>>]
      <3>1. i \in 0..Len(s) /\ i # 0
        BY <2>0
      <3>2. fun[i] = Noted(fun[i - 1], s[i])
        BY <2>5, <3>1
      <3> QED
        BY <1>1, <2>0, <2>7, <3>2
    <2>8. fun[0] = nil
      BY <2>0, <2>5 DEF nil
    <2>9. ReadSoFar(fun, Len(s), T, s, nil, step)
      BY <2>7, <2>8 DEF ReadSoFar
    <2> QED
      BY <1>2, <1>3, <2>6, <2>9, ScannedIs
  <1> HIDE DEF T, nil, step
  <1>5. /\ \A s \in Seq(S) : Scanned(T, s, nil, step) \in T
        /\ \A s \in Seq(S), x \in S : Scanned(T, Append(s, x), nil, step) = step[<<Scanned(T, s, nil, step), x>>]
    BY <1>2, <1>3, ScannedStep
  <1>6. ParseGitDiff(<<>>) = <<>>
    <2>1. \A s \in Seq(S) : Len(s) = 0 => Scanned(T, s, nil, step) = nil
      <3>1. ASSUME NEW s \in Seq(S), Len(s) = 0 PROVE Scanned(T, s, nil, step) = nil
        <4>1. PICK f : Scans(f, T, s, nil, step) /\ Scanned(T, s, nil, step) = f[Len(s)]
          BY <1>2, <1>3, ScannedIsScan
        <4> QED
          BY <3>1, <4>1 DEF Scans
      <3> QED
        BY <3>1
    <2>2. <<>> \in Seq(S) /\ Len(<<>>) = 0
      OBVIOUS
    <2> QED
      BY <1>4, <2>1, <2>2, Zenon DEF nil
  <1>7. ASSUME NEW s \in Seq(S) PROVE ParseGitDiff(s) \in T
    BY <1>4, <1>5
  <1>8. ASSUME NEW s \in Seq(S), NEW x \in S
        PROVE  ParseGitDiff(Append(s, x)) = Noted(ParseGitDiff(s), x)
    <2>1. Append(s, x) \in Seq(S)
      OBVIOUS
    <2>2. /\ ParseGitDiff(Append(s, x)) = Scanned(T, Append(s, x), nil, step)
          /\ ParseGitDiff(s) = Scanned(T, s, nil, step)
      BY <1>4, <2>1
    <2> QED
      BY <1>1, <1>5, <2>2
  <1> QED
    BY <1>6, <1>7, <1>8 DEF S, T

\* After the lines s the files are known and this one, which is open.
Open(s, files, path, old, type, i, d, h) ==
  /\ s \in Seq(DiffLine) /\ files \in Seq(FileRecord)
  /\ path \in Paths /\ old \in Paths /\ type \in FileTypes /\ i \in Nat /\ d \in Nat /\ h \in Nat
  /\ ParseGitDiff(s) = Append(files, Known(path, old, type, i, d, h))

LEMMA LineIs ==
    ASSUME NEW kind \in DiffKinds, NEW p \in Paths
    PROVE  Line(kind, p) \in DiffLine /\ Line(kind, p).kind = kind /\ Line(kind, p).path = p
  BY DEF Line, DiffLine

\* A header opens a file.
LEMMA HeaderOpens ==
    ASSUME NEW s \in Seq(DiffLine), NEW p \in Paths
    PROVE  Open(Append(s, Line("diff", p)), ParseGitDiff(s), p, p, "modified", 0, 0, 0)
  <1>1. Line("diff", p) \in DiffLine /\ Line("diff", p).kind = "diff" /\ Line("diff", p).path = p
    BY LineIs DEF DiffKinds
  <1>2. ParseGitDiff(Append(s, Line("diff", p))) = Noted(ParseGitDiff(s), Line("diff", p))
    BY <1>1, ParseGrows
  <1>3. Noted(ParseGitDiff(s), Line("diff", p)) = Append(ParseGitDiff(s), OpenFile(p))
    BY <1>1 DEF Noted
  <1>4. OpenFile(p) = Known(p, p, "modified", 0, 0, 0)
    BY DEF OpenFile, Known
  <1>5. ParseGitDiff(s) \in Seq(FileRecord)
    BY ParseGrows
  <1>6. Append(s, Line("diff", p)) \in Seq(DiffLine) /\ "modified" \in FileTypes
    BY <1>1 DEF FileTypes
  <1> QED
    BY <1>2, <1>3, <1>4, <1>5, <1>6 DEF Open

\* A line below a header refines the file that is open.
LEMMA LineRefines ==
    ASSUME NEW s, NEW files, NEW path, NEW old, NEW type, NEW i, NEW d, NEW h,
           Open(s, files, path, old, type, i, d, h), NEW l \in DiffLine, l.kind # "diff"
    PROVE  /\ Append(s, l) \in Seq(DiffLine)
           /\ ParseGitDiff(Append(s, l)) = Append(files, RefinedTo(path, old, type, i, d, h, l))
  <1> DEFINE f == Known(path, old, type, i, d, h)  r == Append(files, f)
  <1>1. /\ s \in Seq(DiffLine) /\ files \in Seq(FileRecord) /\ ParseGitDiff(s) = r
        /\ f \in FileRecord
    BY KnownIs DEF Open
  <1>2. Refine(f, l) = RefinedTo(path, old, type, i, d, h, l)
    BY RefineKnown DEF DiffLine
  <1> HIDE DEF f
  <1>3. r # <<>> /\ Front(r) = files /\ Last(r) = f
    <2>1. Front(r) = files /\ Last(r) = f
      BY <1>1, LastOfAppended
    <2>2. Len(r) = Len(files) + 1 /\ Len(files) \in Nat
      BY <1>1
    <2>3. Len(<<>>) = 0
      OBVIOUS
    <2> HIDE DEF r
    <2>4. Len(r) # 0
      BY <2>2
    <2> QED
      BY <2>1, <2>3, <2>4, Zenon
  <1> HIDE DEF r
  <1>4. ParseGitDiff(Append(s, l)) = Noted(r, l)
    BY <1>1, ParseGrows
  <1>5. Noted(r, l) = Append(files, Refine(f, l))
    BY <1>3 DEF Noted
  <1>6. Append(s, l) \in Seq(DiffLine)
    BY <1>1
  <1> QED
    BY <1>2, <1>4, <1>5, <1>6

LEMMA LinesRefine ==
    ASSUME NEW s, NEW files, NEW path, NEW old, NEW type, NEW i, NEW d, NEW h,
           Open(s, files, path, old, type, i, d, h), NEW p \in Paths
    PROVE  /\ Open(Append(s, Line("new file", p)), files, path, old, "added", i, d, h)
           /\ Open(Append(s, Line("deleted file", p)), files, path, old, "deleted", i, d, h)
           /\ \A kind \in {"old mode", "new mode"} :
                Open(Append(s, Line(kind, p)), files, path, old,
                     IF type = "modified" THEN "permission_change" ELSE type, i, d, h)
           /\ Open(Append(s, Line("rename from", p)), files, path, p, "renamed", i, d, h)
           /\ Open(Append(s, Line("rename to", p)), files, p, old, "renamed", i, d, h)
           /\ Open(Append(s, Line("@@", p)), files, path, old,
                   IF type = "permission_change" THEN "modified" ELSE type, i, d, h + 1)
           /\ h > 0 => /\ Open(Append(s, Line("+", p)), files, path, old, type, i + 1, d, h)
                       /\ Open(Append(s, Line("-", p)), files, path, old, type, i, d + 1, h)
  <1>1. /\ files \in Seq(FileRecord)
        /\ path \in Paths /\ old \in Paths /\ type \in FileTypes /\ i \in Nat /\ d \in Nat /\ h \in Nat
    BY DEF Open
  <1>2. ASSUME NEW kind \in DiffKinds, kind # "diff"
        PROVE  /\ Append(s, Line(kind, p)) \in Seq(DiffLine)
               /\ ParseGitDiff(Append(s, Line(kind, p))) =
                    Append(files, RefinedTo(path, old, type, i, d, h, Line(kind, p)))
               /\ Line(kind, p).kind = kind /\ Line(kind, p).path = p
    <2>1. Line(kind, p) \in DiffLine /\ Line(kind, p).kind = kind /\ Line(kind, p).path = p
      BY LineIs
    <2> QED
      BY <1>2, <2>1, LineRefines
  <1>3. /\ {"modified", "added", "deleted", "permission_change", "renamed"} \subseteq FileTypes
        /\ h + 1 \in Nat /\ i + 1 \in Nat /\ d + 1 \in Nat
    BY <1>1 DEF FileTypes
  <1>4. Open(Append(s, Line("new file", p)), files, path, old, "added", i, d, h)
    BY <1>1, <1>2, <1>3 DEF Open, RefinedTo, DiffKinds
  <1>5. Open(Append(s, Line("deleted file", p)), files, path, old, "deleted", i, d, h)
    BY <1>1, <1>2, <1>3 DEF Open, RefinedTo, DiffKinds
  <1>6. ASSUME NEW kind \in {"old mode", "new mode"}
        PROVE  Open(Append(s, Line(kind, p)), files, path, old,
                    IF type = "modified" THEN "permission_change" ELSE type, i, d, h)
    BY <1>1, <1>2, <1>3 DEF Open, RefinedTo, DiffKinds
  <1>7. Open(Append(s, Line("rename from", p)), files, path, p, "renamed", i, d, h)
    BY <1>1, <1>2, <1>3 DEF Open, RefinedTo, DiffKinds
  <1>8. Open(Append(s, Line("rename to", p)), files, p, old, "renamed", i, d, h)
    BY <1>1, <1>2, <1>3 DEF Open, RefinedTo, DiffKinds
  <1>9. Open(Append(s, Line("@@", p)), files, path, old,
             IF type = "permission_change" THEN "modified" ELSE type, i, d, h + 1)
    BY <1>1, <1>2, <1>3 DEF Open, RefinedTo, DiffKinds
  <1>10. ASSUME h > 0
         PROVE  /\ Open(Append(s, Line("+", p)), files, path, old, type, i + 1, d, h)
                /\ Open(Append(s, Line("-", p)), files, path, old, type, i, d + 1, h)
    BY <1>1, <1>2, <1>3, <1>10 DEF Open, RefinedTo, DiffKinds
  <1> QED
    BY <1>4, <1>5, <1>6, <1>7, <1>8, <1>9, <1>10

\* What a section says of a path.
Shown(base, tree, p) ==
  IF base[p] = None THEN Known(p, p, "added", 1, 0, 1)
  ELSE IF tree[p] = None THEN Known(p, p, "deleted", 0, 1, 1)
  ELSE IF base[p].text = tree[p].text THEN Known(p, p, "permission_change", 0, 0, 0)
  ELSE Known(p, p, "modified", 1, 1, 1)

\* A hunk, and the lines in it.
LEMMA HunkRefines ==
    ASSUME NEW s, NEW files, NEW path, NEW old, NEW type, NEW d, NEW p \in Paths
    PROVE  /\ Open(s, files, path, old, type, 0, 0, 0) /\ type # "permission_change" =>
                Open(Append(s, Line("@@", p)), files, path, old, type, 0, 0, 1)
           /\ Open(s, files, path, old, "permission_change", 0, 0, 0) =>
                Open(Append(s, Line("@@", p)), files, path, old, "modified", 0, 0, 1)
           /\ Open(s, files, path, old, type, 0, d, 1) =>
                Open(Append(s, Line("+", p)), files, path, old, type, 1, d, 1)
           /\ Open(s, files, path, old, type, 0, 0, 1) =>
                Open(Append(s, Line("-", p)), files, path, old, type, 0, 1, 1)
  <1>0. 0 + 1 = 1 /\ 1 > 0
    OBVIOUS
  <1>1. ASSUME Open(s, files, path, old, type, 0, 0, 0), type # "permission_change"
        PROVE  Open(Append(s, Line("@@", p)), files, path, old, type, 0, 0, 1)
    <2>1. Open(Append(s, Line("@@", p)), files, path, old,
               IF type = "permission_change" THEN "modified" ELSE type, 0, 0, 0 + 1)
      BY <1>1, LinesRefine, Zenon
    <2> QED
      BY <1>0, <1>1, <2>1
  <1>2. ASSUME Open(s, files, path, old, "permission_change", 0, 0, 0)
        PROVE  Open(Append(s, Line("@@", p)), files, path, old, "modified", 0, 0, 1)
    <2>1. Open(Append(s, Line("@@", p)), files, path, old,
               IF "permission_change" = "permission_change" THEN "modified" ELSE "permission_change", 0, 0, 0 + 1)
      BY <1>2, LinesRefine, Zenon
    <2> QED
      BY <1>0, <2>1
  <1>3. ASSUME Open(s, files, path, old, type, 0, d, 1)
        PROVE  Open(Append(s, Line("+", p)), files, path, old, type, 1, d, 1)
    <2>1. Open(Append(s, Line("+", p)), files, path, old, type, 0 + 1, d, 1)
      BY <1>0, <1>3, LinesRefine, Zenon
    <2> QED
      BY <1>0, <2>1
  <1>4. ASSUME Open(s, files, path, old, type, 0, 0, 1)
        PROVE  Open(Append(s, Line("-", p)), files, path, old, type, 0, 1, 1)
    <2>1. Open(Append(s, Line("-", p)), files, path, old, type, 0, 0 + 1, 1)
      BY <1>0, <1>4, LinesRefine, Zenon
    <2> QED
      BY <1>0, <2>1
  <1> QED
    BY <1>1, <1>2, <1>3, <1>4

\* The lines of a section are read into what it says (GitDiff, parseGitDiff).
LEMMA SectionReads ==
    ASSUME NEW base \in [Paths -> {None} \cup File], NEW tree \in [Paths -> {None} \cup File],
           NEW p \in Paths, base[p] # tree[p], NEW s \in Seq(DiffLine)
    PROVE  /\ Section(base, tree, p) \in Seq(DiffLine)
           /\ ParseGitDiff(s \o Section(base, tree, p)) = Append(ParseGitDiff(s), Shown(base, tree, p))
           /\ Shown(base, tree, p) \in FileRecord
  <1> DEFINE header == Line("diff", p)
             created == Line("new file", p)  removed == Line("deleted file", p)
             mode1 == Line("old mode", p)  mode2 == Line("new mode", p)
             hunk == Line("@@", p)  minus == Line("-", p)  plus == Line("+", p)
             files == ParseGitDiff(s)
             s1 == Append(s, header)
  <1>1. Open(s1, files, p, p, "modified", 0, 0, 0)
    BY HeaderOpens
  <1>2. \A kind \in DiffKinds : Line(kind, p) \in DiffLine
    BY LineIs
  <1>3. /\ header \in DiffLine /\ created \in DiffLine /\ removed \in DiffLine
        /\ mode1 \in DiffLine /\ mode2 \in DiffLine /\ hunk \in DiffLine
        /\ minus \in DiffLine /\ plus \in DiffLine
    BY <1>2 DEF DiffKinds
  <1> HIDE DEF header, created, removed, mode1, mode2, hunk, minus, plus
  <1>4. ASSUME NEW t, NEW r, NEW type, NEW i, NEW d, NEW h,
               Open(t, files, p, p, type, i, d, h), t = s \o r, r \in Seq(DiffLine), Section(base, tree, p) = r,
               Shown(base, tree, p) = Known(p, p, type, i, d, h)
        PROVE  /\ Section(base, tree, p) \in Seq(DiffLine)
               /\ ParseGitDiff(s \o Section(base, tree, p)) = Append(ParseGitDiff(s), Shown(base, tree, p))
               /\ Shown(base, tree, p) \in FileRecord
    BY <1>4, KnownIs DEF Open
  <1>5. /\ base[p] \in {None} \cup File /\ tree[p] \in {None} \cup File
        /\ \A a \in File, b \in File : a.text = b.text /\ a.exec = b.exec => a = b
    BY DEF File
  <1>6. CASE base[p] = None
    <2> DEFINE s2 == Append(s1, created)  s3 == Append(s2, hunk)  s4 == Append(s3, plus)
               r == <<header, created, hunk, plus>>
    <2>1. s4 = s \o r /\ r \in Seq(DiffLine)
      BY <1>3
    <2>2. Section(base, tree, p) = r /\ Shown(base, tree, p) = Known(p, p, "added", 1, 0, 1)
      BY <1>6 DEF Section, Shown, header, created, removed, mode1, mode2, hunk, minus, plus
    <2> HIDE DEF s1, s2, s3, s4, r
    <2>3. Open(s2, files, p, p, "added", 0, 0, 0)
      BY <1>1, LinesRefine DEF s2, created, removed, mode1, mode2, hunk, minus, plus
    <2>4. Open(s3, files, p, p, "added", 0, 0, 1)
      BY <2>3, HunkRefines DEF s3, created, removed, mode1, mode2, hunk, minus, plus
    <2>5. Open(s4, files, p, p, "added", 1, 0, 1)
      BY <2>4, HunkRefines DEF s4, created, removed, mode1, mode2, hunk, minus, plus
    <2> QED
      BY <1>4, <2>1, <2>2, <2>5
  <1>7. CASE base[p] # None /\ tree[p] = None
    <2> DEFINE s2 == Append(s1, removed)  s3 == Append(s2, hunk)  s4 == Append(s3, minus)
               r == <<header, removed, hunk, minus>>
    <2>1. s4 = s \o r /\ r \in Seq(DiffLine)
      BY <1>3
    <2>2. Section(base, tree, p) = r /\ Shown(base, tree, p) = Known(p, p, "deleted", 0, 1, 1)
      BY <1>7 DEF Section, Shown, header, created, removed, mode1, mode2, hunk, minus, plus
    <2> HIDE DEF s1, s2, s3, s4, r
    <2>3. Open(s2, files, p, p, "deleted", 0, 0, 0)
      BY <1>1, LinesRefine DEF s2, created, removed, mode1, mode2, hunk, minus, plus
    <2>4. Open(s3, files, p, p, "deleted", 0, 0, 1)
      BY <2>3, HunkRefines DEF s3, created, removed, mode1, mode2, hunk, minus, plus
    <2>5. Open(s4, files, p, p, "deleted", 0, 1, 1)
      BY <2>4, HunkRefines DEF s4, created, removed, mode1, mode2, hunk, minus, plus
    <2> QED
      BY <1>4, <2>1, <2>2, <2>5
  <1>8. CASE base[p] # None /\ tree[p] # None /\ base[p].text = tree[p].text
    <2> DEFINE s2 == Append(s1, mode1)  s3 == Append(s2, mode2)
               r == <<header, mode1, mode2>>
    <2>1. s3 = s \o r /\ r \in Seq(DiffLine)
      BY <1>3
    <2>2. Section(base, tree, p) = r /\ Shown(base, tree, p) = Known(p, p, "permission_change", 0, 0, 0)
      BY <1>8 DEF Section, Shown, header, created, removed, mode1, mode2, hunk, minus, plus
    <2> HIDE DEF s1, s2, s3, r
    <2>3. Open(s2, files, p, p, "permission_change", 0, 0, 0)
      BY <1>1, LinesRefine DEF s2, created, removed, mode1, mode2, hunk, minus, plus
    <2>4. Open(s3, files, p, p, "permission_change", 0, 0, 0)
      BY <2>3, LinesRefine DEF s3, created, removed, mode1, mode2, hunk, minus, plus
    <2> QED
      BY <1>4, <2>1, <2>2, <2>4
  <1>9. CASE base[p] # None /\ tree[p] # None /\ base[p].text # tree[p].text /\ base[p].exec = tree[p].exec
    <2> DEFINE s2 == Append(s1, hunk)  s3 == Append(s2, minus)  s4 == Append(s3, plus)
               r == <<header, hunk, minus, plus>>
    <2>1. s4 = s \o r /\ r \in Seq(DiffLine)
      BY <1>3
    <2>2. Section(base, tree, p) = r /\ Shown(base, tree, p) = Known(p, p, "modified", 1, 1, 1)
      BY <1>9 DEF Section, Shown, header, created, removed, mode1, mode2, hunk, minus, plus
    <2> HIDE DEF s1, s2, s3, s4, r
    <2>3. Open(s2, files, p, p, "modified", 0, 0, 1)
      BY <1>1, HunkRefines DEF s2, created, removed, mode1, mode2, hunk, minus, plus
    <2>4. Open(s3, files, p, p, "modified", 0, 1, 1)
      BY <2>3, HunkRefines DEF s3, created, removed, mode1, mode2, hunk, minus, plus
    <2>5. Open(s4, files, p, p, "modified", 1, 1, 1)
      BY <2>4, HunkRefines DEF s4, created, removed, mode1, mode2, hunk, minus, plus
    <2> QED
      BY <1>4, <2>1, <2>2, <2>5
  <1>10. CASE base[p] # None /\ tree[p] # None /\ base[p].text # tree[p].text /\ base[p].exec # tree[p].exec
    <2> DEFINE s2 == Append(s1, mode1)  s3 == Append(s2, mode2)
               s4 == Append(s3, hunk)  s5 == Append(s4, minus)  s6 == Append(s5, plus)
               r == <<header, mode1, mode2, hunk, minus, plus>>
    <2>1. s6 = s \o r /\ r \in Seq(DiffLine)
      BY <1>3
    <2>2. Section(base, tree, p) = r /\ Shown(base, tree, p) = Known(p, p, "modified", 1, 1, 1)
      BY <1>10 DEF Section, Shown, header, created, removed, mode1, mode2, hunk, minus, plus
    <2> HIDE DEF s1, s2, s3, s4, s5, s6, r
    <2>3. Open(s2, files, p, p, "permission_change", 0, 0, 0)
      BY <1>1, LinesRefine DEF s2, created, removed, mode1, mode2, hunk, minus, plus
    <2>4. Open(s3, files, p, p, "permission_change", 0, 0, 0)
      BY <2>3, LinesRefine DEF s3, created, removed, mode1, mode2, hunk, minus, plus
    <2>5. Open(s4, files, p, p, "modified", 0, 0, 1)
      BY <2>4, HunkRefines DEF s4, created, removed, mode1, mode2, hunk, minus, plus
    <2>6. Open(s5, files, p, p, "modified", 0, 1, 1)
      BY <2>5, HunkRefines DEF s5, created, removed, mode1, mode2, hunk, minus, plus
    <2>7. Open(s6, files, p, p, "modified", 1, 1, 1)
      BY <2>6, HunkRefines DEF s6, created, removed, mode1, mode2, hunk, minus, plus
    <2> QED
      BY <1>4, <2>1, <2>2, <2>7
  <1> QED
    BY <1>5, <1>6, <1>7, <1>8, <1>9, <1>10

LEMMA RenameReads ==
    ASSUME NEW p \in Paths, NEW q \in Paths, NEW s \in Seq(DiffLine)
    PROVE  /\ RenameSection(p, q) \in Seq(DiffLine)
           /\ ParseGitDiff(s \o RenameSection(p, q)) = Append(ParseGitDiff(s), Known(q, p, "renamed", 0, 0, 0))
           /\ Known(q, p, "renamed", 0, 0, 0) \in FileRecord
  <1> DEFINE a == Line("diff", q)  b == Line("rename from", p)  c == Line("rename to", q)
             files == ParseGitDiff(s)
             s1 == Append(s, a)  s2 == Append(s1, b)  s3 == Append(s2, c)
  <1>1. a \in DiffLine /\ b \in DiffLine /\ c \in DiffLine
    BY LineIs DEF DiffKinds
  <1>2. s3 = s \o RenameSection(p, q) /\ RenameSection(p, q) \in Seq(DiffLine)
    <2>1. RenameSection(p, q) = <<a, b, c>>
      BY DEF RenameSection
    <2> HIDE DEF a, b, c
    <2> QED
      BY <1>1, <2>1
  <1>3. Open(s1, files, q, q, "modified", 0, 0, 0)
    BY HeaderOpens
  <1> HIDE DEF s1, s2, s3
  <1>4. Open(s2, files, q, p, "renamed", 0, 0, 0)
    BY <1>3, LinesRefine DEF s2
  <1>5. Open(s3, files, q, p, "renamed", 0, 0, 0)
    BY <1>4, LinesRefine DEF s3
  <1> QED
    BY <1>2, <1>5, KnownIs DEF Open

\* A finite set in some order: every element, each once.
LEMMA OrderIs ==
    ASSUME NEW S, IsFiniteSet(S)
    PROVE  /\ SetToSeq(S) \in Seq(S) /\ ToSet(SetToSeq(S)) = S
           /\ \A i, j \in 1..Len(SetToSeq(S)) : SetToSeq(S)[i] = SetToSeq(S)[j] => i = j
  <1> DEFINE n == Cardinality(S)  s == SetToSeq(S)
  <1>1. n \in Nat /\ ExistsBijection(1..n, S)
    BY FS_CardinalityType
  <1>2. PICK f : f \in Bijection(1..n, S)
    BY <1>1 DEF ExistsBijection
  <1>3. f \in [1..n -> S] /\ IsInjective(f)
    BY <1>2 DEF Bijection, Injection, IsInjective
  <1>4. s \in [1..n -> S] /\ IsInjective(s)
    BY <1>3 DEF SetToSeq
  <1>5. s \in Injection(1..n, S)
    BY <1>4 DEF Injection, IsInjective
  <1>6. IsFiniteSet(1..n) /\ Cardinality(1..n) = n
    <2>1. Cardinality(1..n) = IF 1 > n THEN 0 ELSE n - 1 + 1
      BY <1>1, FS_Interval
    <2> QED
      BY <1>1, <2>1, FS_Interval
  <1>7. s \in Surjection(1..n, S)
    BY <1>5, <1>6, FS_Injection
  <1>8. \A x \in S : \E i \in 1..n : s[i] = x
    BY <1>7 DEF Surjection
  <1> HIDE DEF s, n
  <1>9. s \in Seq(S) /\ Len(s) = n /\ DOMAIN s = 1..n
    BY <1>1, <1>4
  <1>10. ToSet(s) = S
    BY <1>4, <1>8, <1>9 DEF ToSet
  <1> QED
    BY <1>4, <1>9, <1>10 DEF IsInjective, s

\* The one rename of a diff, if it is one.
OneRename(base, tree) ==
  LET renames == {r \in Changed(base, tree) \X Changed(base, tree) :
                    tree[r[1]] = None /\ base[r[2]] = None /\ base[r[1]] = tree[r[2]]}
  IN IF Cardinality(renames) = 1 THEN CHOOSE r \in renames : TRUE ELSE <<None, None>>

\* The lines of a path in a diff.
LinesFor(base, tree, p) ==
  LET one == OneRename(base, tree)
  IN CASE p = one[1] -> <<>>
       [] p = one[2] -> RenameSection(one[1], one[2])
       [] OTHER -> Section(base, tree, p)

\* What a diff says of a path.
Entered(base, tree, p) ==
  LET one == OneRename(base, tree)
  IN IF p = one[2] THEN Known(p, one[1], "renamed", 0, 0, 0) ELSE Shown(base, tree, p)

Side == [Paths -> {None} \cup File]

LEMMA OneRenameIs ==
    ASSUME NEW base \in Side, NEW tree \in Side
    PROVE  LET one == OneRename(base, tree)
           IN \/ one[1] = None /\ one[2] = None
              \/ /\ one[1] \in Changed(base, tree) /\ one[2] \in Changed(base, tree)
                 /\ tree[one[1]] = None /\ base[one[2]] = None /\ base[one[1]] = tree[one[2]]
  <1> DEFINE renames == {r \in Changed(base, tree) \X Changed(base, tree) :
                           tree[r[1]] = None /\ base[r[2]] = None /\ base[r[1]] = tree[r[2]]}
  <1>1. CASE Cardinality(renames) = 1
    <2>1. renames # {}
      BY <1>1, FS_EmptySet
    <2>2. OneRename(base, tree) \in renames
      <3>1. OneRename(base, tree) = CHOOSE r \in renames : TRUE
        BY <1>1 DEF OneRename
      <3> HIDE DEF renames
      <3> QED
        BY <2>1, <3>1
    <2> QED
      BY <2>2
  <1>2. CASE Cardinality(renames) # 1
    BY <1>2 DEF OneRename
  <1> QED
    BY <1>1, <1>2

\* The lines of a path are read into what the diff says of it.
LEMMA RowReads ==
    ASSUME NEW base \in Side, NEW tree \in Side, NEW p \in Changed(base, tree), NEW s \in Seq(DiffLine)
    PROVE  LET one == OneRename(base, tree)
           IN /\ LinesFor(base, tree, p) \in Seq(DiffLine)
              /\ p = one[1] => s \o LinesFor(base, tree, p) = s
              /\ p # one[1] =>
                   /\ ParseGitDiff(s \o LinesFor(base, tree, p)) =
                        Append(ParseGitDiff(s), Entered(base, tree, p))
                   /\ Entered(base, tree, p) \in FileRecord /\ Entered(base, tree, p).path = p
  <1> DEFINE one == OneRename(base, tree)
  <1>1. p \in Paths /\ base[p] # tree[p] /\ None \notin Paths
    BY WorkspaceAssumption DEF Changed
  <1>2. \/ one[1] = None /\ one[2] = None
        \/ one[1] \in Paths /\ one[2] \in Paths /\ one[1] # one[2]
    BY OneRenameIs DEF Changed
  <1>3. base \in [Paths -> {None} \cup File] /\ tree \in [Paths -> {None} \cup File]
    BY DEF Side
  <1> HIDE DEF one
  <1>4. CASE p = one[1]
    <2>1. LinesFor(base, tree, p) = <<>>
      BY <1>1, <1>2, <1>4 DEF LinesFor, one
    <2>2. s \o <<>> = s /\ <<>> \in Seq(DiffLine)
      OBVIOUS
    <2> QED
      BY <1>4, <2>1, <2>2, Zenon DEF one
  <1>5. CASE p # one[1] /\ p = one[2]
    <2>1. /\ LinesFor(base, tree, p) = RenameSection(one[1], p)
          /\ Entered(base, tree, p) = Known(p, one[1], "renamed", 0, 0, 0)
      BY <1>5 DEF LinesFor, Entered, one
    <2>2. one[1] \in Paths
      BY <1>1, <1>2, <1>5
    <2>3. /\ ParseGitDiff(s \o RenameSection(one[1], p)) =
               Append(ParseGitDiff(s), Known(p, one[1], "renamed", 0, 0, 0))
          /\ Known(p, one[1], "renamed", 0, 0, 0) \in FileRecord
          /\ RenameSection(one[1], p) \in Seq(DiffLine)
      BY <1>1, <2>2, RenameReads
    <2>4. Known(p, one[1], "renamed", 0, 0, 0).path = p
      BY DEF Known
    <2> QED
      BY <1>5, <2>1, <2>3, <2>4 DEF one
  <1>6. CASE p # one[1] /\ p # one[2]
    <2>1. LinesFor(base, tree, p) = Section(base, tree, p) /\ Entered(base, tree, p) = Shown(base, tree, p)
      BY <1>6 DEF LinesFor, Entered, one
    <2>2. /\ ParseGitDiff(s \o Section(base, tree, p)) = Append(ParseGitDiff(s), Shown(base, tree, p))
          /\ Shown(base, tree, p) \in FileRecord /\ Section(base, tree, p) \in Seq(DiffLine)
      BY <1>1, <1>3, SectionReads
    <2>3. Shown(base, tree, p).path = p
      BY DEF Shown, Known
    <2> QED
      BY <1>6, <2>1, <2>2, <2>3 DEF one
  <1> QED
    BY <1>4, <1>5, <1>6

\* What is parsed of the paths q, in this order.
Rows(base, tree, q) == [i \in DOMAIN q |-> LinesFor(base, tree, q[i])]

Parsed(base, tree, q) == ParseGitDiff(FlattenSeq(Rows(base, tree, q)))

LEMMA ParsedGrows ==
    ASSUME NEW base \in Side, NEW tree \in Side
    PROVE  LET one == OneRename(base, tree)
           IN /\ Parsed(base, tree, <<>>) = <<>>
              /\ \A q \in Seq(Changed(base, tree)), x \in Changed(base, tree) :
                   /\ Parsed(base, tree, q) \in Seq(FileRecord)
                   /\ x = one[1] => Parsed(base, tree, Append(q, x)) = Parsed(base, tree, q)
                   /\ x # one[1] =>
                        Parsed(base, tree, Append(q, x)) =
                          Append(Parsed(base, tree, q), Entered(base, tree, x))
  <1> DEFINE C == Changed(base, tree)  one == OneRename(base, tree)
             rows(q) == Rows(base, tree, q)  row(x) == LinesFor(base, tree, x)
  <1>1. \A x \in C : row(x) \in Seq(DiffLine)
    <2>1. <<>> \in Seq(DiffLine)
      OBVIOUS
    <2> QED
      BY <2>1, RowReads
  <1>2. /\ FlattenSeq(<<>>) = <<>>
        /\ \A r \in Seq(Seq(DiffLine)) : FlattenSeq(r) \in Seq(DiffLine)
        /\ \A r \in Seq(Seq(DiffLine)), l \in Seq(DiffLine) : FlattenSeq(Append(r, l)) = FlattenSeq(r) \o l
    BY FlattenGrows
  <1>3. /\ ParseGitDiff(<<>>) = <<>>
        /\ \A s \in Seq(DiffLine) : ParseGitDiff(s) \in Seq(FileRecord)
    BY ParseGrows
  <1>4. Parsed(base, tree, <<>>) = <<>>
    <2>1. Rows(base, tree, <<>>) = <<>>
      BY DEF Rows
    <2> QED
      BY <1>2, <1>3, <2>1, Zenon DEF Parsed
  <1>5. ASSUME NEW q \in Seq(C), NEW x \in C
        PROVE  /\ rows(q) \in Seq(Seq(DiffLine))
               /\ rows(Append(q, x)) = Append(rows(q), row(x))
    <2> DEFINE L == Seq(DiffLine)
    <2>1. /\ Len(q) \in Nat /\ DOMAIN q = 1..Len(q) /\ \A i \in 1..Len(q) : q[i] \in C
          /\ Append(q, x) \in Seq(C) /\ Len(Append(q, x)) = Len(q) + 1
          /\ DOMAIN Append(q, x) = 1..(Len(q) + 1)
          /\ Append(q, x)[Len(q) + 1] = x /\ \A i \in 1..Len(q) : Append(q, x)[i] = q[i]
      OBVIOUS
    <2>2. /\ rows(q) = [i \in 1..Len(q) |-> row(q[i])]
          /\ rows(Append(q, x)) = [i \in 1..(Len(q) + 1) |-> row(Append(q, x)[i])]
      BY <2>1 DEF Rows
    <2> HIDE DEF rows, row, C, L
    <2>3. /\ rows(q) \in Seq(L) /\ Len(rows(q)) = Len(q) /\ \A i \in 1..Len(q) : rows(q)[i] = row(q[i])
      BY <1>1, <2>1, <2>2 DEF L
    <2>4. /\ rows(Append(q, x)) \in Seq(L) /\ Len(rows(Append(q, x))) = Len(q) + 1
          /\ rows(Append(q, x))[Len(q) + 1] = row(x)
          /\ \A i \in 1..Len(q) : rows(Append(q, x))[i] = row(q[i])
      BY <1>1, <2>1, <2>2 DEF L
    <2>5. row(x) \in L
      BY <1>1 DEF L
    <2>6. ASSUME NEW a \in Seq(L), NEW b \in Seq(L), NEW l \in L, Len(b) = Len(a) + 1, b[Len(a) + 1] = l,
                 \A i \in 1..Len(a) : b[i] = a[i]
          PROVE  b = Append(a, l)
      BY <2>6
    <2> QED
      BY <2>3, <2>4, <2>5, <2>6 DEF L
  <1>6. ASSUME NEW q \in Seq(C), NEW x \in C
        PROVE  /\ Parsed(base, tree, q) \in Seq(FileRecord)
               /\ x = one[1] => Parsed(base, tree, Append(q, x)) = Parsed(base, tree, q)
               /\ x # one[1] =>
                    Parsed(base, tree, Append(q, x)) =
                      Append(Parsed(base, tree, q), Entered(base, tree, x))
    <2> DEFINE flat == FlattenSeq(rows(q))
    <2>1. /\ rows(q) \in Seq(Seq(DiffLine))
          /\ rows(Append(q, x)) = Append(rows(q), row(x))
          /\ row(x) \in Seq(DiffLine)
      BY <1>1, <1>5
    <2>2. flat \in Seq(DiffLine) /\ FlattenSeq(rows(Append(q, x))) = flat \o row(x)
      BY <1>2, <2>1
    <2>3. /\ x = one[1] => flat \o row(x) = flat
          /\ x # one[1] => ParseGitDiff(flat \o row(x)) = Append(ParseGitDiff(flat), Entered(base, tree, x))
      BY <2>2, RowReads
    <2>4. Parsed(base, tree, q) = ParseGitDiff(flat)
          /\ Parsed(base, tree, Append(q, x)) = ParseGitDiff(flat \o row(x))
      BY <2>2 DEF Parsed
    <2> QED
      BY <1>3, <2>2, <2>3, <2>4
  <1> QED
    BY <1>4, <1>6

\* The files tell of the paths q, but for the one renamed, each once and as it is.
Tells(files, base, tree, q) ==
  LET one == OneRename(base, tree)
  IN /\ files \in Seq(FileRecord)
     /\ \A i \in 1..Len(files) : \E p \in ToSet(q) : p # one[1] /\ files[i] = Entered(base, tree, p)
     /\ \A p \in ToSet(q) : p # one[1] => \E i \in 1..Len(files) : files[i] = Entered(base, tree, p)
     /\ (\A i, j \in 1..Len(q) : q[i] = q[j] => i = j) =>
          \A i, j \in 1..Len(files) : files[i].path = files[j].path => i = j

LEMMA TellsGrows ==
    ASSUME NEW base \in Side, NEW tree \in Side, NEW q \in Seq(Changed(base, tree)),
           NEW x \in Changed(base, tree), NEW files, Tells(files, base, tree, q)
    PROVE  /\ x = OneRename(base, tree)[1] => Tells(files, base, tree, Append(q, x))
           /\ x # OneRename(base, tree)[1] =>
                Tells(Append(files, Entered(base, tree, x)), base, tree, Append(q, x))
  <1> DEFINE one == OneRename(base, tree)  r == Entered(base, tree, x)  q2 == Append(q, x)
  <1>1. /\ files \in Seq(FileRecord) /\ Len(files) \in Nat /\ Len(q) \in Nat
        /\ \A i \in 1..Len(files) : \E p \in ToSet(q) : p # one[1] /\ files[i] = Entered(base, tree, p)
        /\ \A p \in ToSet(q) : p # one[1] => \E i \in 1..Len(files) : files[i] = Entered(base, tree, p)
        /\ (\A i, j \in 1..Len(q) : q[i] = q[j] => i = j) =>
             \A i, j \in 1..Len(files) : files[i].path = files[j].path => i = j
    BY DEF Tells
  <1>2. /\ Len(q2) = Len(q) + 1 /\ q2[Len(q) + 1] = x /\ \A i \in 1..Len(q) : q2[i] = q[i]
        /\ q2 \in Seq(Changed(base, tree)) /\ DOMAIN q2 = 1..(Len(q) + 1) /\ DOMAIN q = 1..Len(q)
    OBVIOUS
  <1>3. ToSet(q2) = ToSet(q) \cup {x} /\ ToSet(q) \subseteq Changed(base, tree)
    <2>1. \A i \in 1..Len(q) : q[i] \in Changed(base, tree)
      OBVIOUS
    <2> HIDE DEF q2
    <2>2. \A i \in 1..(Len(q) + 1) : i = Len(q) + 1 \/ i \in 1..Len(q)
      BY <1>1
    <2>3. \A i \in 1..Len(q) : i \in 1..(Len(q) + 1)
      BY <1>1
    <2>4. Len(q) + 1 \in 1..(Len(q) + 1)
      BY <1>1
    <2> QED
      BY <1>2, <2>1, <2>2, <2>3, <2>4 DEF ToSet
  <1>4. \A p \in Changed(base, tree) :
          p # one[1] => Entered(base, tree, p) \in FileRecord /\ Entered(base, tree, p).path = p
    <2>1. <<>> \in Seq(DiffLine)
      OBVIOUS
    <2> QED
      BY <2>1, RowReads
  <1>5. (\A i, j \in 1..Len(q2) : q2[i] = q2[j] => i = j) =>
          (\A i, j \in 1..Len(q) : q[i] = q[j] => i = j) /\ x \notin ToSet(q)
    <2> SUFFICES ASSUME \A i, j \in 1..Len(q2) : q2[i] = q2[j] => i = j
                 PROVE  (\A i, j \in 1..Len(q) : q[i] = q[j] => i = j) /\ x \notin ToSet(q)
      OBVIOUS
    <2>1. \A i \in 1..Len(q) : i \in 1..Len(q2) /\ i # Len(q) + 1
      BY <1>1, <1>2
    <2>2. Len(q) + 1 \in 1..Len(q2)
      BY <1>1, <1>2
    <2> HIDE DEF q2
    <2> QED
      BY <1>2, <2>1, <2>2 DEF ToSet
  <1> HIDE DEF one, r, q2
  <1>6. ASSUME x = one[1] PROVE Tells(files, base, tree, q2)
    BY <1>1, <1>3, <1>5, <1>6 DEF Tells, one
  <1>7. ASSUME x # one[1] PROVE Tells(Append(files, r), base, tree, q2)
    <2> DEFINE f2 == Append(files, r)
    <2>1. r \in FileRecord /\ r.path = x
      BY <1>4, <1>7 DEF r
    <2>2. /\ f2 \in Seq(FileRecord) /\ Len(f2) = Len(files) + 1 /\ f2[Len(files) + 1] = r
          /\ \A i \in 1..Len(files) : f2[i] = files[i]
      BY <1>1, <2>1
    <2> HIDE DEF f2
    <2>3. /\ \A i \in 1..Len(f2) : i = Len(files) + 1 \/ i \in 1..Len(files)
          /\ \A i \in 1..Len(files) : i \in 1..Len(f2)
          /\ Len(files) + 1 \in 1..Len(f2)
      BY <1>1, <2>2
    <2>4. \A i \in 1..Len(f2) : \E p \in ToSet(q2) : p # one[1] /\ f2[i] = Entered(base, tree, p)
      BY <1>1, <1>3, <1>7, <2>2, <2>3 DEF r
    <2>5. \A p \in ToSet(q2) : p # one[1] => \E i \in 1..Len(f2) : f2[i] = Entered(base, tree, p)
      BY <1>1, <1>3, <2>2, <2>3 DEF r
    <2>6. ASSUME \A i, j \in 1..Len(q2) : q2[i] = q2[j] => i = j
          PROVE  \A i, j \in 1..Len(f2) : f2[i].path = f2[j].path => i = j
      <3>1. x \notin ToSet(q) /\ \A i, j \in 1..Len(files) : files[i].path = files[j].path => i = j
        BY <1>1, <1>5, <2>6
      <3>2. \A i \in 1..Len(files) : files[i].path \in ToSet(q)
        BY <1>1, <1>3, <1>4
      <3>3. \A i \in 1..Len(files) : files[i].path # x
        BY <3>1, <3>2
      <3> QED
        BY <2>1, <2>2, <2>3, <3>1, <3>3
    <2> QED
      BY <2>2, <2>4, <2>5, <2>6 DEF Tells, f2, one
  <1> QED
    BY <1>6, <1>7 DEF one, r, q2

\* The diff of two trees tells of each path they differ in.
LEMMA DiffTells ==
    ASSUME NEW base \in Side, NEW tree \in Side
    PROVE  LET files == ParseGitDiff(GitDiff(base, tree))  one == OneRename(base, tree)
           IN /\ files \in Seq(FileRecord)
              /\ \A i \in 1..Len(files) :
                   \E p \in Changed(base, tree) : p # one[1] /\ files[i] = Entered(base, tree, p)
              /\ \A p \in Changed(base, tree) :
                   p # one[1] => \E i \in 1..Len(files) : files[i] = Entered(base, tree, p)
              /\ \A i, j \in 1..Len(files) : files[i].path = files[j].path => i = j
  <1> DEFINE C == Changed(base, tree)  P == {q \in Seq(C) : Tells(Parsed(base, tree, q), base, tree, q)}
             order == SetToSeq(C)
  <1>1. <<>> \in P
    <2>1. <<>> \in Seq(C) /\ ToSet(<<>>) = {} /\ <<>> \in Seq(FileRecord) /\ Len(<<>>) = 0
      BY DEF ToSet
    <2>2. Tells(<<>>, base, tree, <<>>)
      <3>1. \A i \in 1..Len(<<>>) : FALSE
        BY <2>1
      <3> QED
        BY <2>1, <3>1, Zenon DEF Tells
    <2> QED
      BY <2>1, <2>2, ParsedGrows, Zenon
  <1>2. ASSUME NEW q \in Seq(C), NEW x \in C, q \in P PROVE Append(q, x) \in P
    <2>1. Append(q, x) \in Seq(C)
      OBVIOUS
    <2>2. Tells(Parsed(base, tree, q), base, tree, q)
      BY <1>2
    <2>3. /\ x = OneRename(base, tree)[1] => Parsed(base, tree, Append(q, x)) = Parsed(base, tree, q)
          /\ x # OneRename(base, tree)[1] =>
               Parsed(base, tree, Append(q, x)) = Append(Parsed(base, tree, q), Entered(base, tree, x))
      BY ParsedGrows, Zenon
    <2>4. /\ x = OneRename(base, tree)[1] => Tells(Parsed(base, tree, q), base, tree, Append(q, x))
          /\ x # OneRename(base, tree)[1] =>
               Tells(Append(Parsed(base, tree, q), Entered(base, tree, x)), base, tree, Append(q, x))
      BY <2>2, TellsGrows, Zenon
    <2>5. Tells(Parsed(base, tree, Append(q, x)), base, tree, Append(q, x))
      BY <2>3, <2>4
    <2> QED
      BY <2>1, <2>5
  <1>3. Seq(C) \subseteq P
    <2> HIDE DEF P, C
    <2> QED
      BY <1>1, <1>2, AllSeq, Zenon
  <1>4. IsFiniteSet(C)
    <2>1. IsFiniteSet(Paths)
      BY WorkspaceAssumption, FS_AddElement DEF Paths
    <2>2. C \subseteq Paths
      BY DEF Changed
    <2> QED
      BY <2>1, <2>2, FS_Subset
  <1>5. order \in Seq(C) /\ ToSet(order) = C /\ \A i, j \in 1..Len(order) : order[i] = order[j] => i = j
    BY <1>4, OrderIs
  <1>6. Tells(Parsed(base, tree, order), base, tree, order)
    BY <1>3, <1>5
  <1>7. ParseGitDiff(GitDiff(base, tree)) = Parsed(base, tree, order)
    <2>1. GitDiff(base, tree) = FlattenSeq(Rows(base, tree, order))
      BY Zenon DEF GitDiff, Rows, LinesFor, OneRename
    <2> QED
      BY <2>1 DEF Parsed
  <1> QED
    BY <1>5, <1>6, <1>7 DEF Tells

\* The manifest of the changes between two trees.
ManifestOf(base, tree) ==
  LET files == ParseGitDiff(GitDiff(base, tree))
  IN [i \in DOMAIN files |->
        [file |-> files[i], before |-> HashAt(Fingerprint(base), files[i].old),
         after |-> HashAt(Fingerprint(tree), files[i].path)]]

\* A workspace is hydrated once, from nothing but its fixture; its baseline and
\* its fingerprint are of the same tree, and a manifest for which git answered is
\* of the tree as it is.
DiffInv ==
  /\ DOMAIN ws = WorkspaceFields
  /\ ws.place = "new" => ws.fixture \in Side /\ ws.tree = NoFiles /\ ws.manifest = None
  /\ ws.place = "local" =>
       /\ ws.baseline \in Side /\ ws.tree \in Side /\ ws.before = Fingerprint(ws.baseline)
       /\ ws.manifest # None /\ ws.answered => ws.manifest = ManifestOf(ws.baseline, ws.tree)

LEMMA DiffStarts == WorkspaceInit => DiffInv
  <1> SUFFICES ASSUME WorkspaceInit PROVE DiffInv
    OBVIOUS
  <1>1. PICK fixture \in [Paths -> {None} \cup {Plain(t) : t \in Texts}], repository \in BOOLEAN,
             place \in {"new", "layout"} :
          ws = [fixture |-> fixture, repository |-> repository, tree |-> NoFiles,
                baseline |-> None, before |-> None, manifest |-> None, edits |-> 0,
                known |-> {}, answered |-> TRUE,
                place |-> place, dirs |-> [l \in Levels |-> "absent"], authority |-> None,
                writer |-> "idle", descriptor |-> None, wrote |-> {}]
    BY Zenon DEF WorkspaceInit
  <1>2. fixture \in Side
    <2>1. \A t \in Texts : Plain(t) \in File
      BY DEF Plain, File
    <2> QED
      BY <2>1 DEF Side
  <1> HIDE DEF WorkspaceInit
  <1> DEFINE none == [l \in Levels |-> "absent"]  tree == NoFiles
  <1> HIDE DEF none, tree
  <1>3. ws = [fixture |-> fixture, repository |-> repository, tree |-> tree,
                baseline |-> None, before |-> None, manifest |-> None, edits |-> 0,
                known |-> {}, answered |-> TRUE,
                place |-> place, dirs |-> none, authority |-> None,
                writer |-> "idle", descriptor |-> None, wrote |-> {}]
    BY <1>1 DEF none, tree
  <1>4. /\ DOMAIN ws = WorkspaceFields /\ ws.place \in {"new", "layout"} /\ ws.fixture = fixture
        /\ ws.tree = tree /\ ws.manifest = None
    BY <1>3 DEF WorkspaceFields
  <1> QED
    BY <1>2, <1>4 DEF DiffInv, tree

LEMMA DiffKeeps == DiffInv /\ WorkspaceNext => DiffInv'
  <1> SUFFICES ASSUME DiffInv, WorkspaceNext PROVE DiffInv'
    OBVIOUS
  <1>0. DOMAIN ws = WorkspaceFields
    BY DEF DiffInv
  <1>1. ASSUME DOMAIN ws' = WorkspaceFields,
               UNCHANGED <<ws.fixture, ws.tree, ws.baseline, ws.before, ws.manifest, ws.answered,
                           ws.place>>
        PROVE  DiffInv'
    BY <1>1 DEF DiffInv
  <1>2. ASSUME DOMAIN ws' = WorkspaceFields, ws'.place \notin {"new", "local"} PROVE DiffInv'
    BY <1>2 DEF DiffInv
  <1>3. CASE PrepareLayout \/ OtherReplacesDirectory
    <2>1. PICK dirs, authority : ws' = [ws EXCEPT !.dirs = dirs, !.authority = authority]
      <3>1. CASE PrepareLayout
        BY <3>1, Zenon DEF PrepareLayout
      <3>2. CASE OtherReplacesDirectory
        <4>1. PICK l \in Levels, kind \in {"link", "other", "made"} : ws' = [ws EXCEPT !.dirs[l] = kind]
          BY <3>2 DEF OtherReplacesDirectory
        <4>2. ws' = [ws EXCEPT !.dirs = [ws.dirs EXCEPT ![l] = kind], !.authority = ws.authority]
          BY <4>1, <1>0 DEF WorkspaceFields
        <4> QED
          BY <4>2
      <3> QED
        BY <1>3, <3>1, <3>2
    <2> QED
      BY <2>1, <1>0, <1>1 DEF WorkspaceFields
  <1>4. CASE CheckAuthority \/ OpenRunDirectory \/ WriteArtifact
    <2>1. CASE CheckAuthority \/ OpenRunDirectory
      BY <2>1, <1>0, <1>1 DEF CheckAuthority, OpenRunDirectory, WorkspaceFields
    <2>2. CASE WriteArtifact
      <3>1. PICK wrote : ws' = [ws EXCEPT !.writer = "idle", !.descriptor = None, !.wrote = wrote]
        BY <2>2, Zenon DEF WriteArtifact
      <3> QED
        BY <3>1, <1>0, <1>1 DEF WorkspaceFields
    <2> QED
      BY <1>4, <2>1, <2>2
  <1>5. CASE HydrateLocal
    <2> DEFINE tree == Overlay(ws.tree, ws.fixture)
               baseline == IF ws.repository THEN ws.fixture ELSE tree
               known == {p \in Paths : baseline[p] # None}
    <2>1. /\ ws.place = "new"
          /\ ws' = [ws EXCEPT !.place = "local", !.tree = tree, !.baseline = baseline, !.known = known,
                              !.before = Fingerprint(tree)]
      BY <1>5, Zenon DEF HydrateLocal
    <2>2. ws.fixture \in Side /\ ws.tree = NoFiles /\ ws.manifest = None
      BY <2>1 DEF DiffInv
    <2>3. tree = ws.fixture
      BY <2>2 DEF Overlay, NoFiles, Side
    <2>4. baseline = tree /\ tree \in Side
      BY <2>2, <2>3
    <2> HIDE DEF tree, baseline, known
    <2> DEFINE before == Fingerprint(tree)
    <2> HIDE DEF before
    <2>5. ws' = [ws EXCEPT !.place = "local", !.tree = tree, !.baseline = baseline, !.known = known,
                           !.before = before]
      BY <2>1 DEF before
    <2>6. /\ DOMAIN ws' = WorkspaceFields /\ ws'.place = "local" /\ ws'.tree = tree
          /\ ws'.baseline = baseline /\ ws'.before = before /\ ws'.manifest = ws.manifest
      BY <2>5, <1>0 DEF WorkspaceFields
    <2> QED
      BY <2>2, <2>4, <2>6 DEF DiffInv, before
  <1>6. CASE HydrationFails
    <2>1. PICK tree : ws' = [ws EXCEPT !.place = "failed", !.tree = tree]
      BY <1>6, Zenon DEF HydrationFails
    <2> QED
      BY <2>1, <1>0, <1>2 DEF WorkspaceFields
  <1>7. ASSUME NEW b \in BOOLEAN, HydrateContainer(b) PROVE DiffInv'
    <2>1. PICK baseline, before :
            \/ ws' = [ws EXCEPT !.place = "failed"]
            \/ ws' = [ws EXCEPT !.place = "container", !.baseline = baseline, !.before = before]
      BY <1>7, Zenon DEF HydrateContainer
    <2> QED
      BY <2>1, <1>0, <1>2 DEF WorkspaceFields
  <1>8. CASE Edit
    <2>1. PICK p \in Paths, file \in File \cup {None} :
            /\ ws.place \in {"local", "container"}
            /\ ws' = [ws EXCEPT !.tree[p] = file, !.edits = @ + 1, !.manifest = None]
      BY <1>8 DEF Edit
    <2> DEFINE tree == [ws.tree EXCEPT ![p] = file]
    <2>2. ws.tree \in Side => tree \in Side
      BY DEF Side
    <2>3. /\ DOMAIN ws' = WorkspaceFields /\ ws'.place = ws.place /\ ws'.tree = tree
          /\ ws'.baseline = ws.baseline /\ ws'.before = ws.before /\ ws'.manifest = None
      BY <2>1, <1>0 DEF WorkspaceFields
    <2> HIDE DEF tree
    <2> QED
      BY <2>1, <2>2, <2>3 DEF DiffInv
  <1>9. CASE ExtractDiff
    <2>1. PICK known \in {ws.known, InIndex}, diffed \in BOOLEAN :
            /\ ws.place = "local"
            /\ ws' = [ws EXCEPT !.known = known, !.answered = diffed /\ known = InIndex,
                                !.manifest = ManifestFor(IF diffed THEN DiffOf(known) ELSE <<>>,
                                                      Fingerprint(ws.tree))]
      BY <1>9, Zenon DEF ExtractDiff
    <2>2. ManifestFor(DiffOf(InIndex), Fingerprint(ws.tree)) = ManifestOf(ws.baseline, ws.tree)
      <3>1. ws.tree \in Side /\ ws.before = Fingerprint(ws.baseline)
        BY <2>1 DEF DiffInv
      <3>2. [p \in Paths |-> IF p \in InIndex THEN ws.tree[p] ELSE None] = ws.tree
        BY <3>1 DEF InIndex, Side
      <3>3. DiffOf(InIndex) = ParseGitDiff(GitDiff(ws.baseline, ws.tree))
        BY <3>2, Zenon DEF DiffOf
      <3> QED
        BY <3>1, <3>3, Zenon DEF ManifestFor, ManifestOf
    <2> DEFINE answered == diffed /\ known = InIndex
               manifest == ManifestFor(IF diffed THEN DiffOf(known) ELSE <<>>, Fingerprint(ws.tree))
    <2>3. answered => manifest = ManifestOf(ws.baseline, ws.tree)
      BY <2>2
    <2> HIDE DEF answered, manifest
    <2>4. ws' = [ws EXCEPT !.known = known, !.answered = answered, !.manifest = manifest]
      BY <2>1 DEF answered, manifest
    <2>5. /\ DOMAIN ws' = WorkspaceFields /\ ws'.place = ws.place /\ ws'.tree = ws.tree
          /\ ws'.baseline = ws.baseline /\ ws'.before = ws.before /\ ws'.manifest = manifest
          /\ ws'.answered = answered
      BY <2>4, <1>0 DEF WorkspaceFields
    <2> QED
      BY <2>1, <2>3, <2>5 DEF DiffInv
  <1>10. CASE ExtractContainerDiff
    <2>1. PICK known, manifest :
            /\ ws.place = "container"
            /\ ws' = [ws EXCEPT !.known = known, !.answered = TRUE, !.manifest = manifest]
      BY <1>10, Zenon DEF ExtractContainerDiff
    <2> QED
      BY <2>1, <1>0, <1>2 DEF WorkspaceFields
  <1> QED
    BY <1>3, <1>4, <1>5, <1>6, <1>7, <1>8, <1>9, <1>10 DEF WorkspaceNext

\* What the diff says of a path fits its two files, and names the path.
LEMMA RecordFits ==
    ASSUME NEW base \in Side, NEW tree \in Side, NEW p \in Changed(base, tree),
           p # OneRename(base, tree)[1]
    PROVE  LET f == Entered(base, tree, p)  old == base[f.old]  new == tree[f.path]
           IN /\ f.path = p /\ f.old \in Paths
              /\ f.type = "added" <=> old = None
              /\ f.type = "deleted" <=> new = None
              /\ f.type = "permission_change" <=>
                   old # None /\ new # None /\ f.old = f.path /\ old.text = new.text
              /\ f.insertions - f.deletions =
                   (IF new # None /\ old = None THEN 1 ELSE 0) - (IF new = None THEN 1 ELSE 0)
  <1> DEFINE one == OneRename(base, tree)  f == Entered(base, tree, p)
  <1>1. p \in Paths /\ base[p] # tree[p] /\ None \notin Paths
    BY WorkspaceAssumption DEF Changed
  <1>2. \/ one[1] = None /\ one[2] = None
        \/ /\ one[1] \in Paths /\ one[2] \in Paths /\ base[one[1]] # tree[one[1]]
           /\ tree[one[1]] = None /\ base[one[2]] = None /\ base[one[1]] = tree[one[2]]
    BY OneRenameIs DEF Changed
  <1>3. /\ p = one[2] => f = Known(p, one[1], "renamed", 0, 0, 0)
        /\ p # one[2] => f = Shown(base, tree, p)
    BY DEF Entered
  <1> HIDE DEF one, f
  <1>4. CASE p = one[2]
    <2>1. /\ f.path = p /\ f.old = one[1] /\ f.type = "renamed" /\ f.insertions = 0 /\ f.deletions = 0
      BY <1>3, <1>4 DEF Known
    <2>2. /\ f.old \in Paths /\ f.old # f.path /\ base[f.old] # None /\ tree[f.path] # None
      BY <1>1, <1>2, <1>4, <2>1
    <2> QED
      BY <2>1, <2>2 DEF f
  <1>5. CASE p # one[2]
    <2>1. f.path = p /\ f.old = p
      BY <1>3, <1>5 DEF Shown, Known
    <2>2. CASE base[p] = None
      <3>1. f.type = "added" /\ f.insertions = 1 /\ f.deletions = 0
        BY <1>3, <1>5, <2>2 DEF Shown, Known
      <3> QED
        BY <1>1, <2>1, <2>2, <3>1 DEF f
    <2>3. CASE base[p] # None /\ tree[p] = None
      <3>1. f.type = "deleted" /\ f.insertions = 0 /\ f.deletions = 1
        BY <1>3, <1>5, <2>3 DEF Shown, Known
      <3> QED
        BY <1>1, <2>1, <2>3, <3>1 DEF f
    <2>4. CASE base[p] # None /\ tree[p] # None /\ base[p].text = tree[p].text
      <3>1. f.type = "permission_change" /\ f.insertions = 0 /\ f.deletions = 0
        BY <1>3, <1>5, <2>4 DEF Shown, Known
      <3> QED
        BY <1>1, <2>1, <2>4, <3>1 DEF f
    <2>5. CASE base[p] # None /\ tree[p] # None /\ base[p].text # tree[p].text
      <3>1. f.type = "modified" /\ f.insertions = 1 /\ f.deletions = 1
        BY <1>3, <1>5, <2>5 DEF Shown, Known
      <3> QED
        BY <1>1, <2>1, <2>5, <3>1 DEF f
    <2> QED
      BY <2>2, <2>3, <2>4, <2>5
  <1> QED
    BY <1>4, <1>5

\* A hash is that of the file the path names.
LEMMA HashIs ==
    ASSUME NEW tree \in Side, NEW p \in Files, tree[p] # None
    PROVE  HashAt(Fingerprint(tree), p) = tree[p].text
  BY DEF HashAt, Fingerprint

\* What the invariant says of the manifest.
LEMMA DiffHolds == DiffInv => DiffTellsChanges
  <1> SUFFICES ASSUME DiffInv, ws.manifest # None, ws.place = "local", ws.answered
               PROVE  DiffTellsChanges
    BY DEF DiffTellsChanges
  <1> DEFINE base == ws.baseline  tree == ws.tree  C == Changed(base, tree)
             one == OneRename(base, tree)  files == ParseGitDiff(GitDiff(base, tree))
             manifest == ws.manifest
  <1>1. base \in Side /\ tree \in Side /\ ws.before = Fingerprint(base) /\ manifest = ManifestOf(base, tree)
    BY DEF DiffInv
  <1>2. /\ files \in Seq(FileRecord)
        /\ \A i \in 1..Len(files) : \E p \in C : p # one[1] /\ files[i] = Entered(base, tree, p)
        /\ \A p \in C : p # one[1] => \E i \in 1..Len(files) : files[i] = Entered(base, tree, p)
        /\ \A i, j \in 1..Len(files) : files[i].path = files[j].path => i = j
    BY <1>1, DiffTells
  <1>3. /\ DOMAIN files = 1..Len(files) /\ Len(files) \in Nat
        /\ DOMAIN manifest = 1..Len(files)
        /\ \A i \in 1..Len(files) :
             /\ manifest[i].file = files[i]
             /\ manifest[i].before = HashAt(Fingerprint(base), files[i].old)
             /\ manifest[i].after = HashAt(Fingerprint(tree), files[i].path)
    <2>1. DOMAIN files = 1..Len(files) /\ Len(files) \in Nat
      BY <1>2
    <2> HIDE DEF files
    <2> QED
      BY <1>1, <2>1 DEF ManifestOf, files
  <1>4. \A p \in C : p # one[1] =>
          LET f == Entered(base, tree, p)  old == base[f.old]  new == tree[f.path]
          IN /\ f.path = p /\ f.old \in Paths
             /\ f.type = "added" <=> old = None
             /\ f.type = "deleted" <=> new = None
             /\ f.type = "permission_change" <=>
                  old # None /\ new # None /\ f.old = f.path /\ old.text = new.text
             /\ f.insertions - f.deletions =
                  (IF new # None /\ old = None THEN 1 ELSE 0) - (IF new = None THEN 1 ELSE 0)
    BY <1>1, RecordFits
  <1>5. \A p \in Paths : Cardinality(EntriesFor(p)) <= 1
    <2> SUFFICES ASSUME NEW p \in Paths PROVE Cardinality(EntriesFor(p)) <= 1
      OBVIOUS
    <2>1. \A i, j \in EntriesFor(p) : i = j
      BY <1>2, <1>3 DEF EntriesFor
    <2>2. CASE EntriesFor(p) = {}
      <3>1. Cardinality(EntriesFor(p)) = 0
        BY <2>2, FS_EmptySet
      <3> QED
        BY <3>1
    <2>3. CASE EntriesFor(p) # {}
      <3>1. PICK i \in EntriesFor(p) : TRUE
        BY <2>3
      <3>2. EntriesFor(p) = {i}
        BY <2>1, <3>1
      <3>3. Cardinality({i}) = 1
        BY FS_Singleton
      <3> QED
        BY <3>2, <3>3
    <2> QED
      BY <2>2, <2>3
  <1> HIDE DEF base, tree, C, one, files, manifest
  <1>6. ASSUME NEW i \in DOMAIN manifest
        PROVE  LET e == manifest[i]  f == e.file
                   old == base[f.old]  new == tree[f.path]
               IN /\ f.type = "added" <=> old = None
                  /\ f.type = "deleted" <=> new = None
                  /\ f.type = "permission_change" <=>
                       old # None /\ new # None /\ f.old = f.path /\ old.text = new.text
                  /\ f.insertions - f.deletions =
                       (IF new # None /\ old = None THEN 1 ELSE 0) - (IF new = None THEN 1 ELSE 0)
                  /\ f.old \in Files /\ old # None => e.before = old.text
                  /\ f.path \in Files /\ new # None => e.after = new.text
    <2>1. i \in 1..Len(files) /\ manifest[i].file = files[i]
      BY <1>3
    <2>2. PICK p \in C : p # one[1] /\ files[i] = Entered(base, tree, p)
      BY <1>2, <2>1
    <2>3. LET f == files[i]  old == base[f.old]  new == tree[f.path]
          IN /\ f.type = "added" <=> old = None
             /\ f.type = "deleted" <=> new = None
             /\ f.type = "permission_change" <=>
                  old # None /\ new # None /\ f.old = f.path /\ old.text = new.text
             /\ f.insertions - f.deletions =
                  (IF new # None /\ old = None THEN 1 ELSE 0) - (IF new = None THEN 1 ELSE 0)
      BY <1>4, <2>2
    <2>4. files[i].old \in Files /\ base[files[i].old] # None => manifest[i].before = base[files[i].old].text
      BY <1>1, <1>3, <2>1, HashIs
    <2>5. files[i].path \in Files /\ tree[files[i].path] # None => manifest[i].after = tree[files[i].path].text
      BY <1>1, <1>3, <2>1, HashIs
    <2> QED
      BY <2>1, <2>3, <2>4, <2>5
  <1>7. LET d == DiffFingerprints(ws.before, Fingerprint(tree))
        IN \A p \in d.added \cup d.modified \cup d.deleted :
             \E i \in DOMAIN manifest : p \in {manifest[i].file.path, manifest[i].file.old}
    <2> DEFINE d == DiffFingerprints(ws.before, Fingerprint(tree))
    <2> SUFFICES ASSUME NEW p \in d.added \cup d.modified \cup d.deleted
                 PROVE  \E i \in DOMAIN manifest : p \in {manifest[i].file.path, manifest[i].file.old}
      OBVIOUS
    <2>1. p \in C
      <3> DEFINE a == Fingerprint(base)  b == Fingerprint(tree)
      <3>1. /\ DOMAIN a = {q \in Files : base[q] # None} /\ DOMAIN b = {q \in Files : tree[q] # None}
            /\ \A q \in DOMAIN a : a[q] = base[q].text
            /\ \A q \in DOMAIN b : b[q] = tree[q].text
        BY DEF Fingerprint
      <3>2. d.added = DOMAIN b \ DOMAIN a /\ d.deleted = DOMAIN a \ DOMAIN b
            /\ d.modified = {q \in DOMAIN a \cap DOMAIN b : a[q] # b[q]}
        BY <1>1 DEF DiffFingerprints
      <3> HIDE DEF d, a, b
      <3>3. p \in Files /\ base[p] # tree[p]
        BY <3>1, <3>2
      <3> QED
        BY <3>3 DEF C, Changed, Paths
    <2> HIDE DEF d
    <2>2. CASE p # one[1]
      <3>1. PICK i \in 1..Len(files) : files[i] = Entered(base, tree, p)
        BY <1>2, <2>1, <2>2
      <3>2. files[i].path = p
        BY <1>4, <2>1, <2>2, <3>1
      <3> QED
        BY <1>3, <3>1, <3>2
    <2>3. CASE p = one[1]
      <3>1. p # None
        BY <2>1, WorkspaceAssumption DEF C, Changed
      <3>2. one[2] \in C /\ one[1] # one[2]
        <4>1. \/ one[1] = None /\ one[2] = None
              \/ /\ one[1] \in Changed(base, tree) /\ one[2] \in Changed(base, tree)
                 /\ tree[one[1]] = None /\ base[one[2]] = None /\ base[one[1]] = tree[one[2]]
          BY <1>1, OneRenameIs DEF one
        <4> QED
          BY <2>3, <3>1, <4>1 DEF C, Changed
      <3>3. PICK i \in 1..Len(files) : files[i] = Entered(base, tree, one[2])
        BY <1>2, <3>2
      <3>4. Entered(base, tree, one[2]) = Known(one[2], one[1], "renamed", 0, 0, 0)
        BY DEF Entered, one
      <3>5. files[i].old = p
        BY <2>3, <3>3, <3>4 DEF Known
      <3> QED
        BY <1>3, <3>3, <3>5
    <2> QED
      BY <2>2, <2>3
  <1> QED
    BY <1>5, <1>6, <1>7, Zenon DEF DiffTellsChanges, base, tree, manifest

\* What a workspace is, as a place to write in and as a tree to compare.
WorkspaceInv == WritesInv /\ DiffInv

LEMMA WorkspaceStarts == WorkspaceInit => WorkspaceInv
  BY WritesStart, DiffStarts DEF WorkspaceInv

LEMMA WorkspaceKeeps == WorkspaceInv /\ WorkspaceNext => WorkspaceInv'
  BY WritesKeep, DiffKeeps DEF WorkspaceInv

LEMMA WorkspaceHolds == WorkspaceInv => WritesStayInLayout /\ DiffTellsChanges
  BY WritesHold, DiffHolds DEF WorkspaceInv
-----------------------------------------------------------------------------
(* The sandbox of a run                                                    *)

ContainerStates == {"running", "stopped", "gone"}

Collections ==
  [phase : {"off", "containers", "volumes", "done"}, dry : BOOLEAN, listed : BOOLEAN,
   pruned : SUBSET {"container", "volume"}, errors : BOOLEAN,
   before : {None} \cup [container : ContainerStates, volume : BOOLEAN]]

InstanceStates ==
  {"PENDING", "CREATING", "HYDRATING", "READY", "EXECUTING", "EXTRACTING", "TEARDOWN",
   "ERRORED", "TERMINATED"}

Boxes ==
  [state : InstanceStates, commands : SUBSET Commands, extracting : BOOLEAN,
   processes : SUBSET Commands, container : ContainerStates, volume : BOOLEAN,
   stale : BOOLEAN, teardown : {"no", "kill", "container", "volume", "end"},
   failed : BOOLEAN, containerRemoved : BOOLEAN, volumeRemoved : BOOLEAN, gc : Collections]

\* What a teardown has done, it has done: the flags by which a repeated one skips
\* a step tell the truth, and one without a failure has set both.
Dismantled(b) ==
  /\ b.container = "gone" => b.processes = {}
  /\ b.containerRemoved => b.container = "gone"
  /\ b.volumeRemoved => ~b.volume
  /\ b.teardown \in {"volume", "end"} /\ ~b.failed => b.containerRemoved
  /\ b.teardown = "end" /\ ~b.failed => b.volumeRemoved
  /\ b.state = "TERMINATED" => b.containerRemoved /\ b.volumeRemoved
  /\ b.teardown # "no" => b.state \in {"TEARDOWN", "ERRORED"}

\* What the collection has listed was there, and old.
Collected(b) ==
  /\ b.gc.listed \/ "container" \in b.gc.pruned => b.stale /\ b.gc.before.container # "gone"
  /\ ~b.gc.dry /\ "container" \in b.gc.pruned => b.container = "gone"
  /\ ~b.gc.dry /\ "volume" \in b.gc.pruned => ~b.volume
  /\ b.gc.phase = "off" => b.gc.pruned = {}
  /\ b.gc.phase \in {"off", "containers", "volumes"} => "volume" \notin b.gc.pruned

SoundBox(b) == b \in Boxes /\ Dismantled(b) /\ Collected(b)

\* The state of a container in teardown or beyond stays there.
Final(b, c) ==
  b.state \in {"TEARDOWN", "TERMINATED"} \/ b.teardown # "no" =>
    c.state \in {"TEARDOWN", "ERRORED", "TERMINATED"}

\* The transitions that Valid allows, as far as they matter here (canTransition).
LEMMA Transitions ==
    ASSUME NEW b \in Boxes, NEW to \in InstanceStates
    PROVE  /\ CanTransition(b, to) /\ to = "READY" => b.state \notin {"TEARDOWN", "ERRORED", "TERMINATED"}
           /\ CanTransition(b, to) /\ to \in {"EXECUTING", "EXTRACTING"} =>
                b.state \notin {"TEARDOWN", "ERRORED", "TERMINATED"}
           /\ CanTransition(b, to) => b.state # "TERMINATED"
           /\ to = "TEARDOWN" /\ b.state \notin {"TEARDOWN", "TERMINATED"} => CanTransition(b, to)
  <1>1. b.state \in InstanceStates
    BY DEF Boxes
  <1> QED
    BY <1>1 DEF CanTransition, Valid, InstanceStates

\* An instance that differs from a sound one in its commands and processes, or in
\* what is being extracted from it, is sound.
LEMMA LikeIsSound ==
    ASSUME NEW b, SoundBox(b), NEW c \in Boxes,
           c.state = b.state, c.container = b.container, c.container = "gone" => c.processes = {},
           c.containerRemoved = b.containerRemoved, c.volumeRemoved = b.volumeRemoved,
           c.volume = b.volume, c.teardown = b.teardown, c.failed = b.failed,
           c.gc = b.gc, c.stale = b.stale
    PROVE  SoundBox(c)
  <1>1. Dismantled(c)
    BY DEF SoundBox, Dismantled
  <1>2. Collected(c)
    BY DEF SoundBox, Collected
  <1> QED
    BY <1>1, <1>2 DEF SoundBox

\* A transition to another state but the last one, as Towards makes it.
LEMMA TowardsKeeps ==
    ASSUME NEW b, SoundBox(b), NEW to \in {"READY", "ERRORED"}
    PROVE  SoundBox(Towards(b, to)) /\ Final(b, Towards(b, to))
  <1>1. CASE ~CanTransition(b, to)
    BY <1>1 DEF Towards, Final, SoundBox, Dismantled
  <1>2. CASE CanTransition(b, to)
    <2>1. Towards(b, to) = [b EXCEPT !.state = to]
      BY <1>2 DEF Towards
    <2>2. /\ to \in InstanceStates /\ b \in Boxes
          /\ to = "READY" => b.state \notin {"TEARDOWN", "ERRORED", "TERMINATED"}
      BY <1>2, Transitions DEF SoundBox, InstanceStates
    <2> DEFINE c == [b EXCEPT !.state = to]
    <2>3. c \in Boxes
      BY <2>2 DEF Boxes
    <2>4. c.state = to /\ c.container = b.container /\ c.processes = b.processes
      BY <2>2 DEF Boxes
    <2>5. /\ c.containerRemoved = b.containerRemoved /\ c.volumeRemoved = b.volumeRemoved
          /\ c.volume = b.volume /\ c.teardown = b.teardown /\ c.failed = b.failed
          /\ c.gc = b.gc /\ c.stale = b.stale
      BY <2>2 DEF Boxes
    <2> HIDE DEF c
    <2>6. Dismantled(c)
      BY <2>2, <2>4, <2>5 DEF SoundBox, Dismantled
    <2>7. Collected(c)
      BY <2>4, <2>5 DEF SoundBox, Collected
    <2> QED
      BY <2>1, <2>2, <2>3, <2>4, <2>6, <2>7 DEF SoundBox, Final, Dismantled, c
  <1> QED
    BY <1>1, <1>2

SandboxInv == SoundBox(box)

\* An instance that has just been created is sound (new ContainerInstance).
LEMMA SandboxStarts == SandboxInit => SandboxInv
  BY DEF SandboxInit, SandboxInv, SoundBox, Boxes, Collections, ContainerStates, InstanceStates,
         Dismantled, Collected

\* The life of a command in the container keeps the instance sound: when it is
\* sent, when it throws and when docker answers (ContainerInstance.executeCommand).
LEMMA CommandKeeps ==
    ASSUME SandboxInv, NEW c \in Commands,
           ExecuteCommand(c) \/ CommandThrows(c) \/ \E timedOut \in BOOLEAN : CommandAnswers(c, timedOut)
    PROVE  SandboxInv' /\ Final(box, box')
  <1>1. CASE ExecuteCommand(c)
    <2>1. box.state \notin {"TEARDOWN", "ERRORED", "TERMINATED"}
      BY <1>1, Transitions DEF ExecuteCommand, Becomes, InstanceStates, SandboxInv, SoundBox
    <2> DEFINE running == IF box.container = "running" THEN box.processes \cup {c} ELSE box.processes
               b == [box EXCEPT !.state = "EXECUTING", !.commands = box.commands \cup {c},
                                !.processes = running]
    <2>2. box' = b
      BY <1>1 DEF ExecuteCommand
    <2>3. /\ running \in SUBSET Commands /\ box.commands \cup {c} \in SUBSET Commands
          /\ box.container = "gone" => running = box.processes
      BY DEF SandboxInv, SoundBox, Boxes
    <2> HIDE DEF running
    <2>5. box \in Boxes /\ Dismantled(box) /\ Collected(box)
      BY DEF SandboxInv, SoundBox
    <2>6. b \in Boxes
      BY <2>3, <2>5 DEF Boxes, InstanceStates
    <2>7. /\ b.state = "EXECUTING" /\ b.container = box.container /\ b.processes = running
          /\ b.containerRemoved = box.containerRemoved
          /\ b.volumeRemoved = box.volumeRemoved /\ b.volume = box.volume
          /\ b.teardown = box.teardown /\ b.failed = box.failed
          /\ b.gc = box.gc /\ b.stale = box.stale
      BY <2>5 DEF Boxes
    <2>4. SoundBox(b)
      <3> HIDE DEF b
      <3>1. Dismantled(b)
        BY <2>1, <2>3, <2>5, <2>7 DEF Dismantled
      <3>2. Collected(b)
        BY <2>5, <2>7 DEF Collected
      <3> QED
        BY <2>6, <3>1, <3>2 DEF SoundBox
    <2> QED
      BY <2>1, <2>2, <2>4 DEF SandboxInv, Final, Dismantled, SoundBox
  <1>2. ASSUME NEW left \in SUBSET Commands, box.container = "gone" => left = {}
        PROVE  LET b == [box EXCEPT !.commands = box.commands \ {c}, !.processes = left]
               IN  SoundBox(b) /\ b.state = box.state /\ b.teardown = box.teardown
    <2> DEFINE b == [box EXCEPT !.commands = box.commands \ {c}, !.processes = left]
    <2>1. box \in Boxes /\ SoundBox(box)
      BY DEF SandboxInv, SoundBox
    <2>2. b \in Boxes
      BY <2>1 DEF Boxes
    <2>3. /\ b.state = box.state /\ b.container = box.container /\ b.processes = left
          /\ b.containerRemoved = box.containerRemoved
          /\ b.volumeRemoved = box.volumeRemoved /\ b.volume = box.volume
          /\ b.teardown = box.teardown /\ b.failed = box.failed
          /\ b.gc = box.gc /\ b.stale = box.stale
      BY <2>1 DEF Boxes
    <2> HIDE DEF b
    <2>4. SoundBox(b) /\ b.state = box.state /\ b.teardown = box.teardown
      BY <1>2, <2>1, <2>2, <2>3, LikeIsSound
    <2> QED
      BY <2>4 DEF b
  <1>3. ASSUME NEW timedOut \in BOOLEAN, CommandAnswers(c, timedOut) PROVE SandboxInv' /\ Final(box, box')
    <2> DEFINE left == IF timedOut THEN box.processes ELSE box.processes \ {c}
               b == [box EXCEPT !.commands = box.commands \ {c}, !.processes = left]
    <2>1. left \in SUBSET Commands /\ (box.container = "gone" => left = {})
      BY DEF SandboxInv, SoundBox, Boxes, Dismantled
    <2>2. box' = Towards(b, "READY") \/ box' = b
      BY <1>3 DEF CommandAnswers
    <2> HIDE DEF left
    <2>3. SoundBox(b) /\ b.state = box.state /\ b.teardown = box.teardown
      BY <1>2, <2>1
    <2> HIDE DEF b
    <2>4. SoundBox(Towards(b, "READY")) /\ Final(b, Towards(b, "READY"))
      BY <2>3, TowardsKeeps
    <2> QED
      BY <2>2, <2>3, <2>4 DEF SandboxInv, Final, SoundBox, Dismantled
  <1>4. CASE CommandThrows(c)
    <2> DEFINE b == [box EXCEPT !.commands = box.commands \ {c}]
    <2>1. box' = Towards(b, "ERRORED")
      BY <1>4 DEF CommandThrows
    <2>3. box \in Boxes /\ (box.container = "gone" => box.processes = {})
      BY DEF SandboxInv, SoundBox, Dismantled
    <2>4. b = [box EXCEPT !.commands = box.commands \ {c}, !.processes = box.processes]
      BY <2>3 DEF Boxes
    <2>2. SoundBox(b) /\ b.state = box.state /\ b.teardown = box.teardown
      <3>1. box.processes \in SUBSET Commands
        BY <2>3 DEF Boxes
      <3> HIDE DEF b
      <3> QED
        BY <1>2, <2>3, <2>4, <3>1
    <2> HIDE DEF b
    <2> QED
      BY <2>1, <2>2, TowardsKeeps DEF SandboxInv, Final
  <1> QED
    BY <1>1, <1>3, <1>4

\* So does the extraction of the diff (ContainerInstance.extractGitDiff).
LEMMA ExtractionKeeps ==
    ASSUME SandboxInv, ExtractGitDiff \/ \E throws \in BOOLEAN : ExtractEnds(throws)
    PROVE  SandboxInv' /\ Final(box, box')
  <1>1. CASE ExtractGitDiff
    <2>1. box.state \notin {"TEARDOWN", "ERRORED", "TERMINATED"}
      BY <1>1, Transitions DEF ExtractGitDiff, Becomes, InstanceStates, SandboxInv, SoundBox
    <2> DEFINE b == [box EXCEPT !.state = "EXTRACTING", !.extracting = TRUE]
    <2>2. box' = b
      BY <1>1 DEF ExtractGitDiff
    <2>3. SoundBox(b)
      BY <2>1 DEF SandboxInv, SoundBox, Boxes, InstanceStates, Dismantled, Collected
    <2> QED
      BY <2>1, <2>2, <2>3 DEF SandboxInv, Final, Dismantled, SoundBox
  <1>2. ASSUME NEW throws \in BOOLEAN, ExtractEnds(throws) PROVE SandboxInv' /\ Final(box, box')
    <2> DEFINE b == [box EXCEPT !.extracting = FALSE]
    <2>1. box' = Towards(b, "READY") \/ box' = b
      BY <1>2 DEF ExtractEnds
    <2>4. box \in Boxes /\ SoundBox(box)
      BY DEF SandboxInv, SoundBox
    <2>5. b \in Boxes
      BY <2>4 DEF Boxes
    <2>6. /\ b.state = box.state /\ b.container = box.container
          /\ b.processes = box.processes /\ b.containerRemoved = box.containerRemoved
          /\ b.volumeRemoved = box.volumeRemoved /\ b.volume = box.volume
          /\ b.teardown = box.teardown /\ b.failed = box.failed
          /\ b.gc = box.gc /\ b.stale = box.stale
      BY <2>4 DEF Boxes
    <2> HIDE DEF b
    <2>7. box.container = "gone" => box.processes = {}
      BY <2>4 DEF SoundBox, Dismantled
    <2>2. SoundBox(b) /\ b.state = box.state /\ b.teardown = box.teardown
      BY <2>4, <2>5, <2>6, <2>7, LikeIsSound
    <2>3. SoundBox(Towards(b, "READY")) /\ Final(b, Towards(b, "READY"))
      BY <2>2, TowardsKeeps
    <2> QED
      BY <2>1, <2>2, <2>3 DEF SandboxInv, Final, SoundBox, Dismantled
  <1> QED
    BY <1>1, <1>2

\* What a docker command can answer: a success means that it was done.
LEMMA AnswerMeans ==
    ASSUME NEW answer \in Answers
    PROVE  answer.ok \in BOOLEAN /\ answer.done \in BOOLEAN /\ (answer.ok => answer.done)
  <1>1. CASE answer = [ok |-> TRUE, done |-> TRUE]
    BY <1>1
  <1>2. CASE answer = [ok |-> FALSE, done |-> FALSE]
    BY <1>2
  <1>3. CASE answer = [ok |-> FALSE, done |-> TRUE]
    BY <1>3
  <1> QED
    BY <1>1, <1>2, <1>3 DEF Answers

\* What docker takes away, it takes away: a container that is there may be
\* stopped or gone after it, its processes with it, and the volume may be gone.
Reduced(b, c) ==
  \E container \in ContainerStates, left \in {b.processes, {}}, volume \in BOOLEAN :
    /\ c = [b EXCEPT !.container = container, !.processes = left, !.volume = volume]
    /\ b.container = "gone" => container = "gone"
    /\ container = "gone" => left = {}
    /\ volume => b.volume

\* That spoils nothing (killContainer, removeContainer, removeVolume).
LEMMA ReducedStaysSound ==
    ASSUME NEW b, SoundBox(b), NEW c, Reduced(b, c)
    PROVE  /\ SoundBox(c)
           /\ c.state = b.state /\ c.teardown = b.teardown /\ c.failed = b.failed
           /\ c.containerRemoved = b.containerRemoved /\ c.volumeRemoved = b.volumeRemoved
           /\ c.stale = b.stale /\ c.gc = b.gc
           /\ b.container = "gone" => c.container = "gone"
           /\ ~b.volume => ~c.volume
  <1>1. PICK container \in ContainerStates, left \in {b.processes, {}}, volume \in BOOLEAN :
           /\ c = [b EXCEPT !.container = container, !.processes = left, !.volume = volume]
           /\ b.container = "gone" => container = "gone"
           /\ container = "gone" => left = {}
           /\ volume => b.volume
    BY DEF Reduced
  <1>2. c \in Boxes
    BY <1>1 DEF SoundBox, Boxes
  <1>3. /\ c.state = b.state /\ c.teardown = b.teardown /\ c.failed = b.failed
        /\ c.containerRemoved = b.containerRemoved /\ c.volumeRemoved = b.volumeRemoved
        /\ c.stale = b.stale /\ c.gc = b.gc
        /\ c.container = container /\ c.processes = left /\ c.volume = volume
    BY <1>1 DEF SoundBox, Boxes
  <1>4. Dismantled(c) /\ Collected(c)
    BY <1>1, <1>3 DEF SoundBox, Dismantled, Collected
  <1> QED
    BY <1>1, <1>2, <1>3, <1>4 DEF SoundBox

\* The docker commands that kill and remove, whoever gives them.
LEMMA DockerReduces ==
    ASSUME NEW b, SoundBox(b), NEW answer \in Answers
    PROVE  /\ Reduced(b, b) /\ Reduced(b, Killed(b))
           /\ Reduced(b, RemovedIf(b, answer))
           /\ answer.ok => RemovedIf(b, answer).container = "gone"
           /\ Reduced(b, VolumeRemovedIf(b, answer))
           /\ answer.ok => ~VolumeRemovedIf(b, answer).volume
  <1>1. /\ b \in Boxes /\ b.container \in ContainerStates /\ b.volume \in BOOLEAN
        /\ b.container = "gone" => b.processes = {}
    BY DEF SoundBox, Boxes, Dismantled
  <1>2. \A container \in ContainerStates, left \in {b.processes, {}}, volume \in BOOLEAN :
           LET c == [b EXCEPT !.container = container, !.processes = left, !.volume = volume]
           IN  c.container = container /\ c.processes = left /\ c.volume = volume
    BY <1>1 DEF Boxes
  <1>3. b = [b EXCEPT !.container = b.container, !.processes = b.processes, !.volume = b.volume]
    BY <1>1 DEF Boxes
  <1>4. Reduced(b, b)
    BY <1>1, <1>3 DEF Reduced
  <1>5. Reduced(b, Killed(b))
    <2> DEFINE now == IF b.container = "running" THEN "stopped" ELSE b.container
    <2>1. Killed(b) = [b EXCEPT !.container = now, !.processes = {}, !.volume = b.volume]
      BY <1>1 DEF Killed, Boxes
    <2>2. now \in ContainerStates /\ (b.container = "gone" => now = "gone")
      BY <1>1 DEF ContainerStates
    <2> HIDE DEF now
    <2> QED
      BY <1>1, <2>1, <2>2 DEF Reduced
  <1>6. /\ Reduced(b, RemovedIf(b, answer))
        /\ answer.ok => RemovedIf(b, answer).container = "gone"
    <2>1. CASE answer.done
      <3>1. RemovedIf(b, answer) = [b EXCEPT !.container = "gone", !.processes = {}, !.volume = b.volume]
        BY <1>1, <2>1 DEF RemovedIf, Boxes
      <3>2. "gone" \in ContainerStates
        BY DEF ContainerStates
      <3>3. RemovedIf(b, answer).container = "gone"
        BY <1>1, <1>2, <3>1, <3>2
      <3> QED
        BY <1>1, <3>1, <3>2, <3>3 DEF Reduced
    <2>2. CASE ~answer.done
      BY <1>4, <2>2, AnswerMeans DEF RemovedIf
    <2> QED
      BY <2>1, <2>2
  <1>7. /\ Reduced(b, VolumeRemovedIf(b, answer))
        /\ answer.ok => ~VolumeRemovedIf(b, answer).volume
    <2>1. CASE answer.done
      <3>1. VolumeRemovedIf(b, answer) =
              [b EXCEPT !.container = b.container, !.processes = b.processes, !.volume = FALSE]
        BY <1>1, <2>1 DEF VolumeRemovedIf, Boxes
      <3> QED
        BY <1>1, <1>2, <3>1 DEF Reduced
    <2>2. CASE ~answer.done
      BY <1>4, <2>2, AnswerMeans DEF VolumeRemovedIf
    <2> QED
      BY <2>1, <2>2
  <1> QED
    BY <1>4, <1>5, <1>6, <1>7

\* Removing a volume that is still in use has no effect; nor has a refusal.
LEMMA VolumeAnswers ==
    ASSUME NEW b, NEW answer \in RemoveVolumeAnswers(b)
    PROVE  answer \in Answers
  BY DEF RemoveVolumeAnswers, Answers

\* What a teardown adds to the effect of its command: where it has got, and what
\* it has noted.
LEMMA TeardownMoves ==
    ASSUME SandboxInv, box.teardown # "no",
           NEW b, SoundBox(b), b.state = box.state, b.teardown = box.teardown,
           NEW at \in {"container", "volume", "end"},
           NEW failed \in BOOLEAN, NEW first \in BOOLEAN, NEW second \in BOOLEAN,
           first => b.container = "gone", second => ~b.volume,
           at = "container" \/ failed \/ first,
           at # "end" \/ failed \/ second,
           box' = [b EXCEPT !.teardown = at, !.failed = failed, !.containerRemoved = first,
                            !.volumeRemoved = second]
    PROVE  SandboxInv' /\ Final(box, box')
  <1>1. b.state \in {"TEARDOWN", "ERRORED"} /\ b \in Boxes
    BY DEF SandboxInv, SoundBox, Dismantled
  <1>2. box' \in Boxes
    BY <1>1 DEF Boxes
  <1>3. /\ box'.state = b.state /\ box'.teardown = at /\ box'.failed = failed
        /\ box'.containerRemoved = first /\ box'.volumeRemoved = second
        /\ box'.container = b.container /\ box'.volume = b.volume
        /\ box'.processes = b.processes /\ box'.gc = b.gc /\ box'.stale = b.stale
    BY <1>1 DEF Boxes
  <1>4. Dismantled(box') /\ Collected(box')
    BY <1>1, <1>3 DEF SoundBox, Dismantled, Collected
  <1> QED
    BY <1>1, <1>2, <1>3, <1>4 DEF SandboxInv, SoundBox, Final

\* So does every step of the teardown, whichever of its commands fails
\* (ContainerInstance.teardown).
LEMMA TeardownKeeps ==
    ASSUME SandboxInv, Teardown \/ TeardownKills \/ TeardownRemovesContainer
                         \/ TeardownRemovesVolume \/ TeardownEnds
    PROVE  SandboxInv' /\ Final(box, box')
  <1>0. /\ SoundBox(box) /\ box \in Boxes /\ Dismantled(box)
        /\ box.failed \in BOOLEAN /\ box.containerRemoved \in BOOLEAN
        /\ box.volumeRemoved \in BOOLEAN
    BY DEF SandboxInv, SoundBox, Boxes
  <1>1. CASE Teardown
    <2> DEFINE at == IF box.containerRemoved THEN "volume" ELSE "kill"
               to == IF CanTransition(box, "TEARDOWN") THEN "TEARDOWN" ELSE box.state
    <2>1. box' = [box EXCEPT !.state = to, !.teardown = at, !.failed = FALSE]
      BY <1>0, <1>1 DEF Teardown, Towards, Boxes
    <2>2. to = "TEARDOWN" /\ box.state # "TERMINATED"
      BY <1>1, Transitions DEF Teardown, SandboxInv, SoundBox, InstanceStates
    <2>3. at \in {"kill", "volume"} /\ (at = "volume" => box.containerRemoved)
      OBVIOUS
    <2> HIDE DEF at, to
    <2> DEFINE b == [box EXCEPT !.state = to, !.teardown = at, !.failed = FALSE]
    <2>4. b \in Boxes
      BY <1>0, <2>2, <2>3 DEF Boxes, InstanceStates
    <2>5. /\ b.state = "TEARDOWN" /\ b.container = box.container /\ b.processes = box.processes
          /\ b.containerRemoved = box.containerRemoved
          /\ b.volumeRemoved = box.volumeRemoved /\ b.volume = box.volume
          /\ b.teardown = at /\ b.failed = FALSE /\ b.gc = box.gc /\ b.stale = box.stale
      BY <1>0, <2>2 DEF Boxes
    <2>6. box' = b
      BY <2>1
    <2> HIDE DEF b
    <2>7. Dismantled(b)
      BY <1>0, <2>3, <2>5 DEF Dismantled
    <2>8. Collected(b)
      BY <1>0, <2>5 DEF SoundBox, Collected
    <2>9. Final(box, b)
      BY <1>0, <2>2, <2>5 DEF Final
    <2> QED
      BY <2>4, <2>6, <2>7, <2>8, <2>9 DEF SandboxInv, SoundBox
  <1>2. CASE TeardownKills
    <2>1. PICK b \in {box, Killed(box)} : box' = [b EXCEPT !.teardown = "container"]
      BY <1>2 DEF TeardownKills
    <2>2. Reduced(box, b)
      BY <1>0, DockerReduces DEF Answers
    <2>3. /\ SoundBox(b) /\ b.state = box.state /\ b.teardown = box.teardown
          /\ b.failed = box.failed /\ b.containerRemoved = box.containerRemoved
          /\ b.volumeRemoved = box.volumeRemoved
      BY <1>0, <2>2, ReducedStaysSound
    <2>4. box' = [b EXCEPT !.teardown = "container", !.failed = box.failed,
                           !.containerRemoved = box.containerRemoved,
                           !.volumeRemoved = box.volumeRemoved]
      BY <2>1, <2>3 DEF SoundBox, Boxes
    <2>5. (box.containerRemoved => b.container = "gone") /\ (box.volumeRemoved => ~b.volume)
      BY <2>3 DEF SoundBox, Dismantled
    <2>6. box.teardown # "no"
      BY <1>2 DEF TeardownKills
    <2> QED
      BY <1>0, <2>3, <2>4, <2>5, <2>6, TeardownMoves
  <1>3. CASE TeardownRemovesContainer
    <2>1. PICK answer \in Answers :
             box' = [RemovedIf(box, answer) EXCEPT !.teardown = "volume",
                       !.containerRemoved = answer.ok, !.failed = ~answer.ok]
      BY <1>3 DEF TeardownRemovesContainer
    <2> DEFINE b == RemovedIf(box, answer)
    <2>2. Reduced(box, b) /\ (answer.ok => b.container = "gone") /\ answer.ok \in BOOLEAN
      BY <1>0, DockerReduces, AnswerMeans
    <2>3. box' = [b EXCEPT !.teardown = "volume", !.containerRemoved = answer.ok, !.failed = ~answer.ok]
      BY <2>1
    <2> HIDE DEF b
    <2>4. /\ SoundBox(b) /\ b.state = box.state /\ b.teardown = box.teardown
          /\ b.volumeRemoved = box.volumeRemoved
      BY <1>0, <2>2, ReducedStaysSound
    <2>5. box' = [b EXCEPT !.teardown = "volume", !.failed = ~answer.ok,
                           !.containerRemoved = answer.ok, !.volumeRemoved = box.volumeRemoved]
      BY <2>3, <2>4 DEF SoundBox, Boxes
    <2>6. box.volumeRemoved => ~b.volume
      BY <2>4 DEF SoundBox, Dismantled
    <2>7. box.teardown # "no"
      BY <1>3 DEF TeardownRemovesContainer
    <2> QED
      BY <1>0, <2>2, <2>4, <2>5, <2>6, <2>7, TeardownMoves
  <1>4. CASE TeardownRemovesVolume
    <2>1. CASE box.volumeRemoved
      <3>1. box' = [box EXCEPT !.teardown = "end", !.failed = box.failed,
                           !.containerRemoved = box.containerRemoved,
                           !.volumeRemoved = box.volumeRemoved]
        BY <1>0, <1>4, <2>1 DEF TeardownRemovesVolume, Boxes
      <3>2. box.teardown = "volume"
        BY <1>4 DEF TeardownRemovesVolume
      <3> QED
        BY <1>0, <2>1, <3>1, <3>2, TeardownMoves DEF Dismantled
    <2>2. ASSUME NEW answer \in RemoveVolumeAnswers(box),
                 box' = [VolumeRemovedIf(box, answer) EXCEPT !.teardown = "end",
                           !.volumeRemoved = answer.ok, !.failed = @ \/ ~answer.ok]
          PROVE  SandboxInv' /\ Final(box, box')
      <3> DEFINE b == VolumeRemovedIf(box, answer)
                 failed == box.failed \/ ~answer.ok
      <3>1. answer \in Answers
        BY VolumeAnswers
      <3>2. Reduced(box, b) /\ (answer.ok => ~b.volume) /\ answer.ok \in BOOLEAN
        BY <1>0, <3>1, DockerReduces, AnswerMeans
      <3>3. /\ SoundBox(b) /\ b.state = box.state /\ b.teardown = box.teardown
            /\ b.failed = box.failed /\ b.containerRemoved = box.containerRemoved
        BY <1>0, <3>2, ReducedStaysSound
      <3>4. box' = [b EXCEPT !.teardown = "end", !.volumeRemoved = answer.ok, !.failed = @ \/ ~answer.ok]
        BY <2>2
      <3> HIDE DEF b
      <3>5. box' = [b EXCEPT !.teardown = "end", !.failed = failed,
                             !.containerRemoved = box.containerRemoved, !.volumeRemoved = answer.ok]
        BY <3>3, <3>4 DEF SoundBox, Boxes
      <3>6. box.teardown = "volume" /\ failed \in BOOLEAN
        BY <1>4 DEF TeardownRemovesVolume
      <3>7. /\ box.containerRemoved => b.container = "gone"
            /\ failed \/ box.containerRemoved
            /\ failed \/ answer.ok
        BY <3>3, <3>6, <1>0 DEF SoundBox, Dismantled
      <3> HIDE DEF failed
      <3> QED
        BY <1>0, <3>2, <3>3, <3>5, <3>6, <3>7, TeardownMoves
    <2> QED
      BY <1>4, <2>1, <2>2 DEF TeardownRemovesVolume
  <1>5. CASE TeardownEnds
    <2> DEFINE b == [box EXCEPT !.teardown = "no"]
    <2>1. box' = Towards(b, EndState(box)) /\ box.teardown = "end"
      BY <1>0, <1>5 DEF TeardownEnds
    <2>2. /\ b.state = box.state /\ b.state \in {"TEARDOWN", "ERRORED"}
          /\ b \in Boxes /\ SoundBox(b) /\ b.teardown = "no"
          /\ b.containerRemoved = box.containerRemoved /\ b.volumeRemoved = box.volumeRemoved
      BY <1>0, <2>1 DEF SoundBox, Boxes, Dismantled, Collected
    <2>3. CASE box.failed
      <3>1. box' = Towards(b, "ERRORED")
        BY <2>1, <2>3 DEF EndState
      <3> HIDE DEF b
      <3>2. SoundBox(box')
        BY <2>2, <3>1, TowardsKeeps
      <3>3. box'.state \in {b.state, "ERRORED"}
        BY <2>2, <3>1 DEF Towards, Boxes
      <3> QED
        BY <2>2, <3>2, <3>3 DEF SandboxInv, Final
    <2>4. CASE ~box.failed
      <3>1. b.containerRemoved /\ b.volumeRemoved
        BY <1>0, <2>1, <2>2, <2>4 DEF Dismantled
      <3>2. box' = Towards(b, "TERMINATED")
        BY <2>1, <2>4 DEF EndState
      <3> HIDE DEF b
      <3>3. box' = b \/ box' = [b EXCEPT !.state = "TERMINATED"]
        BY <3>2 DEF Towards
      <3>4. CASE box' = b
        BY <2>2, <3>4 DEF SandboxInv, Final
      <3>5. CASE box' = [b EXCEPT !.state = "TERMINATED"]
        BY <2>2, <3>1, <3>5 DEF SandboxInv, SoundBox, Boxes, InstanceStates, Dismantled, Collected, Final
      <3> QED
        BY <3>3, <3>4, <3>5
    <2> QED
      BY <2>3, <2>4, <1>0
  <1> QED
    BY <1>1, <1>2, <1>3, <1>4, <1>5

\* What a collection notes beside the effect of its command.
LEMMA CollectionMoves ==
    ASSUME SandboxInv,
           NEW b, SoundBox(b), b.state = box.state, b.teardown = box.teardown,
           NEW gc \in Collections, gc.dry = b.gc.dry, gc.listed = b.gc.listed,
           gc.before = b.gc.before, gc.phase \in {"volumes", "done"},
           box' = [b EXCEPT !.gc = gc],
           "container" \in gc.pruned => b.gc.listed \/ "container" \in b.gc.pruned,
           ~b.gc.dry /\ "container" \in gc.pruned => b.container = "gone",
           ~b.gc.dry /\ "volume" \in gc.pruned => ~b.volume,
           gc.phase = "volumes" => "volume" \notin gc.pruned
    PROVE  SandboxInv' /\ Final(box, box')
  <1>1. b \in Boxes /\ Dismantled(b) /\ Collected(b)
    BY DEF SoundBox
  <1>2. box' \in Boxes
    BY <1>1 DEF Boxes
  <1>3. /\ box'.state = b.state /\ box'.teardown = b.teardown /\ box'.failed = b.failed
        /\ box'.containerRemoved = b.containerRemoved /\ box'.volumeRemoved = b.volumeRemoved
        /\ box'.container = b.container /\ box'.volume = b.volume
        /\ box'.processes = b.processes /\ box'.gc = gc /\ box'.stale = b.stale
    BY <1>1 DEF Boxes
  <1>4. Dismantled(box')
    BY <1>1, <1>3 DEF Dismantled
  <1>5. Collected(box')
    BY <1>1, <1>3 DEF Collected
  <1> QED
    BY <1>1, <1>2, <1>3, <1>4, <1>5 DEF SandboxInv, SoundBox, Final, Dismantled

\* So does the collection of what crashed runs have left (runContainerGc).
LEMMA CollectionKeeps ==
    ASSUME SandboxInv,
           GrowsStale \/ (\E fails \in BOOLEAN : GcLists(fails)) \/ GcPrunesContainer
             \/ GcListsNoVolumes \/ GcPrunesVolume
    PROVE  SandboxInv' /\ Final(box, box')
  <1>0. /\ SoundBox(box) /\ box \in Boxes /\ box.gc \in Collections
        /\ Dismantled(box) /\ Collected(box) /\ Reduced(box, box)
    BY DockerReduces DEF SandboxInv, SoundBox, Boxes, Answers
  <1>1. CASE GrowsStale
    BY <1>0, <1>1 DEF GrowsStale, SandboxInv, SoundBox, Boxes, Dismantled, Collected, Final
  <1>2. ASSUME NEW fails \in BOOLEAN, GcLists(fails) PROVE SandboxInv' /\ Final(box, box')
    <2> DEFINE listed == ~fails /\ box.container # "gone" /\ box.stale
               before == [container |-> box.container, volume |-> box.volume]
               gc == [box.gc EXCEPT !.phase = "containers", !.errors = fails, !.before = before,
                                    !.listed = listed]
    <2>1. box' = [box EXCEPT !.gc = gc] /\ box.gc.phase = "off"
      BY <1>0, <1>2 DEF GcLists, Boxes, Collections
    <2>2. listed \in BOOLEAN /\ before \in [container : ContainerStates, volume : BOOLEAN]
      BY <1>0 DEF Boxes
    <2>3. listed => box.stale /\ box.container # "gone"
      OBVIOUS
    <2>4. before.container = box.container
      OBVIOUS
    <2> HIDE DEF listed, before
    <2>5. gc \in Collections
      BY <1>0, <1>2, <2>2 DEF Collections
    <2>6. /\ gc.phase = "containers" /\ gc.pruned = box.gc.pruned /\ gc.dry = box.gc.dry
          /\ gc.listed = listed /\ gc.before = before
      BY <1>0 DEF Collections
    <2> HIDE DEF gc
    <2>7. Collected([box EXCEPT !.gc = gc])
      BY <1>0, <2>1, <2>3, <2>4, <2>6 DEF Boxes, Collected
    <2> QED
      BY <1>0, <2>1, <2>5, <2>7 DEF SandboxInv, SoundBox, Boxes, Dismantled, Final
  <1>3. CASE GcPrunesContainer
    <2>0. box.gc.phase = "containers" /\ "volume" \notin box.gc.pruned
      BY <1>0, <1>3 DEF GcPrunesContainer, Collected
    <2>1. CASE ~box.gc.listed
      <3> DEFINE gc == [box.gc EXCEPT !.phase = "volumes"]
      <3>1. box' = [box EXCEPT !.gc = gc]
        BY <1>3, <2>1 DEF GcPrunesContainer
      <3>2. /\ gc \in Collections /\ gc.phase = "volumes" /\ gc.pruned = box.gc.pruned
            /\ gc.dry = box.gc.dry /\ gc.listed = box.gc.listed /\ gc.before = box.gc.before
        BY <1>0 DEF Collections
      <3> HIDE DEF gc
      <3> QED
        BY <1>0, <2>0, <3>1, <3>2, CollectionMoves DEF Collected
    <2>2. CASE box.gc.listed /\ box.gc.dry
      <3> DEFINE gc == [box.gc EXCEPT !.phase = "volumes", !.pruned = {"container"}]
      <3>1. box' = [box EXCEPT !.gc.phase = "volumes", !.gc.pruned = {"container"}]
        BY <1>3, <2>2 DEF GcPrunesContainer
      <3>2. box' = [box EXCEPT !.gc = gc]
        BY <1>0, <3>1 DEF Boxes, Collections
      <3>3. /\ gc \in Collections /\ gc.phase = "volumes" /\ gc.pruned = {"container"}
            /\ gc.dry = box.gc.dry /\ gc.listed = box.gc.listed /\ gc.before = box.gc.before
        BY <1>0 DEF Collections
      <3> HIDE DEF gc
      <3> QED
        BY <1>0, <2>2, <3>2, <3>3, CollectionMoves
    <2>3. CASE box.gc.listed /\ ~box.gc.dry
      <3>1. PICK answer \in Answers, killed \in {box, Killed(box)} :
              box' = [RemovedIf(killed, answer) EXCEPT !.gc.phase = "volumes",
                        !.gc.pruned = IF answer.ok THEN {"container"} ELSE {},
                        !.gc.errors = @ \/ ~answer.ok]
        BY <1>3, <2>3 DEF GcPrunesContainer
      <3> DEFINE b == RemovedIf(killed, answer)
                 pruned == IF answer.ok THEN {"container"} ELSE {}
                 errors == b.gc.errors \/ ~answer.ok
                 gc == [b.gc EXCEPT !.phase = "volumes", !.pruned = pruned, !.errors = errors]
      <3>2. Reduced(box, killed)
        BY <1>0, DockerReduces
      <3>3. /\ SoundBox(killed) /\ killed.state = box.state /\ killed.teardown = box.teardown
            /\ killed.gc = box.gc
        BY <1>0, <3>2, ReducedStaysSound
      <3>4. Reduced(killed, b) /\ (answer.ok => b.container = "gone")
        BY <3>3, DockerReduces
      <3>5. SoundBox(b) /\ b.state = box.state /\ b.teardown = box.teardown /\ b.gc = box.gc
        BY <3>3, <3>4, ReducedStaysSound
      <3>6. box' = [b EXCEPT !.gc.phase = "volumes", !.gc.pruned = pruned, !.gc.errors = errors]
        BY <3>1
      <3>7. /\ pruned \in SUBSET {"container", "volume"}
            /\ "container" \in pruned => answer.ok
            /\ "volume" \notin pruned /\ errors \in BOOLEAN
        OBVIOUS
      <3> HIDE DEF b, pruned, errors
      <3>8. box' = [b EXCEPT !.gc = gc]
        BY <3>5, <3>6 DEF SoundBox, Boxes, Collections
      <3>9. /\ gc \in Collections /\ gc.phase = "volumes" /\ gc.pruned = pruned
            /\ gc.dry = b.gc.dry /\ gc.listed = b.gc.listed /\ gc.before = b.gc.before
        BY <1>0, <3>5, <3>7 DEF Collections
      <3> HIDE DEF gc
      <3> QED
        BY <1>0, <2>3, <3>4, <3>5, <3>7, <3>8, <3>9, CollectionMoves
    <2> QED
      BY <2>1, <2>2, <2>3
  <1>4. CASE GcListsNoVolumes
    <2> DEFINE gc == [box.gc EXCEPT !.phase = "done", !.errors = TRUE]
    <2>1. box' = [box EXCEPT !.gc.phase = "done", !.gc.errors = TRUE]
      BY <1>4 DEF GcListsNoVolumes
    <2>2. box' = [box EXCEPT !.gc = gc]
      BY <1>0, <2>1 DEF Boxes, Collections
    <2>3. /\ gc \in Collections /\ gc.phase = "done" /\ gc.pruned = box.gc.pruned
          /\ gc.dry = box.gc.dry /\ gc.listed = box.gc.listed /\ gc.before = box.gc.before
      BY <1>0 DEF Collections
    <2> HIDE DEF gc
    <2> QED
      BY <1>0, <2>2, <2>3, CollectionMoves DEF Collected
  <1>5. CASE GcPrunesVolume
    <2>0. box.gc.phase = "volumes" /\ box.gc.pruned \in SUBSET {"container", "volume"}
      BY <1>0, <1>5 DEF GcPrunesVolume, Collections
    <2>1. CASE ~box.volume
      <3> DEFINE gc == [box.gc EXCEPT !.phase = "done"]
      <3>1. box' = [box EXCEPT !.gc = gc]
        BY <1>5, <2>1 DEF GcPrunesVolume
      <3>2. /\ gc \in Collections /\ gc.phase = "done" /\ gc.pruned = box.gc.pruned
            /\ gc.dry = box.gc.dry /\ gc.listed = box.gc.listed /\ gc.before = box.gc.before
        BY <1>0 DEF Collections
      <3> HIDE DEF gc
      <3> QED
        BY <1>0, <2>1, <3>1, <3>2, CollectionMoves DEF Collected
    <2>2. CASE box.volume /\ box.gc.dry
      <3> DEFINE gc == [box.gc EXCEPT !.phase = "done", !.pruned = @ \cup {"volume"}]
      <3>1. box' = [box EXCEPT !.gc.phase = "done", !.gc.pruned = @ \cup {"volume"}]
        BY <1>5, <2>2 DEF GcPrunesVolume
      <3>2. box' = [box EXCEPT !.gc = gc]
        BY <1>0, <3>1 DEF Boxes, Collections
      <3>3. /\ gc \in Collections /\ gc.phase = "done" /\ gc.pruned = box.gc.pruned \cup {"volume"}
            /\ gc.dry = box.gc.dry /\ gc.listed = box.gc.listed /\ gc.before = box.gc.before
        BY <1>0, <2>0 DEF Collections
      <3> HIDE DEF gc
      <3> QED
        BY <1>0, <2>2, <3>2, <3>3, CollectionMoves
    <2>3. CASE box.volume /\ ~box.gc.dry
      <3>1. PICK answer \in RemoveVolumeAnswers(box) :
              box' = [VolumeRemovedIf(box, answer) EXCEPT !.gc.phase = "done",
                        !.gc.pruned = IF answer.ok THEN @ \cup {"volume"} ELSE @,
                        !.gc.errors = @ \/ ~answer.ok]
        BY <1>5, <2>3 DEF GcPrunesVolume
      <3> DEFINE b == VolumeRemovedIf(box, answer)
                 pruned == IF answer.ok THEN b.gc.pruned \cup {"volume"} ELSE b.gc.pruned
                 errors == b.gc.errors \/ ~answer.ok
                 gc == [b.gc EXCEPT !.phase = "done", !.pruned = pruned, !.errors = errors]
      <3>2. answer \in Answers
        BY VolumeAnswers
      <3>3. Reduced(box, b) /\ (answer.ok => ~b.volume)
        BY <1>0, <3>2, DockerReduces
      <3>4. SoundBox(b) /\ b.state = box.state /\ b.teardown = box.teardown /\ b.gc = box.gc
        BY <1>0, <3>3, ReducedStaysSound
      <3>5. box' = [b EXCEPT !.gc.phase = "done", !.gc.pruned = pruned, !.gc.errors = errors]
        BY <3>1
      <3>6. /\ pruned \in SUBSET {"container", "volume"}
            /\ "container" \in pruned => "container" \in b.gc.pruned
            /\ "volume" \in pruned => answer.ok \/ "volume" \in b.gc.pruned
            /\ errors \in BOOLEAN
        BY <2>0, <3>4
      <3> HIDE DEF b, pruned, errors
      <3>7. box' = [b EXCEPT !.gc = gc]
        BY <3>4, <3>5 DEF SoundBox, Boxes, Collections
      <3>8. /\ gc \in Collections /\ gc.phase = "done" /\ gc.pruned = pruned
            /\ gc.dry = b.gc.dry /\ gc.listed = b.gc.listed /\ gc.before = b.gc.before
        BY <1>0, <3>4, <3>6 DEF Collections
      <3> HIDE DEF gc
      <3>9. /\ ~b.gc.dry /\ "container" \in pruned => b.container = "gone"
            /\ ~b.gc.dry /\ "volume" \in pruned => ~b.volume
        BY <3>3, <3>4, <3>6 DEF SoundBox, Collected
      <3> QED
        BY <1>0, <3>4, <3>6, <3>7, <3>8, <3>9, CollectionMoves
    <2> QED
      BY <2>1, <2>2, <2>3
  <1> QED
    BY <1>1, <1>2, <1>3, <1>4, <1>5

\* Every step of a sandbox keeps the invariant and respects its teardown.
LEMMA SandboxKeeps == SandboxInv /\ SandboxNext => SandboxInv' /\ TeardownIsFinal
  <1> SUFFICES ASSUME SandboxInv, SandboxNext PROVE SandboxInv' /\ Final(box, box')
    BY DEF Final, TeardownIsFinal
  <1> QED
    BY CommandKeeps, ExtractionKeeps, TeardownKeeps, CollectionKeeps DEF SandboxNext

\* What the invariant says to a user of a sandbox.
LEMMA SandboxHolds == SandboxInv => TerminatedIsClean /\ GcTellsTruth
  BY DEF SandboxInv, SoundBox, Dismantled, Collected, TerminatedIsClean, GcTellsTruth
-----------------------------------------------------------------------------
(* The faults of a chaos run                                               *)

ChaosFields ==
  {"kind", "trigger", "rollback", "abort", "phase", "timers", "triggered", "count", "violations",
   "inject", "number", "record", "own", "pid", "expiring", "restore", "effects", "todo", "late",
   "missed"}

ChaosTypes(c) ==
  /\ c.kind \in [Faults -> Kinds] /\ c.rollback \in BOOLEAN
  /\ c.phase \in {"running", "aborting", "restoring", "ended"}
  /\ c.timers \subseteq Faults /\ c.count \in Nat
  /\ c.inject \in [Faults -> {"no", "commands", "active", "failed"}]
  /\ c.number \in [Faults -> Nat]
  /\ c.record \in [Faults -> {"none", "active", "failed", "restored"}]
  /\ c.pid \in [Faults -> Nat] /\ DOMAIN c.own = Faults
  /\ DOMAIN c.restore = Restorers
  /\ \A r \in Restorers : /\ c.restore[r] = [stage |-> c.restore[r].stage, read |-> c.restore[r].read]
                          /\ c.restore[r].stage \in {"no", "commands", "done"}
  /\ c.effects \subseteq Faults \X Nat \X {"last", "others"}
  /\ c.todo \subseteq Faults /\ c.late \subseteq Faults /\ c.missed \subseteq Faults

ChaosRecord(c) == DOMAIN c = ChaosFields /\ c = [x \in ChaosFields |-> c[x]]

\* Injections are numbered up to the limit, and a pid file names the last one.
Numbered(c) ==
  /\ c.count <= MaxConcurrent
  /\ \A f \in Faults : c.number[f] <= c.count /\ (c.inject[f] # "no" => c.number[f] > 0)
  /\ \A e \in c.effects : e[2] > 0 /\ e[2] <= c.number[e[1]]
  /\ \A f \in Faults :
       HasPidFile(c, f) /\ <<f, c.number[f], "last">> \in c.effects => c.pid[f] = c.number[f]

OnRecord(c) ==
  /\ \A e \in c.effects : c.inject[e[1]] # "no" \/ c.record[e[1]] # "none"
  /\ \A f \in c.todo : c.record[f] # "none"

AccountedFor(c, e) ==
  \/ e[1] \in c.late \cup c.missed
  \/ HasPidFile(c, e[1]) /\ (e[2] < c.number[e[1]] \/ e[3] = "others")

\* After the scenario, a fault is accounted for or its turn is still to come.
RollingBack(c) ==
  c.phase \in {"restoring", "ended"} =>
    /\ c.timers = {}
    /\ \A f \in Faults : c.inject[f] # "no" => f \in c.late
    /\ c.rollback =>
         /\ \A e \in c.effects :
              AccountedFor(c, e) \/ e[1] \in c.todo \/ c.restore[<<e[1], "all">>].stage = "commands"
         /\ \A f \in Faults :
              c.record[f] = "active" => f \in c.late \/ f \in c.todo \/ c.restore[<<f, "all">>] # Idle
         /\ c.phase = "ended" => c.todo = {} /\ \A f \in Faults : c.restore[<<f, "all">>] = Idle

SoundChaos(c) == ChaosRecord(c) /\ ChaosTypes(c) /\ Numbered(c) /\ OnRecord(c) /\ RollingBack(c)

ChaosInv == SoundChaos(chaos)

\* An experiment begins with nothing injected (executeExperiment).
LEMMA ChaosStarts == ChaosInit => ChaosInv
  <1> SUFFICES ASSUME ChaosInit PROVE ChaosInv
    OBVIOUS
  <1>1. PICK s \in Schedules, a \in BOOLEAN, b \in BOOLEAN :
          chaos = [kind |-> [f \in Faults |-> s[f].kind],
             trigger |-> [f \in Faults |-> s[f].trigger], rollback |-> a,
             abort |-> b, phase |-> "running",
             timers |-> {f \in Faults : s[f].trigger = "time"},
             triggered |-> [f \in Faults |-> 0], count |-> 0, violations |-> 0,
             inject |-> [f \in Faults |-> "no"], number |-> [f \in Faults |-> 0],
             record |-> [f \in Faults |-> "none"], own |-> [f \in Faults |-> 0],
             pid |-> [f \in Faults |-> 0], expiring |-> {},
             restore |-> [r \in Restorers |-> Idle],
             effects |-> {}, todo |-> {}, late |-> {}, missed |-> {}]
    BY Zenon DEF ChaosInit
  <1>2. s \in [Faults -> [kind : Kinds, trigger : {"time", "call"}]]
    BY ChaosAssumption
  <1>3. ChaosRecord(chaos)
    BY <1>1 DEF ChaosRecord, ChaosFields
  <1>4. ChaosTypes(chaos)
    BY <1>1, <1>2 DEF ChaosTypes, Idle
  <1> QED
    BY <1>1, <1>3, <1>4, ChaosAssumption DEF ChaosInv, SoundChaos, Numbered, OnRecord, RollingBack

\* Triggering a fault numbers an injection that no effect has yet (triggerFault).
LEMMA TriggeredKeeps ==
    ASSUME NEW c, SoundChaos(c), NEW f \in Faults, c.phase \notin {"restoring", "ended"}
    PROVE  SoundChaos(Triggered(c, f))
  <1>0. ChaosRecord(c) /\ ChaosTypes(c)
    BY DEF SoundChaos
  <1>1. CASE c.count >= MaxConcurrent
    <2> DEFINE d == [c EXCEPT !.violations = 1]
    <2>1. /\ ChaosRecord(d) /\ \A x \in ChaosFields \ {"violations"} : d[x] = c[x]
      BY <1>0 DEF ChaosRecord, ChaosFields
    <2> HIDE DEF d
    <2>2. SoundChaos(d)
      BY <2>1 DEF ChaosFields, ChaosTypes, SoundChaos, Numbered, OnRecord, RollingBack, HasPidFile, AccountedFor
    <2> QED
      BY <1>1, <2>2 DEF Triggered, d
  <1>2. CASE ~(c.count >= MaxConcurrent)
    <2> DEFINE inject == [c.inject EXCEPT ![f] = "commands"]
               number == [c.number EXCEPT ![f] = c.count + 1]
               d == [c EXCEPT !.count = c.count + 1, !.inject = inject, !.number = number]
    <2>0. Triggered(c, f) = d
      BY <1>2 DEF Triggered
    <2>1. /\ c.number \in [Faults -> Nat] /\ c.count \in Nat
          /\ c.inject \in [Faults -> {"no", "commands", "active", "failed"}]
          /\ c.effects \in SUBSET (Faults \X Nat \X {"last", "others"})
      BY <1>0 DEF ChaosTypes
    <2>2. /\ inject \in [Faults -> {"no", "commands", "active", "failed"}]
          /\ number \in [Faults -> Nat] /\ number[f] = c.count + 1 /\ inject[f] = "commands"
          /\ \A g \in Faults \ {f} : number[g] = c.number[g] /\ inject[g] = c.inject[g]
      BY <2>1
    <2> HIDE DEF inject, number
    <2>3. ChaosRecord(d)
      BY <1>0 DEF ChaosRecord, ChaosFields
    <2>4. /\ d.count = c.count + 1 /\ d.inject = inject /\ d.number = number
          /\ \A x \in ChaosFields \ {"count", "inject", "number"} : d[x] = c[x]
      BY <1>0 DEF ChaosRecord, ChaosFields
    <2> HIDE DEF d
    <2>5. ChaosTypes(d)
      BY <1>0, <2>1, <2>2, <2>4 DEF ChaosTypes, ChaosFields
    <2>6. Numbered(d)
      <3>1. /\ d.effects = c.effects /\ d.pid = c.pid /\ d.kind = c.kind
        BY <2>4 DEF ChaosFields
      <3> QED
        BY <3>1, <2>1, <2>2, <2>4, <1>2, ChaosAssumption DEF Numbered, SoundChaos, HasPidFile
    <2>7. OnRecord(d) /\ RollingBack(d)
      <3>1. /\ d.effects = c.effects /\ d.record = c.record /\ d.todo = c.todo /\ d.phase = c.phase
        BY <2>4 DEF ChaosFields
      <3> QED
        BY <3>1, <2>1, <2>2, <2>4 DEF OnRecord, RollingBack, SoundChaos
    <2> QED
      BY <2>0, <2>3, <2>5, <2>6, <2>7 DEF SoundChaos
  <1> QED
    BY <1>1, <1>2

\* A timer or a notification triggers a fault while the scenario runs.
LEMMA TriggerKeeps ==
    ASSUME ChaosInv, NEW f \in Faults, TimeElapsed(f) \/ Notify(f)
    PROVE  ChaosInv'
  <1>0. ChaosRecord(chaos) /\ ChaosTypes(chaos)
    BY DEF ChaosInv, SoundChaos
  <1>1. chaos.phase \notin {"restoring", "ended"}
    BY DEF ChaosInv, SoundChaos, RollingBack, TimeElapsed, Notify, Running
  <1>2. ASSUME NEW c, ChaosRecord(c), c.timers \subseteq Faults,
               \A x \in ChaosFields \ {"timers", "triggered"} : c[x] = chaos[x]
        PROVE  SoundChaos(Triggered(c, f))
    <2>1. SoundChaos(c) /\ c.phase = chaos.phase
      BY <1>0, <1>1, <1>2 DEF ChaosInv, SoundChaos, ChaosTypes, Numbered, OnRecord, RollingBack, HasPidFile, ChaosFields
    <2> QED
      BY <2>1, <1>1, TriggeredKeeps
  <1>3. CASE TimeElapsed(f)
    <2> DEFINE c == [chaos EXCEPT !.timers = @ \ {f}]
    <2>1. /\ ChaosRecord(c) /\ \A x \in ChaosFields \ {"timers", "triggered"} : c[x] = chaos[x]
          /\ c.timers \subseteq Faults
      BY <1>0 DEF ChaosRecord, ChaosFields, ChaosTypes
    <2>2. chaos' = Triggered(c, f)
      BY <1>3 DEF TimeElapsed
    <2> HIDE DEF c
    <2> QED
      BY <1>2, <2>1, <2>2 DEF ChaosInv
  <1>4. CASE Notify(f)
    <2> DEFINE c == [chaos EXCEPT !.triggered[f] = @ + 1]
    <2>1. /\ ChaosRecord(c) /\ \A x \in ChaosFields \ {"timers", "triggered"} : c[x] = chaos[x]
          /\ c.timers \subseteq Faults
      BY <1>0 DEF ChaosRecord, ChaosFields, ChaosTypes
    <2>2. chaos' = Triggered(c, f)
      BY <1>4 DEF Notify
    <2> HIDE DEF c
    <2> QED
      BY <1>2, <2>1, <2>2 DEF ChaosInv
  <1> QED
    BY <1>3, <1>4

\* The commands of an injection: cleared or not, applied or not, and whatever they
\* report (ContainerFaultInjector.inject).
LEMMA InjectionKeeps ==
    ASSUME ChaosInv, NEW f \in Faults, RunInjectionCommands(f)
    PROVE  ChaosInv'
  <1>0. ChaosRecord(chaos) /\ ChaosTypes(chaos)
    BY DEF ChaosInv, SoundChaos
  <1>1. PICK ok \in BOOLEAN, after \in {chaos, Cleared(chaos, f), Applied(chaos, f)} :
               chaos' = [after EXCEPT !.inject[f] = IF ok THEN "active" ELSE "failed"]
    BY DEF RunInjectionCommands
  <1>2. PICK effects, pid, inject :
          /\ chaos' = [chaos EXCEPT !.effects = effects, !.pid = pid, !.inject = inject]
          /\ inject = [chaos.inject EXCEPT ![f] = IF ok THEN "active" ELSE "failed"]
          /\ \/ effects \subseteq chaos.effects /\ pid = chaos.pid
             \/ /\ effects \subseteq chaos.effects
                     \cup {<<f, chaos.number[f], "last">>, <<f, chaos.number[f], "others">>}
                /\ pid = [chaos.pid EXCEPT ![f] = IF HasPidFile(chaos, f) THEN chaos.number[f] ELSE 0]
    <2> DEFINE inject == [chaos.inject EXCEPT ![f] = IF ok THEN "active" ELSE "failed"]
               none == chaos.effects \ SameKind(chaos, f)
               start == IF chaos.kind[f] = "net" THEN none ELSE chaos.effects
               applied == start \cup {<<f, chaos.number[f], "last">>}
                            \cup (IF chaos.kind[f] = "cores" THEN {<<f, chaos.number[f], "others">>} ELSE {})
               pid == [chaos.pid EXCEPT ![f] = IF HasPidFile(chaos, f) THEN chaos.number[f] ELSE 0]
               last == [chaos.pid EXCEPT ![f] = chaos.pid[f]]
    <2>1. CASE after = chaos
      <3>1. chaos' = [chaos EXCEPT !.effects = chaos.effects, !.pid = chaos.pid, !.inject = inject]
        BY <1>0, <1>1, <2>1 DEF ChaosRecord, ChaosFields
      <3> QED
        BY <3>1
    <2>2. CASE after = Cleared(chaos, f)
      <3>1. after = [chaos EXCEPT !.effects = start]
        BY <1>0, <2>2 DEF Cleared, ChaosRecord, ChaosFields
      <3>2. start \subseteq chaos.effects
        OBVIOUS
      <3> HIDE DEF start
      <3>3. chaos' = [chaos EXCEPT !.effects = start, !.pid = chaos.pid, !.inject = inject]
        BY <1>0, <1>1, <3>1 DEF ChaosRecord, ChaosFields
      <3> QED
        BY <3>2, <3>3
    <2>3. CASE after = Applied(chaos, f)
      <3>1. Cleared(chaos, f) = [chaos EXCEPT !.effects = start]
        BY <1>0 DEF Cleared, ChaosRecord, ChaosFields
      <3>2. applied \subseteq chaos.effects
                 \cup {<<f, chaos.number[f], "last">>, <<f, chaos.number[f], "others">>}
        OBVIOUS
      <3> HIDE DEF start
      <3>3. /\ ChaosRecord(Cleared(chaos, f))
            /\ Cleared(chaos, f).effects = start /\ Cleared(chaos, f).pid = chaos.pid
            /\ \A x \in ChaosFields \ {"effects"} : Cleared(chaos, f)[x] = chaos[x]
        BY <1>0, <3>1 DEF ChaosRecord, ChaosFields
      <3>4. after = [Cleared(chaos, f) EXCEPT !.effects = applied, !.pid = pid]
        BY <2>3, <3>3 DEF Applied, ChaosRecord, ChaosFields
      <3> HIDE DEF applied, pid
      <3>5. after = [chaos EXCEPT !.effects = applied, !.pid = pid]
        BY <3>1, <3>3, <3>4, <1>0 DEF ChaosRecord, ChaosFields
      <3>6. chaos' = [chaos EXCEPT !.effects = applied, !.pid = pid, !.inject = inject]
        BY <1>0, <1>1, <3>5 DEF ChaosRecord, ChaosFields
      <3> QED
        BY <3>2, <3>6 DEF pid
    <2> QED
      BY <1>1, <2>1, <2>2, <2>3
  <1>3. /\ chaos.number \in [Faults -> Nat] /\ chaos.pid \in [Faults -> Nat]
        /\ chaos.inject \in [Faults -> {"no", "commands", "active", "failed"}]
        /\ chaos.inject[f] = "commands"
        /\ chaos.effects \in SUBSET (Faults \X Nat \X {"last", "others"})
    BY <1>0 DEF ChaosTypes, RunInjectionCommands
  <1>4. /\ inject \in [Faults -> {"no", "commands", "active", "failed"}] /\ inject[f] \in {"active", "failed"}
        /\ \A g \in Faults \ {f} : inject[g] = chaos.inject[g]
        /\ pid \in [Faults -> Nat]
        /\ effects \in SUBSET (Faults \X Nat \X {"last", "others"})
    BY <1>2, <1>3
  <1>5. /\ \A g \in Faults \ {f} : pid[g] = chaos.pid[g]
        /\ HasPidFile(chaos, f) /\ <<f, chaos.number[f], "last">> \in effects => pid[f] = chaos.number[f]
    BY <1>2, <1>3 DEF ChaosInv, SoundChaos, Numbered
  <1>6. \A e \in effects : e \in chaos.effects \/ (e[1] = f /\ e[2] = chaos.number[f])
    BY <1>2
  <1>7. ChaosRecord(chaos')
    BY <1>0, <1>2 DEF ChaosRecord, ChaosFields
  <1>8. /\ chaos'.effects = effects /\ chaos'.pid = pid /\ chaos'.inject = inject
        /\ \A x \in ChaosFields \ {"effects", "pid", "inject"} : chaos'[x] = chaos[x]
    BY <1>0, <1>2 DEF ChaosRecord, ChaosFields
  <1>9. ChaosTypes(chaos')
    BY <1>0, <1>4, <1>8 DEF ChaosTypes, ChaosFields
  <1>10. Numbered(chaos')
    <2>1. /\ chaos'.number = chaos.number /\ chaos'.count = chaos.count /\ chaos'.kind = chaos.kind
      BY <1>8 DEF ChaosFields
    <2> QED
      BY <2>1, <1>3, <1>4, <1>5, <1>6, <1>8 DEF ChaosInv, SoundChaos, Numbered, HasPidFile
  <1>11. OnRecord(chaos')
    <2>1. /\ chaos'.record = chaos.record /\ chaos'.todo = chaos.todo
      BY <1>8 DEF ChaosFields
    <2> QED
      BY <2>1, <1>3, <1>4, <1>6, <1>8 DEF ChaosInv, SoundChaos, OnRecord
  <1>12. RollingBack(chaos')
    <2>1. /\ chaos'.record = chaos.record /\ chaos'.todo = chaos.todo /\ chaos'.phase = chaos.phase
          /\ chaos'.timers = chaos.timers /\ chaos'.late = chaos.late /\ chaos'.rollback = chaos.rollback
          /\ chaos'.missed = chaos.missed /\ chaos'.number = chaos.number /\ chaos'.kind = chaos.kind
          /\ chaos'.restore = chaos.restore
      BY <1>8 DEF ChaosFields
    <2> QED
      BY <2>1, <1>3, <1>4, <1>6, <1>8 DEF ChaosInv, SoundChaos, RollingBack, AccountedFor, HasPidFile
  <1> QED
    BY <1>7, <1>9, <1>10, <1>11, <1>12 DEF ChaosInv, SoundChaos

\* The record of an injection replaces an earlier one (ContainerFaultInjector.inject).
LEMMA InjectedKeeps ==
    ASSUME ChaosInv, NEW f \in Faults, Injected(f)
    PROVE  ChaosInv'
  <1>0. ChaosRecord(chaos) /\ ChaosTypes(chaos)
    BY DEF ChaosInv, SoundChaos
  <1> DEFINE inject == [chaos.inject EXCEPT ![f] = "no"]
             record == [chaos.record EXCEPT ![f] = chaos.inject[f]]
             own == [chaos.own EXCEPT ![f] = chaos.number[f]]
  <1>1. PICK expiring : chaos' = [chaos EXCEPT !.inject = inject, !.record = record, !.own = own,
                                               !.expiring = expiring]
    <2>1. PICK lasting \in BOOLEAN :
            chaos' = [chaos EXCEPT
              !.inject[f] = "no", !.record[f] = chaos.inject[f], !.own[f] = chaos.number[f],
              !.expiring = IF chaos.inject[f] = "active" /\ ~lasting
                             THEN @ \cup {<<f, chaos.number[f]>>} ELSE @]
      BY DEF Injected
    <2> DEFINE expiring == IF chaos.inject[f] = "active" /\ ~lasting
                             THEN chaos.expiring \cup {<<f, chaos.number[f]>>} ELSE chaos.expiring
    <2>2. chaos' = [chaos EXCEPT !.inject = inject, !.record = record, !.own = own, !.expiring = expiring]
      BY <2>1
    <2> QED
      BY <2>2
  <1>2. /\ chaos.inject \in [Faults -> {"no", "commands", "active", "failed"}]
        /\ chaos.record \in [Faults -> {"none", "active", "failed", "restored"}]
        /\ chaos.inject[f] \in {"active", "failed"} /\ DOMAIN chaos.own = Faults
        /\ chaos.effects \in SUBSET (Faults \X Nat \X {"last", "others"})
    BY <1>0 DEF ChaosTypes, Injected
  <1>3. /\ inject \in [Faults -> {"no", "commands", "active", "failed"}] /\ inject[f] = "no"
        /\ record \in [Faults -> {"none", "active", "failed", "restored"}] /\ record[f] \in {"active", "failed"}
        /\ \A g \in Faults \ {f} : inject[g] = chaos.inject[g] /\ record[g] = chaos.record[g]
        /\ DOMAIN own = Faults
    BY <1>2
  <1> HIDE DEF inject, record, own
  <1>4. ChaosRecord(chaos')
    BY <1>0, <1>1 DEF ChaosRecord, ChaosFields
  <1>5. /\ chaos'.inject = inject /\ chaos'.record = record /\ chaos'.own = own
        /\ \A x \in ChaosFields \ {"inject", "record", "own", "expiring"} : chaos'[x] = chaos[x]
    BY <1>0, <1>1 DEF ChaosRecord, ChaosFields
  <1>6. ChaosTypes(chaos')
    BY <1>0, <1>3, <1>5 DEF ChaosTypes, ChaosFields
  <1>7. /\ chaos'.number = chaos.number /\ chaos'.count = chaos.count /\ chaos'.kind = chaos.kind
        /\ chaos'.effects = chaos.effects /\ chaos'.pid = chaos.pid
        /\ chaos'.todo = chaos.todo /\ chaos'.phase = chaos.phase /\ chaos'.restore = chaos.restore
        /\ chaos'.timers = chaos.timers /\ chaos'.late = chaos.late /\ chaos'.rollback = chaos.rollback
        /\ chaos'.missed = chaos.missed
    BY <1>5 DEF ChaosFields
  <1>8. Numbered(chaos')
    BY <1>2, <1>3, <1>5, <1>7 DEF ChaosInv, SoundChaos, Numbered, HasPidFile
  <1>9. OnRecord(chaos')
    <2>1. \A g \in Faults : record[g] = "none" => inject[g] # "no" \/ (chaos.inject[g] = "no" /\ chaos.record[g] = "none")
      BY <1>3
    <2>2. \A e \in chaos.effects : e[1] \in Faults
      BY <1>2
    <2>3. \A g \in chaos.todo : record[g] # "none"
      BY <1>3, <1>0 DEF ChaosInv, SoundChaos, OnRecord, ChaosTypes
    <2> QED
      BY <2>1, <2>2, <2>3, <1>5, <1>7 DEF ChaosInv, SoundChaos, OnRecord
  <1>10. RollingBack(chaos')
    <2>1. \A e : AccountedFor(chaos', e) <=> AccountedFor(chaos, e)
      BY <1>7 DEF AccountedFor, HasPidFile
    <2>2. f \in chaos.late \/ chaos.phase \notin {"restoring", "ended"}
      BY <1>2 DEF ChaosInv, SoundChaos, RollingBack
    <2> QED
      BY <2>1, <2>2, <1>2, <1>3, <1>5, <1>7 DEF ChaosInv, SoundChaos, RollingBack
  <1> QED
    BY <1>4, <1>6, <1>8, <1>9, <1>10 DEF ChaosInv, SoundChaos

\* A restoration is begun of a fault that has a record (restore).
LEMMA BegunKeeps ==
    ASSUME NEW c, ChaosRecord(c), ChaosTypes(c), Numbered(c), OnRecord(c), NEW r \in Restorers,
           c.restore[r] = Idle
    PROVE  LET d == RestoreBegun(c, r)
           IN  /\ ChaosRecord(d) /\ ChaosTypes(d) /\ Numbered(d) /\ OnRecord(d)
               /\ \A x \in ChaosFields \ {"restore", "expiring"} : d[x] = c[x]
               /\ \A q \in Restorers \ {r} : d.restore[q] = c.restore[q]
               /\ c.record[r[1]] # "none" => d.restore[r].stage = "commands"
               /\ c.record[r[1]] = "none" => d.restore[r] = c.restore[r]
  <1> DEFINE d == RestoreBegun(c, r)
             new == [stage |-> "commands", read |-> c.own[r[1]]]
             restore == [c.restore EXCEPT ![r] = new]
  <1>1. CASE c.record[r[1]] = "none"
    <2>1. d = c
      BY <1>1 DEF RestoreBegun
    <2> QED
      BY <1>1, <2>1
  <1>2. CASE c.record[r[1]] # "none"
    <2>1. PICK expiring : d = [c EXCEPT !.restore = restore, !.expiring = expiring]
      BY <1>2, Zenon DEF RestoreBegun
    <2>2. /\ DOMAIN restore = Restorers /\ restore[r] = new
          /\ \A q \in Restorers \ {r} : restore[q] = c.restore[q]
      BY DEF ChaosTypes
    <2> HIDE DEF restore, d
    <2>3. /\ ChaosRecord(d) /\ d.restore = restore
          /\ \A x \in ChaosFields \ {"restore", "expiring"} : d[x] = c[x]
      BY <2>1 DEF ChaosRecord, ChaosFields
    <2>4. ChaosTypes(d)
      <3>1. \A q \in Restorers : /\ restore[q] = [stage |-> restore[q].stage, read |-> restore[q].read]
                                /\ restore[q].stage \in {"no", "commands", "done"}
        <4>1. new = [stage |-> new.stage, read |-> new.read] /\ new.stage = "commands"
          OBVIOUS
        <4> HIDE DEF new
        <4>2. \A q \in Restorers \ {r} :
                /\ restore[q] = [stage |-> restore[q].stage, read |-> restore[q].read]
                /\ restore[q].stage \in {"no", "commands", "done"}
          BY <2>2 DEF ChaosTypes
        <4>3. /\ restore[r] = [stage |-> restore[r].stage, read |-> restore[r].read]
              /\ restore[r].stage \in {"no", "commands", "done"}
          BY <4>1, <2>2
        <4> QED
          BY <4>2, <4>3
      <3> QED
        BY <2>2, <2>3, <3>1 DEF ChaosTypes, ChaosFields
    <2>5. Numbered(d) /\ OnRecord(d)
      BY <2>3 DEF Numbered, OnRecord, HasPidFile, ChaosFields
    <2> QED
      BY <1>2, <2>2, <2>3, <2>4, <2>5 DEF d
  <1> QED
    BY <1>1, <1>2

\* A timer begins the restoration of its fault, which may since have a new record.
LEMMA ExpiryKeeps ==
    ASSUME ChaosInv, NEW f \in Faults, FaultExpires(f)
    PROVE  ChaosInv'
  <1>0. ChaosRecord(chaos) /\ ChaosTypes(chaos)
    BY DEF ChaosInv, SoundChaos
  <1>1. PICK t \in chaos.expiring : chaos' = RestoreBegun([chaos EXCEPT !.expiring = @ \ {t}], <<f, "timer">>)
    BY DEF FaultExpires
  <1> DEFINE c == [chaos EXCEPT !.expiring = @ \ {t}]
             r == <<f, "timer">>
  <1>2. ChaosRecord(c) /\ \A x \in ChaosFields \ {"expiring"} : c[x] = chaos[x]
    BY <1>0 DEF ChaosRecord, ChaosFields
  <1> HIDE DEF c
  <1>14. /\ c.number = chaos.number /\ c.count = chaos.count /\ c.kind = chaos.kind
        /\ c.effects = chaos.effects /\ c.pid = chaos.pid /\ c.inject = chaos.inject
        /\ c.todo = chaos.todo /\ c.phase = chaos.phase /\ c.restore = chaos.restore
        /\ c.timers = chaos.timers /\ c.late = chaos.late /\ c.rollback = chaos.rollback
        /\ c.missed = chaos.missed /\ c.record = chaos.record /\ c.own = chaos.own
    BY <1>2 DEF ChaosFields
  <1>15. ChaosTypes(c)
    BY <1>14 DEF ChaosInv, SoundChaos, ChaosTypes
  <1>16. Numbered(c)
    BY <1>14 DEF ChaosInv, SoundChaos, Numbered, HasPidFile
  <1>17. OnRecord(c)
    BY <1>2, <1>14 DEF ChaosInv, SoundChaos, OnRecord
  <1>18. c.restore[r] = Idle /\ r \in Restorers
    BY <1>14 DEF FaultExpires, Restorers
  <1>3. ChaosTypes(c) /\ Numbered(c) /\ OnRecord(c) /\ c.restore[r] = Idle /\ r \in Restorers
    BY <1>15, <1>16, <1>17, <1>18
  <1> DEFINE d == RestoreBegun(c, r)
  <1>4. /\ ChaosRecord(d) /\ ChaosTypes(d) /\ Numbered(d) /\ OnRecord(d)
        /\ \A x \in ChaosFields \ {"restore", "expiring"} : d[x] = c[x]
        /\ \A q \in Restorers \ {r} : d.restore[q] = c.restore[q]
    BY <1>2, <1>3, BegunKeeps
  <1> HIDE DEF d
  <1>5. /\ \A x \in ChaosFields \ {"restore", "expiring"} : d[x] = chaos[x]
        /\ \A g \in Faults : <<g, "all">> \in Restorers \ {r}
        /\ \A g \in Faults : d.restore[<<g, "all">>] = chaos.restore[<<g, "all">>]
    BY <1>2, <1>4 DEF ChaosFields, Restorers
  <1>6. RollingBack(d)
    BY <1>0, <1>5 DEF ChaosInv, SoundChaos, RollingBack, AccountedFor, HasPidFile, ChaosFields, ChaosTypes
  <1> QED
    BY <1>1, <1>4, <1>6 DEF ChaosInv, SoundChaos, c, d

\* A cleanup that failed, or that took the effects of its fault away but for what
\* no pid file names (restore).
LEMMA CleanupKeeps ==
    ASSUME ChaosInv, NEW r \in Restorers, RunCleanupCommands(r)
    PROVE  ChaosInv'
  <1>0. ChaosRecord(chaos) /\ ChaosTypes(chaos)
    BY DEF ChaosInv, SoundChaos
  <1> DEFINE f == r[1]
             done == [chaos.restore[r] EXCEPT !.stage = "done"]
             restore == [chaos.restore EXCEPT ![r] = done]
  <1>1. f \in Faults /\ r = <<f, r[2]>> /\ r[2] \in {"timer", "all"}
    BY DEF Restorers
  <1>2. /\ DOMAIN restore = Restorers /\ restore[r].stage = "done"
        /\ \A q \in Restorers \ {r} : restore[q] = chaos.restore[q]
        /\ \A q \in Restorers : /\ restore[q] = [stage |-> restore[q].stage, read |-> restore[q].read]
                                /\ restore[q].stage \in {"no", "commands", "done"}
    <2>1. done.stage = "done" /\ done = [stage |-> done.stage, read |-> done.read]
      <3>1. PICK stage, read : chaos.restore[r] = [stage |-> stage, read |-> read]
        BY <1>0 DEF ChaosTypes
      <3>2. done = [stage |-> "done", read |-> read]
        BY <3>1
      <3> QED
        BY <3>2
    <2> HIDE DEF done
    <2> QED
      BY <1>0, <2>1 DEF ChaosTypes
  <1>3. /\ chaos.number \in [Faults -> Nat] /\ chaos.pid \in [Faults -> Nat]
        /\ chaos.effects \in SUBSET (Faults \X Nat \X {"last", "others"})
        /\ chaos.kind \in [Faults -> Kinds] /\ chaos.missed \subseteq Faults
    BY <1>0 DEF ChaosTypes
  <1>4. ASSUME NEW effects \in SUBSET chaos.effects, NEW pid \in [Faults -> Nat],
               NEW missed \in SUBSET Faults, chaos.missed \subseteq missed,
               \A g \in Faults \ {f} : pid[g] = chaos.pid[g],
               HasPidFile(chaos, f) /\ <<f, chaos.number[f], "last">> \in effects => pid[f] = chaos.number[f],
               r[2] = "all" => \/ f \in missed
                               \/ \A e \in effects : e[1] = f =>
                                    HasPidFile(chaos, f) /\ (e[2] < chaos.number[f] \/ e[3] = "others"),
               chaos' = [chaos EXCEPT !.effects = effects, !.pid = pid, !.restore = restore,
                                      !.missed = missed]
        PROVE  ChaosInv'
    <2> HIDE DEF restore, f
    <2>1. ChaosRecord(chaos')
      BY <1>0, <1>4 DEF ChaosRecord, ChaosFields
    <2>2. /\ chaos'.effects = effects /\ chaos'.pid = pid /\ chaos'.restore = restore
          /\ chaos'.missed = missed
          /\ \A x \in ChaosFields \ {"effects", "pid", "restore", "missed"} : chaos'[x] = chaos[x]
      BY <1>0, <1>4 DEF ChaosRecord, ChaosFields
    <2>3. /\ chaos'.number = chaos.number /\ chaos'.count = chaos.count /\ chaos'.kind = chaos.kind
          /\ chaos'.inject = chaos.inject /\ chaos'.record = chaos.record
          /\ chaos'.todo = chaos.todo /\ chaos'.phase = chaos.phase
          /\ chaos'.timers = chaos.timers /\ chaos'.late = chaos.late /\ chaos'.rollback = chaos.rollback
      BY <2>2 DEF ChaosFields
    <2>4. ChaosTypes(chaos')
      <3>1. effects \subseteq Faults \X Nat \X {"last", "others"}
        BY <1>3
      <3> QED
        BY <1>0, <1>2, <2>2, <2>3, <3>1 DEF ChaosTypes, ChaosFields
    <2>5. Numbered(chaos') /\ OnRecord(chaos')
      BY <1>1, <1>4, <2>2, <2>3 DEF ChaosInv, SoundChaos, Numbered, OnRecord, HasPidFile
    <2>6. RollingBack(chaos')
      <3> SUFFICES ASSUME chaos.phase \in {"restoring", "ended"}
                   PROVE  RollingBack(chaos')
        BY <2>3 DEF RollingBack
      <3>1. RollingBack(chaos)
        BY DEF ChaosInv, SoundChaos
      <3>2. \A e : AccountedFor(chaos, e) => AccountedFor(chaos', e)
        BY <1>4, <2>2, <2>3 DEF AccountedFor, HasPidFile
      <3>3. ASSUME chaos.rollback, NEW e \in effects
            PROVE  AccountedFor(chaos', e) \/ e[1] \in chaos.todo \/ restore[<<e[1], "all">>].stage = "commands"
        <4>1. AccountedFor(chaos, e) \/ e[1] \in chaos.todo \/ chaos.restore[<<e[1], "all">>].stage = "commands"
          BY <3>1, <3>3, <1>4 DEF RollingBack
        <4>2. CASE r = <<e[1], "all">>
          BY <4>2, <1>1, <1>4, <2>2, <2>3, <3>3 DEF AccountedFor, HasPidFile
        <4>3. CASE r # <<e[1], "all">>
          <5>1. <<e[1], "all">> \in Restorers \ {r}
            BY <4>3, <1>3, <1>4, <3>3 DEF Restorers
          <5> QED
            BY <4>1, <5>1, <3>2, <1>2
        <4> QED
          BY <4>2, <4>3
      <3>4. \A g \in Faults : restore[<<g, "all">>] = Idle => chaos.restore[<<g, "all">>] = Idle
        BY <1>2, <1>1 DEF Restorers, Idle
      <3>5. chaos.rollback /\ chaos.phase = "ended" => \A g \in Faults : restore[<<g, "all">>] = Idle
        <4>1. \A g \in Faults : chaos.rollback /\ chaos.phase = "ended" => r # <<g, "all">>
          BY <3>1 DEF RollingBack, RunCleanupCommands, Idle
        <4>2. \A g \in Faults : <<g, "all">> \in Restorers
          BY DEF Restorers
        <4> QED
          BY <4>1, <4>2, <3>1, <1>2 DEF RollingBack
      <3> QED
        BY <3>1, <3>2, <3>3, <3>4, <3>5, <2>2, <2>3 DEF RollingBack
    <2> QED
      BY <2>1, <2>4, <2>5, <2>6 DEF ChaosInv, SoundChaos
  <1>5. CASE chaos' = [CleanedUp(chaos, f) EXCEPT !.restore[r].stage = "done"]
    <2> DEFINE effects == IF chaos.kind[f] \in {"net", "block"} THEN chaos.effects \ SameKind(chaos, f)
                          ELSE IF HasPidFile(chaos, f) THEN chaos.effects \ {<<f, chaos.pid[f], "last">>}
                          ELSE {e \in chaos.effects : e[1] # f}
               pid == [chaos.pid EXCEPT ![f] = 0]
               c == CleanedUp(chaos, f)
    <2>1. effects \in SUBSET chaos.effects
      OBVIOUS
    <2>2. pid \in [Faults -> Nat] /\ \A g \in Faults \ {f} : pid[g] = chaos.pid[g]
      BY <1>1, <1>3
    <2>3. \A e \in effects : e[1] = f =>
            HasPidFile(chaos, f) /\ (e[2] < chaos.number[f] \/ e[3] = "others")
      <3> SUFFICES ASSUME NEW e \in effects, e[1] = f
                   PROVE  HasPidFile(chaos, f) /\ (e[2] < chaos.number[f] \/ e[3] = "others")
        OBVIOUS
      <3>1. HasPidFile(chaos, f) /\ e \in chaos.effects /\ e # <<f, chaos.pid[f], "last">>
        BY <1>1, <1>3 DEF SameKind, HasPidFile, Kinds
      <3>2. e = <<f, e[2], e[3]>> /\ e[3] \in {"last", "others"} /\ e[2] <= chaos.number[f]
            /\ e[2] \in Nat /\ chaos.number[f] \in Nat
        BY <3>1, <1>1, <1>3 DEF ChaosInv, SoundChaos, Numbered
      <3>3. CASE e[3] = "last" /\ e[2] = chaos.number[f]
        <4>1. e = <<f, chaos.number[f], "last">>
          BY <3>2, <3>3
        <4> QED
          BY <4>1, <3>1, <1>1 DEF ChaosInv, SoundChaos, Numbered
      <3> QED
        BY <3>1, <3>2, <3>3
    <2>4. <<f, chaos.number[f], "last">> \notin effects
      BY <2>3, <1>1, <1>3
    <2>5. c = [chaos EXCEPT !.effects = effects, !.pid = pid]
      BY DEF CleanedUp
    <2> HIDE DEF effects, pid, c
    <2>6. c.restore = chaos.restore
      BY <2>5, <1>0 DEF ChaosRecord, ChaosFields
    <2>7. ChaosRecord(c)
      BY <2>5, <1>0 DEF ChaosRecord, ChaosFields
    <2>8. chaos' = [c EXCEPT !.restore = restore]
      BY <1>5, <2>6, <2>7 DEF c, ChaosRecord, ChaosFields
    <2>9. chaos' = [chaos EXCEPT !.effects = effects, !.pid = pid, !.restore = restore,
                                 !.missed = chaos.missed]
      <3> HIDE DEF restore
      <3> QED
        BY <2>5, <2>8, <1>0 DEF ChaosRecord, ChaosFields
    <2> HIDE DEF restore, f
    <2> QED
      BY <1>3, <1>4, <2>1, <2>2, <2>3, <2>4, <2>9
  <1>6. CASE chaos' = [chaos EXCEPT !.restore[r].stage = "done",
                                    !.missed = IF r[2] = "all" THEN @ \cup {f} ELSE @]
    <2> DEFINE missed == IF r[2] = "all" THEN chaos.missed \cup {f} ELSE chaos.missed
    <2>1. chaos' = [chaos EXCEPT !.restore = restore, !.missed = missed]
      BY <1>6
    <2>2. missed \in SUBSET Faults /\ chaos.missed \subseteq missed /\ (r[2] = "all" => f \in missed)
      BY <1>1, <1>3
    <2>3. chaos' = [chaos EXCEPT !.effects = chaos.effects, !.pid = chaos.pid, !.restore = restore,
                                 !.missed = missed]
      <3> HIDE DEF restore, missed
      <3> QED
        BY <2>1, <1>0 DEF ChaosRecord, ChaosFields
    <2>4. HasPidFile(chaos, f) /\ <<f, chaos.number[f], "last">> \in chaos.effects => chaos.pid[f] = chaos.number[f]
      BY <1>1 DEF ChaosInv, SoundChaos, Numbered
    <2> HIDE DEF missed, restore, f
    <2> QED
      BY <1>3, <1>4, <2>2, <2>3, <2>4
  <1> QED
    BY <1>5, <1>6 DEF RunCleanupCommands

\* The record that was read is written back: the fault counts as restored (restore).
LEMMA RestoredKeeps ==
    ASSUME ChaosInv, NEW r \in Restorers, Restored(r)
    PROVE  ChaosInv'
  <1>0. ChaosRecord(chaos) /\ ChaosTypes(chaos)
    BY DEF ChaosInv, SoundChaos
  <1> DEFINE f == r[1]
             restore == [chaos.restore EXCEPT ![r] = Idle]
             record == [chaos.record EXCEPT ![f] = "restored"]
             own == [chaos.own EXCEPT ![f] = chaos.restore[r].read]
  <1>1. f \in Faults /\ r = <<f, r[2]>>
    BY DEF Restorers
  <1>2. chaos' = [chaos EXCEPT !.restore = restore, !.record = record, !.own = own]
    BY DEF Restored
  <1>3. /\ DOMAIN restore = Restorers /\ restore[r] = Idle
        /\ \A q \in Restorers \ {r} : restore[q] = chaos.restore[q]
        /\ record \in [Faults -> {"none", "active", "failed", "restored"}] /\ record[f] = "restored"
        /\ \A g \in Faults \ {f} : record[g] = chaos.record[g]
        /\ DOMAIN own = Faults
    BY <1>0, <1>1 DEF ChaosTypes
  <1>4. \A q \in Restorers : /\ restore[q] = [stage |-> restore[q].stage, read |-> restore[q].read]
                             /\ restore[q].stage \in {"no", "commands", "done"}
    BY <1>0, <1>3 DEF ChaosTypes, Idle
  <1>5. chaos.restore[r].stage = "done"
    BY DEF Restored
  <1> HIDE DEF restore, record, own, f
  <1>6. ChaosRecord(chaos')
    BY <1>0, <1>2 DEF ChaosRecord, ChaosFields
  <1>7. /\ chaos'.restore = restore /\ chaos'.record = record /\ chaos'.own = own
        /\ \A x \in ChaosFields \ {"restore", "record", "own"} : chaos'[x] = chaos[x]
    BY <1>0, <1>2 DEF ChaosRecord, ChaosFields
  <1>9. /\ chaos'.number = chaos.number /\ chaos'.count = chaos.count /\ chaos'.kind = chaos.kind
        /\ chaos'.effects = chaos.effects /\ chaos'.pid = chaos.pid /\ chaos'.inject = chaos.inject
        /\ chaos'.todo = chaos.todo /\ chaos'.phase = chaos.phase
        /\ chaos'.timers = chaos.timers /\ chaos'.late = chaos.late /\ chaos'.rollback = chaos.rollback
        /\ chaos'.missed = chaos.missed
    BY <1>7 DEF ChaosFields
  <1>8. ChaosTypes(chaos')
    BY <1>0, <1>3, <1>4, <1>7, <1>9 DEF ChaosTypes
  <1>10. Numbered(chaos')
    BY <1>9 DEF ChaosInv, SoundChaos, Numbered, HasPidFile
  <1>11. OnRecord(chaos')
    BY <1>0, <1>3, <1>7, <1>9 DEF ChaosInv, SoundChaos, OnRecord, ChaosTypes
  <1>12. RollingBack(chaos')
    <2>1. RollingBack(chaos)
      BY DEF ChaosInv, SoundChaos
    <2>2. \A e : AccountedFor(chaos', e) <=> AccountedFor(chaos, e)
      BY <1>9 DEF AccountedFor, HasPidFile
    <2>3. \A g \in Faults : <<g, "all">> \in Restorers
      BY DEF Restorers
    <2>4. \A g \in Faults : restore[<<g, "all">>].stage = "commands" <=> chaos.restore[<<g, "all">>].stage = "commands"
      <3>1. Idle.stage = "no"
        BY DEF Idle
      <3>2. restore[r].stage # "commands" /\ chaos.restore[r].stage # "commands"
        BY <1>3, <1>5, <3>1
      <3> QED
        BY <1>3, <2>3, <3>2
    <2>5. \A g \in Faults : chaos.restore[<<g, "all">>] = Idle => restore[<<g, "all">>] = Idle
      BY <1>3, <2>3
    <2>6. \A g \in Faults : record[g] = "active" =>
            chaos.record[g] = "active" /\ (restore[<<g, "all">>] = Idle => chaos.restore[<<g, "all">>] = Idle)
      <3> SUFFICES ASSUME NEW g \in Faults, record[g] = "active"
                   PROVE  chaos.record[g] = "active" /\ (restore[<<g, "all">>] = Idle => chaos.restore[<<g, "all">>] = Idle)
        OBVIOUS
      <3>1. g # f
        BY <1>3
      <3>2. <<g, "all">> # r
        BY <3>1, <1>1
      <3> QED
        BY <3>1, <3>2, <1>3, <2>3
    <2>7. \A e \in chaos.effects : e[1] \in Faults
      BY <1>0 DEF ChaosTypes
    <2> QED
      BY <1>7, <1>9, <2>1, <2>2, <2>4, <2>5, <2>6, <2>7 DEF RollingBack
  <1> QED
    BY <1>6, <1>8, <1>10, <1>11, <1>12 DEF ChaosInv, SoundChaos

\* The scenario has ended: the timers are cleared, the injections under way are
\* late, and every fault with a record is to be restored (executeExperiment).
LEMMA FinallyKeeps ==
    ASSUME ChaosInv, chaos.phase \in {"running", "aborting"}
    PROVE  SoundChaos(Finally(chaos))
  <1>0. ChaosRecord(chaos) /\ ChaosTypes(chaos)
    BY DEF ChaosInv, SoundChaos
  <1> DEFINE c == Finally(chaos)
             late == {f \in Faults : chaos.inject[f] # "no"}
             todo == IF chaos.rollback THEN ToRestore(chaos) ELSE {}
             phase == IF chaos.rollback THEN "restoring" ELSE "ended"
  <1>1. c = [chaos EXCEPT !.timers = {}, !.late = late, !.missed = {}, !.phase = phase, !.todo = todo]
    BY DEF Finally
  <1>2. /\ late \subseteq Faults /\ todo \subseteq Faults /\ phase \in {"restoring", "ended"}
        /\ \A f \in todo : chaos.record[f] # "none"
        /\ chaos.rollback => /\ phase = "restoring"
                             /\ \A f \in Faults : chaos.record[f] # "none" => f \in todo
    BY DEF ToRestore
  <1>3. \A f \in Faults : chaos.inject[f] # "no" => f \in late
    OBVIOUS
  <1> HIDE DEF c, late, todo, phase
  <1>4. ChaosRecord(c)
    BY <1>0, <1>1 DEF ChaosRecord, ChaosFields
  <1>5. /\ c.timers = {} /\ c.late = late /\ c.missed = {} /\ c.phase = phase /\ c.todo = todo
        /\ \A x \in ChaosFields \ {"timers", "late", "missed", "phase", "todo"} : c[x] = chaos[x]
    BY <1>0, <1>1 DEF ChaosRecord, ChaosFields
  <1>6. ChaosTypes(c)
    BY <1>0, <1>2, <1>5 DEF ChaosTypes, ChaosFields
  <1>7. /\ c.number = chaos.number /\ c.count = chaos.count /\ c.kind = chaos.kind
        /\ c.effects = chaos.effects /\ c.pid = chaos.pid /\ c.inject = chaos.inject
        /\ c.record = chaos.record /\ c.rollback = chaos.rollback /\ c.restore = chaos.restore
    BY <1>5 DEF ChaosFields
  <1>8. Numbered(c) /\ OnRecord(c)
    BY <1>2, <1>5, <1>7 DEF ChaosInv, SoundChaos, Numbered, OnRecord, HasPidFile
  <1>9. RollingBack(c)
    <2>1. \A e \in chaos.effects : e[1] \in Faults /\ (chaos.inject[e[1]] # "no" \/ chaos.record[e[1]] # "none")
      BY <1>0 DEF ChaosInv, SoundChaos, OnRecord, ChaosTypes
    <2>2. chaos.rollback => \A e \in c.effects : AccountedFor(c, e) \/ e[1] \in c.todo
      BY <2>1, <1>2, <1>3, <1>5, <1>7 DEF AccountedFor
    <2>3. chaos.rollback => \A f \in Faults : c.record[f] = "active" => f \in c.todo
      BY <1>2, <1>5, <1>7
    <2> QED
      BY <2>2, <2>3, <1>2, <1>3, <1>5, <1>7 DEF RollingBack
  <1> QED
    BY <1>4, <1>6, <1>8, <1>9 DEF SoundChaos, c

\* The scenario ends, or is aborted and everything restored a first time.
LEMMA ScenarioEndKeeps == ChaosInv /\ ScenarioEnds => ChaosInv'
  <1> SUFFICES ASSUME ChaosInv, ScenarioEnds PROVE ChaosInv'
    OBVIOUS
  <1>0. ChaosRecord(chaos) /\ ChaosTypes(chaos) /\ chaos.phase = "running"
    BY DEF ChaosInv, SoundChaos, ScenarioEnds, Running
  <1>1. CASE chaos' = Finally(chaos)
    BY <1>0, <1>1, FinallyKeeps DEF ChaosInv
  <1>2. CASE chaos' = [chaos EXCEPT !.phase = "aborting", !.todo = ToRestore(chaos)]
    <2> DEFINE todo == ToRestore(chaos)
    <2>1. todo \subseteq Faults /\ \A f \in todo : chaos.record[f] # "none"
      BY DEF ToRestore
    <2> HIDE DEF todo
    <2>2. chaos' = [chaos EXCEPT !.phase = "aborting", !.todo = todo]
      BY <1>2 DEF todo
    <2>3. /\ ChaosRecord(chaos') /\ chaos'.phase = "aborting" /\ chaos'.todo = todo
          /\ \A x \in ChaosFields \ {"phase", "todo"} : chaos'[x] = chaos[x]
      BY <1>0, <2>2 DEF ChaosRecord, ChaosFields
    <2>4. ChaosTypes(chaos')
      BY <1>0, <2>1, <2>3 DEF ChaosTypes, ChaosFields
    <2>5. Numbered(chaos') /\ OnRecord(chaos') /\ RollingBack(chaos')
      BY <2>1, <2>3 DEF ChaosInv, SoundChaos, Numbered, OnRecord, RollingBack, HasPidFile, ChaosFields
    <2> QED
      BY <2>3, <2>4, <2>5 DEF ChaosInv, SoundChaos
  <1> QED
    BY <1>1, <1>2 DEF ScenarioEnds

\* restoreAll takes up the next fault: it has a record, so its restoration begins.
LEMMA RestoreNextKeeps ==
    ASSUME ChaosInv, NEW f \in Faults, RestoreNext(f)
    PROVE  ChaosInv'
  <1>0. ChaosRecord(chaos) /\ ChaosTypes(chaos)
    BY DEF ChaosInv, SoundChaos
  <1> DEFINE c == [chaos EXCEPT !.todo = @ \ {f}]
             r == <<f, "all">>
  <1>1. chaos' = RestoreBegun(c, r) /\ f \in chaos.todo /\ chaos.phase # "ended"
    BY DEF RestoreNext
  <1>2. ChaosRecord(c) /\ c.todo = chaos.todo \ {f} /\ \A x \in ChaosFields \ {"todo"} : c[x] = chaos[x]
    BY <1>0 DEF ChaosRecord, ChaosFields
  <1> HIDE DEF c
  <1>3. ChaosTypes(c) /\ Numbered(c) /\ OnRecord(c) /\ c.restore[r] = Idle /\ r \in Restorers
    BY <1>0, <1>2 DEF ChaosInv, SoundChaos, ChaosTypes, Numbered, OnRecord, HasPidFile, ChaosFields, RestoreNext,
                      Restorers
  <1> DEFINE d == RestoreBegun(c, r)
  <1>4. /\ ChaosRecord(d) /\ ChaosTypes(d) /\ Numbered(d) /\ OnRecord(d)
        /\ \A x \in ChaosFields \ {"restore", "expiring"} : d[x] = c[x]
        /\ \A q \in Restorers \ {r} : d.restore[q] = c.restore[q]
        /\ c.record[r[1]] # "none" => d.restore[r].stage = "commands"
    BY <1>2, <1>3, BegunKeeps
  <1>5. d.restore[r].stage = "commands"
    <2>1. chaos.record[f] # "none"
      BY <1>1 DEF ChaosInv, SoundChaos, OnRecord
    <2> QED
      BY <2>1, <1>2, <1>4 DEF ChaosFields
  <1> HIDE DEF d
  <1>6. /\ \A x \in ChaosFields \ {"restore", "expiring", "todo"} : d[x] = chaos[x]
        /\ d.todo = chaos.todo \ {f}
        /\ \A g \in Faults \ {f} : d.restore[<<g, "all">>] = chaos.restore[<<g, "all">>]
    BY <1>2, <1>4 DEF ChaosFields, Restorers
  <1>7. RollingBack(d)
    <2>1. RollingBack(chaos)
      BY DEF ChaosInv, SoundChaos
    <2>2. d.restore[<<f, "all">>] # Idle
      BY <1>5 DEF Idle
    <2>3. \A e \in chaos.effects : e[1] \in Faults
      BY <1>0 DEF ChaosTypes
    <2>4. \A e : AccountedFor(d, e) <=> AccountedFor(chaos, e)
      BY <1>6 DEF AccountedFor, HasPidFile, ChaosFields
    <2>5. /\ d.phase = chaos.phase /\ d.timers = chaos.timers /\ d.inject = chaos.inject
          /\ d.late = chaos.late /\ d.rollback = chaos.rollback /\ d.effects = chaos.effects
          /\ d.record = chaos.record
      BY <1>6 DEF ChaosFields
    <2> QED
      BY <1>1, <1>5, <1>6, <2>1, <2>2, <2>3, <2>4, <2>5 DEF RollingBack
  <1> QED
    BY <1>1, <1>4, <1>7 DEF ChaosInv, SoundChaos, d

\* restoreAll is through: after an abort comes the end proper, else that was it.
LEMMA AllRestoredKeeps == ChaosInv /\ AllRestored => ChaosInv'
  <1> SUFFICES ASSUME ChaosInv, AllRestored PROVE ChaosInv'
    OBVIOUS
  <1>0. ChaosRecord(chaos) /\ ChaosTypes(chaos)
    BY DEF ChaosInv, SoundChaos
  <1>1. CASE chaos.phase = "aborting"
    BY <1>1, FinallyKeeps DEF ChaosInv, AllRestored
  <1>2. CASE chaos.phase = "restoring"
    <2>1. chaos' = [chaos EXCEPT !.phase = "ended"] /\ chaos.todo = {}
          /\ \A g \in Faults : chaos.restore[<<g, "all">>] = Idle
      BY <1>2 DEF AllRestored
    <2>2. /\ ChaosRecord(chaos') /\ chaos'.phase = "ended"
          /\ \A x \in ChaosFields \ {"phase"} : chaos'[x] = chaos[x]
      BY <1>0, <2>1 DEF ChaosRecord, ChaosFields
    <2>3. ChaosTypes(chaos')
      BY <1>0, <2>2 DEF ChaosTypes, ChaosFields
    <2>4. Numbered(chaos') /\ OnRecord(chaos')
      BY <2>2 DEF ChaosInv, SoundChaos, Numbered, OnRecord, HasPidFile, ChaosFields
    <2>5. RollingBack(chaos')
      BY <1>2, <2>1, <2>2 DEF ChaosInv, SoundChaos, RollingBack, HasPidFile, AccountedFor, ChaosFields
    <2> QED
      BY <2>2, <2>3, <2>4, <2>5 DEF ChaosInv, SoundChaos
  <1> QED
    BY <1>1, <1>2 DEF AllRestored

\* Every step of an experiment keeps the invariant (ChaosEngine).
LEMMA ChaosKeeps == ChaosInv /\ ChaosNext => ChaosInv'
  BY TriggerKeeps, InjectionKeeps, InjectedKeeps, ExpiryKeeps, CleanupKeeps, RestoredKeeps,
     ScenarioEndKeeps, RestoreNextKeeps, AllRestoredKeeps DEF ChaosNext

\* The invariant gives what the experiment promises (restoreAll).
LEMMA ChaosHolds == ChaosInv => RollbackIsComplete /\ EffectsAreRecorded
  <1> SUFFICES ASSUME ChaosInv PROVE RollbackIsComplete /\ EffectsAreRecorded
    OBVIOUS
  <1>0. ChaosTypes(chaos) /\ Numbered(chaos) /\ OnRecord(chaos) /\ RollingBack(chaos)
    BY DEF ChaosInv, SoundChaos
  <1>1. Idle.stage # "commands" /\ \A e \in chaos.effects : e[1] \in Faults
    BY <1>0 DEF Idle, ChaosTypes
  <1>2. chaos.phase = "ended" /\ chaos.rollback =>
          /\ \A e \in chaos.effects : AccountedFor(chaos, e)
          /\ {f \in Faults : chaos.record[f] = "active"} \subseteq chaos.late
    BY <1>0, <1>1 DEF RollingBack
  <1>3. Cardinality({e[2] : e \in chaos.effects}) <= MaxConcurrent
    <2> DEFINE numbers == {e[2] : e \in chaos.effects}
    <2>1. numbers \subseteq 1..MaxConcurrent
      BY <1>0, ChaosAssumption DEF Numbered, ChaosTypes
    <2> HIDE DEF numbers
    <2>2. IsFiniteSet(1..MaxConcurrent) /\ Cardinality(1..MaxConcurrent) = MaxConcurrent
      BY FS_Interval, ChaosAssumption
    <2>3. Cardinality(numbers) <= Cardinality(1..MaxConcurrent)
      BY <2>1, <2>2, FS_Subset
    <2> QED
      BY <2>2, <2>3 DEF numbers
  <1> QED
    BY <1>0, <1>2, <1>3 DEF RollbackIsComplete, EffectsAreRecorded, AccountedFor, OnRecord
-----------------------------------------------------------------------------
(* The cache and the registry of skills                                    *)

DownloadFields ==
  {"on", "target", "staging", "at", "attempt", "master", "cut", "answer", "spoiled", "faults"}

DownloadRecord(s) ==
  /\ DOMAIN s = DownloadFields /\ s = [x \in DownloadFields |-> s[x]]
  /\ s.on = "download"

DownloadSteps ==
  {"idle", "find", "read", "stage", "fetch", "verify", "remove", "rename", "copy", "copied",
   "done", "failed"}

StagedAs == Versions \cup {"absent", "empty"}

AnsweredAs == {None} \cup [version : Versions, whole : BOOLEAN, cause : BOOLEAN]

\* What is answered is of an accepted download, and there is a cause if not all of
\* it is there.
SoundAnswer(a) == a # None => Accepts(a.version) /\ (a.whole \/ a.cause)

DownloadTypes(s) ==
  /\ s.target \in [Versions -> {"none", "part", "all"}]
  /\ s.at \in [Clients -> DownloadSteps] /\ s.cut \in [Clients -> BOOLEAN]
  /\ s.staging \in [Clients -> StagedAs] /\ s.answer \in [Clients -> AnsweredAs]
  /\ s.spoiled \in BOOLEAN

\* What is staged was fetched, and what is installed was accepted.
Staged(s) ==
  \A c \in Clients :
    /\ s.at[c] = "verify" => s.staging[c] \in Versions
    /\ s.at[c] \in Installing \cup {"remove"} => s.staging[c] \in Versions /\ Accepts(s.staging[c])
    /\ s.at[c] \in {"idle", "find", "read", "stage", "done", "failed"} => s.staging[c] = "absent"

Verified(s) ==
  /\ \A c \in Clients : SoundAnswer(s.answer[c])
  /\ \A v \in Refused \cup {NoManifest} : s.target[v] = "none"

Partial(v) == [Gone EXCEPT ![v] = "part"]

\* But for overlapping installs one client at most installs, into a directory it
\* has emptied.
Installed(s) ==
  ~s.spoiled =>
    /\ \A c, d \in Clients : s.at[c] \in Installing /\ s.at[d] \in Installing => c = d
    /\ \A c \in Clients :
         /\ s.at[c] \in {"rename", "copy"} => s.target = Gone
         /\ s.at[c] = "copied" => s.target = IF s.cut[c] THEN Gone ELSE Partial(s.staging[c])
    /\ (\A c \in Clients : s.at[c] \notin Installing) =>
         s.target = Gone \/ \E v \in Versions : s.target = Whole(v)

SoundDownload(s) == DownloadRecord(s) /\ DownloadTypes(s) /\ Staged(s) /\ Verified(s) /\ Installed(s)

RegistryFields == {"on", "skills", "catalog", "index", "saved"}

RegistryRecord(s) ==
  /\ DOMAIN s = RegistryFields /\ s = [x \in RegistryFields |-> s[x]]
  /\ s.on = "registry"

\* An entry lies under its own id, and its manifest tells the same of it.
SoundEntry(e, i) ==
  e # None =>
    /\ e \in CatalogEntry
    /\ e.manifest # None => e.manifest.category = e.category /\ NormalizeSkillId(e.manifest.name) = i

SoundCatalog(catalog) == DOMAIN catalog = Ids /\ \A i \in Ids : SoundEntry(catalog[i], i)

SoundRegistry(s) ==
  /\ RegistryRecord(s)
  /\ DOMAIN s.skills = Ids /\ \A i \in Ids : s.skills[i] # None => s.skills[i] \in Manifest
  /\ SoundCatalog(s.catalog)
  /\ s.index \in [Categories -> SUBSET Ids]
  /\ s.saved # None => SoundCatalog(s.saved)
  /\ \A i \in Ids :
       /\ s.skills[i] # None => /\ s.catalog[i] # None /\ i \in s.index[s.skills[i].category]
                                /\ NormalizeSkillId(s.skills[i].name) = i
       /\ s.catalog[i] # None => /\ s.catalog[i].manifest \in {None, s.skills[i]}
                                 /\ i \in s.index[s.catalog[i].category]
  /\ \A k \in Categories : \A i \in s.index[k] : s.catalog[i] # None

StoreInv == SoundDownload(store) \/ SoundRegistry(store)

\* A registry as it is created (loadCanonicalSkills).
LEMMA PreloadedIsSound ==
    ASSUME NEW c \in Categories PROVE SoundRegistry(Preloaded(c))
  <1> DEFINE manifest == [name |-> "tdd", category |-> c]
             entry == [name |-> "tdd", category |-> c, manifest |-> manifest, installs |-> 1]
             skills == [i \in Ids |-> IF i = "tdd" THEN manifest ELSE None]
             catalog == [i \in Ids |-> IF i = "tdd" THEN entry ELSE None]
             index == [k \in Categories |-> IF k = c THEN {"tdd"} ELSE {}]
             s == Preloaded(c)
  <1>1. manifest \in Manifest /\ entry \in CatalogEntry /\ entry # None
        /\ NormalizeSkillId(manifest.name) = "tdd" /\ "tdd" \in Ids
        /\ entry.category = c /\ manifest.category = c /\ entry.manifest = manifest
    <2>1. "tdd" \in Names /\ NormalizeSkillId("tdd") = "tdd"
      BY DEF Names, NormalizeSkillId
    <2>2. "tdd" \in Ids
      BY <2>1 DEF Ids
    <2>3. manifest \in Manifest
      BY <2>1 DEF Manifest
    <2>4. entry \in CatalogEntry
      <3> HIDE DEF manifest
      <3> QED
        BY <2>1, <2>3 DEF CatalogEntry
    <2>5. entry # None
      BY <2>4, StoreAssumption
    <2> QED
      BY <2>1, <2>2, <2>3, <2>4, <2>5
  <1>2. s = [on |-> "registry", skills |-> skills, catalog |-> catalog, index |-> index, saved |-> None]
    BY DEF Preloaded
  <1> HIDE DEF manifest, entry
  <1>3. /\ skills["tdd"] = manifest /\ catalog["tdd"] = entry /\ index[c] = {"tdd"}
        /\ \A i \in Ids \ {"tdd"} : skills[i] = None /\ catalog[i] = None
        /\ \A k \in Categories \ {c} : index[k] = {}
        /\ DOMAIN skills = Ids /\ DOMAIN catalog = Ids /\ index \in [Categories -> SUBSET Ids]
    BY <1>1
  <1> HIDE DEF skills, catalog, index, s
  <1>4. SoundCatalog(catalog)
    BY <1>1, <1>3 DEF SoundCatalog, SoundEntry
  <1>5. RegistryRecord(s) /\ s.skills = skills /\ s.catalog = catalog /\ s.index = index /\ s.saved = None
    BY <1>2 DEF RegistryRecord, RegistryFields
  <1> QED
    BY <1>1, <1>3, <1>4, <1>5 DEF SoundRegistry, s

\* Nothing is downloaded yet, or the registry has its own skills.
LEMMA StoreStarts == StoreInit => StoreInv
  <1> SUFFICES ASSUME StoreInit PROVE StoreInv
    OBVIOUS
  <1>1. ASSUME store = [on |-> "download", target |-> Gone, staging |-> [c \in Clients |-> "absent"],
              at |-> [c \in Clients |-> "idle"], attempt |-> [c \in Clients |-> 0],
              master |-> [c \in Clients |-> FALSE], cut |-> [c \in Clients |-> FALSE],
              answer |-> [c \in Clients |-> None], spoiled |-> FALSE, faults |-> 0]
        PROVE  SoundDownload(store)
    <2>1. DownloadRecord(store)
      BY <1>1 DEF DownloadRecord, DownloadFields
    <2>2. /\ store.target = Gone /\ store.staging = [c \in Clients |-> "absent"]
          /\ store.at = [c \in Clients |-> "idle"] /\ store.cut = [c \in Clients |-> FALSE]
          /\ store.answer = [c \in Clients |-> None] /\ store.spoiled = FALSE
      BY <1>1
    <2>3. Gone \in [Versions -> {"none", "part", "all"}] /\ \A v \in Versions : Gone[v] = "none"
      BY DEF Gone
    <2>4. DownloadTypes(store)
      <3>1. /\ [c \in Clients |-> "idle"] \in [Clients -> DownloadSteps]
            /\ [c \in Clients |-> FALSE] \in [Clients -> BOOLEAN]
        BY DEF DownloadSteps
      <3>2. /\ [c \in Clients |-> "absent"] \in [Clients -> StagedAs]
            /\ [c \in Clients |-> None] \in [Clients -> AnsweredAs]
        BY DEF StagedAs, AnsweredAs
      <3> QED
        BY <2>2, <2>3, <3>1, <3>2 DEF DownloadTypes
    <2>5. Staged(store) /\ Verified(store)
      BY <2>2, <2>3, StoreAssumption DEF Staged, Verified, SoundAnswer, Installing
    <2>6. Installed(store)
      BY <2>2 DEF Installed, Installing
    <2> QED
      BY <2>1, <2>4, <2>5, <2>6 DEF SoundDownload
  <1>2. ASSUME NEW c \in Categories, store = Preloaded(c) PROVE SoundRegistry(store)
    BY <1>2, PreloadedIsSound
  <1> QED
    BY <1>1, <1>2 DEF StoreInit, StoreInv
-----------------------------------------------------------------------------
\* A step of a client that changes neither what is cached nor what it answers
\* and installs nothing.
LEMMA ClientMoves ==
    ASSUME SoundDownload(store), NEW c \in Clients, NEW step \in DownloadSteps \ Installing,
           store.at[c] \notin Installing, NEW staged \in StagedAs,
           step = "verify" => staged \in Versions,
           step = "remove" => staged \in Versions /\ Accepts(staged),
           step \in {"idle", "find", "read", "stage", "done", "failed"} => staged = "absent",
           NEW answer \in AnsweredAs, SoundAnswer(answer),
           DownloadRecord(store'),
           store'.target = store.target, store'.cut = store.cut, store'.spoiled = store.spoiled,
           store'.at = [store.at EXCEPT ![c] = step], store'.staging = [store.staging EXCEPT ![c] = staged],
           store'.answer = [store.answer EXCEPT ![c] = answer]
    PROVE  SoundDownload(store')
  <1>1. DownloadTypes(store)
    BY DEF SoundDownload
  <1>2. /\ store'.at[c] = step /\ \A d \in Clients \ {c} : store'.at[d] = store.at[d]
        /\ store'.staging[c] = staged /\ \A d \in Clients \ {c} : store'.staging[d] = store.staging[d]
        /\ store'.answer[c] = answer /\ \A d \in Clients \ {c} : store'.answer[d] = store.answer[d]
        /\ store'.at \in [Clients -> DownloadSteps]
        /\ store'.staging \in [Clients -> StagedAs] /\ store'.answer \in [Clients -> AnsweredAs]
    BY <1>1 DEF DownloadTypes
  <1>3. DownloadTypes(store')
    BY <1>1, <1>2 DEF DownloadTypes
  <1>4. Staged(store')
    BY <1>2 DEF SoundDownload, Staged, DownloadSteps
  <1>5. Verified(store')
    BY <1>2 DEF SoundDownload, Verified
  <1>6. Installed(store')
    <2>1. \A d \in Clients : store'.at[d] \in Installing => d # c /\ store.at[d] \in Installing
      BY <1>2
    <2>2. (\A d \in Clients : store'.at[d] \notin Installing) => \A d \in Clients : store.at[d] \notin Installing
      BY <1>2
    <2>3. Installed(store)
      BY DEF SoundDownload
    <2>4. \A d \in Clients \ {c} : store'.at[d] = store.at[d] /\ store'.staging[d] = store.staging[d]
      BY <1>2
    <2> QED
      BY <2>1, <2>2, <2>3, <2>4, <1>2 DEF Installed, Installing
  <1> QED
    BY <1>3, <1>4, <1>5, <1>6 DEF SoundDownload

ReadAnswer(v) ==
  Told(v, store.target, store.spoiled \/ \E d \in Clients : store.at[d] = "copied")

\* What a client reads from the cache is of an accepted download, and whole unless
\* there is a cause (downloadSkill).
LEMMA ReadIsSound ==
    ASSUME SoundDownload(store), NEW v \in Versions, store.target[v] # "none"
    PROVE  SoundAnswer(ReadAnswer(v)) /\ ReadAnswer(v) \in AnsweredAs
  <1> DEFINE cause == store.spoiled \/ \E d \in Clients : store.at[d] = "copied"
  <1>0. DownloadTypes(store) /\ Verified(store) /\ Installed(store)
    BY DEF SoundDownload
  <1>1. cause \in BOOLEAN /\ Accepts(v)
    BY <1>0 DEF DownloadTypes, Verified, Accepts
  <1>2. ~cause => store.target = Whole(v)
    <2> SUFFICES ASSUME ~cause PROVE store.target = Whole(v)
      OBVIOUS
    <2>1. store.target # Gone
      BY DEF Gone
    <2>2. \A d \in Clients : store.at[d] \notin Installing
      BY <1>0, <2>1 DEF Installed, Installing
    <2>3. PICK w \in Versions : store.target = Whole(w)
      BY <1>0, <2>1, <2>2 DEF Installed
    <2> QED
      BY <2>3 DEF Whole, Gone
  <1> DEFINE whole == store.target = Whole(v)
  <1>3. whole \in BOOLEAN /\ ReadAnswer(v) = [version |-> v, whole |-> whole, cause |-> cause]
    BY DEF ReadAnswer, Told
  <1>4. whole \/ cause
    BY <1>2
  <1> HIDE DEF cause, whole
  <1> QED
    BY <1>1, <1>3, <1>4 DEF SoundAnswer, AnsweredAs

\* Looking at the cache, staging, fetching, verifying and asking again.
LEMMA MovesKeep ==
    ASSUME SoundDownload(store), NEW c \in Clients,
           \/ CheckCache(c) \/ FindManifest(c) \/ ReadCached(c) \/ Stage(c) \/ FetchSucceeds(c)
           \/ FetchFails(c) \/ VerifySkill(c) \/ AskAgain(c)
    PROVE  SoundDownload(store')
  <1>0. DownloadRecord(store) /\ DownloadTypes(store) /\ Staged(store) /\ Verified(store)
    BY DEF SoundDownload
  <1>1. ASSUME NEW step \in DownloadSteps \ Installing, store.at[c] \notin Installing,
               step = "verify" => store.staging[c] \in Versions,
               step = "remove" => store.staging[c] \in Versions /\ Accepts(store.staging[c]),
               step \in {"idle", "find", "read", "stage", "done", "failed"} => store.staging[c] = "absent",
               store' = [store EXCEPT !.at[c] = step]
        PROVE  SoundDownload(store')
    <2> DEFINE at == [store.at EXCEPT ![c] = step]
    <2>1. store' = [store EXCEPT !.at = at]
      BY <1>1
    <2> HIDE DEF at
    <2>2. /\ DownloadRecord(store') /\ store'.at = at
          /\ \A x \in DownloadFields \ {"at"} : store'[x] = store[x]
      BY <2>1, <1>0 DEF DownloadRecord, DownloadFields
    <2>3. /\ store'.target = store.target /\ store'.cut = store.cut /\ store'.spoiled = store.spoiled
          /\ store'.staging = store.staging /\ store'.answer = store.answer
      BY <2>2 DEF DownloadFields
    <2>4. /\ store.staging = [store.staging EXCEPT ![c] = store.staging[c]]
          /\ store.answer = [store.answer EXCEPT ![c] = store.answer[c]]
      BY <1>0 DEF DownloadTypes
    <2>5. SoundAnswer(store.answer[c]) /\ store.answer[c] \in AnsweredAs /\ store.staging[c] \in StagedAs
      BY <1>0 DEF Verified, DownloadTypes
    <2> QED
      BY <1>1, <2>2, <2>3, <2>4, <2>5, ClientMoves DEF at
  <1>2. CASE CheckCache(c) \/ FindManifest(c)
    <2>1. \E step \in {"find", "stage", "read"} : store' = [store EXCEPT !.at[c] = step]
      BY <1>2 DEF CheckCache, FindManifest, Goes
    <2>2. store.at[c] \in {"idle", "find"}
      BY <1>2 DEF CheckCache, FindManifest, Goes
    <2>3. store.staging[c] = "absent"
      BY <2>2, <1>0 DEF Staged
    <2> QED
      BY <2>1, <2>2, <2>3, <1>1 DEF DownloadSteps, Installing
  <1>3. CASE ReadCached(c)
    <2>1. store.at[c] = "read" /\ store.staging[c] = "absent"
      BY <1>3, <1>0 DEF ReadCached, Staged
    <2>2. CASE store' = [store EXCEPT !.at[c] = "failed"]
      BY <2>1, <2>2, <1>1 DEF DownloadSteps, Installing
    <2>3. ASSUME NEW v \in Versions, store.target[v] # "none",
                 store' = [store EXCEPT !.at[c] = "done", !.answer[c] = ReadAnswer(v)]
          PROVE  SoundDownload(store')
      <3> DEFINE at == [store.at EXCEPT ![c] = "done"]
                 answer == [store.answer EXCEPT ![c] = ReadAnswer(v)]
      <3>1. store' = [store EXCEPT !.at = at, !.answer = answer]
        BY <2>3
      <3> HIDE DEF at, answer
      <3>2. /\ DownloadRecord(store') /\ store'.at = at /\ store'.answer = answer
            /\ \A x \in DownloadFields \ {"at", "answer"} : store'[x] = store[x]
        BY <3>1, <1>0 DEF DownloadRecord, DownloadFields
      <3>3. /\ store'.target = store.target /\ store'.cut = store.cut /\ store'.spoiled = store.spoiled
            /\ store'.staging = store.staging
        BY <3>2 DEF DownloadFields
      <3>4. store.staging = [store.staging EXCEPT ![c] = store.staging[c]]
        BY <1>0 DEF DownloadTypes
      <3>5. /\ SoundAnswer(ReadAnswer(v)) /\ ReadAnswer(v) \in AnsweredAs
            /\ store.staging[c] \in StagedAs
        BY <2>3, <1>0, ReadIsSound DEF DownloadTypes
      <3>6. "done" \in DownloadSteps \ Installing /\ store.at[c] \notin Installing
        BY <2>1 DEF DownloadSteps, Installing
      <3> QED
        BY <2>1, <3>2, <3>3, <3>4, <3>5, <3>6, ClientMoves DEF at, answer
    <2> QED
      BY <1>3, <2>2, <2>3 DEF ReadCached, ReadAnswer
  <1>4. ASSUME NEW step \in {"fetch", "verify", "failed"}, NEW staged \in StagedAs, NEW attempt, NEW master,
               store.at[c] \notin Installing,
               step = "verify" => staged \in Versions, step = "failed" => staged = "absent",
               store' = [store EXCEPT !.at = [store.at EXCEPT ![c] = step],
                                      !.staging = [store.staging EXCEPT ![c] = staged],
                                      !.attempt = attempt, !.master = master]
        PROVE  SoundDownload(store')
    <2> DEFINE at == [store.at EXCEPT ![c] = step]
               staging == [store.staging EXCEPT ![c] = staged]
    <2>1. store' = [store EXCEPT !.at = at, !.staging = staging, !.attempt = attempt, !.master = master]
      BY <1>4
    <2> HIDE DEF at, staging
    <2>2. /\ DownloadRecord(store') /\ store'.at = at /\ store'.staging = staging
          /\ \A x \in DownloadFields \ {"at", "staging", "attempt", "master"} : store'[x] = store[x]
      BY <2>1, <1>0 DEF DownloadRecord, DownloadFields
    <2>3. /\ store'.target = store.target /\ store'.cut = store.cut /\ store'.spoiled = store.spoiled
          /\ store'.answer = store.answer
      BY <2>2 DEF DownloadFields
    <2>4. store.answer = [store.answer EXCEPT ![c] = store.answer[c]]
      BY <1>0 DEF DownloadTypes
    <2>5. SoundAnswer(store.answer[c]) /\ store.answer[c] \in AnsweredAs
      BY <1>0 DEF Verified, DownloadTypes
    <2>6. step \in DownloadSteps \ Installing
      BY DEF DownloadSteps, Installing
    <2> QED
      BY <1>4, <2>2, <2>3, <2>4, <2>5, <2>6, ClientMoves DEF at, staging
  <1>5. CASE Stage(c)
    <2>1. store' = [store EXCEPT !.at = [store.at EXCEPT ![c] = "fetch"],
                                 !.staging = [store.staging EXCEPT ![c] = "empty"],
                                 !.attempt = [store.attempt EXCEPT ![c] = 0],
                                 !.master = [store.master EXCEPT ![c] = FALSE]]
      BY <1>5 DEF Stage
    <2>2. store.at[c] \notin Installing /\ "empty" \in StagedAs
      BY <1>5 DEF Stage, Installing, StagedAs
    <2> QED
      BY <2>1, <2>2, <1>4
  <1>6. CASE FetchSucceeds(c)
    <2>1. PICK v \in Versions : store' = [store EXCEPT !.at[c] = "verify", !.staging[c] = v]
      BY <1>6 DEF FetchSucceeds
    <2> DEFINE at == [store.at EXCEPT ![c] = "verify"]
               staging == [store.staging EXCEPT ![c] = v]
    <2>2. store' = [store EXCEPT !.at = at, !.staging = staging]
      BY <2>1
    <2>3. store' = [store EXCEPT !.at = at, !.staging = staging, !.attempt = store.attempt,
                                 !.master = store.master]
      <3> HIDE DEF at, staging
      <3> QED
        BY <2>2, <1>0 DEF DownloadRecord, DownloadFields
    <2>4. store.at[c] \notin Installing /\ v \in StagedAs
      BY <1>6 DEF FetchSucceeds, Installing, StagedAs
    <2> QED
      BY <2>3, <2>4, <1>4
  <1>7. CASE FetchFails(c)
    <2>1. /\ store.at[c] = "fetch" /\ store.at[c] \notin Installing
          /\ store.staging[c] \in StagedAs /\ "absent" \in StagedAs
      BY <1>7, <1>0 DEF FetchFails, Installing, StagedAs, DownloadTypes
    <2>2. store.at = [store.at EXCEPT ![c] = "fetch"] /\ store.staging = [store.staging EXCEPT ![c] = store.staging[c]]
      BY <2>1, <1>0 DEF DownloadTypes
    <2>3. ASSUME NEW attempt, NEW master, store' = [store EXCEPT !.attempt = attempt, !.master = master]
          PROVE  SoundDownload(store')
      <3>1. store' = [store EXCEPT !.at = store.at, !.staging = store.staging, !.attempt = attempt,
                                   !.master = master]
        BY <2>3, <1>0 DEF DownloadRecord, DownloadFields
      <3> QED
        BY <3>1, <2>1, <2>2, <1>4
    <2>4. CASE store' = [store EXCEPT !.attempt[c] = @ + 1]
      <3>1. store' = [store EXCEPT !.attempt = [store.attempt EXCEPT ![c] = @ + 1]]
        BY <2>4
      <3>2. \A f : store' = [store EXCEPT !.attempt = f] => store' = [store EXCEPT !.attempt = f, !.master = store.master]
        BY <1>0 DEF DownloadRecord, DownloadFields
      <3> QED
        BY <3>1, <3>2, <2>3
    <2>5. CASE store' = [store EXCEPT !.attempt[c] = 0, !.master[c] = TRUE]
      <3>1. store' = [store EXCEPT !.attempt = [store.attempt EXCEPT ![c] = 0],
                                   !.master = [store.master EXCEPT ![c] = TRUE]]
        BY <2>5
      <3> QED
        BY <3>1, <2>3
    <2>6. CASE store' = [store EXCEPT !.at[c] = "failed", !.staging[c] = "absent"]
      <3> DEFINE at == [store.at EXCEPT ![c] = "failed"]
                 staging == [store.staging EXCEPT ![c] = "absent"]
      <3>1. store' = [store EXCEPT !.at = at, !.staging = staging]
        BY <2>6
      <3>2. store' = [store EXCEPT !.at = at, !.staging = staging, !.attempt = store.attempt,
                                   !.master = store.master]
        <4> HIDE DEF at, staging
        <4> QED
          BY <3>1, <1>0 DEF DownloadRecord, DownloadFields
      <3> QED
        BY <3>2, <2>1, <1>4
    <2> QED
      BY <1>7, <2>4, <2>5, <2>6 DEF FetchFails
  <1>8. CASE VerifySkill(c)
    <2>1. /\ store.at[c] = "verify" /\ store.staging[c] \in Versions /\ store.at[c] \notin Installing
          /\ "absent" \in StagedAs
      BY <1>8, <1>0 DEF VerifySkill, Staged, Installing, StagedAs
    <2>2. CASE Accepts(store.staging[c])
      <3>1. store' = [store EXCEPT !.at[c] = "remove"]
        BY <1>8, <2>2 DEF VerifySkill
      <3>2. "remove" \in DownloadSteps \ Installing
        BY DEF DownloadSteps, Installing
      <3> QED
        BY <2>1, <2>2, <3>1, <3>2, <1>1
    <2>3. CASE ~Accepts(store.staging[c])
      <3> DEFINE at == [store.at EXCEPT ![c] = "failed"]
                 staging == [store.staging EXCEPT ![c] = "absent"]
      <3>1. store' = [store EXCEPT !.at = at, !.staging = staging]
        BY <1>8, <2>3 DEF VerifySkill
      <3>2. store' = [store EXCEPT !.at = at, !.staging = staging, !.attempt = store.attempt,
                                   !.master = store.master]
        <4> HIDE DEF at, staging
        <4> QED
          BY <3>1, <1>0 DEF DownloadRecord, DownloadFields
      <3> QED
        BY <3>2, <2>1, <1>4
    <2> QED
      BY <2>2, <2>3
  <1>9. CASE AskAgain(c)
    <2> DEFINE at == [store.at EXCEPT ![c] = "idle"]
               answer == [store.answer EXCEPT ![c] = None]
    <2>1. store' = [store EXCEPT !.at = at, !.answer = answer] /\ store.at[c] \in {"done", "failed"}
      BY <1>9 DEF AskAgain
    <2>2. /\ store.staging[c] = "absent" /\ store.staging[c] \in StagedAs
          /\ None \in AnsweredAs /\ SoundAnswer(None)
      BY <2>1, <1>0 DEF Staged, StagedAs, AnsweredAs, SoundAnswer
    <2> HIDE DEF at, answer
    <2>3. /\ DownloadRecord(store') /\ store'.at = at /\ store'.answer = answer
          /\ \A x \in DownloadFields \ {"at", "answer"} : store'[x] = store[x]
      BY <2>1, <1>0 DEF DownloadRecord, DownloadFields
    <2>4. /\ store'.target = store.target /\ store'.cut = store.cut /\ store'.spoiled = store.spoiled
          /\ store'.staging = store.staging
      BY <2>3 DEF DownloadFields
    <2>5. store.staging = [store.staging EXCEPT ![c] = store.staging[c]]
      BY <1>0 DEF DownloadTypes
    <2>6. "idle" \in DownloadSteps \ Installing /\ store.at[c] \notin Installing
      BY <2>1 DEF DownloadSteps, Installing
    <2> QED
      BY <2>2, <2>3, <2>4, <2>5, <2>6, ClientMoves DEF at, answer
  <1> QED
    BY <1>2, <1>3, <1>5, <1>6, <1>7, <1>8, <1>9

\* What the target of a download can be (rm, rename, cp).
LEMMA Targets ==
  /\ Gone \in [Versions -> {"none", "part", "all"}]
  /\ \A v \in Versions : /\ Whole(v) \in [Versions -> {"none", "part", "all"}]
                         /\ Partial(v) \in [Versions -> {"none", "part", "all"}]
                         /\ [Partial(v) EXCEPT ![v] = "all"] = Whole(v)
  /\ \A v \in Refused \cup {NoManifest} : Gone[v] = "none"
  /\ \A v \in Versions : Accepts(v) => \A w \in Refused \cup {NoManifest} : Whole(v)[w] = "none"
  BY StoreAssumption DEF Gone, Whole, Partial, Accepts

\* An install begins by removing what is cached (stageAndVerifySkill).
LEMMA RemovalKeeps ==
    ASSUME SoundDownload(store), NEW c \in Clients, RemoveTarget(c)
    PROVE  SoundDownload(store')
  <1>0. DownloadRecord(store) /\ DownloadTypes(store) /\ Staged(store) /\ Verified(store)
    BY DEF SoundDownload
  <1> DEFINE at == [store.at EXCEPT ![c] = "rename"]
             cut == [d \in Clients |-> store.at[d] = "copied"]
             spoiled == \E d \in Clients \ {c} : store.at[d] \in Installing
  <1>1. /\ store' = [DropTarget(store) EXCEPT !.at[c] = "rename", !.spoiled = spoiled]
        /\ store.at[c] = "remove"
    BY DEF RemoveTarget
  <1>2. DropTarget(store) = [store EXCEPT !.target = Gone, !.cut = cut]
    BY DEF DropTarget
  <1>3. DownloadRecord(DropTarget(store)) /\ DropTarget(store).at = store.at
    <2> HIDE DEF cut
    <2> QED
      BY <1>0, <1>2 DEF DownloadRecord, DownloadFields
  <1>4. store' = [DropTarget(store) EXCEPT !.at = at, !.spoiled = spoiled]
    BY <1>1, <1>3
  <1>5. /\ at \in [Clients -> DownloadSteps] /\ at[c] = "rename"
        /\ \A d \in Clients \ {c} : at[d] = store.at[d]
        /\ cut \in [Clients -> BOOLEAN] /\ spoiled \in BOOLEAN
    BY <1>0 DEF DownloadTypes, DownloadSteps
  <1>6. ~spoiled => \A d \in Clients \ {c} : store.at[d] \notin Installing
    OBVIOUS
  <1> HIDE DEF at, cut, spoiled
  <1>7. store' = [store EXCEPT !.target = Gone, !.cut = cut, !.at = at, !.spoiled = spoiled]
    BY <1>0, <1>2, <1>3, <1>4 DEF DownloadRecord, DownloadFields
  <1>8. /\ DownloadRecord(store') /\ store'.target = Gone /\ store'.cut = cut /\ store'.at = at
        /\ store'.spoiled = spoiled
        /\ store'.staging = store.staging /\ store'.answer = store.answer
    BY <1>0, <1>7 DEF DownloadRecord, DownloadFields
  <1>9. DownloadTypes(store') /\ Verified(store')
    BY <1>0, <1>5, <1>8, Targets DEF DownloadTypes, Verified
  <1>10. Staged(store')
    BY <1>0, <1>1, <1>5, <1>8 DEF Staged, Installing
  <1>11. Installed(store')
    BY <1>5, <1>6, <1>8 DEF Installed, Installing
  <1> QED
    BY <1>8, <1>9, <1>10, <1>11 DEF SoundDownload

\* The rename of the staged directory, or the copy that is begun for it
\* (stageAndVerifySkill).
LEMMA RenameKeeps ==
    ASSUME SoundDownload(store), NEW c \in Clients, RenameStaging(c)
    PROVE  SoundDownload(store')
  <1>0. DownloadRecord(store) /\ DownloadTypes(store) /\ Staged(store) /\ Verified(store) /\ Installed(store)
    BY DEF SoundDownload
  <1>1. store.at[c] = "rename" /\ store.staging[c] \in Versions /\ Accepts(store.staging[c])
    BY <1>0 DEF RenameStaging, Staged, Installing
  <1>2. CASE \E faults : store' = [store EXCEPT !.at[c] = "copy", !.faults = faults]
    <2> DEFINE at == [store.at EXCEPT ![c] = "copy"]
    <2>1. PICK faults : store' = [store EXCEPT !.at = at, !.faults = faults]
      BY <1>2
    <2>2. /\ at \in [Clients -> DownloadSteps] /\ at[c] = "copy"
          /\ \A d \in Clients \ {c} : at[d] = store.at[d]
      BY <1>0 DEF DownloadTypes, DownloadSteps
    <2> HIDE DEF at
    <2>3. /\ DownloadRecord(store') /\ store'.at = at /\ store'.target = store.target
          /\ store'.cut = store.cut /\ store'.spoiled = store.spoiled
          /\ store'.staging = store.staging /\ store'.answer = store.answer
      BY <1>0, <2>1 DEF DownloadRecord, DownloadFields
    <2>4. DownloadTypes(store') /\ Verified(store')
      BY <1>0, <2>2, <2>3 DEF DownloadTypes, Verified
    <2>5. Staged(store')
      BY <1>0, <1>1, <2>2, <2>3 DEF Staged, Installing
    <2>6. Installed(store')
      BY <1>0, <1>1, <2>2, <2>3 DEF Installed, Installing
    <2> QED
      BY <2>3, <2>4, <2>5, <2>6 DEF SoundDownload
  <1>3. CASE store' = [store EXCEPT !.at[c] = "done", !.target = Whole(store.staging[c]),
                         !.staging[c] = "absent",
                         !.answer[c] = Told(store.staging[c], Whole(store.staging[c]), FALSE)]
    <2> DEFINE at == [store.at EXCEPT ![c] = "done"]
               told == Told(store.staging[c], Whole(store.staging[c]), FALSE)
               answer == [store.answer EXCEPT ![c] = told]
               staging == [store.staging EXCEPT ![c] = "absent"]
               whole == Whole(store.staging[c])
    <2>1. store' = [store EXCEPT !.at = at, !.target = whole, !.answer = answer, !.staging = staging]
      BY <1>3
    <2>2. /\ at \in [Clients -> DownloadSteps] /\ at[c] = "done"
          /\ \A d \in Clients \ {c} : at[d] = store.at[d]
      BY <1>0 DEF DownloadTypes, DownloadSteps
    <2>0. told \in AnsweredAs /\ SoundAnswer(told)
      BY <1>1 DEF Told, AnsweredAs, SoundAnswer
    <2>3. /\ answer \in [Clients -> AnsweredAs] /\ answer[c] = told
          /\ \A d \in Clients \ {c} : answer[d] = store.answer[d]
      <3> HIDE DEF told
      <3> QED
        BY <1>0, <2>0 DEF DownloadTypes
    <2>4. /\ staging \in [Clients -> StagedAs] /\ staging[c] = "absent"
          /\ \A d \in Clients \ {c} : staging[d] = store.staging[d]
      BY <1>0 DEF DownloadTypes, StagedAs
    <2>5. /\ whole \in [Versions -> {"none", "part", "all"}]
          /\ \A w \in Refused \cup {NoManifest} : whole[w] = "none"
          /\ \E v \in Versions : whole = Whole(v)
      BY <1>1, Targets
    <2> HIDE DEF at, answer, staging, whole, told
    <2>6. /\ DownloadRecord(store') /\ store'.at = at /\ store'.target = whole
          /\ store'.staging = staging /\ store'.answer = answer
          /\ store'.cut = store.cut /\ store'.spoiled = store.spoiled
      BY <1>0, <2>1 DEF DownloadRecord, DownloadFields
    <2>7. DownloadTypes(store')
      BY <1>0, <2>2, <2>3, <2>4, <2>5, <2>6 DEF DownloadTypes
    <2>8. Verified(store')
      BY <1>0, <2>0, <2>3, <2>5, <2>6 DEF Verified
    <2>9. Staged(store')
      BY <1>0, <2>2, <2>4, <2>6 DEF Staged, Installing
    <2>10. Installed(store')
      <3>1. ~store.spoiled => \A d \in Clients : at[d] \notin Installing
        BY <1>0, <1>1, <2>2 DEF Installed, Installing
      <3> QED
        BY <3>1, <2>5, <2>6 DEF Installed, Installing
    <2> QED
      BY <2>6, <2>7, <2>8, <2>9, <2>10 DEF SoundDownload
  <1>4. CASE store' = [store EXCEPT !.at[c] = "copy"]
    <2>1. store' = [store EXCEPT !.at[c] = "copy", !.faults = store.faults]
      <3> DEFINE at == [store.at EXCEPT ![c] = "copy"]
      <3>1. store' = [store EXCEPT !.at = at]
        BY <1>4
      <3>2. store' = [store EXCEPT !.at = at, !.faults = store.faults]
        <4> HIDE DEF at
        <4> QED
          BY <3>1, <1>0 DEF DownloadRecord, DownloadFields
      <3> QED
        BY <3>2
    <2> QED
      BY <2>1, <1>2
  <1> QED
    BY <1>2, <1>3, <1>4 DEF RenameStaging

\* A copy begins into an empty directory unless installs overlap.
LEMMA CopyBeginKeeps ==
    ASSUME SoundDownload(store), NEW c \in Clients, CopyBegins(c)
    PROVE  SoundDownload(store')
  <1>0. DownloadRecord(store) /\ DownloadTypes(store) /\ Staged(store) /\ Verified(store) /\ Installed(store)
    BY DEF SoundDownload
  <1> DEFINE at == [store.at EXCEPT ![c] = "copied"]
             cut == [store.cut EXCEPT ![c] = FALSE]
             target == [v \in Versions |-> IF v = store.staging[c] \/ store.target[v] # "none"
                                             THEN "part" ELSE "none"]
             spoiled == store.spoiled \/ \E d \in Clients \ {c} : store.at[d] \in Installing
  <1>1. store.at[c] = "copy" /\ store.staging[c] \in Versions /\ Accepts(store.staging[c])
    BY <1>0 DEF CopyBegins, Staged, Installing
  <1>2. store' = [store EXCEPT !.at = at, !.cut = cut, !.target = target, !.spoiled = spoiled]
    BY DEF CopyBegins
  <1>3. /\ at \in [Clients -> DownloadSteps] /\ at[c] = "copied"
        /\ \A d \in Clients \ {c} : at[d] = store.at[d]
        /\ cut \in [Clients -> BOOLEAN] /\ cut[c] = FALSE /\ spoiled \in BOOLEAN
    BY <1>0 DEF DownloadTypes, DownloadSteps
  <1>4. /\ target \in [Versions -> {"none", "part", "all"}]
        /\ \A v \in Refused \cup {NoManifest} : target[v] = "none"
    BY <1>0, <1>1, StoreAssumption DEF Verified, Accepts, DownloadTypes
  <1>5. ~spoiled => target = Partial(store.staging[c])
    BY <1>0, <1>1 DEF Installed, Gone, Partial
  <1>6. ~spoiled => ~store.spoiled /\ \A d \in Clients \ {c} : store.at[d] \notin Installing
    BY <1>0 DEF DownloadTypes
  <1> HIDE DEF at, cut, target, spoiled
  <1>7. /\ DownloadRecord(store') /\ store'.at = at /\ store'.target = target /\ store'.cut = cut
        /\ store'.spoiled = spoiled
        /\ store'.staging = store.staging /\ store'.answer = store.answer
    BY <1>0, <1>2 DEF DownloadRecord, DownloadFields
  <1>8. DownloadTypes(store') /\ Verified(store')
    BY <1>0, <1>3, <1>4, <1>7 DEF DownloadTypes, Verified
  <1>9. Staged(store')
    BY <1>0, <1>1, <1>3, <1>7 DEF Staged, Installing
  <1>10. Installed(store')
    BY <1>3, <1>5, <1>6, <1>7 DEF Installed, Installing
  <1> QED
    BY <1>7, <1>8, <1>9, <1>10 DEF SoundDownload

\* A copy ends, whole or not, and what was to be installed is answered.
LEMMA AnsweredKeeps ==
    ASSUME SoundDownload(store), NEW c \in Clients, store.at[c] \in {"copy", "copied"},
           NEW target \in [Versions -> {"none", "part", "all"}],
           \A w \in Refused \cup {NoManifest} : target[w] = "none",
           NEW failed \in BOOLEAN,
           ~(store.spoiled \/ store.cut[c] \/ failed) => target = Whole(store.staging[c]),
           ~(store.spoiled \/ failed) => target = Gone \/ \E w \in Versions : target = Whole(w),
           Answered(c, target, failed)
    PROVE  SoundDownload(store')
  <1>0. DownloadRecord(store) /\ DownloadTypes(store) /\ Staged(store) /\ Verified(store) /\ Installed(store)
    BY DEF SoundDownload
  <1> DEFINE v == store.staging[c]
             cause == store.spoiled \/ store.cut[c] \/ failed
             told == Told(v, target, cause)
             at == [store.at EXCEPT ![c] = "done"]
             answer == [store.answer EXCEPT ![c] = told]
             staging == [store.staging EXCEPT ![c] = "absent"]
             spoiled == store.spoiled \/ failed
             faults == IF failed THEN store.faults + 1 ELSE store.faults
  <1>1. v \in Versions /\ Accepts(v)
    BY <1>0 DEF Staged, Installing
  <1>2. store' = [store EXCEPT !.at = at, !.staging = staging, !.target = target, !.answer = answer,
                               !.spoiled = spoiled, !.faults = faults]
    BY DEF Answered
  <1>3. /\ at \in [Clients -> DownloadSteps] /\ at[c] = "done"
        /\ \A d \in Clients \ {c} : at[d] = store.at[d]
    BY <1>0 DEF DownloadTypes, DownloadSteps
  <1>4. spoiled \in BOOLEAN /\ cause \in BOOLEAN /\ (~cause => target = Whole(v))
    BY <1>0 DEF DownloadTypes
  <1>5. told \in AnsweredAs /\ SoundAnswer(told)
    <2> HIDE DEF v, cause
    <2> QED
      BY <1>1, <1>4 DEF Told, AnsweredAs, SoundAnswer
  <1>6. /\ answer \in [Clients -> AnsweredAs] /\ answer[c] = told
        /\ \A d \in Clients \ {c} : answer[d] = store.answer[d]
    <2> HIDE DEF told
    <2> QED
      BY <1>0, <1>5 DEF DownloadTypes
  <1>7. /\ staging \in [Clients -> StagedAs] /\ staging[c] = "absent"
        /\ \A d \in Clients \ {c} : staging[d] = store.staging[d]
    BY <1>0 DEF DownloadTypes, StagedAs
  <1>8. ~spoiled => ~store.spoiled /\ (target = Gone \/ \E w \in Versions : target = Whole(w))
    BY <1>0 DEF DownloadTypes
  <1> HIDE DEF v, cause, told, at, answer, staging, spoiled, faults
  <1>9. /\ DownloadRecord(store') /\ store'.at = at /\ store'.target = target
        /\ store'.staging = staging /\ store'.answer = answer
        /\ store'.cut = store.cut /\ store'.spoiled = spoiled
    BY <1>0, <1>2 DEF DownloadRecord, DownloadFields
  <1>10. DownloadTypes(store')
    BY <1>0, <1>3, <1>4, <1>6, <1>7, <1>9 DEF DownloadTypes
  <1>11. Verified(store')
    BY <1>0, <1>5, <1>6, <1>9 DEF Verified
  <1>12. Staged(store')
    BY <1>0, <1>3, <1>7, <1>9 DEF Staged, Installing
  <1>13. Installed(store')
    <2>1. ~store.spoiled => \A d \in Clients : at[d] \notin Installing
      BY <1>0, <1>3 DEF Installed, Installing
    <2> QED
      BY <2>1, <1>8, <1>9 DEF Installed, Installing
  <1> QED
    BY <1>9, <1>10, <1>11, <1>12, <1>13 DEF SoundDownload

\* A copy that ends, one that stops half way, and one that never begins.
LEMMA CopyEndKeeps ==
    ASSUME SoundDownload(store), NEW c \in Clients, CopyEnds(c) \/ CopyNeverBegins(c)
    PROVE  SoundDownload(store')
  <1>0. DownloadRecord(store) /\ DownloadTypes(store) /\ Staged(store) /\ Verified(store) /\ Installed(store)
    BY DEF SoundDownload
  <1>1. /\ store.target \in [Versions -> {"none", "part", "all"}]
        /\ \A w \in Refused \cup {NoManifest} : store.target[w] = "none"
    BY <1>0 DEF DownloadTypes, Verified
  <1>2. CASE store.at[c] \in {"copy", "copied"} /\ Answered(c, store.target, TRUE)
    BY <1>1, <1>2, AnsweredKeeps
  <1> DEFINE v == store.staging[c]
             target == [store.target EXCEPT ![v] = IF store.cut[c] THEN @ ELSE "all"]
  <1>3. CASE store.at[c] = "copied" /\ Answered(c, target, FALSE)
    <2>1. v \in Versions /\ Accepts(v)
      BY <1>0, <1>3 DEF Staged, Installing
    <2>2. /\ target \in [Versions -> {"none", "part", "all"}]
          /\ \A w \in Refused \cup {NoManifest} : target[w] = "none"
      BY <1>1, <2>1, StoreAssumption DEF Accepts
    <2>3. ~(store.spoiled \/ store.cut[c]) => target = Whole(v)
      <3> SUFFICES ASSUME ~store.spoiled, ~store.cut[c] PROVE target = Whole(v)
        OBVIOUS
      <3>1. store.target = Partial(v)
        BY <1>0, <1>3 DEF Installed
      <3> QED
        BY <3>1, <2>1, Targets
    <2>4. ~store.spoiled => target = Gone \/ \E w \in Versions : target = Whole(w)
      <3>1. CASE ~store.spoiled /\ store.cut[c]
        <4>1. store.target = Gone
          BY <3>1, <1>0, <1>3 DEF Installed
        <4> QED
          BY <3>1, <4>1, <2>1 DEF Gone
      <3> QED
        BY <3>1, <2>1, <2>3
    <2> HIDE DEF target
    <2> QED
      BY <1>3, <2>2, <2>3, <2>4, AnsweredKeeps DEF v
  <1> QED
    BY <1>2, <1>3 DEF CopyEnds, CopyNeverBegins

\* The cache is cleared, or the process dies and the next one finds what is cached.
LEMMA ClearingKeeps ==
    ASSUME SoundDownload(store), ClearCache \/ Dies
    PROVE  SoundDownload(store')
  <1>0. DownloadRecord(store) /\ DownloadTypes(store) /\ Staged(store) /\ Verified(store) /\ Installed(store)
    BY DEF SoundDownload
  <1>1. CASE ClearCache
    <2> DEFINE cut == [d \in Clients |-> store.at[d] = "copied"]
    <2>1. store' = [store EXCEPT !.target = Gone, !.cut = cut]
      BY <1>1 DEF ClearCache, DropTarget
    <2>2. cut \in [Clients -> BOOLEAN] /\ \A d \in Clients : store.at[d] = "copied" => cut[d]
      OBVIOUS
    <2> HIDE DEF cut
    <2>3. /\ DownloadRecord(store') /\ store'.target = Gone /\ store'.cut = cut /\ store'.at = store.at
          /\ store'.spoiled = store.spoiled
          /\ store'.staging = store.staging /\ store'.answer = store.answer
      BY <1>0, <2>1 DEF DownloadRecord, DownloadFields
    <2>4. DownloadTypes(store') /\ Verified(store') /\ Staged(store')
      BY <1>0, <2>2, <2>3, Targets DEF DownloadTypes, Verified, Staged
    <2>5. Installed(store')
      BY <1>0, <2>2, <2>3 DEF Installed
    <2> QED
      BY <2>3, <2>4, <2>5 DEF SoundDownload
  <1>2. CASE Dies
    <2> DEFINE spoiled == store.spoiled \/ \E c \in Clients : store.at[c] = "copied"
               at == [c \in Clients |-> "idle"]
               answer == [c \in Clients |-> None]
               staging == [c \in Clients |-> "absent"]
               attempt == [c \in Clients |-> 0]
    <2>1. store' = [store EXCEPT !.at = at, !.answer = answer, !.staging = staging, !.attempt = attempt,
                                 !.spoiled = spoiled]
      BY <1>2 DEF Dies
    <2>2. /\ at \in [Clients -> DownloadSteps] /\ \A c \in Clients : at[c] = "idle"
      BY DEF DownloadSteps
    <2>3. /\ answer \in [Clients -> AnsweredAs] /\ \A c \in Clients : answer[c] = None
          /\ staging \in [Clients -> StagedAs] /\ \A c \in Clients : staging[c] = "absent"
      BY DEF AnsweredAs, StagedAs
    <2>4. spoiled \in BOOLEAN
      BY <1>0 DEF DownloadTypes
    <2>5. ~spoiled => ~store.spoiled /\ \A c \in Clients : store.at[c] # "copied"
      BY <1>0 DEF DownloadTypes
    <2> HIDE DEF spoiled, at, answer, staging, attempt
    <2>6. /\ DownloadRecord(store') /\ store'.target = store.target /\ store'.cut = store.cut
          /\ store'.at = at /\ store'.spoiled = spoiled
          /\ store'.staging = staging /\ store'.answer = answer
      BY <1>0, <2>1 DEF DownloadRecord, DownloadFields
    <2>7. DownloadTypes(store') /\ Verified(store') /\ Staged(store')
      BY <1>0, <2>2, <2>3, <2>4, <2>6 DEF DownloadTypes, Verified, SoundAnswer, Staged, Installing
    <2>8. Installed(store')
      BY <1>0, <2>2, <2>5, <2>6 DEF Installed, Installing
    <2> QED
      BY <2>6, <2>7, <2>8 DEF SoundDownload
  <1> QED
    BY <1>1, <1>2
-----------------------------------------------------------------------------
\* A skill or an entry is registered under its id: the skill, or the one before
\* if there is no new one, has this entry, which is found under its category.
LEMMA EntryKeeps ==
    ASSUME SoundRegistry(store), NEW id \in Ids, NEW skill, NEW entry \in CatalogEntry,
           SoundEntry(entry, id),
           \/ /\ skill = store.skills[id] /\ entry.manifest = None
           \/ /\ skill \in Manifest /\ entry.manifest = skill /\ skill # None,
           NEW skills, skills = [store.skills EXCEPT ![id] = skill],
           NEW catalog, catalog = [store.catalog EXCEPT ![id] = entry],
           NEW index, index = [store.index EXCEPT ![entry.category] = @ \cup {id}],
           store' = [store EXCEPT !.skills = skills, !.catalog = catalog, !.index = index]
    PROVE  SoundRegistry(store')
  <1>1. /\ RegistryRecord(store) /\ DOMAIN store.skills = Ids /\ SoundCatalog(store.catalog)
        /\ store.index \in [Categories -> SUBSET Ids] /\ entry.category \in Categories
        /\ entry # None
    BY StoreAssumption DEF SoundRegistry, CatalogEntry
  <1>2. /\ RegistryRecord(store') /\ store'.skills = skills /\ store'.catalog = catalog
        /\ store'.index = index /\ store'.saved = store.saved
    BY <1>1 DEF RegistryRecord, RegistryFields
  <1>3. /\ DOMAIN skills = Ids /\ skills[id] = skill /\ \A i \in Ids \ {id} : skills[i] = store.skills[i]
    BY <1>1
  <1>4. /\ DOMAIN catalog = Ids /\ catalog[id] = entry
        /\ \A i \in Ids \ {id} : catalog[i] = store.catalog[i]
    BY <1>1 DEF SoundCatalog
  <1>5. /\ index \in [Categories -> SUBSET Ids] /\ id \in index[entry.category]
        /\ \A k \in Categories : store.index[k] \subseteq index[k] /\ index[k] \subseteq store.index[k] \cup {id}
    BY <1>1
  <1>6. SoundCatalog(catalog)
    BY <1>1, <1>4 DEF SoundCatalog
  <1>7. \A i \in Ids : skills[i] # None => skills[i] \in Manifest
    BY <1>3 DEF SoundRegistry
  <1>8. ASSUME NEW i \in Ids
        PROVE  /\ skills[i] # None => /\ catalog[i] # None /\ i \in index[skills[i].category]
                                      /\ NormalizeSkillId(skills[i].name) = i
               /\ catalog[i] # None => /\ catalog[i].manifest \in {None, skills[i]}
                                       /\ i \in index[catalog[i].category]
    <2>1. /\ store.skills[i] # None => store.skills[i].category \in Categories
          /\ store.catalog[i] # None => store.catalog[i].category \in Categories
      BY <1>1 DEF SoundRegistry, SoundCatalog, SoundEntry, CatalogEntry, Manifest
    <2>2. CASE i # id
      <3>1. skills[i] = store.skills[i] /\ catalog[i] = store.catalog[i]
        BY <1>3, <1>4, <2>2
      <3> QED
        BY <3>1, <2>1, <1>5 DEF SoundRegistry
    <2>3. CASE i = id /\ skill = store.skills[id] /\ entry.manifest = None
      BY <2>1, <2>3, <1>1, <1>3, <1>4, <1>5 DEF SoundRegistry
    <2>4. CASE i = id /\ skill \in Manifest /\ entry.manifest = skill /\ skill # None
      BY <2>4, <1>1, <1>3, <1>4, <1>5 DEF SoundEntry
    <2> QED
      BY <2>2, <2>3, <2>4
  <1>9. \A k \in Categories : \A i \in index[k] : catalog[i] # None
    BY <1>1, <1>4, <1>5 DEF SoundRegistry
  <1>10. store'.saved # None => SoundCatalog(store'.saved)
    BY <1>2 DEF SoundRegistry
  <1> QED
    BY <1>2, <1>3, <1>5, <1>6, <1>7, <1>8, <1>9, <1>10 DEF SoundRegistry

\* registerSkill
LEMMA RegisterKeeps ==
    ASSUME SoundRegistry(store), NEW m \in Manifest, RegisterSkill(m)
    PROVE  SoundRegistry(store')
  <1> DEFINE id == NormalizeSkillId(m.name)
             before == store.catalog[id]
             installs == IF before = None THEN 0 ELSE before.installs
             entry == [name |-> m.name, category |-> m.category, manifest |-> m, installs |-> installs]
             skills == [store.skills EXCEPT ![id] = m]
             catalog == [store.catalog EXCEPT ![id] = entry]
             index == [store.index EXCEPT ![m.category] = @ \cup {id}]
  <1>1. id \in Ids /\ m.name \in Names /\ m.category \in Categories
    BY DEF Ids, Manifest
  <1>2. installs \in Nat
    BY <1>1 DEF SoundRegistry, SoundCatalog, SoundEntry, CatalogEntry
  <1>3. m # None \/ None \in Manifest
    OBVIOUS
  <1>4. store' = Indexed([store EXCEPT !.skills[id] = m, !.catalog[id] = entry], m.category, id)
    BY DEF RegisterSkill
  <1>5. RegistryRecord(store)
    BY DEF SoundRegistry
  <1> HIDE DEF id, installs
  <1>6. entry \in CatalogEntry /\ entry.category = m.category /\ entry.manifest = m
    BY <1>1, <1>2 DEF CatalogEntry
  <1>7. SoundEntry(entry, id)
    BY <1>6 DEF SoundEntry, id
  <1>8. Indexed([store EXCEPT !.skills[id] = m, !.catalog[id] = entry], m.category, id)
          = [store EXCEPT !.skills = skills, !.catalog = catalog, !.index = index]
    <2> DEFINE s == [store EXCEPT !.skills[id] = m, !.catalog[id] = entry]
    <2>1. s = [store EXCEPT !.skills = skills, !.catalog = catalog]
      OBVIOUS
    <2> HIDE DEF skills, catalog, s
    <2>2. s.index = store.index /\ RegistryRecord(s)
      BY <2>1, <1>5 DEF RegistryRecord, RegistryFields
    <2>3. Indexed(s, m.category, id) = [s EXCEPT !.index = index]
      BY <2>2 DEF Indexed
    <2> HIDE DEF index
    <2>4. [s EXCEPT !.index = index] = [store EXCEPT !.skills = skills, !.catalog = catalog, !.index = index]
      BY <2>1, <2>2, <1>5 DEF RegistryRecord, RegistryFields
    <2> QED
      BY <2>3, <2>4 DEF s
  <1>9. m # None
    BY StoreAssumption
  <1> HIDE DEF entry
  <1>10. /\ skills = [store.skills EXCEPT ![id] = m] /\ catalog = [store.catalog EXCEPT ![id] = entry]
         /\ index = [store.index EXCEPT ![entry.category] = @ \cup {id}]
    BY <1>6
  <1>11. store' = [store EXCEPT !.skills = skills, !.catalog = catalog, !.index = index]
    BY <1>4, <1>8
  <1> HIDE DEF skills, catalog, index
  <1> QED
    BY <1>1, <1>6, <1>7, <1>9, <1>10, <1>11, EntryKeeps

\* registerCatalogEntry
LEMMA RegisterEntryKeeps == SoundRegistry(store) /\ RegisterCatalogEntry => SoundRegistry(store')
  <1> SUFFICES ASSUME SoundRegistry(store), RegisterCatalogEntry PROVE SoundRegistry(store')
    OBVIOUS
  <1>1. PICK name \in Names, category \in Categories :
          store' = WithEntry(store, [name |-> name, category |-> category, manifest |-> None,
                                     installs |-> 1])
    BY DEF RegisterCatalogEntry
  <1> DEFINE entry == [name |-> name, category |-> category, manifest |-> None, installs |-> 1]
             id == NormalizeSkillId(name)
             skills == [store.skills EXCEPT ![id] = store.skills[id]]
             catalog == [store.catalog EXCEPT ![id] = entry]
             index == [store.index EXCEPT ![category] = @ \cup {id}]
             s == [store EXCEPT !.catalog[id] = entry, !.skills[id] = store.skills[id]]
  <1>2. id \in Ids /\ RegistryRecord(store)
    BY DEF Ids, SoundRegistry
  <1>3. entry \in CatalogEntry /\ entry.category = category /\ entry.manifest = None /\ entry.name = name
    BY DEF CatalogEntry
  <1>4. SoundEntry(entry, id)
    BY <1>3 DEF SoundEntry
  <1>5. store' = Indexed(s, category, id)
    BY <1>1 DEF WithEntry
  <1> HIDE DEF id, entry
  <1>6. s = [store EXCEPT !.catalog = catalog, !.skills = skills]
    OBVIOUS
  <1> HIDE DEF skills, catalog, s
  <1>7. s.index = store.index /\ RegistryRecord(s)
    BY <1>2, <1>6 DEF RegistryRecord, RegistryFields
  <1>8. store' = [s EXCEPT !.index = index]
    BY <1>5, <1>7 DEF Indexed
  <1> HIDE DEF index
  <1>9. store' = [store EXCEPT !.skills = skills, !.catalog = catalog, !.index = index]
    BY <1>2, <1>6, <1>7, <1>8 DEF RegistryRecord, RegistryFields
  <1> QED
    BY <1>2, <1>3, <1>4, <1>9, EntryKeeps DEF skills, catalog, index

\* A catalog is saved, or the registry emptied (clear).
LEMMA SaveAndClearKeep == SoundRegistry(store) /\ (SaveCatalog \/ ClearRegistry) => SoundRegistry(store')
  <1> SUFFICES ASSUME SoundRegistry(store), SaveCatalog \/ ClearRegistry PROVE SoundRegistry(store')
    OBVIOUS
  <1>0. RegistryRecord(store)
    BY DEF SoundRegistry
  <1>1. CASE SaveCatalog
    <2>1. /\ RegistryRecord(store') /\ store'.skills = store.skills /\ store'.catalog = store.catalog
          /\ store'.index = store.index /\ store'.saved = store.catalog
      BY <1>0, <1>1 DEF SaveCatalog, RegistryRecord, RegistryFields
    <2> QED
      BY <2>1 DEF SoundRegistry
  <1>2. CASE ClearRegistry
    <2> DEFINE none == [i \in Ids |-> None]
               index == [k \in Categories |-> {}]
    <2>1. store' = [store EXCEPT !.skills = none, !.catalog = none, !.index = index]
      BY <1>2 DEF ClearRegistry
    <2>2. /\ DOMAIN none = Ids /\ \A i \in Ids : none[i] = None
          /\ index \in [Categories -> SUBSET Ids] /\ \A k \in Categories : index[k] = {}
      OBVIOUS
    <2> HIDE DEF none, index
    <2>3. /\ RegistryRecord(store') /\ store'.skills = none /\ store'.catalog = none
          /\ store'.index = index /\ store'.saved = store.saved
      BY <1>0, <2>1 DEF RegistryRecord, RegistryFields
    <2> QED
      BY <2>2, <2>3 DEF SoundRegistry, SoundCatalog, SoundEntry
  <1> QED
    BY <1>1, <1>2

\* A new process registers the saved entries over its own (loadCatalog).
LEMMA LoadKeeps == SoundRegistry(store) /\ LoadSkillCatalog => SoundRegistry(store')
  <1> SUFFICES ASSUME SoundRegistry(store), LoadSkillCatalog PROVE SoundRegistry(store')
    OBVIOUS
  <1> DEFINE Manifested(i) == store.saved[i] # None /\ store.saved[i].manifest # None
  <1>1. PICK c \in Categories :
          store' = [Preloaded(c) EXCEPT
            !.skills = [i \in Ids |-> IF store.saved[i] = None \/ store.saved[i].manifest = None
                                        THEN Preloaded(c).skills[i] ELSE store.saved[i].manifest],
            !.catalog = [i \in Ids |-> IF store.saved[i] = None THEN @[i] ELSE store.saved[i]],
            !.index = [k \in Categories |->
                        @[k] \cup {i \in Ids : store.saved[i] # None /\ store.saved[i].category = k}],
            !.saved = store.saved]
    BY DEF LoadSkillCatalog
  <1> DEFINE fresh == Preloaded(c)
             skills == [i \in Ids |-> IF Manifested(i) THEN store.saved[i].manifest ELSE fresh.skills[i]]
             catalog == [i \in Ids |-> IF store.saved[i] = None THEN fresh.catalog[i] ELSE store.saved[i]]
             index == [k \in Categories |->
                        fresh.index[k] \cup {i \in Ids : store.saved[i] # None /\ store.saved[i].category = k}]
  <1>2. SoundRegistry(fresh)
    BY PreloadedIsSound
  <1>3. store' = [fresh EXCEPT !.skills = skills, !.catalog = catalog, !.index = index, !.saved = store.saved]
    <2> HIDE DEF fresh
    <2>1. [i \in Ids |-> IF store.saved[i] = None \/ store.saved[i].manifest = None
                           THEN fresh.skills[i] ELSE store.saved[i].manifest] = skills
      OBVIOUS
    <2> HIDE DEF skills
    <2> QED
      BY <1>1, <2>1 DEF fresh
  <1>4. SoundCatalog(store.saved)
    BY DEF SoundRegistry, LoadSkillCatalog
  <1> HIDE DEF fresh
  <1>5. /\ DOMAIN skills = Ids /\ DOMAIN catalog = Ids /\ index \in [Categories -> SUBSET Ids]
        /\ \A i \in Ids : Manifested(i) => skills[i] = store.saved[i].manifest
        /\ \A i \in Ids : ~Manifested(i) => skills[i] = fresh.skills[i]
        /\ \A i \in Ids : store.saved[i] = None => catalog[i] = fresh.catalog[i]
        /\ \A i \in Ids : store.saved[i] # None => catalog[i] = store.saved[i]
    BY <1>2 DEF SoundRegistry
  <1>6. \A k \in Categories : \A i \in Ids :
          i \in index[k] <=> i \in fresh.index[k] \/ (store.saved[i] # None /\ store.saved[i].category = k)
    OBVIOUS
  <1> HIDE DEF skills, catalog, index
  <1>7. /\ RegistryRecord(store') /\ store'.skills = skills /\ store'.catalog = catalog
        /\ store'.index = index /\ store'.saved = store.saved
    BY <1>2, <1>3 DEF SoundRegistry, RegistryRecord, RegistryFields
  <1>8. SoundCatalog(catalog)
    BY <1>2, <1>4, <1>5 DEF SoundCatalog, SoundRegistry
  <1>9. \A i \in Ids : store.saved[i] # None =>
          /\ store.saved[i].category \in Categories
          /\ Manifested(i) => /\ store.saved[i].manifest \in Manifest
                              /\ store.saved[i].manifest.category = store.saved[i].category
                              /\ NormalizeSkillId(store.saved[i].manifest.name) = i
    BY <1>4 DEF SoundCatalog, SoundEntry, CatalogEntry
  <1>10. \A i \in Ids : skills[i] # None => skills[i] \in Manifest
    BY <1>2, <1>5, <1>9 DEF SoundRegistry
  <1>11. ASSUME NEW i \in Ids
        PROVE  /\ skills[i] # None => /\ catalog[i] # None /\ i \in index[skills[i].category]
                                      /\ NormalizeSkillId(skills[i].name) = i
               /\ catalog[i] # None => /\ catalog[i].manifest \in {None, skills[i]}
                                       /\ i \in index[catalog[i].category]
    <2>1. /\ fresh.skills[i] # None => /\ fresh.catalog[i] # None /\ i \in fresh.index[fresh.skills[i].category]
                                       /\ NormalizeSkillId(fresh.skills[i].name) = i
                                       /\ fresh.skills[i].category \in Categories
          /\ fresh.catalog[i] # None => /\ fresh.catalog[i].manifest \in {None, fresh.skills[i]}
                                        /\ i \in fresh.index[fresh.catalog[i].category]
                                        /\ fresh.catalog[i].category \in Categories
      BY <1>2 DEF SoundRegistry, SoundCatalog, SoundEntry, CatalogEntry, Manifest
    <2>2. CASE store.saved[i] = None
      BY <2>1, <2>2, <1>5, <1>6
    <2>3. CASE store.saved[i] # None /\ ~Manifested(i)
      BY <2>1, <2>3, <1>5, <1>6, <1>9
    <2>4. CASE Manifested(i)
      BY <2>4, <1>5, <1>6, <1>9
    <2> QED
      BY <2>2, <2>3, <2>4
  <1>12. \A k \in Categories : \A i \in index[k] : catalog[i] # None
    <2> SUFFICES ASSUME NEW k \in Categories, NEW i \in index[k] PROVE catalog[i] # None
      OBVIOUS
    <2>1. i \in Ids
      BY <1>5
    <2>2. i \in fresh.index[k] => fresh.catalog[i] # None
      BY <1>2 DEF SoundRegistry
    <2> QED
      BY <2>1, <2>2, <1>5, <1>6
  <1> QED
    BY <1>4, <1>5, <1>7, <1>8, <1>10, <1>11, <1>12 DEF SoundRegistry
-----------------------------------------------------------------------------
\* Every step of the downloads and of the registry keeps the invariant.
LEMMA StoreKeeps == StoreInv /\ StoreNext => StoreInv'
  <1> SUFFICES ASSUME StoreInv, StoreNext PROVE StoreInv'
    OBVIOUS
  <1>1. CASE SoundDownload(store)
    <2>1. Downloading
      BY <1>1 DEF SoundDownload, DownloadRecord, Downloading
    <2>2. SoundDownload(store')
      BY <1>1, <2>1, MovesKeep, RemovalKeeps, RenameKeeps, CopyBeginKeeps, CopyEndKeeps, ClearingKeeps
         DEF StoreNext, RegisterSkill, RegisterCatalogEntry, SaveCatalog, LoadSkillCatalog, ClearRegistry
    <2> QED
      BY <2>2 DEF StoreInv
  <1>2. CASE SoundRegistry(store)
    <2>1. ~Downloading
      BY <1>2 DEF SoundRegistry, RegistryRecord, Downloading
    <2>2. ASSUME NEW c \in Clients
          PROVE  ~ \/ CheckCache(c) \/ FindManifest(c) \/ ReadCached(c) \/ Stage(c) \/ FetchSucceeds(c)
                   \/ FetchFails(c) \/ VerifySkill(c) \/ RemoveTarget(c) \/ RenameStaging(c)
                   \/ CopyBegins(c) \/ CopyEnds(c) \/ CopyNeverBegins(c) \/ AskAgain(c)
      BY <2>1 DEF CheckCache, FindManifest, ReadCached, Stage, FetchSucceeds, FetchFails, VerifySkill,
                  RemoveTarget, RenameStaging, CopyBegins, CopyEnds, CopyNeverBegins, AskAgain, Goes
    <2>3. ~ClearCache /\ ~Dies
      BY <2>1 DEF ClearCache, Dies
    <2>4. SoundRegistry(store')
      BY <1>2, <2>2, <2>3, RegisterKeeps, RegisterEntryKeeps, SaveAndClearKeep, LoadKeeps DEF StoreNext
    <2> QED
      BY <2>4 DEF StoreInv
  <1> QED
    BY <1>1, <1>2 DEF StoreInv

\* The invariant gives what the store promises (downloadSkill, registerSkill).
LEMMA StoreHolds == StoreInv => CacheIsVerified /\ RegistryAgrees
  <1> SUFFICES ASSUME StoreInv PROVE CacheIsVerified /\ RegistryAgrees
    OBVIOUS
  <1>1. CASE SoundDownload(store)
    <2>1. Downloading /\ DownloadTypes(store) /\ Staged(store) /\ Verified(store) /\ Installed(store)
      BY <1>1 DEF SoundDownload, DownloadRecord, Downloading
    <2>2. \/ store.spoiled \/ store.target = Gone
          \/ \E c \in Clients : store.at[c] = "copied"
          \/ \E v \in Versions : store.target = Whole(v)
      BY <2>1 DEF Installed, Installing
    <2> QED
      BY <2>1, <2>2 DEF CacheIsVerified, RegistryAgrees, Verified, SoundAnswer, Staged
  <1>2. CASE SoundRegistry(store)
    <2>1. ~Downloading
      BY <1>2 DEF SoundRegistry, RegistryRecord, Downloading
    <2> QED
      BY <1>2, <2>1 DEF CacheIsVerified, RegistryAgrees, SoundRegistry
  <1> QED
    BY <1>1, <1>2 DEF StoreInv
-----------------------------------------------------------------------------
(* The texts of skills: scans                                              *)

AmongStep(S, C) ==
  [p \in Seq(S) \X S |-> IF p[2] \in C THEN Append(p[1], p[2]) ELSE p[1]]

\* What is picked from nothing, and from one element more.
LEMMA AmongGrows ==
    ASSUME NEW S, NEW C
    PROVE  /\ Among(<<>>, C) = <<>>
           /\ \A s \in Seq(S) : Among(s, C) \in Seq(S)
           /\ \A s \in Seq(S), x \in S :
                Among(Append(s, x), C) = IF x \in C THEN Append(Among(s, C), x) ELSE Among(s, C)
  <1> DEFINE T == Seq(S)  nil == <<>>  step == AmongStep(S, C)
  <1>1. \A t \in T, x \in S : step[<<t, x>>] = IF x \in C THEN Append(t, x) ELSE t
    BY DEF AmongStep
  <1>2. nil \in T /\ \A t \in T, x \in S : Append(t, x) \in T
    OBVIOUS
  <1>3. Scanner(S, T, step)
    BY <1>1, <1>2 DEF Scanner
  <1>4. ASSUME NEW s \in Seq(S) PROVE Among(s, C) = Scanned(T, s, nil, step)
    <2> DEFINE fun == CHOOSE f : f = [n \in 0..Len(s) |->
                        IF n = 0 THEN <<>>
                        ELSE IF s[n] \in C THEN Append(f[n - 1], s[n]) ELSE f[n - 1]]
    <2>0. Len(s) \in Nat /\ \A i \in 1..Len(s) : s[i] \in S /\ i - 1 \in 0..Len(s)
      OBVIOUS
    <2> HIDE DEF T, nil, step
    <2>1. PICK f : Scans(f, T, s, nil, step)
      BY <1>2, <1>3, ScanExists
    <2>2. f \in [0..Len(s) -> T] /\ f[0] = nil /\ \A i \in 1..Len(s) : f[i] = step[<<f[i - 1], s[i]>>]
      BY <2>1 DEF Scans
    <2>3. ASSUME NEW n \in 0..Len(s)
          PROVE  f[n] = IF n = 0 THEN <<>>
                        ELSE IF s[n] \in C THEN Append(f[n - 1], s[n]) ELSE f[n - 1]
      <3>1. CASE n = 0
        BY <2>2, <3>1 DEF nil
      <3>2. CASE n # 0
        <4>1. n \in 1..Len(s)
          BY <2>0, <3>2
        <4>2. f[n - 1] \in T /\ s[n] \in S
          BY <2>0, <2>2, <4>1
        <4> QED
          BY <1>1, <2>2, <3>2, <4>1, <4>2
      <3> QED
        BY <3>1, <3>2
    <2>4. f = [n \in 0..Len(s) |-> IF n = 0 THEN <<>>
                 ELSE IF s[n] \in C THEN Append(f[n - 1], s[n]) ELSE f[n - 1]]
      BY <2>2, <2>3
    <2>5. fun = [n \in 0..Len(s) |-> IF n = 0 THEN <<>>
                 ELSE IF s[n] \in C THEN Append(fun[n - 1], s[n]) ELSE fun[n - 1]]
      BY <2>4
    <2>6. Among(s, C) = fun[Len(s)]
      BY DEF Among
    <2> HIDE DEF fun
    <2>7. ASSUME NEW i \in 1..Len(s), fun[i - 1] \in T PROVE fun[i] = step[<<fun[i - 1], s[i]>>]
      <3>1. i \in 0..Len(s) /\ i # 0
        BY <2>0
      <3>2. fun[i] = IF s[i] \in C THEN Append(fun[i - 1], s[i]) ELSE fun[i - 1]
        BY <2>5, <3>1
      <3> QED
        BY <1>1, <2>0, <2>7, <3>2
    <2>8. fun[0] = nil
      BY <2>0, <2>5 DEF nil
    <2>9. ReadSoFar(fun, Len(s), T, s, nil, step)
      BY <2>7, <2>8 DEF ReadSoFar
    <2> QED
      BY <1>2, <1>3, <2>6, <2>9, ScannedIs
  <1> HIDE DEF T, nil, step
  <1>5. /\ \A s \in Seq(S) : Scanned(T, s, nil, step) \in T
        /\ \A s \in Seq(S), x \in S : Scanned(T, Append(s, x), nil, step) = step[<<Scanned(T, s, nil, step), x>>]
    BY <1>2, <1>3, ScannedStep
  <1>6. Among(<<>>, C) = <<>>
    <2>1. \A s \in Seq(S) : Len(s) = 0 => Scanned(T, s, nil, step) = nil
      <3>1. ASSUME NEW s \in Seq(S), Len(s) = 0 PROVE Scanned(T, s, nil, step) = nil
        <4>1. PICK f : Scans(f, T, s, nil, step) /\ Scanned(T, s, nil, step) = f[Len(s)]
          BY <1>2, <1>3, ScannedIsScan
        <4> QED
          BY <3>1, <4>1 DEF Scans
      <3> QED
        BY <3>1
    <2>2. <<>> \in Seq(S) /\ Len(<<>>) = 0
      OBVIOUS
    <2> QED
      BY <1>4, <2>1, <2>2, Zenon DEF nil
  <1>7. ASSUME NEW s \in Seq(S) PROVE Among(s, C) \in Seq(S)
    BY <1>4, <1>5 DEF T
  <1>8. ASSUME NEW s \in Seq(S), NEW x \in S
        PROVE  Among(Append(s, x), C) = IF x \in C THEN Append(Among(s, C), x) ELSE Among(s, C)
    <2>1. Append(s, x) \in Seq(S)
      OBVIOUS
    <2>2. Among(Append(s, x), C) = Scanned(T, Append(s, x), nil, step) /\ Among(s, C) = Scanned(T, s, nil, step)
      BY <1>4, <2>1
    <2> QED
      BY <1>1, <1>5, <2>2
  <1> QED
    BY <1>6, <1>7, <1>8

WordsStep(S, kind) ==
  [p \in Seq({l.word : l \in S}) \X S |->
     IF p[2].kind = kind THEN Append(p[1], p[2].word) ELSE p[1]]

\* The words of no lines, and of one line more.
LEMMA WordsGrow ==
    ASSUME NEW S, NEW kind
    PROVE  /\ WordsOf(<<>>, kind) = <<>>
           /\ \A s \in Seq(S) : WordsOf(s, kind) \in Seq({l.word : l \in S})
           /\ \A s \in Seq(S), x \in S :
                WordsOf(Append(s, x), kind) =
                  IF x.kind = kind THEN Append(WordsOf(s, kind), x.word) ELSE WordsOf(s, kind)
  <1> DEFINE T == Seq({l.word : l \in S})  nil == <<>>  step == WordsStep(S, kind)
  <1>1. \A t \in T, x \in S : step[<<t, x>>] = IF x.kind = kind THEN Append(t, x.word) ELSE t
    BY DEF WordsStep
  <1>2. nil \in T /\ \A t \in T, x \in S : Append(t, x.word) \in T
    OBVIOUS
  <1>3. Scanner(S, T, step)
    BY <1>1, <1>2 DEF Scanner
  <1>4. ASSUME NEW s \in Seq(S) PROVE WordsOf(s, kind) = Scanned(T, s, nil, step)
    <2> DEFINE fun == CHOOSE f : f = [n \in 0..Len(s) |->
                        IF n = 0 THEN <<>>
                        ELSE IF s[n].kind = kind THEN Append(f[n - 1], s[n].word) ELSE f[n - 1]]
    <2>0. Len(s) \in Nat /\ \A i \in 1..Len(s) : s[i] \in S /\ i - 1 \in 0..Len(s)
      OBVIOUS
    <2> HIDE DEF T, nil, step
    <2>1. PICK f : Scans(f, T, s, nil, step)
      BY <1>2, <1>3, ScanExists
    <2>2. f \in [0..Len(s) -> T] /\ f[0] = nil /\ \A i \in 1..Len(s) : f[i] = step[<<f[i - 1], s[i]>>]
      BY <2>1 DEF Scans
    <2>3. ASSUME NEW n \in 0..Len(s)
          PROVE  f[n] = IF n = 0 THEN <<>>
                        ELSE IF s[n].kind = kind THEN Append(f[n - 1], s[n].word) ELSE f[n - 1]
      <3>1. CASE n = 0
        BY <2>2, <3>1 DEF nil
      <3>2. CASE n # 0
        <4>1. n \in 1..Len(s)
          BY <2>0, <3>2
        <4>2. f[n - 1] \in T /\ s[n] \in S
          BY <2>0, <2>2, <4>1
        <4> QED
          BY <1>1, <2>2, <3>2, <4>1, <4>2
      <3> QED
        BY <3>1, <3>2
    <2>4. f = [n \in 0..Len(s) |-> IF n = 0 THEN <<>>
                 ELSE IF s[n].kind = kind THEN Append(f[n - 1], s[n].word) ELSE f[n - 1]]
      BY <2>2, <2>3
    <2>5. fun = [n \in 0..Len(s) |-> IF n = 0 THEN <<>>
                 ELSE IF s[n].kind = kind THEN Append(fun[n - 1], s[n].word) ELSE fun[n - 1]]
      BY <2>4
    <2>6. WordsOf(s, kind) = fun[Len(s)]
      BY DEF WordsOf
    <2> HIDE DEF fun
    <2>7. ASSUME NEW i \in 1..Len(s), fun[i - 1] \in T PROVE fun[i] = step[<<fun[i - 1], s[i]>>]
      <3>1. i \in 0..Len(s) /\ i # 0
        BY <2>0
      <3>2. fun[i] = IF s[i].kind = kind THEN Append(fun[i - 1], s[i].word) ELSE fun[i - 1]
        BY <2>5, <3>1
      <3> QED
        BY <1>1, <2>0, <2>7, <3>2
    <2>8. fun[0] = nil
      BY <2>0, <2>5 DEF nil
    <2>9. ReadSoFar(fun, Len(s), T, s, nil, step)
      BY <2>7, <2>8 DEF ReadSoFar
    <2> QED
      BY <1>2, <1>3, <2>6, <2>9, ScannedIs
  <1> HIDE DEF T, nil, step
  <1>5. /\ \A s \in Seq(S) : Scanned(T, s, nil, step) \in T
        /\ \A s \in Seq(S), x \in S : Scanned(T, Append(s, x), nil, step) = step[<<Scanned(T, s, nil, step), x>>]
    BY <1>2, <1>3, ScannedStep
  <1>6. WordsOf(<<>>, kind) = <<>>
    <2>1. \A s \in Seq(S) : Len(s) = 0 => Scanned(T, s, nil, step) = nil
      <3>1. ASSUME NEW s \in Seq(S), Len(s) = 0 PROVE Scanned(T, s, nil, step) = nil
        <4>1. PICK f : Scans(f, T, s, nil, step) /\ Scanned(T, s, nil, step) = f[Len(s)]
          BY <1>2, <1>3, ScannedIsScan
        <4> QED
          BY <3>1, <4>1 DEF Scans
      <3> QED
        BY <3>1
    <2>2. <<>> \in Seq(S) /\ Len(<<>>) = 0
      OBVIOUS
    <2> QED
      BY <1>4, <2>1, <2>2, Zenon DEF nil
  <1>7. ASSUME NEW s \in Seq(S) PROVE WordsOf(s, kind) \in Seq({l.word : l \in S})
    BY <1>4, <1>5 DEF T
  <1>8. ASSUME NEW s \in Seq(S), NEW x \in S
        PROVE  WordsOf(Append(s, x), kind) =
                  IF x.kind = kind THEN Append(WordsOf(s, kind), x.word) ELSE WordsOf(s, kind)
    <2>1. Append(s, x) \in Seq(S)
      OBVIOUS
    <2>2. WordsOf(Append(s, x), kind) = Scanned(T, Append(s, x), nil, step) /\ WordsOf(s, kind) = Scanned(T, s, nil, step)
      BY <1>4, <2>1
    <2> QED
      BY <1>1, <1>5, <2>2
  <1> QED
    BY <1>6, <1>7, <1>8

GuidelinesStep(S) ==
  [p \in Seq(S) \X S |-> IF p[2] \in ToSet(p[1]) THEN p[1] ELSE Append(p[1], p[2])]

\* The guidelines of no rules, and of one rule more.
LEMMA GuidelinesGrow ==
    ASSUME NEW S
    PROVE  /\ GuidelinesOf(<<>>) = <<>>
           /\ \A s \in Seq(S) : GuidelinesOf(s) \in Seq(S)
           /\ \A s \in Seq(S), x \in S :
                GuidelinesOf(Append(s, x)) =
                  IF x \in ToSet(GuidelinesOf(s)) THEN GuidelinesOf(s) ELSE Append(GuidelinesOf(s), x)
  <1> DEFINE T == Seq(S)  nil == <<>>  step == GuidelinesStep(S)
  <1>1. \A t \in T, x \in S : step[<<t, x>>] = IF x \in ToSet(t) THEN t ELSE Append(t, x)
    BY DEF GuidelinesStep
  <1>2. nil \in T /\ \A t \in T, x \in S : Append(t, x) \in T
    OBVIOUS
  <1>3. Scanner(S, T, step)
    BY <1>1, <1>2 DEF Scanner
  <1>4. ASSUME NEW s \in Seq(S) PROVE GuidelinesOf(s) = Scanned(T, s, nil, step)
    <2> DEFINE fun == CHOOSE f : f = [n \in 0..Len(s) |->
                        IF n = 0 THEN <<>>
                        ELSE IF s[n] \in ToSet(f[n - 1]) THEN f[n - 1] ELSE Append(f[n - 1], s[n])]
    <2>0. Len(s) \in Nat /\ \A i \in 1..Len(s) : s[i] \in S /\ i - 1 \in 0..Len(s)
      OBVIOUS
    <2> HIDE DEF T, nil, step
    <2>1. PICK f : Scans(f, T, s, nil, step)
      BY <1>2, <1>3, ScanExists
    <2>2. f \in [0..Len(s) -> T] /\ f[0] = nil /\ \A i \in 1..Len(s) : f[i] = step[<<f[i - 1], s[i]>>]
      BY <2>1 DEF Scans
    <2>3. ASSUME NEW n \in 0..Len(s)
          PROVE  f[n] = IF n = 0 THEN <<>>
                        ELSE IF s[n] \in ToSet(f[n - 1]) THEN f[n - 1] ELSE Append(f[n - 1], s[n])
      <3>1. CASE n = 0
        BY <2>2, <3>1 DEF nil
      <3>2. CASE n # 0
        <4>1. n \in 1..Len(s)
          BY <2>0, <3>2
        <4>2. f[n - 1] \in T /\ s[n] \in S
          BY <2>0, <2>2, <4>1
        <4> QED
          BY <1>1, <2>2, <3>2, <4>1, <4>2
      <3> QED
        BY <3>1, <3>2
    <2>4. f = [n \in 0..Len(s) |-> IF n = 0 THEN <<>>
                 ELSE IF s[n] \in ToSet(f[n - 1]) THEN f[n - 1] ELSE Append(f[n - 1], s[n])]
      BY <2>2, <2>3
    <2>5. fun = [n \in 0..Len(s) |-> IF n = 0 THEN <<>>
                 ELSE IF s[n] \in ToSet(fun[n - 1]) THEN fun[n - 1] ELSE Append(fun[n - 1], s[n])]
      BY <2>4
    <2>6. GuidelinesOf(s) = fun[Len(s)]
      BY DEF GuidelinesOf
    <2> HIDE DEF fun
    <2>7. ASSUME NEW i \in 1..Len(s), fun[i - 1] \in T PROVE fun[i] = step[<<fun[i - 1], s[i]>>]
      <3>1. i \in 0..Len(s) /\ i # 0
        BY <2>0
      <3>2. fun[i] = IF s[i] \in ToSet(fun[i - 1]) THEN fun[i - 1] ELSE Append(fun[i - 1], s[i])
        BY <2>5, <3>1
      <3> QED
        BY <1>1, <2>0, <2>7, <3>2
    <2>8. fun[0] = nil
      BY <2>0, <2>5 DEF nil
    <2>9. ReadSoFar(fun, Len(s), T, s, nil, step)
      BY <2>7, <2>8 DEF ReadSoFar
    <2> QED
      BY <1>2, <1>3, <2>6, <2>9, ScannedIs
  <1> HIDE DEF T, nil, step
  <1>5. /\ \A s \in Seq(S) : Scanned(T, s, nil, step) \in T
        /\ \A s \in Seq(S), x \in S : Scanned(T, Append(s, x), nil, step) = step[<<Scanned(T, s, nil, step), x>>]
    BY <1>2, <1>3, ScannedStep
  <1>6. GuidelinesOf(<<>>) = <<>>
    <2>1. \A s \in Seq(S) : Len(s) = 0 => Scanned(T, s, nil, step) = nil
      <3>1. ASSUME NEW s \in Seq(S), Len(s) = 0 PROVE Scanned(T, s, nil, step) = nil
        <4>1. PICK f : Scans(f, T, s, nil, step) /\ Scanned(T, s, nil, step) = f[Len(s)]
          BY <1>2, <1>3, ScannedIsScan
        <4> QED
          BY <3>1, <4>1 DEF Scans
      <3> QED
        BY <3>1
    <2>2. <<>> \in Seq(S) /\ Len(<<>>) = 0
      OBVIOUS
    <2> QED
      BY <1>4, <2>1, <2>2, Zenon DEF nil
  <1>7. ASSUME NEW s \in Seq(S) PROVE GuidelinesOf(s) \in Seq(S)
    BY <1>4, <1>5 DEF T
  <1>8. ASSUME NEW s \in Seq(S), NEW x \in S
        PROVE  GuidelinesOf(Append(s, x)) =
                  IF x \in ToSet(GuidelinesOf(s)) THEN GuidelinesOf(s) ELSE Append(GuidelinesOf(s), x)
    <2>1. Append(s, x) \in Seq(S)
      OBVIOUS
    <2>2. GuidelinesOf(Append(s, x)) = Scanned(T, Append(s, x), nil, step) /\ GuidelinesOf(s) = Scanned(T, s, nil, step)
      BY <1>4, <2>1
    <2> QED
      BY <1>1, <1>5, <2>2
  <1> QED
    BY <1>6, <1>7, <1>8
-----------------------------------------------------------------------------
(* The texts of skills: a prompt                                           *)

\* Each element is in C or not.
LEMMA AmongParts ==
    ASSUME NEW S, NEW C, NEW s \in Seq(S)
    PROVE  /\ Among(s, C) \in Seq(S \cap C)
           /\ Among(s, S \ C) \in Seq(S \ C)
           /\ Len(Among(s, C)) + Len(Among(s, S \ C)) = Len(s)
  <1>g. \A B : \A r \in Seq(S), x \in S :
         Among(Append(r, x), B) = IF x \in B THEN Append(Among(r, B), x) ELSE Among(r, B)
    BY AmongGrows, Zenon
  <1> DEFINE D == S \ C
             Good(r) == /\ Among(r, C) \in Seq(S \cap C) /\ Among(r, D) \in Seq(D)
                        /\ Len(Among(r, C)) + Len(Among(r, D)) = Len(r)
             P == {r \in Seq(S) : Good(r)}
  <1>0. \A x \in S : x \in D <=> x \notin C
    OBVIOUS
  <1> HIDE DEF D
  <1>1. <<>> \in P
    <2>1. Among(<<>>, C) = <<>> /\ Among(<<>>, D) = <<>>
      BY AmongGrows, Zenon
    <2>2. <<>> \in Seq(S) /\ <<>> \in Seq(S \cap C) /\ <<>> \in Seq(D) /\ Len(<<>>) + Len(<<>>) = Len(<<>>)
      OBVIOUS
    <2>3. Good(<<>>)
      BY <2>1, <2>2, Zenon
    <2> QED
      BY <2>2, <2>3, Zenon
  <1>2. ASSUME NEW r \in Seq(S), NEW x \in S, r \in P PROVE Append(r, x) \in P
    <2>1. /\ Among(r, C) \in Seq(S \cap C) /\ Among(r, D) \in Seq(D)
          /\ Len(Among(r, C)) + Len(Among(r, D)) = Len(r)
      BY <1>2
    <2>2. /\ Among(Append(r, x), C) = IF x \in C THEN Append(Among(r, C), x) ELSE Among(r, C)
          /\ Among(Append(r, x), D) = IF x \in D THEN Append(Among(r, D), x) ELSE Among(r, D)
      BY <1>g
    <2>3. Append(r, x) \in Seq(S) /\ Len(Append(r, x)) = Len(r) + 1
      OBVIOUS
    <2>4. CASE x \in C
      <3> DEFINE a == Among(r, C)  b == Among(r, D)
      <3>1. Among(Append(r, x), C) = Append(a, x) /\ Among(Append(r, x), D) = b
        BY <1>0, <2>2, <2>4
      <3>2. x \in S \cap C /\ a \in Seq(S \cap C) /\ b \in Seq(D) /\ Len(a) + Len(b) = Len(r)
        BY <2>1, <2>4
      <3> HIDE DEF a, b
      <3>3. Append(a, x) \in Seq(S \cap C) /\ Len(Append(a, x)) + Len(b) = Len(r) + 1
        BY <3>2
      <3> QED
        BY <2>3, <3>1, <3>2, <3>3
    <2>5. CASE x \notin C
      <3> DEFINE a == Among(r, C)  b == Among(r, D)
      <3>1. Among(Append(r, x), C) = a /\ Among(Append(r, x), D) = Append(b, x)
        BY <1>0, <2>2, <2>5
      <3>2. x \in D /\ a \in Seq(S \cap C) /\ b \in Seq(D) /\ Len(a) + Len(b) = Len(r)
        BY <1>0, <2>1, <2>5
      <3> HIDE DEF a, b
      <3>3. Append(b, x) \in Seq(D) /\ Len(a) + Len(Append(b, x)) = Len(r) + 1
        BY <3>2
      <3> QED
        BY <2>3, <3>1, <3>2, <3>3
    <2> QED
      BY <2>4, <2>5
  <1> HIDE DEF P
  <1>3. s \in P
    BY <1>1, <1>2, AllSeq
  <1> QED
    BY <1>3 DEF P, D

\* What is in C is all picked, and nothing after it that is not.
LEMMA AmongPrefix ==
    ASSUME NEW S, NEW C, NEW s \in Seq(S \cap C), NEW t \in Seq(S \ C)
    PROVE  Among(s \o t, C) = s
  <1> DEFINE P == {r \in Seq(S \cap C) : Among(r, C) = r}
             Q == {r \in Seq(S \ C) : Among(s \o r, C) = s}
  <1>0. s \in Seq(S) /\ \A r \in Seq(S \ C) : s \o r \in Seq(S)
    OBVIOUS
  <1>1. <<>> \in P
    <2>1. Among(<<>>, C) = <<>>
      BY AmongGrows, Zenon
    <2>2. <<>> \in Seq(S \cap C)
      OBVIOUS
    <2> QED
      BY <2>1, <2>2, Zenon
  <1>2. ASSUME NEW r \in Seq(S \cap C), NEW x \in S \cap C, r \in P PROVE Append(r, x) \in P
    <2>1. r \in Seq(S) /\ Append(r, x) \in Seq(S \cap C)
      OBVIOUS
    <2>2. Among(Append(r, x), C) = Append(Among(r, C), x)
      <3>1. Among(Append(r, x), C) = IF x \in C THEN Append(Among(r, C), x) ELSE Among(r, C)
        BY <2>1, AmongGrows, Zenon
      <3> QED
        BY <3>1
    <2> QED
      BY <1>2, <2>1, <2>2
  <1>3. s \in P
    <2> HIDE DEF P
    <2> QED
      BY <1>1, <1>2, AllSeq
  <1>4. <<>> \in Q
    <2>1. s \o <<>> = s /\ <<>> \in Seq(S \ C)
      BY <1>0, ConcatEmptySeq
    <2> QED
      BY <1>3, <2>1
  <1>5. ASSUME NEW r \in Seq(S \ C), NEW x \in S \ C, r \in Q PROVE Append(r, x) \in Q
    <2>1. s \o r \in Seq(S) /\ Append(r, x) \in Seq(S \ C)
      OBVIOUS
    <2>2. s \o Append(r, x) = Append(s \o r, x)
      BY <1>0
    <2>3. Among(Append(s \o r, x), C) = Among(s \o r, C)
      <3>1. Among(Append(s \o r, x), C) = IF x \in C THEN Append(Among(s \o r, C), x) ELSE Among(s \o r, C)
        BY <2>1, AmongGrows, Zenon
      <3> QED
        BY <3>1
    <2> QED
      BY <1>5, <2>1, <2>2, <2>3
  <1>6. t \in Q
    <2> HIDE DEF Q
    <2> QED
      BY <1>4, <1>5, AllSeq
  <1> QED
    BY <1>6

\* What is cut.
LEMMA CutIs ==
    ASSUME NEW S, NEW r \in Seq(S), NEW limit \in Nat
    PROVE  /\ Cut(r, limit) \in Seq(S)
           /\ Len(Cut(r, limit)) = IF limit <= Len(r) THEN limit ELSE Len(r)
           /\ limit >= Len(r) => Cut(r, limit) = r
  <1>1. Min({limit, Len(r)}) = IF limit <= Len(r) THEN limit ELSE Len(r)
    BY OfTwo
  <1>2. Cut(r, limit) = SubSeq(r, 1, IF limit <= Len(r) THEN limit ELSE Len(r))
    BY <1>1 DEF Cut
  <1> QED
    BY <1>2

\* A prompt has what the limit admits, the critical rules first
\* (formatSkillPrompt).
LEMMA PromptIs ==
    ASSUME NEW a \in Seq(Words \cap Critical), NEW b \in Seq(Words \ Critical), NEW n \in Nat,
           Len(a) + Len(b) = n, NEW limit \in Nat, NEW shown,
           shown = Cut(a, limit) \o Cut(b, Remaining(limit, a))
    PROVE  /\ Len(shown) = Min({limit, n})
           /\ ToSet(shown) \subseteq Critical \/ Among(shown, Critical) = a
  <1> DEFINE rest == Remaining(limit, a)
  <1>2. shown = Cut(a, limit) \o Cut(b, rest)
    OBVIOUS
  <1>3. Len(a) \in Nat /\ Len(b) \in Nat
    OBVIOUS
  <1>4. rest \in Nat /\ rest = IF limit >= Len(a) THEN limit - Len(a) ELSE 0
    <2>1. Max({0, limit - Len(a)}) = IF limit - Len(a) <= 0 THEN 0 ELSE limit - Len(a)
      <3>1. 0 \in Int /\ limit - Len(a) \in Int
        BY <1>3
      <3>2. Max({0, limit - Len(a)}) = IF 0 >= limit - Len(a) THEN 0 ELSE limit - Len(a)
        BY <3>1, OfTwo, Zenon
      <3> QED
        BY <1>3, <3>2
    <2> QED
      BY <1>3, <2>1 DEF Remaining
  <1> HIDE DEF rest
  <1>5. /\ Cut(a, limit) \in Seq(Words \cap Critical)
        /\ Len(Cut(a, limit)) = IF limit <= Len(a) THEN limit ELSE Len(a)
        /\ limit >= Len(a) => Cut(a, limit) = a
    BY CutIs
  <1>6. Cut(b, rest) \in Seq(Words \ Critical) /\ Len(Cut(b, rest)) = IF rest <= Len(b) THEN rest ELSE Len(b)
    BY <1>4, CutIs
  <1> DEFINE c == Cut(a, limit)  d == Cut(b, rest)
  <1>7. c \in Seq(Words \cap Critical) /\ d \in Seq(Words \ Critical) /\ shown = c \o d
    BY <1>2, <1>5, <1>6
  <1>8. Len(c) = (IF limit <= Len(a) THEN limit ELSE Len(a)) /\ Len(d) = IF rest <= Len(b) THEN rest ELSE Len(b)
    BY <1>5, <1>6
  <1>9. limit >= Len(a) => c = a
    BY <1>5
  <1>13. Len(c) \in Nat /\ Len(d) \in Nat
    <2> HIDE DEF c, d
    <2> QED
      BY <1>7
  <1> HIDE DEF c, d
  <1>10. Len(shown) = Min({limit, n})
    <2>1. Min({limit, n}) = IF limit <= n THEN limit ELSE n
      <3>1. limit \in Int /\ n \in Int
        BY <1>3
      <3> QED
        BY <3>1, OfTwo, Zenon
    <2>2. Len(shown) = Len(c) + Len(d)
      BY <1>7
    <2> QED
      <3> DEFINE la == Len(a)  lb == Len(b)  lc == Len(c)  ld == Len(d)  m == Min({limit, n})
      <3>1. /\ la \in Nat /\ lb \in Nat /\ la + lb = n /\ n \in Nat /\ limit \in Nat
            /\ rest = IF limit >= la THEN limit - la ELSE 0
            /\ lc = (IF limit <= la THEN limit ELSE la) /\ ld = IF rest <= lb THEN rest ELSE lb
            /\ m = IF limit <= n THEN limit ELSE n
        BY <1>3, <1>4, <1>8, <2>1
      <3>2. Len(shown) = lc + ld
        BY <2>2
      <3> HIDE DEF la, lb, lc, ld, m
      <3>3. lc + ld = m
        BY <3>1
      <3> QED
        BY <3>2, <3>3 DEF m
  <1> HIDE DEF c, d
  <1>11. CASE limit >= Len(a)
    <2>1. Among(shown, Critical) = c
      BY <1>7, AmongPrefix
    <2> QED
      BY <1>9, <1>10, <1>11, <2>1
  <1>12. CASE ~(limit >= Len(a))
    <2>1. Len(d) = 0
      BY <1>3, <1>4, <1>8, <1>12
    <2>2. d = <<>>
      BY <1>7, <2>1, EmptySeq
    <2>3. shown = c
      BY <1>7, <2>2, ConcatEmptySeq
    <2>4. ToSet(shown) \subseteq Critical
      <3>1. \A i \in DOMAIN c : c[i] \in Critical
        BY <1>7
      <3> QED
        BY <2>3, <3>1 DEF ToSet
    <2> QED
      BY <1>10, <2>4
  <1> QED
    BY <1>11, <1>12
-----------------------------------------------------------------------------
(* The texts of skills: frontmatter                                        *)

\* The least and the greatest of a set of numbers are those that are.
LEMMA ExtremeIs ==
    ASSUME NEW T, T \subseteq Int, NEW m \in T
    PROVE  /\ (\A y \in T : m <= y) => Min(T) = m
           /\ (\A y \in T : m >= y) => Max(T) = m
  <1>1. ASSUME NEW x \in T, \A y \in T : x <= y, \A y \in T : m <= y PROVE x = m
    <2>1. x \in Int /\ m \in Int /\ x <= m /\ m <= x
      BY <1>1
    <2> QED
      BY <2>1
  <1>2. ASSUME NEW x \in T, \A y \in T : x >= y, \A y \in T : m >= y PROVE x = m
    <2>1. x \in Int /\ m \in Int /\ x >= m /\ m >= x
      BY <1>2
    <2> QED
      BY <2>1
  <1>3. (\A y \in T : m <= y) => Min(T) = m
    BY <1>1 DEF Min
  <1>4. (\A y \in T : m >= y) => Max(T) = m
    BY <1>2 DEF Max
  <1> QED
    BY <1>3, <1>4

\* The lines of a text and the one that comes next.
LEMMA LinesGrow ==
    ASSUME NEW L, NEW lines \in Seq(L), NEW line \in L
    PROVE  /\ Append(lines, line) \in Seq(L) /\ Len(Append(lines, line)) = Len(lines) + 1
           /\ Len(lines) \in Nat /\ DOMAIN lines = 1..Len(lines)
           /\ DOMAIN Append(lines, line) = (1..Len(lines)) \cup {Len(lines) + 1}
           /\ Append(lines, line)[Len(lines) + 1] = line
           /\ \A i \in 1..Len(lines) : Append(lines, line)[i] = lines[i] /\ lines[i] \in L
  <1>1. 1..(Len(lines) + 1) = (1..Len(lines)) \cup {Len(lines) + 1}
    OBVIOUS
  <1> QED
    BY <1>1

KeysAt(lines) == {i \in DOMAIN lines : lines[i].kind = "key"}

\* Where a block ends.
EndsOf(lines, start) == {i \in DOMAIN lines : i > start /\ lines[i].kind = "key"} \cup {Len(lines) + 1}

\* The end of a block is the next key or the end of the text.
LEMMA EndIs ==
    ASSUME NEW L, NEW lines \in Seq(L), NEW start \in 0..Len(lines)
    PROVE  /\ Min(EndsOf(lines, start)) \in EndsOf(lines, start)
           /\ Min(EndsOf(lines, start)) \in (start + 1)..(Len(lines) + 1)
           /\ \A y \in EndsOf(lines, start) : Min(EndsOf(lines, start)) <= y
  <1> DEFINE T == EndsOf(lines, start)
  <1>1. Len(lines) \in Nat /\ DOMAIN lines = 1..Len(lines)
    OBVIOUS
  <1>2. T \subseteq Nat /\ T # {} /\ T \subseteq (start + 1)..(Len(lines) + 1)
    BY <1>1 DEF EndsOf
  <1> HIDE DEF T
  <1>3. PICK x \in T : \A y \in T : x <= y
    BY <1>2, LeastOf
  <1>4. Min(T) = x
    <2>1. T \subseteq Int
      BY <1>2
    <2> QED
      BY <1>3, <2>1, ExtremeIs
  <1> QED
    BY <1>2, <1>3, <1>4 DEF T

\* The block of a key takes in each line that follows, until a key does
\* (parseYamlBlock).
LEMMA BlockGrows ==
    ASSUME NEW L, NEW lines \in Seq(L), NEW line \in L, NEW start \in 0..Len(lines)
    PROVE  /\ BlockAfter(lines, start) \in Seq(L)
           /\ BlockAfter(Append(lines, line), Len(lines) + 1) = <<>>
           /\ BlockAfter(Append(lines, line), start) =
                IF line.kind = "key" \/ \E i \in KeysAt(lines) : i > start
                  THEN BlockAfter(lines, start) ELSE Append(BlockAfter(lines, start), line)
  <1> DEFINE n == Len(lines)
             r == Append(lines, line)
             T == EndsOf(lines, start)
             U == EndsOf(r, start)
  <1>1. /\ r \in Seq(L) /\ Len(r) = n + 1 /\ n \in Nat /\ DOMAIN lines = 1..n
        /\ DOMAIN r = (1..n) \cup {n + 1} /\ r[n + 1] = line
        /\ \A i \in 1..n : r[i] = lines[i] /\ lines[i] \in L
    BY LinesGrow
  <1>2. start \in 0..n /\ start \in 0..Len(r) /\ start \in Nat
    BY <1>1
  <1>3. BlockAfter(lines, start) = SubSeq(lines, start + 1, Min(T) - 1)
        /\ BlockAfter(r, start) = SubSeq(r, start + 1, Min(U) - 1)
    BY DEF BlockAfter, EndsOf
  <1>4. U = (T \ {n + 1}) \cup (IF line.kind = "key" THEN {n + 1} ELSE {}) \cup {n + 2}
    <2>1. n + 1 + 1 = n + 2
      BY <1>1
    <2>2. U = {i \in (1..n) \cup {n + 1} : i > start /\ r[i].kind = "key"} \cup {n + 2}
      <3> HIDE DEF r
      <3> QED
        BY <1>1, <2>1 DEF EndsOf
    <2>3. T \ {n + 1} = {i \in 1..n : i > start /\ r[i].kind = "key"}
      <3>1. n + 1 \notin 1..n
        BY <1>1
      <3> HIDE DEF r
      <3> QED
        BY <1>1, <3>1 DEF EndsOf
    <2>4. n + 1 > start
      BY <1>1, <1>2
    <2> HIDE DEF r, T, U
    <2> QED
      BY <1>1, <2>2, <2>3, <2>4
  <1>5. /\ Min(T) \in T /\ Min(T) \in (start + 1)..(n + 1) /\ \A y \in T : Min(T) <= y
        /\ T \subseteq 1..(n + 1) /\ Min(U) \in U
    <2>1. T \subseteq 1..(n + 1)
      BY <1>1 DEF EndsOf
    <2> HIDE DEF r
    <2> QED
      BY <1>1, <1>2, <2>1, EndIs
  <1>6. BlockAfter(lines, start) \in Seq(L)
    <2>1. \A i \in (start + 1)..(Min(T) - 1) : i \in 1..n
      BY <1>1, <1>2, <1>5
    <2>2. start + 1 \in Int /\ Min(T) - 1 \in Int
      BY <1>2, <1>5
    <2> HIDE DEF T
    <2> QED
      BY <1>1, <1>3, <2>1, <2>2, SubSeqProperties
  <1>7. BlockAfter(r, n + 1) = <<>>
    <2>1. EndsOf(r, n + 1) = {n + 2}
      <3>1. n + 1 + 1 = n + 2 /\ ~(n + 1 > n + 1) /\ \A i \in 1..n : ~(i > n + 1)
        BY <1>1
      <3> HIDE DEF r
      <3> QED
        BY <1>1, <3>1 DEF EndsOf
    <2> HIDE DEF r
    <2>2. Min(EndsOf(r, n + 1)) = n + 2
      <3>1. n + 1 \in 0..Len(r)
        BY <1>1
      <3> QED
        BY <1>1, <2>1, <3>1, EndIs
    <2> DEFINE low == n + 1 + 1  high == Min(EndsOf(r, n + 1)) - 1
    <2>3. BlockAfter(r, n + 1) = SubSeq(r, low, high)
      BY DEF BlockAfter, EndsOf
    <2>4. low \in Int /\ high \in Int /\ high < low
      BY <1>1, <2>2
    <2> HIDE DEF low, high
    <2> QED
      BY <1>1, <2>3, <2>4
  <1> HIDE DEF n, r, T, U
  <1>8. ASSUME line.kind = "key" \/ \E i \in KeysAt(lines) : i > start
        PROVE  BlockAfter(r, start) = BlockAfter(lines, start)
    <2>1. Min(T) \in U /\ \A y \in U : Min(T) <= y
      <3>1. CASE Min(T) = n + 1
        <4>1. ~\E i \in KeysAt(lines) : i > start
          <5>1. ASSUME NEW i \in KeysAt(lines), i > start PROVE FALSE
            <6>1. i \in T /\ i \in 1..n
              BY <1>1, <5>1 DEF KeysAt, EndsOf, T, n
            <6>2. n + 1 <= i
              BY <1>5, <3>1, <6>1
            <6> QED
              BY <1>1, <6>1, <6>2
          <5> QED
            BY <5>1
        <4>2. line.kind = "key"
          BY <1>8, <4>1
        <4>3. U = (T \ {n + 1}) \cup {n + 1} \cup {n + 2}
          BY <1>4, <4>2
        <4> QED
          BY <1>1, <1>5, <3>1, <4>3
      <3>2. CASE Min(T) # n + 1
        <4>1. Min(T) \in U
          BY <1>4, <1>5, <3>2
        <4>2. \A y \in U : y \in T \/ y = n + 1 \/ y = n + 2
          BY <1>4
        <4>3. Min(T) <= n + 1 /\ Min(T) <= n + 2
          BY <1>1, <1>5
        <4> QED
          BY <1>5, <4>1, <4>2, <4>3
      <3> QED
        BY <3>1, <3>2
    <2>2. U \subseteq Int
      <3>1. n + 1 \in Int /\ n + 2 \in Int /\ T \subseteq Int
        BY <1>1, <1>5
      <3> QED
        BY <1>4, <3>1
    <2>3. Min(U) = Min(T)
      <3> QED
        BY <2>1, <2>2, ExtremeIs
    <2>4. SubSeq(r, start + 1, Min(T) - 1) = SubSeq(lines, start + 1, Min(T) - 1)
      <3> DEFINE m == Min(T) - 1
      <3>1. m \in Int /\ start + 1 \in Nat /\ m <= n /\ \A i \in (start + 1)..m : i \in 1..n
        BY <1>1, <1>2, <1>5
      <3> QED
        BY <1>1, <3>1
    <2> QED
      BY <1>3, <2>3, <2>4
  <1>9. ASSUME ~(line.kind = "key" \/ \E i \in KeysAt(lines) : i > start)
        PROVE  BlockAfter(r, start) = Append(BlockAfter(lines, start), line)
    <2>1. T = {n + 1}
      BY <1>1, <1>9 DEF EndsOf, KeysAt, T, n
    <2>2. U = {n + 2}
      <3> QED
        BY <1>4, <1>9, <2>1
    <2>3. Min(T) = n + 1 /\ Min(U) = n + 2
      BY <1>5, <2>1, <2>2
    <2>4. BlockAfter(lines, start) = SubSeq(lines, start + 1, n) /\ BlockAfter(r, start) = SubSeq(r, start + 1, n + 1)
      <3>1. Min(T) - 1 = n /\ Min(U) - 1 = n + 1
        BY <1>1, <2>3
      <3> QED
        BY <1>3, <3>1, Zenon
    <2>5. SubSeq(r, start + 1, n + 1) = Append(SubSeq(lines, start + 1, n), line)
      <3>1. start + 1 <= n + 1 /\ start + 1 \in Nat /\ start + 1 >= 1
        BY <1>1, <1>2
      <3> QED
        BY <1>1, <3>1
    <2> QED
      BY <2>4, <2>5
  <1> QED
    BY <1>6, <1>7, <1>8, <1>9, Zenon DEF n, r

\* A greatest place in a text.
LEMMA LastPlace ==
    ASSUME NEW n \in Nat, NEW T, T \subseteq 1..n, T # {}
    PROVE  Max(T) \in T /\ \A y \in T : Max(T) >= y
  <1>1. T \subseteq 0..n /\ T \subseteq Int
    OBVIOUS
  <1>2. PICK x \in T : \A y \in T : y <= x
    BY <1>1, GreatestOf
  <1>3. \A y \in T : x >= y
    BY <1>1, <1>2
  <1>4. Max(T) = x
    BY <1>1, <1>3, ExtremeIs
  <1> QED
    BY <1>3, <1>4

\* Where the lines of a kind begin, when one line more is there.
LEMMA BeganGrows ==
    ASSUME NEW L, NEW block \in Seq(L), NEW line \in L, NEW kind
    PROVE  /\ Began(block, kind) \in 0..Len(block)
           /\ Began(block, kind) # 0 => block[Began(block, kind)].kind = kind
           /\ Began(block, kind) = 0 => \A i \in 1..Len(block) : block[i].kind # kind
           /\ Began(Append(block, line), kind) =
                IF Began(block, kind) # 0 THEN Began(block, kind)
                ELSE IF line.kind = kind THEN Len(block) + 1 ELSE 0
  <1> DEFINE n == Len(block)
             r == Append(block, line)
             S == {i \in DOMAIN block : block[i].kind = kind}
             T == {i \in DOMAIN r : r[i].kind = kind}
  <1>1. /\ n \in Nat /\ DOMAIN block = 1..n /\ DOMAIN r = (1..n) \cup {n + 1} /\ r[n + 1] = line
        /\ \A i \in 1..n : r[i] = block[i]
    BY LinesGrow
  <1>2. Began(block, kind) = (IF S = {} THEN 0 ELSE Min(S)) /\ Began(r, kind) = IF T = {} THEN 0 ELSE Min(T)
    BY DEF Began
  <1>3. T = S \cup IF line.kind = kind THEN {n + 1} ELSE {}
    <2> HIDE DEF r, n
    <2> QED
      BY <1>1
  <1>4. S \subseteq 1..n /\ \A i \in 1..n : i \in S <=> block[i].kind = kind
    BY <1>1
  <1> HIDE DEF S, T, r, n
  <1>5. S # {} => Min(S) \in S /\ \A y \in S : Min(S) <= y
    <2> SUFFICES ASSUME S # {} PROVE Min(S) \in S /\ \A y \in S : Min(S) <= y
      OBVIOUS
    <2>1. S \subseteq Nat /\ S \subseteq Int
      BY <1>1, <1>4
    <2>2. PICK x \in S : \A y \in S : x <= y
      BY <2>1, LeastOf
    <2>3. Min(S) = x
      BY <2>1, <2>2, ExtremeIs
    <2> QED
      BY <2>2, <2>3
  <1>6. CASE S = {}
    <2>1. \A i \in 1..n : block[i].kind # kind
      BY <1>4, <1>6
    <2>2. line.kind = kind => Min(T) = n + 1 /\ T # {}
      <3> SUFFICES ASSUME line.kind = kind PROVE Min(T) = n + 1 /\ T # {}
        OBVIOUS
      <3>1. T = {n + 1}
        BY <1>3, <1>6
      <3>2. T \subseteq Int /\ n + 1 \in T /\ \A y \in T : n + 1 <= y
        BY <1>1, <3>1
      <3> QED
        BY <3>2, ExtremeIs
    <2>3. line.kind # kind => T = {}
      BY <1>3, <1>6
    <2>4. Began(block, kind) = 0 /\ 0 \in 0..n
      BY <1>1, <1>2, <1>6
    <2>5. Began(r, kind) = IF line.kind = kind THEN n + 1 ELSE 0
      BY <1>2, <2>2, <2>3
    <2> QED
      BY <2>1, <2>4, <2>5 DEF n, r
  <1>7. CASE S # {}
    <2>1. Min(S) \in 1..n /\ block[Min(S)].kind = kind /\ Min(S) # 0 /\ Began(block, kind) = Min(S)
      <3>1. Min(S) \in S
        BY <1>5, <1>7
      <3>2. Min(S) \in 1..n /\ block[Min(S)].kind = kind
        BY <1>4, <3>1
      <3> QED
        BY <1>1, <1>2, <1>7, <3>2
    <2>2. Min(T) = Min(S) /\ T # {}
      <3> DEFINE m == Min(S)
      <3>1. m \in Int /\ m <= n + 1 /\ n + 1 \in Int
        BY <1>1, <2>1
      <3>2. T \subseteq Int
        BY <1>1, <1>3, <1>4, <3>1
      <3>3. m \in T /\ \A y \in T : m <= y
        BY <1>3, <1>5, <1>7, <3>1
      <3> HIDE DEF m
      <3>4. Min(T) = m
        BY <3>2, <3>3, ExtremeIs
      <3> QED
        BY <3>3, <3>4 DEF m
    <2>3. Began(r, kind) = Min(S) /\ Min(S) \in 0..n
      BY <1>1, <1>2, <2>1, <2>2
    <2> QED
      BY <2>1, <2>3 DEF n, r
  <1> QED
    BY <1>6, <1>7

\* Lines that are not there have no words.
LEMMA NoWords ==
    ASSUME NEW L, NEW block \in Seq(L), NEW kind, Began(block, kind) = 0
    PROVE  WordsOf(block, kind) = <<>>
  <1>0. \A b \in Seq(L), line \in L :
          WordsOf(Append(b, line), kind) =
            IF line.kind = kind THEN Append(WordsOf(b, kind), line.word) ELSE WordsOf(b, kind)
    BY WordsGrow, Zenon
  <1> DEFINE P == {b \in Seq(L) : (\A i \in 1..Len(b) : b[i].kind # kind) => WordsOf(b, kind) = <<>>}
  <1>1. <<>> \in P
    <2>1. WordsOf(<<>>, kind) = <<>>
      BY WordsGrow, Zenon
    <2>2. <<>> \in Seq(L)
      OBVIOUS
    <2> QED
      BY <2>1, <2>2, Zenon
  <1>2. ASSUME NEW b \in Seq(L), NEW line \in L, b \in P PROVE Append(b, line) \in P
    <2>1. /\ Append(b, line) \in Seq(L) /\ Len(Append(b, line)) = Len(b) + 1 /\ Len(b) \in Nat
          /\ Append(b, line)[Len(b) + 1] = line /\ \A i \in 1..Len(b) : Append(b, line)[i] = b[i]
      BY LinesGrow
    <2>2. WordsOf(Append(b, line), kind) =
            IF line.kind = kind THEN Append(WordsOf(b, kind), line.word) ELSE WordsOf(b, kind)
      BY <1>0
    <2>3. ASSUME \A i \in 1..Len(Append(b, line)) : Append(b, line)[i].kind # kind
          PROVE  WordsOf(Append(b, line), kind) = <<>>
      <3>1. Len(b) + 1 \in 1..(Len(b) + 1) /\ \A i \in 1..Len(b) : i \in 1..(Len(b) + 1)
        BY <2>1
      <3>2. line.kind # kind /\ \A i \in 1..Len(b) : b[i].kind # kind
        BY <2>1, <2>3, <3>1
      <3> QED
        BY <1>2, <2>2, <3>2
    <2> QED
      BY <2>1, <2>3
  <1> HIDE DEF P
  <1>3. block \in P
    BY <1>1, <1>2, AllSeq
  <1>4. \A line \in L : \A i \in 1..Len(block) : block[i].kind # kind
    BY BeganGrows
  <1>5. \A i \in 1..Len(block) : block[i].kind # kind
    <2>1. CASE L = {}
      BY <2>1
    <2>2. CASE L # {}
      BY <1>4, <2>2
    <2> QED
      BY <2>1, <2>2
  <1> QED
    BY <1>3, <1>5 DEF P

\* What an item or a subkey more makes of the value of a key
\* (parseYamlBlock).
LEMMA ValueGrows ==
    ASSUME NEW L, \A l \in L : l.kind \in {"item", "sub"},
           NEW block \in Seq(L), NEW line \in L, NEW head
    PROVE  /\ line.kind = "item" =>
                ValueOf(head, Append(block, line)) =
                  IF Began(block, "item") = 0 THEN [kind |-> "array", of |-> <<line.word>>]
                  ELSE Grown(ValueOf(head, block), "array", line.word)
           /\ line.kind = "sub" =>
                ValueOf(head, Append(block, line)) =
                  IF Began(block, "sub") = 0 THEN [kind |-> "object", of |-> <<line.word>>]
                  ELSE Grown(ValueOf(head, block), "object", line.word)
  <1>0. \A kind : \A s \in Seq(L), x \in L :
          WordsOf(Append(s, x), kind) =
            IF x.kind = kind THEN Append(WordsOf(s, kind), x.word) ELSE WordsOf(s, kind)
    BY WordsGrow, Zenon
  <1> DEFINE r == Append(block, line)
             a == Began(block, "item")  b == Began(block, "sub")
             c == Began(r, "item")      d == Began(r, "sub")
             ai == WordsOf(block, "item")  bs == WordsOf(block, "sub")
             ci == WordsOf(r, "item")      ds == WordsOf(r, "sub")
             v == ValueOf(head, block)  w == ValueOf(head, r)
  <1>1. /\ a \in 0..Len(block) /\ b \in 0..Len(block) /\ Len(block) \in Nat
        /\ c = IF a # 0 THEN a ELSE IF line.kind = "item" THEN Len(block) + 1 ELSE 0
        /\ d = IF b # 0 THEN b ELSE IF line.kind = "sub" THEN Len(block) + 1 ELSE 0
    BY BeganGrows
  <1>2. ci = (IF line.kind = "item" THEN Append(ai, line.word) ELSE ai)
        /\ ds = IF line.kind = "sub" THEN Append(bs, line.word) ELSE bs
    BY <1>0
  <1>3. (a = 0 => ai = <<>>) /\ (b = 0 => bs = <<>>)
    BY NoWords
  <1>4. r # <<>> /\ (a # 0 \/ b # 0 => block # <<>>)
    <2>1. Len(r) = Len(block) + 1
      OBVIOUS
    <2>2. block = <<>> => Len(block) = 0
      OBVIOUS
    <2>3. r = <<>> => Len(r) = 0
      OBVIOUS
    <2> HIDE DEF r, a, b
    <2> QED
      BY <1>1, <2>1, <2>2, <2>3
  <1>5. /\ w = IF c > d THEN [kind |-> "array", of |-> ci] ELSE [kind |-> "object", of |-> ds]
        /\ block # <<>> => v = IF a > b THEN [kind |-> "array", of |-> ai] ELSE [kind |-> "object", of |-> bs]
    <2>1. w = IF c > d THEN [kind |-> "array", of |-> ci] ELSE [kind |-> "object", of |-> ds]
      BY <1>4 DEF ValueOf
    <2>2. block # <<>> => v = IF a > b THEN [kind |-> "array", of |-> ai] ELSE [kind |-> "object", of |-> bs]
      BY DEF ValueOf
    <2> QED
      BY <2>1, <2>2
  <1> HIDE DEF r, a, b, c, d, ai, bs, ci, ds, v, w
  <1>6. /\ \A s, x : Grown([kind |-> "array", of |-> s], "array", x) = [kind |-> "array", of |-> Append(s, x)]
        /\ \A s, x : Grown([kind |-> "object", of |-> s], "array", x) = [kind |-> "object", of |-> s]
        /\ \A s, x : Grown([kind |-> "object", of |-> s], "object", x) = [kind |-> "object", of |-> Append(s, x)]
        /\ \A s, x : Grown([kind |-> "array", of |-> s], "object", x) = [kind |-> "array", of |-> s]
    BY DEF Grown
  <1>7. Append(<<>>, line.word) = <<line.word>>
    OBVIOUS
  <1>8. ASSUME line.kind = "item"
        PROVE  w = IF a = 0 THEN [kind |-> "array", of |-> <<line.word>>] ELSE Grown(v, "array", line.word)
    <2>1. CASE a = 0
      <3>1. c > d
        BY <1>1, <1>8, <2>1
      <3>2. ci = <<line.word>>
        BY <1>2, <1>3, <1>7, <1>8, <2>1
      <3> QED
        BY <1>5, <2>1, <3>1, <3>2
    <2>2. CASE a # 0 /\ a > b
      <3>1. c > d /\ ci = Append(ai, line.word) /\ v = [kind |-> "array", of |-> ai]
        BY <1>1, <1>2, <1>4, <1>5, <1>8, <2>2
      <3>2. w = [kind |-> "array", of |-> Append(ai, line.word)]
        BY <1>5, <3>1
      <3> QED
        BY <1>6, <2>2, <3>1, <3>2
    <2>3. CASE a # 0 /\ ~(a > b)
      <3>1. ~(c > d) /\ ds = bs /\ v = [kind |-> "object", of |-> bs]
        BY <1>1, <1>2, <1>4, <1>5, <1>8, <2>3
      <3>2. w = [kind |-> "object", of |-> bs]
        BY <1>5, <3>1
      <3> QED
        BY <1>6, <2>3, <3>1, <3>2
    <2> QED
      BY <2>1, <2>2, <2>3
  <1>9. ASSUME line.kind = "sub"
        PROVE  w = IF b = 0 THEN [kind |-> "object", of |-> <<line.word>>] ELSE Grown(v, "object", line.word)
    <2>1. CASE b = 0
      <3>1. ~(c > d)
        BY <1>1, <1>9, <2>1
      <3>2. ds = <<line.word>>
        BY <1>2, <1>3, <1>7, <1>9, <2>1
      <3> QED
        BY <1>5, <2>1, <3>1, <3>2
    <2>2. CASE b # 0 /\ a > b
      <3>1. c > d /\ ci = ai /\ v = [kind |-> "array", of |-> ai]
        BY <1>1, <1>2, <1>4, <1>5, <1>9, <2>2
      <3>2. w = [kind |-> "array", of |-> ai]
        BY <1>5, <3>1
      <3> QED
        BY <1>6, <2>2, <3>1, <3>2
    <2>3. CASE b # 0 /\ ~(a > b)
      <3>1. ~(c > d) /\ ds = Append(bs, line.word) /\ v = [kind |-> "object", of |-> bs]
        BY <1>1, <1>2, <1>4, <1>5, <1>9, <2>3
      <3>2. w = [kind |-> "object", of |-> Append(bs, line.word)]
        BY <1>5, <3>1
      <3> QED
        BY <1>6, <2>3, <3>1, <3>2
    <2> QED
      BY <2>1, <2>2, <2>3
  <1> QED
    BY <1>8, <1>9 DEF r, a, b, v, w

Spoken(block) == {i \in DOMAIN block : block[i].kind # "bare"}

BareUpTo(block, end) == {i \in 1..end : block[i].kind = "bare"} \cup {0}

\* The lines of a block since its last bare one.
CurrentRun(block) ==
  IF block # <<>> /\ block[Len(block)].kind = "bare" THEN <<>> ELSE LastRun(block)

\* The last bare line up to a place, or none.
LEMMA BareIs ==
    ASSUME NEW block, NEW end \in Nat
    PROVE  /\ Max(BareUpTo(block, end)) \in BareUpTo(block, end)
           /\ Max(BareUpTo(block, end)) \in 0..end
           /\ \A y \in BareUpTo(block, end) : Max(BareUpTo(block, end)) >= y
  <1> DEFINE T == BareUpTo(block, end)
  <1>1. T \subseteq 0..end /\ T \subseteq Int /\ T # {}
    BY DEF BareUpTo
  <1> HIDE DEF T
  <1>2. PICK x \in T : \A y \in T : y <= x
    BY <1>1, GreatestOf
  <1>3. \A y \in T : x >= y
    BY <1>1, <1>2
  <1>4. Max(T) = x
    BY <1>1, <1>3, ExtremeIs
  <1> QED
    BY <1>1, <1>3, <1>4 DEF T

\* What counts of a block when it has a line more: a bare line leaves it, another
\* joins the lines since the last bare one (parseYamlBlock).
LEMMA RunGrows ==
    ASSUME NEW L, NEW block \in Seq(L), NEW line \in L
    PROVE  /\ LastRun(<<>>) = <<>>
           /\ LastRun(block) \in Seq({l \in L : l.kind # "bare"})
           /\ line.kind = "bare" => LastRun(Append(block, line)) = LastRun(block)
           /\ line.kind # "bare" => LastRun(Append(block, line)) = Append(CurrentRun(block), line)
           /\ CurrentRun(Append(block, line)) =
                IF line.kind = "bare" THEN <<>> ELSE LastRun(Append(block, line))
  <1> DEFINE n == Len(block)
             r == Append(block, line)
             m == Max(Spoken(block))
             M == {l \in L : l.kind # "bare"}
  <1>1. /\ n \in Nat /\ DOMAIN block = 1..n /\ r \in Seq(L) /\ Len(r) = n + 1
        /\ DOMAIN r = (1..n) \cup {n + 1} /\ r[n + 1] = line
        /\ \A i \in 1..n : r[i] = block[i] /\ block[i] \in L
    BY LinesGrow
  <1>2. \A b : LastRun(b) =
          IF Spoken(b) = {} THEN <<>> ELSE SubSeq(b, Max(BareUpTo(b, Max(Spoken(b)))) + 1, Max(Spoken(b)))
    BY Zenon DEF LastRun, Spoken, BareUpTo
  <1>3. LastRun(<<>>) = <<>>
    <2>1. Spoken(<<>>) = {}
      BY DEF Spoken
    <2> QED
      BY <1>2, <2>1
  <1>4. Spoken(block) \subseteq 1..n /\ Spoken(r) = Spoken(block) \cup IF line.kind # "bare" THEN {n + 1} ELSE {}
    <2> HIDE DEF n, r
    <2> QED
      BY <1>1 DEF Spoken
  <1>5. Spoken(block) # {} => m \in Spoken(block) /\ m \in 1..n /\ \A y \in Spoken(block) : m >= y
    BY <1>1, <1>4, LastPlace
  <1>6. r # <<>> /\ r[Len(r)] = line
    BY <1>1
  <1>7. \A end \in 0..n : BareUpTo(r, end) = BareUpTo(block, end)
    <2> SUFFICES ASSUME NEW end \in 0..n PROVE BareUpTo(r, end) = BareUpTo(block, end)
      OBVIOUS
    <2>1. \A i \in 1..end : r[i] = block[i]
      <3>1. \A i \in 1..end : i \in 1..n
        BY <1>1
      <3> QED
        BY <1>1, <3>1
    <2> HIDE DEF r
    <2> QED
      BY <2>1 DEF BareUpTo
  <1> HIDE DEF n, r, m
  <1>8. LastRun(block) \in Seq(M)
    <2>1. CASE Spoken(block) = {}
      <3>1. LastRun(block) = <<>>
        BY <1>2, <2>1
      <3> HIDE DEF M
      <3>2. <<>> \in Seq(M)
        OBVIOUS
      <3> QED
        BY <3>1, <3>2
    <2>2. CASE Spoken(block) # {}
      <3> DEFINE from == Max(BareUpTo(block, m)) + 1
      <3>1. m \in 1..n /\ m \in Nat
        BY <1>1, <1>5, <2>2
      <3>2. /\ Max(BareUpTo(block, m)) \in 0..m
            /\ \A y \in BareUpTo(block, m) : Max(BareUpTo(block, m)) >= y
        BY <3>1, BareIs
      <3>3. from \in Nat /\ from >= 1 /\ \A y \in BareUpTo(block, m) : y < from
        <4>1. \A y \in BareUpTo(block, m) : y \in Int
          BY <3>1 DEF BareUpTo
        <4> QED
          BY <3>2, <4>1
      <3>4. LastRun(block) = SubSeq(block, from, m)
        BY <1>2, <2>2 DEF m
      <3> HIDE DEF from
      <3>5. \A i \in from..m : i \in 1..n /\ i \in 1..m /\ i >= from
        BY <1>1, <3>1, <3>3
      <3>6. \A i \in from..m : block[i] \in M
        <4>1. \A i \in from..m : i \notin BareUpTo(block, m)
          <5>1. ASSUME NEW i \in from..m, i \in BareUpTo(block, m) PROVE FALSE
            <6>1. i < from /\ i >= from /\ i \in Int
              BY <3>3, <3>5, <5>1
            <6> QED
              BY <3>3, <6>1
          <5> QED
            BY <5>1
        <4> QED
          BY <1>1, <3>5, <4>1 DEF BareUpTo
      <3>7. from \in Int /\ m \in Int
        BY <3>1, <3>3
      <3>8. \A i \in from..m : i \in 1..n
        BY <3>5
      <3>9. Len(SubSeq(block, from, m)) \in Nat /\ SubSeq(block, from, m) \in Seq(L)
            /\ \A i \in 1..Len(SubSeq(block, from, m)) :
                 from + i - 1 \in from..m /\ SubSeq(block, from, m)[i] = block[from + i - 1]
        BY <1>1, <3>7, <3>8, SubSeqProperties DEF n
      <3> DEFINE run == SubSeq(block, from, m)
      <3> HIDE DEF run
      <3>10. run \in Seq(L) /\ \A i \in 1..Len(run) : run[i] \in M
        BY <3>6, <3>9 DEF run
      <3>11. run \in Seq(M)
        <4>1. Len(run) \in Nat /\ run = [i \in 1..Len(run) |-> run[i]]
          BY <3>10
        <4>2. run \in [1..Len(run) -> M]
          BY <3>10, <4>1
        <4> QED
          BY <4>1, <4>2
      <3> QED
        BY <3>4, <3>11 DEF run
    <2> QED
      BY <2>1, <2>2
  <1>9. ASSUME line.kind = "bare" PROVE LastRun(r) = LastRun(block)
    <2>1. Spoken(r) = Spoken(block)
      BY <1>4, <1>9
    <2>2. CASE Spoken(block) = {}
      BY <1>2, <2>1, <2>2
    <2>3. CASE Spoken(block) # {}
      <3>1. m \in 1..n /\ m \in 0..n /\ m \in Nat
        BY <1>1, <1>5, <2>3
      <3> DEFINE from == Max(BareUpTo(block, m)) + 1
      <3>2. LastRun(r) = SubSeq(r, from, m) /\ LastRun(block) = SubSeq(block, from, m)
        BY <1>2, <1>7, <2>1, <2>3, <3>1 DEF m
      <3>3. from \in Nat /\ from >= 1
        <4>1. Max(BareUpTo(block, m)) \in 0..m
          BY <3>1, BareIs
        <4> QED
          BY <3>1, <4>1
      <3> HIDE DEF from
      <3>4. \A i \in from..m : i \in 1..n
        BY <1>1, <3>1, <3>3
      <3>5. SubSeq(r, from, m) = SubSeq(block, from, m)
        BY <1>1, <3>1, <3>3, <3>4 DEF r, n
      <3> QED
        BY <3>2, <3>5
    <2> QED
      BY <2>2, <2>3
  <1>10. ASSUME line.kind # "bare" PROVE LastRun(r) = Append(CurrentRun(block), line)
    <2> DEFINE from == Max(BareUpTo(block, n)) + 1
    <2>1. Max(Spoken(r)) = n + 1 /\ Spoken(r) # {}
      <3>1. n + 1 \in Spoken(r) /\ Spoken(r) \subseteq Int /\ \A y \in Spoken(r) : n + 1 >= y
        BY <1>1, <1>4, <1>10
      <3> QED
        BY <3>1, ExtremeIs
    <2>2. BareUpTo(r, n + 1) = BareUpTo(block, n)
      <3>1. 1..(n + 1) = (1..n) \cup {n + 1}
        BY <1>1
      <3>2. BareUpTo(r, n + 1) = {i \in 1..n : r[i].kind = "bare"} \cup {0}
        BY <1>1, <1>10, <3>1 DEF BareUpTo
      <3> QED
        BY <1>1, <3>2 DEF BareUpTo
    <2>3. LastRun(r) = SubSeq(r, from, n + 1)
      BY <1>2, <2>1, <2>2
    <2>4. from \in Nat /\ from >= 1 /\ from <= n + 1 /\ from - 1 = Max(BareUpTo(block, n))
      <3>1. Max(BareUpTo(block, n)) \in 0..n
        BY <1>1, BareIs
      <3> QED
        BY <1>1, <3>1
    <2>5. CurrentRun(block) = SubSeq(block, from, n)
      <3>1. CASE block = <<>>
        <4>1. n = 0
          BY <3>1 DEF n
        <4>2. from = 1
          BY <2>4, <4>1
        <4> HIDE DEF from
        <4>3. SubSeq(block, from, n) = <<>>
          BY <3>1, <4>1, <4>2
        <4> QED
          BY <1>3, <3>1, <4>3 DEF CurrentRun
      <3>2. CASE block # <<>> /\ block[n].kind = "bare"
        <4>1. n \in 1..n
          BY <1>1, <3>2 DEF n
        <4>2. n \in BareUpTo(block, n)
          BY <3>2, <4>1 DEF BareUpTo
        <4>3. Max(BareUpTo(block, n)) >= n
          BY <1>1, <4>2, BareIs
        <4>4. from = n + 1
          BY <1>1, <2>4, <4>3
        <4> HIDE DEF from
        <4>5. SubSeq(block, from, n) = <<>>
          BY <1>1, <4>4
        <4> QED
          BY <3>2, <4>5 DEF CurrentRun, n
      <3>3. CASE block # <<>> /\ block[n].kind # "bare"
        <4>1. n \in 1..n
          BY <1>1, <3>3 DEF n
        <4>2. n \in Spoken(block)
          BY <1>1, <3>3, <4>1 DEF Spoken
        <4>3. m = n
          <5>1. m >= n /\ m \in 1..n
            BY <1>5, <4>2
          <5> QED
            BY <1>1, <5>1
        <4>4. LastRun(block) = SubSeq(block, from, n)
          BY <1>2, <4>2, <4>3 DEF m
        <4> QED
          BY <3>3, <4>4 DEF CurrentRun, n
      <3> QED
        BY <3>1, <3>2, <3>3
    <2> HIDE DEF from
    <2>6. SubSeq(r, from, n + 1) = Append(SubSeq(block, from, n), line)
      BY <1>1, <2>4 DEF r, n
    <2> QED
      BY <2>3, <2>5, <2>6
  <1>11. CurrentRun(r) = IF line.kind = "bare" THEN <<>> ELSE LastRun(r)
    BY <1>6 DEF CurrentRun
  <1> QED
    BY <1>3, <1>8, <1>9, <1>10, <1>11 DEF r

\* v is what a key is worth after these lines.
Worth(lines, k, v) ==
  LET starts == StartsOf(lines, k)
      start == Max(starts)
  IN v = IF starts = {} THEN None ELSE ValueOf(lines[start], LastRun(BlockAfter(lines, start)))

\* What a line more makes of what a key is worth: a line of its own that it begins
\* anew, a line below it that it grows, another key's lines nothing.
LEMMA WorthGrows ==
    ASSUME NEW L, NEW lines \in Seq(L), NEW line \in L, NEW k, NEW v, Worth(lines, k, v),
           NEW last, last = Max(KeysAt(lines))
    PROVE  /\ line.kind = "key" /\ line.key = k => Worth(Append(lines, line), k, ValueOf(line, <<>>))
           /\ line.kind = "key" /\ line.key # k => Worth(Append(lines, line), k, v)
           /\ line.kind # "key" /\ (KeysAt(lines) = {} \/ lines[last].key # k) =>
                Worth(Append(lines, line), k, v)
           /\ line.kind # "key" /\ KeysAt(lines) # {} /\ lines[last].key = k =>
                /\ v = ValueOf(lines[last], LastRun(BlockAfter(lines, last)))
                /\ Worth(Append(lines, line), k,
                         ValueOf(lines[last], LastRun(Append(BlockAfter(lines, last), line))))
  <1> DEFINE n == Len(lines)
             r == Append(lines, line)
             S == StartsOf(lines, k)
             T == StartsOf(r, k)
             K == KeysAt(lines)
  <1>1. /\ n \in Nat /\ DOMAIN lines = 1..n /\ DOMAIN r = (1..n) \cup {n + 1} /\ r[n + 1] = line
        /\ \A i \in 1..n : r[i] = lines[i]
    BY LinesGrow
  <1>2. T = S \cup IF line.kind = "key" /\ line.key = k THEN {n + 1} ELSE {}
    <2> HIDE DEF r, n
    <2> QED
      BY <1>1 DEF StartsOf
  <1>3. S \subseteq K /\ K \subseteq 1..n /\ \A i \in K : i \in S <=> lines[i].key = k
    BY <1>1 DEF StartsOf, KeysAt
  <1>4. v = IF S = {} THEN None ELSE ValueOf(lines[Max(S)], LastRun(BlockAfter(lines, Max(S))))
    BY DEF Worth
  <1>5. \A u : Worth(r, k, u) <=> u = IF T = {} THEN None ELSE ValueOf(r[Max(T)], LastRun(BlockAfter(r, Max(T))))
    BY DEF Worth
  <1>6. \A start \in 0..n :
          /\ BlockAfter(r, n + 1) = <<>>
          /\ BlockAfter(r, start) = IF line.kind = "key" \/ \E i \in K : i > start
                                      THEN BlockAfter(lines, start) ELSE Append(BlockAfter(lines, start), line)
    BY BlockGrows
  <1>7. BlockAfter(r, n + 1) = <<>>
    <2>1. 0 \in 0..n
      BY <1>1
    <2> QED
      BY <1>6, <2>1
  <1>8. S # {} => Max(S) \in S /\ \A y \in S : Max(S) >= y
    BY <1>1, <1>3, LastPlace
  <1>9. K # {} => last \in K /\ \A y \in K : last >= y
    BY <1>1, <1>3, LastPlace
  <1>14. \A start \in 1..n : start \in 0..n
    BY <1>1
  <1>15. LastRun(<<>>) = <<>>
    BY RunGrows
  <1> HIDE DEF n, r, S, T, K
  <1>10. ASSUME line.kind = "key", line.key = k PROVE Worth(r, k, ValueOf(line, <<>>))
    <2>1. n + 1 \in T /\ T \subseteq Int /\ \A y \in T : n + 1 >= y
      BY <1>1, <1>2, <1>3, <1>10
    <2>2. Max(T) = n + 1 /\ T # {}
      BY <2>1, ExtremeIs
    <2> QED
      BY <1>1, <1>5, <1>7, <1>15, <2>2
  <1>11. ASSUME line.kind = "key", line.key # k PROVE Worth(r, k, v)
    <2>1. T = S
      BY <1>2, <1>11
    <2>2. CASE S = {}
      BY <1>4, <1>5, <2>1, <2>2
    <2>3. CASE S # {}
      <3>1. Max(S) \in 1..n
        BY <1>3, <1>8, <2>3
      <3>2. BlockAfter(r, Max(S)) = BlockAfter(lines, Max(S)) /\ r[Max(S)] = lines[Max(S)]
        BY <1>1, <1>6, <1>11, <1>14, <3>1
      <3> QED
        BY <1>4, <1>5, <2>1, <2>3, <3>2
    <2> QED
      BY <2>2, <2>3
  <1>12. ASSUME line.kind # "key", K = {} \/ lines[last].key # k PROVE Worth(r, k, v)
    <2>1. T = S
      BY <1>2, <1>12
    <2>2. CASE S = {}
      BY <1>4, <1>5, <2>1, <2>2
    <2>3. CASE S # {}
      <3>1. Max(S) \in 1..n /\ Max(S) \in K /\ lines[Max(S)].key = k
        BY <1>3, <1>8, <2>3
      <3>2. last \in K /\ last > Max(S)
        <4>1. last \in K /\ last >= Max(S) /\ last # Max(S)
          BY <1>9, <1>12, <3>1
        <4>2. last \in Int /\ Max(S) \in Int
          BY <1>1, <1>3, <3>1, <4>1
        <4> QED
          BY <4>1, <4>2
      <3>3. BlockAfter(r, Max(S)) = BlockAfter(lines, Max(S)) /\ r[Max(S)] = lines[Max(S)]
        BY <1>1, <1>6, <1>14, <3>1, <3>2
      <3> QED
        BY <1>4, <1>5, <2>1, <2>3, <3>3
    <2> QED
      BY <2>2, <2>3
  <1>13. ASSUME line.kind # "key", K # {}, lines[last].key = k
         PROVE  /\ v = ValueOf(lines[last], LastRun(BlockAfter(lines, last)))
                /\ Worth(r, k, ValueOf(lines[last], LastRun(Append(BlockAfter(lines, last), line))))
    <2>1. T = S
      BY <1>2, <1>13
    <2>2. last \in S /\ S \subseteq Int /\ (\A y \in S : last >= y) /\ last \in 1..n
      <3>1. last \in K /\ \A y \in K : last >= y
        BY <1>9, <1>13
      <3>2. last \in S /\ S \subseteq K /\ last \in 1..n
        BY <1>3, <1>13, <3>1
      <3> QED
        BY <1>1, <1>3, <3>1, <3>2
    <2>3. Max(S) = last /\ S # {}
      BY <2>2, ExtremeIs
    <2>4. ~\E i \in K : i > last
      <3>1. \A i \in K : i \in Int /\ last \in Int /\ last >= i
        BY <1>1, <1>3, <1>9, <1>13, <2>2
      <3> QED
        BY <3>1
    <2>5. BlockAfter(r, last) = Append(BlockAfter(lines, last), line) /\ r[last] = lines[last]
      BY <1>1, <1>6, <1>13, <1>14, <2>2, <2>4
    <2> QED
      BY <1>4, <1>5, <2>1, <2>3, <2>5
  <1> QED
    BY <1>10, <1>11, <1>12, <1>13 DEF r, K
-----------------------------------------------------------------------------
(* The texts of skills: a manifest                                         *)

SectionType == [heading : BodyLines \cup {None}, content : Seq(BodyLines)]

BodyWords == {l.word : l \in BodyLines}

Flat(sections) == FlattenSeq([i \in DOMAIN sections |-> LinesOf(sections[i])])

HeadingsAt(lines) == {j \in DOMAIN lines : lines[j].kind = "heading"}

\* A section of the text is lines of it, and its rules are words.
LEMMA SectionIs ==
    ASSUME NEW s \in SectionType
    PROVE  LinesOf(s) \in Seq(BodyLines) /\ RulesOf(s) \in Seq(BodyWords)
  <1>1. s.heading \in BodyLines \cup {None} /\ s.content \in Seq(BodyLines)
    BY DEF SectionType
  <1>2. \A h \in BodyLines : <<h>> \in Seq(BodyLines)
    OBVIOUS
  <1>3. \A c \in Seq(BodyLines) : WordsOf(c, "bullet") \in Seq({l.word : l \in BodyLines})
    BY WordsGrow, Zenon
  <1>4. <<>> \in Seq(BodyLines) /\ <<>> \in Seq(BodyWords)
    OBVIOUS
  <1>5. LinesOf(s) \in Seq(BodyLines)
    <2> DEFINE head == IF s.heading = None THEN <<>> ELSE <<s.heading>>
    <2>1. head \in Seq(BodyLines)
      BY <1>1, <1>2, <1>4
    <2>2. LinesOf(s) = head \o s.content
      BY DEF LinesOf
    <2> HIDE DEF head
    <2> QED
      BY <1>1, <2>1, <2>2, ConcatProperties
  <1>6. RulesOf(s) \in Seq(BodyWords)
    <2>1. WordsOf(s.content, "bullet") \in Seq(BodyWords)
      BY <1>1, <1>3 DEF BodyWords
    <2> QED
      BY <1>4, <2>1 DEF RulesOf
  <1> QED
    BY <1>5, <1>6

\* What one section more adds to the lines and to the rules of a text.
LEMMA SectionsGrow ==
    ASSUME NEW sections \in Seq(SectionType)
    PROVE  /\ Flat(<<>>) = <<>> /\ ExtractRules(<<>>) = <<>>
           /\ Flat(sections) \in Seq(BodyLines) /\ ExtractRules(sections) \in Seq(BodyWords)
           /\ \A s \in SectionType :
                /\ Flat(Append(sections, s)) = Flat(sections) \o LinesOf(s)
                /\ ExtractRules(Append(sections, s)) = ExtractRules(sections) \o RulesOf(s)
  <1> DEFINE rows(q) == [i \in DOMAIN q |-> LinesOf(q[i])]
             rules(q) == [i \in DOMAIN q |-> RulesOf(q[i])]
  <1>1. ASSUME NEW q \in Seq(SectionType)
        PROVE  rows(q) \in Seq(Seq(BodyLines)) /\ rules(q) \in Seq(Seq(BodyWords))
    <2>1. \A i \in 1..Len(q) : q[i] \in SectionType
      OBVIOUS
    <2>2. \A i \in 1..Len(q) : LinesOf(q[i]) \in Seq(BodyLines) /\ RulesOf(q[i]) \in Seq(BodyWords)
      BY <2>1, SectionIs
    <2>3. Len(q) \in Nat /\ DOMAIN q = 1..Len(q)
      OBVIOUS
    <2> QED
      BY <2>2, <2>3
  <1>2. ASSUME NEW s \in SectionType
        PROVE  /\ rows(Append(sections, s)) = Append(rows(sections), LinesOf(s))
               /\ rules(Append(sections, s)) = Append(rules(sections), RulesOf(s))
    <2> DEFINE r == Append(sections, s)  n == Len(sections)
    <2>1. /\ r \in Seq(SectionType) /\ n \in Nat /\ DOMAIN sections = 1..n /\ DOMAIN r = 1..(n + 1) /\ r[n + 1] = s
          /\ \A i \in 1..n : r[i] = sections[i]
      OBVIOUS
    <2> HIDE DEF r, n
    <2>2. rows(r) = Append(rows(sections), LinesOf(s))
      <3>1. rows(sections) \in Seq(Seq(BodyLines)) /\ Len(rows(sections)) = n
        <4>1. rows(sections) = [i \in 1..n |-> LinesOf(sections[i])]
          BY <2>1
        <4>2. rows(sections) \in Seq(Seq(BodyLines))
          BY <1>1
        <4> HIDE DEF rows
        <4> QED
          BY <2>1, <4>1, <4>2
      <3>2. /\ DOMAIN Append(rows(sections), LinesOf(s)) = 1..(n + 1)
            /\ Append(rows(sections), LinesOf(s))[n + 1] = LinesOf(s)
            /\ \A i \in 1..n : Append(rows(sections), LinesOf(s))[i] = LinesOf(sections[i])
        BY <2>1, <3>1
      <3>3. ASSUME NEW i \in 1..(n + 1) PROVE LinesOf(r[i]) = Append(rows(sections), LinesOf(s))[i]
        <4>1. i \in 1..n \/ i = n + 1
          BY <2>1
        <4> QED
          BY <2>1, <3>2, <4>1
      <3>4. Append(rows(sections), LinesOf(s)) =
              [i \in 1..(n + 1) |-> Append(rows(sections), LinesOf(s))[i]]
        BY <3>1, <3>2
      <3> QED
        BY <2>1, <3>3, <3>4
    <2>3. rules(r) = Append(rules(sections), RulesOf(s))
      <3>1. rules(sections) \in Seq(Seq(BodyWords)) /\ Len(rules(sections)) = n
        <4>1. rules(sections) = [i \in 1..n |-> RulesOf(sections[i])]
          BY <2>1
        <4>2. rules(sections) \in Seq(Seq(BodyWords))
          BY <1>1
        <4> HIDE DEF rules
        <4> QED
          BY <2>1, <4>1, <4>2
      <3>2. /\ DOMAIN Append(rules(sections), RulesOf(s)) = 1..(n + 1)
            /\ Append(rules(sections), RulesOf(s))[n + 1] = RulesOf(s)
            /\ \A i \in 1..n : Append(rules(sections), RulesOf(s))[i] = RulesOf(sections[i])
        BY <2>1, <3>1
      <3>3. ASSUME NEW i \in 1..(n + 1) PROVE RulesOf(r[i]) = Append(rules(sections), RulesOf(s))[i]
        <4>1. i \in 1..n \/ i = n + 1
          BY <2>1
        <4> QED
          BY <2>1, <3>2, <4>1
      <3>4. Append(rules(sections), RulesOf(s)) =
              [i \in 1..(n + 1) |-> Append(rules(sections), RulesOf(s))[i]]
        BY <3>1, <3>2
      <3> QED
        BY <2>1, <3>3, <3>4
    <2> QED
      BY <2>2, <2>3 DEF r
  <1>3. \A q : Flat(q) = FlattenSeq(rows(q)) /\ ExtractRules(q) = FlattenSeq(rules(q))
    BY DEF Flat, ExtractRules
  <1>4. rows(<<>>) = <<>> /\ rules(<<>>) = <<>>
    OBVIOUS
  <1> HIDE DEF rows, rules
  <1>5. Flat(<<>>) = <<>> /\ ExtractRules(<<>>) = <<>>
    <2>1. FlattenSeq(<<>>) = <<>>
      BY FlattenGrows, Zenon
    <2> QED
      BY <1>3, <1>4, <2>1, Zenon
  <1>6. Flat(sections) \in Seq(BodyLines) /\ ExtractRules(sections) \in Seq(BodyWords)
    BY <1>1, <1>3, FlattenGrows
  <1>7. ASSUME NEW s \in SectionType
        PROVE  /\ Flat(Append(sections, s)) = Flat(sections) \o LinesOf(s)
               /\ ExtractRules(Append(sections, s)) = ExtractRules(sections) \o RulesOf(s)
    <2>1. LinesOf(s) \in Seq(BodyLines) /\ RulesOf(s) \in Seq(BodyWords)
      BY SectionIs
    <2>2. rows(sections) \in Seq(Seq(BodyLines)) /\ rules(sections) \in Seq(Seq(BodyWords))
      BY <1>1
    <2>3. FlattenSeq(Append(rows(sections), LinesOf(s))) = FlattenSeq(rows(sections)) \o LinesOf(s)
      BY <2>1, <2>2, FlattenGrows
    <2>4. FlattenSeq(Append(rules(sections), RulesOf(s))) = FlattenSeq(rules(sections)) \o RulesOf(s)
      BY <2>1, <2>2, FlattenGrows
    <2> QED
      BY <1>2, <1>3, <2>3, <2>4
  <1> QED
    BY <1>5, <1>6, <1>7

\* The rules of a text, when one line more is there.
LEMMA RulesUnderGrow ==
    ASSUME NEW lines \in Seq(BodyLines), NEW line \in BodyLines
    PROVE  /\ RulesUnder(<<>>) = <<>>
           /\ RulesUnder(Append(lines, line)) =
                IF line.kind = "bullet" /\ HeadingsAt(lines) # {} /\ lines[Max(HeadingsAt(lines))].rules
                  THEN Append(RulesUnder(lines), line.word) ELSE RulesUnder(lines)
  <1> DEFINE other == [kind |-> "other"]
             Above(q, i) == {j \in 1..i : q[j].kind = "heading"}
             Under(q, i) == Above(q, i) # {} /\ q[Max(Above(q, i))].rules
             marked(q) == [i \in DOMAIN q |-> IF Under(q, i) THEN q[i] ELSE other]
             L == BodyLines \cup {other}
             r == Append(lines, line)
             n == Len(lines)
  <1>1. \A q : RulesUnder(q) = WordsOf(marked(q), "bullet")
    BY DEF RulesUnder
  <1>2. \A q \in Seq(L), x \in L :
          WordsOf(Append(q, x), "bullet") =
            IF x.kind = "bullet" THEN Append(WordsOf(q, "bullet"), x.word) ELSE WordsOf(q, "bullet")
    BY WordsGrow, Zenon
  <1>3. RulesUnder(<<>>) = <<>>
    <2>1. marked(<<>>) = <<>>
      OBVIOUS
    <2>2. WordsOf(<<>>, "bullet") = <<>>
      BY WordsGrow, Zenon
    <2> HIDE DEF marked
    <2> QED
      BY <1>1, <2>1, <2>2, Zenon
  <1>4. /\ n \in Nat /\ DOMAIN lines = 1..n /\ DOMAIN r = (1..n) \cup {n + 1} /\ r[n + 1] = line
        /\ \A i \in 1..n : r[i] = lines[i] /\ lines[i] \in BodyLines
    BY LinesGrow
  <1>5. other.kind # "bullet" /\ other \in L
    OBVIOUS
  <1> HIDE DEF other, r, n
  <1>6. \A i \in 1..n : Under(r, i) <=> Under(lines, i)
    <2>1. ASSUME NEW i \in 1..n PROVE Under(r, i) <=> Under(lines, i)
      <3>1. \A j \in 1..i : j \in 1..n
        BY <1>4
      <3>2. Above(r, i) = Above(lines, i) /\ Above(lines, i) \subseteq 1..i
        BY <1>4, <3>1
      <3>3. Above(lines, i) # {} => Max(Above(lines, i)) \in Above(lines, i)
        <4>1. i \in Nat
          BY <1>4
        <4> QED
          BY <3>2, <4>1, LastPlace
      <3> DEFINE m == Max(Above(lines, i))
      <3>4. Above(lines, i) # {} => m \in 1..n
        BY <3>1, <3>2, <3>3
      <3> QED
        BY <1>4, <3>2, <3>4
    <2> QED
      BY <2>1
  <1>7. line.kind = "bullet" =>
          (Under(r, n + 1) <=> HeadingsAt(lines) # {} /\ lines[Max(HeadingsAt(lines))].rules)
    <2> SUFFICES ASSUME line.kind = "bullet"
                 PROVE  Under(r, n + 1) <=> HeadingsAt(lines) # {} /\ lines[Max(HeadingsAt(lines))].rules
      OBVIOUS
    <2>1. Above(r, n + 1) = HeadingsAt(lines) /\ HeadingsAt(lines) \subseteq 1..n
      <3>1. \A j : j \in 1..(n + 1) <=> j \in 1..n \/ j = n + 1
        BY <1>4
      <3> QED
        BY <1>4, <3>1 DEF HeadingsAt
    <2>2. HeadingsAt(lines) # {} => Max(HeadingsAt(lines)) \in 1..n
      BY <1>4, <2>1, LastPlace
    <2> QED
      BY <1>4, <2>1, <2>2
  <1> DEFINE mark == IF Under(r, n + 1) THEN line ELSE other
  <1>8. marked(lines) \in Seq(L) /\ mark \in L /\ marked(r) = Append(marked(lines), mark)
    <2>1. marked(lines) \in Seq(L) /\ Len(marked(lines)) = n
      <3>1. marked(lines) = [i \in 1..n |-> IF Under(lines, i) THEN lines[i] ELSE other]
        BY <1>4
      <3>2. \A i \in 1..n : (IF Under(lines, i) THEN lines[i] ELSE other) \in L
        BY <1>4, <1>5
      <3> HIDE DEF Under, L, marked
      <3> QED
        BY <1>4, <3>1, <3>2
    <2>2. mark \in L
      <3> HIDE DEF Under
      <3> QED
        BY <1>5
    <2>3. marked(r) = [i \in 1..(n + 1) |-> IF i = n + 1 THEN mark ELSE marked(lines)[i]]
      <3>1. \A i : i \in 1..(n + 1) <=> i \in 1..n \/ i = n + 1
        BY <1>4
      <3>2. DOMAIN r = 1..(n + 1) /\ n + 1 \notin 1..n
        BY <1>4, <3>1
      <3>3. ASSUME NEW i \in 1..(n + 1)
            PROVE  (IF Under(r, i) THEN r[i] ELSE other) = IF i = n + 1 THEN mark ELSE marked(lines)[i]
        <4>1. CASE i = n + 1
          <5> HIDE DEF Under
          <5> QED
            BY <1>4, <4>1
        <4>2. CASE i \in 1..n
          <5>1. (Under(r, i) <=> Under(lines, i)) /\ r[i] = lines[i] /\ i # n + 1 /\ i \in DOMAIN lines
            BY <1>4, <1>6, <3>2, <4>2
          <5> HIDE DEF Under
          <5> QED
            BY <5>1
        <4> QED
          BY <3>1, <4>1, <4>2
      <3> HIDE DEF Under, mark
      <3> QED
        BY <3>2, <3>3
    <2> HIDE DEF marked, mark, L
    <2>4. Append(marked(lines), mark) = [i \in 1..(n + 1) |-> IF i = n + 1 THEN mark ELSE marked(lines)[i]]
      <3>1. ASSUME NEW a \in Seq(L), Len(a) = n, NEW x \in L
            PROVE  Append(a, x) = [i \in 1..(n + 1) |-> IF i = n + 1 THEN x ELSE a[i]]
        <4>1. Append(a, x) \in Seq(L) /\ Len(Append(a, x)) = n + 1
          BY <3>1
        <4>2. DOMAIN Append(a, x) = 1..(n + 1) /\ Append(a, x) = [i \in 1..(n + 1) |-> Append(a, x)[i]]
          <5>1. ASSUME NEW q \in Seq(L), Len(q) = n + 1
                PROVE  DOMAIN q = 1..(n + 1) /\ q = [i \in 1..(n + 1) |-> q[i]]
            <6>1. DOMAIN q = 1..Len(q) /\ q = [i \in 1..Len(q) |-> q[i]]
              OBVIOUS
            <6> QED
              BY <5>1, <6>1
          <5> QED
            BY <4>1, <5>1
        <4>3. \A i \in 1..(n + 1) : Append(a, x)[i] = IF i = n + 1 THEN x ELSE a[i]
          BY <1>4, <3>1
        <4> QED
          BY <4>2, <4>3
      <3> QED
        BY <2>1, <2>2, <3>1
    <2> QED
      BY <2>1, <2>2, <2>3, <2>4
  <1>9. WordsOf(marked(r), "bullet") =
          IF mark.kind = "bullet" THEN Append(WordsOf(marked(lines), "bullet"), mark.word)
          ELSE WordsOf(marked(lines), "bullet")
    <2> HIDE DEF marked, mark, L
    <2> QED
      BY <1>2, <1>8
  <1> HIDE DEF marked, Under, L
  <1>10. RulesUnder(r) = IF mark.kind = "bullet" THEN Append(RulesUnder(lines), mark.word) ELSE RulesUnder(lines)
    <2> HIDE DEF mark
    <2> QED
      BY <1>1, <1>9
  <1>11. CASE line.kind = "bullet"
    <2>1. CASE Under(r, n + 1)
      BY <1>3, <1>7, <1>10, <1>11, <2>1 DEF r
    <2>2. CASE ~Under(r, n + 1)
      BY <1>3, <1>5, <1>7, <1>10, <1>11, <2>2 DEF r
    <2> QED
      BY <2>1, <2>2
  <1>12. CASE line.kind # "bullet"
    <2>1. mark.kind # "bullet"
      BY <1>5, <1>12
    <2> QED
      BY <1>3, <1>10, <1>12, <2>1 DEF r
  <1> QED
    BY <1>11, <1>12

\* Each rule is a guideline, and once (parseSkillContent).
LEMMA GuidelinesAre ==
    ASSUME NEW S, NEW rules \in Seq(S)
    PROVE  ToSet(GuidelinesOf(rules)) = ToSet(rules) /\ IsInjective(GuidelinesOf(rules))
  <1>0. \A s \in Seq(S), x \in S :
          GuidelinesOf(Append(s, x)) =
            IF x \in ToSet(GuidelinesOf(s)) THEN GuidelinesOf(s) ELSE Append(GuidelinesOf(s), x)
    BY GuidelinesGrow, Zenon
  <1>1. \A s \in Seq(S) : GuidelinesOf(s) \in Seq(S)
    BY GuidelinesGrow, Zenon
  <1>2. ASSUME NEW s \in Seq(S), NEW x \in S
        PROVE  /\ ToSet(Append(s, x)) = ToSet(s) \cup {x}
               /\ x \notin ToSet(s) /\ IsInjective(s) => IsInjective(Append(s, x))
    <2> DEFINE r == Append(s, x)  n == Len(s)
    <2>1. /\ n \in Nat /\ DOMAIN s = 1..n /\ DOMAIN r = (1..n) \cup {n + 1} /\ r[n + 1] = x
          /\ \A i \in 1..n : r[i] = s[i]
      BY LinesGrow
    <2>2. n + 1 \notin 1..n
      BY <2>1
    <2> HIDE DEF r, n
    <2> QED
      BY <2>1, <2>2 DEF ToSet, IsInjective, r
  <1> DEFINE P == {s \in Seq(S) : ToSet(GuidelinesOf(s)) = ToSet(s) /\ IsInjective(GuidelinesOf(s))}
  <1>3. <<>> \in P
    <2>1. GuidelinesOf(<<>>) = <<>>
      BY GuidelinesGrow, Zenon
    <2>2. <<>> \in Seq(S) /\ IsInjective(<<>>)
      BY DEF IsInjective
    <2> QED
      BY <2>1, <2>2, Zenon
  <1>4. ASSUME NEW s \in Seq(S), NEW x \in S, s \in P PROVE Append(s, x) \in P
    <2> DEFINE g == GuidelinesOf(s)
    <2>1. g \in Seq(S) /\ ToSet(g) = ToSet(s) /\ IsInjective(g)
      BY <1>1, <1>4
    <2>2. GuidelinesOf(Append(s, x)) = IF x \in ToSet(g) THEN g ELSE Append(g, x)
      BY <1>0
    <2> HIDE DEF g
    <2>3. ToSet(Append(s, x)) = ToSet(g) \cup {x} /\ ToSet(Append(g, x)) = ToSet(g) \cup {x}
      BY <1>2, <2>1
    <2>4. x \notin ToSet(g) => IsInjective(Append(g, x))
      BY <1>2, <2>1
    <2>5. /\ ToSet(GuidelinesOf(Append(s, x))) = ToSet(Append(s, x))
          /\ IsInjective(GuidelinesOf(Append(s, x)))
      BY <2>1, <2>2, <2>3, <2>4
    <2>6. Append(s, x) \in Seq(S)
      OBVIOUS
    <2> QED
      BY <2>5, <2>6
  <1> HIDE DEF P
  <1>5. rules \in P
    BY <1>3, <1>4, AllSeq
  <1> QED
    BY <1>5 DEF P
-----------------------------------------------------------------------------
(* The texts of skills: what holds of them line by line                    *)

YamlFields == {"on", "lines", "key", "array", "nested", "result"}

\* What the parser knows, as a record.
YamlRecord(t) ==
  /\ DOMAIN t = YamlFields /\ t = [x \in YamlFields |-> t[x]]
  /\ DOMAIN t.result = Keys /\ t.result = [k \in Keys |-> t.result[k]]

BlockLines == {l \in YamlLines : l.kind # "key"}

\* The value of each key is that of its block so far, and the parser knows of the
\* block at hand whether it has seen an item and a subkey since its last bare line.
YamlInv ==
  /\ YamlRecord(text) /\ text.lines \in Seq(YamlLines)
  /\ \A k \in Keys : Worth(text.lines, k, text.result[k])
  /\ KeysAt(text.lines) = {} => text.key = None
  /\ KeysAt(text.lines) # {} =>
       LET last == Max(KeysAt(text.lines))
           block == BlockAfter(text.lines, last)
       IN /\ text.key = text.lines[last].key /\ block \in Seq(BlockLines)
          /\ text.array <=> Began(CurrentRun(block), "item") # 0
          /\ text.nested <=> Began(CurrentRun(block), "sub") # 0

BodyFields == {"on", "lines", "sections", "heading", "open"}

\* The sections and the one that is open are the lines so far.
BodyInv ==
  LET current == [heading |-> text.heading, content |-> text.open] IN
  /\ DOMAIN text = BodyFields /\ text = [x \in BodyFields |-> text[x]]
  /\ text.lines \in Seq(BodyLines) /\ text.sections \in Seq(SectionType) /\ current \in SectionType
  /\ text.heading = IF HeadingsAt(text.lines) = {} THEN None ELSE text.lines[Max(HeadingsAt(text.lines))]
  /\ Flat(text.sections) \o LinesOf(current) = text.lines
  /\ ExtractRules(text.sections) \o RulesOf(current) = RulesUnder(text.lines)

PromptFields == {"on", "rules", "limit", "shown"}

PromptInv ==
  /\ DOMAIN text = PromptFields /\ text = [x \in PromptFields |-> text[x]]
  /\ text.rules \in Seq(Words) /\ text.limit \in Nat
  /\ PromptIsWithinLimit

TextInv ==
  \/ text.on = "yaml" /\ YamlInv
  \/ text.on = "body" /\ BodyInv
  \/ text.on = "manifest" /\ ManifestIsText
  \/ text.on = "prompt" /\ PromptInv

\* A line is of one of four kinds.
LEMMA YamlLineIs ==
    ASSUME NEW l \in YamlLines
    PROVE  /\ l.kind \in {"key", "item", "sub", "bare"}
           /\ l.kind = "key" => l.key \in Keys /\ l.key # None
  BY TextAssumption DEF YamlLines

\* Which key the next lines are of.
LEMMA CurrentGrows ==
    ASSUME NEW lines \in Seq(YamlLines), NEW line \in YamlLines, NEW last, last = Max(KeysAt(lines))
    PROVE  /\ KeysAt(lines) # {} => last \in 1..Len(lines)
           /\ line.kind = "key" =>
                LET new == Max(KeysAt(Append(lines, line)))
                IN /\ KeysAt(Append(lines, line)) # {} /\ Append(lines, line)[new] = line
                   /\ BlockAfter(Append(lines, line), new) = <<>>
           /\ line.kind # "key" =>
                /\ KeysAt(Append(lines, line)) = KeysAt(lines)
                /\ KeysAt(lines) # {} =>
                     /\ Append(lines, line)[last] = lines[last]
                     /\ BlockAfter(Append(lines, line), last) = Append(BlockAfter(lines, last), line)
  <1> DEFINE n == Len(lines)
             r == Append(lines, line)
             K == KeysAt(lines)
             M == KeysAt(r)
  <1>1. /\ n \in Nat /\ DOMAIN lines = 1..n /\ DOMAIN r = (1..n) \cup {n + 1} /\ r[n + 1] = line
        /\ \A i \in 1..n : r[i] = lines[i]
    BY LinesGrow
  <1>2. M = K \cup IF line.kind = "key" THEN {n + 1} ELSE {}
    <2> HIDE DEF r, n
    <2> QED
      BY <1>1 DEF KeysAt
  <1>3. K \subseteq 1..n
    BY <1>1 DEF KeysAt
  <1>4. \A start \in 0..n :
          /\ BlockAfter(r, n + 1) = <<>>
          /\ BlockAfter(r, start) = IF line.kind = "key" \/ \E i \in K : i > start
                                      THEN BlockAfter(lines, start) ELSE Append(BlockAfter(lines, start), line)
    BY BlockGrows
  <1> HIDE DEF n, r, K, M
  <1>5. K # {} => last \in K /\ last \in 1..n /\ \A y \in K : last >= y
    BY <1>1, <1>3, LastPlace DEF K
  <1>6. ASSUME line.kind = "key" PROVE M # {} /\ r[Max(M)] = line /\ BlockAfter(r, Max(M)) = <<>>
    <2>1. n + 1 \in M /\ M \subseteq Int /\ \A y \in M : n + 1 >= y
      BY <1>1, <1>2, <1>3, <1>6
    <2>2. Max(M) = n + 1 /\ M # {}
      BY <2>1, ExtremeIs
    <2>3. 0 \in 0..n
      BY <1>1
    <2> QED
      BY <1>1, <1>4, <2>2, <2>3
  <1>7. ASSUME line.kind # "key", K # {}
        PROVE  r[last] = lines[last] /\ BlockAfter(r, last) = Append(BlockAfter(lines, last), line)
    <2>1. last \in 1..n /\ last \in 0..n /\ \A i \in K : last >= i /\ i \in 1..n
      <3>1. last \in 1..n /\ \A i \in K : last >= i /\ i \in 1..n
        BY <1>3, <1>5, <1>7
      <3> QED
        BY <1>1, <3>1
    <2>2. ~\E i \in K : i > last
      BY <2>1
    <2> QED
      BY <1>1, <1>4, <1>7, <2>1, <2>2
  <1>8. line.kind # "key" => M = K
    BY <1>2
  <1> QED
    BY <1>5, <1>6, <1>7, <1>8 DEF n, r, K, M

\* u is t with a line more, which has written these fields.
YamlWrites(t, u, line, key, array, nested, k, value) ==
  /\ YamlRecord(u) /\ u.on = t.on /\ u.lines = Append(t.lines, line)
  /\ u.key = key /\ u.array = array /\ u.nested = nested
  /\ u.result[k] = value /\ \A j \in Keys \ {k} : u.result[j] = t.result[j]

LEMMA YamlWritten ==
    ASSUME NEW t, YamlRecord(t),
           NEW line, NEW key, NEW array, NEW nested, NEW k \in Keys, NEW value, NEW u,
           u = [([t EXCEPT !.key = key, !.array = array, !.nested = nested, !.result[k] = value])
                  EXCEPT !.lines = Append(@, line)]
    PROVE  YamlWrites(t, u, line, key, array, nested, k, value)
  BY DEF YamlFields, YamlRecord, YamlWrites

\* The parser reads a line.
YamlReads(line) ==
  text' = [(CASE line.kind = "key" -> OnKey(text, line)
              [] line.kind = "item" -> OnItem(text, line)
              [] line.kind = "sub" -> OnSub(text, line)
              [] line.kind = "bare" -> OnBare(text)) EXCEPT !.lines = Append(@, line)]

\* What a line does to what the parser knows.
LEMMA YamlLineDoes ==
    ASSUME YamlInv, text.on = "yaml", NEW line \in YamlLines,
           YamlReads(line)
    PROVE  /\ YamlRecord(text') /\ text'.on = "yaml" /\ text'.lines = Append(text.lines, line)
           /\ line.kind = "key" =>
                /\ text'.key = line.key /\ text'.array = FALSE /\ text'.nested = FALSE
                /\ text'.result[line.key] = ValueOf(line, <<>>)
                /\ \A k \in Keys \ {line.key} : text'.result[k] = text.result[k]
           /\ line.kind # "key" /\ text.key = None =>
                /\ text'.key = None /\ text'.result = text.result
           /\ line.kind # "key" /\ text.key # None /\ text.key \in Keys =>
                /\ text'.key = text.key
                /\ \A k \in Keys \ {text.key} : text'.result[k] = text.result[k]
           /\ line.kind = "item" /\ text.key # None /\ text.key \in Keys =>
                /\ text'.array = TRUE /\ text'.nested = text.nested
                /\ text'.result[text.key] =
                     IF text.array THEN Grown(text.result[text.key], "array", line.word)
                     ELSE [kind |-> "array", of |-> <<line.word>>]
           /\ line.kind = "sub" /\ text.key # None /\ text.key \in Keys =>
                /\ text'.nested = TRUE /\ text'.array = text.array
                /\ text'.result[text.key] =
                     IF text.nested THEN Grown(text.result[text.key], "object", line.word)
                     ELSE [kind |-> "object", of |-> <<line.word>>]
           /\ line.kind = "bare" =>
                text'.array = FALSE /\ text'.nested = FALSE /\ text'.result = text.result
  <1>0. YamlRecord(text)
    BY DEF YamlInv
  <1>1. CASE line.kind = "key"
    <2>1. line.key \in Keys
      BY <1>1, YamlLineIs
    <2> DEFINE value == IF line.scalar THEN [kind |-> "scalar", of |-> <<>>] ELSE Null
    <2>2. text' = [([text EXCEPT !.key = line.key, !.array = FALSE, !.nested = FALSE, !.result[line.key] = value])
                     EXCEPT !.lines = Append(@, line)]
      BY <1>1 DEF OnKey, YamlReads
    <2>3. value = ValueOf(line, <<>>)
      BY DEF ValueOf, Null
    <2> HIDE DEF value
    <2>4. YamlWrites(text, text', line, line.key, FALSE, FALSE, line.key, value)
      BY <1>0, <2>1, <2>2, YamlWritten
    <2> QED
      BY <1>1, <2>3, <2>4 DEF YamlWrites
  <1>2. CASE line.kind \in {"item", "sub"} /\ text.key = None
    <2>1. text' = [text EXCEPT !.lines = Append(@, line)]
      BY <1>2 DEF OnItem, OnSub, YamlReads
    <2>2. /\ YamlRecord(text') /\ text'.on = text.on /\ text'.lines = Append(text.lines, line)
          /\ text'.key = text.key /\ text'.result = text.result
      BY <1>0, <2>1 DEF YamlFields, YamlRecord
    <2> QED
      BY <1>2, <2>2, Zenon
  <1>3. CASE line.kind = "item" /\ text.key # None /\ text.key \in Keys
    <2> DEFINE value == IF text.array THEN Grown(text.result[text.key], "array", line.word)
                        ELSE [kind |-> "array", of |-> <<line.word>>]
    <2>1. text' = [([text EXCEPT !.key = text.key, !.array = TRUE, !.nested = text.nested, !.result[text.key] = value])
                     EXCEPT !.lines = Append(@, line)]
      <3>1. CASE text.array
        <4>1. OnItem(text, line) = [text EXCEPT !.result[text.key] = Grown(@, "array", line.word)]
          BY <1>3, <3>1 DEF OnItem
        <4> QED
          BY <1>0, <1>3, <3>1, <4>1 DEF YamlFields, YamlRecord, YamlReads
      <3>2. CASE ~text.array
        BY <1>0, <1>3, <3>2 DEF OnItem, YamlFields, YamlRecord, YamlReads
      <3> QED
        BY <3>1, <3>2
    <2> HIDE DEF value
    <2>4. YamlWrites(text, text', line, text.key, TRUE, text.nested, text.key, value)
      BY <1>0, <1>3, <2>1, YamlWritten
    <2> QED
      BY <1>3, <2>4 DEF value, YamlWrites
  <1>4. CASE line.kind = "sub" /\ text.key # None /\ text.key \in Keys
    <2> DEFINE value == IF text.nested THEN Grown(text.result[text.key], "object", line.word)
                        ELSE [kind |-> "object", of |-> <<line.word>>]
    <2>1. text' = [([text EXCEPT !.key = text.key, !.array = text.array, !.nested = TRUE, !.result[text.key] = value])
                     EXCEPT !.lines = Append(@, line)]
      <3>1. CASE text.nested
        BY <1>0, <1>4, <3>1 DEF OnSub, YamlFields, YamlRecord, YamlReads
      <3>2. CASE ~text.nested
        BY <1>0, <1>4, <3>2 DEF OnSub, YamlFields, YamlRecord, YamlReads
      <3> QED
        BY <3>1, <3>2
    <2> HIDE DEF value
    <2>4. YamlWrites(text, text', line, text.key, text.array, TRUE, text.key, value)
      BY <1>0, <1>4, <2>1, YamlWritten
    <2> QED
      BY <1>4, <2>4 DEF value, YamlWrites
  <1>6. CASE line.kind = "bare"
    <2>1. text' = [([text EXCEPT !.array = FALSE, !.nested = FALSE]) EXCEPT !.lines = Append(@, line)]
      BY <1>6 DEF OnBare, YamlReads
    <2>2. /\ YamlRecord(text') /\ text'.on = text.on /\ text'.lines = Append(text.lines, line)
          /\ text'.key = text.key /\ text'.array = FALSE /\ text'.nested = FALSE
          /\ text'.result = text.result
      BY <1>0, <2>1 DEF YamlFields, YamlRecord
    <2> QED
      BY <1>6, <2>2
  <1>5. text.key = None \/ text.key \in Keys
    <2>1. CASE KeysAt(text.lines) = {}
      BY <2>1 DEF YamlInv
    <2>2. CASE KeysAt(text.lines) # {}
      <3> DEFINE last == Max(KeysAt(text.lines))
      <3>1. text.key = text.lines[last].key /\ text.lines \in Seq(YamlLines)
        BY <2>2 DEF YamlInv
      <3>2. /\ Len(text.lines) \in Nat /\ KeysAt(text.lines) \subseteq 1..Len(text.lines)
            /\ \A i \in KeysAt(text.lines) : text.lines[i].kind = "key" /\ text.lines[i] \in YamlLines
        BY <3>1 DEF KeysAt
      <3>3. last \in KeysAt(text.lines)
        BY <2>2, <3>2, LastPlace
      <3>4. text.lines[last].kind = "key" /\ text.lines[last] \in YamlLines
        BY <3>2, <3>3
      <3> QED
        BY <3>1, <3>4, YamlLineIs
    <2> QED
      BY <2>1, <2>2
  <1> QED
    <2>1. line.kind \in {"key", "item", "sub", "bare"}
      BY YamlLineIs
    <2> QED
      BY <1>1, <1>2, <1>3, <1>4, <1>5, <1>6, <2>1, Zenon

\* A line more of the frontmatter keeps what holds of it.
LEMMA YamlLineKeeps ==
    ASSUME YamlInv, text.on = "yaml", NEW line \in YamlLines, YamlReads(line)
    PROVE  YamlInv' /\ text'.on = "yaml"
  <1> DEFINE lines == text.lines
             r == Append(lines, line)
             last == Max(KeysAt(lines))
             block == BlockAfter(lines, last)
             run == CurrentRun(block)
             key == text.key
  <1>1. /\ lines \in Seq(YamlLines) /\ \A k \in Keys : Worth(lines, k, text.result[k])
        /\ KeysAt(lines) = {} => key = None
        /\ KeysAt(lines) # {} =>
             /\ key = lines[last].key /\ block \in Seq(BlockLines)
             /\ text.array <=> Began(run, "item") # 0
             /\ text.nested <=> Began(run, "sub") # 0
    BY DEF YamlInv
  <1>2. /\ YamlRecord(text') /\ text'.on = "yaml" /\ text'.lines = r /\ r \in Seq(YamlLines)
    <2>1. YamlRecord(text') /\ text'.on = "yaml" /\ text'.lines = r
      BY YamlLineDoes
    <2> QED
      BY <1>1, <2>1, LinesGrow
  <1>3. /\ line.kind = "key" =>
             /\ text'.key = line.key /\ text'.array = FALSE /\ text'.nested = FALSE
             /\ text'.result[line.key] = ValueOf(line, <<>>)
             /\ \A k \in Keys \ {line.key} : text'.result[k] = text.result[k]
        /\ line.kind # "key" /\ key = None => text'.key = None /\ text'.result = text.result
        /\ line.kind # "key" /\ key # None /\ key \in Keys =>
             /\ text'.key = key
             /\ \A k \in Keys \ {key} : text'.result[k] = text.result[k]
        /\ line.kind = "item" /\ key # None /\ key \in Keys =>
             /\ text'.array = TRUE /\ text'.nested = text.nested
             /\ text'.result[key] =
                  IF text.array THEN Grown(text.result[key], "array", line.word)
                  ELSE [kind |-> "array", of |-> <<line.word>>]
        /\ line.kind = "sub" /\ key # None /\ key \in Keys =>
             /\ text'.nested = TRUE /\ text'.array = text.array
             /\ text'.result[key] =
                  IF text.nested THEN Grown(text.result[key], "object", line.word)
                  ELSE [kind |-> "object", of |-> <<line.word>>]
        /\ line.kind = "bare" =>
             text'.array = FALSE /\ text'.nested = FALSE /\ text'.result = text.result
    BY YamlLineDoes
  <1>4. /\ KeysAt(lines) # {} => last \in 1..Len(lines)
        /\ line.kind = "key" =>
             LET new == Max(KeysAt(r)) IN KeysAt(r) # {} /\ r[new] = line /\ BlockAfter(r, new) = <<>>
        /\ line.kind # "key" =>
             /\ KeysAt(r) = KeysAt(lines)
             /\ KeysAt(lines) # {} => r[last] = lines[last] /\ BlockAfter(r, last) = Append(block, line)
    BY <1>1, CurrentGrows
  <1>5. \A k \in Keys :
          /\ line.kind = "key" /\ line.key = k => Worth(r, k, ValueOf(line, <<>>))
          /\ line.kind = "key" /\ line.key # k => Worth(r, k, text.result[k])
          /\ line.kind # "key" /\ (KeysAt(lines) = {} \/ lines[last].key # k) => Worth(r, k, text.result[k])
          /\ line.kind # "key" /\ KeysAt(lines) # {} /\ lines[last].key = k =>
               /\ text.result[k] = ValueOf(lines[last], LastRun(block))
               /\ Worth(r, k, ValueOf(lines[last], LastRun(Append(block, line))))
    BY <1>1, WorthGrows
  <1>6. ASSUME KeysAt(lines) # {}, line.kind # "key"
        PROVE  /\ key \in Keys /\ key # None
               /\ block \in Seq(BlockLines) /\ line \in BlockLines /\ Append(block, line) \in Seq(BlockLines)
    <2>1. last \in KeysAt(lines)
      <3>1. Len(lines) \in Nat /\ KeysAt(lines) \subseteq 1..Len(lines)
        BY <1>1 DEF KeysAt
      <3> QED
        BY <1>6, <3>1, LastPlace
    <2>2. lines[last] \in YamlLines /\ lines[last].kind = "key"
      <3>1. \A i \in KeysAt(lines) : lines[i] \in YamlLines /\ lines[i].kind = "key"
        BY <1>1 DEF KeysAt
      <3> QED
        BY <2>1, <3>1
    <2>3. key \in Keys /\ key # None
      BY <1>1, <1>6, <2>2, YamlLineIs
    <2>4. block \in Seq(BlockLines) /\ line \in BlockLines
      BY <1>1, <1>6 DEF BlockLines
    <2> QED
      BY <2>3, <2>4, LinesGrow
  <1>7. \A l \in BlockLines : l.kind \in {"item", "sub", "bare"}
    BY YamlLineIs DEF BlockLines
  <1>8. \A kind : Began(<<>>, kind) = 0
    BY DEF Began
  <1>12. /\ LastRun(<<>>) = <<>> /\ CurrentRun(<<>>) = <<>>
         /\ run # <<>> => run = LastRun(block)
    <2>1. LastRun(<<>>) = <<>>
      BY <1>1, RunGrows
    <2> QED
      BY <2>1 DEF CurrentRun
  <1>13. ASSUME block \in Seq(BlockLines), line \in BlockLines
         PROVE  /\ run \in Seq({l \in BlockLines : l.kind # "bare"})
                /\ line.kind = "bare" => LastRun(Append(block, line)) = LastRun(block)
                /\ line.kind # "bare" => LastRun(Append(block, line)) = Append(run, line)
                /\ CurrentRun(Append(block, line)) =
                     IF line.kind = "bare" THEN <<>> ELSE LastRun(Append(block, line))
    <2>1. /\ LastRun(block) \in Seq({l \in BlockLines : l.kind # "bare"})
          /\ line.kind = "bare" => LastRun(Append(block, line)) = LastRun(block)
          /\ line.kind # "bare" => LastRun(Append(block, line)) = Append(run, line)
          /\ CurrentRun(Append(block, line)) =
               IF line.kind = "bare" THEN <<>> ELSE LastRun(Append(block, line))
      BY <1>13, RunGrows
    <2>2. <<>> \in Seq({l \in BlockLines : l.kind # "bare"})
      OBVIOUS
    <2> QED
      BY <2>1, <2>2 DEF CurrentRun
  <1> HIDE DEF r, run, block, last, lines, key
  <1>9. CASE line.kind = "key"
    <2>1. \A k \in Keys : Worth(r, k, text'.result[k])
      <3>1. ASSUME NEW k \in Keys PROVE Worth(r, k, text'.result[k])
        <4>1. CASE k = line.key
          BY <1>3, <1>5, <1>9, <4>1
        <4>2. CASE k # line.key
          BY <1>3, <1>5, <1>9, <4>2
        <4> QED
          BY <4>1, <4>2
      <3> QED
        BY <3>1
    <2> DEFINE new == Max(KeysAt(r))
    <2>2. KeysAt(r) # {} /\ r[new] = line /\ BlockAfter(r, new) = <<>>
      BY <1>4, <1>9
    <2> HIDE DEF new
    <2>3. text'.key = r[new].key
      BY <1>3, <1>9, <2>2
    <2>4. <<>> \in Seq(BlockLines)
      OBVIOUS
    <2>5. BlockAfter(r, new) \in Seq(BlockLines) /\ ~text'.array /\ ~text'.nested
      BY <1>3, <1>9, <2>2, <2>4, Zenon
    <2>6. /\ Began(CurrentRun(BlockAfter(r, new)), "item") = 0
          /\ Began(CurrentRun(BlockAfter(r, new)), "sub") = 0
      BY <1>8, <1>12, <2>2, Zenon
    <2> QED
      BY <1>2, <2>1, <2>2, <2>3, <2>5, <2>6 DEF YamlInv, new
  <1>10. CASE line.kind # "key" /\ KeysAt(lines) = {}
    <2>1. KeysAt(r) = {} /\ text'.key = None /\ text'.result = text.result
      BY <1>1, <1>3, <1>4, <1>10
    <2>2. \A k \in Keys : Worth(r, k, text'.result[k])
      BY <1>5, <1>10, <2>1
    <2> QED
      BY <1>2, <2>1, <2>2 DEF YamlInv
  <1>11. CASE line.kind # "key" /\ KeysAt(lines) # {}
    <2>1. /\ key \in Keys /\ key # None /\ key = lines[last].key
          /\ block \in Seq(BlockLines) /\ line \in BlockLines /\ Append(block, line) \in Seq(BlockLines)
          /\ text'.key = key /\ \A k \in Keys \ {key} : text'.result[k] = text.result[k]
      BY <1>1, <1>3, <1>6, <1>11
    <2>2. KeysAt(r) = KeysAt(lines) /\ r[last] = lines[last] /\ BlockAfter(r, last) = Append(block, line)
      BY <1>4, <1>11
    <2> DEFINE more == LastRun(Append(block, line))
    <2>3. text.result[key] = ValueOf(lines[last], LastRun(block)) /\ Worth(r, key, ValueOf(lines[last], more))
      BY <1>5, <1>11, <2>1
    <2>4. /\ run \in Seq({l \in BlockLines : l.kind # "bare"})
          /\ line.kind = "bare" => more = LastRun(block)
          /\ line.kind # "bare" => more = Append(run, line)
          /\ CurrentRun(Append(block, line)) = IF line.kind = "bare" THEN <<>> ELSE more
      BY <1>13, <2>1
    <2>5. line.kind \in {"item", "sub", "bare"}
      BY <1>7, <2>1
    <2>6. /\ text.array <=> Began(run, "item") # 0
          /\ text.nested <=> Began(run, "sub") # 0
      BY <1>1, <1>11
    <2> HIDE DEF more
    <2>7. ASSUME line.kind # "bare"
          PROVE  /\ text'.result[key] = ValueOf(lines[last], more)
                 /\ text'.array <=> Began(more, "item") # 0
                 /\ text'.nested <=> Began(more, "sub") # 0
      <3> DEFINE M == {l \in BlockLines : l.kind # "bare"}
      <3>1. (\A l \in M : l.kind \in {"item", "sub"}) /\ run \in Seq(M) /\ line \in M
            /\ more = Append(run, line)
        BY <1>7, <2>1, <2>4, <2>7
      <3> HIDE DEF M
      <3>2. /\ line.kind = "item" =>
                 ValueOf(lines[last], more) =
                   IF Began(run, "item") = 0 THEN [kind |-> "array", of |-> <<line.word>>]
                   ELSE Grown(ValueOf(lines[last], run), "array", line.word)
            /\ line.kind = "sub" =>
                 ValueOf(lines[last], more) =
                   IF Began(run, "sub") = 0 THEN [kind |-> "object", of |-> <<line.word>>]
                   ELSE Grown(ValueOf(lines[last], run), "object", line.word)
        BY <3>1, ValueGrows
      <3>3. \A kind : Began(run, kind) # 0 => ValueOf(lines[last], run) = text.result[key]
        <4>1. \A kind : Began(run, kind) # 0 => run # <<>>
          BY <1>8
        <4> QED
          BY <1>12, <2>3, <4>1
      <3>4. \A kind :
              Began(more, kind) =
                IF Began(run, kind) # 0 THEN Began(run, kind)
                ELSE IF line.kind = kind THEN Len(run) + 1 ELSE 0
        BY <3>1, BeganGrows
      <3>5. Len(run) + 1 # 0
        BY <3>1
      <3>6. CASE line.kind = "item"
        <4>1. text'.array = TRUE /\ text'.nested = text.nested
          BY <1>3, <2>1, <3>6
        <4>2. Began(more, "item") # 0
          BY <3>4, <3>5, <3>6
        <4>3. Began(more, "sub") # 0 <=> Began(run, "sub") # 0
          BY <3>4, <3>6
        <4>4. text'.result[key] = ValueOf(lines[last], more)
          BY <1>3, <2>1, <2>6, <3>2, <3>3, <3>6
        <4> QED
          BY <2>6, <4>1, <4>2, <4>3, <4>4, Zenon
      <3>7. CASE line.kind = "sub"
        <4>1. text'.nested = TRUE /\ text'.array = text.array
          BY <1>3, <2>1, <3>7
        <4>2. Began(more, "sub") # 0
          BY <3>4, <3>5, <3>7
        <4>3. Began(more, "item") # 0 <=> Began(run, "item") # 0
          BY <3>4, <3>7
        <4>4. text'.result[key] = ValueOf(lines[last], more)
          BY <1>3, <2>1, <2>6, <3>2, <3>3, <3>7
        <4> QED
          BY <2>6, <4>1, <4>2, <4>3, <4>4, Zenon
      <3> QED
        BY <2>5, <2>7, <3>6, <3>7
    <2>8. ASSUME line.kind = "bare"
          PROVE  /\ text'.result[key] = ValueOf(lines[last], more)
                 /\ ~text'.array /\ ~text'.nested
      BY <1>3, <2>3, <2>4, <2>8
    <2>9. \A k \in Keys : Worth(r, k, text'.result[k])
      <3>1. ASSUME NEW k \in Keys, k # key PROVE Worth(r, k, text'.result[k])
        BY <1>5, <1>11, <2>1, <3>1
      <3>2. text'.result[key] = ValueOf(lines[last], more)
        BY <2>7, <2>8
      <3> QED
        BY <2>3, <3>1, <3>2
    <2>10. /\ text'.array <=> Began(CurrentRun(Append(block, line)), "item") # 0
           /\ text'.nested <=> Began(CurrentRun(Append(block, line)), "sub") # 0
      <3>1. CASE line.kind = "bare"
        <4>1. CurrentRun(Append(block, line)) = <<>>
          BY <2>4, <3>1
        <4> QED
          BY <1>8, <2>8, <3>1, <4>1, Zenon
      <3>2. CASE line.kind # "bare"
        <4>1. CurrentRun(Append(block, line)) = more
          BY <2>4, <3>2
        <4> QED
          BY <2>7, <3>2, <4>1, Zenon
      <3> QED
        BY <3>1, <3>2
    <2>11. KeysAt(r) # {} /\ last = Max(KeysAt(r)) /\ text'.key = r[last].key
      BY <1>11, <2>1, <2>2 DEF last
    <2> QED
      BY <1>2, <2>1, <2>2, <2>9, <2>10, <2>11 DEF YamlInv
  <1> QED
    BY <1>9, <1>10, <1>11, <1>2

\* A record that is written field by field is a record of the same fields.
BodyRecord(t) == DOMAIN t = BodyFields /\ t = [x \in BodyFields |-> t[x]]

\* u is t with a line more, which has written these fields.
BodyWrites(t, u, line, sections, heading, open) ==
  /\ BodyRecord(u) /\ u.on = t.on /\ u.lines = Append(t.lines, line)
  /\ u.sections = sections /\ u.heading = heading /\ u.open = open

LEMMA BodyWritten ==
    ASSUME NEW t, BodyRecord(t), NEW line, NEW sections, NEW heading, NEW open, NEW u,
           u = [[t EXCEPT !.sections = sections, !.heading = heading, !.open = open]
                  EXCEPT !.lines = Append(@, line)]
    PROVE  BodyWrites(t, u, line, sections, heading, open)
  BY DEF BodyFields, BodyRecord, BodyWrites

\* The parser reads a line.
BodyReads(line) ==
  text' = [(IF line.kind = "heading"
              THEN [text EXCEPT !.sections = Closed(text), !.heading = line, !.open = <<>>]
              ELSE [text EXCEPT !.open = Append(@, line)]) EXCEPT !.lines = Append(@, line)]

\* What is closed is all there is, of lines and of rules.
LEMMA ClosedIs ==
    ASSUME NEW t, t.sections \in Seq(SectionType), NEW current \in SectionType,
           current = [heading |-> t.heading, content |-> t.open]
    PROVE  /\ Closed(t) \in Seq(SectionType)
           /\ Flat(Closed(t)) = Flat(t.sections) \o LinesOf(current)
           /\ ExtractRules(Closed(t)) = ExtractRules(t.sections) \o RulesOf(current)
  <1>1. CASE t.heading # None \/ t.open # <<>>
    <2>1. Closed(t) = Append(t.sections, current)
      BY <1>1 DEF Closed
    <2>2. /\ Flat(Append(t.sections, current)) = Flat(t.sections) \o LinesOf(current)
          /\ ExtractRules(Append(t.sections, current)) = ExtractRules(t.sections) \o RulesOf(current)
      BY SectionsGrow
    <2>3. Append(t.sections, current) \in Seq(SectionType)
      OBVIOUS
    <2> QED
      BY <2>1, <2>2, <2>3
  <1>2. CASE ~(t.heading # None \/ t.open # <<>>)
    <2>1. Closed(t) = t.sections /\ current.heading = None /\ current.content = <<>>
      BY <1>2 DEF Closed
    <2>2. LinesOf(current) = <<>> \o <<>> /\ RulesOf(current) = <<>>
      BY <2>1 DEF LinesOf, RulesOf
    <2>3. \A S : \A q \in Seq(S) : q \o <<>> = q
      OBVIOUS
    <2>4. <<>> \o <<>> = <<>>
      OBVIOUS
    <2>5. Flat(t.sections) \in Seq(BodyLines) /\ ExtractRules(t.sections) \in Seq(BodyWords)
      BY SectionsGrow
    <2>6. Flat(t.sections) \o <<>> = Flat(t.sections) /\ ExtractRules(t.sections) \o <<>> = ExtractRules(t.sections)
      BY <2>3, <2>5
    <2>7. LinesOf(current) = <<>>
      BY <2>2, <2>4, Zenon
    <2> QED
      BY <2>1, <2>2, <2>6, <2>7, Zenon
  <1> QED
    BY <1>1, <1>2

\* A section begins with its heading, and a line in it is a line of it.
Longer(s, line) == [heading |-> s.heading, content |-> Append(s.content, line)]

Opened(line) == [heading |-> line, content |-> <<>>]

LEMMA SectionGrows ==
    ASSUME NEW s \in SectionType, NEW line \in BodyLines
    PROVE  /\ Longer(s, line) \in SectionType /\ LinesOf(Longer(s, line)) = Append(LinesOf(s), line)
           /\ RulesOf(Longer(s, line)) = IF s.heading # None /\ s.heading.rules /\ line.kind = "bullet"
                                THEN Append(RulesOf(s), line.word) ELSE RulesOf(s)
           /\ Opened(line) \in SectionType /\ LinesOf(Opened(line)) = <<line>> /\ RulesOf(Opened(line)) = <<>>
  <1> DEFINE more == Longer(s, line)  new == Opened(line)
  <1>0. /\ more = [heading |-> s.heading, content |-> Append(s.content, line)]
        /\ new = [heading |-> line, content |-> <<>>]
    BY DEF Longer, Opened
  <1> HIDE DEF more, new
  <1>1. s.heading \in BodyLines \cup {None} /\ s.content \in Seq(BodyLines)
    BY DEF SectionType
  <1>2. Append(s.content, line) \in Seq(BodyLines) /\ <<>> \in Seq(BodyLines)
    BY <1>1
  <1>3. more \in SectionType /\ new \in SectionType
    BY <1>0, <1>1, <1>2 DEF SectionType
  <1>4. LinesOf(more) = Append(LinesOf(s), line)
    <2> DEFINE head == IF s.heading = None THEN <<>> ELSE <<s.heading>>
    <2>1. head \in Seq(BodyLines)
      BY <1>1
    <2>2. LinesOf(s) = head \o s.content
      BY DEF LinesOf
    <2>3. LinesOf(more) = head \o Append(s.content, line)
      BY <1>0 DEF LinesOf
    <2> HIDE DEF head
    <2>4. \A a, b \in Seq(BodyLines) : a \o Append(b, line) = Append(a \o b, line)
      OBVIOUS
    <2> QED
      BY <1>1, <2>1, <2>2, <2>3, <2>4
  <1>5. \A q \in Seq(BodyLines) :
          WordsOf(Append(q, line), "bullet") =
            IF line.kind = "bullet" THEN Append(WordsOf(q, "bullet"), line.word) ELSE WordsOf(q, "bullet")
    <2>1. \A q \in Seq(BodyLines), x \in BodyLines :
            WordsOf(Append(q, x), "bullet") =
              IF x.kind = "bullet" THEN Append(WordsOf(q, "bullet"), x.word) ELSE WordsOf(q, "bullet")
      BY WordsGrow, Zenon
    <2> QED
      BY <2>1
  <1>6. RulesOf(more) = IF s.heading # None /\ s.heading.rules /\ line.kind = "bullet"
                          THEN Append(RulesOf(s), line.word) ELSE RulesOf(s)
    BY <1>0, <1>1, <1>5 DEF RulesOf
  <1>7. LinesOf(new) = <<line>>
    <2>1. line # None
      BY TextAssumption
    <2>2. LinesOf(new) = <<line>> \o <<>>
      BY <1>0, <2>1 DEF LinesOf
    <2>3. <<line>> \o <<>> = <<line>>
      OBVIOUS
    <2> QED
      BY <2>2, <2>3, Zenon
  <1>8. RulesOf(new) = <<>>
    <2>1. WordsOf(<<>>, "bullet") = <<>>
      BY WordsGrow, Zenon
    <2> QED
      BY <1>0, <2>1 DEF RulesOf
  <1> QED
    BY <1>3, <1>4, <1>6, <1>7, <1>8 DEF more, new

\* A line is of one of four kinds.
LEMMA BodyLineIs ==
    ASSUME NEW l \in BodyLines
    PROVE  l.kind \in {"heading", "bullet", "text", "fence"} /\ l # None
  BY TextAssumption DEF BodyLines

\* Which heading the next lines are under.
LEMMA HeadingGrows ==
    ASSUME NEW lines \in Seq(BodyLines), NEW line \in BodyLines
    PROVE  /\ line.kind = "heading" => HeadingsAt(Append(lines, line)) # {} /\
                Append(lines, line)[Max(HeadingsAt(Append(lines, line)))] = line
           /\ line.kind # "heading" =>
                /\ HeadingsAt(Append(lines, line)) = HeadingsAt(lines)
                /\ HeadingsAt(lines) # {} =>
                     Append(lines, line)[Max(HeadingsAt(lines))] = lines[Max(HeadingsAt(lines))]
  <1> DEFINE n == Len(lines)
             r == Append(lines, line)
  <1>1. /\ n \in Nat /\ DOMAIN lines = 1..n /\ DOMAIN r = (1..n) \cup {n + 1} /\ r[n + 1] = line
        /\ \A i \in 1..n : r[i] = lines[i]
    BY LinesGrow
  <1>2. HeadingsAt(r) = HeadingsAt(lines) \cup IF line.kind = "heading" THEN {n + 1} ELSE {}
    <2> HIDE DEF n, r
    <2> QED
      BY <1>1 DEF HeadingsAt
  <1>3. HeadingsAt(lines) \subseteq 1..n
    BY <1>1 DEF HeadingsAt
  <1> HIDE DEF n, r
  <1>4. ASSUME line.kind = "heading" PROVE HeadingsAt(r) # {} /\ r[Max(HeadingsAt(r))] = line
    <2>1. n + 1 \in HeadingsAt(r) /\ HeadingsAt(r) \subseteq Int /\ \A y \in HeadingsAt(r) : n + 1 >= y
      BY <1>1, <1>2, <1>3, <1>4
    <2>2. Max(HeadingsAt(r)) = n + 1
      BY <2>1, ExtremeIs
    <2> QED
      BY <1>1, <2>1, <2>2
  <1>5. HeadingsAt(lines) # {} => Max(HeadingsAt(lines)) \in 1..n
    BY <1>1, <1>3, LastPlace
  <1>6. line.kind # "heading" => HeadingsAt(r) = HeadingsAt(lines)
    BY <1>2
  <1> QED
    BY <1>1, <1>4, <1>5, <1>6 DEF r

\* A line more of the body keeps what holds of it.
LEMMA BodyLineKeeps ==
    ASSUME BodyInv, text.on = "body", NEW line \in BodyLines,
           BodyReads(line)
    PROVE  BodyInv' /\ text'.on = "body"
  <1> DEFINE lines == text.lines
             r == Append(lines, line)
             H == HeadingsAt(lines)
             current == [heading |-> text.heading, content |-> text.open]
             more == Longer(current, line)
             new == Opened(line)
  <1>1. /\ BodyRecord(text) /\ lines \in Seq(BodyLines) /\ text.sections \in Seq(SectionType)
        /\ current \in SectionType
        /\ text.heading = IF H = {} THEN None ELSE lines[Max(H)]
        /\ Flat(text.sections) \o LinesOf(current) = lines
        /\ ExtractRules(text.sections) \o RulesOf(current) = RulesUnder(lines)
    BY DEF BodyInv, BodyRecord
  <1>2. r \in Seq(BodyLines)
    <2>1. \A q \in Seq(BodyLines) : Append(q, line) \in Seq(BodyLines)
      OBVIOUS
    <2> QED
      BY <1>1, <2>1, Zenon
  <1>3. RulesUnder(r) = IF line.kind = "bullet" /\ H # {} /\ lines[Max(H)].rules
                          THEN Append(RulesUnder(lines), line.word) ELSE RulesUnder(lines)
    BY <1>1, RulesUnderGrow
  <1>4. /\ line.kind = "heading" => HeadingsAt(r) # {} /\ r[Max(HeadingsAt(r))] = line
        /\ line.kind # "heading" => HeadingsAt(r) = H /\ (H # {} => r[Max(H)] = lines[Max(H)])
    BY <1>1, HeadingGrows
  <1>5. /\ more \in SectionType /\ LinesOf(more) = Append(LinesOf(current), line)
        /\ RulesOf(more) = IF current.heading # None /\ current.heading.rules /\ line.kind = "bullet"
                             THEN Append(RulesOf(current), line.word) ELSE RulesOf(current)
        /\ new \in SectionType /\ LinesOf(new) = <<line>> /\ RulesOf(new) = <<>>
    BY <1>1, SectionGrows
  <1>6. /\ Closed(text) \in Seq(SectionType)
        /\ Flat(Closed(text)) = lines
        /\ ExtractRules(Closed(text)) = RulesUnder(lines)
    <2>1. /\ Closed(text) \in Seq(SectionType)
          /\ Flat(Closed(text)) = Flat(text.sections) \o LinesOf(current)
          /\ ExtractRules(Closed(text)) = ExtractRules(text.sections) \o RulesOf(current)
      BY <1>1, ClosedIs
    <2> QED
      BY <1>1, <2>1
  <1>7. \A a, b \in Seq(BodyLines) : a \o Append(b, line) = Append(a \o b, line)
    OBVIOUS
  <1>8. \A a, b \in Seq(BodyWords) : a \o Append(b, line.word) = Append(a \o b, line.word)
    OBVIOUS
  <1>9. current.heading = text.heading /\ current.content = text.open
    OBVIOUS
  <1>10. line.word \in BodyWords
    BY DEF BodyWords
  <1> HIDE DEF lines, r, H, current
  <1>11. CASE line.kind = "heading"
    <2>1. text' = [[text EXCEPT !.sections = Closed(text), !.heading = line, !.open = <<>>]
                     EXCEPT !.lines = Append(@, line)]
      BY <1>11 DEF BodyReads
    <2>2. BodyWrites(text, text', line, Closed(text), line, <<>>)
      BY <1>1, <2>1, BodyWritten
    <2>3. /\ BodyRecord(text') /\ text'.on = text.on /\ text'.lines = r
          /\ text'.sections = Closed(text) /\ text'.heading = line /\ text'.open = <<>>
      BY <2>2 DEF lines, r, BodyWrites
    <2>4. [heading |-> text'.heading, content |-> text'.open] = new
      BY <2>3 DEF Opened
    <2> HIDE DEF new
    <2>5. Flat(text'.sections) \o LinesOf(new) = r
      <3>1. \A q \in Seq(BodyLines) : q \o <<line>> = Append(q, line)
        OBVIOUS
      <3> QED
        BY <1>1, <1>5, <1>6, <2>3, <3>1, Zenon DEF r
    <2>6. ExtractRules(text'.sections) \o RulesOf(new) = RulesUnder(r)
      <3>1. \A q \in Seq(BodyWords) : q \o <<>> = q
        OBVIOUS
      <3>2. ExtractRules(Closed(text)) \in Seq(BodyWords)
        BY <1>6, SectionsGrow
      <3>3. ExtractRules(Closed(text)) \o RulesOf(new) = ExtractRules(Closed(text))
        BY <1>5, <3>1, <3>2, Zenon
      <3> QED
        BY <1>3, <1>6, <1>11, <2>3, <3>3
    <2>7. text'.heading = IF HeadingsAt(r) = {} THEN None ELSE r[Max(HeadingsAt(r))]
      BY <1>4, <1>11, <2>3
    <2>8. text'.sections \in Seq(SectionType) /\ new \in SectionType
      BY <1>5, <1>6, <2>3
    <2> QED
      BY <1>2, <2>3, <2>4, <2>5, <2>6, <2>7, <2>8 DEF BodyInv, BodyRecord
  <1>12. CASE line.kind # "heading"
    <2>1. text' = [[text EXCEPT !.sections = text.sections, !.heading = text.heading,
                                !.open = Append(text.open, line)] EXCEPT !.lines = Append(@, line)]
      BY <1>1, <1>12 DEF BodyReads, BodyRecord, BodyFields
    <2>2. BodyWrites(text, text', line, text.sections, text.heading, Append(text.open, line))
      BY <1>1, <2>1, BodyWritten
    <2>3. /\ BodyRecord(text') /\ text'.on = text.on /\ text'.lines = r
          /\ text'.sections = text.sections /\ text'.heading = text.heading
          /\ text'.open = Append(text.open, line)
      BY <2>2 DEF lines, r, BodyWrites
    <2>4. [heading |-> text'.heading, content |-> text'.open] = more
      BY <1>9, <2>3 DEF Longer
    <2> HIDE DEF more
    <2>5. LinesOf(current) \in Seq(BodyLines) /\ RulesOf(current) \in Seq(BodyWords)
      BY <1>1, SectionIs
    <2>6. Flat(text.sections) \in Seq(BodyLines) /\ ExtractRules(text.sections) \in Seq(BodyWords)
      BY <1>1, SectionsGrow
    <2>7. Flat(text'.sections) \o LinesOf(more) = r
      BY <1>1, <1>5, <1>7, <2>3, <2>5, <2>6, Zenon DEF r
    <2>8. text'.heading = IF HeadingsAt(r) = {} THEN None ELSE r[Max(HeadingsAt(r))]
      BY <1>1, <1>4, <1>12, <2>3
    <2>9. ExtractRules(text'.sections) \o RulesOf(more) = RulesUnder(r)
      <3>1. H # {} => lines[Max(H)] # None
        <4>1. /\ Len(lines) \in Nat /\ H \subseteq 1..Len(lines)
              /\ \A i \in 1..Len(lines) : lines[i] \in BodyLines
          BY <1>1 DEF H, HeadingsAt
        <4>2. H # {} => Max(H) \in H
          BY <4>1, LastPlace
        <4> QED
          BY <4>1, <4>2, BodyLineIs
      <3>2. current.heading # None /\ current.heading.rules /\ line.kind = "bullet"
              <=> line.kind = "bullet" /\ H # {} /\ lines[Max(H)].rules
        BY <1>1, <1>9, <3>1
      <3>3. CASE line.kind = "bullet" /\ H # {} /\ lines[Max(H)].rules
        <4>1. RulesOf(more) = Append(RulesOf(current), line.word) /\ RulesUnder(r) = Append(RulesUnder(lines), line.word)
          BY <1>3, <1>5, <3>2, <3>3
        <4> QED
          BY <1>1, <1>8, <2>3, <2>5, <2>6, <4>1, Zenon
      <3>4. CASE ~(line.kind = "bullet" /\ H # {} /\ lines[Max(H)].rules)
        BY <1>1, <1>3, <1>5, <2>3, <3>2, <3>4
      <3> QED
        BY <3>3, <3>4
    <2>10. text'.sections \in Seq(SectionType) /\ more \in SectionType
      BY <1>1, <1>5, <2>3
    <2> QED
      BY <1>2, <2>3, <2>4, <2>7, <2>8, <2>9, <2>10 DEF BodyInv, BodyRecord
  <1> QED
    BY <1>11, <1>12

\* A sequence of at most n elements is a sequence.
LEMMA SeqOfIs ==
    ASSUME NEW S, NEW n
    PROVE  SeqOf(S, n) \subseteq Seq(S)
  BY DEF SeqOf

\* Sequences of more elements, and joined ones.
LEMMA SeqIsWithin ==
    ASSUME NEW S, NEW T, S \subseteq T, NEW q \in Seq(S)
    PROVE  q \in Seq(T)
  <1>1. Len(q) \in Nat /\ DOMAIN q = 1..Len(q) /\ q = [i \in 1..Len(q) |-> q[i]]
    OBVIOUS
  <1>2. \A i \in 1..Len(q) : q[i] \in T
    OBVIOUS
  <1> QED
    BY <1>1, <1>2

LEMMA SeqIsJoined ==
    ASSUME NEW S, NEW p \in Seq(S), NEW q \in Seq(S)
    PROVE  p \o q \in Seq(S)
  OBVIOUS

\* The manifest is the text that was read.
LEMMA ManifestIs ==
    ASSUME BodyInv, ParseSkillContent
    PROVE  text'.on = "manifest" /\ ManifestIsText'
  <1> DEFINE lines == text.lines
             sections == Closed(text)
             current == [heading |-> text.heading, content |-> text.open]
             S == BodyWords \cup Words \cup {""}
  <1>1. /\ lines \in Seq(BodyLines) /\ text.sections \in Seq(SectionType) /\ current \in SectionType
        /\ Flat(text.sections) \o LinesOf(current) = lines
        /\ ExtractRules(text.sections) \o RulesOf(current) = RulesUnder(lines)
    BY DEF BodyInv
  <1>2. /\ sections \in Seq(SectionType) /\ Flat(sections) = lines
        /\ ExtractRules(sections) = RulesUnder(lines)
    <2>1. /\ Closed(text) \in Seq(SectionType)
          /\ Flat(Closed(text)) = Flat(text.sections) \o LinesOf(current)
          /\ ExtractRules(Closed(text)) = ExtractRules(text.sections) \o RulesOf(current)
      BY <1>1, ClosedIs
    <2> QED
      BY <1>1, <2>1
  <1>3. PICK given \in SeqOf(Words \cup {""}, 1) :
          /\ text'.on = "manifest" /\ text'.lines = lines /\ text'.sections = sections
          /\ text'.given = given /\ text'.rules = given \o ExtractRules(sections)
          /\ text'.guidelines = GuidelinesOf(text'.rules)
    <2>1. PICK named \in {"key", "word", "words"}, given \in SeqOf(Words \cup {""}, 1), safe \in BOOLEAN :
            LET first == sections # <<>> /\ sections[1].heading # None
                rules == given \o ExtractRules(sections)
            IN text' = [on |-> "manifest", lines |-> lines, sections |-> sections,
                        given |-> given, rules |-> rules, scripts |-> ExtractScripts(lines),
                        guidelines |-> GuidelinesOf(rules),
                        check |-> Validated(named # "words" \/ ~first, rules, safe)]
      BY Zenon DEF ParseSkillContent
    <2> HIDE DEF sections, lines
    <2>2. /\ text'.on = "manifest" /\ text'.lines = lines /\ text'.sections = sections
          /\ text'.given = given /\ text'.rules = given \o ExtractRules(sections)
          /\ text'.guidelines = GuidelinesOf(given \o ExtractRules(sections))
      BY <2>1
    <2> QED
      BY <2>2
  <1>4. text'.rules \in Seq(S)
    <2>1. given \in Seq(Words \cup {""})
      BY <1>3, SeqOfIs, Zenon
    <2>2. ExtractRules(sections) \in Seq(BodyWords)
      BY <1>2, SectionsGrow
    <2>3. Words \cup {""} \subseteq S /\ BodyWords \subseteq S
      OBVIOUS
    <2> HIDE DEF S, sections
    <2>4. given \in Seq(S) /\ ExtractRules(sections) \in Seq(S)
      BY <2>1, <2>2, <2>3, SeqIsWithin, Zenon
    <2> QED
      BY <1>3, <2>4, SeqIsJoined, Zenon
  <1> HIDE DEF S, sections, lines, current
  <1>5. ToSet(text'.guidelines) = ToSet(text'.rules) /\ IsInjective(text'.guidelines)
    BY <1>3, <1>4, GuidelinesAre
  <1>6. FlattenSeq([i \in DOMAIN text'.sections |-> LinesOf(text'.sections[i])]) = text'.lines
    BY <1>2, <1>3 DEF Flat
  <1>7. text'.rules = text'.given \o RulesUnder(text'.lines)
    BY <1>2, <1>3
  <1> QED
    BY <1>3, <1>5, <1>6, <1>7, Zenon DEF ManifestIsText

\* The prompt is written of the rules within the limit.
LEMMA PromptKeeps ==
    ASSUME PromptInv, FormatSkillPrompt
    PROVE  text'.on = "prompt" /\ PromptInv'
  <1>1. text' = [text EXCEPT !.shown =
                   Cut(Among(text.rules, Critical), text.limit)
                     \o Cut(Among(text.rules, Words \ Critical),
                            Remaining(text.limit, Among(text.rules, Critical)))]
    BY DEF FormatSkillPrompt
  <1>2. \A q \in Seq(Words) :
           /\ Among(q, Critical) \in Seq(Words \cap Critical)
           /\ Among(q, Words \ Critical) \in Seq(Words \ Critical)
           /\ Len(Among(q, Critical)) + Len(Among(q, Words \ Critical)) = Len(q)
    BY AmongParts, Zenon
  <1>3. \A a \in Seq(Words \cap Critical), b \in Seq(Words \ Critical), limit \in Nat :
           /\ Len(Cut(a, limit) \o Cut(b, Remaining(limit, a))) = Min({limit, Len(a) + Len(b)})
           /\ \/ ToSet(Cut(a, limit) \o Cut(b, Remaining(limit, a))) \subseteq Critical
              \/ Among(Cut(a, limit) \o Cut(b, Remaining(limit, a)), Critical) = a
    <2> TAKE a \in Seq(Words \cap Critical), b \in Seq(Words \ Critical), limit \in Nat
    <2> DEFINE n == Len(a) + Len(b)  shown == Cut(a, limit) \o Cut(b, Remaining(limit, a))
    <2>1. n \in Nat
      OBVIOUS
    <2> HIDE DEF n
    <2> QED
      BY <2>1, PromptIs, Zenon DEF n
  <1> DEFINE rules == text.rules
             limit == text.limit
             a == Among(rules, Critical)
             b == Among(rules, Words \ Critical)
             shown == Cut(a, limit) \o Cut(b, Remaining(limit, a))
  <1>4. /\ DOMAIN text = PromptFields /\ text = [x \in PromptFields |-> text[x]]
        /\ rules \in Seq(Words) /\ limit \in Nat /\ text.on = "prompt"
    BY DEF PromptInv, FormatSkillPrompt
  <1>5. text' = [text EXCEPT !.shown = shown]
    BY <1>1
  <1>6. /\ a \in Seq(Words \cap Critical) /\ b \in Seq(Words \ Critical)
        /\ Len(a) + Len(b) = Len(rules)
    BY <1>4, <1>2
  <1>7. Len(rules) \in Nat
    BY <1>4
  <1> HIDE DEF rules, limit
  <1>8. /\ Len(shown) = Min({limit, Len(rules)})
        /\ ToSet(shown) \subseteq Critical \/ Among(shown, Critical) = a
    BY <1>3, <1>4, <1>6
  <1> HIDE DEF shown, a
  <1>9. /\ DOMAIN text' = PromptFields /\ text' = [x \in PromptFields |-> text'[x]]
        /\ text'.on = "prompt" /\ text'.rules = rules /\ text'.limit = limit /\ text'.shown = shown
    BY <1>4, <1>5 DEF PromptFields, rules, limit
  <1>10. PromptIsWithinLimit'
    BY <1>8, <1>9, Zenon DEF PromptIsWithinLimit, a
  <1> QED
    BY <1>4, <1>9, <1>10 DEF PromptInv

LEMMA TextStarts ==
    ASSUME TextInit
    PROVE  TextInv
  <1> DEFINE yaml == [on |-> "yaml", lines |-> <<>>, key |-> None, array |-> FALSE, nested |-> FALSE,
                      result |-> [k \in Keys |-> None]]
             body == [on |-> "body", lines |-> <<>>, sections |-> <<>>, heading |-> None, open |-> <<>>]
  <1>0. \A S : <<>> \in Seq(S)
    OBVIOUS
  <1>1. CASE text = yaml
    <2>1. YamlRecord(text) /\ text.on = "yaml" /\ text.key = None /\ text.lines = <<>>
          /\ \A k \in Keys : text.result[k] = None
      BY <1>1 DEF YamlRecord, YamlFields
    <2>2. KeysAt(<<>>) = {} /\ \A k \in Keys : StartsOf(<<>>, k) = {}
      BY DEF KeysAt, StartsOf
    <2>3. KeysAt(text.lines) = {} /\ \A k \in Keys : StartsOf(text.lines, k) = {}
      BY <2>1, <2>2, Zenon
    <2>4. text.lines \in Seq(YamlLines)
      BY <1>0, <2>1, Zenon
    <2> QED
      BY <2>1, <2>3, <2>4 DEF TextInv, YamlInv, Worth
  <1>2. CASE text = body
    <2> DEFINE current == [heading |-> text.heading, content |-> text.open]
    <2>1. /\ DOMAIN text = BodyFields /\ text = [x \in BodyFields |-> text[x]]
          /\ text.on = "body" /\ text.lines = <<>> /\ text.sections = <<>> /\ text.heading = None
          /\ text.open = <<>> /\ current.heading = None /\ current.content = <<>>
      BY <1>2 DEF BodyFields
    <2>2. current \in SectionType
      <3>1. current.content \in Seq(BodyLines)
        BY <1>0, <2>1, Zenon
      <3> QED
        BY <2>1, <3>1 DEF SectionType
    <2> HIDE DEF current
    <2>3. HeadingsAt(<<>>) = {}
      BY DEF HeadingsAt
    <2>4. <<>> \o <<>> = <<>>
      OBVIOUS
    <2>5. Flat(<<>>) = <<>> /\ ExtractRules(<<>>) = <<>>
      <3>1. <<>> \in Seq(SectionType)
        OBVIOUS
      <3> QED
        BY <3>1, SectionsGrow, Zenon
    <2>6. LinesOf(current) = <<>> /\ RulesOf(current) = <<>>
      BY <2>1, <2>4, Zenon DEF LinesOf, RulesOf
    <2>7. RulesUnder(<<>>) = <<>>
      <3>1. PICK line : line \in BodyLines
        <4>1. [kind |-> "text"] \in BodyLines
          BY DEF BodyLines
        <4> QED
          BY <4>1
      <3>2. <<>> \in Seq(BodyLines)
        OBVIOUS
      <3> QED
        BY <3>1, <3>2, RulesUnderGrow, Zenon
    <2>8. /\ Flat(text.sections) \o LinesOf(current) = text.lines
          /\ ExtractRules(text.sections) \o RulesOf(current) = RulesUnder(text.lines)
      BY <2>1, <2>4, <2>5, <2>6, <2>7, Zenon
    <2>9. text.lines \in Seq(BodyLines) /\ text.sections \in Seq(SectionType)
      BY <1>0, <2>1, Zenon
    <2>10. text.heading = IF HeadingsAt(text.lines) = {} THEN None ELSE text.lines[Max(HeadingsAt(text.lines))]
      BY <2>1, <2>3, Zenon
    <2> QED
      BY <2>1, <2>2, <2>8, <2>9, <2>10, Zenon DEF TextInv, BodyInv, current
  <1>3. ASSUME NEW rules \in SeqOf(Words, 3), NEW limit \in 0..MaxRuleLimit,
               text = [on |-> "prompt", rules |-> rules, limit |-> limit, shown |-> None]
        PROVE  TextInv
    <2>1. rules \in Seq(Words) /\ limit \in Nat
      BY SeqOfIs
    <2>2. /\ DOMAIN text = PromptFields /\ text = [x \in PromptFields |-> text[x]]
          /\ text.on = "prompt" /\ text.rules = rules /\ text.limit = limit /\ text.shown = None
      BY <1>3 DEF PromptFields
    <2>3. PromptIsWithinLimit
      BY <2>2 DEF PromptIsWithinLimit
    <2> QED
      BY <2>1, <2>2, <2>3 DEF TextInv, PromptInv
  <1> QED
    BY <1>1, <1>2, <1>3 DEF TextInit

LEMMA TextKeeps ==
    ASSUME TextInv, TextNext
    PROVE  TextInv'
  <1>1. CASE ParseYamlLine
    <2>1. text.on = "yaml"
      BY <1>1 DEF ParseYamlLine
    <2>2. PICK line \in YamlLines : YamlReads(line)
      BY <1>1 DEF ParseYamlLine, YamlReads
    <2>3. YamlInv
      BY <2>1 DEF TextInv
    <2>4. YamlInv' /\ text'.on = "yaml"
      BY <2>1, <2>2, <2>3, YamlLineKeeps
    <2> QED
      BY <2>4 DEF TextInv
  <1>2. CASE ParseBodyLine
    <2>1. text.on = "body"
      BY <1>2 DEF ParseBodyLine
    <2>2. PICK line \in BodyLines : BodyReads(line)
      BY <1>2 DEF ParseBodyLine, BodyReads
    <2>3. BodyInv
      BY <2>1 DEF TextInv
    <2>4. BodyInv' /\ text'.on = "body"
      BY <2>1, <2>2, <2>3, BodyLineKeeps
    <2> QED
      BY <2>4 DEF TextInv
  <1>3. CASE ParseSkillContent
    <2>1. text.on = "body"
      BY <1>3 DEF ParseSkillContent
    <2>2. BodyInv
      BY <2>1 DEF TextInv
    <2> QED
      BY <1>3, <2>2, ManifestIs DEF TextInv
  <1>4. CASE FormatSkillPrompt
    <2>1. text.on = "prompt"
      BY <1>4 DEF FormatSkillPrompt
    <2>2. PromptInv
      BY <2>1 DEF TextInv
    <2> QED
      BY <1>4, <2>2, PromptKeeps DEF TextInv
  <1> QED
    BY <1>1, <1>2, <1>3, <1>4 DEF TextNext

LEMMA TextHolds ==
    ASSUME TextInv
    PROVE  FrontmatterIsBlocks /\ ManifestIsText /\ PromptIsWithinLimit
  <1>1. text.on = "yaml" => FrontmatterIsBlocks
    BY DEF TextInv, YamlInv, Worth, FrontmatterIsBlocks
  <1> QED
    BY <1>1 DEF TextInv, PromptInv, FrontmatterIsBlocks, ManifestIsText, PromptIsWithinLimit
=============================================================================
