----------------------------- MODULE SkillStore -----------------------------
(* skills/downloader.ts and registry.ts.  A download is staged in a directory  *)
(* of its own, verified, and moved over the cached one, by a rename or, when   *)
(* that fails, by a copy; two downloads of one source may be under way, and    *)
(* the process may die.  The registry keeps skills, their catalog and an index *)
(* by category, and can save the catalog and load it again.                    *)
EXTENDS NoValue, Integers, FiniteSets

CONSTANTS Versions,        \* what the source may hold
          Refused,         \* those that validation refuses
          NoManifest,      \* a version without a manifest, or a broken tarball
          Clients,
          MaxFetchRetries,
          Categories,
          Faulty           \* bound: renames and copies that fail for the filesystem's sake

VARIABLE store

Downloading == store.on = "download"

Gone == [v \in Versions |-> "none"]

Whole(v) == [Gone EXCEPT ![v] = "all"]

Names == {"Fix Bugs", "fix-bugs", "tdd"}

NormalizeSkillId(name) == IF name = "Fix Bugs" THEN "fix-bugs" ELSE name

Ids == {NormalizeSkillId(n) : n \in Names}

Manifest == [name : Names, category : Categories]

CatalogEntry ==
  [name : Names, category : Categories, manifest : Manifest \cup {None}, installs : Nat]

\* Validation tells what is refused among what the source may hold, and None
\* stands for what is not there.
ASSUME StoreAssumption ==
  /\ Refused \subseteq Versions /\ NoManifest \in Versions
  /\ None \notin Manifest \cup CatalogEntry

\* loadCanonicalSkills, when the registry is created.
Preloaded(c) ==
  LET manifest == [name |-> "tdd", category |-> c]
      entry == [name |-> "tdd", category |-> c, manifest |-> manifest, installs |-> 1]
  IN [on |-> "registry",
      skills |-> [i \in Ids |-> IF i = "tdd" THEN manifest ELSE None],
      catalog |-> [i \in Ids |-> IF i = "tdd" THEN entry ELSE None],
      index |-> [k \in Categories |-> IF k = c THEN {"tdd"} ELSE {}], saved |-> None]

StoreInit ==
  \/ store = [on |-> "download", target |-> Gone, staging |-> [c \in Clients |-> "absent"],
              at |-> [c \in Clients |-> "idle"], attempt |-> [c \in Clients |-> 0],
              master |-> [c \in Clients |-> FALSE], cut |-> [c \in Clients |-> FALSE],
              answer |-> [c \in Clients |-> None], spoiled |-> FALSE, faults |-> 0]
  \/ \E c \in Categories : store = Preloaded(c)
-----------------------------------------------------------------------------
(* Downloads *)

Goes(c, from, to) == Downloading /\ store.at[c] = from /\ store' = [store EXCEPT !.at[c] = to]

Present == Downloading /\ store.target # Gone

\* isCacheFresh: without a time to live, which is taken from the timeout of the
\* request, what is there is fresh.
CheckCache(c) ==
  \/ Present /\ Goes(c, "idle", "find")
  \/ Goes(c, "idle", "stage")

HasWhole == Downloading /\ \E v \in Versions : store.target[v] = "all"

\* The cached directory may go between the check, the search and the read, and
\* what is there in part may be without its manifest.
FindManifest(c) ==
  \/ Present /\ Goes(c, "find", "read")
  \/ Goes(c, "find", "stage") /\ ~HasWhole

\* What a client is answered: of which download the manifest is, whether the
\* directory it is told of holds that download whole and nothing else, and
\* whether there was a cause for it not to.
Told(v, target, cause) == [version |-> v, whole |-> target = Whole(v), cause |-> cause]

\* Whatever files are there are taken for the skill; a manifest that is there in
\* part may not parse.
ReadCached(c) ==
  /\ Downloading /\ store.at[c] = "read"
  /\ \/ \E v \in {w \in Versions : store.target[w] # "none"} :
          LET cause == store.spoiled \/ \E d \in Clients : store.at[d] = "copied"
          IN store' = [store EXCEPT !.at[c] = "done", !.answer[c] = Told(v, store.target, cause)]
     \/ /\ ~HasWhole
        /\ store' = [store EXCEPT !.at[c] = "failed"]

Stage(c) ==
  /\ Downloading /\ store.at[c] = "stage"
  /\ store' = [store EXCEPT !.at[c] = "fetch", !.staging[c] = "empty", !.attempt[c] = 0,
                            !.master[c] = FALSE]

\* One attempt of fetchWithRetry, or the clone: the source may have changed
\* between two attempts.
FetchSucceeds(c) ==
  /\ Downloading /\ store.at[c] = "fetch"
  /\ \E v \in Versions : store' = [store EXCEPT !.at[c] = "verify", !.staging[c] = v]

\* Every failure is tried again, also a status that is not worth it; a raw
\* manifest that is not on main is looked for on master, with retries anew.
FetchFails(c) ==
  /\ Downloading /\ store.at[c] = "fetch"
  /\ IF store.attempt[c] < MaxFetchRetries
       THEN store' = [store EXCEPT !.attempt[c] = @ + 1]
       ELSE \/ /\ ~store.master[c]
               /\ store' = [store EXCEPT !.attempt[c] = 0, !.master[c] = TRUE]
            \/ store' = [store EXCEPT !.at[c] = "failed", !.staging[c] = "absent"]

\* stageAndVerifySkill
Accepts(v) == v # NoManifest /\ v \notin Refused

VerifySkill(c) ==
  /\ Downloading /\ store.at[c] = "verify"
  /\ store' = IF Accepts(store.staging[c]) THEN [store EXCEPT !.at[c] = "remove"]
              ELSE [store EXCEPT !.at[c] = "failed", !.staging[c] = "absent"]

Installing == {"rename", "copy", "copied"}

\* rm -r of the cached directory; another client's copy into it is cut off.
KeepTarget(s) == s

DropTarget(s) == [s EXCEPT !.target = Gone, !.cut = [d \in Clients |-> s.at[d] = "copied"]]

RemoveTarget(c) ==
  /\ Downloading /\ store.at[c] = "remove"
  /\ store' = [DropTarget(store) EXCEPT !.at[c] = "rename",
                 !.spoiled = \E d \in Clients \ {c} : store.at[d] \in Installing]

\* A directory that somebody else has put there in the meantime, or one on
\* another filesystem, is no target of a rename.
RenameStaging(c) ==
  /\ Downloading /\ store.at[c] = "rename"
  /\ \/ /\ ~Present
        /\ LET v == store.staging[c]
           IN store' = [store EXCEPT !.at[c] = "done", !.target = Whole(v), !.staging[c] = "absent",
                                     !.answer[c] = Told(v, Whole(v), FALSE)]
     \/ /\ Present
        /\ store' = [store EXCEPT !.at[c] = "copy"]
     \/ /\ store.faults < Faulty
        /\ store' = [store EXCEPT !.at[c] = "copy", !.faults = @ + 1]

\* cp -R over what is there.
CopyBegins(c) ==
  /\ Downloading /\ store.at[c] = "copy"
  /\ store' = [store EXCEPT !.at[c] = "copied", !.cut[c] = FALSE,
                 !.target = [v \in Versions |-> IF v = store.staging[c] \/ @[v] # "none"
                                                  THEN "part" ELSE "none"],
                 !.spoiled = @ \/ \E d \in Clients \ {c} : store.at[d] \in Installing]

\* The exit code of cp is not looked at: what it was to install is answered, also
\* when it wrote nothing, or stopped half way.
Answered(c, target, failed) ==
  LET v == store.staging[c]
  IN store' = [store EXCEPT !.at[c] = "done", !.staging[c] = "absent", !.target = target,
                 !.answer[c] = Told(v, target, store.spoiled \/ store.cut[c] \/ failed),
                 !.spoiled = @ \/ failed, !.faults = IF failed THEN @ + 1 ELSE @]

CopyEnds(c) ==
  /\ Downloading /\ store.at[c] = "copied"
  /\ \/ Answered(c, [store.target EXCEPT ![store.staging[c]] = IF store.cut[c] THEN @ ELSE "all"],
                  FALSE)
     \/ store.faults < Faulty /\ Answered(c, store.target, TRUE)

CopyNeverBegins(c) ==
  /\ Downloading /\ store.at[c] = "copy" /\ store.faults < Faulty
  /\ Answered(c, store.target, TRUE)

AskAgain(c) ==
  /\ Downloading /\ store.at[c] \in {"done", "failed"}
  /\ store' = [store EXCEPT !.at[c] = "idle", !.answer[c] = None]

\* SkillDownloader.clearCache
ClearCache == Downloading /\ Present /\ store' = DropTarget(store)

\* The process dies: what was staged stays behind under a name of its own.
Dies ==
  /\ Downloading /\ \E c \in Clients : store.at[c] \notin {"idle", "done", "failed"}
  /\ store' = [store EXCEPT
       !.at = [c \in Clients |-> "idle"], !.answer = [c \in Clients |-> None],
       !.staging = [c \in Clients |-> "absent"], !.attempt = [c \in Clients |-> 0],
       !.spoiled = @ \/ \E c \in Clients : store.at[c] = "copied"]
-----------------------------------------------------------------------------
(* The registry *)

Indexed(s, category, id) == [s EXCEPT !.index[category] = @ \cup {id}]

\* createCatalogEntry: the installs of the entry before are kept.
RegisterSkill(m) ==
  /\ ~Downloading
  /\ LET id == NormalizeSkillId(m.name)
         before == store.catalog[id]
         entry == [name |-> m.name, category |-> m.category, manifest |-> m,
                   installs |-> IF before = None THEN 0 ELSE before.installs]
     IN store' = Indexed([store EXCEPT !.skills[id] = m, !.catalog[id] = entry], m.category, id)

WithEntry(s, e) ==
  LET id == NormalizeSkillId(e.name)
  IN Indexed([s EXCEPT !.catalog[id] = e,
                       !.skills[id] = IF e.manifest = None THEN @ ELSE e.manifest], e.category, id)

\* A row of a catalog in Markdown, which has no manifest.
RegisterCatalogEntry ==
  /\ ~Downloading
  /\ \E name \in Names, category \in Categories :
       store' = WithEntry(store, [name |-> name, category |-> category, manifest |-> None,
                                    installs |-> 1])

SaveCatalog == ~Downloading /\ store' = [store EXCEPT !.saved = store.catalog]

\* loadCatalog of what was saved, by a new process: the entries are registered
\* over the built-in ones, each under its own id.
LoadSkillCatalog ==
  /\ ~Downloading /\ store.saved # None
  /\ \E c \in Categories :
       LET fresh == Preloaded(c)
           entryOf(i) == store.saved[i]
           manifestOf(i) == IF entryOf(i) = None \/ entryOf(i).manifest = None
                              THEN fresh.skills[i] ELSE entryOf(i).manifest
       IN store' = [fresh EXCEPT
            !.skills = [i \in Ids |-> manifestOf(i)],
            !.catalog = [i \in Ids |-> IF entryOf(i) = None THEN @[i] ELSE entryOf(i)],
            !.index = [k \in Categories |->
                        @[k] \cup {i \in Ids : entryOf(i) # None /\ entryOf(i).category = k}],
            !.saved = store.saved]

\* SkillRegistry.clear
ClearRegistry ==
  /\ ~Downloading
  /\ store' = [store EXCEPT !.skills = [i \in Ids |-> None], !.catalog = [i \in Ids |-> None],
                            !.index = [k \in Categories |-> {}]]

StoreNext ==
  \/ \E c \in Clients :
       \/ CheckCache(c) \/ FindManifest(c) \/ ReadCached(c) \/ Stage(c) \/ FetchSucceeds(c)
       \/ FetchFails(c) \/ VerifySkill(c) \/ RemoveTarget(c) \/ RenameStaging(c)
       \/ CopyBegins(c) \/ CopyEnds(c) \/ CopyNeverBegins(c) \/ AskAgain(c)
  \/ ClearCache \/ Dies
  \/ \E m \in Manifest : RegisterSkill(m)
  \/ RegisterCatalogEntry \/ SaveCatalog \/ LoadSkillCatalog \/ ClearRegistry
-----------------------------------------------------------------------------
(* Properties *)

\* Whatever is answered or cached is of a download that has been verified, if
\* perhaps not all of it.  What is cached is one download whole, and what is
\* answered tells of one, unless a copy is under way, installs overlapped, a copy
\* failed or was cut off by a removal or a death since the cache was last emptied:
\* of these the code notices none.  And no client leaves its staging directory
\* behind (downloadSkill, stageAndVerifySkill, findManifestFile).
CacheIsVerified ==
  Downloading =>
    /\ \A c \in Clients :
         store.answer[c] # None =>
           /\ Accepts(store.answer[c].version)
           /\ store.answer[c].whole \/ store.answer[c].cause
    /\ \A v \in Refused \cup {NoManifest} : store.target[v] = "none"
    /\ \/ store.spoiled \/ store.target = Gone
       \/ \E c \in Clients : store.at[c] = "copied"
       \/ \E v \in Versions : store.target = Whole(v)
    /\ \A c \in Clients : store.at[c] \in {"idle", "done", "failed"} => store.staging[c] = "absent"

\* Skills, catalog and index tell the same: a skill has an entry and is found
\* under its category, what an entry says of its manifest is the skill, and no
\* category names an id that is unknown (registerSkill, registerCatalogEntry,
\* loadCatalog).
RegistryAgrees ==
  ~Downloading =>
    /\ \A i \in Ids :
         LET m == store.skills[i]
             e == store.catalog[i]
         IN /\ m # None => e # None /\ i \in store.index[m.category] /\ NormalizeSkillId(m.name) = i
            /\ e # None => e.manifest \in {None, m} /\ i \in store.index[e.category]
    /\ \A k \in Categories : \A i \in store.index[k] : store.catalog[i] # None
=============================================================================
