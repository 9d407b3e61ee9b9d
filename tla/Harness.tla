------------------------------- MODULE Harness -------------------------------
(* runner/: the matrix runner with its workers and containers, the history of  *)
(* an agent's conversation and its pruning, and the scenario catalog.  A       *)
(* harness is one of the three.  Tokens of a message are its size; prompts,    *)
(* costs and durations are left out.                                           *)
EXTENDS NoValue, Integers, Sequences, SequencesExt, FiniteSets

CONSTANTS Cells,       \* number of cells of a matrix
          Workers,
          MaxMessages, MaxCalls, \* bounds: messages of a conversation, tool calls
          MaxTokens,
          Entries     \* the catalogs that may lie on disk, sequences of entries

VARIABLE harness

\* As many workers are started as may run at once, but no more than there are
\* cells; entries are parsed from an array.
ASSUME HarnessAssumption ==
  /\ Cells \in Nat /\ (Workers = {} => Cells = 0)
  /\ \A disk \in Entries :
       Len(disk.entries) \in Nat /\ DOMAIN disk.entries = 1..Len(disk.entries)

HarnessInit ==
  \/ \E pool \in BOOLEAN :
       harness = [on |-> "matrix", pool |-> pool, next |-> 1, rejected |-> FALSE,
                  worker |-> [w \in Workers |-> [at |-> "idle", cell |-> 0]],
                  container |-> [c \in 1..Cells |-> "none"],
                  results |-> [c \in 1..Cells |-> "none"]]
  \/ harness = [on |-> "context", calls |-> 0, answered |-> 0, messages |->
                  <<[role |-> "system", id |-> 0, size |-> 1], [role |-> "user", id |-> 0, size |-> 1]>>]
  \/ \E disk \in Entries :
       harness = [on |-> "catalog", disk |-> disk, cache |-> {}, catalog |-> None, outcome |-> "none"]

Is(part) == harness.on = part
-----------------------------------------------------------------------------
(* MatrixRunner: each worker takes the next cell until none is left.           *)

At(w, place) == Is("matrix") /\ harness.worker[w].at = place

Cell(w) == harness.worker[w].cell

Moved(w, place) == [harness EXCEPT !.worker[w].at = place]

\* onCellStart may throw, and so rejects the worker and the whole run, while
\* the other workers go on.
TakeCell(w, throws) ==
  /\ At(w, "idle") /\ harness.next <= Cells
  /\ harness' = [harness EXCEPT !.next = @ + 1, !.rejected = @ \/ throws,
       !.worker[w] = [at |-> IF throws THEN "gone"
                             ELSE IF harness.pool THEN "acquire" ELSE "run",
                      cell |-> harness.next]]

AcquireContainer(w, granted) ==
  /\ At(w, "acquire")
  /\ harness' = IF granted THEN [Moved(w, "run") EXCEPT !.container[Cell(w)] = "held"]
                ELSE [Moved(w, "release") EXCEPT !.results[Cell(w)] = "error"]

RunCell(w, result) ==
  /\ At(w, "run")
  /\ harness' = [Moved(w, "release") EXCEPT !.results[Cell(w)] = result]

\* A variant: a container whose run failed is kept.
LeakOnError(w) ==
  /\ At(w, "release")
  /\ harness' = [Moved(w, "complete") EXCEPT !.container[Cell(w)] =
                   IF @ = "held" /\ harness.results[Cell(w)] # "error" THEN "released" ELSE @]

\* finally: a container that was acquired is handed back, however the run went.
ReleaseContainer(w) ==
  /\ At(w, "release")
  /\ harness' = [Moved(w, "complete") EXCEPT !.container[Cell(w)] =
                   IF @ = "held" THEN "released" ELSE @]

\* onCellComplete throwing costs the result, too: it is stored after it.
CompleteCell(w, throws) ==
  /\ At(w, "complete")
  /\ harness' = [Moved(w, IF throws THEN "gone" ELSE "idle") EXCEPT
                   !.rejected = @ \/ throws,
                   !.results[Cell(w)] = IF throws THEN "none" ELSE @]

StopWorker(w) ==
  /\ At(w, "idle") /\ harness.next > Cells
  /\ harness' = Moved(w, "gone")

RunMatrix ==
  \E w \in Workers :
    \/ \E throws \in BOOLEAN : TakeCell(w, throws) \/ CompleteCell(w, throws)
    \/ \E granted \in BOOLEAN : AcquireContainer(w, granted)
    \/ \E result \in {"success", "limit", "error"} : RunCell(w, result)
    \/ ReleaseContainer(w) \/ StopWorker(w)
-----------------------------------------------------------------------------
(* AgentContextManager: an assistant's turn may call tools, whose answers      *)
(* follow it.                                                                  *)

Said(role, id, size) == [role |-> role, id |-> id, size |-> size]

AddAssistantTurn(calls, size) ==
  /\ Is("context") /\ Len(harness.messages) < MaxMessages
  /\ harness.answered = harness.calls /\ harness.calls + calls <= MaxCalls
  /\ harness' = [harness EXCEPT !.calls = @ + calls,
                   !.messages = Append(@, Said("assistant", harness.calls + calls, size))]

AddToolResult(size) ==
  /\ Is("context") /\ Len(harness.messages) < MaxMessages
  /\ harness.answered < harness.calls
  /\ harness' = [harness EXCEPT !.answered = @ + 1,
                   !.messages = Append(@, Said("tool", harness.answered + 1, size))]

AddUserMessage(size) ==
  /\ Is("context") /\ Len(harness.messages) < MaxMessages
  /\ harness.answered = harness.calls
  /\ harness' = [harness EXCEPT !.messages = Append(@, Said("user", 0, size))]

Tokens(messages) == FoldSeq(LAMBDA m, sum : sum + m.size, 0, messages)

\* Where the blocks of a history begin: at what is no tool's answer, after the
\* system prompt and the first message.
Starts(messages) ==
  {i \in 3..Len(messages) : i = 3 \/ messages[i].role # "tool"}

From(messages, i) == SubSeq(messages, 1, 2) \o SubSeq(messages, i, Len(messages))

BlocksFrom(messages, i) == Cardinality({j \in Starts(messages) : j >= i})

\* pruneHistory: the oldest blocks go until the turns and the tokens fit, but
\* the last block stays whatever its size.
Fits(messages, i, turns, tokens) ==
  /\ turns = 0 \/ BlocksFrom(messages, i) <= turns
  /\ tokens = 0 \/ Tokens(From(messages, i)) <= tokens \/ BlocksFrom(messages, i) = 1

\* A variant: as many messages are kept as turns are allowed.
PruneMidTurn(messages, turns, tokens) ==
  IF Len(messages) <= 2 \/ turns = 0 THEN messages
  ELSE From(messages, IF Len(messages) - turns + 1 < 3 THEN 3 ELSE Len(messages) - turns + 1)

Pruned(messages, turns, tokens) ==
  IF Len(messages) <= 2 THEN messages
  ELSE From(messages, CHOOSE i \in Starts(messages) :
         /\ Fits(messages, i, turns, tokens)
         /\ \A j \in Starts(messages) : Fits(messages, j, turns, tokens) => i <= j)

\* A limit of 0 stands for none.
PruneHistory(turns, tokens) ==
  /\ Is("context")
  /\ harness' = [harness EXCEPT !.messages = Pruned(@, turns, tokens)]

Converse ==
  \/ \E size \in {1, 2} :
       \/ \E calls \in 0..2 : AddAssistantTurn(calls, size)
       \/ AddToolResult(size) \/ AddUserMessage(size)
  \/ \E turns \in 0..2, tokens \in 0..MaxTokens : PruneHistory(turns, tokens)
-----------------------------------------------------------------------------
(* ScenarioLoader.  An entry: its id, category and path, whether the path lies *)
(* in the directory, and the id and category of the file there (None: no such  *)
(* file, or one that is no scenario).                                          *)

\* Index of the first entry that is refused, or one past the last.
FirstRefused(entries) ==
  CHOOSE k \in 1..(Len(entries) + 1) :
    LET Unsound(i) ==
          \/ \E j \in 1..(i - 1) : entries[j].id = entries[i].id \/ entries[j].path = entries[i].path
          \/ entries[i].file = None
          \/ entries[i].file # None /\ entries[i].file # <<entries[i].id, entries[i].category>>
    IN /\ k <= Len(entries) => Unsound(k)
       /\ \A i \in 1..(k - 1) : ~Unsound(i)

\* As many categories are listed as the entries have, and each is theirs; what
\* is listed twice stands in for one that is missing.
CategoriesMatch(disk) ==
  LET actual == {disk.entries[i].category : i \in DOMAIN disk.entries}
  IN Len(disk.categories) = Cardinality(actual) /\ ToSet(disk.categories) \subseteq actual

\* loadCatalog: read once; a refused catalog leaves what it had cached, and is
\* read again at the next call.
LoadCatalog ==
  /\ Is("catalog") /\ harness.catalog = None
  /\ LET entries == harness.disk.entries
         n == FirstRefused(entries) - 1
         read == {entries[i] : i \in 1..n}
         cached == {e \in harness.cache : \A r \in read : r.id # e.id} \cup read
     IN harness' = IF n = Len(entries) /\ CategoriesMatch(harness.disk)
                     THEN [harness EXCEPT !.cache = cached, !.catalog = harness.disk,
                                          !.outcome = "loaded"]
                     ELSE [harness EXCEPT !.cache = cached, !.outcome = "refused"]

ChangeDisk ==
  /\ Is("catalog")
  /\ \E disk \in Entries : harness' = [harness EXCEPT !.disk = disk]

\* loadScenario: the cache is keyed by id, and a later entry replaces.
LoadScenario(id) ==
  /\ Is("catalog") /\ harness.catalog # None
  /\ harness' = [harness EXCEPT !.outcome =
       IF \E i \in DOMAIN harness.catalog.entries : harness.catalog.entries[i].id = id
         THEN IF \E e \in harness.cache : e.id = id THEN "scenario" ELSE "scenario_invalid"
         ELSE "scenario_unresolved"]

HarnessNext ==
  \/ RunMatrix \/ Converse
  \/ LoadCatalog \/ ChangeDisk \/ \E id \in {1, 2, 3} : LoadScenario(id)
-----------------------------------------------------------------------------
(* Properties *)

\* No container outlives its cell, and a run that is not rejected has a result
\* of every cell, whatever failed and however the workers interleave
\* (runMatrix, executeCell).
MatrixIsWhole ==
  Is("matrix") =>
    /\ \A c \in 1..Cells : harness.container[c] = "held" =>
         \E w \in Workers : Cell(w) = c /\ harness.worker[w].at \in {"run", "release"}
    /\ (\A w \in Workers : At(w, "gone")) /\ ~harness.rejected =>
         \A c \in 1..Cells : harness.results[c] # "none"
    /\ \A v, w \in Workers : v # w /\ Cell(v) > 0 => Cell(v) # Cell(w)

\* Pruning leaves the prompt, keeps every call together with its answers, and
\* never takes the last turn (pruneHistory).
HistoryIsWhole ==
  Is("context") =>
    LET ms == harness.messages
        asks == {i \in DOMAIN ms : ms[i].role = "assistant"}
    IN /\ ms[1].role = "system" /\ ms[2].role = "user"
       /\ \A i \in DOMAIN ms : ms[i].role = "tool" =>
            \E a \in asks : a < i /\ ms[a].id >= ms[i].id /\ \A j \in (a + 1)..i : ms[j].role = "tool"
       /\ harness.answered < harness.calls => asks # {}

\* A catalog that was loaded has a scenario of its own, read and checked, for
\* every entry, even after refused attempts (loadCatalog, loadScenario).
CatalogIsWhole ==
  Is("catalog") =>
    /\ harness.outcome # "scenario_invalid"
    /\ harness.catalog # None =>
         \A i \in DOMAIN harness.catalog.entries : LET e == harness.catalog.entries[i] IN
           /\ e \in harness.cache /\ e.file = <<e.id, e.category>>
           /\ \A j \in DOMAIN harness.catalog.entries :
                harness.catalog.entries[j].id = e.id => i = j
=============================================================================
