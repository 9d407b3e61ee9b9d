------------------------- MODULE CellExecutionProofs -------------------------
(***************************************************************************)
(* What one cell promises, for every number of retries, limits and faults: *)
(* its money (SpendOK), its evidence (RowOK, FilesOK), its resources       *)
(* (CleanOK), and its event log (LogOK, StreamOK).                         *)
(***************************************************************************)
EXTENDS CellExecution, FiniteSetTheorems, TLAPS

Reasons == {"success", "timeout", "aborted", "error", "max_turns",
            "budget_exceeded", "tool_error_loop"}

Asking == {"provider", "command"}

\* The places of a cell after its workspace is gone and before it has returned,
\* when all goes well, and the other ones a live cell can be at.
Saving == {"insert", "publish", "unlink", "commit", "discard"}
Failing == {"failureFile", "failureRow"}
Trying == {"terminalize", "prepare", "workspace", "attempt", "acquire", "running",
           "release", "decide", "dispose"}
Places == {"start", "done", "dead"} \cup Trying \cup Saving \cup Failing

Turn == [spent : Nat, calls : Nat, answered : Nat, bad : Nat]

RunState == [at : {"idle", "close"} \cup Asking, turn : Nat, cost : Nat, recorded : Nat,
             failures : Nat, reason : Reasons \cup {"thrown"}, final : BOOLEAN, now : Turn]

Event == [by : Nat, seq : Nat, type : {"run:start", "step", "run:finish"}]

Scribe == [id : Nat, emitted : Nat, buffer : Seq(Event), chain : {"live", "rejected"},
           open : BOOLEAN]

CellState == [at : Places, attempt : Nat, infra : BOOLEAN, result : Reasons \cup {None},
              reason : Reasons \cup {None, "persistence_failed"}, prefer : BOOLEAN,
              returned : {None, "completed", "aborted", "failed", "conflict", "thrown"}]

FileState == [manifest : BOOLEAN, result : Reasons \cup {None, "persistence_failed"},
              failure : {None, "persistence_failed"}, temp : BOOLEAN]

Types ==
    /\ cell \in CellState
    /\ files \in FileState
    /\ run \in RunState
    /\ scribe \in Scribe
    /\ log \in Seq(Event)
    /\ aborted \in BOOLEAN /\ local \in BOOLEAN /\ container \in BOOLEAN /\ claim \in BOOLEAN

\* A run and its scribe are there just as long as the cell waits for them.
Coupled ==
    /\ cell.at = "running" <=> run.at # "idle"
    /\ cell.at = "running" <=> scribe.open
    /\ cell.at \in {"start", "dead"} => scribe = NoScribe
    /\ cell.at = "done" <=> cell.returned # None

\* What a run has spent and what it has recorded.
SpendOK ==
    /\ run.at \in Asking => run.reason = "success" /\ run.recorded < MaxCost
    /\ run.at = "provider" => run.cost = run.recorded /\ run.now.spent = 0
    /\ run.at = "command" => run.cost = run.recorded + run.now.spent
    /\ run.at = "close" =>
          /\ run.cost = 0 \/ run.cost - run.now.spent < MaxCost
          /\ run.cost - run.recorded \in {0, run.now.spent}
          /\ run.reason \in {"success", "max_turns", "budget_exceeded"}
                => run.recorded = run.cost

\* The claim stays until the row is there, and the row ends the cell.
RowOK ==
    /\ cell.at \notin {"start", "done"} => claim
    /\ row # None => cell.at = "done"
    /\ ~Taken => log = <<>> /\ workspace = "absent" /\ files.failure = None
    /\ cell.at \in Saving => cell.reason \in Reasons

\* The files of a cell that has not failed yet are those of its reason.
FilesOK ==
    /\ cell.at \in Trying \cup Saving => files.failure = None
    /\ cell.at \in {"unlink", "commit"} => files.result = cell.reason

\* What a cell still has in its hands, and what it calls itself then.
CleanOK ==
    /\ container => cell.infra \/ cell.at \in {"running", "release", "dead"}
    /\ cell.at = "running" => local \/ container
    /\ local \/ container \/ cell.infra \/ operations = {}
    /\ cell.at = "dead" => operations = {}
    /\ workspace \in {"absent", "partial", "open"}
    /\ cell.at \in Trying /\ workspace = "partial" => cell.infra
    /\ cell.at \in Saving /\ cell.reason = "success" => ~cell.infra /\ workspace = "absent"

\* The events of scribe k among the first n of s.
From(s, k, n) == {i \in 1 .. n : s[i].by = k}
Mine == Cardinality(From(log, scribe.id, Len(log)))

\* Who wrote what is in the log, and what the scribe still has to write.
LogOK ==
    /\ \A i \in DOMAIN log : log[i].seq = Cardinality(From(log, log[i].by, i))
    /\ cell.at \in Trying => /\ \A i \in DOMAIN log : log[i].by \in 1 .. scribe.id
                             /\ scribe.id <= cell.attempt
    /\ cell.at = "acquire" => scribe.id < cell.attempt
    /\ cell.at = "running" => scribe.id = cell.attempt /\ cell.attempt >= 1
    /\ scribe.open => Mine + Len(scribe.buffer) >= scribe.emitted
    /\ scribe.open /\ scribe.chain = "live" => Mine + Len(scribe.buffer) = scribe.emitted
    /\ scribe.chain = "live" =>
          \A i \in DOMAIN scribe.buffer : /\ scribe.buffer[i].by = scribe.id
                                          /\ scribe.buffer[i].seq = Mine + i

Typed(s, t) == {i \in DOMAIN s : s[i].type = t}

\* The log of a first attempt, with what is still in the buffer.
Stream == log \o scribe.buffer

StreamOK ==
    /\ cell.at = "running" /\ cell.attempt = 1 /\ scribe.chain = "live" =>
          /\ Stream # <<>>
          /\ Typed(Stream, "run:start") = {1}
          /\ Typed(Stream, "run:finish")
                = IF run.at = "close" /\ run.reason # "thrown" THEN {Len(Stream)} ELSE {}
    /\ cell.result # None /\ cell.attempt = 1 => Canonical(log)
    /\ cell.result # None =>
          cell.at \in {"release", "decide", "dispose", "dead", "done"} \cup Saving \cup Failing
-----------------------------------------------------------------------------
(* Events *)

EventTypes == {"run:start", "step", "run:finish"}

\* A scribe with another count and another buffer.
Rewritten(e, s, n, b) ==
    /\ e \in Scribe
    /\ e.id = s.id /\ e.open = s.open /\ e.chain = s.chain
    /\ e.emitted = n /\ e.buffer = b

LEMMA ScribeUpdate ==
    ASSUME NEW s \in Scribe, NEW n \in Nat, NEW b \in Seq(Event),
           NEW e, e = [s EXCEPT !.emitted = n, !.buffer = b]
    PROVE  Rewritten(e, s, n, b)
BY DEF Scribe, Rewritten

\* What a scribe e is after scribe s was given the events ts.
Emitted(e, s, ts) ==
    /\ e \in Scribe
    /\ e.id = s.id /\ e.open = s.open /\ e.chain = s.chain
    /\ e.emitted = s.emitted + Len(ts)
    /\ Len(e.buffer) = Len(s.buffer) + Len(ts)
    /\ \A i \in 1 .. Len(s.buffer) : e.buffer[i] = s.buffer[i]
    /\ \A i \in 1 .. Len(ts) :
          e.buffer[Len(s.buffer) + i] = [by |-> s.id, seq |-> s.emitted + i, type |-> ts[i]]

LEMMA EmitFacts ==
    ASSUME NEW s \in Scribe, NEW ts \in Seq(EventTypes)
    PROVE  Emitted(EmitAll(s, ts), s, ts)
<1> DEFINE new == [i \in DOMAIN ts |-> [by |-> s.id, seq |-> s.emitted + i, type |-> ts[i]]]
<1>1. s.id \in Nat /\ s.emitted \in Nat /\ s.buffer \in Seq(Event)
  BY DEF Scribe
<1>2. \A i \in 1 .. Len(ts) : new[i] = [by |-> s.id, seq |-> s.emitted + i, type |-> ts[i]]
  OBVIOUS
<1>3. \A i \in 1 .. Len(ts) : new[i] \in Event
  BY <1>1, <1>2 DEF Event, EventTypes
<1>4. new \in Seq(Event) /\ Len(new) = Len(ts)
  <2>1. /\ new = [i \in DOMAIN ts |-> new[i]]
        /\ DOMAIN ts = 1 .. Len(ts) /\ Len(ts) \in Nat
    OBVIOUS
  <2> HIDE DEF new
  <2>2. QED BY <1>3, <2>1
<1>5. EmitAll(s, ts) = [s EXCEPT !.emitted = @ + Len(ts), !.buffer = @ \o new]
  BY DEF EmitAll
<1> HIDE DEF new
<1>6. /\ s.buffer \o new \in Seq(Event)
      /\ Len(s.buffer \o new) = Len(s.buffer) + Len(ts)
      /\ \A i \in 1 .. Len(s.buffer) : (s.buffer \o new)[i] = s.buffer[i]
      /\ \A i \in 1 .. Len(ts) : (s.buffer \o new)[Len(s.buffer) + i] = new[i]
  BY <1>1, <1>4
<1> DEFINE n == s.emitted + Len(ts)
           b == s.buffer \o new
           e == EmitAll(s, ts)
<1>7. n \in Nat /\ b \in Seq(Event) /\ e = [s EXCEPT !.emitted = n, !.buffer = b]
  BY <1>1, <1>5, <1>6
<1>8. Rewritten(e, s, n, b)
  <2> HIDE DEF n, b, e
  <2> QED BY <1>7, ScribeUpdate, Zenon
<1>9. Emitted(e, s, ts)
  <2>1. \A i \in 1 .. Len(ts) :
           b[Len(s.buffer) + i] = [by |-> s.id, seq |-> s.emitted + i, type |-> ts[i]]
    BY <1>2, <1>6
  <2>2. Len(b) = Len(s.buffer) + Len(ts) /\ \A i \in 1 .. Len(s.buffer) : b[i] = s.buffer[i]
    BY <1>6
  <2> HIDE DEF e, b
  <2>3. QED BY <1>8, <2>1, <2>2 DEF Rewritten, Emitted
<1> QED BY <1>9

\* A scribe after a flush or its close.
LEMMA ScribeWrites ==
    ASSUME NEW s \in Scribe
    PROVE  /\ Written(s) \in Scribe /\ Poisoned(s) \in Scribe
           /\ Written(s).id = s.id /\ Poisoned(s).id = s.id
           /\ Written(s).open = s.open /\ Poisoned(s).open = s.open
           /\ Written(s).emitted = s.emitted /\ Poisoned(s).emitted = s.emitted
           /\ Written(s).chain = s.chain /\ Poisoned(s).chain = "rejected"
           /\ Written(s).buffer = <<>> /\ Poisoned(s).buffer = s.buffer
<1>1. <<>> \in Seq(Event)
  OBVIOUS
<1>2. QED BY <1>1 DEF Written, Poisoned, Scribe

LEMMA ScribeCloses ==
    ASSUME NEW s \in Scribe
    PROVE  [s EXCEPT !.open = FALSE] \in Scribe /\ ~[s EXCEPT !.open = FALSE].open
BY DEF Scribe

LEMMA FreshScribe == \A k \in Nat : Open(k) \in Scribe
BY DEF Open, Scribe

\* The events of a part of a turn: steps, and at the end of the run its finish.
Burst(ts, finish) ==
    /\ ts \in Seq(EventTypes) /\ Len(ts) >= 1
    /\ \A i \in 1 .. Len(ts) :
          ts[i] = IF i = Len(ts) /\ finish THEN "run:finish" ELSE "step"

LEMMA Bursts ==
    /\ Burst(<<"step">>, FALSE)
    /\ Burst(<<"step", "step">>, FALSE)
    /\ Burst(<<"step", "step", "step">>, FALSE)
    /\ Burst(<<"step", "run:finish">>, TRUE)
    /\ Burst(<<"step", "step", "run:finish">>, TRUE)
BY DEF Burst, EventTypes

LEMMA Openings ==
    /\ <<"run:start", "step">> \in Seq(EventTypes)
    /\ <<"run:start", "run:finish">> \in Seq(EventTypes)
BY DEF EventTypes

LEMMA TurnBursts ==
    ASSUME NEW events \in {<<>>, <<"step">>}, NEW last \in {"step", "run:finish"}
    PROVE  Burst(events \o <<"step", last>>, last = "run:finish")
<1> DEFINE two == <<"step", last>>
           ts == events \o two
<1>0. "step" \in EventTypes /\ last \in EventTypes
  BY DEF EventTypes
<1>1. /\ two \in Seq(EventTypes) /\ Len(two) = 2 /\ two[1] = "step" /\ two[2] = last
      /\ events \in Seq(EventTypes) /\ Len(events) \in {0, 1}
      /\ \A i \in 1 .. Len(events) : events[i] = "step"
  <2>1. two \in Seq(EventTypes) /\ Len(two) = 2 /\ two[1] = "step" /\ two[2] = last
    BY <1>0
  <2>2. CASE events = <<>>
    BY <2>1, <2>2
  <2>3. CASE events = <<"step">>
    BY <1>0, <2>1, <2>3
  <2>4. QED BY <2>2, <2>3
<1> HIDE DEF two
<1>2. /\ ts \in Seq(EventTypes) /\ Len(ts) = Len(events) + 2
      /\ \A i \in 1 .. Len(events) : ts[i] = events[i]
      /\ \A i \in 1 .. 2 : ts[Len(events) + i] = two[i]
  <2>1. \A s, t \in Seq(EventTypes) :
           /\ s \o t \in Seq(EventTypes) /\ Len(s \o t) = Len(s) + Len(t)
           /\ \A i \in 1 .. Len(s) : (s \o t)[i] = s[i]
           /\ \A i \in 1 .. Len(t) : (s \o t)[Len(s) + i] = t[i]
    OBVIOUS
  <2>2. /\ ts \in Seq(EventTypes) /\ Len(ts) = Len(events) + Len(two)
        /\ \A i \in 1 .. Len(events) : ts[i] = events[i]
        /\ \A i \in 1 .. Len(two) : ts[Len(events) + i] = two[i]
    BY <1>1, <2>1, Zenon
  <2>3. QED BY <1>1, <2>2
<1> HIDE DEF ts
<1>3. ts[Len(events) + 1] = "step" /\ ts[Len(events) + 2] = last
  BY <1>1, <1>2
<1>4. \A i \in 1 .. Len(ts) : i \in 1 .. Len(events) \/ i = Len(events) + 1 \/ i = Len(events) + 2
  BY <1>1, <1>2
<1>5. \A i \in 1 .. Len(ts) :
         ts[i] = IF i = Len(ts) /\ last = "run:finish" THEN "run:finish" ELSE "step"
  BY <1>1, <1>2, <1>3, <1>4
<1>6. Burst(ts, last = "run:finish")
  BY <1>1, <1>2, <1>5 DEF Burst
<1> QED BY <1>6 DEF ts, two
-----------------------------------------------------------------------------
(* Money *)

Quiet == UNCHANGED <<run, scribe, log, local>>

\* A step of the run that goes on with a turn or ends it.
Turns ==
    /\ run.at \in Asking
    /\ run' \in RunState /\ run'.at # "idle"
    /\ \E ts : /\ Burst(ts, run'.at = "close" /\ run'.reason # "thrown")
               /\ scribe' = EmitAll(scribe, ts)
    /\ UNCHANGED <<log, local, aborted, faults>>

Starts(k) ==
    /\ run.at = "idle"
    /\ run' \in RunState /\ run'.at \in {"provider", "close"} /\ run'.reason # "thrown"
    /\ \/ run'.at = "provider" /\ scribe' = EmitAll(Open(k), <<"run:start", "step">>)
       \/ run'.at = "close" /\ scribe' = EmitAll(Open(k), <<"run:start", "run:finish">>)
    /\ UNCHANGED <<log, local, aborted, faults, operations>>

Records(q, r) ==
    /\ q \in RunState /\ q.at = r.at /\ q.now = r.now /\ q.reason = r.reason
    /\ q.cost = r.cost /\ q.recorded = r.recorded + r.now.spent

LEMMA RecordUpdate ==
    ASSUME NEW r \in RunState, NEW n \in Nat, NEW t \in Nat, NEW f \in Nat, NEW q,
           n = r.recorded + r.now.spent,
           q = [r EXCEPT !.recorded = n, !.turn = t, !.failures = f]
    PROVE  Records(q, r)
BY DEF RunState, Asking, Records

\* Where the head of the loop leaves a run that has recorded what it spent.
\* A run with another place, turn or reason.
Continued(q, r, t) ==
    /\ q \in RunState /\ q.at = "provider" /\ q.now = t
    /\ q.cost = r.cost /\ q.recorded = r.recorded /\ q.reason = r.reason

Closing(q, r, reason) ==
    /\ q \in RunState /\ q.at = "close" /\ q.now = r.now
    /\ q.cost = r.cost /\ q.recorded = r.recorded /\ q.reason = reason

LEMMA RunUpdate ==
    ASSUME NEW r \in RunState, NEW q
    PROVE  /\ \A t \in Turn : q = [r EXCEPT !.at = "provider", !.now = t] => Continued(q, r, t)
           /\ \A reason \in Reasons \cup {"thrown"} :
                 q = [r EXCEPT !.at = "close", !.reason = reason] => Closing(q, r, reason)
BY DEF RunState, Asking, Continued, Closing

LEMMA HeadFacts ==
    ASSUME NEW r \in RunState, NEW cause, r.reason = "success",
           r.cost = r.recorded, r.cost = 0 \/ r.cost - r.now.spent < MaxCost
    PROVE  LET next == LoopHead(r, cause) IN
           /\ next \in RunState /\ next.reason # "thrown"
           /\ \/ /\ LoopExit(r, cause) = "none" /\ next.at = "provider"
                 /\ next.reason = "success" /\ next.recorded < MaxCost
                 /\ next.cost = next.recorded /\ next.now.spent = 0
              \/ /\ LoopExit(r, cause) # "none" /\ next.at = "close"
                 /\ next.cost = next.recorded
                 /\ next.cost = 0 \/ next.cost - next.now.spent < MaxCost
<1>1. NoTurn \in Turn /\ NoTurn.spent = 0
  BY DEF NoTurn, Turn
<1>2. MaxCost \in Nat /\ r.cost \in Nat
  BY RunnerAssumption DEF RunState
<1>3. LoopExit(r, cause) \in Reasons \cup {"none"}
  BY DEF LoopExit, ReasonOf, Reasons
<1>4. CASE LoopExit(r, cause) = "none"
  <2>1. LoopHead(r, cause) = [r EXCEPT !.at = "provider", !.now = NoTurn]
    BY <1>4 DEF LoopHead
  <2>2. ~(r.cost >= MaxCost)
    BY <1>4 DEF LoopExit, OverBudget, ReasonOf
  <2>3. r.cost < MaxCost
    BY <1>2, <2>2, RunnerAssumption
  <2> DEFINE next == LoopHead(r, cause)
  <2>4. Continued(next, r, NoTurn)
    <3>1. next = [r EXCEPT !.at = "provider", !.now = NoTurn]
      BY <2>1
    <3> HIDE DEF next
    <3>2. QED BY <1>1, <3>1, RunUpdate
  <2>5. QED BY <1>1, <1>4, <2>3, <2>4 DEF Continued
<1>5. CASE LoopExit(r, cause) # "none"
  <2>1. LoopHead(r, cause) = Finished(r, LoopExit(r, cause))
    BY <1>5 DEF LoopHead
  <2>2. PICK reason \in Reasons : LoopHead(r, cause) = [r EXCEPT !.at = "close", !.reason = reason]
    BY <1>3, <1>5, <2>1 DEF Finished, Reasons
  <2> DEFINE next == LoopHead(r, cause)
  <2>3. Closing(next, r, reason)
    <3>1. next = [r EXCEPT !.at = "close", !.reason = reason]
      BY <2>2
    <3> HIDE DEF next
    <3>2. QED BY <3>1, RunUpdate
  <2>4. QED BY <1>5, <2>3 DEF Closing, Reasons
<1>6. QED BY <1>4, <1>5
\* A turn that ends records what it spent, and the run goes on or ends with it.
LEMMA EndTurnForm ==
    ASSUME Types, run.at \in Asking, NEW r \in RunState, NEW events \in {<<>>, <<"step">>},
           r.reason = "success", r.cost = r.recorded + r.now.spent,
           r.recorded < MaxCost,
           EndTurn(r, events), UNCHANGED <<log, local, aborted, faults>>
    PROVE  Turns /\ SpendOK'
<1> DEFINE next == Recorded(r)
           reason == IF StopsAtFailure(r) THEN "tool_error_loop"
                     ELSE IF r.now.calls = 0 THEN "success"
                     ELSE LoopExit(next, scopes.scenario)
           ts == events \o <<"step", IF reason = "none" THEN "step" ELSE "run:finish">>
<1>0. /\ MaxCost \in Nat /\ r.recorded \in Nat /\ r.now.spent \in Nat /\ r.now.calls \in Nat
      /\ r.turn \in Nat /\ r.failures \in Nat
  BY RunnerAssumption DEF RunState, Turn, Types
<1>1. Records(next, r)
  <2> DEFINE n == r.recorded + r.now.spent
             t == r.turn + 1
             f == IF r.now.calls = 0 THEN r.failures
                  ELSE IF r.now.bad = r.now.calls THEN r.failures + 1 ELSE 0
  <2>1. next = [r EXCEPT !.recorded = n, !.turn = t, !.failures = f]
    BY DEF Recorded
  <2>2. n \in Nat /\ t \in Nat /\ f \in Nat /\ n = r.recorded + r.now.spent
    BY <1>0
  <2> HIDE DEF next, n, t, f
  <2>3. QED BY <2>1, <2>2, RecordUpdate
<1>2. /\ next \in RunState /\ next.reason = "success" /\ next.cost = next.recorded
      /\ next.cost - next.now.spent < MaxCost
  BY <1>0, <1>1 DEF Records
<1>3. reason \in Reasons \cup {"none"}
  <2>1. LoopExit(next, scopes.scenario) \in Reasons \cup {"none"}
    <3> HIDE DEF next
    <3> QED BY <1>2 DEF LoopExit, ReasonOf, Reasons
  <2> HIDE DEF next
  <2>2. QED BY <2>1 DEF Reasons
<1>4. /\ run' = IF reason = "none" THEN LoopHead(next, "none") ELSE Finished(next, reason)
      /\ scribe' = EmitAll(scribe, ts)
  BY DEF EndTurn
<1>5. Burst(ts, reason # "none")
  <2>1. CASE reason = "none"
    <3>1. ts = events \o <<"step", "step">>
      BY <2>1
    <3> HIDE DEF ts, reason
    <3>2. QED BY <2>1, <3>1, TurnBursts
  <2>2. CASE reason # "none"
    <3>1. ts = events \o <<"step", "run:finish">>
      BY <2>2
    <3> HIDE DEF ts, reason
    <3>2. QED BY <2>2, <3>1, TurnBursts
  <2>3. QED BY <2>1, <2>2
<1> HIDE DEF next, reason, ts
<1>6. CASE reason = "none"
  <2>1. LoopExit(next, scopes.scenario) = "none"
    BY <1>6 DEF reason
  <2>2. LoopExit(next, "none") = "none"
    BY <2>1 DEF LoopExit, ReasonOf
  <2>3. /\ run' \in RunState /\ run'.at = "provider" /\ run'.reason = "success"
        /\ run'.recorded < MaxCost /\ run'.cost = run'.recorded /\ run'.now.spent = 0
    BY <1>2, <1>4, <1>6, <2>2, HeadFacts
  <2>4. QED BY <1>4, <1>5, <1>6, <2>3 DEF Turns, SpendOK, Asking
<1>7. CASE reason # "none"
  <2>1. run' = Finished(next, reason)
    BY <1>4, <1>7
  <2>2. PICK last \in Reasons : run' = [next EXCEPT !.at = "close", !.reason = last]
    BY <1>3, <1>7, <2>1 DEF Finished, Reasons
  <2>3. Closing(run', next, last)
    BY <1>2, <2>2, RunUpdate
  <2>4. /\ run' \in RunState /\ run'.at = "close" /\ run'.reason # "thrown"
        /\ run'.cost = run'.recorded /\ run'.cost - run'.now.spent < MaxCost
    BY <1>2, <2>3 DEF Closing, Reasons
  <2>5. QED BY <1>4, <1>5, <1>7, <2>4 DEF Turns, SpendOK, Asking, RunState
<1>8. QED BY <1>6, <1>7

\* A run with the same money, at another place or with another answer.
Alike(q, r) ==
    /\ q \in RunState /\ q.reason = r.reason
    /\ q.cost = r.cost /\ q.recorded = r.recorded /\ q.now.spent = r.now.spent

LEMMA AlikeUpdates ==
    ASSUME NEW r \in RunState, NEW q
    PROVE  /\ \A b \in BOOLEAN : q = [r EXCEPT !.final = b] => Alike(q, r)
           /\ q = [r EXCEPT !.at = "command"] => Alike(q, r) /\ q.at = "command"
           /\ \A t \in Turn : q = [r EXCEPT !.now = t] /\ t.spent = r.now.spent
                                 => Alike(q, r) /\ q.at = r.at
BY DEF RunState, Asking, Alike

Paid(q, r, x, t) ==
    /\ q \in RunState /\ q.at = r.at /\ q.reason = r.reason
    /\ q.cost = x /\ q.recorded = r.recorded /\ q.now = t

LEMMA PaidUpdate ==
    ASSUME NEW r \in RunState, NEW x \in Nat, NEW t \in Turn,
           NEW q, q = [r EXCEPT !.cost = x, !.now = t]
    PROVE  Paid(q, r, x, t)
BY DEF RunState, Asking, Paid

Spent(q, x) == q \in Turn /\ q.spent = x

LEMMA TurnUpdates ==
    ASSUME NEW t \in Turn, NEW a \in Nat, NEW b \in Nat, NEW q
    PROVE  /\ q = [t EXCEPT !.spent = a, !.calls = b] => Spent(q, a)
           /\ q = [t EXCEPT !.answered = a, !.bad = b] => Spent(q, t.spent)
BY DEF Turn, Spent

\* The catch of the turn.
LEMMA FailTurnForm ==
    ASSUME Types, SpendOK, run.at \in Asking, NEW reason \in {"timeout", "error", "aborted"},
           FailTurn(reason), UNCHANGED <<log, local, aborted, faults>>
    PROVE  Turns /\ SpendOK'
<1>0. /\ run \in RunState /\ MaxCost \in Nat /\ run.cost \in Nat /\ run.recorded \in Nat
      /\ run.now.spent \in Nat
  BY RunnerAssumption DEF Types, RunState, Turn
<1>1. run' = [run EXCEPT !.at = "close", !.reason = reason]
  BY DEF FailTurn, Finished
<1>2. Closing(run', run, reason)
  BY <1>0, <1>1, RunUpdate DEF Reasons
<1>3. scribe' = EmitAll(scribe, <<"step", "run:finish">>)
  BY DEF FailTurn
<1>4. Turns
  BY <1>2, <1>3, Bursts DEF Turns, Closing
<1>5. run.cost - run.now.spent < MaxCost /\ run.cost - run.recorded \in {0, run.now.spent}
  BY <1>0 DEF SpendOK, Asking
<1>6. SpendOK'
  BY <1>2, <1>5 DEF SpendOK, Closing, Asking
<1>7. QED BY <1>4, <1>6

LEMMA AnswerForm ==
    ASSUME Types, SpendOK, ProviderAnswers
    PROVE  Turns /\ SpendOK'
<1>0. /\ run \in RunState /\ run.now \in Turn /\ MaxCost \in Nat /\ run.cost \in Nat
      /\ run.recorded \in Nat
  BY RunnerAssumption DEF Types, RunState
<1>1. PICK n \in 0 .. MaxCalls, c \in TurnCosts, text \in BOOLEAN :
           LET paid == [run EXCEPT !.cost = @ + c, !.now = [@ EXCEPT !.spent = c, !.calls = n]]
           IN  IF n = 0
               THEN EndTurn([paid EXCEPT !.final = text], <<>>)
               ELSE /\ run' = [paid EXCEPT !.at = "command"]
                    /\ scribe' = Emit(scribe, "step")
  BY DEF ProviderAnswers
<1> DEFINE t == [run.now EXCEPT !.spent = c, !.calls = n]
           paid == [run EXCEPT !.cost = @ + c, !.now = [@ EXCEPT !.spent = c, !.calls = n]]
           x == run.cost + c
<1>2. c \in Nat /\ n \in Nat /\ x \in Nat
  BY <1>0, RunnerAssumption
<1>3. Spent(t, c)
  <2>1. t = [run.now EXCEPT !.spent = c, !.calls = n]
    OBVIOUS
  <2> HIDE DEF t
  <2>2. QED BY <1>0, <1>2, <2>1, TurnUpdates
<1>4. Paid(paid, run, x, t)
  <2>1. paid = [run EXCEPT !.cost = x, !.now = t]
    OBVIOUS
  <2> HIDE DEF paid, x, t
  <2>2. QED BY <1>0, <1>2, <1>3, <2>1, PaidUpdate DEF Spent
<1>5. /\ paid \in RunState /\ paid.reason = "success" /\ paid.recorded < MaxCost
      /\ paid.cost = paid.recorded + paid.now.spent
  <2>1. run.at = "provider"
    BY DEF ProviderAnswers
  <2>2. run.reason = "success" /\ run.recorded < MaxCost /\ run.cost = run.recorded
    BY <2>1 DEF SpendOK, Asking
  <2> HIDE DEF paid, t
  <2>3. QED BY <1>3, <1>4, <2>2 DEF Paid, Spent
<1>6. run.at \in Asking /\ UNCHANGED <<log, local, aborted, faults>>
  BY DEF ProviderAnswers, Asking
<1>7. CASE n = 0
  <2> DEFINE r == [paid EXCEPT !.final = text]
  <2>1. EndTurn(r, <<>>)
    BY <1>1, <1>7
  <2>2. Alike(r, paid)
    <3> HIDE DEF paid
    <3> QED BY <1>5, AlikeUpdates
  <2>3. /\ r \in RunState /\ r.reason = "success" /\ r.recorded < MaxCost
        /\ r.cost = r.recorded + r.now.spent
    <3> HIDE DEF r, paid
    <3> QED BY <1>5, <2>2 DEF Alike
  <2> HIDE DEF r
  <2>4. QED BY <1>6, <2>1, <2>3, EndTurnForm
<1>8. CASE n # 0
  <2>1. run' = [paid EXCEPT !.at = "command"] /\ scribe' = EmitAll(scribe, <<"step">>)
    BY <1>1, <1>8 DEF Emit
  <2> HIDE DEF paid
  <2>2. Alike(run', paid) /\ run'.at = "command"
    BY <1>5, <2>1, AlikeUpdates
  <2>3. Turns
    BY <1>6, <2>1, <2>2, Bursts DEF Turns, Alike
  <2>4. SpendOK'
    BY <1>5, <2>2 DEF SpendOK, Alike, Asking
  <2>5. QED BY <2>3, <2>4
<1>9. QED BY <1>7, <1>8

LEMMA CommandForm ==
    ASSUME Types, SpendOK, run.at = "command", NEW failed \in BOOLEAN,
           Answered(failed), UNCHANGED <<log, local, aborted, faults>>
    PROVE  Turns /\ SpendOK'
<1>0. /\ run \in RunState /\ run.now \in Turn /\ MaxCost \in Nat /\ run.cost \in Nat
      /\ run.recorded \in Nat /\ run.now.answered \in Nat /\ run.now.bad \in Nat
  BY RunnerAssumption DEF Types, RunState, Turn
<1> DEFINE a == run.now.answered + 1
           b == IF failed THEN run.now.bad + 1 ELSE run.now.bad
           t == [run.now EXCEPT !.answered = @ + 1, !.bad = IF failed THEN @ + 1 ELSE @]
           r == [run EXCEPT !.now = t]
<1>1. IF r.now.answered = r.now.calls
      THEN EndTurn(r, <<"step">>)
      ELSE run' = r /\ scribe' = EmitAll(scribe, <<"step", "step">>)
  BY DEF Answered
<1>2. r = [run EXCEPT !.now = t]
  OBVIOUS
<1>3. Spent(t, run.now.spent)
  <2>1. a \in Nat /\ b \in Nat /\ t = [run.now EXCEPT !.answered = a, !.bad = b]
    BY <1>0
  <2> HIDE DEF a, b, t
  <2>2. QED BY <1>0, <2>1, TurnUpdates
<1> HIDE DEF r, t
<1>4. Alike(r, run) /\ r.at = run.at
  BY <1>0, <1>2, <1>3, AlikeUpdates DEF Spent
<1>5. /\ r \in RunState /\ r.reason = "success" /\ r.recorded < MaxCost
      /\ r.cost = r.recorded + r.now.spent /\ r.at = "command"
  BY <1>4 DEF Alike, SpendOK, Asking
<1>6. run.at \in Asking
  BY DEF Asking
<1>7. CASE r.now.answered = r.now.calls
  <2>1. EndTurn(r, <<"step">>)
    BY <1>1, <1>7
  <2>2. QED BY <1>5, <1>6, <2>1, EndTurnForm
<1>8. CASE r.now.answered # r.now.calls
  <2>1. run' = r /\ scribe' = EmitAll(scribe, <<"step", "step">>)
    BY <1>1, <1>8
  <2>2. Turns
    BY <1>5, <1>6, <2>1, Bursts DEF Turns
  <2>3. SpendOK'
    BY <1>5, <2>1 DEF SpendOK, Asking
  <2>4. QED BY <2>2, <2>3
<1>9. QED BY <1>7, <1>8

\* What a step of the run is, seen from its money and its events.
LEMMA RunnerForms ==
    ASSUME Types, SpendOK, RunnerStep
    PROVE  \/ Quiet /\ UNCHANGED faults
           \/ Turns /\ SpendOK'
           \/ Flush /\ UNCHANGED runnerVars
<1>1. CASE CallerAborts \/ ScenarioTimesOut \/ TurnTimesOut \/ OperationEnds
  BY <1>1 DEF CallerAborts, ScenarioTimesOut, TurnTimesOut, OperationEnds, Quiet,
     scribeVars, logVars
<1>2. CASE ProviderAnswers
  BY <1>2, AnswerForm
<1>3. CASE ProviderFails \/ ToolCancelled
  <2>1. PICK reason \in {"timeout", "error", "aborted"} : FailTurn(reason)
    BY <1>3 DEF ProviderFails, ToolCancelled, ReasonOf
  <2>2. run.at \in Asking /\ UNCHANGED <<log, local, aborted, faults>>
    BY <1>3 DEF ProviderFails, ToolCancelled, Asking
  <2>3. QED BY <2>1, <2>2, FailTurnForm
<1>4. CASE RateLimited
  <2>0. run \in RunState /\ run.at = "provider" /\ UNCHANGED <<log, local, aborted, faults>>
    BY <1>4 DEF RateLimited, Types
  <2>1. run' = [run EXCEPT !.at = "close", !.reason = "thrown"]
    BY <1>4 DEF RateLimited
  <2>2. Closing(run', run, "thrown")
    BY <2>0, <2>1, RunUpdate
  <2>3. scribe' = EmitAll(scribe, <<"step">>)
    BY <1>4 DEF RateLimited, Emit
  <2>4. Turns
    BY <2>0, <2>2, <2>3, Bursts DEF Turns, Closing, Asking
  <2>5. /\ MaxCost \in Nat /\ run.cost = run.recorded /\ run.now.spent = 0
        /\ run.recorded \in Nat /\ run.recorded < MaxCost
    BY <2>0, RunnerAssumption DEF SpendOK, RunState, Asking
  <2>6. SpendOK'
    BY <2>2, <2>5 DEF SpendOK, Closing, Asking
  <2>7. QED BY <2>4, <2>6
<1>5. CASE ToolEnds \/ ToolTimesOut
  <2>1. PICK failed \in BOOLEAN : Answered(failed)
    BY <1>5 DEF ToolEnds, ToolTimesOut
  <2>2. run.at = "command" /\ UNCHANGED <<log, local, aborted, faults>>
    BY <1>5 DEF ToolEnds, ToolTimesOut
  <2>3. QED BY <2>1, <2>2, CommandForm
<1>6. CASE Flush /\ UNCHANGED runnerVars
  BY <1>6
<1>7. QED BY <1>1, <1>2, <1>3, <1>4, <1>5, <1>6 DEF RunnerStep

\* The run of an attempt begins.
LEMMA StartForm ==
    ASSUME NEW k, StartRun(k)
    PROVE  Starts(k) /\ SpendOK'
<1> DEFINE cause == IF aborted THEN "abort" ELSE "none"
<1>0. /\ NoRun \in RunState /\ NoRun.reason = "success" /\ NoRun.cost = NoRun.recorded
      /\ NoRun.cost = 0
  BY DEF NoRun, RunState, NoTurn, Turn, Reasons
<1>1. /\ run.at = "idle" /\ run' = LoopHead(NoRun, cause)
      /\ scribe' = EmitAll(Open(k), <<"run:start", HeadEvent(NoRun, cause)>>)
      /\ UNCHANGED <<log, local, aborted, faults, operations>>
  BY DEF StartRun
<1> HIDE DEF cause
<1>2. CASE LoopExit(NoRun, cause) = "none"
  <2>1. /\ run' \in RunState /\ run'.reason = "success" /\ run'.at = "provider"
        /\ run'.recorded < MaxCost /\ run'.cost = run'.recorded /\ run'.now.spent = 0
    BY <1>0, <1>1, <1>2, HeadFacts
  <2>2. HeadEvent(NoRun, cause) = "step"
    BY <1>2 DEF HeadEvent
  <2>3. QED BY <1>1, <2>1, <2>2 DEF Starts, SpendOK, Asking
<1>3. CASE LoopExit(NoRun, cause) # "none"
  <2>1. /\ run' \in RunState /\ run'.reason # "thrown" /\ run'.at = "close"
        /\ run'.cost = run'.recorded /\ (run'.cost = 0 \/ run'.cost - run'.now.spent < MaxCost)
    BY <1>0, <1>1, <1>3, HeadFacts
  <2>2. HeadEvent(NoRun, cause) = "run:finish"
    BY <1>3 DEF HeadEvent
  <2>3. QED BY <1>1, <2>1, <2>2 DEF Starts, SpendOK, Asking, RunState
<1>4. QED BY <1>2, <1>3
-----------------------------------------------------------------------------
(* The cell: its evidence and what it holds *)

Sound == Types /\ Coupled /\ SpendOK /\ RowOK /\ FilesOK /\ CleanOK

\* A step of the cell between two runs.
LEMMA StillIsSound ==
    ASSUME Sound, Quiet, cell.at # "running", cell' \in CellState, files' \in FileState,
           cell'.at \notin {"running", "start"}, cell'.at = "dead" => scribe = NoScribe,
           aborted' \in BOOLEAN, container' \in BOOLEAN, claim' \in BOOLEAN,
           cell'.at = "done" <=> cell'.returned # None,
           RowOK', FilesOK', CleanOK'
    PROVE  Sound'
<1>1. Types' /\ SpendOK'
  BY DEF Sound, Types, SpendOK, Quiet
<1>2. Coupled'
  BY DEF Sound, Coupled, Quiet
<1>3. QED BY <1>1, <1>2 DEF Sound

LEMMA ClaimStep ==
    ASSUME Sound, ClaimIdentity
    PROVE  Sound'
<1>0. /\ Quiet /\ UNCHANGED <<aborted, operations, container, workspace, row, files>>
      /\ cell \in CellState /\ cell.at = "start" /\ files \in FileState
      /\ aborted \in BOOLEAN /\ container \in BOOLEAN /\ claim \in BOOLEAN
  BY DEF Sound, Types, ClaimIdentity, Quiet, runnerVars, logVars, resources
<1>1. CASE cell'.at = "done"
  <2>1. UNCHANGED claim /\ \E s \in {"conflict", "thrown"} : Return(s)
    BY <1>1 DEF ClaimIdentity, Goto, Sound, Types, CellState
  <2>2. /\ cell' \in CellState /\ cell'.at = "done" /\ cell'.returned # None
        /\ cell'.infra = cell.infra
    BY <1>0, <2>1 DEF Return, CellState, Places, None
  <2>3. RowOK' /\ FilesOK' /\ CleanOK'
    BY <1>0, <2>1, <2>2 DEF Sound, RowOK, FilesOK, CleanOK, Taken, Trying, Saving, Quiet
  <2>4. QED BY <1>0, <2>1, <2>2, <2>3, StillIsSound
<1>2. CASE cell'.at # "done"
  <2>1. ~Taken /\ claim' = TRUE /\ \E l \in {"terminalize", "prepare"} : Goto(l)
    BY <1>0, <1>2 DEF ClaimIdentity, Return, CellState
  <2>2. /\ cell' \in CellState /\ cell'.at \in {"terminalize", "prepare"}
        /\ cell'.returned = cell.returned /\ cell'.infra = cell.infra
    BY <1>0, <2>1 DEF Goto, CellState, Places, Trying
  <2>3. RowOK' /\ FilesOK' /\ CleanOK'
    BY <1>0, <2>1, <2>2 DEF Sound, RowOK, FilesOK, CleanOK, Taken, Trying, Saving, Quiet
  <2>4. cell'.returned = None
    BY <1>0, <2>2 DEF Sound, Coupled
  <2>5. QED BY <1>0, <2>1, <2>2, <2>3, <2>4, StillIsSound
<1>3. QED BY <1>1, <1>2

\* Up to the attempts, and out of them.
LEMMA PrepareStep ==
    ASSUME Sound, Terminalize \/ Prepare \/ MakeWorkspace
    PROVE  Sound'
<1>0. /\ Quiet /\ UNCHANGED <<aborted, operations, container, row, claim>>
      /\ cell \in CellState /\ cell.at \in {"terminalize", "prepare", "workspace"}
      /\ files \in FileState
      /\ aborted \in BOOLEAN /\ container \in BOOLEAN /\ claim \in BOOLEAN
      /\ cell.returned = None
  BY DEF Sound, Types, Coupled, Terminalize, Prepare, MakeWorkspace, Quiet, runnerVars,
     logVars, resources, evidence
<1>1. CASE /\ Manifest /\ UNCHANGED workspace
           /\ cell' = [cell EXCEPT !.at = "insert", !.reason = "aborted"] \/ Goto("workspace")
  <2>1. /\ cell' \in CellState /\ cell'.at \in {"insert", "workspace"}
        /\ cell'.at = "insert" => cell'.reason = "aborted"
        /\ cell'.returned = cell.returned /\ cell'.infra = cell.infra
    BY <1>0, <1>1 DEF Goto, CellState, Places, Trying, Saving, Reasons
  <2>2. files' \in FileState /\ files'.result = files.result /\ files'.failure = files.failure
    BY <1>0, <1>1 DEF Manifest, FileState
  <2>3. RowOK' /\ FilesOK' /\ CleanOK'
    BY <1>0, <1>1, <2>1, <2>2
    DEF Sound, RowOK, FilesOK, CleanOK, Taken, Trying, Saving, Quiet, Reasons
  <2>4. QED BY <1>0, <2>1, <2>2, <2>3, StillIsSound
<1>2. CASE NoManifest /\ UNCHANGED workspace
  <2>1. /\ cell' \in CellState /\ cell'.at = "failureFile"
        /\ cell'.returned = cell.returned /\ cell'.infra = cell.infra
    BY <1>0, <1>2 DEF NoManifest, CellState, Places, Failing
  <2>2. UNCHANGED files
    BY <1>2 DEF NoManifest
  <2>3. RowOK' /\ FilesOK' /\ CleanOK'
    BY <1>0, <1>2, <2>1, <2>2 DEF Sound, RowOK, FilesOK, CleanOK, Taken, Trying, Saving, Quiet
  <2>4. QED BY <1>0, <2>1, <2>2, <2>3, StillIsSound
<1>3. CASE /\ Infrastructure /\ UNCHANGED files
           /\ workspace' \in {workspace, "absent", "partial"}
  <2>1. /\ cell' \in CellState /\ cell'.at = "dispose" /\ cell'.infra
        /\ cell'.returned = cell.returned
    BY <1>0, <1>3 DEF Infrastructure, CellState, Places, Trying
  <2>2. RowOK' /\ FilesOK' /\ CleanOK'
    BY <1>0, <1>3, <2>1 DEF Sound, RowOK, FilesOK, CleanOK, Taken, Trying, Saving, Quiet
  <2>3. QED BY <1>0, <1>3, <2>1, <2>2, StillIsSound
<1>4. CASE workspace' = "open" /\ Goto("attempt") /\ UNCHANGED files
  <2>1. /\ cell' \in CellState /\ cell'.at = "attempt"
        /\ cell'.returned = cell.returned /\ cell'.infra = cell.infra
    BY <1>0, <1>4 DEF Goto, CellState, Places, Trying
  <2>2. RowOK' /\ FilesOK' /\ CleanOK'
    BY <1>0, <1>4, <2>1 DEF Sound, RowOK, FilesOK, CleanOK, Taken, Trying, Saving, Quiet
  <2>3. QED BY <1>0, <1>4, <2>1, <2>2, StillIsSound
<1>5. QED
  BY <1>1, <1>2, <1>3, <1>4 DEF Terminalize, Prepare, MakeWorkspace, resources, evidence

LEMMA AttemptsEnd ==
    ASSUME Sound, AttemptsAborted \/ ReleaseContainer \/ Decide
    PROVE  Sound'
<1>0. /\ Quiet /\ UNCHANGED <<aborted, workspace, row, claim, files>>
      /\ cell \in CellState /\ cell.at \in {"attempt", "release", "decide"}
      /\ files \in FileState
      /\ aborted \in BOOLEAN /\ container \in BOOLEAN /\ claim \in BOOLEAN
      /\ cell.returned = None
  BY DEF Sound, Types, Coupled, AttemptsAborted, ReleaseContainer, Decide, Quiet, runnerVars,
     scribeVars, logVars, resources, evidence
<1>1. CASE AttemptsAborted \/ Decide
  <2>1. /\ cell' \in CellState /\ cell'.at \in {"attempt", "dispose"}
        /\ cell'.returned = cell.returned /\ cell'.infra = cell.infra
        /\ UNCHANGED <<container, operations>>
    BY <1>0, <1>1
    DEF AttemptsAborted, Decide, Goto, CellState, Places, Trying, resources, runnerVars
  <2>2. RowOK' /\ FilesOK' /\ CleanOK'
    BY <1>0, <1>1, <2>1
    DEF Sound, RowOK, FilesOK, CleanOK, Taken, Trying, Saving, Quiet, AttemptsAborted, Decide
  <2>3. QED BY <1>0, <2>1, <2>2, StillIsSound
<1>2. CASE ReleaseContainer
  <2>1. /\ cell' \in CellState /\ cell'.at = "decide" /\ cell.at = "release"
        /\ cell'.returned = cell.returned
    BY <1>0, <1>2 DEF ReleaseContainer, Goto, CellState, Places, Trying
  <2>2. \/ /\ container' = FALSE /\ cell'.infra = cell.infra
           /\ operations' = IF container THEN {} ELSE operations
        \/ container' = container /\ operations' = operations /\ cell'.infra
    BY <1>0, <1>2 DEF ReleaseContainer, Goto, CellState
  <2>3. RowOK' /\ FilesOK' /\ CleanOK' /\ container' \in BOOLEAN
    BY <1>0, <2>1, <2>2 DEF Sound, RowOK, FilesOK, CleanOK, Taken, Trying, Saving, Quiet
  <2>4. QED BY <1>0, <2>1, <2>3, StillIsSound
<1>3. QED BY <1>1, <1>2

LEMMA DisposeStep ==
    ASSUME Sound, Dispose
    PROVE  Sound'
<1>0. /\ Quiet /\ UNCHANGED <<aborted, operations, container, row, claim, files>>
      /\ cell \in CellState /\ cell.at = "dispose"
      /\ files \in FileState
      /\ aborted \in BOOLEAN /\ container \in BOOLEAN /\ claim \in BOOLEAN
      /\ cell.returned = None
  BY DEF Sound, Types, Coupled, Dispose, Quiet, runnerVars, logVars, evidence
<1>1. TerminationReason \in Reasons /\ (cell.infra => TerminationReason = "error")
  BY <1>0 DEF TerminationReason, CellState, Reasons, None
<1>2. /\ cell' \in CellState /\ cell'.at = "insert"
      /\ cell'.returned = cell.returned /\ cell'.reason \in Reasons
      /\ \/ /\ workspace' = IF workspace = "open" THEN "absent" ELSE workspace
            /\ cell'.infra = cell.infra /\ cell'.reason = TerminationReason
         \/ cell'.infra /\ cell'.reason = "error"
  <2> HIDE DEF TerminationReason
  <2> QED BY <1>0, <1>1 DEF Dispose, CellState, Places, Saving, Reasons
<1>3. workspace \in {"absent", "partial", "open"}
  BY DEF Sound, CleanOK
<1>4. RowOK' /\ FilesOK'
  BY <1>0, <1>2 DEF Sound, RowOK, FilesOK, Taken, Trying, Saving, Quiet
<1>5. CleanOK'
  <2>1. /\ container => cell.infra
        /\ workspace = "partial" => cell.infra
        /\ local \/ container \/ cell.infra \/ operations = {}
    BY <1>0 DEF Sound, CleanOK, Trying
  <2>2. /\ container => cell'.infra
        /\ local \/ container \/ cell'.infra \/ operations = {}
        /\ workspace' \in {"absent", "partial", "open"}
    BY <1>0, <1>2, <1>3, <2>1 DEF Dispose
  <2>3. cell'.reason = "success" => ~cell'.infra /\ workspace' = "absent"
    BY <1>1, <1>2, <1>3, <2>1
  <2>4. QED BY <1>0, <1>2, <2>2, <2>3 DEF CleanOK, Trying, Quiet
<1>6. QED BY <1>0, <1>2, <1>4, <1>5, StillIsSound

\* One transaction, and what is left when it fails.
LEMMA SavingStep ==
    ASSUME Sound, InsertRow \/ PublishResult \/ UnlinkTemporary \/ DiscardResult
    PROVE  Sound'
<1>0. /\ Quiet /\ UNCHANGED <<aborted, operations, container, workspace, row, claim>>
      /\ cell \in CellState /\ cell.at \in Saving /\ cell.at # "commit" /\ claim
      /\ files \in FileState
      /\ aborted \in BOOLEAN /\ container \in BOOLEAN /\ claim \in BOOLEAN
      /\ cell.returned = None /\ cell.reason \in Reasons
  BY DEF Sound, Types, Coupled, RowOK, InsertRow, PublishResult, UnlinkTemporary, DiscardResult,
     Quiet, runnerVars, logVars, evidence, resources, Saving
<1>1. /\ cell' \in CellState /\ cell'.reason = cell.reason /\ cell'.infra = cell.infra
      /\ \/ cell'.at = "done" /\ cell'.returned = "conflict"
         \/ cell'.at \in Saving \cup Failing /\ cell'.returned = None
  BY <1>0 DEF InsertRow, PublishResult, UnlinkTemporary, DiscardResult, Goto, ToFailureFile,
     Return, CellState, Places, Saving, Failing
<1>2. files' \in FileState /\ files'.failure = files.failure
  BY <1>0 DEF InsertRow, PublishResult, UnlinkTemporary, DiscardResult, FileState, evidence
<1>3. cell'.at \in {"unlink", "commit"} => files'.result = cell.reason
  <2>1. CASE InsertRow
    BY <1>0, <2>1 DEF InsertRow, Goto, Return, ToFailureFile, CellState
  <2>2. CASE PublishResult
    BY <1>0, <2>2 DEF PublishResult, Goto, ToFailureFile, CellState, FileState
  <2>3. CASE UnlinkTemporary
    BY <1>0, <2>3 DEF UnlinkTemporary, Goto, CellState, FileState, Sound, FilesOK
  <2>4. CASE DiscardResult
    BY <1>0, <2>4 DEF DiscardResult, ToFailureFile, CellState
  <2>5. QED BY <2>1, <2>2, <2>3, <2>4
<1>4. RowOK' /\ FilesOK'
  BY <1>0, <1>1, <1>2, <1>3
  DEF Sound, RowOK, FilesOK, Taken, Trying, Saving, Failing, Quiet, None
<1>5. CleanOK'
  BY <1>0, <1>1 DEF Sound, CleanOK, Trying, Saving, Failing, Quiet
<1>6. QED BY <1>0, <1>1, <1>2, <1>4, <1>5, StillIsSound DEF Saving, Failing, None

\* The transaction commits, or a failure is on record: the cell has ended.
LEMMA EndStep ==
    ASSUME Sound, CommitRow \/ FailureFile \/ FailureRow
    PROVE  Sound'
<1>0. /\ Quiet /\ UNCHANGED <<aborted, operations, container, workspace>>
      /\ cell \in CellState /\ cell.at \in {"commit", "failureFile", "failureRow"} /\ claim
      /\ files \in FileState
      /\ aborted \in BOOLEAN /\ container \in BOOLEAN /\ claim \in BOOLEAN
      /\ cell.returned = None /\ row = None
  BY DEF Sound, Types, Coupled, RowOK, CommitRow, FailureFile, FailureRow, Quiet, runnerVars,
     logVars, resources
<1>1. CASE CommitRow /\ Return(StatusOf(cell.reason))
  <2>1. /\ cell' \in CellState /\ cell'.at = "done" /\ cell'.returned # None
        /\ cell'.infra = cell.infra /\ UNCHANGED files
    BY <1>0, <1>1 DEF CommitRow, Return, StatusOf, CellState, Places, None
  <2>2. cell.reason \in Reasons /\ row' = cell.reason
    BY <1>0, <1>1 DEF CommitRow, Return, Goto, CellState, Sound, RowOK, Saving
  <2>3. claim' \in BOOLEAN /\ RowOK' /\ FilesOK' /\ CleanOK'
    BY <1>0, <1>1, <2>1, <2>2
    DEF Sound, RowOK, FilesOK, CleanOK, Taken, Trying, Saving, Quiet, CommitRow, Reasons, None
  <2>4. QED BY <1>0, <2>1, <2>3, StillIsSound
<1>2. CASE CommitRow /\ Goto("discard")
  <2>1. /\ cell' \in CellState /\ cell'.at = "discard" /\ cell'.returned = None
        /\ cell'.infra = cell.infra /\ cell'.reason = cell.reason /\ UNCHANGED files
    BY <1>0, <1>2 DEF CommitRow, Goto, CellState, Places, Saving
  <2>2. UNCHANGED <<row, claim>>
    BY <1>0, <1>2, <2>1 DEF CommitRow, Return, CellState
  <2>3. RowOK' /\ FilesOK' /\ CleanOK'
    BY <1>0, <1>2, <2>1, <2>2
    DEF Sound, RowOK, FilesOK, CleanOK, Taken, Trying, Saving, Quiet, CommitRow
  <2>4. QED BY <1>0, <2>1, <2>2, <2>3, StillIsSound
<1>3. CASE FailureFile
  <2>1. /\ cell' \in CellState /\ cell'.at = "failureRow" /\ cell'.returned = None
        /\ cell'.infra = cell.infra /\ UNCHANGED <<row, claim>>
    BY <1>0, <1>3 DEF FailureFile, CellState, Places, Failing
  <2>2. files' \in FileState
    BY <1>0, <1>3 DEF FailureFile, FileState
  <2>3. RowOK' /\ FilesOK' /\ CleanOK'
    BY <1>0, <1>3, <2>1 DEF Sound, RowOK, FilesOK, CleanOK, Taken, Trying, Saving, Quiet
  <2>4. QED BY <1>0, <2>1, <2>2, <2>3, StillIsSound
<1>4. CASE FailureRow
  <2>1. /\ cell' \in CellState /\ cell'.at = "done" /\ cell'.returned # None
        /\ cell'.infra = cell.infra /\ UNCHANGED files
    BY <1>0, <1>4 DEF FailureRow, CellState, Places, None
  <2>2. claim' \in BOOLEAN /\ (claim' = FALSE => row' # None)
    BY <1>0, <1>4 DEF FailureRow, None
  <2>3. RowOK' /\ FilesOK' /\ CleanOK'
    BY <1>0, <1>4, <2>1, <2>2
    DEF Sound, RowOK, FilesOK, CleanOK, Taken, Trying, Saving, Quiet
  <2>4. QED BY <1>0, <2>1, <2>2, <2>3, StillIsSound
<1>5. QED BY <1>1, <1>2, <1>3, <1>4 DEF CommitRow

\* What an attempt does to the cell when its run begins.
LEMMA RunBegins ==
    ASSUME Sound, NEW k \in Nat, StartRun(k), cell' \in CellState, cell'.at = "running",
           UNCHANGED <<workspace, row, claim, files>>, container' \in BOOLEAN,
           cell'.infra = cell.infra, cell'.returned = cell.returned,
           cell.at \in Trying, local \/ container'
    PROVE  Sound'
<1>1. Starts(k) /\ SpendOK'
  BY StartForm
<1>2. scribe' \in Scribe /\ scribe'.open
  <2>1. PICK ts \in Seq(EventTypes) : scribe' = EmitAll(Open(k), ts)
    BY <1>1, Openings DEF Starts
  <2>2. Open(k) \in Scribe /\ Open(k).open
    BY FreshScribe DEF Open
  <2>3. Emitted(scribe', Open(k), ts)
    BY <2>1, <2>2, EmitFacts
  <2>4. QED BY <2>2, <2>3 DEF Emitted
<1>3. Types' /\ Coupled'
  BY <1>1, <1>2 DEF Sound, Types, Coupled, Starts, Trying
<1>4. RowOK' /\ FilesOK' /\ CleanOK'
  BY <1>1 DEF Sound, Types, Coupled, RowOK, FilesOK, CleanOK, Taken, Trying, Saving, Starts
<1>5. QED BY <1>1, <1>3, <1>4 DEF Sound

LEMMA AttemptStep ==
    ASSUME Sound, BeginAttempt \/ AcquireContainer
    PROVE  Sound'
<1>0. /\ cell \in CellState /\ cell.at \in {"attempt", "acquire"} /\ cell.returned = None
      /\ cell.attempt \in Nat /\ cell.attempt + 1 \in Nat
      /\ files \in FileState
      /\ aborted \in BOOLEAN /\ container \in BOOLEAN /\ claim \in BOOLEAN
      /\ UNCHANGED <<workspace, row, claim, files>>
  BY DEF Sound, Types, Coupled, CellState, BeginAttempt, AcquireContainer, evidence, resources
<1>1. CASE BeginAttempt /\ local
  <2>1. /\ cell' \in CellState /\ cell'.at = "running" /\ cell'.infra = cell.infra
        /\ cell'.returned = cell.returned /\ StartRun(cell.attempt + 1)
    BY <1>0, <1>1 DEF BeginAttempt, CellState, Places, Trying
  <2>2. UNCHANGED container
    BY <1>1 DEF BeginAttempt, resources
  <2>3. QED BY <1>0, <1>1, <2>1, <2>2, RunBegins DEF Trying
<1>2. CASE BeginAttempt /\ ~local
  <2>1. /\ cell' \in CellState /\ cell'.at = "acquire" /\ cell'.infra = cell.infra
        /\ cell'.returned = cell.returned
    BY <1>0, <1>2 DEF BeginAttempt, CellState, Places, Trying
  <2>2. Quiet /\ UNCHANGED <<aborted, operations, container>>
    BY <1>2 DEF BeginAttempt, Quiet, runnerVars, scribeVars, logVars, resources
  <2>3. RowOK' /\ FilesOK' /\ CleanOK'
    BY <1>0, <1>2, <2>1, <2>2
    DEF Sound, RowOK, FilesOK, CleanOK, Taken, Trying, Saving, Quiet
  <2>4. QED BY <1>0, <2>1, <2>2, <2>3, StillIsSound
<1>3. CASE AcquireContainer /\ Goto("running") /\ StartRun(cell.attempt) /\ container'
  <2>1. /\ cell' \in CellState /\ cell'.at = "running" /\ cell'.infra = cell.infra
        /\ cell'.returned = cell.returned
    BY <1>0, <1>3 DEF Goto, CellState, Places, Trying
  <2>2. container' \in BOOLEAN
    BY <1>3 DEF AcquireContainer, Goto, CellState
  <2>3. QED BY <1>0, <1>3, <2>1, <2>2, RunBegins DEF Trying
<1>4. CASE /\ AcquireContainer
           /\ UNCHANGED <<runnerVars, logVars>>
           /\ \/ Goto("release") /\ container' = TRUE
              \/ Goto("decide") /\ container' = container
  <2>1. /\ cell' \in CellState /\ cell'.at \in {"release", "decide"} /\ cell'.infra = cell.infra
        /\ cell'.returned = cell.returned /\ container' \in BOOLEAN
        /\ cell'.at = "decide" => container' = container
    BY <1>0, <1>4 DEF Goto, CellState, Places, Trying
  <2>2. Quiet /\ UNCHANGED <<aborted, operations>>
    BY <1>4 DEF Quiet, runnerVars, logVars
  <2>3. RowOK' /\ FilesOK' /\ CleanOK'
    BY <1>0, <1>4, <2>1, <2>2
    DEF Sound, RowOK, FilesOK, CleanOK, Taken, Trying, Saving, Quiet
  <2>4. QED BY <1>0, <2>1, <2>2, <2>3, StillIsSound
<1>5. BeginAttempt \/ AcquireContainer
  OBVIOUS
<1>6. AcquireContainer => <1>3!1 \/ <1>4!1
  BY DEF AcquireContainer, scribeVars
<1>7. QED BY <1>1, <1>2, <1>3, <1>4, <1>5, <1>6

\* What an append writes is a beginning of the buffer.
LEMMA LogGrows ==
    ASSUME log \in Seq(Event), scribe \in Scribe,
           log' = log \/ log' = log \o scribe.buffer \/ AppendFails
    PROVE  log' \in Seq(Event)
<1>1. scribe.buffer \in Seq(Event)
  BY DEF Scribe
<1>2. \A n \in Nat : n <= Len(scribe.buffer) => SubSeq(scribe.buffer, 1, n) \in Seq(Event)
  BY <1>1
<1>3. \A s \in Seq(Event) : log \o s \in Seq(Event)
  OBVIOUS
<1>4. CASE AppendFails
  <2>1. PICK n \in {0, Len(scribe.buffer) - 1} \cap Nat :
             log' = log \o SubSeq(scribe.buffer, 1, n)
    BY <1>4 DEF AppendFails
  <2>2. n \in Nat /\ n <= Len(scribe.buffer)
    BY <1>1
  <2>3. QED BY <1>2, <1>3, <2>1, <2>2
<1>5. QED BY <1>1, <1>3, <1>4

LEMMA SettleStep ==
    ASSUME Sound, RunSettles
    PROVE  Sound'
<1>0. /\ cell \in CellState /\ cell.at = "running" /\ cell.returned = None
      /\ run \in RunState /\ run.reason \in Reasons \cup {"thrown"}
      /\ scribe \in Scribe /\ scribe.buffer \in Seq(Event) /\ log \in Seq(Event)
      /\ UNCHANGED <<workspace, container, row, claim, files, aborted, operations, local>>
      /\ run' = NoRun
  BY DEF Sound, Types, Coupled, RunState, Scribe, RunSettles, evidence, resources
<1>1. NoRun \in RunState /\ NoRun.at = "idle"
  BY DEF NoRun, RunState, NoTurn, Turn, Reasons
<1>2. /\ cell' \in CellState /\ cell'.at = "release" /\ cell'.infra = cell.infra
      /\ cell'.returned = cell.returned
  BY <1>0 DEF RunSettles, ReturnsResult, Goto, CellState, Places, Trying, Reasons
<1>3. scribe' \in Scribe /\ ~scribe'.open
  <2>1. PICK s \in {Written(scribe), Poisoned(scribe)} : scribe' = [s EXCEPT !.open = FALSE]
    BY DEF RunSettles, ReturnsResult, Throws, CloseWrites, CloseThrows
  <2>2. s \in Scribe
    BY <1>0, <2>1, ScribeWrites
  <2>3. QED BY <2>1, <2>2, ScribeCloses
<1>4. log' \in Seq(Event)
  BY <1>0, LogGrows DEF RunSettles, ReturnsResult, Throws, CloseWrites, CloseThrows
<1>5. Types' /\ Coupled' /\ SpendOK'
  BY <1>0, <1>1, <1>2, <1>3, <1>4 DEF Sound, Types, Coupled, SpendOK, Asking
<1>6. RowOK' /\ FilesOK' /\ CleanOK'
  BY <1>0, <1>2 DEF Sound, RowOK, FilesOK, CleanOK, Taken, Trying, Saving
<1>7. QED BY <1>5, <1>6 DEF Sound

LEMMA CrashStep ==
    ASSUME Sound, Crash \/ Restart
    PROVE  Sound'
<1>0. /\ cell \in CellState /\ cell.at \notin {"start", "done"} /\ cell.returned = None
      /\ files \in FileState /\ log \in Seq(Event) /\ run \in RunState
      /\ UNCHANGED <<workspace, row, claim, files, local, log>>
  BY DEF Sound, Types, Coupled, Crash, Restart, evidence, resources, scribeVars, logVars
<1>1. NoRun \in RunState /\ NoRun.at = "idle" /\ NoScribe \in Scribe /\ ~NoScribe.open
  <2>1. NoRun \in RunState /\ NoRun.at = "idle"
    BY DEF NoRun, RunState, NoTurn, Turn, Reasons
  <2>2. NoScribe \in Scribe /\ ~NoScribe.open
    BY FreshScribe DEF NoScribe, Scribe, Open
  <2>3. QED BY <2>1, <2>2
<1>2. CASE Crash
  <2>1. /\ cell' \in CellState /\ cell'.at = "dead" /\ cell'.infra = cell.infra
        /\ cell'.returned = cell.returned
    BY <1>0, <1>2 DEF Crash, Goto, CellState, Places
  <2>2. /\ run' = NoRun /\ scribe' = NoScribe /\ operations' = {}
        /\ UNCHANGED <<container, aborted>>
    BY <1>2 DEF Crash, resources
  <2>3. Types' /\ Coupled' /\ SpendOK'
    BY <1>0, <1>1, <2>1, <2>2 DEF Sound, Types, Coupled, SpendOK, Asking
  <2>4. RowOK' /\ FilesOK' /\ CleanOK'
    BY <1>0, <2>1, <2>2 DEF Sound, RowOK, FilesOK, CleanOK, Taken, Trying, Saving
  <2>5. QED BY <2>3, <2>4 DEF Sound
<1>3. CASE Restart
  <2>1. /\ cell' = Entry /\ cell.at = "dead" /\ container' = FALSE /\ aborted' = FALSE
        /\ UNCHANGED <<run, scribe, operations>>
    BY <1>3 DEF Restart, scribeVars, logVars
  <2>2. Entry \in CellState /\ Entry.at = "start" /\ Entry.returned = None /\ ~Entry.infra
    BY DEF Entry, CellState, Places, None
  <2>3. Types' /\ Coupled' /\ SpendOK'
    BY <1>0, <2>1, <2>2 DEF Sound, Types, Coupled, SpendOK, Asking
  <2>4. RowOK' /\ FilesOK' /\ CleanOK'
    BY <1>0, <2>1, <2>2 DEF Sound, RowOK, FilesOK, CleanOK, Taken, Trying, Saving
  <2>5. QED BY <2>3, <2>4 DEF Sound
<1>4. QED BY <1>2, <1>3

\* The agent loop never touches what the cell holds or has written.
LEMMA RunStep ==
    ASSUME Sound, cell.at # "dead", cell.returned = None, RunnerStep,
           UNCHANGED <<cell, resources, evidence>>
    PROVE  Sound'
<1>0. /\ UNCHANGED <<cell, container, workspace, claim, row, files>>
      /\ cell.at # "done" /\ aborted \in BOOLEAN
      /\ run.at \in Asking => cell.at = "running" /\ scribe.open
      /\ run \in RunState /\ scribe \in Scribe /\ log \in Seq(Event)
  BY DEF Sound, Types, Coupled, resources, evidence, Asking
<1>1. CASE Quiet /\ UNCHANGED faults
  <2>1. aborted' \in BOOLEAN
    BY <1>0, <1>1
    DEF RunnerStep, CallerAborts, ScenarioTimesOut, TurnTimesOut, ProviderAnswers,
        ProviderFails, RateLimited, ToolEnds, ToolTimesOut, ToolCancelled, OperationEnds,
        runnerVars
  <2>2. \/ operations' \subseteq operations
        \/ run.at \in Asking
    BY DEF RunnerStep, CallerAborts, ScenarioTimesOut, TurnTimesOut, ProviderAnswers,
       ProviderFails, RateLimited, ToolEnds, ToolTimesOut, ToolCancelled, OperationEnds,
       runnerVars, Asking
  <2>3. Types' /\ Coupled' /\ SpendOK'
    BY <1>0, <1>1, <2>1 DEF Sound, Types, Coupled, SpendOK, Quiet
  <2>4. RowOK' /\ FilesOK' /\ CleanOK'
    BY <1>0, <1>1, <2>2 DEF Sound, RowOK, FilesOK, CleanOK, Taken, Quiet
  <2>5. QED BY <2>3, <2>4 DEF Sound
<1>2. CASE Turns /\ SpendOK'
  <2>1. scribe' \in Scribe /\ scribe'.open = scribe.open
    BY <1>0, <1>2, EmitFacts DEF Turns, Burst, Emitted
  <2>2. Types' /\ Coupled'
    BY <1>0, <1>2, <2>1 DEF Sound, Types, Coupled, Turns
  <2>3. RowOK' /\ FilesOK'
    BY <1>0, <1>2 DEF Sound, RowOK, FilesOK, Taken, Turns
  <2>4. CleanOK'
    BY <1>0, <1>2 DEF Sound, CleanOK, Turns
  <2>5. QED BY <1>2, <2>2, <2>3, <2>4 DEF Sound
<1>3. CASE Flush /\ UNCHANGED runnerVars
  <2>1. /\ scribe.open /\ cell.at = "running"
        /\ scribe' \in {Written(scribe), Poisoned(scribe)}
    BY <1>0, <1>3 DEF Sound, Coupled, Flush
  <2>2. scribe' \in Scribe /\ scribe'.open
    BY <1>0, <2>1, ScribeWrites
  <2>3. log' \in Seq(Event)
    BY <1>0, <1>3, LogGrows DEF Flush
  <2>4. Types' /\ Coupled' /\ SpendOK'
    BY <1>0, <1>3, <2>1, <2>2, <2>3 DEF Sound, Types, Coupled, SpendOK, runnerVars
  <2>5. RowOK' /\ FilesOK' /\ CleanOK'
    BY <1>0, <1>3, <2>1 DEF Sound, RowOK, FilesOK, CleanOK, Taken, runnerVars
  <2>6. QED BY <2>4, <2>5 DEF Sound
<1>4. QED BY <1>1, <1>2, <1>3, RunnerForms DEF Sound

LEMMA SoundStep == Sound /\ [Next]_vars => Sound'
<1> SUFFICES ASSUME Sound, [Next]_vars PROVE Sound'
  OBVIOUS
<1>1. CASE UNCHANGED vars
  BY <1>1 DEF vars, Sound, Types, Coupled, SpendOK, RowOK, FilesOK, CleanOK, Taken, resources,
     evidence, runnerVars, scribeVars, logVars
<1>2. CASE CellStep
  BY <1>2, ClaimStep, PrepareStep, AttemptStep, AttemptsEnd, SettleStep, DisposeStep,
     SavingStep, EndStep DEF CellStep
<1>3. CASE Crash \/ Restart
  BY <1>3, CrashStep
<1>4. CASE cell.at # "dead" /\ cell.returned = None /\ RunnerStep
           /\ UNCHANGED <<cell, resources, evidence>>
  BY <1>4, RunStep
<1>5. QED BY <1>1, <1>2, <1>3, <1>4 DEF Next

LEMMA SoundInit == Init => Sound
<1> SUFFICES ASSUME Init PROVE Sound
  OBVIOUS
<1>1. /\ cell = Entry /\ run = NoRun /\ scribe = NoScribe /\ log = <<>> /\ ~aborted
      /\ local \in BOOLEAN /\ ~container /\ workspace = "absent" /\ ~claim /\ row = None
      /\ operations = {}
      /\ files = [manifest |-> FALSE, result |-> None, failure |-> None, temp |-> FALSE]
  BY DEF Init, RunnerInit, ScribeInit
<1>2. Entry \in CellState /\ Entry.at = "start" /\ Entry.returned = None /\ ~Entry.infra
  BY DEF Entry, CellState, Places, None
<1>3. NoRun \in RunState /\ NoRun.at = "idle"
  BY DEF NoRun, RunState, NoTurn, Turn, Reasons
<1>4. NoScribe \in Scribe /\ ~NoScribe.open
  BY FreshScribe, ScribeCloses DEF NoScribe
<1>5. Types
  <2>1. files \in FileState /\ log \in Seq(Event)
    BY <1>1 DEF FileState
  <2>2. QED
    BY <1>1, <1>2, <1>3, <1>4, <2>1 DEF Types, Init, RunnerInit
<1>6. Coupled /\ SpendOK
  BY <1>1, <1>2, <1>3, <1>4 DEF Coupled, SpendOK, Asking
<1>7. RowOK /\ FilesOK /\ CleanOK
  BY <1>1, <1>2 DEF RowOK, FilesOK, CleanOK, Taken, Trying, Saving
<1>8. QED BY <1>5, <1>6, <1>7 DEF Sound
-----------------------------------------------------------------------------
(* What the cell has returned *)

\* What a row and a status say is still so.
DoneOK ==
    /\ row \notin {None, "persistence_failed"} => files.result = row /\ files.failure = None
    /\ cell.returned \in {"completed", "aborted"} => StatusOf(row) = cell.returned
    /\ CompletedCellIsClean

LEMMA DoneIsOver ==
    ASSUME Sound, cell.at = "done", [Next]_vars
    PROVE  UNCHANGED vars
<1>1. cell.returned # None
  BY DEF Sound, Coupled
<1>2. ~CellStep
  BY DEF CellStep, ClaimIdentity, Terminalize, Prepare, MakeWorkspace, BeginAttempt,
     AttemptsAborted, AcquireContainer, RunSettles, ReleaseContainer, Decide, Dispose, InsertRow,
     PublishResult, UnlinkTemporary, CommitRow, DiscardResult, FailureFile, FailureRow
<1>3. QED BY <1>1, <1>2 DEF Next, Crash, Restart

\* Before its end a cell has no row, and only two steps give it one.
LEMMA NotOverYet ==
    ASSUME Sound, cell.at # "done", [Next]_vars, ~CommitRow, ~FailureRow
    PROVE  row' = None /\ cell'.returned \in {None, "conflict", "thrown"}
<1>1. row = None /\ cell.returned = None /\ cell \in CellState
  BY DEF Sound, Types, RowOK, Coupled
<1>2. CASE UNCHANGED vars
  BY <1>1, <1>2 DEF vars, evidence
<1>3. CASE CellStep
  <2>1. row' = None
    BY <1>1, <1>3 DEF CellStep, ClaimIdentity, Terminalize, Prepare, MakeWorkspace, BeginAttempt,
       AttemptsAborted, AcquireContainer, RunSettles, ReleaseContainer, Decide, Dispose, InsertRow,
       PublishResult, UnlinkTemporary, DiscardResult, FailureFile, evidence
  <2>2. ClaimIdentity \/ InsertRow => cell'.returned \in {None, "conflict", "thrown"}
    BY <1>1 DEF ClaimIdentity, InsertRow, Goto, Return, ToFailureFile, CellState
  <2>3. ~ClaimIdentity /\ ~InsertRow => cell'.returned = cell.returned
    BY <1>1, <1>3 DEF CellStep, Terminalize, Prepare, MakeWorkspace, BeginAttempt,
       AttemptsAborted, AcquireContainer, RunSettles, ReleaseContainer, Decide, Dispose,
       PublishResult, UnlinkTemporary, DiscardResult, FailureFile, NoManifest, Infrastructure,
       ToFailureFile, Goto, CellState
  <2>4. QED BY <1>1, <2>1, <2>2, <2>3
<1>4. CASE Crash \/ Restart
  BY <1>1, <1>4 DEF Crash, Restart, evidence, Goto, CellState, Entry
<1>5. CASE UNCHANGED <<cell, resources, evidence>>
  BY <1>1, <1>5 DEF evidence
<1>6. QED BY <1>2, <1>3, <1>4, <1>5 DEF Next

LEMMA DoneStep == Sound /\ DoneOK /\ [Next]_vars => DoneOK'
<1> SUFFICES ASSUME Sound, DoneOK, [Next]_vars PROVE DoneOK'
  OBVIOUS
<1>1. CASE cell.at = "done"
  <2>1. UNCHANGED <<cell, row, files, container, workspace, local, operations>>
    BY <1>1, DoneIsOver DEF vars, resources, evidence, runnerVars
  <2>2. QED BY <2>1 DEF DoneOK, CompletedCellIsClean
<1>2. CASE CommitRow
  <2>1. /\ cell.at = "commit" /\ cell \in CellState /\ cell.returned = None /\ row = None
        /\ cell.reason \in Reasons /\ files.result = cell.reason /\ files.failure = None
        /\ UNCHANGED <<files, container, workspace, local, operations>>
    BY <1>2 DEF Sound, Types, Coupled, RowOK, FilesOK, CommitRow, Saving, resources, runnerVars
  <2>2. CASE row' = cell.reason /\ Return(StatusOf(cell.reason))
    <3>1. cell'.returned = StatusOf(cell.reason)
      BY <2>1, <2>2 DEF Return, CellState
    <3>2. cell'.returned = "completed" => cell.reason = "success"
      BY <3>1 DEF StatusOf
    <3>3. CompletedCellIsClean'
      BY <2>1, <3>2 DEF Sound, CleanOK, CompletedCellIsClean, Saving
    <3>4. QED BY <2>1, <2>2, <3>1, <3>3 DEF DoneOK
  <2>3. CASE Goto("discard") /\ row' = row
    BY <2>1, <2>3 DEF Goto, CellState, DoneOK, CompletedCellIsClean, None
  <2>4. QED BY <1>2, <2>2, <2>3 DEF CommitRow
<1>3. CASE FailureRow
  <2>1. row = None /\ cell \in CellState
    BY <1>3 DEF Sound, Types, RowOK, FailureRow
  <2>2. cell'.returned = "failed" /\ row' \in {None, "persistence_failed"}
    BY <1>3, <2>1 DEF FailureRow, CellState
  <2>3. QED BY <2>2 DEF DoneOK, CompletedCellIsClean
<1>4. CASE cell.at # "done" /\ ~CommitRow /\ ~FailureRow
  <2>1. row' = None /\ cell'.returned \in {None, "conflict", "thrown"}
    BY <1>4, NotOverYet
  <2>2. QED BY <2>1 DEF DoneOK, CompletedCellIsClean, None
<1>5. QED BY <1>1, <1>2, <1>3, <1>4

LEMMA DoneInit == Init => DoneOK
BY DEF Init, Entry, DoneOK, CompletedCellIsClean, None

LEMMA CellInvariant == Spec => [](Sound /\ DoneOK)
<1>1. Init => Sound /\ DoneOK
  BY SoundInit, DoneInit
<1>2. Sound /\ DoneOK /\ [Next]_vars => (Sound /\ DoneOK)'
  BY SoundStep, DoneStep
<1>3. QED BY <1>1, <1>2, PTL DEF Spec

(* The budget is overrun by at most the answer that exhausted it, and what *)
(* a run says it cost is what its recorded turns cost, and the last one if *)
(* it failed after its answer, for every limit, every price of an answer   *)
(* and every fault (RunnerEngine.run).                                     *)
THEOREM SpendIsAccounted == Spec => []SpendAccounted
<1>1. Sound => SpendAccounted
  BY DEF Sound, Types, SpendOK, SpendAccounted, RunState, Turn, Asking
<1>2. QED BY <1>1, CellInvariant, PTL

(* A cell reported as completed has given its container back and removed   *)
(* its workspace, and nothing of it runs in a container, however many      *)
(* times it was tried and whatever failed (executeSweepCell).              *)
THEOREM CompletedMeansClean == Spec => []CompletedCellIsClean
<1>1. DoneOK => CompletedCellIsClean
  BY DEF DoneOK
<1>2. QED BY <1>1, CellInvariant, PTL

(* The row, the terminal file and the status of a cell say the same, and a *)
(* cell that has logged anything keeps its identity, whatever failed and   *)
(* whenever the process died (persistTerminalCell, claimRunIdentity).      *)
THEOREM EvidenceStaysTrue == Spec => []EvidenceAgrees
<1>1. Sound /\ DoneOK => EvidenceAgrees
  BY DEF Sound, RowOK, DoneOK, EvidenceAgrees
<1>2. QED BY <1>1, CellInvariant, PTL
-----------------------------------------------------------------------------
(* The log *)

LEMMA FromFinite ==
    ASSUME NEW s, NEW k, NEW n \in Nat
    PROVE  IsFiniteSet(From(s, k, n)) /\ Cardinality(From(s, k, n)) \in Nat
<1>1. IsFiniteSet(1 .. n)
  BY FS_Interval
<1>2. IsFiniteSet(From(s, k, n))
  BY <1>1, FS_Subset DEF From
<1>3. QED BY <1>2, FS_CardinalityType

\* What is left of s, and of the count of a scribe, after appending part to it.
Appended(t, s, part) ==
    /\ t \in Seq(Event) /\ Len(t) = Len(s) + Len(part)
    /\ \A i \in 1 .. Len(s) : t[i] = s[i]
    /\ \A i \in 1 .. Len(part) : t[Len(s) + i] = part[i]
    /\ \A k : \A n \in 0 .. Len(s) : From(t, k, n) = From(s, k, n)
    /\ \A k : (\A i \in 1 .. Len(part) : part[i].by = k) =>
          \A m \in 0 .. Len(part) :
              Cardinality(From(t, k, Len(s) + m)) = Cardinality(From(s, k, Len(s))) + m

LEMMA AppendCounts ==
    ASSUME NEW s \in Seq(Event), NEW part \in Seq(Event), NEW t, t = s \o part
    PROVE  Appended(t, s, part)
<1>1. /\ t \in Seq(Event) /\ Len(t) = Len(s) + Len(part)
      /\ \A i \in 1 .. Len(s) : t[i] = s[i]
      /\ \A i \in 1 .. Len(part) : t[Len(s) + i] = part[i]
      /\ Len(s) \in Nat /\ Len(part) \in Nat
  OBVIOUS
<1>2. \A k : \A n \in 0 .. Len(s) : From(t, k, n) = From(s, k, n)
  <2>1. SUFFICES ASSUME NEW k, NEW n \in 0 .. Len(s)
                 PROVE  {i \in 1 .. n : t[i].by = k} = {i \in 1 .. n : s[i].by = k}
    BY DEF From
  <2>2. \A i \in 1 .. n : t[i] = s[i]
    BY <1>1
  <2>3. QED BY <2>2
<1>3. ASSUME NEW k, \A i \in 1 .. Len(part) : part[i].by = k, NEW m \in 0 .. Len(part)
      PROVE  Cardinality(From(t, k, Len(s) + m)) = Cardinality(From(s, k, Len(s))) + m
  <2> DEFINE L == Len(s)
             new == (L + 1) .. (L + m)
             old == From(s, k, L)
  <2>1. From(t, k, L + m) = old \cup new
    <3>1. From(t, k, L + m) = {i \in 1 .. (L + m) : t[i].by = k}
      BY DEF From
    <3>2. \A i \in 1 .. (L + m) :
              \/ i \in 1 .. L /\ t[i] = s[i]
              \/ i \in new /\ t[i].by = k
      <4>1. SUFFICES ASSUME NEW i \in 1 .. (L + m), i \notin 1 .. L
                     PROVE  i \in new /\ t[i].by = k
        BY <1>1
      <4>2. i \in new /\ i - L \in 1 .. Len(part) /\ i = L + (i - L)
        BY <1>1, <4>1
      <4>3. QED BY <1>1, <1>3, <4>2
    <3>3. \A i \in 1 .. L : i \in 1 .. (L + m) /\ i \notin new
      BY <1>1
    <3>4. \A i \in new : i \in 1 .. (L + m) /\ i \notin 1 .. L
      BY <1>1
    <3>5. old = {i \in 1 .. L : s[i].by = k}
      BY DEF From
    <3> HIDE DEF new, old, L
    <3>6. QED BY <3>1, <3>2, <3>3, <3>4, <3>5
  <2>2. IsFiniteSet(new) /\ Cardinality(new) = m
    <3>1. L + 1 \in Int /\ L + m \in Int /\ (L + m) - (L + 1) + 1 = m
      BY <1>1
    <3>2. IsFiniteSet(new)
      BY <3>1, FS_Interval
    <3>3. Cardinality(new) = IF L + 1 > L + m THEN 0 ELSE (L + m) - (L + 1) + 1
      BY <3>1, FS_Interval
    <3>4. QED BY <1>1, <3>1, <3>2, <3>3
  <2>3. IsFiniteSet(old) /\ Cardinality(old) \in Nat
    BY <1>1, FromFinite
  <2>4. old \cap new = {}
    BY <1>1 DEF From
  <2>5. Cardinality(old \cup new) = Cardinality(old) + Cardinality(new) - Cardinality(old \cap new)
    BY <2>2, <2>3, FS_Union
  <2>6. Cardinality(old \cap new) = 0
    BY <2>4, FS_EmptySet
  <2> HIDE DEF new, old, L
  <2>7. Cardinality(old \cup new) = Cardinality(old) + m
    BY <1>1, <2>2, <2>3, <2>5, <2>6
  <2>8. QED BY <2>1, <2>7 DEF old, L
<1>4. QED BY <1>1, <1>2, <1>3 DEF Appended

\* The places where a cell may have the result of a run.
After == {"release", "decide", "dispose", "dead", "done"} \cup Saving \cup Failing

\* A step of the cell that is not about its runs.
Aside ==
    /\ Quiet
    /\ cell.at # "running" /\ cell'.at \notin {"acquire", "running"}
    /\ cell'.attempt = cell.attempt
    /\ cell'.result \in {cell.result, None}
    /\ cell'.at \in Trying => cell.at \in Trying \/ (log = <<>> /\ scribe = NoScribe)
    /\ cell'.result # None => cell'.at \in After

LEMMA AsideKeepsLog ==
    ASSUME Sound, LogOK, StreamOK, Aside
    PROVE  LogOK' /\ StreamOK'
<1>1. /\ log' = log /\ scribe' = scribe /\ Mine' = Mine /\ ~scribe.open
      /\ cell.attempt \in Nat /\ NoScribe.id = 0
  BY DEF Sound, Types, Coupled, CellState, Aside, Quiet, Mine, NoScribe, Open
<1>2. LogOK'
  BY <1>1 DEF LogOK, Aside
<1>3. StreamOK'
  BY <1>1 DEF StreamOK, Aside, After
<1>4. QED BY <1>2, <1>3

LEMMA CellAside ==
    ASSUME Sound, StreamOK, CellStep, ~BeginAttempt, ~AcquireContainer, ~RunSettles
    PROVE  Aside
<1>0. /\ cell \in CellState
      /\ cell.at = "start" => scribe = NoScribe
      /\ cell.result # None => cell.at \in After
  BY DEF Sound, Types, Coupled, StreamOK, After
<1>1. CASE ClaimIdentity
  <2>1. /\ Quiet /\ cell.at = "start" /\ cell'.at \in {"done", "terminalize", "prepare"}
        /\ cell'.attempt = cell.attempt /\ cell'.result = cell.result
        /\ cell'.at # "done" => ~Taken
    BY <1>0, <1>1 DEF ClaimIdentity, Quiet, Goto, Return, CellState, runnerVars, logVars
  <2>2. QED BY <1>0, <2>1 DEF Sound, RowOK, Aside, After, Trying, Saving, Failing
<1>2. CASE Terminalize \/ Prepare \/ MakeWorkspace
  <2>1. /\ Quiet /\ cell.at \in {"terminalize", "prepare", "workspace"}
        /\ cell'.at \in {"insert", "workspace", "attempt", "dispose", "failureFile"}
        /\ cell'.attempt = cell.attempt /\ cell'.result = cell.result
    BY <1>0, <1>2 DEF Terminalize, Prepare, MakeWorkspace, NoManifest, Infrastructure, Quiet,
       Goto, CellState, runnerVars, logVars
  <2>2. cell.at \notin After
    BY <2>1 DEF After, Saving, Failing
  <2>3. cell'.result = None
    BY <1>0, <2>1, <2>2
  <2>4. cell.at \in Trying /\ cell.at # "running" /\ cell'.at \notin {"acquire", "running"}
    BY <2>1 DEF Trying
  <2>5. QED BY <2>1, <2>3, <2>4 DEF Aside
<1>3. CASE AttemptsAborted \/ ReleaseContainer \/ Decide
  <2>1. /\ Quiet /\ cell.at \in {"attempt", "release", "decide"}
        /\ cell'.at \in {"dispose", "decide", "attempt"}
        /\ cell'.at = "attempt" => cell.result = None
        /\ cell'.attempt = cell.attempt /\ cell'.result = cell.result
    BY <1>0, <1>3 DEF AttemptsAborted, ReleaseContainer, Decide, Quiet,
       Goto, CellState, runnerVars, scribeVars, logVars
  <2>2. cell.at \in Trying /\ cell.at # "running" /\ cell'.at \notin {"acquire", "running"}
    BY <2>1 DEF Trying
  <2>3. cell'.at \in After \/ cell'.result = None
    BY <2>1 DEF After
  <2>4. QED BY <2>1, <2>2, <2>3 DEF Aside
<1>4. CASE Dispose \/ InsertRow \/ PublishResult
  <2>1. /\ Quiet /\ cell.at \in {"dispose", "insert", "publish"}
        /\ cell'.at \in {"insert", "publish", "unlink", "failureFile", "done"}
        /\ cell'.attempt = cell.attempt /\ cell'.result = cell.result
    BY <1>0, <1>4 DEF Dispose, InsertRow, PublishResult, ToFailureFile, Return, Quiet,
       Goto, CellState, runnerVars, logVars
  <2>2. QED BY <1>0, <2>1 DEF Aside, After, Trying, Saving, Failing
<1>5. CASE UnlinkTemporary \/ CommitRow \/ DiscardResult
  <2>1. /\ Quiet /\ cell.at \in {"unlink", "commit", "discard"}
        /\ cell'.at \in {"commit", "discard", "done", "failureFile"}
        /\ cell'.attempt = cell.attempt /\ cell'.result = cell.result
    BY <1>0, <1>5 DEF UnlinkTemporary, CommitRow, DiscardResult, ToFailureFile, Return, Quiet,
       Goto, CellState, runnerVars, logVars
  <2>2. QED BY <1>0, <2>1 DEF Aside, After, Trying, Saving, Failing
<1>6. CASE FailureFile \/ FailureRow
  <2>1. /\ Quiet /\ cell.at \in {"failureFile", "failureRow"}
        /\ cell'.at \in {"failureRow", "done"}
        /\ cell'.attempt = cell.attempt /\ cell'.result \in {cell.result, None}
    BY <1>0, <1>6 DEF FailureFile, FailureRow, Quiet, CellState, runnerVars, logVars
  <2>2. QED BY <1>0, <2>1 DEF Aside, After, Trying, Saving, Failing
<1>7. QED BY <1>1, <1>2, <1>3, <1>4, <1>5, <1>6 DEF CellStep

\* The process dies, and another one is given the cell.
LEMMA CrashKeepsLog ==
    ASSUME Sound, LogOK, StreamOK, Crash \/ Restart
    PROVE  LogOK' /\ StreamOK'
<1>1. /\ log' = log /\ scribe' = NoScribe /\ cell \in CellState
      /\ \/ cell'.at = "dead" /\ cell'.attempt = cell.attempt /\ cell'.result = cell.result
         \/ cell' = Entry
  BY DEF Sound, Types, Coupled, Crash, Restart, scribeVars, logVars, Goto, CellState
<1>2. NoScribe.buffer = <<>> /\ ~NoScribe.open /\ Entry.at = "start" /\ Entry.result = None
  BY DEF NoScribe, Open, Entry
<1>3. LogOK'
  BY <1>1, <1>2 DEF LogOK, Trying
<1>4. StreamOK'
  BY <1>1, <1>2 DEF StreamOK
<1>5. QED BY <1>3, <1>4

\* Appending two or more sequences, event by event.
LEMMA Joined ==
    ASSUME NEW s \in Seq(Event), NEW b \in Seq(Event)
    PROVE  /\ s \o b \in Seq(Event) /\ Len(s \o b) = Len(s) + Len(b)
           /\ \A i \in 1 .. Len(s) : (s \o b)[i] = s[i]
           /\ \A i \in 1 .. Len(b) : (s \o b)[Len(s) + i] = b[i]
OBVIOUS

\* The run of a new attempt begins: the first attempt finds an empty log.
LEMMA StartKeepsLog ==
    ASSUME Sound, LogOK, StreamOK, NEW k \in Nat, StartRun(k), scribe.id < k,
           cell.at \in Trying, cell'.at = "running", cell'.attempt = k, cell'.result = None
    PROVE  LogOK' /\ StreamOK'
<1>1. Starts(k)
  BY StartForm
<1>2. PICK ts \in Seq(EventTypes) :
         /\ ts = <<"run:start", IF run'.at = "close" THEN "run:finish" ELSE "step">>
         /\ scribe' = EmitAll(Open(k), ts)
  <2>1. CASE run'.at = "provider"
    BY <1>1, <2>1, Openings DEF Starts
  <2>2. CASE run'.at = "close"
    BY <1>1, <2>2, Openings DEF Starts
  <2>3. QED BY <1>1, <2>1, <2>2 DEF Starts
<1>3. Emitted(scribe', Open(k), ts)
  BY <1>2, FreshScribe, EmitFacts
<1>4. /\ scribe'.id = k /\ scribe'.chain = "live" /\ scribe'.emitted = 2
      /\ scribe'.buffer \in Seq(Event) /\ Len(scribe'.buffer) = 2
      /\ \A i \in 1 .. 2 : scribe'.buffer[i] = [by |-> k, seq |-> i, type |-> ts[i]]
  <2>1. /\ Open(k).id = k /\ Open(k).chain = "live" /\ Open(k).emitted = 0
        /\ Open(k).buffer = <<>> /\ Len(ts) = 2
    BY <1>2 DEF Open
  <2>2. scribe'.buffer \in Seq(Event)
    BY <1>3 DEF Emitted, Scribe
  <2>3. \A i \in 1 .. 2 : 0 + i = i
    OBVIOUS
  <2>4. QED BY <1>3, <2>1, <2>2, <2>3 DEF Emitted
<1>5. /\ log' = log /\ log \in Seq(Event) /\ Len(log) \in Nat /\ DOMAIN log = 1 .. Len(log)
      /\ scribe.id \in Nat /\ cell.attempt \in Nat
  BY <1>1 DEF Sound, Types, Scribe, CellState, Starts
<1>6. Mine' = 0
  <2>1. From(log, k, Len(log)) = {}
    BY <1>5 DEF From, LogOK
  <2>2. QED BY <1>4, <1>5, <2>1, FS_EmptySet DEF Mine
<1>7. LogOK'
  <2>1. \A i \in DOMAIN scribe'.buffer : /\ scribe'.buffer[i].by = scribe'.id
                                         /\ scribe'.buffer[i].seq = Mine' + i
    BY <1>4, <1>6
  <2>2. \A i \in DOMAIN log : log[i].by \in 1 .. k
    BY <1>5 DEF LogOK
  <2>3. Mine' + Len(scribe'.buffer) = scribe'.emitted
    BY <1>4, <1>6
  <2>4. QED BY <1>4, <1>5, <2>1, <2>2, <2>3 DEF LogOK
<1>8. k = 1 => log = <<>>
  BY <1>5 DEF LogOK
<1>9. ASSUME k = 1
      PROVE  /\ Stream' # <<>>
             /\ Typed(Stream', "run:start") = {1}
             /\ Typed(Stream', "run:finish") = IF run'.at = "close" THEN {Len(Stream')} ELSE {}
  <2> DEFINE b == scribe'.buffer
  <2>1. Stream' = b
    BY <1>4, <1>5, <1>8, <1>9 DEF Stream
  <2>2. Len(b) = 2 /\ DOMAIN b = {1, 2} /\ b # <<>>
    BY <1>4
  <2>3. /\ b[1].type = "run:start"
        /\ b[2].type = IF run'.at = "close" THEN "run:finish" ELSE "step"
    BY <1>2, <1>4
  <2> HIDE DEF b
  <2>4. QED BY <2>1, <2>2, <2>3 DEF Typed
<1>10. StreamOK'
  BY <1>1, <1>9 DEF StreamOK, Starts
<1>11. QED BY <1>7, <1>10

\* A turn goes on or ends: its events follow the others in the buffer.
LEMMA TurnKeepsLog ==
    ASSUME Sound, LogOK, StreamOK, Turns, UNCHANGED cell
    PROVE  LogOK' /\ StreamOK'
<1>0. /\ scribe \in Scribe /\ scribe.buffer \in Seq(Event) /\ log \in Seq(Event)
      /\ scribe.emitted \in Nat /\ log' = log /\ cell.at = "running" /\ scribe.open
  BY DEF Sound, Types, Coupled, Scribe, Turns, Asking
<1> DEFINE finish == run'.at = "close" /\ run'.reason # "thrown"
<1>1. PICK ts : Burst(ts, finish) /\ scribe' = EmitAll(scribe, ts)
  BY DEF Turns
<1>2. /\ ts \in Seq(EventTypes) /\ Len(ts) \in Nat /\ Len(ts) >= 1
      /\ \A i \in 1 .. Len(ts) : ts[i] = IF i = Len(ts) /\ finish THEN "run:finish" ELSE "step"
  BY <1>1 DEF Burst
<1>3. Emitted(scribe', scribe, ts)
  BY <1>0, <1>1, <1>2, EmitFacts
<1>4. scribe'.buffer \in Seq(Event)
  BY <1>3 DEF Emitted, Scribe
<1>5. Mine' = Mine /\ Mine \in Nat
  <2>1. Mine' = Mine
    BY <1>0, <1>3 DEF Emitted, Mine
  <2>2. Mine \in Nat
    BY <1>0, FromFinite DEF Mine
  <2>3. QED BY <2>1, <2>2
<1> DEFINE b == scribe.buffer
           c == scribe'.buffer
<1>6. /\ Len(b) \in Nat /\ Len(c) = Len(b) + Len(ts)
      /\ \A i \in 1 .. Len(b) : c[i] = b[i]
      /\ \A i \in 1 .. Len(ts) : /\ c[Len(b) + i].by = scribe.id
                                 /\ c[Len(b) + i].seq = scribe.emitted + i
                                 /\ c[Len(b) + i].type = ts[i]
  <2>1. /\ Len(b) \in Nat /\ Len(c) = Len(b) + Len(ts)
        /\ \A i \in 1 .. Len(b) : c[i] = b[i]
    BY <1>0, <1>3 DEF Emitted
  <2>2. ASSUME NEW i \in 1 .. Len(ts)
        PROVE  c[Len(b) + i] = [by |-> scribe.id, seq |-> scribe.emitted + i, type |-> ts[i]]
    BY <1>3, <2>2 DEF Emitted
  <2> HIDE DEF b, c
  <2>3. ASSUME NEW i \in 1 .. Len(ts)
        PROVE  /\ c[Len(b) + i].by = scribe.id
               /\ c[Len(b) + i].seq = scribe.emitted + i
               /\ c[Len(b) + i].type = ts[i]
    <3> DEFINE e == c[Len(b) + i]
    <3>1. e = [by |-> scribe.id, seq |-> scribe.emitted + i, type |-> ts[i]]
      BY <2>2, <2>3
    <3> HIDE DEF e
    <3>2. e.by = scribe.id /\ e.seq = scribe.emitted + i /\ e.type = ts[i]
      BY <3>1
    <3>3. QED BY <3>2 DEF e
  <2>4. QED BY <2>1, <2>3
<1>7. Len(b) \in Nat /\ Len(ts) \in Nat
  BY <1>2, <1>6
<1>8. LogOK'
  <2>1. Mine + Len(b) >= scribe.emitted => Mine + Len(c) >= scribe'.emitted
    BY <1>0, <1>2, <1>3, <1>5, <1>6 DEF Emitted
  <2>2. Mine + Len(b) = scribe.emitted => Mine + Len(c) = scribe'.emitted
    BY <1>0, <1>2, <1>3, <1>5, <1>6 DEF Emitted
  <2>3. ASSUME scribe.chain = "live", NEW i \in DOMAIN c
        PROVE  c[i].by = scribe.id /\ c[i].seq = Mine + i
    <3>1. i \in Nat /\ i >= 1 /\ i <= Len(b) + Len(ts) /\ DOMAIN b = 1 .. Len(b)
      BY <1>0, <1>4, <1>6, <2>3
    <3>2. CASE i <= Len(b)
      BY <1>6, <2>3, <3>1, <3>2 DEF LogOK
    <3>3. CASE i > Len(b)
      <4>1. PICK j \in 1 .. Len(ts) : i = Len(b) + j
        <5>1. i - Len(b) \in 1 .. Len(ts) /\ i = Len(b) + (i - Len(b))
          BY <1>7, <3>1, <3>3
        <5>2. QED BY <5>1
      <4>2. c[i].by = scribe.id /\ c[i].seq = scribe.emitted + j
        BY <1>6, <4>1
      <4>3. scribe.emitted = Mine + Len(b)
        BY <1>0, <2>3 DEF LogOK
      <4>4. scribe.emitted + j = Mine + i
        BY <1>5, <1>6, <4>1, <4>3
      <4>5. QED BY <4>2, <4>4
    <3>4. QED BY <1>6, <3>1, <3>2, <3>3
  <2>4. scribe'.id = scribe.id /\ scribe'.open = scribe.open /\ scribe'.chain = scribe.chain
    BY <1>3 DEF Emitted
  <2> HIDE DEF b, c
  <2>5. scribe.open => Mine' + Len(scribe'.buffer) >= scribe'.emitted
    BY <1>5, <2>1 DEF LogOK, b, c
  <2>6. scribe.open /\ scribe.chain = "live" => Mine' + Len(scribe'.buffer) = scribe'.emitted
    BY <1>5, <2>2 DEF LogOK, b, c
  <2>7. scribe.chain = "live" =>
           \A i \in DOMAIN scribe'.buffer : /\ scribe'.buffer[i].by = scribe.id
                                            /\ scribe'.buffer[i].seq = Mine' + i
    BY <1>5, <2>3 DEF c
  <2>8. QED BY <1>0, <2>4, <2>5, <2>6, <2>7 DEF LogOK
<1>9. ASSUME cell.attempt = 1, scribe.chain = "live"
      PROVE  /\ Stream' # <<>>
             /\ Typed(Stream', "run:start") = {1}
             /\ Typed(Stream', "run:finish") = IF finish THEN {Len(Stream')} ELSE {}
  <2> DEFINE s == Stream
             t == Stream'
  <2>1. /\ s \in Seq(Event) /\ s # <<>> /\ Typed(s, "run:start") = {1}
        /\ Typed(s, "run:finish") = {}
    BY <1>0, <1>9 DEF StreamOK, Turns, Asking, Stream
  <2>2. /\ t \in Seq(Event) /\ Len(s) \in Nat /\ Len(s) >= 1 /\ Len(t) = Len(s) + Len(ts)
        /\ Len(s) = Len(log) + Len(b) /\ Len(log) \in Nat
    <3>1. /\ t = log \o c /\ s = log \o b /\ b \in Seq(Event) /\ c \in Seq(Event)
          /\ Len(c) = Len(b) + Len(ts) /\ Len(b) \in Nat /\ Len(ts) \in Nat
      BY <1>0, <1>4, <1>6, <1>7 DEF Stream
    <3>2. Len(log) \in Nat
      BY <1>0
    <3> HIDE DEF s, t, b, c
    <3>3. /\ t \in Seq(Event) /\ Len(t) = Len(log) + Len(c)
          /\ Len(s) = Len(log) + Len(b)
      BY <1>0, <3>1, Joined
    <3>4. Len(s) >= 1
      BY <2>1, <3>1, <3>2, <3>3
    <3>5. QED BY <3>1, <3>2, <3>3, <3>4
  <2>3. \A i \in 1 .. Len(s) : t[i] = s[i]
    <3>1. TAKE i \in 1 .. Len(s)
    <3>2. CASE i <= Len(log)
      BY <1>0, <1>4, <2>2, <3>2 DEF Stream
    <3>3. CASE i > Len(log)
      <4>1. i - Len(log) \in 1 .. Len(b) /\ i = Len(log) + (i - Len(log))
        BY <1>6, <2>2, <3>3
      <4>2. s[i] = b[i - Len(log)]
        BY <1>0, <4>1, Joined DEF Stream
      <4>3. t[i] = c[i - Len(log)]
        BY <1>0, <1>2, <1>4, <1>6, <4>1, Joined DEF Stream
      <4>4. QED BY <1>6, <4>1, <4>2, <4>3
    <3>4. QED BY <2>2, <3>2, <3>3
  <2>4. \A i \in 1 .. Len(ts) : t[Len(s) + i].type = ts[i]
    <3>1. TAKE i \in 1 .. Len(ts)
    <3>2. Len(b) + i \in 1 .. Len(c) /\ Len(s) + i = Len(log) + (Len(b) + i)
      BY <1>2, <1>6, <2>2
    <3>3. \A m \in 1 .. Len(c) : t[Len(log) + m] = c[m]
      BY <1>0, <1>4, Joined DEF Stream
    <3>4. t[Len(s) + i] = c[Len(b) + i]
      BY <3>2, <3>3
    <3>5. QED BY <1>6, <3>4
  <2> HIDE DEF s, t, finish
  <2>5. DOMAIN s = 1 .. Len(s) /\ DOMAIN t = 1 .. Len(t)
    BY <2>1, <2>2
  <2>6. \A i \in DOMAIN t :
           \/ i \in DOMAIN s /\ t[i] = s[i]
           \/ /\ i \notin DOMAIN s
              /\ t[i].type = IF i = Len(t) /\ finish THEN "run:finish" ELSE "step"
    <3>1. SUFFICES ASSUME NEW i \in 1 .. Len(t), i > Len(s)
                   PROVE  t[i].type = IF i = Len(t) /\ finish THEN "run:finish" ELSE "step"
      BY <2>2, <2>3, <2>5
    <3>2. i - Len(s) \in 1 .. Len(ts) /\ i = Len(s) + (i - Len(s))
          /\ (i - Len(s) = Len(ts) <=> i = Len(t))
      BY <1>2, <2>2, <3>1
    <3>3. QED BY <1>2, <2>4, <3>2
  <2>7. DOMAIN s \subseteq DOMAIN t /\ Len(t) \in DOMAIN t /\ Len(t) \notin DOMAIN s
        /\ t # <<>>
    BY <1>2, <2>2, <2>5
  <2>8. Typed(t, "run:start") = {1}
    BY <2>1, <2>6, <2>7 DEF Typed
  <2>9. Typed(t, "run:finish") = IF finish THEN {Len(t)} ELSE {}
    BY <2>1, <2>6, <2>7 DEF Typed
  <2>10. QED BY <2>7, <2>8, <2>9 DEF t
<1>10. StreamOK'
  <2>1. scribe'.chain = scribe.chain /\ cell' = cell
    BY <1>3 DEF Emitted
  <2> HIDE DEF finish
  <2>2. finish <=> run'.at = "close" /\ run'.reason # "thrown"
    BY DEF finish
  <2>3. QED BY <1>0, <1>9, <2>1, <2>2 DEF StreamOK, Trying
<1>11. QED BY <1>8, <1>10

\* The scribe appends a part of its buffer to the log: all of it, or a beginning.
LEMMA AppendKeepsOrder ==
    ASSUME Sound, LogOK, cell.at = "running", scribe.chain = "live", NEW part \in Seq(Event),
           Len(part) <= Len(scribe.buffer),
           \A i \in 1 .. Len(part) : part[i] = scribe.buffer[i],
           log' = log \o part, scribe'.id = scribe.id
    PROVE  /\ \A i \in DOMAIN log' : /\ log'[i].seq = Cardinality(From(log', log'[i].by, i))
                                     /\ log'[i].by \in 1 .. scribe.id
           /\ Mine' = Mine + Len(part) /\ Mine \in Nat
           /\ log' \in Seq(Event)
<1>0. /\ scribe.buffer \in Seq(Event) /\ log \in Seq(Event) /\ scribe.id \in Nat
      /\ scribe.id >= 1
      /\ \A i \in 1 .. Len(log) : /\ log[i].by \in 1 .. scribe.id
                                  /\ log[i].seq = Cardinality(From(log, log[i].by, i))
  BY DEF Sound, Types, Scribe, LogOK, Trying
<1> DEFINE t == log'
           k == scribe.id
<1>1. t = log \o part
  OBVIOUS
<1> HIDE DEF t, k
<1>2. Appended(t, log, part)
  BY <1>0, <1>1, AppendCounts
<1>3. Len(log) \in Nat /\ Len(part) \in Nat /\ Mine \in Nat
  BY <1>0, FromFinite DEF Mine
<1>4. \A i \in 1 .. Len(part) : part[i].by = k /\ part[i].seq = Mine + i
  <2>1. TAKE i \in 1 .. Len(part)
  <2>2. i \in DOMAIN scribe.buffer
    BY <1>0, <1>3
  <2>3. QED BY <2>2 DEF LogOK, k
<1>5. \A m \in 0 .. Len(part) : Cardinality(From(t, k, Len(log) + m)) = Mine + m
  BY <1>2, <1>4 DEF Appended, Mine, k
<1>6. Mine' = Mine + Len(part)
  <2>1. Mine' = Cardinality(From(t, k, Len(log) + Len(part)))
    BY <1>2 DEF Appended, Mine, t, k
  <2>2. Len(part) \in 0 .. Len(part)
    BY <1>3
  <2>3. QED BY <1>5, <2>1, <2>2
<1>7. ASSUME NEW i \in 1 .. Len(t)
      PROVE  t[i].seq = Cardinality(From(t, t[i].by, i)) /\ t[i].by \in 1 .. k
  <2>1. CASE i <= Len(log)
    <3>1. i \in 1 .. Len(log) /\ i \in 0 .. Len(log)
      BY <1>3, <2>1
    <3>2. t[i] = log[i] /\ From(t, log[i].by, i) = From(log, log[i].by, i)
      BY <1>2, <3>1 DEF Appended
    <3>3. QED BY <1>0, <3>1, <3>2 DEF k
  <2>2. CASE i > Len(log)
    <3>1. PICK m \in 1 .. Len(part) : i = Len(log) + m
      <4>1. i - Len(log) \in 1 .. Len(part) /\ i = Len(log) + (i - Len(log))
        BY <1>2, <1>3, <2>2 DEF Appended
      <4>2. QED BY <4>1
    <3>2. t[i] = part[m]
      BY <1>2, <3>1 DEF Appended
    <3>3. Cardinality(From(t, k, i)) = Mine + m
      BY <1>3, <1>5, <3>1
    <3>4. k \in 1 .. k
      BY <1>0 DEF k
    <3>5. QED BY <1>4, <3>2, <3>3, <3>4
  <2>3. QED BY <1>3, <2>1, <2>2
<1>8. DOMAIN t = 1 .. Len(t)
  BY <1>2 DEF Appended
<1>9. QED BY <1>2, <1>3, <1>6, <1>7, <1>8 DEF Appended, t, k

\* The whole buffer goes to the log: what both hold together stays the same.
LEMMA FullAppend ==
    ASSUME Sound, LogOK, cell.at = "running", scribe.chain = "live",
           log' = log \o scribe.buffer, scribe'.id = scribe.id, scribe'.buffer = <<>>
    PROVE  /\ \A i \in DOMAIN log' : /\ log'[i].seq = Cardinality(From(log', log'[i].by, i))
                                     /\ log'[i].by \in 1 .. scribe.id
           /\ Mine' = Mine + Len(scribe.buffer) /\ Mine \in Nat
           /\ Stream' = Stream /\ Len(scribe'.buffer) = 0 /\ Len(scribe.buffer) \in Nat
           /\ log' = Stream
<1>1. scribe.buffer \in Seq(Event) /\ log \in Seq(Event)
  BY DEF Sound, Types, Scribe
<1>2. \A i \in 1 .. Len(scribe.buffer) : scribe.buffer[i] = scribe.buffer[i]
  OBVIOUS
<1>3. Len(scribe.buffer) \in Nat /\ Len(scribe.buffer) <= Len(scribe.buffer)
  BY <1>1
<1>4. /\ \A i \in DOMAIN log' : /\ log'[i].seq = Cardinality(From(log', log'[i].by, i))
                                /\ log'[i].by \in 1 .. scribe.id
      /\ Mine' = Mine + Len(scribe.buffer) /\ Mine \in Nat
      /\ log' \in Seq(Event)
  BY <1>1, <1>2, <1>3, AppendKeepsOrder
<1>5. \A s \in Seq(Event) : s \o <<>> = s
  OBVIOUS
<1>6. Stream' = log' /\ log' = Stream
  BY <1>4, <1>5 DEF Stream
<1>7. QED BY <1>1, <1>4, <1>6

\* An append that fails writes a beginning of the buffer, or nothing.
LEMMA TornAppend ==
    ASSUME Sound, LogOK, cell.at = "running", AppendFails, scribe'.id = scribe.id
    PROVE  /\ \A i \in DOMAIN log' : /\ log'[i].seq = Cardinality(From(log', log'[i].by, i))
                                     /\ log'[i].by \in 1 .. scribe.id
           /\ Mine' >= Mine /\ Mine \in Nat /\ Mine' \in Nat
<1> DEFINE b == scribe.buffer
<1>1. b \in Seq(Event) /\ Len(b) \in Nat
  BY DEF Sound, Types, Scribe
<1>2. PICK n \in {0, Len(b) - 1} \cap Nat : log' = log \o SubSeq(b, 1, n)
  BY DEF AppendFails
<1> DEFINE part == SubSeq(b, 1, n)
<1> HIDE DEF b
<1>3. n \in Nat /\ n <= Len(b)
  BY <1>1, <1>2
<1>4. /\ part \in Seq(Event) /\ Len(part) = n
      /\ \A i \in 1 .. n : part[i] = b[i]
  BY <1>1, <1>3
<1>5. log' = log \o part
  BY <1>2
<1> HIDE DEF part
<1>6. Len(part) <= Len(scribe.buffer) /\ \A i \in 1 .. Len(part) : part[i] = scribe.buffer[i]
  BY <1>3, <1>4 DEF b
<1>7. /\ \A i \in DOMAIN log' : /\ log'[i].seq = Cardinality(From(log', log'[i].by, i))
                                /\ log'[i].by \in 1 .. scribe.id
      /\ Mine' = Mine + Len(part) /\ Mine \in Nat
  BY <1>4, <1>5, <1>6, AppendKeepsOrder DEF AppendFails
<1>8. QED BY <1>3, <1>4, <1>7

LEMMA FlushKeepsLog ==
    ASSUME Sound, LogOK, StreamOK, Flush, UNCHANGED <<cell, run>>
    PROVE  LogOK' /\ StreamOK'
<1>0. /\ cell.at = "running" /\ scribe \in Scribe /\ scribe.open /\ cell.result = None
      /\ Len(scribe.buffer) \in Nat /\ scribe.emitted \in Nat
  BY DEF Sound, Types, Coupled, Scribe, Flush, StreamOK, Saving, Failing
<1>1. CASE /\ scribe.chain = "live" /\ log' = log \o scribe.buffer
           /\ scribe' = Written(scribe)
  <2>1. /\ scribe'.id = scribe.id /\ scribe'.buffer = <<>> /\ scribe'.open
        /\ scribe'.chain = "live" /\ scribe'.emitted = scribe.emitted
    BY <1>0, <1>1, ScribeWrites
  <2>2. /\ \A i \in DOMAIN log' : /\ log'[i].seq = Cardinality(From(log', log'[i].by, i))
                                  /\ log'[i].by \in 1 .. scribe.id
        /\ Mine' = Mine + Len(scribe.buffer) /\ Mine \in Nat
        /\ Stream' = Stream /\ Len(scribe'.buffer) = 0
    BY <1>0, <1>1, <2>1, FullAppend
  <2>3. Mine' + Len(scribe'.buffer) = scribe'.emitted
    BY <1>0, <1>1, <2>1, <2>2 DEF LogOK
  <2>4. LogOK'
    BY <1>0, <2>1, <2>2, <2>3 DEF LogOK
  <2>5. StreamOK'
    BY <1>0, <1>1, <2>1, <2>2 DEF StreamOK
  <2>6. QED BY <2>4, <2>5
<1>2. CASE AppendFails /\ scribe' = Poisoned(scribe)
  <2>1. /\ scribe'.id = scribe.id /\ scribe'.buffer = scribe.buffer /\ scribe'.open
        /\ scribe'.chain = "rejected" /\ scribe'.emitted = scribe.emitted
    BY <1>0, <1>2, ScribeWrites
  <2>2. /\ \A i \in DOMAIN log' : /\ log'[i].seq = Cardinality(From(log', log'[i].by, i))
                                  /\ log'[i].by \in 1 .. scribe.id
        /\ Mine' >= Mine /\ Mine \in Nat /\ Mine' \in Nat
    BY <1>0, <1>2, <2>1, TornAppend
  <2>3. Mine' + Len(scribe'.buffer) >= scribe'.emitted
    BY <1>0, <2>1, <2>2 DEF LogOK
  <2>4. LogOK'
    BY <1>0, <2>1, <2>2, <2>3 DEF LogOK
  <2>5. StreamOK'
    BY <1>0, <2>1 DEF StreamOK
  <2>6. QED BY <2>4, <2>5
<1>3. QED BY <1>1, <1>2 DEF Flush

LEMMA UpTo == ASSUME NEW n \in Nat PROVE Cardinality(1 .. n) = n
<1>1. 1 \in Int /\ n \in Int
  OBVIOUS
<1>2. Cardinality(1 .. n) = IF 1 > n THEN 0 ELSE n - 1 + 1
  BY <1>1, FS_Interval
<1>3. QED BY <1>2

\* A log whose one scribe numbered its events from 1 on, with one start and one
\* finish, is what replay accepts.
LEMMA OneScribe ==
    ASSUME NEW s \in Seq(Event), s # <<>>,
           \A i \in DOMAIN s : s[i].by = 1 /\ s[i].seq = Cardinality(From(s, s[i].by, i)),
           Typed(s, "run:start") = {1}, Typed(s, "run:finish") = {Len(s)}
    PROVE  Canonical(s)
<1>1. ASSUME NEW i \in DOMAIN s PROVE s[i].seq = i
  <2>0. DOMAIN s = 1 .. Len(s) /\ Len(s) \in Nat
    OBVIOUS
  <2>1. i \in Nat /\ \A j \in 1 .. i : j \in DOMAIN s
    BY <1>1, <2>0
  <2>2. From(s, 1, i) = 1 .. i
    <3>1. \A j \in 1 .. i : s[j].by = 1
      BY <2>1
    <3>2. QED BY <3>1 DEF From
  <2>3. Cardinality(1 .. i) = i
    BY <2>1, UpTo
  <2>4. QED BY <1>1, <2>1, <2>2, <2>3
<1>2. QED BY <1>1 DEF Canonical, Typed

LEMMA SettleKeepsLog ==
    ASSUME Sound, LogOK, StreamOK, RunSettles
    PROVE  LogOK' /\ StreamOK'
<1>0. /\ cell.at = "running" /\ cell \in CellState /\ scribe \in Scribe /\ scribe.open
      /\ cell.result = None /\ log \in Seq(Event) /\ scribe.buffer \in Seq(Event)
      /\ run.at = "close" /\ scribe.id = cell.attempt /\ cell.attempt \in Nat
  BY DEF Sound, Types, Coupled, LogOK, CellState, Scribe, RunSettles, StreamOK, Saving, Failing
<1>1. /\ cell'.at = "release" /\ cell'.attempt = cell.attempt
      /\ \/ ReturnsResult
         \/ Throws /\ cell'.result = None
  BY <1>0 DEF RunSettles, Goto, CellState
<1>2. \/ CloseWrites
      \/ scribe'.open = FALSE /\ scribe'.chain = "rejected" /\ scribe'.id = scribe.id
         /\ cell'.result = None /\ (AppendFails \/ log' = log)
  <2>1. CASE CloseThrows /\ cell'.result = None
    <3>1. scribe' = [Poisoned(scribe) EXCEPT !.open = FALSE]
      BY <2>1 DEF CloseThrows
    <3>2. /\ scribe'.open = FALSE /\ scribe'.chain = "rejected" /\ scribe'.id = scribe.id
      BY <1>0, <3>1 DEF Poisoned, Scribe
    <3>3. QED BY <2>1, <3>2 DEF CloseThrows
  <2>2. QED BY <1>1, <2>1 DEF ReturnsResult, Throws
<1>3. CASE CloseWrites
  <2>1. /\ scribe'.id = scribe.id /\ scribe'.buffer = <<>> /\ scribe'.open = FALSE
        /\ scribe.chain = "live" /\ log' = log \o scribe.buffer
    BY <1>0, <1>3 DEF CloseWrites, Written, Scribe
  <2>2. /\ \A i \in DOMAIN log' : /\ log'[i].seq = Cardinality(From(log', log'[i].by, i))
                                  /\ log'[i].by \in 1 .. scribe.id
        /\ log' = Stream
    BY <1>0, <2>1, FullAppend
  <2>3. LogOK'
    BY <1>0, <1>1, <2>1, <2>2 DEF LogOK
  <2>4. cell'.result # None => run.reason # "thrown"
    BY <1>0, <1>1 DEF ReturnsResult
  <2>5. ASSUME cell'.result # None, cell.attempt = 1 PROVE Canonical(log')
    <3>1. /\ Stream # <<>> /\ Typed(Stream, "run:start") = {1}
          /\ Typed(Stream, "run:finish") = {Len(Stream)}
      BY <1>0, <2>1, <2>4, <2>5 DEF StreamOK
    <3>2. log' \in Seq(Event)
      BY <1>0, <2>1
    <3>3. \A i \in DOMAIN log' : log'[i].by = 1
      BY <1>0, <2>2, <2>5
    <3> DEFINE s == log'
    <3>4. /\ s \in Seq(Event) /\ s # <<>> /\ Typed(s, "run:start") = {1}
          /\ Typed(s, "run:finish") = {Len(s)}
          /\ \A i \in DOMAIN s : s[i].by = 1 /\ s[i].seq = Cardinality(From(s, s[i].by, i))
      BY <2>2, <3>1, <3>2, <3>3
    <3> HIDE DEF s
    <3>5. Canonical(s)
      BY <3>4, OneScribe
    <3>6. QED BY <3>5 DEF s, Canonical
  <2>6. StreamOK'
    BY <1>1, <2>5 DEF StreamOK
  <2>7. QED BY <2>3, <2>6
<1>4. CASE /\ scribe'.open = FALSE /\ scribe'.chain = "rejected" /\ scribe'.id = scribe.id
           /\ cell'.result = None /\ (AppendFails \/ log' = log)
  <2>1. \A i \in DOMAIN log' : /\ log'[i].seq = Cardinality(From(log', log'[i].by, i))
                               /\ log'[i].by \in 1 .. scribe.id
    BY <1>0, <1>4, TornAppend DEF LogOK, Trying
  <2>2. LogOK'
    BY <1>0, <1>1, <1>4, <2>1 DEF LogOK
  <2>3. StreamOK'
    BY <1>1, <1>4 DEF StreamOK
  <2>4. QED BY <2>2, <2>3
<1>5. QED BY <1>2, <1>3, <1>4

\* An attempt that needs a container waits for it first.
LEMMA AttemptKeepsLog ==
    ASSUME Sound, LogOK, StreamOK, BeginAttempt \/ AcquireContainer
    PROVE  LogOK' /\ StreamOK'
<1>0. /\ cell \in CellState /\ cell.at \in {"attempt", "acquire"} /\ cell.attempt \in Nat
      /\ cell.result = None /\ log \in Seq(Event) /\ scribe \in Scribe /\ scribe.id \in Nat
      /\ cell.at \in Trying /\ ~scribe.open
  BY DEF Sound, Types, Coupled, CellState, Scribe, BeginAttempt, AcquireContainer, StreamOK,
     Saving, Failing, Trying
<1>1. CASE BeginAttempt /\ local
  <2>1. /\ StartRun(cell.attempt + 1) /\ cell'.at = "running" /\ cell'.result = None
        /\ cell'.attempt = cell.attempt + 1
    BY <1>0, <1>1 DEF BeginAttempt, CellState
  <2>2. scribe.id < cell.attempt + 1 /\ cell.attempt + 1 \in Nat
    BY <1>0 DEF LogOK
  <2>3. QED BY <1>0, <2>1, <2>2, StartKeepsLog
<1>2. CASE BeginAttempt /\ ~local
  <2>1. /\ Quiet /\ cell'.at = "acquire" /\ cell'.result = None
        /\ cell'.attempt = cell.attempt + 1
    BY <1>0, <1>2 DEF BeginAttempt, CellState, Quiet, runnerVars, scribeVars, logVars
  <2>2. log' = log /\ scribe' = scribe /\ Mine' = Mine
    BY <2>1 DEF Quiet, Mine
  <2>3. scribe.id < cell.attempt + 1 /\ scribe.id <= cell.attempt + 1
    BY <1>0 DEF LogOK
  <2>4. LogOK'
    BY <1>0, <2>1, <2>2, <2>3 DEF LogOK
  <2>5. StreamOK'
    BY <2>1 DEF StreamOK
  <2>6. QED BY <2>4, <2>5
<1>3. CASE AcquireContainer /\ Goto("running") /\ StartRun(cell.attempt)
  <2>1. cell'.at = "running" /\ cell'.result = None /\ cell'.attempt = cell.attempt
    BY <1>0, <1>3 DEF Goto, CellState
  <2>2. scribe.id < cell.attempt
    BY <1>3 DEF AcquireContainer, LogOK
  <2>3. QED BY <1>0, <1>3, <2>1, <2>2, StartKeepsLog
<1>4. CASE /\ AcquireContainer /\ UNCHANGED <<runnerVars, logVars>>
           /\ Goto("release") \/ Goto("decide")
  <2>1. /\ Quiet /\ cell'.at \in {"release", "decide"} /\ cell'.result = None
        /\ cell'.attempt = cell.attempt /\ cell.at = "acquire"
    BY <1>0, <1>4 DEF AcquireContainer, Goto, CellState, Quiet, runnerVars, logVars
  <2>2. Aside
    BY <1>0, <2>1 DEF Aside
  <2>3. QED BY <2>2, AsideKeepsLog
<1>5. AcquireContainer => <1>3!1 \/ <1>4!1
  BY DEF AcquireContainer, scribeVars
<1>6. QED BY <1>1, <1>2, <1>3, <1>4, <1>5

LEMMA LogStep == Sound /\ LogOK /\ StreamOK /\ [Next]_vars => LogOK' /\ StreamOK'
<1> SUFFICES ASSUME Sound, LogOK, StreamOK, [Next]_vars PROVE LogOK' /\ StreamOK'
  OBVIOUS
<1>1. ASSUME UNCHANGED <<cell, run, scribe, log>> PROVE LogOK' /\ StreamOK'
  BY <1>1 DEF LogOK, StreamOK, Mine, Stream
<1>2. CASE UNCHANGED vars
  BY <1>1, <1>2 DEF vars, runnerVars, scribeVars, logVars
<1>3. CASE CellStep
  BY <1>3, CellAside, AsideKeepsLog, AttemptKeepsLog, SettleKeepsLog
<1>4. CASE Crash \/ Restart
  BY <1>4, CrashKeepsLog
<1>5. CASE RunnerStep /\ UNCHANGED <<cell, resources, evidence>>
  <2>1. CASE Quiet
    BY <1>1, <1>5, <2>1 DEF Quiet
  <2>2. CASE Turns
    BY <1>5, <2>2, TurnKeepsLog
  <2>3. CASE Flush /\ UNCHANGED runnerVars
    BY <1>5, <2>3, FlushKeepsLog DEF runnerVars
  <2>4. QED BY <1>5, <2>1, <2>2, <2>3, RunnerForms DEF Sound
<1>6. QED BY <1>2, <1>3, <1>4, <1>5 DEF Next

LEMMA LogInit == Init => LogOK /\ StreamOK
<1> SUFFICES ASSUME Init PROVE LogOK /\ StreamOK
  OBVIOUS
<1>1. /\ cell.at = "start" /\ cell.result = None /\ log = <<>> /\ ~scribe.open
      /\ scribe.buffer = <<>>
  BY DEF Init, Entry, RunnerInit, ScribeInit, NoScribe, Open
<1>2. QED BY <1>1 DEF LogOK, StreamOK, Trying

(* What is in the log of each attempt is what its scribe emitted, in order *)
(* and once; what is not there is still in the buffer; and a result of the *)
(* first attempt comes with a log that replay accepts: for every number of *)
(* turns, tool calls, retries and faults, and wherever the process died    *)
(* (EventScribe.flush and close, claimRunIdentity).                        *)
THEOREM LogStaysTrue == Spec => []LogIsTrue
<1>1. Init => Sound /\ LogOK /\ StreamOK
  BY SoundInit, LogInit
<1>2. Sound /\ LogOK /\ StreamOK /\ [Next]_vars => (Sound /\ LogOK /\ StreamOK)'
  BY SoundStep, LogStep
<1>3. Sound /\ LogOK /\ StreamOK => LogIsTrue
  BY DEF LogOK, StreamOK, LogIsTrue, Mine, From
<1>4. QED BY <1>1, <1>2, <1>3, PTL DEF Spec
=============================================================================
