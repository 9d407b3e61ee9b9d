---------------------------- MODULE EventScribe ----------------------------
(***************************************************************************)
(* The event log of one run (infrastructure/telemetry/event-scribe.ts,     *)
(* event-artifact-writer.ts).  A scribe numbers the events it is given,    *)
(* keeps them in a buffer and appends the buffer to events.jsonl when a    *)
(* timer fires, when a batch is full and when it is closed.  A flush runs  *)
(* in one callback of a promise chain (writeLock): a flush that throws     *)
(* puts its events back in the buffer and leaves the chain rejected, so    *)
(* that no later flush of this scribe writes anything.                     *)
(*                                                                         *)
(* Every attempt of a cell opens a scribe of its own on the same file.     *)
(***************************************************************************)
EXTENDS Integers, Sequences, FiniteSets

CONSTANT Faults     \* bound: how many operations of the run may fail

ASSUME FaultsAssumption == Faults \in Nat

VARIABLES
    scribe,     \* the scribe of the current attempt
    log,        \* events.jsonl: the events, each with the scribe that wrote it
    faults      \* operations that failed so far

logVars == <<scribe, log>>
scribeVars == <<logVars, faults>>

(* An operation fails; the rest of the action says which. *)
Fault == faults < Faults /\ faults' = faults + 1
NoFault == UNCHANGED faults

Open(k) == [id |-> k, emitted |-> 0, buffer |-> <<>>, chain |-> "live", open |-> TRUE]

NoScribe == [Open(0) EXCEPT !.open = FALSE]

ScribeInit ==
    /\ scribe = NoScribe
    /\ log = <<>>
    /\ faults = 0

(* emit, once for each type: sequence numbers start at 1 in every scribe. *)
EmitAll(s, types) ==
    [s EXCEPT !.emitted = @ + Len(types),
              !.buffer = @ \o [i \in DOMAIN types |->
                                 [by |-> s.id, seq |-> s.emitted + i, type |-> types[i]]]]

Emit(s, type) == EmitAll(s, <<type>>)

(* The append wrote everything. *)
Written(s) == [s EXCEPT !.buffer = <<>>]

(* A variant: the next flush of the same scribe tries again. *)
StillLive(s) == s

(* The append threw: what it had taken is put back, the chain is rejected. *)
Poisoned(s) == [s EXCEPT !.chain = "rejected"]

(***************************************************************************)
(* An append that fails.  It writes nothing when the directory or a file   *)
(* is no longer the one the writer opened, and all of the events but the   *)
(* last when the device fills up (a torn line is not counted as an event). *)
(***************************************************************************)
AppendFails ==
    /\ scribe.chain = "live"
    /\ Fault
    /\ \E n \in {0, Len(scribe.buffer) - 1} \cap Nat :
          log' = log \o SubSeq(scribe.buffer, 1, n)

(* The interval timer or a full batch. *)
Flush ==
    /\ scribe.open
    /\ \/ /\ scribe.chain = "live"
          /\ scribe.buffer # <<>>
          /\ log' = log \o scribe.buffer
          /\ scribe' = Written(scribe)
          /\ NoFault
       \/ /\ AppendFails
          /\ scribe' = Poisoned(scribe)

(* close: the last flush; the files are closed whether it throws or not. *)
CloseWrites ==
    /\ scribe.chain = "live"
    /\ log' = log \o scribe.buffer
    /\ scribe' = [Written(scribe) EXCEPT !.open = FALSE]
    /\ NoFault

CloseThrows ==
    /\ \/ scribe.chain = "rejected" /\ UNCHANGED <<log, faults>>
       \/ AppendFails
    /\ scribe' = [Poisoned(scribe) EXCEPT !.open = FALSE]

(***************************************************************************)
(* What replay accepts (replay/event-envelope-validator.ts,                *)
(* validateCanonicalEvents): one run:start, first; one run:finish, last;   *)
(* sequence numbers 1, 2, 3 ... over the whole file.                       *)
(***************************************************************************)
Canonical(events) ==
    /\ events # <<>>
    /\ {i \in DOMAIN events : events[i].type = "run:start"} = {1}
    /\ {i \in DOMAIN events : events[i].type = "run:finish"} = {Len(events)}
    /\ \A i \in DOMAIN events : events[i].seq = i
=============================================================================
