--------------------------- MODULE ProviderStream ---------------------------
(* providers/: how an adapter reads a response and ends the lease on it, and   *)
(* what the runner's turn is made of.  A stream is lines of server-sent events *)
(* that arrive in chunks cut anywhere; a buffered response is read at once.    *)
EXTENDS NoValue, Integers, Sequences, SequencesExt, FiniteSets, FiniteSetsExt

CONSTANTS Adapters,        \* among "anthropic", "openai", "google"
          SentLines,       \* what a line may be
          MaxSentLines     \* bound

\* What is absent is neither a number, nor how a lease ended, nor a model's turn.
ASSUME StreamAssumption ==
  /\ None \notin Int
  /\ None \notin [is : {"completed", "failed", "aborted"}, tokens : Int]
  /\ None \notin [text : Nat, calls : Nat, tokens : Int]

VARIABLE wire

NoUsage == [in |-> 0, out |-> 0]

\* Each line is two pieces, the newline being in the second one, so that a chunk
\* may end within a line or after it.
Pieces(lines) ==
  [k \in 1..(2 * Len(lines)) |-> <<(k + 1) \div 2, IF k % 2 = 1 THEN "head" ELSE "tail">>]

StreamInit ==
  \E adapter \in Adapters, lines \in SeqOf(SentLines, MaxSentLines), unfinished \in BOOLEAN :
    /\ unfinished => lines # <<>>
    /\ wire = [on |-> "stream", adapter |-> adapter, lines |-> lines, unfinished |-> unfinished,
               suspended |-> FALSE,
               coming |-> IF unfinished THEN Front(Pieces(lines)) ELSE Pieces(lines),
               at |-> "read", buffer |-> <<>>, todo |-> <<>>, usage |-> NoUsage, actual |-> None,
               completed |-> FALSE, failed |-> FALSE, told |-> <<>>, lease |-> None,
               turn |-> None]

\* A buffered response holds the same content, and is JSON or is not.
TurnInit ==
  \E adapter \in Adapters, content \in SeqOf({"text", "call"}, MaxSentLines), readable \in BOOLEAN :
    wire = [on |-> "turn", adapter |-> adapter, content |-> content, readable |-> readable,
            lease |-> None, turn |-> None]

WireInit == StreamInit \/ TurnInit
-----------------------------------------------------------------------------
(* generateStream *)

\* The pieces up to the last newline are lines; the rest waits in the buffer.
Newlines(pieces) == {i \in DOMAIN pieces : pieces[i][2] = "tail"}

LastNewline(pieces) == Max({0} \cup Newlines(pieces))

SplitAnew(buffer, chunk) ==
  <<SubSeq(chunk, 1, LastNewline(chunk)), SubSeq(chunk, LastNewline(chunk) + 1, Len(chunk))>>

Split(buffer, chunk) ==
  LET pieces == buffer \o chunk
  IN <<SubSeq(pieces, 1, LastNewline(pieces)),
       SubSeq(pieces, LastNewline(pieces) + 1, Len(pieces))>>

\* readProviderStreamChunk
ReceiveChunk ==
  /\ wire.on = "stream" /\ wire.at = "read"
  /\ \E n \in 1..Len(wire.coming) :
       LET split == Split(wire.buffer, SubSeq(wire.coming, 1, n))
       IN wire' = [wire EXCEPT !.at = "lines", !.todo = split[1], !.buffer = split[2],
                               !.coming = SubSeq(@, n + 1, Len(@))]

\* The last line, if it has no newline, stays in the buffer and is forgotten.
StreamEnds ==
  /\ wire.on = "stream" /\ wire.at = "read" /\ wire.coming = <<>>
  /\ wire' = [wire EXCEPT !.at = "close", !.completed = TRUE]

\* The connection breaks, the request times out or its signal is aborted.
ReadFails ==
  /\ wire.on = "stream" /\ wire.at = "read"
  /\ wire' = [wire EXCEPT !.at = "close", !.failed = TRUE]

\* An update of Anthropic's counts what it names, one of the others all.
Merged(adapter, usage, update) ==
  IF adapter = "anthropic"
    THEN IF update = "usage in" THEN [usage EXCEPT !.in = 2] ELSE [usage EXCEPT !.out = 3]
    ELSE IF update = "usage in" THEN [in |-> 2, out |-> 0] ELSE [in |-> 2, out |-> 3]

TotalTokens(usage) == usage.in + usage.out

IsUsage(line) == line \in {"usage in", "usage out"}

\* Calls of tools are passed on by the OpenAI adapter alone.
Chunks(adapter, usage, line) ==
  IF IsUsage(line) THEN <<[usage |-> Merged(adapter, usage, line)]>>
  ELSE IF line = "text" \/ line = "finish" \/ (line = "call" /\ adapter = "openai")
    THEN <<[said |-> line]>>
  ELSE <<>>

IsDone(adapter, line) == line = "[DONE]" /\ adapter # "google"

FirstNewline(pieces) == Min(Newlines(pieces))

\* A line that has lost its head is no event.
EventOf(pieces) == IF pieces[1][2] = "head" THEN wire.lines[pieces[1][1]] ELSE "note"

\* One line of a chunk: what is no data or no JSON is passed over.
HandleLine ==
  /\ wire.on = "stream" /\ wire.at = "lines" /\ wire.todo # <<>>
  /\ LET n == FirstNewline(wire.todo)
         line == EventOf(wire.todo)
         usage == IF IsUsage(line) THEN Merged(wire.adapter, wire.usage, line) ELSE wire.usage
     IN IF IsDone(wire.adapter, line)
          THEN wire' = [wire EXCEPT !.at = "close", !.completed = TRUE, !.todo = <<>>]
          ELSE wire' = [wire EXCEPT !.todo = SubSeq(@, n + 1, Len(@)), !.usage = usage,
                          !.actual = IF IsUsage(line) THEN TotalTokens(usage) ELSE @,
                          !.told = @ \o Chunks(wire.adapter, wire.usage, line),
                          !.suspended = Chunks(wire.adapter, wire.usage, line) # <<>>]

ReadOn ==
  /\ wire.on = "stream" /\ wire.at = "lines" /\ wire.todo = <<>>
  /\ wire' = [wire EXCEPT !.at = "read", !.suspended = FALSE]

\* The consumer is cancelled, or throws, while the generator is suspended at
\* what it has yielded last; it closes the iterator.
ConsumerCloses ==
  /\ wire.on = "stream" /\ wire.at = "lines" /\ wire.suspended
  /\ wire' = [wire EXCEPT !.at = "close"]

\* finalizeProviderStream: what comes to light in cleaning up fails a stream
\* that had ended well.
Outcome(failed, completed, actual) ==
  IF failed THEN [is |-> "failed", tokens |-> None]
  ELSE IF completed THEN [is |-> "completed", tokens |-> actual]
  ELSE [is |-> "aborted", tokens |-> None]

FinalizeProviderStream ==
  /\ wire.on = "stream" /\ wire.at = "close"
  /\ \E cleanupFails \in BOOLEAN :
       wire' = [wire EXCEPT !.at = "closed",
                  !.lease = Outcome(wire.failed \/ cleanupFails, wire.completed, wire.actual)]
-----------------------------------------------------------------------------
(* consumeProviderStream and generateTurn *)

Said(chunks, what) == Cardinality({i \in DOMAIN chunks : chunks[i] = [said |-> what]})

Usages(chunks) == {i \in DOMAIN chunks : "usage" \in DOMAIN chunks[i]}

\* The turn of a stream that came to its end; a cleanup that failed is not told.
ConsumeProviderStream ==
  /\ wire.on = "stream" /\ wire.at = "closed" /\ wire.completed /\ wire.turn = None
  /\ wire' = [wire EXCEPT !.turn =
       [text |-> Said(wire.told, "text"), calls |-> Said(wire.told, "call"),
        tokens |-> IF Usages(wire.told) = {} THEN 0
                   ELSE TotalTokens(wire.told[Max(Usages(wire.told))].usage)]]

Count(lines, what) == Cardinality({i \in DOMAIN lines : lines[i] = what})

\* Unlike its stream, the buffered response of any adapter has calls of tools.
TurnOf(content, tokens) ==
  [text |-> Count(content, "text"), calls |-> Count(content, "call"), tokens |-> tokens]

\* generateTurn and consumeProviderTurnResponse
GenerateTurn ==
  /\ wire.on = "turn" /\ wire.lease = None
  /\ wire' = IF wire.readable
       THEN [wire EXCEPT !.lease = Outcome(FALSE, TRUE, 5), !.turn = TurnOf(wire.content, 5)]
       ELSE [wire EXCEPT !.lease = Outcome(TRUE, FALSE, None)]

WireNext ==
  \/ ReceiveChunk \/ StreamEnds \/ ReadFails \/ HandleLine \/ ReadOn \/ ConsumerCloses
  \/ FinalizeProviderStream \/ ConsumeProviderStream \/ GenerateTurn
-----------------------------------------------------------------------------
(* Properties *)

\* What the server has said in finished lines, up to its [DONE].
Finished ==
  LET whole == Len(wire.lines) - (IF wire.unfinished THEN 1 ELSE 0)
      done == {i \in 1..whole : IsDone(wire.adapter, wire.lines[i])}
  IN SubSeq(wire.lines, 1, IF done = {} THEN whole ELSE Min(done) - 1)

PassedOn(line) ==
  line \in {"text", "finish", "usage in", "usage out"} \cup (IF wire.adapter = "openai" THEN {"call"} ELSE {})

\* However the bytes are cut into chunks, the consumer is told what the finished
\* lines say, in order and once, all of it if the stream came to its end; and a
\* turn holds what it was told (generateStream, consumeProviderStream).
StreamIsWhole ==
  wire.on = "stream" =>
    LET passed == {i \in DOMAIN Finished : PassedOn(Finished[i])}
        Place(i) == Cardinality({j \in passed : j <= i})
        n == Len(wire.told)
    IN /\ n <= Cardinality(passed)
       /\ wire.completed => n = Cardinality(passed)
       /\ \A i \in passed :
            Place(i) <= n => IF IsUsage(Finished[i]) THEN "usage" \in DOMAIN wire.told[Place(i)]
                             ELSE wire.told[Place(i)] = [said |-> Finished[i]]
       /\ wire.turn # None =>
            /\ wire.turn.text = Count(Finished, "text")
            /\ wire.turn.calls = IF PassedOn("call") THEN Count(Finished, "call") ELSE 0

\* A lease that ends well is given the tokens of the turn, once all of a stream
\* was read; one that was cut off gives none (finalizeProviderStream,
\* consumeProviderTurnResponse).
LeaseTellsUsage ==
  wire.lease # None =>
    /\ wire.on = "stream" /\ wire.lease.is = "completed" =>
         /\ wire.completed /\ ~wire.failed
         /\ wire.turn # None => wire.turn.tokens = IF wire.lease.tokens = None THEN 0
                                                    ELSE wire.lease.tokens
    /\ wire.lease.is # "completed" => wire.lease.tokens = None
    /\ wire.on = "turn" => (wire.turn # None) = (wire.lease.is = "completed")
=============================================================================
