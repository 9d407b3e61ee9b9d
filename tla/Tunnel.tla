-------------------------------- MODULE Tunnel --------------------------------
(* tunnel/: a pseudo terminal session of the multiplexer, its ring buffer, and *)
(* the viewers the stream tunnel server attaches to it over web sockets and    *)
(* server-sent events.  A chunk of output is its sequence number and its size. *)
(* Byte counters, rate-limiter tokens (pushOutput ignores them), HTTP routes,  *)
(* dimensions and heartbeats change nothing a viewer is sent, and are left out.*)
EXTENDS NoValue, Integers, Sequences, SequencesExt, FiniteSets

CONSTANTS WebSockets, EventStreams, \* the connections viewers may open
          MaxLines, MaxBytes,       \* capacity of the ring buffer
          Sizes,                    \* sizes of a chunk
          MaxOutput                 \* bound: chunks of a session

\* No code asks for a buffer without a line; the capacities have defaults.
ASSUME TunnelAssumption ==
    MaxLines \in Nat \ {0} /\ MaxBytes \in Nat /\ Sizes \subseteq Nat

VARIABLE tunnel

Viewers == WebSockets \cup EventStreams

NewSession ==
    [status |-> "ATTACHED", seq |-> 0, ring |-> <<>>, dropped |-> 0, listeners |-> {}]

Ended(s) == s.status \in {"TERMINATED", "ERROR"}

TunnelInit ==
    tunnel = [running |-> FALSE, session |-> None,
              link |-> [v \in Viewers |-> "new"], got |-> [v \in Viewers |-> <<>>]]
-----------------------------------------------------------------------------
(* RingBuffer *)

Bytes(ring) == SumFunction([i \in DOMAIN ring |-> ring[i].size])

Drop(ring, n) == SubSeq(ring, n + 1, Len(ring))

\* What push() asks before it stores a chunk; an empty buffer takes any.
HasRoom(ring, size) ==
    ring = <<>> \/ (Len(ring) < MaxLines /\ Bytes(ring) + size <= MaxBytes)

EvictedOnce(ring, size) == IF HasRoom(ring, size) THEN 0 ELSE 1

\* push(): the oldest chunks make room for the new one.
Evicted(ring, size) ==
    CHOOSE n \in 0..Len(ring) :
        /\ HasRoom(Drop(ring, n), size)
        /\ \A m \in 0..(n - 1) : ~HasRoom(Drop(ring, m), size)

Pushed(s, size) ==
    LET n == Evicted(s.ring, size)
    IN [s EXCEPT !.seq = @ + 1,
                 !.ring = Append(Drop(@, n), [seq |-> s.seq + 1, size |-> size]),
                 !.dropped = @ + n]

\* getScrollback(): back from the newest chunk while both limits allow, the
\* first one whatever its size.
Scrollback(ring, lines, bytes) ==
    LET Fits(n) == n <= lines /\ (n <= 1 \/ Bytes(Drop(ring, Len(ring) - n)) <= bytes)
    IN Drop(ring, Len(ring) - (CHOOSE n \in 0..Len(ring) :
            Fits(n) /\ (n = Len(ring) \/ ~Fits(n + 1))))
-----------------------------------------------------------------------------
(* PtySession and PtyMultiplexer.  broken: a listener threw, and emitError     *)
(* makes the session an ERROR, a terminated one too.                           *)

HasSession == tunnel.session # None

Becomes(s, status) == [s EXCEPT !.status = status]

CreateSession ==
    /\ ~HasSession
    /\ tunnel' = [tunnel EXCEPT !.session = NewSession]

TakesAnyhow(s) == s.seq < MaxOutput

TakesOutput(s) == ~Ended(s) /\ s.seq < MaxOutput

\* pushOutput(): a paused session streams again.  Every listener whose socket
\* is open sends the chunk.
PushOutput(size, broken) ==
    LET s == tunnel.session IN
    /\ HasSession
    /\ TakesOutput(s)
    /\ tunnel' =
         [tunnel EXCEPT
             !.session = Becomes(Pushed(s, size), IF broken THEN "ERROR" ELSE "STREAMING"),
             !.got = [v \in Viewers |->
                 IF v \in s.listeners /\ tunnel.link[v] = "open"
                   THEN Append(@[v], s.seq + 1) ELSE @[v]]]

Pause ==
    /\ HasSession
    /\ tunnel.session.status \in {"STREAMING", "ATTACHED"}
    /\ tunnel' = [tunnel EXCEPT !.session = Becomes(@, "PAUSED")]

Resume ==
    /\ HasSession
    /\ tunnel.session.status = "PAUSED"
    /\ tunnel' = [tunnel EXCEPT !.session = Becomes(@, "STREAMING")]

Terminate(broken) ==
    /\ HasSession
    /\ tunnel.session.status # "TERMINATED"
    /\ tunnel' = [tunnel EXCEPT !.session =
                     Becomes(@, IF broken THEN "ERROR" ELSE "TERMINATED")]

\* resize(): also of a session in ERROR.  The model keeps no dimensions, so
\* only a listener that throws shows.
ResizeFails ==
    /\ HasSession
    /\ tunnel.session.status # "TERMINATED"
    /\ tunnel' = [tunnel EXCEPT !.session = Becomes(@, "ERROR")]

\* removeSession(): the session is disposed with its listeners; those who watch
\* it keep their connections.
RemoveSession ==
    /\ HasSession
    /\ tunnel' = [tunnel EXCEPT !.session = None]
-----------------------------------------------------------------------------
(* StreamTunnelServer *)

Start ==
    /\ ~tunnel.running
    /\ tunnel' = [tunnel EXCEPT !.running = TRUE]

\* A second viewer finds the session of the first.
Joined(v) ==
    LET s == IF HasSession THEN tunnel.session ELSE NewSession
    IN [s EXCEPT !.listeners = @ \cup {v}]

Sequences(chunks) == [i \in DOMAIN chunks |-> chunks[i].seq]

\* handleWsOpen: the listener first, then the scrollback, in one task.
OpenWebSocket(v) ==
    /\ tunnel.running /\ tunnel.link[v] = "new"
    /\ tunnel' = [tunnel EXCEPT
          !.session = Joined(v), !.link[v] = "open",
          !.got[v] = Sequences(Scrollback(Joined(v).ring, MaxLines, MaxBytes))]

\* handleSseStream: no scrollback.
OpenEventStream(v) ==
    /\ tunnel.running /\ tunnel.link[v] = "new"
    /\ tunnel' = [tunnel EXCEPT !.session = Joined(v), !.link[v] = "open"]

\* The viewer goes; its listener stays, and finds the socket closed.
Close(v) ==
    /\ tunnel.link[v] = "open"
    /\ tunnel' = [tunnel EXCEPT !.link[v] = "closed"]

Stop ==
    /\ tunnel.running
    /\ tunnel' = [tunnel EXCEPT
          !.running = FALSE,
          !.link = [v \in Viewers |-> IF @[v] = "open" THEN "closed" ELSE @[v]]]

TunnelNext ==
    \/ Start \/ Stop
    \/ CreateSession \/ RemoveSession \/ Pause \/ Resume \/ ResizeFails
    \/ \E broken \in BOOLEAN :
           Terminate(broken) \/ \E size \in Sizes : PushOutput(size, broken)
    \/ \E v \in WebSockets : OpenWebSocket(v)
    \/ \E v \in EventStreams : OpenEventStream(v)
    \/ \E v \in Viewers : Close(v)
-----------------------------------------------------------------------------
(* Properties *)

\* The ring is the tail of the output, within its limits unless one chunk alone
\* exceeds them, and what left it is counted (RingBuffer.push).
RingIsTail(s) ==
    /\ Len(s.ring) <= MaxLines
    /\ Bytes(s.ring) <= MaxBytes \/ Len(s.ring) = 1
    /\ s.dropped + Len(s.ring) = s.seq
    /\ \A i \in DOMAIN s.ring : s.ring[i].seq = s.dropped + i

\* A viewer of the present session has got its output without gap, repetition
\* or delay, from where it joined (handleWsOpen, handleSseStream, pushOutput).
SeesTail(s, v) ==
    \A i \in DOMAIN tunnel.got[v] : tunnel.got[v][i] = s.seq - Len(tunnel.got[v]) + i

TunnelKeepsOutput ==
    HasSession =>
        /\ RingIsTail(tunnel.session)
        /\ \A v \in tunnel.session.listeners :
               tunnel.link[v] = "open" => SeesTail(tunnel.session, v)

\* A session that ended never takes output again, unless it is removed and made
\* anew, and viewers of no session get nothing.
EndedIsSilent ==
    HasSession /\ Ended(tunnel.session) =>
        /\ \A v \in Viewers : tunnel.link[v] # "new" => tunnel'.got[v] = tunnel.got[v]
        /\ tunnel'.session = None \/ Ended(tunnel'.session)
=============================================================================
