----------------------------- MODULE TokenBucket -----------------------------
(***************************************************************************)
(* TokenBucketRateLimiter: one bucket of requests and one of tokens, a cap *)
(* on permits in flight, a backoff after a rate-limited turn, a queue and  *)
(* the one timer that wakes it.                                            *)
(*                                                                         *)
(* Time passes in ticks.  The code refills lazily, from the time since the *)
(* last refill, before it reads a bucket; here a tick refills, which gives *)
(* every reader the same amount.                                           *)
(***************************************************************************)
EXTENDS Integers, FiniteSets, Sequences

CONSTANTS
    Callers,          \* users of the limiter; each asks for one permit at a time
    Est,              \* estimatedTokens of each caller
    MaxRequests,      \* maxRpm, in units of which a request costs RequestCost
    RequestCost,
    RefillRequests,   \* units a tick refills
    InitialRequests,
    MaxTokens,        \* maxTpm
    RefillTokens,
    InitialTokens,
    MaxConcurrent,    \* maxConcurrentRequests
    BackoffBase, BackoffFactor, BackoffMax,
    RetryAfters,      \* what a provider may send as retry-after, in ticks
    Reports,          \* what a provider may report as tokens used
    MinDelay, MaxDelay,   \* the timer's 20 ms and 2000 ms
    MaxThrottles,     \* bound on consecutiveThrottles
    None

ASSUME BucketAssumption ==
    /\ Est \in [Callers -> Nat]
    /\ MaxRequests \in Nat \ {0} /\ RequestCost \in Nat \ {0}
    /\ RefillRequests \in Nat \ {0} /\ InitialRequests \in Nat
    /\ MaxTokens \in Nat \ {0} /\ RefillTokens \in Nat \ {0}
    /\ InitialTokens \in Nat
    /\ MaxConcurrent \in Nat \ {0}
    /\ BackoffBase \in Nat /\ BackoffFactor \in Nat /\ BackoffMax \in Nat
    /\ RetryAfters \subseteq Nat /\ Reports \subseteq Nat
    /\ MinDelay \in Nat \ {0} /\ MaxDelay \in Nat /\ MinDelay <= MaxDelay
    /\ MaxThrottles \in Nat
    /\ None \notin Nat \cup Callers

VARIABLES
    requests,    \* availableRequests
    tokens,      \* availableTokens
    inFlight,    \* inFlightRequests
    backoff,     \* ticks to backoffUntilTimestamp, 0 when it has passed
    throttles,   \* consecutiveThrottles
    queue,
    timer,       \* ticks left of drainTimer, None when it is not armed
    permit,      \* what each caller has: nothing, a place in the queue, a permit
    excess       \* history: the worst window's permits over what its time allows

vars == <<requests, tokens, inFlight, backoff, throttles, queue, timer, permit,
          excess>>

AtLeast(low, x) == IF x < low THEN low ELSE x
AtMost(high, x) == IF x > high THEN high ELSE x
CeilDiv(a, b) == (a + b - 1) \div b

Init ==
    /\ requests = InitialRequests
    /\ tokens = InitialTokens
    /\ inFlight = 0
    /\ backoff = 0
    /\ throttles = 0
    /\ queue = <<>>
    /\ timer = None
    /\ permit = [c \in Callers |-> "none"]
    /\ excess = 0
-----------------------------------------------------------------------------
(* The queue *)

\* What a permit reserves: never more than the bucket can hold.
Reserved(c) == AtMost(MaxTokens, Est[c])

\* The token bucket once the first i of queue q have taken their reservation
\* out of tok.  A reservation may be larger than what is left.
TokensAfter(q, tok) ==
    LET left[i \in 0..Len(q)] ==
            IF i = 0 THEN tok ELSE AtLeast(0, left[i - 1] - Reserved(q[i]))
    IN left

EnoughTokens(tok, need) == tok >= need \/ 10 * tok >= MaxTokens

\* The i-th of q gets a permit, those before it having got theirs.
Admits(q, i, req, tok, flying) ==
    /\ flying + i - 1 < MaxConcurrent
    /\ req - (i - 1) * RequestCost >= RequestCost
    /\ EnoughTokens(TokensAfter(q, tok)[i - 1], Reserved(q[i]))

\* How long the timer sleeps when the head of the queue has to wait.
Delay(head, req, tok) ==
    LET forRequest == CeilDiv(RequestCost - req, RefillRequests)
        forTokens  == CeilDiv(Est[head] - tok, RefillTokens)
    IN AtLeast(MinDelay, AtMost(MaxDelay, AtLeast(forRequest, forTokens)))

\* Arm the timer if somebody waits and it is not armed.
Armed(rest, req, tok, pause, clock) ==
    IF rest = <<>> \/ clock # None THEN clock
    ELSE IF pause > 0 THEN pause
    ELSE Delay(Head(rest), req, tok)

\* processQueue, run on the values its caller has left: serve the queue from
\* its head until somebody has to wait, and see to it that the timer runs.
ProcessQueue(q, held, req, tok, flying, pause, clock) ==
    \E n \in 0..Len(q) :
        /\ \A i \in 1..n : pause = 0 /\ Admits(q, i, req, tok, flying)
        /\ n < Len(q) => pause > 0 \/ ~Admits(q, n + 1, req, tok, flying)
        /\ queue' = SubSeq(q, n + 1, Len(q))
        /\ permit' = [c \in Callers |->
                          IF \E i \in 1..n : q[i] = c THEN "held" ELSE held[c]]
        /\ requests' = req - n * RequestCost
        /\ tokens' = TokensAfter(q, tok)[n]
        /\ inFlight' = flying + n
        /\ timer' = IF q = <<>> THEN None
                    ELSE Armed(queue', requests', tokens', pause, clock)
        /\ excess' = excess + n * RequestCost

\* acquire() grants at once when nobody waits and nothing is short.
HasCapacity(c) ==
    /\ backoff = 0
    /\ queue = <<>>
    /\ inFlight < MaxConcurrent
    /\ requests >= RequestCost
    /\ EnoughTokens(tokens, Est[c])

Acquire(c) ==
    /\ permit[c] = "none"
    /\ IF HasCapacity(c)
       THEN /\ permit' = [permit EXCEPT ![c] = "held"]
            /\ requests' = requests - RequestCost
            /\ tokens' = AtLeast(0, tokens - Reserved(c))
            /\ inFlight' = inFlight + 1
            /\ excess' = excess + RequestCost
            /\ UNCHANGED <<queue, timer>>
       ELSE ProcessQueue(Append(queue, c), [permit EXCEPT ![c] = "queued"],
                         requests, tokens, inFlight, backoff, timer)
    /\ UNCHANGED <<backoff, throttles>>

Splice(i) == SubSeq(queue, 1, i - 1) \o SubSeq(queue, i + 1, Len(queue))

\* The signal of a waiting caller aborts.
AbortQueued(c) ==
    /\ \E i \in DOMAIN queue :
           /\ queue[i] = c
           /\ ProcessQueue(Splice(i), [permit EXCEPT ![c] = "none"],
                           requests, tokens, inFlight, backoff, timer)
    /\ UNCHANGED <<backoff, throttles>>

TimerFires ==
    /\ timer = 0
    /\ ProcessQueue(queue, permit, requests, tokens, inFlight, backoff, None)
    /\ UNCHANGED <<backoff, throttles>>
-----------------------------------------------------------------------------
(* The end of a permit *)

\* calculateBackoffDelay after this throttle, with or without jitter.
Exponential(n) == BackoffBase * BackoffFactor ^ AtMost(6, n)

BackoffDelays ==
    LET capped == AtMost(BackoffMax, Exponential(throttles + 1))
    IN (capped \div 2)..capped

\* A second release of a permit returns the promise of the first.
HoldsPermit(c) == permit[c] = "held"

PutBack(c) == [permit EXCEPT ![c] = "none"]

\* The provider said 429: pause for what it asked, or for the exponential
\* delay.  A shorter pause replaces a longer one.
FinalizeRateLimited(c) ==
    /\ HoldsPermit(c)
    /\ throttles < MaxThrottles
    /\ throttles' = throttles + 1
    /\ \E pause \in {AtMost(BackoffMax, t) : t \in RetryAfters} \cup BackoffDelays :
           /\ backoff' = pause
           /\ ProcessQueue(queue, PutBack(c), 0, 0, inFlight - 1, pause, timer)

FinalizeQuietly(c, used) ==
    /\ HoldsPermit(c)
    /\ throttles' = AtLeast(0, throttles - 1)
    /\ permit' = PutBack(c)
    /\ inFlight' = inFlight - 1
    /\ tokens' = AtMost(MaxTokens, AtLeast(0, tokens + Reserved(c) - used))
    /\ UNCHANGED <<requests, backoff, queue, timer, excess>>

\* The turn ended otherwise: give back the reservation, charge what was used.
Finalize(c, used) ==
    /\ HoldsPermit(c)
    /\ throttles' = AtLeast(0, throttles - 1)
    /\ ProcessQueue(queue, PutBack(c), requests,
                    AtMost(MaxTokens, AtLeast(0, tokens + Reserved(c) - used)),
                    inFlight - 1, backoff, timer)
    /\ UNCHANGED backoff

\* resolveReconciledTokens: the report, if there is one; else all that was
\* reserved by a completed turn and nothing by one that failed.
FinalizeCompleted(c) == \E used \in Reports \cup {Reserved(c)} : Finalize(c, used)
FinalizeFailed(c) == Finalize(c, 0)

Release(c) == FinalizeRateLimited(c) \/ FinalizeCompleted(c) \/ FinalizeFailed(c)
-----------------------------------------------------------------------------
RefilledUncapped(max, x, rate) == x + rate

Refilled(max, x, rate) == AtMost(max, x + rate)

Tick ==
    /\ requests' = Refilled(MaxRequests, requests, RefillRequests)
    /\ tokens' = Refilled(MaxTokens, tokens, RefillTokens)
    /\ backoff' = AtLeast(0, backoff - 1)
    /\ timer' = IF timer = None THEN None ELSE AtLeast(0, timer - 1)
    /\ excess' = AtLeast(0, excess - RefillRequests)
    /\ UNCHANGED <<inFlight, throttles, queue, permit>>

Next ==
    \/ Tick \/ TimerFires
    \/ \E c \in Callers : Acquire(c) \/ AbortQueued(c) \/ Release(c)

Spec == Init /\ [][Next]_vars
-----------------------------------------------------------------------------
(* Properties *)

Holders == {c \in Callers : permit[c] = "held"}
Burst == AtLeast(MaxRequests, InitialRequests)

\* However permits are asked for, aborted, throttled and given back, no window
\* of time sees more permits than the burst plus what its ticks refill: excess
\* is the largest surplus over all windows that end now.
RateConforms == excess <= Burst

\* The counter that limits concurrency is the number of permits out.
CountsPermits == inFlight = Cardinality(Holders)

Ahead(c) == {i \in DOMAIN queue : \A j \in 1..i : queue[j] # c}

\* The queue is served.  While somebody waits the timer runs, so that no wake-up
\* is lost.  A step that asks, gives up or gives back leaves nobody waiting who
\* could be served.  Permits are granted to nobody ahead of those who wait, and
\* to nobody at all during a pause (processQueue, acquire, finalizePermit).
QueueIsServed ==
    /\ [](queue # <<>> => timer # None)
    /\ [][permit' # permit /\ queue' # <<>> /\ backoff' = 0 =>
             ~Admits(queue', 1, requests', tokens', inFlight')]_vars
    /\ [][\A c \in Holders' \ Holders :
              /\ backoff = 0
              /\ \A i \in Ahead(c) : permit'[queue[i]] # "queued"]_vars
=============================================================================
