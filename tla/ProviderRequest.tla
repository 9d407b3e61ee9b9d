--------------------------- MODULE ProviderRequest ---------------------------
(***************************************************************************)
(* executeProviderRequest and the lease on its response, for several       *)
(* callers that share one rate limiter (module TokenBucket): permit,       *)
(* attempt with its timeout, retry, abort by the caller, consumption.      *)
(*                                                                         *)
(* The provider is external: an attempt ends in any of the ways the code   *)
(* tells apart.  The timeout of an attempt is a failure like the others.   *)
(***************************************************************************)
EXTENDS TokenBucket

CONSTANT MaxRetries

ASSUME RequestAssumption == MaxRetries \in Nat

VARIABLES
    pc,        \* where the turn of a caller is
    attempt,   \* attemptIndex
    aborted    \* the signal of the turn is aborted

turn == <<pc, attempt, aborted>>
allVars == <<vars, turn>>

\* acquire: waiting for the permit or about to see it; fetch: an attempt under
\* way; lease: the response is with its consumer; backoff: waitForRetry.
Over == {"idle", "done", "failed", "aborted"}
Stages == Over \cup {"start", "acquire", "fetch", "lease", "backoff"}

At(c, from, to) == pc[c] = from /\ pc' = [pc EXCEPT ![c] = to]

TurnInit ==
    /\ Init
    /\ pc = [c \in Callers |-> "idle"]
    /\ attempt = [c \in Callers |-> 0]
    /\ aborted = [c \in Callers |-> FALSE]

\* The runner asks for its next turn, with a signal of its own.
BeginTurn(c) ==
    /\ pc[c] \in Over
    /\ pc' = [pc EXCEPT ![c] = "start"]
    /\ attempt' = [attempt EXCEPT ![c] = 0]
    /\ aborted' = [aborted EXCEPT ![c] = FALSE]
    /\ UNCHANGED vars

\* The head of the loop: a new attempt asks for a permit.
StartAttempt(c) ==
    /\ ~aborted[c]
    /\ At(c, "start", "acquire")
    /\ Acquire(c)
    /\ UNCHANGED <<attempt, aborted>>

\* acquire() has returned.  An abort between the grant and this point makes
\* the attempt fail before it is sent.
PermitArrives(c) ==
    /\ permit[c] = "held"
    /\ At(c, "acquire", "fetch")
    /\ UNCHANGED <<vars, attempt, aborted>>

Responds(c) ==
    /\ ~aborted[c]
    /\ At(c, "fetch", "lease")
    /\ UNCHANGED <<vars, attempt, aborted>>

\* shouldRetryProviderFailure, waitForRetry.
AfterFailure(c, retryable) ==
    IF retryable /\ attempt[c] < MaxRetries THEN "backoff" ELSE "failed"

AttemptKeepsPermit(c) ==
    /\ IF aborted[c] THEN At(c, "fetch", "aborted")
       ELSE \E retryable \in BOOLEAN :
                At(c, "fetch", AfterFailure(c, retryable))
    /\ UNCHANGED <<vars, attempt, aborted>>

\* A failed attempt gives its permit back before anything else.  The abort of
\* the caller hides whatever the provider said.
AttemptFails(c) ==
    /\ \/ aborted[c] /\ FinalizeFailed(c) /\ At(c, "fetch", "aborted")
       \/ /\ ~aborted[c]
          /\ FinalizeRateLimited(c)
          /\ At(c, "fetch", AfterFailure(c, TRUE))
       \/ /\ ~aborted[c]
          /\ FinalizeFailed(c)
          /\ \E retryable \in BOOLEAN :
                 At(c, "fetch", AfterFailure(c, retryable))
    /\ UNCHANGED <<attempt, aborted>>

RetryResetsCount(c) ==
    /\ At(c, "backoff", "start")
    /\ attempt' = [attempt EXCEPT ![c] = 0]
    /\ UNCHANGED <<vars, aborted>>

RetryDelayEnds(c) ==
    /\ At(c, "backoff", "start")
    /\ attempt' = [attempt EXCEPT ![c] = @ + 1]
    /\ UNCHANGED <<vars, aborted>>

\* The consumer finishes with the response, fails on it, or drops the stream.
\* A buffered response may be parsed to its end after an abort.
LeaseEnds(c) ==
    /\ \/ FinalizeCompleted(c) /\ At(c, "lease", "done")
       \/ /\ FinalizeFailed(c)
          /\ At(c, "lease", IF aborted[c] THEN "aborted" ELSE "failed")
    /\ UNCHANGED <<attempt, aborted>>

AbortUnheard(c) ==
    /\ pc[c] \notin Over
    /\ ~aborted[c]
    /\ aborted' = [aborted EXCEPT ![c] = TRUE]
    /\ pc' = [pc EXCEPT ![c] = IF @ \in {"start", "backoff"} THEN "aborted" ELSE @]
    /\ UNCHANGED <<vars, attempt>>

\* The caller's signal aborts.  A wait for the limiter or for the retry ends in
\* that very step; an attempt or a lease notices on its own; the head of the
\* loop looks.
Abort(c) ==
    /\ pc[c] \notin Over
    /\ ~aborted[c]
    /\ aborted' = [aborted EXCEPT ![c] = TRUE]
    /\ IF permit[c] = "queued"
       THEN AbortQueued(c) /\ At(c, "acquire", "aborted")
       ELSE /\ pc' = [pc EXCEPT ![c] =
                          IF @ \in {"start", "backoff"} THEN "aborted" ELSE @]
            /\ UNCHANGED vars
    /\ UNCHANGED attempt

Clock == (Tick \/ TimerFires) /\ UNCHANGED turn

Proceed(c) ==
    \/ StartAttempt(c) \/ PermitArrives(c)
    \/ Responds(c) \/ AttemptFails(c) \/ RetryDelayEnds(c)
    \/ LeaseEnds(c)

TurnNext ==
    \/ Clock
    \/ \E c \in Callers : BeginTurn(c) \/ Proceed(c) \/ Abort(c)

TurnSpec == TurnInit /\ [][TurnNext]_allVars

\* Clocks run and timers fire, also the one of the attempt; the consumer ends
\* its use of the response, if only in a finally block.
TurnFairSpec ==
    /\ TurnSpec
    /\ WF_allVars(Tick /\ UNCHANGED turn)
    /\ WF_allVars(TimerFires /\ UNCHANGED turn)
    /\ \A c \in Callers : WF_allVars(Proceed(c))
-----------------------------------------------------------------------------
(* Properties *)

\* No permit leaks: a caller holds one exactly while an attempt or a response
\* is open, and waits for one only in acquire(); whatever way a turn ends, it
\* has given its permit back, and the limiter counts the permits that are out.
PermitFollowsTurn ==
    /\ CountsPermits
    /\ \A c \in Callers :
           /\ pc[c] \in {"fetch", "lease"} => permit[c] = "held"
           /\ pc[c] = "acquire" => permit[c] # "none"
           /\ pc[c] \notin {"acquire", "fetch", "lease"} => permit[c] = "none"

\* Once its signal is aborted a turn is granted no permit and begins no other
\* attempt, whatever it was waiting for.
AbortStopsTurn ==
    [][\A c \in Callers :
           aborted[c] /\ aborted'[c] =>
               /\ permit[c] # "held" => permit'[c] # "held"
               /\ attempt'[c] = attempt[c]]_allVars

\* Every turn ends, though all callers share the limiter and attempts fail and
\* are throttled.
TurnEnds == \A c \in Callers : pc[c] \notin Over ~> pc[c] \in Over
=============================================================================
