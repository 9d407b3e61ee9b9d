---------------------------- MODULE ContainerPool ----------------------------
(***************************************************************************)
(* ContainerPoolManager with its acquisition queue and its creation        *)
(* leases: acquire, caller abort, queue timeout, startup lock, creation of *)
(* volume and container, publication, release, drain.                      *)
(*                                                                         *)
(* A request is one call of acquire(); its creation lease and its container*)
(* go by the same name.  Docker is external: an operation in flight ends   *)
(* by an action of its own, with any result the client can report, unless *)
(* it hangs: runSubprocess arms a timer only for a timeoutMs, and no call  *)
(* of the pool gives one.                                                  *)
(***************************************************************************)
EXTENDS Naturals, FiniteSets, Sequences

CONSTANTS
    Requests,   \* calls of acquire()
    Max,        \* maxPoolConcurrency
    Faults,     \* which docker calls may fail
    None

Kinds == {"volume", "container"}

\* A create that fails, a created resource the daemon produces after its CLI
\* was killed, a remove that fails, an inspection that fails, a volume listing
\* that comes back without labels, and a command that never ends.
FaultKinds == {"create", "late", "remove", "query", "unlabelled", "hang"}

ASSUME PoolAssumption ==
    /\ IsFiniteSet(Requests)
    /\ Max \in Nat \ {0}
    /\ Faults \subseteq FaultKinds
    /\ None \notin Requests

VARIABLES
    waiting,    \* queue.entries
    creating,   \* creatingLeases
    failed,     \* failedCreationLeases
    active,     \* activeInstances
    stage,      \* where the creation lease of a request is
    settlement, \* what its settled promise resolves to
    cancelled,  \* its AbortController is aborted
    chain,      \* leases in the order they took the startup lock
    docker,     \* the resources at the daemon
    asked,      \* volumeCreationRequested, containerCreationRequested
    owned,      \* volumeOwned, containerOwned
    releasing,  \* requests whose releasePromise is pending
    answer,     \* what acquire() told its caller
    draining,   \* isDraining
    drain,      \* drainPromise: none, pending, or how the last one ended
    awaited,    \* the promises drainSnapshot still waits for
    drainErrors,
    unseen,     \* history: resources an ownership query missed
    hung        \* the docker command of a request that does not end by itself

leases == <<stage, settlement, cancelled, chain, docker, asked, owned>>
maps   == <<creating, failed, active>>
drains == <<draining, drain, awaited, drainErrors>>
vars   == <<waiting, maps, leases, releasing, answer, drains, unseen, hung>>

InStartup == {"lock", "delay"}
Stages == InStartup \cup {"none", "volume", "container", "start", "cleanup",
                          "settled", "retry", "over"}

Init ==
    /\ waiting = <<>>
    /\ creating = {} /\ failed = {} /\ active = {}
    /\ stage = [r \in Requests |-> "none"]
    /\ settlement = [r \in Requests |-> "none"]
    /\ cancelled = [r \in Requests |-> FALSE]
    /\ chain = <<>>
    /\ docker = [r \in Requests |-> [k \in Kinds |-> "absent"]]
    /\ asked = [r \in Requests |-> {}]
    /\ owned = [r \in Requests |-> {}]
    /\ releasing = {}
    /\ answer = [r \in Requests |-> "none"]
    /\ draining = FALSE
    /\ drain = "none"
    /\ awaited = {}
    /\ drainErrors = FALSE
    /\ unseen = {}
    /\ hung = [r \in Requests |-> "none"]
-----------------------------------------------------------------------------
(* Capacity and the wait queue *)

ActiveOnly(a, c, f) == Cardinality(a)

SlotsTaken(a, c, f) == Cardinality(a) + Cardinality(c) + Cardinality(f)

HasCapacity == SlotsTaken(active, creating, failed) < Max

Elements(s) == {s[i] : i \in DOMAIN s}

Goto(r, s) == stage' = [stage EXCEPT ![r] = s]

\* startCreation of each request of s: its lease is in the map and queues
\* behind the startup lock before anything else runs.
Start(s) ==
    LET in == Elements(s) IN
    /\ creating' = (creating \cup in)
    /\ stage' = [r \in Requests |-> IF r \in in THEN "lock" ELSE stage[r]]
    /\ chain' = chain \o s

AdmitNothing(free) == <<>>

AdmitNewest(free) ==
    IF draining \/ free = 0 \/ waiting = <<>> THEN <<>>
    ELSE <<waiting[Len(waiting)]>>

\* processQueue once the maps have changed: as many as fit, in order.
Admitted(free) ==
    IF draining THEN <<>>
    ELSE SubSeq(waiting, 1, IF free < Len(waiting) THEN free ELSE Len(waiting))

Free(a, c, f) == IF SlotsTaken(a, c, f) < Max THEN Max - SlotsTaken(a, c, f)
                 ELSE 0

AcquireWhileDraining(r) ==
    /\ answer[r] = "none"
    /\ answer' = [answer EXCEPT ![r] = "pending"]
    /\ IF HasCapacity
       THEN Start(<<r>>) /\ UNCHANGED waiting
       ELSE waiting' = Append(waiting, r) /\ UNCHANGED <<creating, stage, chain>>
    /\ UNCHANGED <<failed, active, settlement, cancelled, docker, asked, owned,
                   releasing, drains, unseen, hung>>

Acquire(r) ==
    /\ answer[r] = "none"
    /\ IF draining
       THEN /\ answer' = [answer EXCEPT ![r] = "rejected"]
            /\ UNCHANGED <<waiting, creating, stage, chain>>
       ELSE /\ answer' = [answer EXCEPT ![r] = "pending"]
            /\ IF HasCapacity
               THEN Start(<<r>>) /\ UNCHANGED waiting
               ELSE /\ waiting' = Append(waiting, r)
                    /\ UNCHANGED <<creating, stage, chain>>
    /\ UNCHANGED <<failed, active, settlement, cancelled, docker, asked, owned,
                   releasing, drains, unseen, hung>>

Waits(r) == r \in Elements(waiting)

\* The queue timer of a request fires, or its caller's signal aborts.
LeaveQueue(r) ==
    /\ \E i \in DOMAIN waiting :
           /\ waiting[i] = r
           /\ waiting' = SubSeq(waiting, 1, i - 1)
                             \o SubSeq(waiting, i + 1, Len(waiting))
    /\ answer' = [answer EXCEPT ![r] = "rejected"]
    /\ UNCHANGED <<maps, leases, releasing, drains, unseen, hung>>

\* The caller's signal aborts while the lease is being created.
CallerAborts(r) ==
    /\ r \in creating
    /\ stage[r] # "settled"
    /\ cancelled' = [cancelled EXCEPT ![r] = TRUE]
    /\ UNCHANGED <<waiting, maps, stage, settlement, chain, docker, asked,
                   owned, releasing, answer, drains, unseen, hung>>
-----------------------------------------------------------------------------
(* A creation lease *)

Predecessor(r) ==
    LET i == CHOOSE i \in DOMAIN chain : chain[i] = r IN
    IF i = 1 THEN None ELSE chain[i - 1]

\* previousLock is resolved: the lease before this one has left the lock,
\* whether it held it or was still waiting for it.
LockIgnored(r) == TRUE

LockHandedOnBySuccess(r) ==
    LET p == Predecessor(r) IN
    p # None => stage[p] \notin InStartup /\ ~cancelled[p]

LockHandedOn(r) ==
    Predecessor(r) # None => stage[Predecessor(r)] \notin InStartup

EnterDelay(r) ==
    /\ stage[r] = "lock"
    /\ ~cancelled[r]
    /\ LockHandedOn(r)
    /\ Goto(r, "delay")
    /\ UNCHANGED <<waiting, maps, settlement, cancelled, chain, docker, asked,
                   owned, releasing, answer, drains, unseen, hung>>

\* Ask docker for the next resource.
Ask(r, k) ==
    /\ asked' = [asked EXCEPT ![r] = @ \cup {k}]
    /\ Goto(r, k)

DelayEnds(r) ==
    /\ stage[r] = "delay"
    /\ ~cancelled[r]
    /\ Ask(r, "volume")
    /\ UNCHANGED <<waiting, maps, settlement, cancelled, chain, docker, owned,
                   releasing, answer, drains, unseen, hung>>

\* The abort rejects the wait and the finally block hands the lock on.
StartupCancelled(r) ==
    /\ stage[r] \in InStartup
    /\ cancelled[r]
    /\ Goto(r, "cleanup")
    /\ UNCHANGED <<waiting, maps, settlement, cancelled, chain, docker, asked,
                   owned, releasing, answer, drains, unseen, hung>>

\* The command in flight ends, by itself or, if it is a create or a start,
\* because the abort of the lease kills it.  An inspection, a listing, a kill
\* and a removal get no signal.
Answers(r)  == hung[r] = "none"
IsKilled(r) == hung[r] = "create" /\ cancelled[r]

\* A docker command of this request hangs.
CommandHangs(r) ==
    /\ "hang" \in Faults
    /\ hung[r] = "none"
    /\ \/ /\ stage[r] \in Kinds \cup {"start"}
          /\ hung' = [hung EXCEPT ![r] = "create"]
       \/ /\ stage[r] \in Kinds \cup {"cleanup", "retry"} \/ r \in releasing
          /\ hung' = [hung EXCEPT ![r] = "query"]
    /\ UNCHANGED <<waiting, maps, leases, releasing, answer, drains, unseen>>

\* createVolume and createContainer with the ownership check that follows.
Created(r, k) ==
    /\ stage[r] = k
    /\ Answers(r)
    /\ docker' = [docker EXCEPT ![r][k] = "present"]
    /\ owned' = [owned EXCEPT ![r] = @ \cup {k}]
    /\ IF cancelled[r] THEN Goto(r, "cleanup") /\ UNCHANGED asked
       ELSE IF k = "volume" THEN Ask(r, "container")
       ELSE Goto(r, "start") /\ UNCHANGED asked
    /\ UNCHANGED <<waiting, maps, settlement, cancelled, chain, releasing,
                   answer, drains, unseen, hung>>

\* The create or its check fails.  A CLI killed by the abort leaves the
\* resource absent, present, or still to come.
CreateFails(r, k) ==
    /\ stage[r] = k
    /\ Answers(r) \/ IsKilled(r)
    /\ hung' = [hung EXCEPT ![r] = "none"]
    /\ \/ cancelled[r]
       \/ Faults \cap {"create", "query"} # {}
       \/ k = "volume" /\ "unlabelled" \in Faults
    /\ \E left \in {"absent", "present", "late"} :
           /\ left = "late" => cancelled[r] /\ "late" \in Faults
           /\ docker' = [docker EXCEPT ![r][k] = left]
    /\ Goto(r, "cleanup")
    /\ UNCHANGED <<waiting, maps, settlement, cancelled, chain, asked, owned,
                   releasing, answer, drains, unseen>>

\* The daemon finishes a create whose CLI is gone.
DaemonCreates(r, k) ==
    /\ docker[r][k] = "late"
    /\ docker' = [docker EXCEPT ![r][k] = "present"]
    /\ UNCHANGED <<waiting, maps, stage, settlement, cancelled, chain, asked,
                   owned, releasing, answer, drains, unseen, hung>>

StartFails(r) ==
    /\ stage[r] = "start"
    /\ Answers(r) \/ IsKilled(r)
    /\ cancelled[r] \/ "create" \in Faults
    /\ hung' = [hung EXCEPT ![r] = "none"]
    /\ Goto(r, "cleanup")
    /\ UNCHANGED <<waiting, maps, settlement, cancelled, chain, docker, asked,
                   owned, releasing, answer, drains, unseen>>

\* publishInstance refuses once the pool drains, but that is never seen: the
\* task that sets isDraining cancels every lease still creating.
Publish(r) ==
    /\ stage[r] = "start"
    /\ Answers(r)
    /\ ~cancelled[r]
    /\ ~draining
    /\ active' = active \cup {r}
    /\ answer' = [answer EXCEPT ![r] = "granted"]
    /\ settlement' = [settlement EXCEPT ![r] = "published"]
    /\ Goto(r, "settled")
    /\ UNCHANGED <<waiting, creating, failed, cancelled, chain, docker, asked,
                   owned, releasing, drains, unseen, hung>>

-----------------------------------------------------------------------------
(* Cleanup of a lease: claimLateOwnedResources, then removal *)

\* What may become of one resource: its state afterwards, whether the lease
\* still owns it, whether an error was recorded, and whether a query answered
\* that there is no such resource.
Removed ==
    [left |-> "absent", own |-> FALSE, error |-> FALSE, denied |-> FALSE]
NotRemoved ==
    [left |-> "present", own |-> TRUE, error |-> TRUE, denied |-> FALSE]
Untouched(r, k) ==
    [left |-> docker[r][k], own |-> FALSE, error |-> FALSE, denied |-> FALSE]
NotFound(r, k)   == [Untouched(r, k) EXCEPT !.denied = TRUE]
NotQueried(r, k) == [Untouched(r, k) EXCEPT !.error = TRUE]

Removals(r, k) ==
    {Removed} \cup (IF "remove" \in Faults THEN {NotRemoved} ELSE {})

CleanupOwnedOnly(r, k) ==
    IF k \in owned[r] THEN Removals(r, k) ELSE {Untouched(r, k)}

CleanupOf(r, k) ==
    IF k \in owned[r] THEN Removals(r, k)
    ELSE IF k \notin asked[r] THEN {Untouched(r, k)}
    ELSE (IF docker[r][k] = "present" THEN Removals(r, k)
          ELSE {NotFound(r, k)})
         \cup (IF "query" \in Faults THEN {NotQueried(r, k)} ELSE {})
         \cup (IF k = "volume" /\ "unlabelled" \in Faults
               THEN {NotFound(r, k)} ELSE {})

\* One pass over the container and the volume; clean says it had no error.
\* If the container cannot be inspected the volume is not looked for.
Cleanup(r, clean) ==
    \E c \in CleanupOf(r, "container") :
    \E v \in IF c.error /\ ~c.own /\ "volume" \notin owned[r]
             THEN {Untouched(r, "volume")}
             ELSE CleanupOf(r, "volume") :
        LET result == [k \in Kinds |-> IF k = "volume" THEN v ELSE c] IN
        /\ clean = (~c.error /\ ~v.error)
        /\ docker' = [docker EXCEPT ![r] = [k \in Kinds |-> result[k].left]]
        /\ owned' = [owned EXCEPT ![r] = {k \in Kinds : result[k].own}]
        /\ unseen' = IF clean
                     THEN unseen \cup {k \in {r} \X Kinds :
                                           result[k[2]].denied /\ docker[r][k[2]] # "absent"}
                     ELSE unseen

CleanupEnds(r) ==
    /\ stage[r] = "cleanup"
    /\ Answers(r)
    /\ \E clean \in BOOLEAN :
           /\ Cleanup(r, clean)
           /\ settlement' = [settlement EXCEPT ![r] =
                                 IF clean THEN "clean" ELSE "dirty"]
    /\ answer' = [answer EXCEPT ![r] = "rejected"]
    /\ Goto(r, "settled")
    /\ UNCHANGED <<waiting, maps, cancelled, chain, asked, releasing, drains,
                   hung>>

\* The drain no longer waits for this promise.
Await(kind, r, error) ==
    /\ awaited' = awaited \ {<<kind, r>>}
    /\ drainErrors' = (drainErrors \/ (error /\ <<kind, r>> \in awaited))
    /\ UNCHANGED <<draining, drain>>

\* lease.settled.then: out of creatingLeases, then processQueue.
SettlementHandled(r) ==
    /\ r \in creating
    /\ stage[r] = "settled"
    /\ failed' = IF settlement[r] = "dirty" THEN failed \cup {r} ELSE failed
    /\ LET rest == creating \ {r}
           in   == Admitted(Free(active, rest, failed'))
           new  == Elements(in)
       IN /\ creating' = rest \cup new
          /\ stage' = [q \in Requests |-> IF q = r THEN "over"
                                          ELSE IF q \in new THEN "lock"
                                          ELSE stage[q]]
          /\ chain' = chain \o in
          /\ waiting' = SubSeq(waiting, Len(in) + 1, Len(waiting))
    /\ Await("settle", r, settlement[r] = "dirty")
    /\ UNCHANGED <<active, settlement, cancelled, docker, asked, owned,
                   releasing, answer, unseen, hung>>
-----------------------------------------------------------------------------
(* Release *)

\* A second release of an instance joins the first; a release of a retired one
\* is done at once.  Neither changes anything.
Release(r) ==
    /\ r \in active
    /\ r \notin releasing
    /\ releasing' = releasing \cup {r}
    /\ UNCHANGED <<waiting, maps, leases, answer, drains, unseen, hung>>

\* ContainerInstance.teardown removes what is left of the two resources.
Teardown(r, removed) ==
    /\ docker' = [docker EXCEPT ![r] =
                      [k \in Kinds |-> IF k \in removed THEN "absent" ELSE @[k]]]
    /\ owned' = [owned EXCEPT ![r] = @ \ removed]

Released(r) ==
    /\ r \in releasing
    /\ Answers(r)
    /\ Teardown(r, Kinds)
    /\ releasing' = releasing \ {r}
    /\ active' = active \ {r}
    /\ LET in  == Admitted(Free(active', creating, failed))
           new == Elements(in)
       IN /\ creating' = creating \cup new
          /\ stage' = [q \in Requests |-> IF q \in new THEN "lock" ELSE stage[q]]
          /\ chain' = chain \o in
          /\ waiting' = SubSeq(waiting, Len(in) + 1, Len(waiting))
    /\ Await("release", r, FALSE)
    /\ UNCHANGED <<failed, settlement, cancelled, asked, answer, unseen, hung>>

\* The record stays active, to be released again.
ReleaseFails(r) ==
    /\ r \in releasing
    /\ Answers(r)
    /\ "remove" \in Faults
    /\ \E removed \in SUBSET Kinds : removed # Kinds /\ Teardown(r, removed)
    /\ releasing' = releasing \ {r}
    /\ Await("release", r, TRUE)
    /\ UNCHANGED <<waiting, maps, stage, settlement, cancelled, chain, asked,
                   answer, unseen, hung>>
-----------------------------------------------------------------------------
(* Drain *)

Everything ==
    ({"settle"} \X creating) \cup ({"retry"} \X failed)
        \cup ({"release"} \X active)

\* Cancel every lease still creating, and wait for everything in the maps.
Snapshot ==
    /\ cancelled' = [r \in Requests |-> cancelled[r] \/ r \in creating]
    /\ stage' = [r \in Requests |-> IF r \in failed THEN "retry" ELSE stage[r]]
    /\ releasing' = releasing \cup active
    /\ awaited' = Everything
    /\ drainErrors' = FALSE

DrainKeepsQueue ==
    /\ drain # "pending"
    /\ draining' = TRUE
    /\ drain' = "pending"
    /\ Snapshot
    /\ UNCHANGED <<waiting, maps, settlement, chain, docker, asked, owned,
                   answer, unseen, hung>>

\* drain(): joins the pending one, or starts over.
Drain ==
    /\ drain # "pending"
    /\ draining' = TRUE
    /\ drain' = "pending"
    /\ waiting' = <<>>
    /\ answer' = [r \in Requests |-> IF Waits(r) THEN "rejected" ELSE answer[r]]
    /\ Snapshot
    /\ UNCHANGED <<maps, settlement, chain, docker, asked, owned, unseen, hung>>

RetryEnds(r) ==
    /\ stage[r] = "retry"
    /\ Answers(r)
    /\ \E clean \in BOOLEAN :
           /\ Cleanup(r, clean)
           /\ failed' = IF clean THEN failed \ {r} ELSE failed
           /\ Await("retry", r, ~clean)
    /\ Goto(r, "over")
    /\ UNCHANGED <<waiting, creating, active, settlement, cancelled, chain,
                   asked, releasing, answer, hung>>

Emptied == creating = {} /\ failed = {} /\ active = {}

\* Promise.allSettled of the snapshot.  With an error the drain fails, else it
\* ends if the maps are empty.  They always are (CallsAnswered), so the code
\* never takes its second snapshot.
DrainEnds ==
    /\ drain = "pending"
    /\ awaited = {}
    /\ drainErrors \/ Emptied
    /\ drain' = IF drainErrors THEN "rejected" ELSE "resolved"
    /\ UNCHANGED <<waiting, maps, leases, releasing, answer, draining, awaited,
                   drainErrors, unseen, hung>>
-----------------------------------------------------------------------------
LeaseStep(r) ==
    \/ EnterDelay(r) \/ DelayEnds(r) \/ StartupCancelled(r)
    \/ \E k \in Kinds : Created(r, k) \/ CreateFails(r, k)
    \/ StartFails(r) \/ Publish(r)
    \/ CleanupEnds(r)

ReleaseEnds(r) == Released(r) \/ ReleaseFails(r)

Step(r) == LeaseStep(r) \/ SettlementHandled(r) \/ ReleaseEnds(r) \/ RetryEnds(r)

\* The callers, the queue timer, and the daemon.
Environment ==
    \/ Drain
    \/ \E r \in Requests :
           \/ Acquire(r) \/ LeaveQueue(r) \/ CallerAborts(r) \/ Release(r)
           \/ CommandHangs(r)
           \/ \E k \in Kinds : DaemonCreates(r, k)

Next == Environment \/ DrainEnds \/ \E r \in Requests : Step(r)

Spec == Init /\ [][Next]_vars

\* A docker command that does not hang ends, promises are handled, and the queue
\* timer fires: a hung command disables the step it would end.  Nobody has to
\* release a container or abort anything.
Fairness ==
    /\ WF_vars(DrainEnds)
    /\ \A r \in Requests :
           /\ WF_vars(LeaseStep(r)) /\ WF_vars(SettlementHandled(r))
           /\ WF_vars(ReleaseEnds(r)) /\ WF_vars(RetryEnds(r))
           /\ WF_vars(LeaveQueue(r))

FairSpec == Spec /\ Fairness
-----------------------------------------------------------------------------
(* Safety *)

Held == creating \cup failed \cup active

\* The pool never has more requests holding a slot than maxPoolConcurrency,
\* counting those being created, those whose cleanup failed, and those out on
\* loan or being released.
SlotsBounded == Cardinality(Held) <= Max

\* Nobody waits while there is room: every place that frees a slot serves the
\* queue in the same task, so no wake-up is lost.
NoIdleSlot == waiting # <<>> => ~draining /\ ~HasCapacity

\* A volume or container that exists, or may still come to exist, belongs to a
\* request the pool still tracks, unless the ownership query that was to find
\* it answered that there was none.
NoOrphan ==
    \A r \in Requests, k \in Kinds :
        docker[r][k] # "absent" => r \in Held \/ <<r, k>> \in unseen

\* A drain that resolved is a barrier: nothing queued, creating, on loan, being
\* released or half cleaned up, and every acquire() has its answer
\* (docs/architecture/03-isolation-and-lifecycle/container-pool.md:9).
DrainBarrier ==
    drain = "resolved" =>
        /\ Emptied
        /\ waiting = <<>>
        /\ releasing = {}
        /\ \A r \in Requests : answer[r] # "pending"

\* Two leases wait out their startup delay at the same time only if a lease
\* between them was cancelled: a cancelled lease hands on a lock it may not
\* have had.
Before(q, r) == \E i, j \in DOMAIN chain : i < j /\ chain[i] = q /\ chain[j] = r

StartupSpacing ==
    \A q, r \in Requests :
        stage[q] = "delay" /\ stage[r] = "delay" /\ Before(q, r) =>
            \E c \in Requests : cancelled[c] /\ Before(q, c) /\ Before(c, r)
-----------------------------------------------------------------------------
(* Action properties *)

\* The queue is fair and answers are final.  Creation starts in the order of the
\* queue: while requests wait, only its head starts, ahead of everybody it
\* leaves behind.  acquire() answers once, whatever races (timeout, admission,
\* abort, publication, drain), and once the pool drains nobody is handed a
\* container.
QueueIsFair ==
    /\ [][\A r \in creating' \ creating :
              waiting # <<>> =>
                  \E i \in DOMAIN waiting :
                      /\ waiting[i] = r
                      /\ \A j \in 1..(i - 1) : waiting[j] \in creating']_vars
    /\ [][\A r \in Requests :
              /\ answer[r] \in {"granted", "rejected"} => answer'[r] = answer[r]
              /\ draining /\ answer'[r] = "granted" => answer[r] = "granted"]_vars
-----------------------------------------------------------------------------
(* Refinement *)

Started == Elements(chain)

Slots == INSTANCE SlotPool WITH
             Limit <- Max, held <- Held, used <- Started, closed <- draining

\* The pool is a counted set of slots that serves each request once and closes
\* for good.
PoolIsSlotPool == Slots!Spec
-----------------------------------------------------------------------------
(* Liveness *)

\* Every acquire() is answered unless a docker command of its own lease hangs:
\* one that waits in the queue or for the startup lock never waits for a hung
\* neighbour, and a hung create or start holds its caller up only until the
\* lease is cancelled.  A drain ends, one way or the other, unless a command
\* without a signal hangs in one of the promises it waits for: hung creates are
\* killed by the drain.
Hangs(r) == hung[r] = "query" \/ (hung[r] = "create" /\ ~cancelled[r])

CallsAnswered ==
    /\ \A r \in Requests :
           answer[r] = "pending" ~> answer[r] # "pending" \/ Hangs(r)
    /\ drain = "pending" ~>
           drain # "pending" \/ \E w \in awaited : hung[w[2]] = "query"
=============================================================================
