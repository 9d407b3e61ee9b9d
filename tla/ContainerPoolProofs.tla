------------------------- MODULE ContainerPoolProofs -------------------------
(***************************************************************************)
(* The capacity of ContainerPool and what it promises besides, proved for  *)
(* every number of requests, every maxPoolConcurrency and every set of     *)
(* faults.  A request moves between the three maps, and is in two of them  *)
(* for a while; the invariant Bounded counts their union, and needs to     *)
(* know that a lease at work is still in creatingLeases, so that           *)
(* publishing it adds nobody.                                              *)
(*                                                                         *)
(* For the rest, the inductive invariant PoolInv says that the queue and   *)
(* the startup chain hold a request once and by its stage (QueueOK,        *)
(* AnswersOK), which stages each of the three maps of the pool can hold    *)
(* (PlacesOK), what an ended drain has found (DrainOK), in which order     *)
(* leases pass the startup lock (LockOK), and what of a lease exists at    *)
(* the daemon and who knows of it (DockerOK).                              *)
(***************************************************************************)
EXTENDS ContainerPool, FiniteSetTheorems, TLAPS

Working == InStartup \cup Kinds \cup {"start", "cleanup"}

Bounded ==
    /\ waiting \in Seq(Requests)
    /\ creating \subseteq Requests
    /\ failed \subseteq Requests
    /\ active \subseteq Requests
    /\ \A r \in Requests : stage[r] \in Working => r \in creating
    /\ stage \in [Requests -> Stages]
    /\ Cardinality(Held) <= Max

\* The elements of a sequence are at most as many as its length.
LEMMA ElementsAreFew ==
    ASSUME NEW s \in Seq(Requests)
    PROVE  /\ Elements(s) \subseteq Requests
           /\ IsFiniteSet(Elements(s))
           /\ Cardinality(Elements(s)) <= Len(s)
<1> USE DEF Elements
<1> DEFINE T == Elements(s)
<1>1. DOMAIN s = 1..Len(s) /\ Len(s) \in Nat
  OBVIOUS
<1>2. IsFiniteSet(1..Len(s)) /\ Cardinality(1..Len(s)) = Len(s)
  BY <1>1, FS_Interval
<1>3. s \in Surjection(1..Len(s), T)
  <2>1. s \in [1..Len(s) -> T]
    BY <1>1
  <2>2. \A t \in T : \E i \in 1..Len(s) : s[i] = t
    BY <1>1
  <2> QED BY <2>1, <2>2 DEF Surjection
<1>4. IsFiniteSet(T) /\ Cardinality(T) <= Cardinality(1..Len(s))
  BY <1>2, <1>3, FS_Surjection DEF ExistsSurjection
<1> QED BY <1>1, <1>2, <1>4

\* A union is at most as large as its parts.
LEMMA UnionSize ==
    ASSUME NEW S, NEW T, IsFiniteSet(S), IsFiniteSet(T)
    PROVE  /\ IsFiniteSet(S \cup T)
           /\ Cardinality(S) \in Nat /\ Cardinality(T) \in Nat
           /\ Cardinality(S \cup T) \in Nat
           /\ Cardinality(S \cup T) <= Cardinality(S) + Cardinality(T)
<1>1. Cardinality(S) \in Nat /\ Cardinality(T) \in Nat
  BY FS_CardinalityType
<1>2. IsFiniteSet(S \cap T)
  BY FS_Intersection
<1>3. Cardinality(S \cap T) \in Nat
  BY <1>2, FS_CardinalityType
<1>4. IsFiniteSet(S \cup T)
  BY FS_Union
<1>5. Cardinality(S \cup T) = Cardinality(S) + Cardinality(T) - Cardinality(S \cap T)
  BY FS_Union
<1>6. Cardinality(S \cup T) \in Nat
  BY <1>4, FS_CardinalityType
<1> QED BY <1>1, <1>3, <1>4, <1>5, <1>6

\* The maps and their union are finite, and the sum of the maps is at least
\* the size of the union.
LEMMA UnionIsSmaller ==
    ASSUME NEW a \in SUBSET Requests, NEW c \in SUBSET Requests, NEW f \in SUBSET Requests
    PROVE  /\ IsFiniteSet(c \cup f \cup a)
           /\ Cardinality(c \cup f \cup a) \in Nat
           /\ SlotsTaken(a, c, f) \in Nat
           /\ Cardinality(c \cup f \cup a) <= SlotsTaken(a, c, f)
<1>1. /\ IsFiniteSet(a) /\ IsFiniteSet(c) /\ IsFiniteSet(f)
  BY PoolAssumption, FS_Subset
<1>2. /\ IsFiniteSet(c \cup f)
      /\ Cardinality(c) \in Nat /\ Cardinality(f) \in Nat /\ Cardinality(c \cup f) \in Nat
      /\ Cardinality(c \cup f) <= Cardinality(c) + Cardinality(f)
  BY <1>1, UnionSize
<1>3. /\ IsFiniteSet(c \cup f \cup a)
      /\ Cardinality(a) \in Nat /\ Cardinality(c \cup f \cup a) \in Nat
      /\ Cardinality(c \cup f \cup a) <= Cardinality(c \cup f) + Cardinality(a)
  BY <1>1, <1>2, UnionSize
<1> QED BY <1>2, <1>3 DEF SlotsTaken

\* Adding the elements of a sequence no longer than the free slots to maps that
\* fit leaves maps that fit.
LEMMA FillingFits ==
    ASSUME NEW a \in SUBSET Requests, NEW c \in SUBSET Requests, NEW f \in SUBSET Requests,
           Cardinality(c \cup f \cup a) <= Max,
           NEW in \in Seq(Requests), Len(in) <= Free(a, c, f)
    PROVE  LET new == Elements(in) IN
           /\ new \subseteq Requests
           /\ Cardinality((c \cup new) \cup f \cup a) <= Max
<1> DEFINE new == Elements(in)
           old == c \cup f \cup a
<1>1. IsFiniteSet(old) /\ Cardinality(old) \in Nat /\ Cardinality(old) <= SlotsTaken(a, c, f)
      /\ SlotsTaken(a, c, f) \in Nat
  BY UnionIsSmaller
<1>2. new \subseteq Requests /\ IsFiniteSet(new) /\ Cardinality(new) <= Len(in)
  BY ElementsAreFew
<1>4. /\ Cardinality(new) \in Nat
      /\ Cardinality(old \cup new) \in Nat
      /\ Cardinality(old \cup new) <= Cardinality(old) + Cardinality(new)
  <2> HIDE DEF old, new
  <2> QED BY <1>1, <1>2, UnionSize
<1>5. (c \cup new) \cup f \cup a = old \cup new
  OBVIOUS
<1>7. Max \in Nat
  BY PoolAssumption
<1>8. Len(in) \in Nat
  OBVIOUS
<1>9. Cardinality(old \cup new) <= Max
  <2> HIDE DEF old, new
  <2>1. CASE SlotsTaken(a, c, f) < Max
    <3>1. Len(in) <= Max - SlotsTaken(a, c, f)
      BY <2>1 DEF Free
    <3> QED BY <3>1, <1>1, <1>2, <1>4, <1>7, <1>8
  <2>2. CASE ~(SlotsTaken(a, c, f) < Max)
    <3>1. Len(in) <= 0
      BY <2>2 DEF Free
    <3>2. Cardinality(old) <= Max
      BY DEF old
    <3> QED BY <3>1, <3>2, <1>1, <1>2, <1>4, <1>7, <1>8
  <2> QED BY <2>1, <2>2
<1> QED BY <1>2, <1>5, <1>9

\* Fewer requests in the maps fit as well.
LEMMA FewerFit ==
    ASSUME NEW old \in SUBSET Requests, NEW new \in SUBSET old, Cardinality(old) <= Max
    PROVE  Cardinality(new) <= Max
<1>1. IsFiniteSet(old)
  BY PoolAssumption, FS_Subset
<1>2. IsFiniteSet(new) /\ Cardinality(new) <= Cardinality(old)
  BY <1>1, FS_Subset
<1>3. Cardinality(old) \in Nat /\ Cardinality(new) \in Nat /\ Max \in Nat
  BY <1>1, <1>2, FS_CardinalityType, PoolAssumption
<1> QED BY <1>2, <1>3

\* What the queue admits is a part of it, no longer than the free slots, and
\* the rest stays a queue.
LEMMA AdmittedFits ==
    ASSUME waiting \in Seq(Requests), NEW a \in SUBSET Requests, NEW c \in SUBSET Requests,
           NEW f \in SUBSET Requests
    PROVE  LET in == Admitted(Free(a, c, f)) IN
           /\ in \in Seq(Requests)
           /\ Len(in) <= Free(a, c, f)
           /\ SubSeq(waiting, Len(in) + 1, Len(waiting)) \in Seq(Requests)
<1> DEFINE in == Admitted(Free(a, c, f))
<1>1. Free(a, c, f) \in Nat
  <2>1. SlotsTaken(a, c, f) \in Nat
    BY UnionIsSmaller
  <2>2. Max \in Nat
    BY PoolAssumption
  <2> QED BY <2>1, <2>2 DEF Free
<1>2. Len(waiting) \in Nat
  OBVIOUS
<1>3. in \in Seq(Requests) /\ Len(in) <= Free(a, c, f)
  <2>1. CASE draining
    BY <2>1, <1>1 DEF Admitted
  <2>2. CASE ~draining
    <3> DEFINE n == IF Free(a, c, f) < Len(waiting) THEN Free(a, c, f) ELSE Len(waiting)
    <3>1. n \in 0..Len(waiting) /\ n <= Free(a, c, f)
      BY <1>1, <1>2
    <3>2. in = SubSeq(waiting, 1, n)
      BY <2>2 DEF Admitted
    <3> HIDE DEF n, in
    <3> QED BY <3>1, <3>2
  <2> QED BY <2>1, <2>2
<1>4. Len(in) \in Nat
  BY <1>3
<1> HIDE DEF in
<1>5. SubSeq(waiting, Len(in) + 1, Len(waiting)) \in Seq(Requests)
  BY <1>2, <1>4
<1> QED BY <1>3, <1>5 DEF in

\* The initial state fits.
LEMMA InitBounded == Init => Bounded
<1> SUFFICES ASSUME Init PROVE Bounded
  OBVIOUS
<1>1. Held = {}
  BY DEF Init, Held
<1>2. Cardinality(Held) <= Max
  BY <1>1, FS_EmptySet, PoolAssumption
<1>3. stage \in [Requests -> Stages] /\ \A r \in Requests : stage[r] \notin Working
  BY DEF Init, Stages, Working, InStartup, Kinds
<1> QED BY <1>2, <1>3 DEF Init, Bounded

\* A step that moves one lease on, within the work or out of it, and leaves
\* the maps alone.
LEMMA LeaseMoves ==
    ASSUME Bounded, NEW r \in Requests, NEW s \in Stages,
           r \in creating \/ s \notin Working, Goto(r, s), UNCHANGED <<waiting, maps>>
    PROVE  Bounded'
<1>1. Held' = Held
  BY DEF Held, maps
<1>2. stage' \in [Requests -> Stages]
  BY DEF Bounded, Goto
<1>3. \A q \in Requests : stage'[q] \in Working => q \in creating
  BY DEF Bounded, Goto
<1> QED BY <1>1, <1>2, <1>3 DEF Bounded, maps

\* A step that changes neither the maps nor the stages.
LEMMA MapsUnchanged ==
    ASSUME Bounded, waiting' \in Seq(Requests), UNCHANGED <<maps, stage>>
    PROVE  Bounded'
<1>1. Held' = Held
  BY DEF Held, maps
<1> QED BY <1>1 DEF Bounded, maps

\* acquire() starts a creation only below the limit.
LEMMA AcquireStep ==
    ASSUME Bounded, NEW r \in Requests, Acquire(r)
    PROVE  Bounded'
<1>1. CASE ~draining /\ HasCapacity
  <2> DEFINE in == <<r>>
             new == Elements(in)
  <2>1. /\ creating' = creating \cup new
        /\ stage' = [q \in Requests |-> IF q \in new THEN "lock" ELSE stage[q]]
        /\ UNCHANGED <<waiting, failed, active>>
    BY <1>1 DEF Acquire, Start
  <2>2. in \in Seq(Requests) /\ Len(in) = 1
    OBVIOUS
  <2>3. Free(active, creating, failed) >= 1
    <3>1. SlotsTaken(active, creating, failed) \in Nat
      BY UnionIsSmaller DEF Bounded
    <3>2. Max \in Nat
      BY PoolAssumption
    <3> QED BY <1>1, <3>1, <3>2 DEF HasCapacity, Free
  <2>4. Len(in) <= Free(active, creating, failed)
    <3>1. Free(active, creating, failed) \in Nat
      <4>1. SlotsTaken(active, creating, failed) \in Nat
        BY UnionIsSmaller DEF Bounded
      <4> QED BY <4>1, PoolAssumption DEF Free
    <3> HIDE DEF in
    <3> QED BY <2>2, <2>3, <3>1
  <2> HIDE DEF in
  <2>5. /\ new \subseteq Requests
        /\ Cardinality((creating \cup new) \cup failed \cup active) <= Max
    BY <2>2, <2>4, FillingFits DEF Bounded, Held
  <2> HIDE DEF new
  <2>6. Cardinality(Held') <= Max
    BY <2>1, <2>5 DEF Held
  <2>7. stage' \in [Requests -> Stages]
    BY <2>1 DEF Bounded, Stages, InStartup
  <2>8. \A q \in Requests : stage'[q] \in Working => q \in creating'
    BY <2>1 DEF Bounded
  <2> QED BY <2>1, <2>5, <2>6, <2>7, <2>8 DEF Bounded
<1>2. CASE draining \/ ~HasCapacity
  <2>1. waiting' = waiting \/ waiting' = Append(waiting, r)
    BY <1>2 DEF Acquire
  <2>2. waiting' \in Seq(Requests)
    BY <2>1 DEF Bounded
  <2>3. UNCHANGED <<maps, stage>>
    BY <1>2 DEF Acquire, maps
  <2> QED BY <2>2, <2>3, MapsUnchanged
<1> QED BY <1>1, <1>2

\* Leaving the queue leaves a queue.
LEMMA LeaveQueueStep ==
    ASSUME Bounded, NEW r \in Requests, LeaveQueue(r)
    PROVE  Bounded'
<1>1. PICK i \in DOMAIN waiting :
          waiting' = SubSeq(waiting, 1, i - 1) \o SubSeq(waiting, i + 1, Len(waiting))
  BY DEF LeaveQueue
<1>2. waiting \in Seq(Requests) /\ i \in 1..Len(waiting)
  BY <1>1 DEF Bounded
<1>3. /\ SubSeq(waiting, 1, i - 1) \in Seq(Requests)
      /\ SubSeq(waiting, i + 1, Len(waiting)) \in Seq(Requests)
  BY <1>2
<1>4. waiting' \in Seq(Requests)
  BY <1>1, <1>3
<1>5. UNCHANGED <<maps, stage>>
  BY DEF LeaveQueue, leases
<1> QED BY <1>4, <1>5, MapsUnchanged

\* A drain empties the queue and marks the leases it retries.
LEMMA DrainStep ==
    ASSUME Bounded, Drain
    PROVE  Bounded'
<1>1. /\ waiting' = <<>> /\ UNCHANGED maps
      /\ stage' = [r \in Requests |-> IF r \in failed THEN "retry" ELSE stage[r]]
  BY DEF Drain, Snapshot
<1>2. Held' = Held
  BY <1>1 DEF Held, maps
<1>3. stage' \in [Requests -> Stages]
  BY <1>1 DEF Bounded, Stages
<1>4. \A q \in Requests : stage'[q] \in Working => q \in creating
  BY <1>1 DEF Bounded, Working, InStartup, Kinds
<1> QED BY <1>1, <1>2, <1>3, <1>4 DEF Bounded, maps

\* The steps of a lease: what works is in creatingLeases, so that publication
\* adds nobody to the maps.
LEMMA LeaseStepBounded ==
    ASSUME Bounded, NEW r \in Requests, LeaseStep(r)
    PROVE  Bounded'
<1>1. stage[r] \in Working => r \in creating
  BY DEF Bounded
<1>2. Kinds \subseteq Stages /\ {"delay", "start", "cleanup", "settled"} \subseteq Stages
  BY DEF Kinds, Stages, InStartup
<1>3. CASE EnterDelay(r) \/ DelayEnds(r) \/ StartupCancelled(r) \/ StartFails(r)
  <2>1. r \in creating
    BY <1>1, <1>3 DEF EnterDelay, DelayEnds, StartupCancelled, StartFails, Working, InStartup
  <2>2. UNCHANGED <<waiting, maps>>
    BY <1>3 DEF EnterDelay, DelayEnds, StartupCancelled, StartFails
  <2>3. \E s \in Stages : Goto(r, s)
    BY <1>2, <1>3 DEF EnterDelay, DelayEnds, StartupCancelled, StartFails, Ask, Kinds
  <2> QED BY <2>1, <2>2, <2>3, LeaseMoves
<1>4. CASE \E k \in Kinds : Created(r, k) \/ CreateFails(r, k)
  <2>1. PICK k \in Kinds : Created(r, k) \/ CreateFails(r, k)
    BY <1>4
  <2>2. r \in creating
    BY <1>1, <2>1 DEF Created, CreateFails, Working
  <2>3. UNCHANGED <<waiting, maps>>
    BY <2>1 DEF Created, CreateFails
  <2>4. \E s \in Stages : Goto(r, s)
    BY <1>2, <2>1 DEF Created, CreateFails, Ask, Kinds
  <2> QED BY <2>2, <2>3, <2>4, LeaseMoves
<1>5. CASE Publish(r)
  <2>1. r \in creating
    BY <1>1, <1>5 DEF Publish, Working
  <2>2. /\ active' = active \cup {r} /\ UNCHANGED <<waiting, creating, failed>>
        /\ stage' = [stage EXCEPT ![r] = "settled"]
    BY <1>5 DEF Publish, Goto
  <2>3. Held' = Held
    BY <2>1, <2>2 DEF Held
  <2>4. stage' \in [Requests -> Stages]
    BY <1>2, <2>2 DEF Bounded
  <2>5. \A q \in Requests : stage'[q] \in Working => q \in creating
    BY <2>1, <2>2 DEF Bounded
  <2> QED BY <2>2, <2>3, <2>4, <2>5 DEF Bounded
<1>6. CASE CleanupEnds(r)
  <2>1. Goto(r, "settled") /\ UNCHANGED <<waiting, maps>> /\ r \in creating
    BY <1>1, <1>6 DEF CleanupEnds, Working
  <2> QED BY <1>2, <2>1, LeaseMoves
<1> QED BY <1>3, <1>4, <1>5, <1>6 DEF LeaseStep

\* processQueue after the maps have shrunk to a, c and f: the queue fills them
\* up to the limit.
LEMMA ServiceFits ==
    ASSUME Bounded, NEW a \in SUBSET Requests, NEW c \in SUBSET Requests,
           NEW f \in SUBSET Requests, c \cup f \cup a \subseteq Held, NEW in,
           in = Admitted(Free(a, c, f)),
           active' = a, failed' = f, creating' = c \cup Elements(in),
           waiting' = SubSeq(waiting, Len(in) + 1, Len(waiting)),
           stage' \in [Requests -> Stages],
           \A q \in Requests : stage'[q] \in Working => q \in creating'
    PROVE  Bounded'
<1> DEFINE new == Elements(in)
<1>1. Held \subseteq Requests /\ Cardinality(Held) <= Max
  BY DEF Bounded, Held
<1>2. Cardinality(c \cup f \cup a) <= Max
  BY <1>1, FewerFit
<1>3. in \in Seq(Requests) /\ Len(in) <= Free(a, c, f) /\ waiting' \in Seq(Requests)
  BY AdmittedFits DEF Bounded
<1>4. new \subseteq Requests /\ Cardinality((c \cup new) \cup f \cup a) <= Max
  BY <1>2, <1>3, FillingFits
<1> HIDE DEF new
<1>5. creating' = c \cup new
  BY DEF new
<1>6. Cardinality(Held') <= Max
  BY <1>4, <1>5 DEF Held
<1>7. creating' \subseteq Requests
  BY <1>4, <1>5
<1> QED BY <1>3, <1>6, <1>7 DEF Bounded

\* A settled lease leaves creatingLeases, and the queue fills the room.
LEMMA SettlementStep ==
    ASSUME Bounded, NEW r \in Requests, SettlementHandled(r)
    PROVE  Bounded'
<1> DEFINE f == IF settlement[r] = "dirty" THEN failed \cup {r} ELSE failed
           c == creating \ {r}
           in == Admitted(Free(active, c, f))
           new == Elements(in)
<1>1. /\ r \in creating /\ failed' = f /\ active' = active
      /\ creating' = c \cup new
      /\ waiting' = SubSeq(waiting, Len(in) + 1, Len(waiting))
      /\ stage' = [q \in Requests |-> IF q = r THEN "over"
                                      ELSE IF q \in new THEN "lock"
                                      ELSE stage[q]]
  BY DEF SettlementHandled
<1>2. /\ active \in SUBSET Requests /\ c \in SUBSET Requests /\ f \in SUBSET Requests
      /\ c \cup f \cup active \subseteq Held
  BY <1>1 DEF Bounded, Held
<1>3. stage' \in [Requests -> Stages]
  <2> HIDE DEF new
  <2> QED BY <1>1 DEF Bounded, Stages, InStartup
<1>4. \A q \in Requests : stage'[q] \in Working => q \in creating'
  <2> HIDE DEF new
  <2>1. "over" \notin Working
    BY DEF Working, InStartup, Kinds
  <2> QED BY <1>1, <2>1 DEF Bounded
<1> HIDE DEF f, c, in
<1> QED BY <1>1, <1>2, <1>3, <1>4, ServiceFits DEF in

\* A released instance leaves activeInstances, and the queue fills the room.
LEMMA ReleasedStep ==
    ASSUME Bounded, NEW r \in Requests, Released(r)
    PROVE  Bounded'
<1> DEFINE a == active \ {r}
           in == Admitted(Free(a, creating, failed))
           new == Elements(in)
<1>1. /\ failed' = failed /\ active' = a
      /\ creating' = creating \cup new
      /\ waiting' = SubSeq(waiting, Len(in) + 1, Len(waiting))
      /\ stage' = [q \in Requests |-> IF q \in new THEN "lock" ELSE stage[q]]
  BY DEF Released
<1>2. /\ a \in SUBSET Requests /\ creating \in SUBSET Requests
      /\ failed \in SUBSET Requests
      /\ creating \cup failed \cup a \subseteq Held
  BY DEF Bounded, Held
<1>3. stage' \in [Requests -> Stages]
  <2> HIDE DEF new
  <2> QED BY <1>1 DEF Bounded, Stages, InStartup
<1>4. \A q \in Requests : stage'[q] \in Working => q \in creating'
  <2> HIDE DEF new
  <2> QED BY <1>1 DEF Bounded
<1> HIDE DEF a, in
<1> QED BY <1>1, <1>2, <1>3, <1>4, ServiceFits DEF in

\* The end of a retried cleanup can only shrink the maps.
LEMMA RetryStep ==
    ASSUME Bounded, NEW r \in Requests, RetryEnds(r)
    PROVE  Bounded'
<1>1. /\ failed' \subseteq failed /\ UNCHANGED <<waiting, creating, active>>
      /\ stage' = [stage EXCEPT ![r] = "over"]
  BY DEF RetryEnds, Goto
<1>2. Held' \subseteq Held /\ Held \subseteq Requests
  BY <1>1 DEF Held, Bounded
<1>3. Cardinality(Held') <= Max
  BY <1>2, FewerFit DEF Bounded
<1>4. "over" \in Stages \ Working
  BY DEF Stages, Working, InStartup, Kinds
<1>5. stage' \in [Requests -> Stages] /\ \A q \in Requests : stage'[q] \in Working => q \in creating
  BY <1>1, <1>4 DEF Bounded
<1> QED BY <1>1, <1>3, <1>5 DEF Bounded

\* A step that changes nothing but which commands hang.
Still == UNCHANGED <<waiting, maps, leases, releasing, answer, drains, unseen>>

\* Those steps.
LEMMA StillSteps ==
    (UNCHANGED vars \/ \E r \in Requests : CommandHangs(r)) => Still
BY DEF Still, vars, CommandHangs

\* Every step keeps the invariant.
LEMMA StepBounded == Bounded /\ [Next]_vars => Bounded'
<1> SUFFICES ASSUME Bounded, [Next]_vars PROVE Bounded'
  OBVIOUS
<1>1. CASE Still
  BY <1>1, MapsUnchanged DEF Bounded, Still, leases
<1>2. CASE Drain
  BY <1>2, DrainStep
<1>3. CASE \E r \in Requests : Acquire(r)
  BY <1>3, AcquireStep
<1>4. CASE \E r \in Requests : LeaveQueue(r)
  BY <1>4, LeaveQueueStep
<1>5. CASE \E r \in Requests :
               CallerAborts(r) \/ Release(r) \/ ReleaseFails(r) \/ \E k \in Kinds : DaemonCreates(r, k)
  <2>1. UNCHANGED <<waiting, maps, stage>>
    BY <1>5 DEF CallerAborts, Release, ReleaseFails, DaemonCreates, leases
  <2> QED BY <2>1, MapsUnchanged DEF Bounded
<1>6. CASE DrainEnds
  <2>1. UNCHANGED <<waiting, maps, stage>>
    BY <1>6 DEF DrainEnds, leases
  <2> QED BY <2>1, MapsUnchanged DEF Bounded
<1>7. CASE \E r \in Requests : LeaseStep(r)
  BY <1>7, LeaseStepBounded
<1>8. CASE \E r \in Requests : SettlementHandled(r)
  BY <1>8, SettlementStep
<1>9. CASE \E r \in Requests : Released(r)
  BY <1>9, ReleasedStep
<1>10. CASE \E r \in Requests : RetryEnds(r)
  BY <1>10, RetryStep
<1> QED
  BY StillSteps, <1>1, <1>2, <1>3, <1>4, <1>5, <1>6, <1>7, <1>8, <1>9, <1>10
     DEF Next, Environment, Step, ReleaseEnds

\* At most maxPoolConcurrency requests are being created, out on loan or
\* waiting for a cleanup, whatever happens in whatever order.
THEOREM CapacityHolds == Spec => []SlotsBounded
<1>1. Bounded => SlotsBounded
  BY DEF Bounded, SlotsBounded
<1> QED BY <1>1, InitBounded, StepBounded, PTL DEF Spec
-----------------------------------------------------------------------------
(* Queue, answers, drain, lock and what is left at the daemon *)

Distinct(s) == \A i, j \in DOMAIN s : s[i] = s[j] => i = j

Types ==
    /\ chain \in Seq(Requests)
    /\ answer \in [Requests -> {"none", "pending", "granted", "rejected"}]
    /\ settlement \in [Requests -> {"none", "published", "clean", "dirty"}]
    /\ cancelled \in [Requests -> BOOLEAN]
    /\ asked \in [Requests -> SUBSET Kinds]
    /\ owned \in [Requests -> SUBSET Kinds]
    /\ docker \in [Requests -> [Kinds -> {"absent", "present", "late"}]]
    /\ draining \in BOOLEAN
    /\ drain \in {"none", "pending", "rejected", "resolved"}

\* A request is nowhere, in the queue, or behind the startup lock, once.
QueueOK ==
    /\ Distinct(waiting)
    /\ Distinct(chain)
    /\ \A r \in Requests :
           /\ Waits(r) => answer[r] = "pending" /\ stage[r] = "none"
           /\ r \in Started <=> stage[r] # "none"
           /\ answer[r] = "none" => stage[r] = "none"

\* acquire() is pending just as long as the request waits or is at work.
AnswersOK ==
    \A r \in Requests :
        /\ stage[r] \in Working => answer[r] = "pending"
        /\ answer[r] = "pending" => Waits(r) \/ stage[r] \in Working

\* The map a request is in says how far its lease has come.
PlacesOK ==
    /\ \A r \in creating : stage[r] \in Working \cup {"settled"}
    /\ \A r \in failed : stage[r] \in {"retry", "over"}
    /\ \A r \in active : stage[r] \in {"settled", "over"}
    /\ \A r \in failed : settlement[r] = "dirty"
    /\ \A r \in active : settlement[r] = "published"
    /\ releasing \subseteq active
    /\ \A r \in Requests : stage[r] = "retry" => r \in failed /\ draining

DrainOK ==
    /\ drain # "none" => draining
    /\ drain = "resolved" => Emptied

\* A lease has passed one that is still before or in its startup delay only
\* over a cancelled one.
Passed(i, j) ==
    stage[chain[i]] \in InStartup /\ stage[chain[j]] # "lock"
      => \E k \in (i + 1)..j :
             cancelled[chain[k]] /\ (stage[chain[j]] = "delay" => k < j)

LockOK == \A i, j \in DOMAIN chain : i < j => Passed(i, j)

\* Whatever a request has at the daemon, some query denied.
Accounted(r) == \A k \in Kinds : docker[r][k] # "absent" => <<r, k>> \in unseen

Resources(r) ==
    /\ stage[r] \in Kinds => stage[r] \in asked[r]
    /\ stage[r] \in InStartup \cup {"none", "volume"} => owned[r] = {}
    /\ stage[r] = "container" => "container" \notin owned[r]
    /\ \A k \in Kinds : /\ docker[r][k] # "absent" => k \in asked[r]
                        /\ k \in owned[r] => docker[r][k] = "present"
    /\ \/ Accounted(r)
       \/ r \in failed \cup active
       \/ r \in creating /\ (stage[r] \in Working \/ settlement[r] = "dirty")

DockerOK == \A r \in Requests : Resources(r)
-----------------------------------------------------------------------------
(* Sequences without repetition *)

\* Adding one element at the end.
LEMMA AppendElement ==
    ASSUME NEW s \in Seq(Requests), NEW r \in Requests
    PROVE  /\ Append(s, r) \in Seq(Requests)
           /\ Elements(Append(s, r)) = Elements(s) \cup {r}
           /\ Distinct(s) /\ r \notin Elements(s) => Distinct(Append(s, r))
<1> DEFINE t == Append(s, r)
<1>1. /\ t \in Seq(Requests) /\ Len(t) = Len(s) + 1 /\ Len(s) \in Nat
      /\ \A i \in 1..Len(s) : t[i] = s[i]
      /\ t[Len(s) + 1] = r
  OBVIOUS
<1>2. DOMAIN s = 1..Len(s) /\ DOMAIN t = 1..(Len(s) + 1)
  BY <1>1
<1> HIDE DEF t
<1>3. Elements(t) = Elements(s) \cup {r}
  BY <1>1, <1>2 DEF Elements
<1>4. ASSUME Distinct(s), r \notin Elements(s) PROVE Distinct(t)
  BY <1>1, <1>2, <1>4 DEF Elements, Distinct
<1> QED BY <1>1, <1>3, <1>4 DEF t

\* A sequence put after another.
LEMMA Joined ==
    ASSUME NEW s \in Seq(Requests), NEW m \in Nat, m = Len(s),
           NEW u \in Seq(Requests), NEW n \in Nat, n = Len(u), NEW t, t = s \o u
    PROVE  /\ t \in Seq(Requests) /\ DOMAIN t = 1..(m + n)
           /\ \A i \in 1..m : t[i] = s[i]
           /\ \A i \in (m + 1)..(m + n) : i - m \in 1..n /\ t[i] = u[i - m]
           /\ Elements(t) = Elements(s) \cup Elements(u)
           /\ Distinct(s) /\ Distinct(u) /\ Elements(s) \cap Elements(u) = {} => Distinct(t)
<1>1. t \in Seq(Requests) /\ Len(t) = m + n /\ \A i \in 1..m : t[i] = s[i]
  OBVIOUS
<1>2. DOMAIN t = 1..(m + n) /\ DOMAIN s = 1..m /\ DOMAIN u = 1..n
  BY <1>1
<1>3. ASSUME NEW i \in (m + 1)..(m + n) PROVE i - m \in 1..n /\ t[i] = u[i - m]
  <2>1. i \in 1..(m + n) /\ ~(i <= m) /\ i - m \in 1..n
    OBVIOUS
  <2> QED BY <2>1
<1>4. Elements(t) = Elements(s) \cup Elements(u)
  <2>1. Elements(t) \subseteq Elements(s) \cup Elements(u)
    <3> SUFFICES ASSUME NEW i \in 1..(m + n) PROVE t[i] \in Elements(s) \cup Elements(u)
      BY <1>2 DEF Elements
    <3>1. CASE i \in 1..m
      BY <1>1, <1>2, <3>1 DEF Elements
    <3>2. CASE i \in (m + 1)..(m + n)
      BY <1>2, <1>3, <3>2 DEF Elements
    <3> QED BY <3>1, <3>2
  <2>2. Elements(s) \subseteq Elements(t)
    BY <1>1, <1>2 DEF Elements
  <2>3. ASSUME NEW i \in 1..n PROVE u[i] \in Elements(t)
    <3>1. m + i \in (m + 1)..(m + n) /\ m + i \in 1..(m + n) /\ (m + i) - m = i
      OBVIOUS
    <3>2. t[m + i] = u[i]
      BY <1>3, <3>1
    <3> QED BY <1>2, <3>1, <3>2 DEF Elements
  <2>4. Elements(u) \subseteq Elements(t)
    BY <1>2, <2>3 DEF Elements
  <2> QED BY <2>1, <2>2, <2>4
<1>5. ASSUME Distinct(s), Distinct(u), Elements(s) \cap Elements(u) = {} PROVE Distinct(t)
  <2> SUFFICES ASSUME NEW i \in 1..(m + n), NEW j \in 1..(m + n), t[i] = t[j]
               PROVE  i = j
    BY <1>2 DEF Distinct
  <2>1. CASE i \in 1..m /\ j \in 1..m
    BY <1>1, <1>2, <1>5, <2>1 DEF Distinct
  <2>2. CASE i \in (m + 1)..(m + n) /\ j \in (m + 1)..(m + n)
    <3>1. i - m \in 1..n /\ j - m \in 1..n /\ u[i - m] = u[j - m]
      BY <1>3, <2>2
    <3>2. i - m = j - m
      BY <1>2, <1>5, <3>1 DEF Distinct
    <3> QED BY <3>2
  <2>3. ASSUME NEW k \in 1..m, NEW l \in (m + 1)..(m + n) PROVE t[k] # t[l]
    <3>1. t[k] \in Elements(s) /\ t[l] \in Elements(u)
      BY <1>1, <1>2, <1>3 DEF Elements
    <3> QED BY <1>5, <3>1
  <2>4. /\ i \in 1..m \/ i \in (m + 1)..(m + n)
        /\ j \in 1..m \/ j \in (m + 1)..(m + n)
    OBVIOUS
  <2> QED BY <2>1, <2>2, <2>3, <2>4
<1> QED BY <1>1, <1>2, <1>3, <1>4, <1>5

\* A sequence cut in two.
LEMMA Cut ==
    ASSUME NEW q \in Seq(Requests), NEW n \in 0..Len(q), Distinct(q)
    PROVE  LET in == SubSeq(q, 1, n)
               rest == SubSeq(q, n + 1, Len(q))
           IN /\ in \in Seq(Requests) /\ Len(in) = n /\ Distinct(in)
              /\ \A i \in 1..n : in[i] = q[i]
              /\ rest \in Seq(Requests) /\ Len(rest) = Len(q) - n /\ Distinct(rest)
              /\ Elements(q) = Elements(in) \cup Elements(rest)
              /\ Elements(in) \cap Elements(rest) = {}
<1> DEFINE m == Len(q)
           in == SubSeq(q, 1, n)
           rest == SubSeq(q, n + 1, m)
<1>0. m \in Nat /\ n \in 0..m /\ m = Len(q)
  OBVIOUS
<1> HIDE DEF m
<1>1. in \in Seq(Requests) /\ Len(in) = n /\ \A i \in 1..n : in[i] = q[i]
  BY <1>0
<1>2. rest \in Seq(Requests) /\ Len(rest) = m - n /\ \A i \in 1..(m - n) : rest[i] = q[n + i]
  BY <1>0
<1> HIDE DEF in, rest
<1>3. DOMAIN in = 1..n /\ DOMAIN rest = 1..(m - n) /\ DOMAIN q = 1..m
  BY <1>0, <1>1, <1>2
<1>4. Distinct(in)
  BY <1>0, <1>1, <1>3 DEF Distinct
<1>5. Distinct(rest)
  <2> SUFFICES ASSUME NEW i \in 1..(m - n), NEW j \in 1..(m - n), rest[i] = rest[j] PROVE i = j
    BY <1>0, <1>3 DEF Distinct
  <2>1. n + i \in 1..m /\ n + j \in 1..m /\ q[n + i] = q[n + j]
    BY <1>0, <1>2
  <2>2. n + i = n + j
    BY <1>0, <1>3, <2>1 DEF Distinct
  <2> QED BY <1>0, <2>2
<1>6. Elements(in) \subseteq Elements(q)
  BY <1>0, <1>1, <1>3 DEF Elements
<1>7. ASSUME NEW i \in 1..(m - n) PROVE rest[i] \in Elements(q) \ Elements(in)
  <2>1. n + i \in 1..m /\ rest[i] = q[n + i] /\ n + i \notin 1..n
    BY <1>0, <1>2
  <2>2. \A j \in 1..n : j \in 1..m /\ in[j] = q[j]
    BY <1>0, <1>1
  <2>3. \A j \in 1..n : in[j] # rest[i]
    BY <1>0, <1>3, <2>1, <2>2 DEF Distinct
  <2> QED BY <1>0, <1>3, <2>1, <2>3 DEF Elements
<1>8. ASSUME NEW i \in 1..m PROVE q[i] \in Elements(in) \cup Elements(rest)
  <2>1. CASE i \in 1..n
    BY <1>0, <1>1, <1>3, <2>1 DEF Elements
  <2>2. CASE i \notin 1..n
    <3>1. i - n \in 1..(m - n) /\ n + (i - n) = i
      BY <1>0, <2>2
    <3>2. rest[i - n] = q[i]
      BY <1>0, <1>2, <3>1
    <3> QED BY <1>0, <1>3, <3>1, <3>2 DEF Elements
  <2> QED BY <1>0, <2>1, <2>2
<1>9. Elements(q) = {q[i] : i \in 1..m} /\ Elements(rest) = {rest[i] : i \in 1..(m - n)}
  BY <1>0, <1>3 DEF Elements
<1>10. Elements(rest) \subseteq Elements(q) \ Elements(in)
  BY <1>0, <1>7, <1>9
<1>11. Elements(q) \subseteq Elements(in) \cup Elements(rest)
  BY <1>0, <1>8, <1>9
<1> QED BY <1>0, <1>1, <1>2, <1>4, <1>5, <1>6, <1>10, <1>11 DEF in, rest, m

\* Taking out the element at one place.
LEMMA DropElement ==
    ASSUME NEW s \in Seq(Requests), NEW n \in Nat, n = Len(s), NEW i \in 1..n, Distinct(s),
           NEW t, t = SubSeq(s, 1, i - 1) \o SubSeq(s, i + 1, n)
    PROVE  t \in Seq(Requests) /\ Elements(t) = Elements(s) \ {s[i]} /\ Distinct(t)
<1> DEFINE a == SubSeq(s, 1, i - 1)
           c == SubSeq(s, i, n)
           b == SubSeq(s, i + 1, n)
<1>1. /\ a \in Seq(Requests) /\ Distinct(a) /\ Len(a) = i - 1
      /\ c \in Seq(Requests) /\ Distinct(c) /\ Len(c) = n - (i - 1)
      /\ Elements(s) = Elements(a) \cup Elements(c) /\ Elements(a) \cap Elements(c) = {}
  <2> DEFINE k == i - 1
  <2>1. k \in 0..Len(s) /\ a = SubSeq(s, 1, k) /\ c = SubSeq(s, k + 1, Len(s))
    OBVIOUS
  <2> HIDE DEF a, c, k
  <2>2. /\ a \in Seq(Requests) /\ Len(a) = k /\ Distinct(a)
        /\ c \in Seq(Requests) /\ Len(c) = n - k /\ Distinct(c)
        /\ Elements(s) = Elements(a) \cup Elements(c) /\ Elements(a) \cap Elements(c) = {}
    BY <2>1, Cut
  <2> QED BY <2>2 DEF k
<1>2. c[1] = s[i] /\ Len(c) = n - i + 1
  <2>1. Len(c) = n - i + 1 /\ 1 \in 1..(n - i + 1)
    OBVIOUS
  <2>2. \A j \in 1..(n - i + 1) : c[j] = s[i + j - 1]
    OBVIOUS
  <2>3. i + 1 - 1 = i
    OBVIOUS
  <2> HIDE DEF c
  <2> QED BY <2>1, <2>2, <2>3
<1>3. b \in Seq(Requests) /\ Len(b) = n - i /\ \A j \in 1..(n - i) : b[j] = s[i + j]
  OBVIOUS
<1>4. \A j \in 1..(n - i) : b[j] = c[j + 1]
  <2>1. \A j \in 1..(n - i + 1) : c[j] = s[(i - 1) + j]
    OBVIOUS
  <2> QED BY <1>3, <2>1
<1> HIDE DEF a, b, c
<1>5. DOMAIN b = 1..(n - i) /\ DOMAIN c = 1..(n - i + 1)
  BY <1>1, <1>2, <1>3
<1>6. Distinct(b)
  <2> SUFFICES ASSUME NEW j \in 1..(n - i), NEW k \in 1..(n - i), b[j] = b[k] PROVE j = k
    BY <1>5 DEF Distinct
  <2>1. j + 1 \in 1..(n - i + 1) /\ k + 1 \in 1..(n - i + 1) /\ c[j + 1] = c[k + 1]
    BY <1>4
  <2>2. j + 1 = k + 1
    BY <1>1, <1>5, <2>1 DEF Distinct
  <2> QED BY <2>2
<1>7. Elements(b) = Elements(c) \ {s[i]}
  <2>1. ASSUME NEW j \in 1..(n - i) PROVE b[j] \in Elements(c) \ {s[i]}
    <3>1. j + 1 \in 1..(n - i + 1) /\ b[j] = c[j + 1] /\ 1 \in 1..(n - i + 1) /\ j + 1 # 1
      BY <1>4
    <3> QED BY <1>1, <1>2, <1>5, <3>1 DEF Distinct, Elements
  <2>2. ASSUME NEW j \in 1..(n - i + 1), j # 1 PROVE c[j] \in Elements(b)
    <3>1. j - 1 \in 1..(n - i) /\ (j - 1) + 1 = j
      BY <2>2
    <3>2. b[j - 1] = c[j]
      BY <1>4, <3>1
    <3> QED BY <1>5, <3>1, <3>2 DEF Elements
  <2>3. Elements(b) = {b[j] : j \in 1..(n - i)} /\ Elements(c) = {c[j] : j \in 1..(n - i + 1)}
    BY <1>5 DEF Elements
  <2>4. Elements(b) \subseteq Elements(c) \ {s[i]}
    BY <2>1, <2>3
  <2>5. ASSUME NEW x \in Elements(c) \ {s[i]} PROVE x \in Elements(b)
    <3>1. PICK j \in 1..(n - i + 1) : x = c[j]
      BY <2>3
    <3> QED BY <1>2, <2>2, <3>1
  <2> QED BY <2>4, <2>5
<1>8. s[i] \in Elements(c)
  <2>1. 1 \in 1..(n - i + 1)
    OBVIOUS
  <2> QED BY <1>2, <1>5, <2>1 DEF Elements
<1>9. /\ t \in Seq(Requests) /\ Elements(t) = Elements(a) \cup Elements(b) /\ Distinct(t)
  <2> DEFINE k == Len(a)
             l == Len(b)
  <2>1. t = a \o b /\ k \in Nat /\ l \in Nat
    BY <1>1, <1>3 DEF a, b
  <2>2. Elements(a) \cap Elements(b) = {}
    BY <1>1, <1>7
  <2>3. k = Len(a) /\ l = Len(b)
    OBVIOUS
  <2> HIDE DEF k, l
  <2>4. /\ a \in Seq(Requests) /\ Distinct(a)
        /\ b \in Seq(Requests) /\ Distinct(b)
    BY <1>1, <1>3, <1>6
  <2>5. /\ t \in Seq(Requests) /\ Elements(t) = Elements(a) \cup Elements(b)
        /\ Distinct(a) /\ Distinct(b) /\ Elements(a) \cap Elements(b) = {} => Distinct(t)
    BY <2>1, <2>3, <2>4, Joined
  <2> QED BY <2>2, <2>4, <2>5
<1> QED BY <1>1, <1>7, <1>8, <1>9

\* A sequence without repetition has as many elements as places.
LEMMA DistinctSize ==
    ASSUME NEW s \in Seq(Requests), Distinct(s)
    PROVE  IsFiniteSet(Elements(s)) /\ Cardinality(Elements(s)) = Len(s)
<1>1. DOMAIN s = 1..Len(s) /\ Len(s) \in Nat
  OBVIOUS
<1>2. IsFiniteSet(1..Len(s)) /\ Cardinality(1..Len(s)) = Len(s)
  BY <1>1, FS_Interval
<1>3. s \in Bijection(1..Len(s), Elements(s))
  <2>1. s \in [1..Len(s) -> Elements(s)]
    BY <1>1 DEF Elements
  <2>2. \A x \in Elements(s) : \E i \in 1..Len(s) : s[i] = x
    BY <1>1 DEF Elements
  <2>3. \A i, j \in 1..Len(s) : s[i] = s[j] => i = j
    BY <1>1 DEF Distinct
  <2>4. IsInjective(s)
    BY <1>1, <2>3 DEF IsInjective
  <2>5. s \in Injection(1..Len(s), Elements(s))
    BY <2>1, <2>4 DEF Injection
  <2>6. s \in Surjection(1..Len(s), Elements(s))
    BY <2>1, <2>2 DEF Surjection
  <2> QED BY <2>5, <2>6 DEF Bijection
<1> QED BY <1>2, <1>3, FS_Bijection DEF ExistsBijection
-----------------------------------------------------------------------------
(* Serving the queue *)

\* The requests of in start, those of out are done with, and the queue keeps
\* no request that starts.
Serves(out, in) ==
    /\ in \in Seq(Requests) /\ Distinct(in)
    /\ draining => in = <<>>
    /\ \A q \in Elements(in) : stage[q] = "none" /\ answer'[q] = "pending"
    /\ \A q \in out : stage[q] = "settled"
    /\ \A q \in Requests \ Elements(in) : answer'[q] = answer[q]
    /\ chain' = chain \o in
    /\ stage' = [q \in Requests |-> IF q \in Elements(in) THEN "lock"
                                    ELSE IF q \in out THEN "over" ELSE stage[q]]
    /\ Distinct(waiting')
    /\ Elements(waiting') = Elements(waiting) \ Elements(in)

\* What the queue admits is its head, as much of it as there is room for.
LEMMA AdmittedIsHead ==
    ASSUME Bounded, Types, QueueOK, NEW a \in SUBSET Requests, NEW c \in SUBSET Requests,
           NEW f \in SUBSET Requests
    PROVE  LET in == Admitted(Free(a, c, f))
               rest == SubSeq(waiting, Len(in) + 1, Len(waiting))
           IN /\ in \in Seq(Requests) /\ Distinct(in) /\ Len(in) \in Nat
              /\ draining => in = <<>>
              /\ Elements(in) \subseteq Elements(waiting)
              /\ \A i \in DOMAIN in : i \in DOMAIN waiting /\ in[i] = waiting[i]
              /\ rest \in Seq(Requests) /\ Distinct(rest)
              /\ Elements(rest) = Elements(waiting) \ Elements(in)
              /\ rest # <<>> => draining \/ Len(in) = Free(a, c, f)
<1> DEFINE in == Admitted(Free(a, c, f))
           rest == SubSeq(waiting, Len(in) + 1, Len(waiting))
<1> DEFINE m == Len(waiting)
           n == Len(in)
<1>1. waiting \in Seq(Requests) /\ Distinct(waiting) /\ m \in Nat
  BY DEF Bounded, QueueOK
<1>2. Free(a, c, f) \in Nat
  <2>1. SlotsTaken(a, c, f) \in Nat
    BY UnionIsSmaller
  <2> QED BY <2>1, PoolAssumption DEF Free
<1>3. /\ n \in 0..m /\ in = SubSeq(waiting, 1, n)
      /\ ~draining => n = IF Free(a, c, f) < m THEN Free(a, c, f) ELSE m
      /\ draining => in = <<>>
  <2>1. CASE draining
    <3>1. in = <<>> /\ Len(in) = 0
      BY <2>1 DEF Admitted
    <3>2. SubSeq(waiting, 1, 0) = <<>>
      BY <1>1
    <3> QED BY <1>1, <2>1, <3>1, <3>2
  <2>2. CASE ~draining
    <3> DEFINE k == IF Free(a, c, f) < m THEN Free(a, c, f) ELSE m
    <3>1. in = SubSeq(waiting, 1, k)
      BY <2>2 DEF Admitted
    <3>2. k \in 0..m /\ Len(in) = k
      <4>1. k \in 0..m /\ k \in Nat
        BY <1>1, <1>2
      <4> HIDE DEF k, m
      <4> QED BY <1>1, <3>1, <4>1 DEF m
    <3> HIDE DEF k
    <3> QED BY <2>2, <3>1, <3>2 DEF k
  <2> QED BY <2>1, <2>2
<1> HIDE DEF n, in
<1>4. rest = SubSeq(waiting, n + 1, Len(waiting))
  BY DEF n
<1> HIDE DEF rest
<1>5. /\ in \in Seq(Requests) /\ Distinct(in) /\ \A i \in 1..n : in[i] = waiting[i]
      /\ rest \in Seq(Requests) /\ Len(rest) = m - n /\ Distinct(rest)
      /\ Elements(waiting) = Elements(in) \cup Elements(rest)
      /\ Elements(in) \cap Elements(rest) = {}
  BY <1>1, <1>3, <1>4, Cut
<1>6. DOMAIN in = 1..n /\ DOMAIN waiting = 1..m
  BY <1>1, <1>5 DEF n
<1>7. rest # <<>> => m - n > 0
  BY <1>1, <1>3, <1>5
<1>8. rest # <<>> => draining \/ n = Free(a, c, f)
  BY <1>1, <1>2, <1>3, <1>7
<1> HIDE DEF m
<1>9. \A i \in DOMAIN in : i \in DOMAIN waiting /\ in[i] = waiting[i]
  BY <1>1, <1>3, <1>5, <1>6
<1>10. Elements(rest) = Elements(waiting) \ Elements(in)
  BY <1>5
<1>11. n \in Nat
  BY <1>1, <1>3
<1> QED BY <1>3, <1>5, <1>8, <1>9, <1>10, <1>11 DEF n, in, rest

\* The end of a lease serves the queue.
LEMMA SettlementServes ==
    ASSUME Bounded, Types, QueueOK, NEW r \in Requests, SettlementHandled(r)
    PROVE  \E in : /\ Serves({r}, in)
                   /\ creating' = (creating \ {r}) \cup Elements(in)
                   /\ \A i \in DOMAIN in : i \in DOMAIN waiting /\ in[i] = waiting[i]
                   /\ waiting' # <<>> =>
                        draining \/ Len(in) = Free(active, creating \ {r}, failed')
<1> DEFINE f == IF settlement[r] = "dirty" THEN failed \cup {r} ELSE failed
           c == creating \ {r}
           in == Admitted(Free(active, c, f))
<1>1. /\ r \in creating /\ failed' = f /\ stage[r] = "settled"
      /\ creating' = c \cup Elements(in)
      /\ waiting' = SubSeq(waiting, Len(in) + 1, Len(waiting))
      /\ chain' = chain \o in
      /\ stage' = [q \in Requests |-> IF q = r THEN "over"
                                      ELSE IF q \in Elements(in) THEN "lock"
                                      ELSE stage[q]]
      /\ answer' = answer
  BY DEF SettlementHandled
<1>2. active \in SUBSET Requests /\ c \in SUBSET Requests /\ f \in SUBSET Requests
  BY <1>1 DEF Bounded
<1>3. in = Admitted(Free(active, c, f))
  OBVIOUS
<1> HIDE DEF f, c
<1>4. /\ in \in Seq(Requests) /\ Distinct(in) /\ Len(in) \in Nat
      /\ draining => in = <<>>
      /\ Elements(in) \subseteq Elements(waiting)
      /\ \A i \in DOMAIN in : i \in DOMAIN waiting /\ in[i] = waiting[i]
      /\ Distinct(waiting')
      /\ Elements(waiting') = Elements(waiting) \ Elements(in)
      /\ waiting' # <<>> => draining \/ Len(in) = Free(active, c, f)
  BY <1>1, <1>2, AdmittedIsHead
<1> HIDE DEF in
<1>5. \A q \in Elements(in) : q \in Requests /\ stage[q] = "none" /\ answer[q] = "pending"
  <2>1. Elements(in) \subseteq Requests
    BY <1>4, ElementsAreFew
  <2> QED BY <1>4, <2>1 DEF QueueOK, Waits
<1>6. r \notin Elements(in)
  BY <1>1, <1>5
<1>7. Serves({r}, in)
  BY <1>1, <1>4, <1>5, <1>6 DEF Serves
<1>8. creating' = (creating \ {r}) \cup Elements(in)
  BY <1>1 DEF c
<1>9. waiting' # <<>> => draining \/ Len(in) = Free(active, creating \ {r}, failed')
  BY <1>1, <1>4 DEF c
<1> QED BY <1>4, <1>7, <1>8, <1>9

\* So does the end of a release.
LEMMA ReleaseServes ==
    ASSUME Bounded, Types, QueueOK, NEW r \in Requests, Released(r)
    PROVE  \E in : /\ Serves({}, in)
                   /\ creating' = creating \cup Elements(in)
                   /\ \A i \in DOMAIN in : i \in DOMAIN waiting /\ in[i] = waiting[i]
                   /\ waiting' # <<>> =>
                        draining \/ Len(in) = Free(active \ {r}, creating, failed)
<1> DEFINE a == active \ {r}
           in == Admitted(Free(a, creating, failed))
<1>1. /\ creating' = creating \cup Elements(in)
      /\ waiting' = SubSeq(waiting, Len(in) + 1, Len(waiting))
      /\ chain' = chain \o in
      /\ stage' = [q \in Requests |-> IF q \in Elements(in) THEN "lock" ELSE stage[q]]
      /\ answer' = answer
  <2>1. active' = a
    BY DEF Released
  <2> HIDE DEF a
  <2> QED BY <2>1 DEF Released
<1>2. a \in SUBSET Requests /\ creating \in SUBSET Requests /\ failed \in SUBSET Requests
  BY DEF Bounded
<1> HIDE DEF a
<1>3. /\ in \in Seq(Requests) /\ Distinct(in) /\ Len(in) \in Nat
      /\ draining => in = <<>>
      /\ Elements(in) \subseteq Elements(waiting)
      /\ \A i \in DOMAIN in : i \in DOMAIN waiting /\ in[i] = waiting[i]
      /\ Distinct(waiting')
      /\ Elements(waiting') = Elements(waiting) \ Elements(in)
      /\ waiting' # <<>> => draining \/ Len(in) = Free(a, creating, failed)
  <2> DEFINE rest == SubSeq(waiting, Len(in) + 1, Len(waiting))
  <2>1. /\ in \in Seq(Requests) /\ Distinct(in) /\ Len(in) \in Nat
        /\ draining => in = <<>>
        /\ Elements(in) \subseteq Elements(waiting)
        /\ \A i \in DOMAIN in : i \in DOMAIN waiting /\ in[i] = waiting[i]
        /\ Distinct(rest)
        /\ Elements(rest) = Elements(waiting) \ Elements(in)
        /\ rest # <<>> => draining \/ Len(in) = Free(a, creating, failed)
    BY <1>2, AdmittedIsHead, ZenonT(60)
  <2>2. waiting' = rest
    BY <1>1
  <2> HIDE DEF in, rest
  <2> QED BY <2>1, <2>2
<1> HIDE DEF in
<1>4. \A q \in Elements(in) : q \in Requests /\ stage[q] = "none" /\ answer[q] = "pending"
  <2>1. Elements(in) \subseteq Requests
    BY <1>3, ElementsAreFew
  <2> QED BY <1>3, <2>1 DEF QueueOK, Waits
<1>5. Serves({}, in)
  BY <1>1, <1>3, <1>4 DEF Serves
<1> QED BY <1>1, <1>3, <1>5 DEF a

\* acquire() serves its own request when there is room, and else queues it.
LEMMA AcquireServes ==
    ASSUME Bounded, Types, QueueOK, NoIdleSlot, NEW r \in Requests, Acquire(r)
    PROVE  \/ /\ \E in : Serves({}, in) /\ creating' = creating \cup Elements(in)
              /\ ~draining /\ waiting = <<>> /\ waiting' = <<>> /\ HasCapacity
           \/ /\ ~draining /\ ~HasCapacity /\ waiting' = Append(waiting, r)
              /\ answer[r] = "none" /\ answer' = [answer EXCEPT ![r] = "pending"]
              /\ UNCHANGED <<creating, stage, chain>>
           \/ /\ draining
              /\ answer[r] = "none" /\ answer' = [answer EXCEPT ![r] = "rejected"]
              /\ UNCHANGED <<waiting, creating, stage, chain>>
<1>1. CASE draining
  BY <1>1 DEF Acquire
<1>2. CASE ~draining /\ ~HasCapacity
  BY <1>2 DEF Acquire
<1>3. CASE ~draining /\ HasCapacity
  <2> DEFINE in == <<r>>
  <2>1. in \in Seq(Requests) /\ Elements(in) = {r} /\ Distinct(in) /\ in # <<>>
    <3>1. DOMAIN in = 1..1 /\ in[1] = r /\ Len(in) = 1
      OBVIOUS
    <3>2. 1..1 = {1}
      OBVIOUS
    <3> QED BY <3>1, <3>2 DEF Elements, Distinct
  <2>2. /\ creating' = creating \cup Elements(in)
        /\ stage' = [q \in Requests |-> IF q \in Elements(in) THEN "lock" ELSE stage[q]]
        /\ chain' = chain \o in
        /\ waiting' = waiting
        /\ answer[r] = "none" /\ answer' = [answer EXCEPT ![r] = "pending"]
    BY <1>3 DEF Acquire, Start
  <2>3. waiting = <<>>
    BY <1>3 DEF NoIdleSlot
  <2> HIDE DEF in
  <2>4. stage[r] = "none" /\ ~Waits(r)
    BY <2>2 DEF QueueOK
  <2>5. answer'[r] = "pending" /\ \A q \in Requests \ {r} : answer'[q] = answer[q]
    BY <2>2 DEF Types
  <2>6. Distinct(waiting') /\ Elements(waiting') = Elements(waiting) \ Elements(in)
    BY <2>1, <2>2, <2>4 DEF QueueOK, Waits
  <2>7. Serves({}, in)
    BY <1>3, <2>1, <2>2, <2>4, <2>5, <2>6 DEF Serves
  <2> QED BY <1>3, <2>2, <2>3, <2>7
<1> QED BY <1>1, <1>2, <1>3

\* A lease moves on to s, and answers the call with its end.
Moves(r, s) ==
    /\ stage' = [stage EXCEPT ![r] = s]
    /\ s \in Kinds => asked' = [asked EXCEPT ![r] = @ \cup {s}]
    /\ s # "settled" => UNCHANGED <<answer, settlement, active>>
    /\ s = "settled" =>
           \/ /\ answer' = [answer EXCEPT ![r] = "granted"]
              /\ settlement' = [settlement EXCEPT ![r] = "published"]
              /\ active' = active \cup {r}
              /\ ~draining
           \/ /\ answer' = [answer EXCEPT ![r] = "rejected"]
              /\ \E d \in {"clean", "dirty"} : settlement' = [settlement EXCEPT ![r] = d]
              /\ active' = active
    /\ UNCHANGED <<waiting, creating, failed, cancelled, chain, releasing, drains>>

\* Every step of a lease does.
LEMMA LeaseMove ==
    ASSUME Bounded, NEW r \in Requests, LeaseStep(r)
    PROVE  /\ stage[r] \in Working /\ r \in creating
           /\ \E s \in (Working \cup {"settled"}) \ {"lock"} : Moves(r, s)
<1> USE DEF Working, InStartup, Kinds, Goto, maps, Moves
<1>1. stage[r] \in Working => r \in creating
  BY DEF Bounded
<1>2. CASE EnterDelay(r)
  BY <1>1, <1>2 DEF EnterDelay
<1>3. CASE DelayEnds(r)
  BY <1>1, <1>3 DEF DelayEnds, Ask
<1>4. CASE StartupCancelled(r)
  BY <1>1, <1>4 DEF StartupCancelled
<1>5. CASE StartFails(r)
  BY <1>1, <1>5 DEF StartFails
<1>6. ASSUME NEW k \in Kinds, Created(r, k)
      PROVE  /\ stage[r] \in Working
             /\ \E s \in (Working \cup {"settled"}) \ {"lock"} : Moves(r, s)
  BY <1>6 DEF Created, Ask
<1>7. ASSUME NEW k \in Kinds, CreateFails(r, k)
      PROVE  /\ stage[r] \in Working
             /\ \E s \in (Working \cup {"settled"}) \ {"lock"} : Moves(r, s)
  BY <1>7 DEF CreateFails
<1>8. CASE Publish(r)
  BY <1>1, <1>8 DEF Publish
<1>9. CASE CleanupEnds(r)
  BY <1>1, <1>9 DEF CleanupEnds
<1> QED BY <1>1, <1>2, <1>3, <1>4, <1>5, <1>6, <1>7, <1>8, <1>9 DEF LeaseStep

\* Leaving the queue takes one request out of it.
LEMMA LeaveQueueDrops ==
    ASSUME Bounded, QueueOK, NEW r \in Requests, LeaveQueue(r)
    PROVE  /\ Waits(r) /\ waiting # <<>>
           /\ waiting' \in Seq(Requests)
           /\ Elements(waiting') = Elements(waiting) \ {r} /\ Distinct(waiting')
<1>1. PICK i \in DOMAIN waiting :
          /\ waiting[i] = r
          /\ waiting' = SubSeq(waiting, 1, i - 1) \o SubSeq(waiting, i + 1, Len(waiting))
  BY DEF LeaveQueue
<1> DEFINE n == Len(waiting)
<1>2. /\ waiting \in Seq(Requests) /\ Distinct(waiting) /\ n \in Nat /\ n = Len(waiting)
      /\ i \in 1..n /\ waiting # <<>>
      /\ waiting' = SubSeq(waiting, 1, i - 1) \o SubSeq(waiting, i + 1, n)
  BY <1>1 DEF Bounded, QueueOK
<1> HIDE DEF n
<1>3. /\ waiting' \in Seq(Requests) /\ Elements(waiting') = Elements(waiting) \ {waiting[i]}
      /\ Distinct(waiting')
  BY <1>2, DropElement
<1>4. Waits(r)
  BY <1>1 DEF Waits, Elements
<1> QED BY <1>1, <1>2, <1>3, <1>4

-----------------------------------------------------------------------------
(* The invariant, part by part *)

\* A step that neither queues, starts nor answers anybody.
Aside == UNCHANGED <<waiting, maps, stage, chain, answer, draining, cancelled, asked>>

\* Those steps.
LEMMA AsideSteps ==
    ASSUME \/ Still \/ DrainEnds
           \/ \E r \in Requests : Release(r) \/ ReleaseFails(r)
                                  \/ \E k \in Kinds : DaemonCreates(r, k)
    PROVE  Aside
BY DEF Aside, Still, maps, leases, drains, DrainEnds, Release, ReleaseFails, Await, DaemonCreates

\* Serving the queue keeps it in order.
LEMMA ServesQueue ==
    ASSUME Bounded, Types, QueueOK, NEW out, NEW in, Serves(out, in)
    PROVE  QueueOK' /\ chain' \in Seq(Requests)
<1>1. /\ in \in Seq(Requests) /\ Distinct(in) /\ chain \in Seq(Requests) /\ Distinct(chain)
      /\ Elements(in) \subseteq Requests
  BY ElementsAreFew DEF Serves, Types, QueueOK
<1>2. Elements(chain) \cap Elements(in) = {}
  BY <1>1 DEF Serves, QueueOK, Started
<1>3. /\ chain' \in Seq(Requests) /\ Elements(chain') = Elements(chain) \cup Elements(in)
      /\ Distinct(chain')
  <2> DEFINE m == Len(chain)
             n == Len(in)
  <2>1. m \in Nat /\ m = Len(chain) /\ n \in Nat /\ n = Len(in) /\ chain' = chain \o in
    BY <1>1 DEF Serves
  <2> HIDE DEF m, n
  <2> QED BY <1>1, <1>2, <2>1, Joined
<1>4. Distinct(waiting')
  BY DEF Serves
<1>5. ASSUME NEW q \in Requests
      PROVE  /\ Waits(q)' => answer'[q] = "pending" /\ stage'[q] = "none"
             /\ q \in Started' <=> stage'[q] # "none"
             /\ answer'[q] = "none" => stage'[q] = "none"
  <2>1. CASE q \in Elements(in)
    <3>1. stage'[q] = "lock" /\ answer'[q] = "pending" /\ ~Waits(q)'
      BY <2>1 DEF Serves, Waits
    <3>2. q \in Started'
      BY <1>3, <2>1 DEF Started
    <3> QED BY <3>1, <3>2
  <2>2. CASE q \notin Elements(in)
    <3>1. /\ answer'[q] = answer[q]
          /\ Waits(q)' => Waits(q)
          /\ q \in out => stage[q] = "settled" /\ stage'[q] = "over"
          /\ q \notin out => stage'[q] = stage[q]
      BY <2>2 DEF Serves, Waits
    <3>2. q \in Started' <=> q \in Started
      BY <1>3, <2>2 DEF Started
    <3>3. /\ Waits(q) => answer[q] = "pending" /\ stage[q] = "none"
          /\ q \in Started <=> stage[q] # "none"
          /\ answer[q] = "none" => stage[q] = "none"
      BY DEF QueueOK
    <3>4. CASE q \in out
      BY <3>1, <3>2, <3>3, <3>4
    <3>5. CASE q \notin out
      BY <3>1, <3>2, <3>3, <3>5
    <3> QED BY <3>4, <3>5
  <2> QED BY <2>1, <2>2
<1> QED BY <1>3, <1>4, <1>5 DEF QueueOK

\* A step that leaves queue and startup order alone keeps them so, if nobody
\* who has not started is moved or answered.
LEMMA QueueKept ==
    ASSUME QueueOK, UNCHANGED <<waiting, chain>>,
           \A q \in Requests : /\ stage'[q] = "none" <=> stage[q] = "none"
                               /\ stage[q] = "none" => answer'[q] = answer[q]
                               /\ answer'[q] = "none" => answer[q] = "none"
    PROVE  QueueOK'
<1>1. \A q \in Requests : /\ Waits(q)' <=> Waits(q)
                          /\ q \in Started' <=> q \in Started
  BY DEF Waits, Started
<1>2. Distinct(waiting') /\ Distinct(chain')
  BY DEF QueueOK
<1> QED BY <1>1, <1>2 DEF QueueOK

\* Every step keeps the places of the requests and the answers they await.
LEMMA QueueStep ==
    ASSUME Bounded, Types, QueueOK, PlacesOK, NoIdleSlot, [Next]_vars
    PROVE  QueueOK' /\ chain' \in Seq(Requests)
<1>0. chain \in Seq(Requests)
  BY DEF Types
<1>1. CASE Still \/ DrainEnds
           \/ \E r \in Requests : Release(r) \/ ReleaseFails(r)
                                  \/ \E k \in Kinds : DaemonCreates(r, k)
  <2>1. UNCHANGED <<waiting, chain, stage, answer>>
    BY <1>1, AsideSteps DEF Aside
  <2> QED BY <1>0, <2>1, QueueKept
<1>2. CASE \E r \in Requests : CallerAborts(r)
  <2>1. UNCHANGED <<waiting, chain, stage, answer>>
    BY <1>2 DEF CallerAborts
  <2> QED BY <1>0, <2>1, QueueKept
<1>3. CASE Drain
  <2>1. /\ waiting' = <<>> /\ chain' = chain
        /\ stage' = [r \in Requests |-> IF r \in failed THEN "retry" ELSE stage[r]]
        /\ answer' = [r \in Requests |-> IF Waits(r) THEN "rejected" ELSE answer[r]]
    BY <1>3 DEF Drain, Snapshot
  <2>2. \A q \in Requests : ~Waits(q)' /\ (q \in Started' <=> q \in Started)
    BY <2>1 DEF Waits, Elements, Started
  <2>3. Distinct(waiting') /\ Distinct(chain')
    BY <2>1 DEF QueueOK, Distinct
  <2>4. \A q \in Requests : /\ stage'[q] = "none" <=> stage[q] = "none"
                            /\ answer'[q] = "none" => answer[q] = "none"
    BY <2>1 DEF PlacesOK
  <2> QED BY <1>0, <2>1, <2>2, <2>3, <2>4 DEF QueueOK
<1>4. ASSUME NEW r \in Requests, Acquire(r) PROVE QueueOK' /\ chain' \in Seq(Requests)
  <2>1. CASE \E in : Serves({}, in)
    BY <2>1, ServesQueue
  <2>2. CASE /\ waiting' = Append(waiting, r)
             /\ answer[r] = "none" /\ answer' = [answer EXCEPT ![r] = "pending"]
             /\ UNCHANGED <<creating, stage, chain>>
    <3>1. stage[r] = "none" /\ ~Waits(r)
      BY <2>2 DEF QueueOK
    <3>2. Elements(waiting') = Elements(waiting) \cup {r} /\ Distinct(waiting')
      BY <2>2, <3>1, AppendElement DEF Bounded, QueueOK, Waits
    <3>3. \A q \in Requests : answer'[q] = IF q = r THEN "pending" ELSE answer[q]
      BY <2>2 DEF Types
    <3>4. \A q \in Requests : /\ Waits(q)' <=> Waits(q) \/ q = r
                              /\ q \in Started' <=> q \in Started
      BY <2>2, <3>2 DEF Waits, Started
    <3>5. Distinct(chain')
      BY <2>2 DEF QueueOK
    <3> QED BY <1>0, <2>2, <3>1, <3>2, <3>3, <3>4, <3>5 DEF QueueOK
  <2>3. CASE /\ answer[r] = "none" /\ answer' = [answer EXCEPT ![r] = "rejected"]
             /\ UNCHANGED <<waiting, creating, stage, chain>>
    <3>1. stage[r] = "none" /\ ~Waits(r)
      BY <2>3 DEF QueueOK
    <3>2. \A q \in Requests : answer'[q] = IF q = r THEN "rejected" ELSE answer[q]
      BY <2>3 DEF Types
    <3>3. \A q \in Requests : /\ Waits(q)' <=> Waits(q)
                              /\ q \in Started' <=> q \in Started
      BY <2>3 DEF Waits, Started
    <3>4. Distinct(waiting') /\ Distinct(chain')
      BY <2>3 DEF QueueOK
    <3> QED BY <1>0, <2>3, <3>1, <3>2, <3>3, <3>4 DEF QueueOK
  <2> QED BY <1>4, <2>1, <2>2, <2>3, AcquireServes
<1>5. ASSUME NEW r \in Requests, LeaveQueue(r) PROVE QueueOK' /\ chain' \in Seq(Requests)
  <2>1. Elements(waiting') = Elements(waiting) \ {r} /\ Distinct(waiting')
    BY <1>5, LeaveQueueDrops
  <2>2. answer' = [answer EXCEPT ![r] = "rejected"] /\ UNCHANGED <<chain, stage>>
    BY <1>5 DEF LeaveQueue, leases
  <2>3. \A q \in Requests : answer'[q] = IF q = r THEN "rejected" ELSE answer[q]
    BY <2>2 DEF Types
  <2>4. \A q \in Requests : /\ Waits(q)' <=> Waits(q) /\ q # r
                            /\ q \in Started' <=> q \in Started
    BY <2>1, <2>2 DEF Waits, Started
  <2>5. Distinct(chain')
    BY <2>2 DEF QueueOK
  <2> QED BY <1>0, <2>1, <2>2, <2>3, <2>4, <2>5 DEF QueueOK
<1>6. ASSUME NEW r \in Requests, LeaseStep(r) PROVE QueueOK' /\ chain' \in Seq(Requests)
  <2>1. PICK s \in (Working \cup {"settled"}) \ {"lock"} : Moves(r, s)
    BY <1>6, LeaseMove
  <2>2. stage[r] # "none" /\ s # "none"
    BY <1>6, LeaseMove DEF Working, InStartup, Kinds
  <2>3. \A q \in Requests : /\ stage'[q] = IF q = r THEN s ELSE stage[q]
                            /\ q # r => answer'[q] = answer[q]
                            /\ answer'[q] = "none" => answer[q] = "none"
    BY <2>1 DEF Moves, Types, Bounded
  <2>4. UNCHANGED <<waiting, chain>>
    BY <2>1 DEF Moves
  <2> QED BY <1>0, <2>2, <2>3, <2>4, QueueKept
<1>7. ASSUME NEW r \in Requests, SettlementHandled(r) \/ Released(r)
      PROVE  QueueOK' /\ chain' \in Seq(Requests)
  BY <1>7, SettlementServes, ReleaseServes, ServesQueue
<1>8. ASSUME NEW r \in Requests, RetryEnds(r) PROVE QueueOK' /\ chain' \in Seq(Requests)
  <2>1. stage[r] = "retry" /\ stage' = [stage EXCEPT ![r] = "over"]
        /\ UNCHANGED <<waiting, chain, answer>>
    BY <1>8 DEF RetryEnds, Goto
  <2>2. \A q \in Requests : stage'[q] = IF q = r THEN "over" ELSE stage[q]
    BY <2>1 DEF Bounded
  <2> QED BY <1>0, <2>1, <2>2, QueueKept
<1> QED BY StillSteps, <1>1, <1>2, <1>3, <1>4, <1>5, <1>6, <1>7, <1>8
        DEF Next, Environment, Step, ReleaseEnds

\* acquire() stays pending exactly while its request waits or is at work.
LEMMA AnswersStep ==
    ASSUME Bounded, Types, QueueOK, PlacesOK, NoIdleSlot, AnswersOK, [Next]_vars
    PROVE  AnswersOK'
<1> SUFFICES ASSUME NEW q \in Requests
             PROVE  /\ stage'[q] \in Working => answer'[q] = "pending"
                    /\ answer'[q] = "pending" => Waits(q)' \/ stage'[q] \in Working
  BY DEF AnswersOK
<1>0. /\ stage[q] \in Working => answer[q] = "pending"
      /\ answer[q] = "pending" => Waits(q) \/ stage[q] \in Working
  BY DEF AnswersOK
<1>1. ASSUME stage'[q] = stage[q], answer'[q] = answer[q], Waits(q)' <=> Waits(q)
      PROVE  /\ stage'[q] \in Working => answer'[q] = "pending"
             /\ answer'[q] = "pending" => Waits(q)' \/ stage'[q] \in Working
  BY <1>0, <1>1
<1>2. /\ {"none", "over", "settled", "retry"} \cap Working = {}
      /\ "lock" \in Working
  BY DEF Working, InStartup, Kinds
<1>3. ASSUME NEW out, NEW in, Serves(out, in)
      PROVE  /\ stage'[q] \in Working => answer'[q] = "pending"
             /\ answer'[q] = "pending" => Waits(q)' \/ stage'[q] \in Working
  <2>1. CASE q \in Elements(in)
    BY <1>2, <1>3, <2>1 DEF Serves
  <2>2. CASE q \notin Elements(in)
    <3>1. /\ answer'[q] = answer[q]
          /\ Waits(q)' <=> Waits(q)
          /\ q \in out => stage[q] = "settled" /\ stage'[q] = "over"
          /\ q \notin out => stage'[q] = stage[q]
      BY <1>3, <2>2 DEF Serves, Waits
    <3> QED BY <1>0, <1>2, <3>1
  <2> QED BY <2>1, <2>2
<1>4. CASE Still \/ DrainEnds
           \/ \E r \in Requests : Release(r) \/ ReleaseFails(r)
                                  \/ \E k \in Kinds : DaemonCreates(r, k)
  <2>1. UNCHANGED <<waiting, stage, answer>>
    BY <1>4, AsideSteps DEF Aside
  <2> QED BY <1>1, <2>1 DEF Waits
<1>5. CASE \E r \in Requests : CallerAborts(r)
  <2>1. UNCHANGED <<waiting, stage, answer>>
    BY <1>5 DEF CallerAborts
  <2> QED BY <1>1, <2>1 DEF Waits
<1>6. CASE Drain
  <2>1. /\ stage'[q] = IF q \in failed THEN "retry" ELSE stage[q]
        /\ answer'[q] = IF Waits(q) THEN "rejected" ELSE answer[q]
    BY <1>6 DEF Drain, Snapshot
  <2>2. q \in failed => stage[q] \notin Working
    BY <1>2 DEF PlacesOK
  <2>3. Waits(q) => stage[q] \notin Working
    BY <1>2 DEF QueueOK
  <2> QED BY <1>0, <1>2, <2>1, <2>2, <2>3
<1>7. ASSUME NEW r \in Requests, Acquire(r)
      PROVE  /\ stage'[q] \in Working => answer'[q] = "pending"
             /\ answer'[q] = "pending" => Waits(q)' \/ stage'[q] \in Working
  <2>1. CASE \E in : Serves({}, in)
    BY <1>3, <2>1
  <2>2. CASE /\ waiting' = Append(waiting, r)
             /\ answer[r] = "none" /\ answer' = [answer EXCEPT ![r] = "pending"]
             /\ UNCHANGED <<creating, stage, chain>>
    <3>1. Elements(waiting') = Elements(waiting) \cup {r}
      BY <2>2, AppendElement DEF Bounded
    <3>2. answer'[q] = IF q = r THEN "pending" ELSE answer[q]
      BY <2>2 DEF Types
    <3> QED BY <1>0, <2>2, <3>1, <3>2 DEF Waits
  <2>3. CASE /\ answer[r] = "none" /\ answer' = [answer EXCEPT ![r] = "rejected"]
             /\ UNCHANGED <<waiting, creating, stage, chain>>
    <3>1. answer'[q] = IF q = r THEN "rejected" ELSE answer[q]
      BY <2>3 DEF Types
    <3> QED BY <1>0, <2>3, <3>1 DEF Waits
  <2> QED BY <1>7, <2>1, <2>2, <2>3, AcquireServes
<1>8. ASSUME NEW r \in Requests, LeaveQueue(r)
      PROVE  /\ stage'[q] \in Working => answer'[q] = "pending"
             /\ answer'[q] = "pending" => Waits(q)' \/ stage'[q] \in Working
  <2>1. Waits(r) /\ Elements(waiting') = Elements(waiting) \ {r}
    BY <1>8, LeaveQueueDrops
  <2>2. answer'[q] = (IF q = r THEN "rejected" ELSE answer[q]) /\ stage' = stage
    BY <1>8 DEF LeaveQueue, leases, Types
  <2>3. stage[r] \notin Working
    BY <1>2, <2>1 DEF QueueOK
  <2> QED BY <1>0, <2>1, <2>2, <2>3 DEF Waits
<1>9. ASSUME NEW r \in Requests, LeaseStep(r)
      PROVE  /\ stage'[q] \in Working => answer'[q] = "pending"
             /\ answer'[q] = "pending" => Waits(q)' \/ stage'[q] \in Working
  <2>1. PICK s \in (Working \cup {"settled"}) \ {"lock"} : Moves(r, s)
    BY <1>9, LeaseMove
  <2>2. stage'[q] = (IF q = r THEN s ELSE stage[q]) /\ waiting' = waiting
    BY <2>1 DEF Moves, Bounded
  <2>3. CASE q # r
    <3>1. answer'[q] = answer[q]
      BY <2>1, <2>3 DEF Moves, Types
    <3> QED BY <1>1, <2>2, <2>3, <3>1 DEF Waits
  <2>4. CASE q = r /\ s = "settled"
    <3>1. answer'[q] # "pending"
      BY <2>1, <2>4 DEF Moves, Types
    <3> QED BY <1>2, <2>2, <2>4, <3>1
  <2>5. CASE q = r /\ s # "settled"
    <3>1. answer'[q] = answer[q] /\ stage[q] \in Working
      BY <1>9, <2>1, <2>5, LeaseMove DEF Moves
    <3> QED BY <1>0, <2>2, <2>5, <3>1
  <2> QED BY <2>3, <2>4, <2>5
<1>10. ASSUME NEW r \in Requests, SettlementHandled(r) \/ Released(r)
       PROVE  /\ stage'[q] \in Working => answer'[q] = "pending"
              /\ answer'[q] = "pending" => Waits(q)' \/ stage'[q] \in Working
  BY <1>3, <1>10, SettlementServes, ReleaseServes
<1>11. ASSUME NEW r \in Requests, RetryEnds(r)
       PROVE  /\ stage'[q] \in Working => answer'[q] = "pending"
              /\ answer'[q] = "pending" => Waits(q)' \/ stage'[q] \in Working
  <2>1. /\ stage[r] = "retry"
        /\ stage'[q] = IF q = r THEN "over" ELSE stage[q]
        /\ UNCHANGED <<waiting, answer>>
    BY <1>11 DEF RetryEnds, Goto, Bounded
  <2> QED BY <1>0, <1>2, <2>1 DEF Waits
<1> QED BY StillSteps, <1>4, <1>5, <1>6, <1>7, <1>8, <1>9, <1>10, <1>11
        DEF Next, Environment, Step, ReleaseEnds

\* Serving the queue keeps the places, with whatever it takes out of the maps.
LEMMA ServesPlaces ==
    ASSUME Bounded, PlacesOK, NEW out \in SUBSET Requests, NEW in, Serves(out, in),
           creating' = (creating \ out) \cup Elements(in),
           active' \subseteq active, releasing' \subseteq active',
           draining' = draining, settlement' = settlement,
           failed \subseteq failed', failed' \subseteq failed \cup out,
           \A q \in out \cap failed' : settlement[q] = "dirty"
    PROVE  PlacesOK'
<1>0. "lock" \in Working
  BY DEF Working, InStartup
<1>1. Elements(in) \subseteq Requests
  BY ElementsAreFew DEF Serves
<1>2. \A q \in Requests : 
        /\ q \in Elements(in) => stage[q] = "none" /\ stage'[q] = "lock"
        /\ q \in out => stage[q] = "settled" /\ stage'[q] = "over"
        /\ q \notin Elements(in) \cup out => stage'[q] = stage[q]
  BY DEF Serves
<1>3. creating' \subseteq Requests
  BY <1>1 DEF Bounded
<1>4. \A q \in creating' : stage'[q] \in Working \cup {"settled"}
  BY <1>0, <1>2, <1>3 DEF PlacesOK
<1>5. \A q \in failed' : stage'[q] \in {"retry", "over"} /\ settlement'[q] = "dirty"
  BY <1>2 DEF PlacesOK, Bounded
<1>6. \A q \in active' : stage'[q] \in {"settled", "over"} /\ settlement'[q] = "published"
  BY <1>2 DEF PlacesOK, Bounded
<1>7. \A q \in Requests : stage'[q] = "retry" => q \in failed' /\ draining'
  BY <1>2 DEF PlacesOK
<1> QED BY <1>4, <1>5, <1>6, <1>7 DEF PlacesOK

\* The map of a request keeps saying how far its lease has come.
LEMMA PlacesStep ==
    ASSUME Bounded, Types, QueueOK, NoIdleSlot, PlacesOK, DrainOK, [Next]_vars
    PROVE  PlacesOK'
<1>0. /\ {"none", "over", "settled", "retry"} \cap Working = {}
      /\ "lock" \in Working
  BY DEF Working, InStartup, Kinds
<1>1. CASE Still \/ DrainEnds \/ \E r \in Requests, k \in Kinds : DaemonCreates(r, k)
  <2>1. UNCHANGED <<maps, stage, settlement, draining, releasing>>
    BY <1>1 DEF Still, maps, leases, drains, DrainEnds, DaemonCreates
  <2> QED BY <2>1 DEF PlacesOK, maps
<1>2. CASE \E r \in Requests : CallerAborts(r)
  <2>1. UNCHANGED <<maps, stage, settlement, draining, releasing>>
    BY <1>2 DEF CallerAborts, drains
  <2> QED BY <2>1 DEF PlacesOK, maps
<1>3. CASE \E r \in Requests : Release(r) \/ ReleaseFails(r)
  <2>1. UNCHANGED <<maps, stage, settlement, draining>> /\ releasing' \subseteq releasing \cup active
    BY <1>3 DEF Release, ReleaseFails, Await, leases, drains
  <2> QED BY <2>1 DEF PlacesOK, maps
<1>4. CASE Drain
  <2>1. /\ UNCHANGED <<maps, settlement>> /\ draining' /\ releasing' = releasing \cup active
        /\ stage' = [r \in Requests |-> IF r \in failed THEN "retry" ELSE stage[r]]
    BY <1>4 DEF Drain, Snapshot
  <2>2. \A q \in Requests : stage'[q] = IF q \in failed THEN "retry" ELSE stage[q]
    BY <2>1
  <2>3. failed \cap creating = {}
    BY <1>0 DEF PlacesOK
  <2> QED BY <2>1, <2>2, <2>3 DEF PlacesOK, maps, Bounded
<1>6. ASSUME NEW r \in Requests, Acquire(r) PROVE PlacesOK'
  <2>1. UNCHANGED <<failed, active, settlement, releasing, draining>>
    BY <1>6 DEF Acquire, drains
  <2>2. CASE \E in : Serves({}, in) /\ creating' = creating \cup Elements(in)
    <3>1. PICK in : Serves({}, in) /\ creating' = (creating \ {}) \cup Elements(in)
      BY <2>2
    <3>2. releasing' \subseteq active' /\ active' \subseteq active
      BY <2>1 DEF PlacesOK
    <3>3. {} \in SUBSET Requests /\ \A q \in {} \cap failed' : settlement[q] = "dirty"
      OBVIOUS
    <3> QED BY <2>1, <3>1, <3>2, <3>3, ServesPlaces
  <2>3. CASE UNCHANGED <<creating, stage, chain>>
    BY <2>1, <2>3 DEF PlacesOK
  <2> QED BY <1>6, <2>2, <2>3, AcquireServes
<1>7. ASSUME NEW r \in Requests, LeaveQueue(r) PROVE PlacesOK'
  <2>1. UNCHANGED <<maps, stage, draining, releasing, settlement>>
    BY <1>7 DEF LeaveQueue, leases, drains
  <2> QED BY <2>1 DEF PlacesOK, maps
<1>8. ASSUME NEW r \in Requests, LeaseStep(r) PROVE PlacesOK'
  <2>1. PICK s \in (Working \cup {"settled"}) \ {"lock"} : Moves(r, s)
    BY <1>8, LeaseMove
  <2>2. /\ \A q \in Requests : stage'[q] = (IF q = r THEN s ELSE stage[q])
        /\ UNCHANGED <<creating, failed, releasing, draining>>
        /\ stage[r] \in Working /\ r \in creating
    BY <1>8, <2>1, LeaseMove DEF Moves, Bounded, drains
  <2>3. r \notin failed /\ r \notin active /\ s # "retry" /\ s # "over"
    BY <1>0, <2>2 DEF PlacesOK
  <2>4. CASE UNCHANGED <<settlement, active>>
    BY <2>2, <2>3, <2>4 DEF PlacesOK, Bounded
  <2>5. CASE /\ settlement' = [settlement EXCEPT ![r] = "published"]
             /\ active' = active \cup {r} /\ s = "settled"
    BY <2>2, <2>3, <2>5 DEF PlacesOK, Bounded, Types
  <2>6. CASE /\ \E d \in {"clean", "dirty"} : settlement' = [settlement EXCEPT ![r] = d]
             /\ active' = active
    <3>1. \A q \in Requests \ {r} : settlement'[q] = settlement[q]
      BY <2>6 DEF Types
    <3>2. /\ \A q \in failed \cup active : settlement'[q] = settlement[q]
          /\ \A q \in failed \cup active : stage'[q] = stage[q]
      BY <2>2, <2>3, <3>1 DEF Bounded
    <3> QED BY <2>2, <2>3, <2>6, <3>2 DEF PlacesOK, Bounded
  <2> QED BY <2>1, <2>4, <2>5, <2>6 DEF Moves
<1>9. ASSUME NEW r \in Requests, SettlementHandled(r) PROVE PlacesOK'
  <2>1. PICK in : Serves({r}, in) /\ creating' = (creating \ {r}) \cup Elements(in)
    BY <1>9, SettlementServes
  <2>2. /\ r \in creating
        /\ failed' = IF settlement[r] = "dirty" THEN failed \cup {r} ELSE failed
        /\ UNCHANGED <<active, settlement, releasing, draining>>
    BY <1>9 DEF SettlementHandled, Await
  <2>3. releasing' \subseteq active' /\ active' \subseteq active
    BY <2>2 DEF PlacesOK
  <2>4. /\ {r} \in SUBSET Requests /\ failed \subseteq failed' /\ failed' \subseteq failed \cup {r}
        /\ \A q \in {r} \cap failed' : settlement[q] = "dirty"
    BY <2>2 DEF PlacesOK
  <2> QED BY <2>1, <2>2, <2>3, <2>4, ServesPlaces
<1>10. ASSUME NEW r \in Requests, Released(r) PROVE PlacesOK'
  <2>1. PICK in : Serves({}, in) /\ creating' = (creating \ {}) \cup Elements(in)
    BY <1>10, ReleaseServes
  <2>2. /\ active' = active \ {r} /\ releasing' = releasing \ {r}
        /\ UNCHANGED <<failed, settlement, draining>>
    BY <1>10 DEF Released, Await
  <2>3. releasing' \subseteq active' /\ active' \subseteq active
    BY <2>2 DEF PlacesOK
  <2>4. {} \in SUBSET Requests /\ \A q \in {} \cap failed' : settlement[q] = "dirty"
    OBVIOUS
  <2> QED BY <2>1, <2>2, <2>3, <2>4, ServesPlaces
<1>11. ASSUME NEW r \in Requests, RetryEnds(r) PROVE PlacesOK'
  <2>1. /\ stage[r] = "retry"
        /\ \A q \in Requests : stage'[q] = IF q = r THEN "over" ELSE stage[q]
        /\ failed' = failed \/ failed' = failed \ {r}
        /\ UNCHANGED <<creating, active, releasing, settlement, draining>>
    BY <1>11 DEF RetryEnds, Goto, Bounded, Await
  <2> QED BY <1>0, <2>1 DEF PlacesOK, Bounded
<1> QED BY StillSteps, <1>1, <1>2, <1>3, <1>4, <1>6, <1>7, <1>8, <1>9, <1>10, <1>11
        DEF Next, Environment, Step, ReleaseEnds

\* Once the pool drains, its maps only shrink to nothing.
LEMMA DrainKept ==
    ASSUME Bounded, Types, QueueOK, NoIdleSlot, PlacesOK, DrainOK, [Next]_vars
    PROVE  DrainOK'
<1>1. ASSUME draining, Emptied, [Next]_vars, ~Drain, ~DrainEnds PROVE Emptied'
  <2> USE <1>1
  <2>1. \A r \in Requests : stage[r] \notin Working \cup {"retry"}
    BY DEF Bounded, PlacesOK, Emptied
  <2>2. CASE Still
    BY <2>2 DEF Still, maps, Emptied
  <2>3. CASE \E r \in Requests : Acquire(r)
    BY <2>3 DEF Acquire, Emptied
  <2>4. CASE \E r \in Requests : LeaveQueue(r) \/ CallerAborts(r) \/ Release(r)
                                 \/ (\E k \in Kinds : DaemonCreates(r, k)) \/ ReleaseFails(r)
    BY <2>4 DEF LeaveQueue, CallerAborts, Release, DaemonCreates, ReleaseFails, maps, Emptied
  <2>5. CASE \E r \in Requests : LeaseStep(r)
    BY <2>1, <2>5, LeaseMove
  <2>6. CASE \E r \in Requests : SettlementHandled(r)
    BY <2>6 DEF SettlementHandled, Emptied
  <2>7. CASE \E r \in Requests : Released(r)
    BY <2>7 DEF Released, Emptied, PlacesOK
  <2>8. CASE \E r \in Requests : RetryEnds(r)
    BY <2>1, <2>8 DEF RetryEnds
  <2> QED BY StillSteps, <2>2, <2>3, <2>4, <2>5, <2>6, <2>7, <2>8
          DEF Next, Environment, Step, ReleaseEnds
<1>2. CASE Drain
  BY <1>2 DEF Drain, DrainOK
<1>3. CASE DrainEnds
  BY <1>3 DEF DrainEnds, DrainOK, Emptied, maps
<1>4. CASE ~Drain /\ ~DrainEnds
  <2>1. UNCHANGED <<draining, drain>>
    <3>1. CASE Still
      BY <3>1 DEF Still, drains
    <3>2. CASE \E r \in Requests : Acquire(r) \/ LeaveQueue(r) \/ CallerAborts(r) \/ Release(r)
                                   \/ \E k \in Kinds : DaemonCreates(r, k)
      BY <3>2 DEF Acquire, LeaveQueue, CallerAborts, Release, DaemonCreates, drains
    <3>3. CASE \E r \in Requests : LeaseStep(r)
      BY <3>3, LeaseMove DEF Moves, drains
    <3>4. CASE \E r \in Requests : SettlementHandled(r) \/ Released(r) \/ ReleaseFails(r)
                                   \/ RetryEnds(r)
      BY <3>4 DEF SettlementHandled, Released, ReleaseFails, RetryEnds, Await
    <3> QED BY StillSteps, <1>4, <3>1, <3>2, <3>3, <3>4 DEF Next, Environment, Step, ReleaseEnds
  <2> QED BY <1>1, <1>4, <2>1 DEF DrainOK
<1> QED BY <1>2, <1>3, <1>4

\* A sequence of new requests takes as many slots as it is long.
LEMMA FillingCounts ==
    ASSUME NEW a \in SUBSET Requests, NEW c \in SUBSET Requests, NEW f \in SUBSET Requests,
           NEW in \in Seq(Requests), Distinct(in), Elements(in) \cap c = {},
           Len(in) = Free(a, c, f)
    PROVE  ~(SlotsTaken(a, c \cup Elements(in), f) < Max)
<1> DEFINE new == Elements(in)
<1>1. IsFiniteSet(a) /\ IsFiniteSet(c) /\ IsFiniteSet(f)
  BY PoolAssumption, FS_Subset
<1>2. IsFiniteSet(new) /\ Cardinality(new) = Len(in)
  BY DistinctSize
<1>3. /\ Cardinality(a) \in Nat /\ Cardinality(c) \in Nat /\ Cardinality(f) \in Nat
      /\ Cardinality(new) \in Nat
  BY <1>1, <1>2, FS_CardinalityType
<1> HIDE DEF new
<1>4. Cardinality(c \cup new) = Cardinality(c) + Cardinality(new)
  <2>1. new \cap c = {} /\ c \cap new = {}
    BY DEF new
  <2>2. Cardinality(c \cap new) = 0
    BY <2>1, FS_EmptySet
  <2>3. Cardinality(c \cup new) = Cardinality(c) + Cardinality(new) - Cardinality(c \cap new)
    BY <1>1, <1>2, FS_Union
  <2> QED BY <1>3, <2>2, <2>3
<1> DEFINE n == SlotsTaken(a, c, f)
<1>5. SlotsTaken(a, c \cup new, f) = n + Len(in) /\ n \in Nat
  BY <1>2, <1>3, <1>4 DEF SlotsTaken
<1>6. Max \in Nat /\ Len(in) \in Nat
  BY <1>2, <1>3, PoolAssumption
<1>7. Len(in) = IF n < Max THEN Max - n ELSE 0
  BY DEF Free
<1> HIDE DEF n
<1> QED BY <1>5, <1>6, <1>7 DEF new

\* Nobody waits while there is room.
LEMMA NoIdleStep ==
    ASSUME Bounded, Types, QueueOK, NoIdleSlot, PlacesOK, DrainOK, [Next]_vars
    PROVE  NoIdleSlot'
<1> USE DEF NoIdleSlot
<1>1. CASE Still \/ DrainEnds
           \/ \E r \in Requests : Release(r) \/ ReleaseFails(r)
                                  \/ \E k \in Kinds : DaemonCreates(r, k)
  <2>1. UNCHANGED <<waiting, maps, draining>>
    BY <1>1, AsideSteps DEF Aside
  <2> QED BY <2>1 DEF maps, HasCapacity
<1>2. CASE \E r \in Requests : CallerAborts(r)
  BY <1>2 DEF CallerAborts, HasCapacity, maps, drains
<1>3. CASE Drain
  BY <1>3 DEF Drain
<1>4. ASSUME NEW r \in Requests, Acquire(r) PROVE NoIdleSlot'
  <2>1. UNCHANGED <<failed, active, draining>>
    BY <1>4 DEF Acquire, drains
  <2> QED BY <1>4, <2>1, AcquireServes DEF HasCapacity
<1>5. ASSUME NEW r \in Requests, LeaveQueue(r) PROVE NoIdleSlot'
  <2>1. waiting # <<>> /\ UNCHANGED <<maps, draining>>
    BY <1>5, LeaveQueueDrops DEF LeaveQueue, drains
  <2> QED BY <2>1 DEF HasCapacity, maps
<1>6. ASSUME NEW r \in Requests, LeaseStep(r) PROVE NoIdleSlot'
  <2>1. UNCHANGED <<waiting, creating, failed, draining>>
        /\ (active' = active \/ active' = active \cup {r})
    BY <1>6, LeaseMove DEF Moves, drains
  <2>2. ASSUME ~HasCapacity PROVE ~HasCapacity'
    <3>1. IsFiniteSet(active) /\ IsFiniteSet(active') /\ IsFiniteSet(creating) /\ IsFiniteSet(failed)
      BY <2>1, PoolAssumption, FS_Subset, FS_AddElement DEF Bounded
    <3>2. Cardinality(active) <= Cardinality(active')
      BY <2>1, <3>1, FS_Subset
    <3>3. /\ Cardinality(active) \in Nat /\ Cardinality(active') \in Nat
          /\ Cardinality(creating) \in Nat /\ Cardinality(failed) \in Nat /\ Max \in Nat
      BY <3>1, FS_CardinalityType, PoolAssumption
    <3>4. /\ SlotsTaken(active, creating, failed)
                = Cardinality(active) + Cardinality(creating) + Cardinality(failed)
          /\ SlotsTaken(active', creating', failed')
                = Cardinality(active') + Cardinality(creating) + Cardinality(failed)
      BY <2>1 DEF SlotsTaken
    <3> QED BY <2>2, <3>2, <3>3, <3>4 DEF HasCapacity
  <2> QED BY <2>1, <2>2
<1>7. ASSUME NEW a \in SUBSET Requests, NEW c \in SUBSET creating, NEW f \in SUBSET Requests,
             NEW out, NEW in, Serves(out, in),
             waiting' # <<>> => draining \/ Len(in) = Free(a, c, f),
             active' = a, creating' = c \cup Elements(in), failed' = f, draining' = draining
      PROVE  NoIdleSlot'
  <2> SUFFICES ASSUME waiting' # <<>> PROVE ~draining' /\ ~HasCapacity'
    OBVIOUS
  <2>1. waiting # <<>>
    <3>1. waiting' \in Seq(Requests)
      BY StepBounded DEF Bounded
    <3>2. 1 \in DOMAIN waiting'
      BY <3>1
    <3>3. waiting'[1] \in Elements(waiting)
      BY <1>7, <3>2 DEF Serves, Elements
    <3>4. Elements(<<>>) = {}
      BY DEF Elements
    <3> QED BY <3>3, <3>4
  <2>2. Len(in) = Free(a, c, f)
    BY <1>7, <2>1
  <2>3. Elements(in) \cap c = {}
    <3>1. \A q \in c : q \in Requests /\ stage[q] # "none"
      BY DEF PlacesOK, Bounded, Working, InStartup, Kinds
    <3> QED BY <1>7, <3>1 DEF Serves
  <2>4. ~(SlotsTaken(a, c \cup Elements(in), f) < Max)
    <3>1. c \in SUBSET Requests /\ in \in Seq(Requests) /\ Distinct(in)
      BY <1>7 DEF Serves, Bounded
    <3> QED BY <2>2, <2>3, <3>1, FillingCounts
  <2> QED BY <1>7, <2>1, <2>4 DEF HasCapacity
<1>8. ASSUME NEW r \in Requests, SettlementHandled(r) PROVE NoIdleSlot'
  <2>1. PICK in : /\ Serves({r}, in)
                  /\ creating' = (creating \ {r}) \cup Elements(in)
                  /\ \A i \in DOMAIN in : i \in DOMAIN waiting /\ in[i] = waiting[i]
                  /\ waiting' # <<>> =>
                        draining \/ Len(in) = Free(active, creating \ {r}, failed')
    BY <1>8, SettlementServes
  <2>2. active' = active /\ draining' = draining
    BY <1>8 DEF SettlementHandled, Await
  <2>3. active \in SUBSET Requests /\ creating \ {r} \in SUBSET creating
        /\ failed' \in SUBSET Requests
    BY StepBounded DEF Bounded
  <2> QED BY <1>7, <2>1, <2>2, <2>3
<1>9. ASSUME NEW r \in Requests, Released(r) PROVE NoIdleSlot'
  <2>1. PICK in : /\ Serves({}, in)
                  /\ creating' = creating \cup Elements(in)
                  /\ \A i \in DOMAIN in : i \in DOMAIN waiting /\ in[i] = waiting[i]
                  /\ waiting' # <<>> =>
                        draining \/ Len(in) = Free(active \ {r}, creating, failed)
    BY <1>9, ReleaseServes
  <2>2. active' = active \ {r} /\ failed' = failed /\ draining' = draining
    BY <1>9 DEF Released, Await
  <2>3. active \ {r} \in SUBSET Requests /\ creating \in SUBSET creating
        /\ failed \in SUBSET Requests
    BY DEF Bounded
  <2> QED BY <1>7, <2>1, <2>2, <2>3
<1>10. ASSUME NEW r \in Requests, RetryEnds(r) PROVE NoIdleSlot'
  <2>1. draining /\ waiting' = waiting
    BY <1>10 DEF RetryEnds, PlacesOK
  <2> QED BY <2>1
<1> QED BY StillSteps, <1>1, <1>2, <1>3, <1>4, <1>5, <1>6, <1>8, <1>9, <1>10
        DEF Next, Environment, Step, ReleaseEnds

\* A step that takes no lease into, through or out of the startup lock keeps
\* its order.
LEMMA LockKept ==
    ASSUME Types, LockOK, chain' = chain,
           \A q \in Requests : /\ cancelled[q] => cancelled'[q]
                               /\ \/ stage'[q] = stage[q]
                                  \/ stage[q] \notin InStartup /\ stage'[q] \notin InStartup
    PROVE  LockOK'
<1> SUFFICES ASSUME NEW i \in DOMAIN chain, NEW j \in DOMAIN chain, i < j,
                    stage'[chain[i]] \in InStartup, stage'[chain[j]] # "lock"
             PROVE  \E k \in (i + 1)..j :
                        cancelled'[chain[k]] /\ (stage'[chain[j]] = "delay" => k < j)
  BY DEF LockOK, Passed
<1>1. \A k \in (i + 1)..j : k \in DOMAIN chain
  BY DEF Types
<1>2. \A k \in DOMAIN chain : chain[k] \in Requests
  BY DEF Types
<1>3. /\ stage[chain[i]] \in InStartup /\ stage[chain[j]] # "lock"
      /\ stage'[chain[j]] = "delay" => stage[chain[j]] = "delay"
  BY <1>2 DEF InStartup
<1>4. PICK k \in (i + 1)..j : cancelled[chain[k]] /\ (stage[chain[j]] = "delay" => k < j)
  BY <1>3 DEF LockOK, Passed
<1> QED BY <1>1, <1>2, <1>3, <1>4

\* Those that start queue up at the end.
LEMMA ServesLock ==
    ASSUME Bounded, Types, QueueOK, LockOK, NEW out, NEW in, Serves(out, in),
           cancelled' = cancelled
    PROVE  LockOK'
<1> DEFINE m == Len(chain)
           n == Len(in)
<1>1. /\ m \in Nat /\ n \in Nat /\ DOMAIN chain = 1..m /\ chain' = chain \o in
      /\ in \in Seq(Requests) /\ chain \in Seq(Requests)
  BY DEF Serves, Types
<1>2. /\ DOMAIN chain' = 1..(m + n)
      /\ \A i \in 1..m : chain'[i] = chain[i]
      /\ \A i \in (m + 1)..(m + n) : i - m \in 1..n /\ chain'[i] = in[i - m]
  <2>1. m = Len(chain) /\ n = Len(in)
    OBVIOUS
  <2> HIDE DEF m, n
  <2> QED BY <1>1, <2>1, Joined
<1>3. \A i \in (m + 1)..(m + n) : stage'[chain'[i]] = "lock"
  <2>1. \A i \in (m + 1)..(m + n) : chain'[i] \in Elements(in) /\ chain'[i] \in Requests
    BY <1>1, <1>2 DEF Elements
  <2> QED BY <2>1 DEF Serves
<1>4. \A i \in 1..m : /\ stage'[chain[i]] = "lock" <=> stage[chain[i]] = "lock"
                      /\ stage'[chain[i]] = "delay" <=> stage[chain[i]] = "delay"
  <2>1. \A i \in 1..m : chain[i] \in Started /\ chain[i] \in Requests
    BY <1>1 DEF Started, Elements
  <2>2. \A i \in 1..m : chain[i] \notin Elements(in)
    BY <2>1 DEF Serves, QueueOK
  <2> QED BY <2>1, <2>2 DEF Serves
<1> SUFFICES ASSUME NEW i \in 1..(m + n), NEW j \in 1..(m + n), i < j,
                    stage'[chain'[i]] \in InStartup, stage'[chain'[j]] # "lock"
             PROVE  \E k \in (i + 1)..j :
                        cancelled[chain'[k]] /\ (stage'[chain'[j]] = "delay" => k < j)
  BY <1>2 DEF LockOK, Passed
<1>5. i \in 1..m /\ j \in 1..m
  BY <1>1, <1>3
<1>6. /\ stage[chain[i]] \in InStartup /\ stage[chain[j]] # "lock"
      /\ stage'[chain'[j]] = "delay" => stage[chain[j]] = "delay"
  BY <1>2, <1>4, <1>5 DEF InStartup
<1>7. PICK k \in (i + 1)..j : cancelled[chain[k]] /\ (stage[chain[j]] = "delay" => k < j)
  BY <1>1, <1>5, <1>6 DEF LockOK, Passed
<1>8. k \in 1..m
  BY <1>1, <1>5
<1> QED BY <1>2, <1>6, <1>7, <1>8

\* A lease enters its delay when the one before it has left the lock.
LEMMA EnterDelayLock ==
    ASSUME Bounded, Types, QueueOK, LockOK, NEW r \in Requests, EnterDelay(r)
    PROVE  LockOK'
<1>1. /\ stage[r] = "lock" /\ LockHandedOn(r) /\ UNCHANGED <<chain, cancelled>>
      /\ \A q \in Requests : stage'[q] = IF q = r THEN "delay" ELSE stage[q]
  BY DEF EnterDelay, Goto, Bounded
<1> DEFINE n == Len(chain)
<1>2. n \in Nat /\ DOMAIN chain = 1..n /\ \A k \in 1..n : chain[k] \in Requests
  BY DEF Types
<1> HIDE DEF n
<1>3. PICK p \in 1..n : chain[p] = r
  BY <1>1, <1>2 DEF QueueOK, Started, Elements
<1>4. \A k \in 1..n : chain[k] = r => k = p
  BY <1>2, <1>3 DEF QueueOK, Distinct
<1>5. p # 1 => stage[chain[p - 1]] \notin InStartup
  <2>1. p = CHOOSE k \in DOMAIN chain : chain[k] = r
    BY <1>2, <1>3, <1>4
  <2>2. p # 1 => Predecessor(r) = chain[p - 1]
    BY <2>1 DEF Predecessor
  <2>3. p # 1 => chain[p - 1] \in Requests
    BY <1>2, <1>3
  <2> QED BY <1>1, <2>2, <2>3, PoolAssumption DEF LockHandedOn
<1> SUFFICES ASSUME NEW i \in 1..n, NEW j \in 1..n, i < j,
                    stage'[chain[i]] \in InStartup, stage'[chain[j]] # "lock"
             PROVE  \E k \in (i + 1)..j :
                        cancelled[chain[k]] /\ (stage'[chain[j]] = "delay" => k < j)
  BY <1>1, <1>2 DEF LockOK, Passed
<1>6. stage[chain[i]] \in InStartup
  BY <1>1, <1>2 DEF InStartup
<1>7. CASE chain[j] = r
  <2>1. j = p /\ p - 1 \in 1..n /\ p # 1
    BY <1>2, <1>3, <1>4, <1>7
  <2>2. i < p - 1 /\ stage[chain[p - 1]] # "lock"
    BY <1>2, <1>3, <1>5, <1>6, <2>1 DEF InStartup
  <2>3. PICK k \in (i + 1)..(p - 1) : cancelled[chain[k]]
    BY <1>2, <1>6, <2>1, <2>2 DEF LockOK, Passed
  <2>4. k \in (i + 1)..j /\ k < j
    BY <1>2, <2>1, <2>3
  <2> QED BY <2>3, <2>4
<1>8. CASE chain[j] # r
  <2>1. stage'[chain[j]] = stage[chain[j]]
    BY <1>1, <1>2, <1>8
  <2> QED BY <1>2, <1>6, <2>1 DEF LockOK, Passed
<1> QED BY <1>7, <1>8

\* A lease leaves the lock after its delay, or because it was cancelled.
LEMMA LeaveStartupLock ==
    ASSUME Bounded, Types, LockOK, NEW r \in Requests,
           stage[r] \in InStartup, stage[r] = "delay" \/ cancelled[r],
           UNCHANGED <<chain, cancelled>>,
           NEW s, s \notin InStartup, stage' = [stage EXCEPT ![r] = s]
    PROVE  LockOK'
<1>1. \A q \in Requests : stage'[q] = IF q = r THEN s ELSE stage[q]
  BY DEF Bounded
<1> DEFINE n == Len(chain)
<1>2. n \in Nat /\ DOMAIN chain = 1..n /\ \A k \in 1..n : chain[k] \in Requests
  BY DEF Types
<1> HIDE DEF n
<1> SUFFICES ASSUME NEW i \in 1..n, NEW j \in 1..n, i < j,
                    stage'[chain[i]] \in InStartup, stage'[chain[j]] # "lock"
             PROVE  \E k \in (i + 1)..j :
                        cancelled[chain[k]] /\ (stage'[chain[j]] = "delay" => k < j)
  BY <1>2 DEF LockOK, Passed
<1>3. stage[chain[i]] \in InStartup
  BY <1>1, <1>2
<1>4. CASE stage[chain[j]] # "lock"
  <2>1. PICK k \in (i + 1)..j : cancelled[chain[k]] /\ (stage[chain[j]] = "delay" => k < j)
    BY <1>2, <1>3, <1>4 DEF LockOK, Passed
  <2>2. stage'[chain[j]] = "delay" => stage[chain[j]] = "delay"
    BY <1>1, <1>2 DEF InStartup
  <2> QED BY <2>1, <2>2
<1>5. CASE stage[chain[j]] = "lock"
  <2>1. chain[j] = r /\ cancelled[r]
    BY <1>1, <1>2, <1>5
  <2>2. stage'[chain[j]] # "delay"
    BY <1>1, <2>1 DEF InStartup
  <2>3. j \in (i + 1)..j
    BY <1>2
  <2> QED BY <2>1, <2>2, <2>3
<1> QED BY <1>4, <1>5

\* Every step keeps the order of the startup lock.
LEMMA LockStep ==
    ASSUME Bounded, Types, QueueOK, NoIdleSlot, PlacesOK, LockOK, [Next]_vars
    PROVE  LockOK'
<1>1. CASE Still \/ DrainEnds
           \/ \E r \in Requests : Release(r) \/ ReleaseFails(r)
                                  \/ \E k \in Kinds : DaemonCreates(r, k)
  <2>1. UNCHANGED <<stage, chain, cancelled>>
    BY <1>1, AsideSteps DEF Aside
  <2> QED BY <2>1, LockKept
<1>2. CASE \E r \in Requests : CallerAborts(r)
  <2>1. UNCHANGED <<stage, chain>> /\ \A q \in Requests : cancelled[q] => cancelled'[q]
    BY <1>2 DEF CallerAborts, Types
  <2> QED BY <2>1, LockKept
<1>3. CASE \E r \in Requests : LeaveQueue(r)
  <2>1. UNCHANGED <<stage, chain, cancelled>>
    BY <1>3 DEF LeaveQueue, leases
  <2> QED BY <2>1, LockKept
<1>4. CASE Drain
  <2>1. /\ chain' = chain
        /\ \A q \in Requests : /\ stage'[q] = IF q \in failed THEN "retry" ELSE stage[q]
                               /\ cancelled[q] => cancelled'[q]
    BY <1>4 DEF Drain, Snapshot
  <2>2. \A q \in failed : stage[q] \notin InStartup
    BY DEF PlacesOK, InStartup
  <2> QED BY <2>1, <2>2, LockKept DEF InStartup
<1>5. ASSUME NEW r \in Requests, Acquire(r) PROVE LockOK'
  <2>1. cancelled' = cancelled
    BY <1>5 DEF Acquire
  <2>2. CASE \E in : Serves({}, in)
    BY <2>1, <2>2, ServesLock
  <2>3. CASE UNCHANGED <<stage, chain>>
    BY <2>1, <2>3, LockKept
  <2> QED BY <1>5, <2>2, <2>3, AcquireServes
<1>6. ASSUME NEW r \in Requests, SettlementHandled(r) \/ Released(r) PROVE LockOK'
  <2>1. cancelled' = cancelled
    BY <1>6 DEF SettlementHandled, Released
  <2> QED BY <1>6, <2>1, SettlementServes, ReleaseServes, ServesLock
<1>7. ASSUME NEW r \in Requests, RetryEnds(r) PROVE LockOK'
  <2>1. /\ stage[r] = "retry" /\ UNCHANGED <<chain, cancelled>>
        /\ \A q \in Requests : stage'[q] = IF q = r THEN "over" ELSE stage[q]
    BY <1>7 DEF RetryEnds, Goto, Bounded
  <2> QED BY <2>1, LockKept DEF InStartup
<1>8. ASSUME NEW r \in Requests, LeaseStep(r) PROVE LockOK'
  <2>1. CASE EnterDelay(r)
    BY <2>1, EnterDelayLock
  <2>2. CASE DelayEnds(r) \/ StartupCancelled(r)
    <3>1. /\ stage[r] \in InStartup /\ (stage[r] = "delay" \/ cancelled[r])
          /\ UNCHANGED <<chain, cancelled>>
      BY <2>2 DEF DelayEnds, StartupCancelled, InStartup
    <3>2. \E s : s \notin InStartup /\ stage' = [stage EXCEPT ![r] = s]
      BY <2>2 DEF DelayEnds, StartupCancelled, Ask, Goto, InStartup
    <3> QED BY <3>1, <3>2, LeaveStartupLock
  <2>3. CASE StartFails(r) \/ Publish(r) \/ CleanupEnds(r)
             \/ \E k \in Kinds : Created(r, k) \/ CreateFails(r, k)
    <3>1. PICK s \in (Working \cup {"settled"}) \ {"lock"} : Moves(r, s)
      BY <2>3, LeaseMove DEF LeaseStep
    <3>2. stage[r] \notin InStartup /\ s # "delay"
      BY <2>3, <3>1 DEF StartFails, Publish, CleanupEnds, Created, CreateFails, Goto, Ask,
                        Moves, Bounded, Kinds, InStartup
    <3>3. \A q \in Requests : stage'[q] = IF q = r THEN s ELSE stage[q]
      BY <3>1 DEF Moves, Bounded
    <3>4. s \notin InStartup /\ UNCHANGED <<chain, cancelled>>
      BY <3>1, <3>2 DEF Moves, InStartup
    <3> QED BY <3>2, <3>3, <3>4, LockKept
  <2> QED BY <1>8, <2>1, <2>2, <2>3 DEF LeaseStep
<1> QED BY StillSteps, <1>1, <1>2, <1>3, <1>4, <1>5, <1>6, <1>7, <1>8
        DEF Next, Environment, Step, ReleaseEnds

-----------------------------------------------------------------------------
(* What exists at the daemon *)

\* A clean pass leaves nothing that no query denied; whatever the pass, the
\* lease asked for what there is, and owns only what there is.
LEMMA CleanupKnows ==
    ASSUME Types, DockerOK, NEW r \in Requests, NEW clean \in BOOLEAN, Cleanup(r, clean)
    PROVE  /\ docker' \in [Requests -> [Kinds -> {"absent", "present", "late"}]]
           /\ owned' \in [Requests -> SUBSET Kinds]
           /\ unseen \subseteq unseen'
           /\ clean => Accounted(r)'
           /\ \A k \in Kinds : /\ docker'[r][k] # "absent" => k \in asked[r]
                               /\ k \in owned'[r] => docker'[r][k] = "present"
           /\ \A q \in Requests \ {r} : docker'[q] = docker[q] /\ owned'[q] = owned[q]
<1>0. PICK c \in CleanupOf(r, "container") :
        \E v \in IF c.error /\ ~c.own /\ "volume" \notin owned[r]
                 THEN {Untouched(r, "volume")} ELSE CleanupOf(r, "volume") :
          LET result == [k \in Kinds |-> IF k = "volume" THEN v ELSE c] IN
          /\ clean = (~c.error /\ ~v.error)
          /\ docker' = [docker EXCEPT ![r] = [k \in Kinds |-> result[k].left]]
          /\ owned' = [owned EXCEPT ![r] = {k \in Kinds : result[k].own}]
          /\ unseen' = IF clean
                       THEN unseen \cup {k \in {r} \X Kinds :
                                             result[k[2]].denied /\ docker[r][k[2]] # "absent"}
                       ELSE unseen
  BY DEF Cleanup
<1>1. PICK v \in IF c.error /\ ~c.own /\ "volume" \notin owned[r]
                 THEN {Untouched(r, "volume")} ELSE CleanupOf(r, "volume") :
          LET result == [k \in Kinds |-> IF k = "volume" THEN v ELSE c] IN
          /\ clean = (~c.error /\ ~v.error)
          /\ docker' = [docker EXCEPT ![r] = [k \in Kinds |-> result[k].left]]
          /\ owned' = [owned EXCEPT ![r] = {k \in Kinds : result[k].own}]
          /\ unseen' = IF clean
                       THEN unseen \cup {k \in {r} \X Kinds :
                                             result[k[2]].denied /\ docker[r][k[2]] # "absent"}
                       ELSE unseen
  BY <1>0
<1> DEFINE result == [k \in Kinds |-> IF k = "volume" THEN v ELSE c]
\* What holds of either outcome.
<1>2. ASSUME NEW k \in Kinds, NEW o,
             o \in CleanupOf(r, k) \/ (o = Untouched(r, k) /\ c.error)
      PROVE  /\ o.left \in {"absent", "present", "late"}
             /\ o.own \in BOOLEAN /\ o.error \in BOOLEAN /\ o.denied \in BOOLEAN
             /\ o.left # "absent" => k \in asked[r]
             /\ o.own => o.left = "present"
             /\ ~o.error /\ ~c.error => o.left = "absent" \/ (o.denied /\ o.left = docker[r][k])
  <2>1. /\ docker[r][k] \in {"absent", "present", "late"}
        /\ docker[r][k] # "absent" => k \in asked[r]
        /\ k \in owned[r] => docker[r][k] = "present"
    <3>1. docker[r] \in [Kinds -> {"absent", "present", "late"}]
      BY DEF Types
    <3>2. Resources(r)
      BY DEF DockerOK
    <3> QED BY <3>1, <3>2 DEF Resources
  <2>2. CASE o \in CleanupOf(r, k)
    <3>1. \/ o = Removed
          \/ o = NotRemoved /\ docker[r][k] = "present"
          \/ o = Untouched(r, k) /\ k \notin asked[r]
          \/ o = NotFound(r, k) \/ o = NotQueried(r, k)
      BY <2>1, <2>2 DEF CleanupOf, Removals
    <3>2. CASE o = Removed
      BY <3>2 DEF Removed
    <3>6. CASE o = NotRemoved /\ docker[r][k] = "present"
      BY <2>1, <3>6 DEF NotRemoved
    <3>3. CASE o = Untouched(r, k) /\ k \notin asked[r]
      BY <2>1, <3>3 DEF Untouched
    <3>4. CASE o = NotFound(r, k)
      <4>1. o = [left |-> docker[r][k], own |-> FALSE, error |-> FALSE, denied |-> TRUE]
        BY <3>4 DEF NotFound, Untouched
      <4> QED BY <2>1, <4>1
    <3>5. CASE o = NotQueried(r, k)
      <4>1. o = [left |-> docker[r][k], own |-> FALSE, error |-> TRUE, denied |-> FALSE]
        BY <3>5 DEF NotQueried, Untouched
      <4> QED BY <2>1, <4>1
    <3> QED BY <3>1, <3>2, <3>3, <3>4, <3>5, <3>6
  <2>3. CASE o = Untouched(r, k) /\ c.error
    BY <2>1, <2>3 DEF Untouched
  <2> QED BY <1>2, <2>2, <2>3
<1>3. ASSUME NEW k \in Kinds
      PROVE  /\ result[k].left \in {"absent", "present", "late"}
             /\ result[k].own \in BOOLEAN
             /\ result[k].left # "absent" => k \in asked[r]
             /\ result[k].own => result[k].left = "present"
             /\ ~c.error /\ ~v.error =>
                  result[k].left = "absent"
                  \/ (result[k].denied /\ result[k].left = docker[r][k])
  <2>1. CASE k = "volume"
    <3>1. v \in CleanupOf(r, k) \/ (v = Untouched(r, k) /\ c.error)
      BY <1>1, <2>1
    <3>2. result[k] = v
      BY <2>1
    <3> HIDE DEF result
    <3> QED BY <1>2, <3>1, <3>2
  <2>2. CASE k # "volume"
    <3>1. c \in CleanupOf(r, k)
      BY <1>1, <2>2 DEF Kinds
    <3>2. result[k] = c
      BY <2>2
    <3>3. c.error \in BOOLEAN
      BY <1>2, <3>1
    <3> HIDE DEF result
    <3> QED BY <1>2, <3>1, <3>2
  <2> QED BY <2>1, <2>2
<1>4. /\ clean = (~c.error /\ ~v.error)
      /\ docker' = [docker EXCEPT ![r] = [k \in Kinds |-> result[k].left]]
      /\ owned' = [owned EXCEPT ![r] = {k \in Kinds : result[k].own}]
      /\ unseen' = IF clean
                   THEN unseen \cup {k \in {r} \X Kinds :
                                         result[k[2]].denied /\ docker[r][k[2]] # "absent"}
                   ELSE unseen
  BY <1>1
<1> HIDE DEF result
<1>5. /\ docker'[r] = [k \in Kinds |-> result[k].left]
      /\ owned'[r] = {k \in Kinds : result[k].own}
      /\ \A q \in Requests \ {r} : docker'[q] = docker[q] /\ owned'[q] = owned[q]
  BY <1>4 DEF Types
<1>6. [k \in Kinds |-> result[k].left] \in [Kinds -> {"absent", "present", "late"}]
  BY <1>3
<1>7. /\ docker' \in [Requests -> [Kinds -> {"absent", "present", "late"}]]
      /\ owned' \in [Requests -> SUBSET Kinds]
  BY <1>4, <1>6 DEF Types
<1>8. ASSUME clean, NEW k \in Kinds, docker'[r][k] # "absent" PROVE <<r, k>> \in unseen'
  <2>1. result[k].denied /\ docker[r][k] # "absent"
    <3>1. ~c.error /\ ~v.error
      BY <1>4, <1>8
    <3>2. docker'[r][k] = result[k].left
      BY <1>5
    <3>3. result[k].denied /\ result[k].left = docker[r][k]
      BY <1>3, <1>8, <3>1, <3>2
    <3> QED BY <1>8, <3>2, <3>3
  <2> DEFINE p == <<r, k>>
  <2>2. p \in {r} \X Kinds
    OBVIOUS
  <2>3. p[2] = k
    OBVIOUS
  <2>4. result[p[2]].denied /\ docker[r][p[2]] # "absent"
    BY <2>1, <2>3
  <2> HIDE DEF p
  <2> DEFINE found == {x \in {r} \X Kinds : result[x[2]].denied /\ docker[r][x[2]] # "absent"}
  <2>5. p \in found
    BY <2>2, <2>4
  <2>6. unseen' = unseen \cup found
    BY <1>4, <1>8
  <2> HIDE DEF found
  <2>7. p \in unseen'
    BY <2>5, <2>6
  <2> QED BY <2>7 DEF p
<1> QED BY <1>3, <1>4, <1>5, <1>7, <1>8 DEF Accounted

\* What one request keeps, if the step leaves its resources alone and its
\* place and stage, or starts its creation.
LEMMA ResourcesKept ==
    ASSUME DockerOK, NEW q \in Requests,
           docker'[q] = docker[q], owned'[q] = owned[q], asked'[q] = asked[q],
           settlement'[q] = settlement[q], unseen \subseteq unseen',
           \/ /\ stage'[q] = stage[q]
              /\ q \in creating => q \in creating'
              /\ q \in failed => q \in failed'
              /\ q \in active => q \in active'
           \/ stage[q] = "none" /\ stage'[q] = "lock" /\ q \in creating'
           \/ stage'[q] = "retry" /\ q \in failed'
    PROVE  Resources(q)'
<1>1. Accounted(q) => Accounted(q)'
  BY DEF Accounted
<1>2. /\ {"lock", "retry"} \cap Kinds = {} /\ "lock" \in Working
      /\ "retry" \notin InStartup \cup {"none", "volume", "container"}
      /\ "lock" # "container"
  BY DEF Kinds, Working, InStartup
<1> QED BY <1>1, <1>2 DEF DockerOK, Resources

\* A lease at work knows what it may have made, and leaves it to somebody.
LEMMA LeaseResources ==
    ASSUME Bounded, Types, PlacesOK, DockerOK, NEW r \in Requests, LeaseStep(r)
    PROVE  DockerOK'
<1>1. PICK s \in (Working \cup {"settled"}) \ {"lock"} : Moves(r, s)
  BY LeaseMove
<1>2. /\ stage[r] \in Working /\ r \in creating /\ creating' = creating
      /\ failed' = failed /\ active \subseteq active'
      /\ \A q \in Requests : stage'[q] = IF q = r THEN s ELSE stage[q]
      /\ \A q \in Requests \ {r} : settlement'[q] = settlement[q]
  BY <1>1, LeaseMove DEF Moves, Bounded, Types
<1>3. ASSUME UNCHANGED <<docker, owned, unseen>>, s \in Working \/ active' = active \cup {r},
             asked' = asked \/ asked' = [asked EXCEPT ![r] = @ \cup {s}],
             s \in InStartup \cup {"volume"} => stage[r] \in InStartup,
             s # "container"
      PROVE  DockerOK'
  <2>1. \A q \in Requests : asked[q] \subseteq asked'[q] /\ (q # r => asked'[q] = asked[q])
    BY <1>3 DEF Types
  <2>2. s \in Kinds => s \in asked'[r]
    BY <1>1 DEF Moves, Types
  <2>3. \A q \in Requests : Accounted(q) => Accounted(q)'
    BY <1>3 DEF Accounted
  <2>4. s \in InStartup \cup {"none", "volume"} => owned[r] = {}
    BY <1>3 DEF DockerOK, Resources, Working, InStartup, Kinds
  <2>5. ASSUME NEW q \in Requests
        PROVE  /\ stage'[q] \in Kinds => stage'[q] \in asked'[q]
               /\ stage'[q] \in InStartup \cup {"none", "volume"} => owned'[q] = {}
               /\ stage'[q] = "container" => "container" \notin owned'[q]
    BY <1>2, <1>3, <2>1, <2>2, <2>4 DEF DockerOK, Resources
  <2>6. ASSUME NEW q \in Requests, NEW k \in Kinds
        PROVE  /\ docker'[q][k] # "absent" => k \in asked'[q]
               /\ k \in owned'[q] => docker'[q][k] = "present"
    BY <1>3, <2>1 DEF DockerOK, Resources
  <2>7. ASSUME NEW q \in Requests
        PROVE  \/ Accounted(q)'
               \/ q \in failed' \cup active'
               \/ q \in creating' /\ (stage'[q] \in Working \/ settlement'[q] = "dirty")
    <3>1. CASE q = r
      BY <1>2, <1>3, <3>1
    <3>2. CASE q # r
      BY <1>2, <2>3, <3>2 DEF DockerOK, Resources
    <3> QED BY <3>1, <3>2
  <2> QED BY <2>5, <2>6, <2>7 DEF DockerOK, Resources
<1>4. ASSUME NEW k \in Kinds, Created(r, k) \/ CreateFails(r, k) PROVE DockerOK'
  <2>1. PICK left \in {"absent", "present", "late"} :
            /\ docker' = [docker EXCEPT ![r][k] = left]
            /\ owned' = owned \/ (owned' = [owned EXCEPT ![r] = @ \cup {k}] /\ left = "present")
    <3>1. CASE Created(r, k)
      BY <3>1 DEF Created
    <3>2. CASE CreateFails(r, k)
      BY <3>2 DEF CreateFails
    <3> QED BY <1>4, <3>1, <3>2
  <2>2. /\ stage[r] = k /\ unseen' = unseen
        /\ s \in {"cleanup", "start", "container"} /\ (s = "container" => k = "volume")
        /\ asked' = asked \/ asked' = [asked EXCEPT ![r] = @ \cup {s}]
    <3>1. CASE Created(r, k)
      BY <1>2, <3>1 DEF Created, Goto, Ask, Bounded, Kinds
    <3>2. CASE CreateFails(r, k)
      BY <1>2, <3>2 DEF CreateFails, Goto, Bounded
    <3> QED BY <1>4, <3>1, <3>2
  <2>3. \A q \in Requests : asked[q] \subseteq asked'[q] /\ (q # r => asked'[q] = asked[q])
    BY <2>2 DEF Types
  <2>4. s \in Kinds => s \in asked'[r]
    BY <1>1 DEF Moves, Types
  <2>5. k \in asked[r] /\ k \notin owned[r] /\ (k = "volume" => owned[r] = {})
    BY <2>2 DEF DockerOK, Resources, Kinds
  <2>6. \A j \in Kinds : /\ docker'[r][j] = IF j = k THEN left ELSE docker[r][j]
                         /\ j \in owned'[r] => j \in owned[r] \/ (j = k /\ left = "present")
    BY <2>1 DEF Types
  <2>7. \A q \in Requests \ {r} : docker'[q] = docker[q] /\ owned'[q] = owned[q]
    BY <2>1 DEF Types
  <2>8. \A q \in Requests \ {r} : Accounted(q) => Accounted(q)'
    BY <2>2, <2>7 DEF Accounted
  <2>9. ASSUME NEW q \in Requests
        PROVE  /\ stage'[q] \in Kinds => stage'[q] \in asked'[q]
               /\ stage'[q] \in InStartup \cup {"none", "volume"} => owned'[q] = {}
               /\ stage'[q] = "container" => "container" \notin owned'[q]
    <3>1. CASE q = r
      BY <1>2, <2>2, <2>4, <2>5, <2>6, <3>1 DEF Kinds, InStartup
    <3>2. CASE q # r
      BY <1>2, <2>3, <2>7, <3>2 DEF DockerOK, Resources
    <3> QED BY <3>1, <3>2
  <2>10. ASSUME NEW q \in Requests, NEW j \in Kinds
         PROVE  /\ docker'[q][j] # "absent" => j \in asked'[q]
                /\ j \in owned'[q] => docker'[q][j] = "present"
    <3>1. CASE q = r
      BY <2>3, <2>5, <2>6, <3>1 DEF DockerOK, Resources
    <3>2. CASE q # r
      BY <2>3, <2>7, <3>2 DEF DockerOK, Resources
    <3> QED BY <3>1, <3>2
  <2>11. ASSUME NEW q \in Requests
         PROVE  \/ Accounted(q)'
                \/ q \in failed' \cup active'
                \/ q \in creating' /\ (stage'[q] \in Working \/ settlement'[q] = "dirty")
    <3>1. CASE q = r
      <4>1. s \in Working
        BY <2>2 DEF Working, Kinds
      <4> QED BY <1>2, <3>1, <4>1
    <3>2. CASE q # r
      BY <1>2, <2>8, <3>2 DEF DockerOK, Resources
    <3> QED BY <3>1, <3>2
  <2> QED BY <2>9, <2>10, <2>11 DEF DockerOK, Resources
<1>5. CASE CleanupEnds(r)
  <2>1. PICK clean \in BOOLEAN :
            /\ Cleanup(r, clean)
            /\ settlement' = [settlement EXCEPT ![r] = IF clean THEN "clean" ELSE "dirty"]
    BY <1>5 DEF CleanupEnds
  <2>2. asked' = asked /\ s = "settled"
    BY <1>2, <1>5 DEF CleanupEnds, Goto, Bounded
  <2>3. /\ unseen \subseteq unseen' /\ (clean => Accounted(r)')
        /\ \A k \in Kinds : /\ docker'[r][k] # "absent" => k \in asked[r]
                            /\ k \in owned'[r] => docker'[r][k] = "present"
        /\ \A q \in Requests \ {r} : docker'[q] = docker[q] /\ owned'[q] = owned[q]
    BY <2>1, CleanupKnows
  <2>4. ASSUME NEW q \in Requests \ {r}
        PROVE  Resources(q)'
    BY <1>2, <2>2, <2>3, ResourcesKept
  <2>5. stage'[r] = "settled"
    BY <1>2, <2>2
  <2>6. \/ Accounted(r)'
        \/ r \in creating' /\ settlement'[r] = "dirty"
    BY <1>2, <2>1, <2>3 DEF Types
  <2>7. "settled" \notin Kinds \cup InStartup \cup {"none", "volume", "container"}
    BY DEF Kinds, InStartup
  <2> QED BY <2>2, <2>3, <2>4, <2>5, <2>6, <2>7 DEF DockerOK, Resources
<1>6. CASE EnterDelay(r) \/ DelayEnds(r) \/ StartupCancelled(r) \/ StartFails(r) \/ Publish(r)
  <2>1. UNCHANGED <<docker, owned, unseen>>
    BY <1>6 DEF EnterDelay, DelayEnds, StartupCancelled, StartFails, Publish, Ask
  <2>2. CASE EnterDelay(r)
    BY <1>2, <1>3, <2>1, <2>2 DEF EnterDelay, Goto, Bounded, Working, InStartup
  <2>3. CASE DelayEnds(r)
    BY <1>2, <1>3, <2>1, <2>3 DEF DelayEnds, Ask, Goto, Bounded, Working, InStartup, Kinds
  <2>4. CASE StartupCancelled(r) \/ StartFails(r)
    BY <1>2, <1>3, <2>1, <2>4 DEF StartupCancelled, StartFails, Goto, Bounded, Working, InStartup
  <2>5. CASE Publish(r)
    BY <1>2, <1>3, <2>1, <2>5 DEF Publish, Goto, Bounded, Working, InStartup
  <2> QED BY <1>6, <2>2, <2>3, <2>4, <2>5
<1> QED BY <1>4, <1>5, <1>6 DEF LeaseStep

\* Every step keeps the account of what exists at the daemon.
LEMMA DockerStep ==
    ASSUME Bounded, Types, QueueOK, NoIdleSlot, PlacesOK, DockerOK, [Next]_vars
    PROVE  DockerOK'
<1>1. CASE Still \/ DrainEnds \/ Drain
           \/ \E r \in Requests : Release(r) \/ LeaveQueue(r) \/ CallerAborts(r)
  <2>1. /\ UNCHANGED <<maps, docker, owned, asked, settlement, unseen>>
        /\ \A q \in Requests : stage'[q] = stage[q] \/ (stage'[q] = "retry" /\ q \in failed)
    BY <1>1 DEF Still, leases, maps, DrainEnds, Drain, Snapshot, Release, LeaveQueue, CallerAborts
  <2> QED BY <2>1, ResourcesKept DEF DockerOK, Resources, maps
<1>2. ASSUME NEW r \in Requests, NEW k \in Kinds, DaemonCreates(r, k) PROVE DockerOK'
  <2>1. /\ UNCHANGED <<maps, stage, owned, asked, settlement, unseen>>
        /\ docker[r][k] = "late" /\ docker' = [docker EXCEPT ![r][k] = "present"]
    BY <1>2 DEF DaemonCreates
  <2>2. \A q \in Requests : \A j \in Kinds :
            docker'[q][j] = docker[q][j] \/ (docker[q][j] = "late" /\ docker'[q][j] = "present")
    BY <2>1 DEF Types
  <2>3. \A q \in Requests : Accounted(q) => Accounted(q)'
    BY <2>1, <2>2 DEF Accounted
  <2> QED BY <2>1, <2>2, <2>3 DEF DockerOK, Resources, maps
<1>3. ASSUME NEW r \in Requests, ReleaseFails(r) PROVE DockerOK'
  <2>1. PICK removed \in SUBSET Kinds : Teardown(r, removed)
    BY <1>3 DEF ReleaseFails
  <2>2. UNCHANGED <<maps, stage, asked, settlement, unseen>> /\ r \in active
    BY <1>3 DEF ReleaseFails, PlacesOK
  <2>3. \A q \in Requests : \A j \in Kinds :
            /\ docker'[q][j] = IF q = r /\ j \in removed THEN "absent" ELSE docker[q][j]
            /\ j \in owned'[q] <=> j \in owned[q] /\ ~(q = r /\ j \in removed)
    BY <2>1 DEF Teardown, Types
  <2>4. \A q \in Requests : owned'[q] \subseteq owned[q]
    BY <2>1 DEF Teardown, Types
  <2>5. \A q \in Requests : Accounted(q) => Accounted(q)'
    BY <2>2, <2>3 DEF Accounted
  <2> QED BY <2>2, <2>3, <2>4, <2>5 DEF DockerOK, Resources, maps
<1>4. ASSUME NEW r \in Requests, Acquire(r) PROVE DockerOK'
  <2>1. UNCHANGED <<failed, active, docker, owned, asked, settlement, unseen>>
    BY <1>4 DEF Acquire
  <2>2. CASE \E in : Serves({}, in) /\ creating' = creating \cup Elements(in)
    <3>1. \A q \in Requests : \/ stage'[q] = stage[q] /\ (q \in creating => q \in creating')
                              \/ stage[q] = "none" /\ stage'[q] = "lock" /\ q \in creating'
      <4>1. PICK in : Serves({}, in) /\ creating' = creating \cup Elements(in)
        BY <2>2
      <4> QED BY <4>1 DEF Serves
    <3>2. ASSUME NEW q \in Requests PROVE Resources(q)'
      BY <2>1, <3>1, ResourcesKept
    <3> QED BY <3>2 DEF DockerOK
  <2>3. CASE UNCHANGED <<stage, creating>>
    BY <2>1, <2>3, ResourcesKept DEF DockerOK, Resources
  <2> QED BY <1>4, <2>2, <2>3, AcquireServes
<1>5. ASSUME NEW r \in Requests, SettlementHandled(r) PROVE DockerOK'
  <2>1. PICK in : Serves({r}, in) /\ creating' = (creating \ {r}) \cup Elements(in)
    BY <1>5, SettlementServes
  <2>2. /\ UNCHANGED <<active, docker, owned, asked, settlement, unseen>>
        /\ failed' = IF settlement[r] = "dirty" THEN failed \cup {r} ELSE failed
        /\ stage[r] = "settled"
    BY <1>5 DEF SettlementHandled
  <2>3. \A q \in Requests \ {r} :
            \/ stage'[q] = stage[q] /\ (q \in creating => q \in creating')
            \/ stage[q] = "none" /\ stage'[q] = "lock" /\ q \in creating'
    BY <2>1 DEF Serves
  <2>4. \A q \in Requests : q \in failed => q \in failed'
    BY <2>2
  <2>5. stage'[r] = "over"
    BY <2>1, <2>2 DEF Serves
  <2>6. "over" \notin Kinds \cup InStartup \cup {"none", "volume", "container"}
        /\ "settled" \notin Working
    BY DEF Kinds, InStartup, Working
  <2>7. Accounted(r) => Accounted(r)'
    BY <2>2 DEF Accounted
  <2>8. Accounted(r)' \/ r \in failed' \cup active'
    BY <2>2, <2>4, <2>6, <2>7 DEF DockerOK, Resources
  <2>9. \A k \in Kinds : /\ docker'[r][k] # "absent" => k \in asked'[r]
                         /\ k \in owned'[r] => docker'[r][k] = "present"
    BY <2>2 DEF DockerOK, Resources
  <2>10. ASSUME NEW q \in Requests \ {r}
        PROVE  Resources(q)'
    BY <2>2, <2>3, <2>4, ResourcesKept
  <2> QED BY <2>5, <2>6, <2>8, <2>9, <2>10 DEF DockerOK, Resources
<1>6. ASSUME NEW r \in Requests, Released(r) PROVE DockerOK'
  <2>1. PICK in : Serves({}, in) /\ creating' = creating \cup Elements(in)
    BY <1>6, ReleaseServes
  <2>2. /\ UNCHANGED <<failed, asked, settlement, unseen>> /\ Teardown(r, Kinds)
        /\ active' = active \ {r}
    BY <1>6 DEF Released
  <2>3. \A q \in Requests :
            \/ stage'[q] = stage[q] /\ (q \in creating => q \in creating')
            \/ stage[q] = "none" /\ stage'[q] = "lock" /\ q \in creating'
    BY <2>1 DEF Serves
  <2>4. /\ \A k \in Kinds : docker'[r][k] = "absent"
        /\ owned'[r] = {}
        /\ \A q \in Requests \ {r} : docker'[q] = docker[q] /\ owned'[q] = owned[q]
    BY <2>2 DEF Teardown, Types
  <2>5. Accounted(r)'
    BY <2>4 DEF Accounted
  <2>6. stage'[r] \in Kinds => stage'[r] \in asked'[r]
    BY <2>2, <2>3 DEF DockerOK, Resources, Kinds
  <2>7. ASSUME NEW q \in Requests \ {r}
        PROVE  Resources(q)'
    BY <2>2, <2>3, <2>4, ResourcesKept
  <2> QED BY <2>4, <2>5, <2>6, <2>7 DEF DockerOK, Resources
<1>7. ASSUME NEW r \in Requests, RetryEnds(r) PROVE DockerOK'
  <2>1. PICK clean \in BOOLEAN : /\ Cleanup(r, clean)
                                 /\ failed' = IF clean THEN failed \ {r} ELSE failed
    BY <1>7 DEF RetryEnds
  <2>2. /\ UNCHANGED <<creating, active, asked, settlement>> /\ r \in failed
        /\ \A q \in Requests : stage'[q] = IF q = r THEN "over" ELSE stage[q]
    BY <1>7 DEF RetryEnds, Goto, Bounded, PlacesOK
  <2>3. /\ unseen \subseteq unseen' /\ (clean => Accounted(r)')
        /\ \A k \in Kinds : /\ docker'[r][k] # "absent" => k \in asked[r]
                            /\ k \in owned'[r] => docker'[r][k] = "present"
        /\ \A q \in Requests \ {r} : docker'[q] = docker[q] /\ owned'[q] = owned[q]
    BY <2>1, CleanupKnows
  <2>4. "over" \notin Kinds \cup InStartup \cup {"none", "volume", "container"}
    BY DEF Kinds, InStartup
  <2>5. Accounted(r)' \/ r \in failed'
    BY <2>1, <2>2, <2>3
  <2>6. ASSUME NEW q \in Requests \ {r}
        PROVE  Resources(q)'
    BY <2>1, <2>2, <2>3, ResourcesKept
  <2> QED BY <2>2, <2>3, <2>4, <2>5, <2>6 DEF DockerOK, Resources
<1>8. ASSUME NEW r \in Requests, LeaseStep(r) PROVE DockerOK'
  BY <1>8, LeaseResources
<1> QED BY StillSteps, <1>1, <1>2, <1>3, <1>4, <1>5, <1>6, <1>7, <1>8
        DEF Next, Environment, Step, ReleaseEnds

-----------------------------------------------------------------------------
(* The invariant *)

\* Every step keeps the types.
LEMMA TypesStep ==
    ASSUME Bounded, Types, QueueOK, NoIdleSlot, PlacesOK, DockerOK, [Next]_vars
    PROVE  Types'
<1>0. chain' \in Seq(Requests)
  BY QueueStep
<1>1. CASE Still
  BY <1>1 DEF Still, leases, drains, Types
<1>2. CASE Drain \/ DrainEnds
  <2>1. CASE Drain
    BY <2>1 DEF Drain, Snapshot, Types
  <2>2. CASE DrainEnds
    BY <2>2 DEF DrainEnds, leases, Types
  <2> QED BY <1>2, <2>1, <2>2
<1>3. ASSUME NEW r \in Requests, Acquire(r) PROVE Types'
  <2>1. /\ UNCHANGED <<settlement, cancelled, docker, asked, owned, draining, drain>>
        /\ \E x \in {"pending", "rejected"} : answer' = [answer EXCEPT ![r] = x]
    BY <1>3 DEF Acquire, drains
  <2> QED BY <1>0, <2>1 DEF Types
<1>4. ASSUME NEW r \in Requests, LeaveQueue(r) \/ Release(r) \/ CallerAborts(r) PROVE Types'
  <2>1. CASE LeaveQueue(r)
    BY <2>1 DEF LeaveQueue, leases, drains, Types
  <2>2. CASE Release(r)
    BY <2>2 DEF Release, leases, drains, Types
  <2>3. CASE CallerAborts(r)
    BY <2>3 DEF CallerAborts, drains, Types
  <2> QED BY <1>4, <2>1, <2>2, <2>3
<1>5. ASSUME NEW r \in Requests, NEW k \in Kinds, DaemonCreates(r, k) PROVE Types'
  <2>1. /\ UNCHANGED <<answer, settlement, cancelled, asked, owned, draining, drain>>
        /\ docker' = [docker EXCEPT ![r][k] = "present"]
    BY <1>5 DEF DaemonCreates, drains
  <2>2. docker' \in [Requests -> [Kinds -> {"absent", "present", "late"}]]
    BY <2>1 DEF Types
  <2> QED BY <1>0, <2>1, <2>2 DEF Types
<1>6. ASSUME NEW r \in Requests, LeaseStep(r) PROVE Types'
  <2>1. PICK s \in (Working \cup {"settled"}) \ {"lock"} : Moves(r, s)
    BY <1>6, LeaseMove
  <2>2. /\ answer' \in [Requests -> {"none", "pending", "granted", "rejected"}]
        /\ settlement' \in [Requests -> {"none", "published", "clean", "dirty"}]
        /\ UNCHANGED <<cancelled, draining, drain>>
    BY <2>1 DEF Moves, Types, drains
  <2>3. /\ docker' \in [Requests -> [Kinds -> {"absent", "present", "late"}]]
        /\ owned' \in [Requests -> SUBSET Kinds]
        /\ asked' \in [Requests -> SUBSET Kinds]
    <3>1. CASE EnterDelay(r) \/ DelayEnds(r) \/ StartupCancelled(r) \/ StartFails(r) \/ Publish(r)
      <4>1. /\ UNCHANGED <<docker, owned>>
            /\ asked' = asked \/ asked' = [asked EXCEPT ![r] = @ \cup {"volume"}]
        BY <3>1 DEF EnterDelay, DelayEnds, StartupCancelled, StartFails, Publish, Ask
      <4> QED BY <4>1 DEF Types, Kinds
    <3>2. ASSUME NEW k \in Kinds, Created(r, k) \/ CreateFails(r, k)
          PROVE  /\ docker' \in [Requests -> [Kinds -> {"absent", "present", "late"}]]
                 /\ owned' \in [Requests -> SUBSET Kinds]
                 /\ asked' \in [Requests -> SUBSET Kinds]
      <4>1. /\ \E left \in {"absent", "present", "late"} : docker' = [docker EXCEPT ![r][k] = left]
            /\ owned' = owned \/ owned' = [owned EXCEPT ![r] = @ \cup {k}]
            /\ asked' = asked \/ asked' = [asked EXCEPT ![r] = @ \cup {"container"}]
        BY <3>2 DEF Created, CreateFails, Ask
      <4>2. "container" \in Kinds
        BY DEF Kinds
      <4>3. docker' \in [Requests -> [Kinds -> {"absent", "present", "late"}]]
        BY <4>1 DEF Types
      <4>4. owned' \in [Requests -> SUBSET Kinds]
        BY <4>1 DEF Types
      <4>5. asked' \in [Requests -> SUBSET Kinds]
        BY <4>1, <4>2 DEF Types
      <4> QED BY <4>3, <4>4, <4>5
    <3>3. CASE CleanupEnds(r)
      <4>1. (\E clean \in BOOLEAN : Cleanup(r, clean)) /\ asked' = asked
        BY <3>3 DEF CleanupEnds
      <4> QED BY <4>1, CleanupKnows DEF Types
    <3> QED BY <1>6, <3>1, <3>2, <3>3 DEF LeaseStep
  <2> QED BY <1>0, <2>2, <2>3 DEF Types
<1>7. ASSUME NEW r \in Requests, SettlementHandled(r) \/ ReleaseEnds(r) PROVE Types'
  <2>1. /\ UNCHANGED <<answer, settlement, cancelled, asked, draining, drain>>
        /\ UNCHANGED <<docker, owned>> \/ \E removed \in SUBSET Kinds : Teardown(r, removed)
    BY <1>7 DEF SettlementHandled, ReleaseEnds, Released, ReleaseFails, Await
  <2>2. /\ docker' \in [Requests -> [Kinds -> {"absent", "present", "late"}]]
        /\ owned' \in [Requests -> SUBSET Kinds]
    <3>1. CASE UNCHANGED <<docker, owned>>
      BY <3>1 DEF Types
    <3>2. ASSUME NEW removed \in SUBSET Kinds, Teardown(r, removed)
          PROVE  /\ docker' \in [Requests -> [Kinds -> {"absent", "present", "late"}]]
                 /\ owned' \in [Requests -> SUBSET Kinds]
      BY <3>2 DEF Teardown, Types
    <3> QED BY <2>1, <3>1, <3>2
  <2> QED BY <1>0, <2>1, <2>2 DEF Types
<1>8. ASSUME NEW r \in Requests, RetryEnds(r) PROVE Types'
  <2>1. /\ UNCHANGED <<answer, settlement, cancelled, asked, draining, drain>>
        /\ \E clean \in BOOLEAN : Cleanup(r, clean)
    BY <1>8 DEF RetryEnds, Await
  <2>2. /\ docker' \in [Requests -> [Kinds -> {"absent", "present", "late"}]]
        /\ owned' \in [Requests -> SUBSET Kinds]
    BY <2>1, CleanupKnows
  <2> QED BY <1>0, <2>1, <2>2 DEF Types
<1> QED BY StillSteps, <1>1, <1>2, <1>3, <1>4, <1>5, <1>6, <1>7, <1>8 DEF Next, Environment, Step

PoolInv == /\ Bounded /\ Types
           /\ QueueOK /\ AnswersOK /\ PlacesOK /\ DrainOK /\ NoIdleSlot
           /\ LockOK /\ DockerOK

\* The invariant holds at first, is kept by every step, and so always holds.
LEMMA InitInv == Init => PoolInv
<1> SUFFICES ASSUME Init PROVE PoolInv
  OBVIOUS
<1>1. Bounded
  BY InitBounded
<1>2. Types
  <2>1. docker \in [Requests -> [Kinds -> {"absent", "present", "late"}]]
    BY DEF Init
  <2>2. asked \in [Requests -> SUBSET Kinds] /\ owned \in [Requests -> SUBSET Kinds]
    BY DEF Init
  <2>3. /\ answer \in [Requests -> {"none", "pending", "granted", "rejected"}]
        /\ settlement \in [Requests -> {"none", "published", "clean", "dirty"}]
        /\ cancelled \in [Requests -> BOOLEAN]
    BY DEF Init
  <2>4. chain \in Seq(Requests) /\ drain = "none"
    BY DEF Init
  <2>5. draining \in BOOLEAN
    BY DEF Init
  <2> QED BY <2>1, <2>2, <2>3, <2>4, <2>5 DEF Types
<1>3. AnswersOK
  BY DEF Init, AnswersOK, Working, InStartup, Kinds
<1>4. PlacesOK
  BY DEF Init, PlacesOK
<1>5. DrainOK /\ NoIdleSlot
  BY DEF Init, DrainOK, NoIdleSlot
<1>6. QueueOK /\ LockOK
  BY DEF Init, QueueOK, LockOK, Distinct, Waits, Started, Elements
<1>7. DockerOK
  BY DEF Init, DockerOK, Resources, Accounted, Kinds
<1> QED BY <1>1, <1>2, <1>3, <1>4, <1>5, <1>6, <1>7 DEF PoolInv

LEMMA StepInv == PoolInv /\ [Next]_vars => PoolInv'
BY StepBounded, TypesStep, QueueStep, AnswersStep, PlacesStep, DrainKept, NoIdleStep, LockStep,
   DockerStep DEF PoolInv

LEMMA AlwaysInv == Spec => []PoolInv
BY InitInv, StepInv, PTL DEF Spec
-----------------------------------------------------------------------------
(* The promises *)

\* Nobody waits while there is room: whatever frees a slot serves the queue.
THEOREM NobodyIdles == Spec => []NoIdleSlot
<1>1. PoolInv => NoIdleSlot
  BY DEF PoolInv
<1> QED BY <1>1, AlwaysInv, PTL

\* Whatever exists at the daemon belongs to a request the pool still tracks, or
\* a query denied it.
THEOREM NothingOrphaned == Spec => []NoOrphan
<1>1. PoolInv => NoOrphan
  BY DEF PoolInv, NoOrphan, DockerOK, Resources, Accounted, Held
<1> QED BY <1>1, AlwaysInv, PTL

\* A drain that resolved left nothing behind, and nobody without an answer.
THEOREM DrainIsBarrier == Spec => []DrainBarrier
<1>1. PoolInv => DrainBarrier
  <2> SUFFICES ASSUME PoolInv, drain = "resolved"
               PROVE  /\ Emptied /\ waiting = <<>> /\ releasing = {}
                      /\ \A r \in Requests : answer[r] # "pending"
    BY DEF DrainBarrier
  <2>1. Emptied /\ draining /\ waiting = <<>> /\ releasing = {}
    BY DEF PoolInv, DrainOK, NoIdleSlot, PlacesOK, Emptied
  <2>2. \A r \in Requests : ~Waits(r) /\ stage[r] \notin Working
    BY <2>1 DEF PoolInv, Bounded, Emptied, Waits, Elements
  <2> QED BY <2>1, <2>2 DEF PoolInv, AnswersOK
<1> QED BY <1>1, AlwaysInv, PTL

\* Two leases are in their startup delay together only across a cancelled one.
THEOREM StartupsAreSpaced == Spec => []StartupSpacing
<1>1. PoolInv => StartupSpacing
  <2> SUFFICES ASSUME PoolInv, NEW q \in Requests, NEW r \in Requests,
                      stage[q] = "delay", stage[r] = "delay", Before(q, r)
               PROVE  \E c \in Requests : cancelled[c] /\ Before(q, c) /\ Before(c, r)
    BY DEF StartupSpacing
  <2>1. PICK i, j \in DOMAIN chain : i < j /\ chain[i] = q /\ chain[j] = r
    BY DEF Before
  <2>2. DOMAIN chain = 1..Len(chain) /\ Len(chain) \in Nat
        /\ \A k \in DOMAIN chain : chain[k] \in Requests
    BY DEF PoolInv, Types
  <2>3. PICK k \in (i + 1)..j : cancelled[chain[k]] /\ k < j
    BY <2>1 DEF PoolInv, LockOK, Passed, InStartup
  <2>4. k \in DOMAIN chain /\ i < k
    BY <2>1, <2>2, <2>3
  <2>5. Before(q, chain[k]) /\ Before(chain[k], r)
    BY <2>1, <2>3, <2>4 DEF Before
  <2> QED BY <2>2, <2>3, <2>4, <2>5
<1> QED BY <1>1, AlwaysInv, PTL

-----------------------------------------------------------------------------
(* The queue *)

\* Creation starts from the head of the queue.
HeadFirst ==
    \A r \in creating' \ creating :
        waiting # <<>> =>
            \E i \in DOMAIN waiting :
                /\ waiting[i] = r
                /\ \A j \in 1..(i - 1) : waiting[j] \in creating'

\* Answers are final, and nobody is handed a container once the pool drains.
AnswersFinal ==
    \A r \in Requests :
        /\ answer[r] \in {"granted", "rejected"} => answer'[r] = answer[r]
        /\ draining /\ answer'[r] = "granted" => answer[r] = "granted"

\* What starts is a head of the queue.
LEMMA HeadStarts ==
    ASSUME Bounded, NEW in \in Seq(Requests), creating' \subseteq creating \cup Elements(in),
           Elements(in) \subseteq creating',
           \A i \in DOMAIN in : i \in DOMAIN waiting /\ in[i] = waiting[i]
    PROVE  HeadFirst
<1> SUFFICES ASSUME NEW r \in Elements(in)
             PROVE  \E i \in DOMAIN waiting :
                        waiting[i] = r /\ \A j \in 1..(i - 1) : waiting[j] \in creating'
  BY DEF HeadFirst
<1> DEFINE n == Len(in)
<1>1. n \in Nat /\ DOMAIN in = 1..n
  OBVIOUS
<1> HIDE DEF n
<1>2. PICK i \in 1..n : in[i] = r
  BY <1>1 DEF Elements
<1>3. \A j \in 1..(i - 1) : j \in 1..n
  BY <1>1
<1>4. \A j \in 1..n : in[j] \in creating' /\ waiting[j] = in[j]
  BY <1>1 DEF Elements
<1> QED BY <1>1, <1>2, <1>3, <1>4

\* What a step takes from the queue it takes from its head.
LEMMA StartsInOrder == PoolInv /\ [Next]_vars => HeadFirst
<1> SUFFICES ASSUME PoolInv, [Next]_vars PROVE HeadFirst
  OBVIOUS
<1> USE DEF PoolInv
<1>1. CASE creating' \subseteq creating
  BY <1>1 DEF HeadFirst
<1>2. ASSUME NEW r \in Requests, Acquire(r) PROVE HeadFirst
  <2>1. waiting = <<>> \/ creating' = creating
    BY <1>2, AcquireServes
  <2> QED BY <2>1 DEF HeadFirst
<1>3. ASSUME NEW r \in Requests, SettlementHandled(r) PROVE HeadFirst
  <2>1. PICK in : /\ Serves({r}, in)
                  /\ creating' = (creating \ {r}) \cup Elements(in)
                  /\ \A i \in DOMAIN in : i \in DOMAIN waiting /\ in[i] = waiting[i]
    BY <1>3, SettlementServes
  <2>2. in \in Seq(Requests)
    BY <2>1 DEF Serves
  <2> QED BY <2>1, <2>2, HeadStarts
<1>4. ASSUME NEW r \in Requests, Released(r) PROVE HeadFirst
  <2>1. PICK in : /\ Serves({}, in)
                  /\ creating' = creating \cup Elements(in)
                  /\ \A i \in DOMAIN in : i \in DOMAIN waiting /\ in[i] = waiting[i]
    BY <1>4, ReleaseServes
  <2>2. in \in Seq(Requests)
    BY <2>1 DEF Serves
  <2> QED BY <2>1, <2>2, HeadStarts
<1>5. CASE Still \/ Drain \/ DrainEnds
           \/ \E r \in Requests : \/ LeaveQueue(r) \/ CallerAborts(r) \/ Release(r)
                                  \/ \E k \in Kinds : DaemonCreates(r, k)
                                  \/ ReleaseFails(r) \/ RetryEnds(r)
  <2>1. creating' = creating
    BY <1>5 DEF Still, maps, Drain, DrainEnds, LeaveQueue, CallerAborts, Release, DaemonCreates,
                ReleaseFails, RetryEnds
  <2> QED BY <1>1, <2>1
<1>6. CASE \E r \in Requests : LeaseStep(r)
  <2>1. creating' = creating
    BY <1>6, LeaseMove DEF Moves
  <2> QED BY <1>1, <2>1
<1> QED BY StillSteps, <1>2, <1>3, <1>4, <1>5, <1>6 DEF Next, Environment, Step, ReleaseEnds

\* A step changes no answer that was given, and grants none during a drain.
LEMMA AnswersStand == PoolInv /\ [Next]_vars => AnswersFinal
<1> SUFFICES ASSUME PoolInv, [Next]_vars, NEW q \in Requests
             PROVE  /\ answer[q] \in {"granted", "rejected"} => answer'[q] = answer[q]
                    /\ draining /\ answer'[q] = "granted" => answer[q] = "granted"
  BY DEF AnswersFinal
<1> USE DEF PoolInv
<1>1. CASE answer'[q] = answer[q]
  BY <1>1
<1>2. CASE answer[q] \in {"none", "pending"} /\ answer'[q] \in {"pending", "rejected"}
  BY <1>2
<1>3. CASE Still \/ DrainEnds
           \/ \E r \in Requests : \/ CallerAborts(r) \/ Release(r)
                                  \/ \E k \in Kinds : DaemonCreates(r, k)
                                  \/ ReleaseFails(r) \/ RetryEnds(r)
                                  \/ SettlementHandled(r) \/ Released(r)
  <2>1. answer' = answer
    BY <1>3 DEF Still, DrainEnds, CallerAborts, Release, DaemonCreates, ReleaseFails, RetryEnds,
                SettlementHandled, Released
  <2> QED BY <1>1, <2>1
<1>4. CASE Drain
  <2>1. answer'[q] = IF Waits(q) THEN "rejected" ELSE answer[q]
    BY <1>4 DEF Drain
  <2>2. Waits(q) => answer[q] = "pending"
    BY DEF QueueOK
  <2> QED BY <1>1, <1>2, <2>1, <2>2
<1>5. CASE \E r \in Requests : Acquire(r)
  <2>1. \/ answer'[q] = answer[q]
        \/ answer[q] = "none" /\ answer'[q] \in {"pending", "rejected"}
    BY <1>5 DEF Acquire, Types
  <2> QED BY <1>1, <1>2, <2>1
<1>6. ASSUME NEW r \in Requests, LeaveQueue(r)
      PROVE  answer'[q] = answer[q] \/ (answer[q] = "pending" /\ answer'[q] = "rejected")
  <2>1. answer' = [answer EXCEPT ![r] = "rejected"] /\ answer[r] = "pending"
    BY <1>6, LeaveQueueDrops DEF LeaveQueue, QueueOK
  <2> QED BY <2>1 DEF Types
<1>7. ASSUME NEW r \in Requests, LeaseStep(r)
      PROVE  \/ answer'[q] = answer[q]
             \/ answer[q] = "pending" /\ answer'[q] = "rejected"
             \/ answer[q] = "pending" /\ ~draining
  <2>1. PICK s \in (Working \cup {"settled"}) \ {"lock"} : Moves(r, s)
    BY <1>7, LeaseMove
  <2>2. answer[r] = "pending"
    BY <1>7, LeaseMove DEF AnswersOK
  <2>3. \/ answer' = answer
        \/ answer' = [answer EXCEPT ![r] = "granted"] /\ ~draining
        \/ answer' = [answer EXCEPT ![r] = "rejected"]
    BY <2>1 DEF Moves
  <2> QED BY <2>2, <2>3 DEF Types
<1> QED BY StillSteps, <1>1, <1>2, <1>3, <1>4, <1>5, <1>6, <1>7 DEF Next, Environment, Step, ReleaseEnds

\* Requests start in the order of the queue, and an answer stands.
THEOREM QueueServedFairly == Spec => QueueIsFair
<1>1. PoolInv /\ [Next]_vars => [HeadFirst]_vars /\ [AnswersFinal]_vars
  BY StartsInOrder, AnswersStand
<1>2. Spec => [][HeadFirst]_vars /\ [][AnswersFinal]_vars
  BY <1>1, AlwaysInv, PTL DEF Spec
<1> QED BY <1>2 DEF QueueIsFair, HeadFirst, AnswersFinal
-----------------------------------------------------------------------------
(* The refinement *)

\* The slot pool counts as the container pool does.
LEMMA SameCount == ASSUME NEW S PROVE Slots!Cardinality(S) = Cardinality(S)
  BY Zenon DEF Slots!Cardinality, Cardinality

\* A service is an exchange of slots.
LEMMA ServesExchange ==
    ASSUME PoolInv, PoolInv', NEW gone \in SUBSET Requests, NEW out, NEW in, Serves(out, in),
           gone \subseteq Held, Held' = (Held \ gone) \cup Elements(in), draining' = draining
    PROVE  Slots!Next
<1> USE DEF PoolInv
<1> DEFINE new == Elements(in)
<1>1. new \in SUBSET Requests
  BY ElementsAreFew DEF Serves
<1>2. new \cap Started = {}
  BY <1>1 DEF Serves, QueueOK
<1>3. Started' = Started \cup new
  <2> DEFINE m == Len(chain)
             n == Len(in)
  <2>1. /\ m \in Nat /\ m = Len(chain) /\ n \in Nat /\ n = Len(in) /\ chain' = chain \o in
        /\ in \in Seq(Requests) /\ chain \in Seq(Requests)
    BY DEF Serves, Types
  <2> HIDE DEF m, n
  <2> QED BY <2>1, Joined DEF Started
<1>4. draining => new = {}
  BY DEF Serves, Elements
<1>5. Cardinality(Held') <= Max
  BY DEF Bounded
<1> HIDE DEF new
<1>6. Slots!Exchange(gone, new)
  BY <1>1, <1>2, <1>3, <1>4, <1>5, SameCount DEF Slots!Exchange, new
<1> QED BY <1>1, <1>6 DEF Slots!Next

\* Every step of the pool is a step of the slot pool or leaves it alone.
LEMMA SlotStep == PoolInv /\ PoolInv' /\ [Next]_vars => [Slots!Next]_(Slots!slots)
<1> SUFFICES ASSUME PoolInv, PoolInv', [Next]_vars PROVE [Slots!Next]_(Slots!slots)
  OBVIOUS
<1> USE DEF PoolInv
<1>1. CASE UNCHANGED <<Held, chain, draining>>
  BY <1>1 DEF Slots!slots, Started
<1>2. CASE Still \/ DrainEnds
           \/ \E r \in Requests : Release(r) \/ ReleaseFails(r)
                                  \/ \E k \in Kinds : DaemonCreates(r, k)
  BY <1>1, <1>2, AsideSteps DEF Aside, maps, Held
<1>3. CASE \E r \in Requests : LeaveQueue(r) \/ CallerAborts(r)
  BY <1>1, <1>3 DEF LeaveQueue, CallerAborts, maps, leases, drains, Held
<1>4. CASE Drain
  <2>1. UNCHANGED <<Held, chain>> /\ draining' = TRUE
    BY <1>4 DEF Drain, maps, Held
  <2>2. Slots!Close
    BY <2>1 DEF Slots!Close, Started
  <2> QED BY <2>2 DEF Slots!Next
<1>5. ASSUME NEW r \in Requests, Acquire(r) PROVE [Slots!Next]_(Slots!slots)
  <2>1. UNCHANGED <<failed, active, draining>>
    BY <1>5 DEF Acquire, drains
  <2>2. ASSUME NEW in, Serves({}, in), creating' = creating \cup Elements(in)
        PROVE  Slots!Next
    <3>1. Held' = (Held \ {}) \cup Elements(in)
      BY <2>1, <2>2 DEF Held
    <3> QED BY <2>1, <2>2, <3>1, ServesExchange
  <2>3. CASE UNCHANGED <<creating, chain>>
    BY <1>1, <2>1, <2>3 DEF Held
  <2> QED BY <1>5, <2>2, <2>3, AcquireServes
<1>6. ASSUME NEW r \in Requests, LeaseStep(r) PROVE [Slots!Next]_(Slots!slots)
  <2>1. r \in creating /\ \E s : Moves(r, s)
    BY <1>6, LeaseMove
  <2>2. UNCHANGED <<Held, chain, draining>>
    BY <2>1 DEF Moves, drains, Held
  <2> QED BY <1>1, <2>2
<1>7. ASSUME NEW r \in Requests, SettlementHandled(r) PROVE [Slots!Next]_(Slots!slots)
  <2>1. PICK in : /\ Serves({r}, in)
                  /\ creating' = (creating \ {r}) \cup Elements(in)
                  /\ \A i \in DOMAIN in : i \in DOMAIN waiting /\ in[i] = waiting[i]
    BY <1>7, SettlementServes
  <2>2. /\ r \in creating /\ UNCHANGED <<active, draining>>
        /\ failed' = failed \/ failed' = failed \cup {r}
    BY <1>7 DEF SettlementHandled, Await
  <2> DEFINE gone == IF r \in failed' \cup active THEN {} ELSE {r}
  <2>3. gone \in SUBSET Requests /\ gone \subseteq Held
    BY <2>2 DEF Held
  <2>4. Held' = (Held \ gone) \cup Elements(in)
    BY <2>1, <2>2 DEF Held
  <2> HIDE DEF gone
  <2> QED BY <2>1, <2>2, <2>3, <2>4, ServesExchange
<1>8. ASSUME NEW r \in Requests, Released(r) PROVE [Slots!Next]_(Slots!slots)
  <2>1. PICK in : /\ Serves({}, in)
                  /\ creating' = creating \cup Elements(in)
                  /\ \A i \in DOMAIN in : i \in DOMAIN waiting /\ in[i] = waiting[i]
    BY <1>8, ReleaseServes
  <2>2. /\ r \in active /\ UNCHANGED <<failed, draining>> /\ active' = active \ {r}
    BY <1>8 DEF Released, Await, PlacesOK
  <2> DEFINE gone == IF r \in creating \cup failed THEN {} ELSE {r}
  <2>3. gone \in SUBSET Requests /\ gone \subseteq Held
    BY <2>2 DEF Held
  <2>4. Held' = (Held \ gone) \cup Elements(in)
    BY <2>1, <2>2 DEF Held
  <2> HIDE DEF gone
  <2> QED BY <2>1, <2>2, <2>3, <2>4, ServesExchange
<1>9. ASSUME NEW r \in Requests, RetryEnds(r) PROVE [Slots!Next]_(Slots!slots)
  <2>1. /\ stage[r] = "retry" /\ UNCHANGED <<creating, active, chain, draining>>
        /\ failed' = failed \/ failed' = failed \ {r}
    BY <1>9 DEF RetryEnds, Await
  <2>2. CASE failed' = failed
    BY <1>1, <2>1, <2>2 DEF Held
  <2>3. CASE failed' = failed \ {r}
    <3>1. r \in failed /\ r \notin creating /\ r \notin active
      BY <2>1 DEF PlacesOK, Working, InStartup, Kinds
    <3>2. {r} \subseteq Held /\ Held' = (Held \ {r}) \cup {}
      BY <2>1, <2>3, <3>1 DEF Held
    <3>3. Slots!Exchange({r}, {})
      BY <2>1, <3>2, SameCount DEF Slots!Exchange, Started, Bounded
    <3> QED BY <3>3 DEF Slots!Next
  <2> QED BY <2>1, <2>2, <2>3
<1> QED BY StillSteps, <1>2, <1>3, <1>4, <1>5, <1>6, <1>7, <1>8, <1>9
        DEF Next, Environment, Step, ReleaseEnds

\* The pool is a counted set of slots that serves each request at most once
\* and closes for good.
THEOREM PoolImplementsSlots == Spec => PoolIsSlotPool
<1>1. Init => Slots!Init
  BY DEF Init, Slots!Init, Held, Started, Elements
<1> QED BY <1>1, SlotStep, AlwaysInv, PTL DEF Spec, PoolIsSlotPool, Slots!Spec
=============================================================================
