------------------------ MODULE ProviderRequestProofs ------------------------
(***************************************************************************)
(* The rate limiter and the turns that use it, proved for all rates,       *)
(* sizes, estimates and callers.                                           *)
(***************************************************************************)
EXTENDS ProviderRequest, FiniteSetTheorems, WellFoundedInduction, TLAPS

-----------------------------------------------------------------------------
(* The rate.  The invariant pairs the surplus of the worst window with     *)
(* what is left in the bucket: what a permit adds to one it takes from the *)
(* other, and a tick moves both the right way.                             *)

Conserved ==
    /\ requests \in Nat
    /\ excess \in Nat
    /\ excess + requests <= Burst

\* The burst covers a full bucket and the initial one.
LEMMA BurstIsNat ==
    Burst \in Nat /\ MaxRequests <= Burst /\ InitialRequests <= Burst
BY BucketAssumption DEF Burst, AtLeast

\* Serving the queue from a bucket that fits the invariant keeps it, wherever
\* the service stops.
LEMMA ServiceConserves ==
    ASSUME NEW q, NEW held, NEW req \in Nat, NEW tok, NEW flying, NEW pause,
           NEW clock, q \in Seq(Callers), excess \in Nat, excess + req <= Burst,
           ProcessQueue(q, held, req, tok, flying, pause, clock)
    PROVE  Conserved'
<1>1. PICK n \in 0..Len(q) :
        /\ \A i \in 1..n : pause = 0 /\ Admits(q, i, req, tok, flying)
        /\ requests' = req - n * RequestCost
        /\ excess' = excess + n * RequestCost
  BY DEF ProcessQueue
<1>2. n \in Nat /\ RequestCost \in Nat \ {0} /\ n * RequestCost \in Nat
  BY BucketAssumption
<1>3. n * RequestCost <= req
  <2>1. CASE n = 0
    BY <2>1, <1>2
  <2>2. CASE n # 0
    <3>1. n \in 1..n
      BY <2>2, <1>2
    <3>2. Admits(q, n, req, tok, flying)
      BY <3>1, <1>1
    <3>3. req - (n - 1) * RequestCost >= RequestCost
      BY <3>2 DEF Admits
    <3> QED BY <3>3, <1>2
  <2> QED BY <2>1, <2>2
<1> QED BY <1>1, <1>2, <1>3, BurstIsNat DEF Conserved, Burst

\* Taking one caller out of the queue leaves a queue of callers.
LEMMA SpliceIsSeq ==
    ASSUME queue \in Seq(Callers), NEW i \in DOMAIN queue
    PROVE  Splice(i) \in Seq(Callers)
<1>1. i \in 1..Len(queue)
  OBVIOUS
<1>2. SubSeq(queue, 1, i - 1) \in Seq(Callers)
  BY <1>1
<1>3. SubSeq(queue, i + 1, Len(queue)) \in Seq(Callers)
  BY <1>1
<1> QED BY <1>2, <1>3 DEF Splice

\* Conserved holds at first and is kept by every step.
LEMMA InitConserved == Init => Conserved
BY BurstIsNat, BucketAssumption DEF Init, Conserved

\* Every step conserves it.
LEMMA StepConserves == Conserved /\ queue \in Seq(Callers) /\ [Next]_vars => Conserved'
<1> SUFFICES ASSUME Conserved, queue \in Seq(Callers), [Next]_vars
             PROVE  Conserved'
  OBVIOUS
<1> USE DEF Conserved
<1>1. CASE Tick
  <2>1. excess' = AtLeast(0, excess - RefillRequests)
        /\ requests' = AtMost(MaxRequests, requests + RefillRequests)
    BY <1>1 DEF Tick, Refilled
  <2> QED BY <2>1, BurstIsNat, BucketAssumption DEF AtLeast, AtMost, Burst
<1>2. CASE TimerFires
  BY <1>2, ServiceConserves DEF TimerFires
<1>3. ASSUME NEW c \in Callers, Acquire(c) PROVE Conserved'
  <2>1. CASE HasCapacity(c)
    <3>1. requests >= RequestCost
          /\ requests' = requests - RequestCost /\ excess' = excess + RequestCost
      BY <1>3, <2>1 DEF Acquire, HasCapacity
    <3> QED BY <3>1, BurstIsNat, BucketAssumption DEF Burst
  <2>2. CASE ~HasCapacity(c)
    <3>1. Append(queue, c) \in Seq(Callers)
      OBVIOUS
    <3> QED BY <1>3, <2>2, <3>1, ServiceConserves DEF Acquire
  <2> QED BY <2>1, <2>2
<1>4. ASSUME NEW c \in Callers, AbortQueued(c) PROVE Conserved'
  <2>1. PICK i \in DOMAIN queue :
          ProcessQueue(Splice(i), [permit EXCEPT ![c] = "none"],
                       requests, tokens, inFlight, backoff, timer)
    BY <1>4 DEF AbortQueued
  <2>2. Splice(i) \in Seq(Callers)
    BY SpliceIsSeq
  <2> QED BY <2>1, <2>2, ServiceConserves
<1>5. ASSUME NEW c \in Callers, FinalizeRateLimited(c) PROVE Conserved'
  <2>1. PICK pause :
          ProcessQueue(queue, PutBack(c), 0, 0, inFlight - 1, pause, timer)
    BY <1>5 DEF FinalizeRateLimited
  <2>2. excess + 0 <= Burst
    BY BurstIsNat
  <2> QED BY <2>1, <2>2, ServiceConserves
<1>6. ASSUME NEW c \in Callers, NEW used, Finalize(c, used) PROVE Conserved'
  BY <1>6, ServiceConserves DEF Finalize
<1>7. CASE UNCHANGED vars
  BY <1>7 DEF vars, Burst
<1> QED
  BY <1>1, <1>2, <1>3, <1>4, <1>5, <1>6, <1>7
     DEF Next, Release, FinalizeCompleted, FinalizeFailed

\* The queue holds callers only.
LEMMA QueueIsSeq == Spec => [](queue \in Seq(Callers))
<1>1. Init => queue \in Seq(Callers)
  BY DEF Init
<1>2. queue \in Seq(Callers) /\ [Next]_vars => (queue \in Seq(Callers))'
  <2> SUFFICES ASSUME queue \in Seq(Callers), [Next]_vars
               PROVE  queue' \in Seq(Callers)
    OBVIOUS
  <2>1. ASSUME NEW q \in Seq(Callers), NEW held, NEW req, NEW tok, NEW flying,
               NEW pause, NEW clock,
               ProcessQueue(q, held, req, tok, flying, pause, clock)
        PROVE  queue' \in Seq(Callers)
    <3>1. PICK n \in 0..Len(q) : queue' = SubSeq(q, n + 1, Len(q))
      BY <2>1 DEF ProcessQueue
    <3> QED BY <3>1
  <2>2. ASSUME NEW c \in Callers, Acquire(c) PROVE queue' \in Seq(Callers)
    <3>1. Append(queue, c) \in Seq(Callers)
      OBVIOUS
    <3> QED BY <2>1, <2>2, <3>1 DEF Acquire
  <2>3. ASSUME NEW c \in Callers, AbortQueued(c) PROVE queue' \in Seq(Callers)
    <3>1. PICK i \in DOMAIN queue :
            ProcessQueue(Splice(i), [permit EXCEPT ![c] = "none"],
                         requests, tokens, inFlight, backoff, timer)
      BY <2>3 DEF AbortQueued
    <3>2. Splice(i) \in Seq(Callers)
      BY SpliceIsSeq
    <3> QED BY <2>1, <3>1, <3>2
  <2>4. ASSUME NEW c \in Callers, Release(c) PROVE queue' \in Seq(Callers)
    BY <2>1, <2>4
       DEF Release, FinalizeRateLimited, FinalizeCompleted, FinalizeFailed,
           Finalize
  <2> QED BY <2>1, <2>2, <2>3, <2>4 DEF Next, Tick, TimerFires, vars
<1> QED BY <1>1, <1>2, PTL DEF Spec

\* No window of time ever sees more permits than the burst and its refill.
THEOREM RateLimited == Spec => []RateConforms
<1>1. Conserved => RateConforms
  BY BurstIsNat DEF Conserved, RateConforms
<1> QED BY <1>1, InitConserved, StepConserves, QueueIsSeq, PTL DEF Spec
-----------------------------------------------------------------------------
(* Recursion and the bucket of tokens *)

\* A set of naturals with 0 and every successor is all of them.
LEMMA EveryNat ==
    ASSUME NEW S, 0 \in S, \A n \in Nat : n \in S => n + 1 \in S
    PROVE  Nat \subseteq S
<1> DEFINE T == Nat \ S
           R == OpToRel(<, Nat)
<1> SUFFICES ASSUME T # {} PROVE FALSE
  OBVIOUS
<1>1. IsWellFoundedOn(R, Nat) /\ T \subseteq Nat
  BY NatLessThanWellFounded
<1>2. \A y, x \in Nat : y < x => <<y, x>> \in R
  BY DEF OpToRel
<1> HIDE DEF R, T
<1>3. PICK x \in T : \A y \in T : <<y, x>> \notin R
  BY <1>1, WFMin
<1>4. x \in Nat /\ x # 0 /\ x - 1 \in Nat /\ x - 1 < x
  BY DEF T
<1>5. x - 1 \notin T
  BY <1>2, <1>3, <1>4 DEF T
<1>6. x - 1 \in S /\ (x - 1) + 1 = x
  BY <1>4, <1>5 DEF T
<1> QED BY <1>4, <1>6 DEF T

\* The buckets a service of the first n of q can leave behind.
TokensFrom(q, tok, n) ==
    {f \in [0..n -> Nat] :
        f[0] = tok /\ \A i \in 1..n : f[i] = AtLeast(0, f[i - 1] - Reserved(q[i]))}

\* The tokens left after each place of the queue are what the recursion says.
LEMMA TokensAfterIs ==
    ASSUME NEW q \in Seq(Callers), NEW tok \in Nat
    PROVE  /\ TokensAfter(q, tok) \in [0..Len(q) -> Nat]
           /\ TokensAfter(q, tok)[0] = tok
           /\ \A i \in 1..Len(q) :
                  TokensAfter(q, tok)[i]
                    = AtLeast(0, TokensAfter(q, tok)[i - 1] - Reserved(q[i]))
<1> DEFINE N == Len(q)
           Step(f) == [i \in 0..N |-> IF i = 0 THEN tok
                                      ELSE AtLeast(0, f[i - 1] - Reserved(q[i]))]
           left == TokensAfter(q, tok)
<1>1. \A i \in 1..N : Reserved(q[i]) \in Nat
  BY BucketAssumption DEF Reserved, AtMost
<1>2. left = CHOOSE f : f = Step(f)
  BY DEF TokensAfter
<1> DEFINE S == {n \in Nat : n <= N => TokensFrom(q, tok, n) # {}}
<1>3. \E f : f = Step(f)
  <2>1. 0 \in S
    <3>1. [i \in 0..0 |-> tok] \in TokensFrom(q, tok, 0)
      BY DEF TokensFrom
    <3> QED BY <3>1
  <2>2. ASSUME NEW n \in Nat, n \in S, n + 1 <= N PROVE TokensFrom(q, tok, n + 1) # {}
    <3>1. PICK f \in [0..n -> Nat] :
             f[0] = tok /\ \A i \in 1..n : f[i] = AtLeast(0, f[i - 1] - Reserved(q[i]))
      BY <2>2 DEF TokensFrom
    <3> DEFINE g == [i \in 0..(n + 1) |-> IF i <= n THEN f[i]
                                          ELSE AtLeast(0, f[n] - Reserved(q[n + 1]))]
    <3>2. f[n] \in Nat /\ Reserved(q[n + 1]) \in Nat
      BY <1>1, <2>2
    <3>3. g \in [0..(n + 1) -> Nat]
      BY <3>2 DEF AtLeast
    <3>4. g[0] = tok
      BY <3>1
    <3>5. ASSUME NEW i \in 1..(n + 1) PROVE g[i] = AtLeast(0, g[i - 1] - Reserved(q[i]))
      <4>1. CASE i <= n
        <5>1. i \in 1..n /\ g[i] = f[i] /\ g[i - 1] = f[i - 1]
          BY <4>1
        <5> QED BY <3>1, <5>1
      <4>2. CASE i = n + 1
        <5>1. g[i] = AtLeast(0, f[n] - Reserved(q[n + 1])) /\ g[i - 1] = f[n] /\ i - 1 = n
          BY <4>2
        <5> QED BY <4>2, <5>1
      <4> QED BY <4>1, <4>2
    <3> QED BY <3>3, <3>4, <3>5 DEF TokensFrom
  <2>3. Nat \subseteq S
    <3>1. \A n \in Nat : n \in S => n + 1 \in S
      BY <2>2
    <3> HIDE DEF S
    <3> QED BY <2>1, <3>1, EveryNat
  <2>4. N \in Nat
    OBVIOUS
  <2>5. PICK f : f \in TokensFrom(q, tok, N)
    BY <2>3, <2>4
  <2>6. f = Step(f)
    BY <2>5 DEF TokensFrom
  <2> QED BY <2>6
<1>4. left = Step(left)
  <2> HIDE DEF Step, left
  <2> QED BY <1>2, <1>3
<1> HIDE DEF left
<1>5. left[0] = tok /\ \A i \in 1..N : left[i] = AtLeast(0, left[i - 1] - Reserved(q[i]))
  BY <1>4
<1> DEFINE U == {n \in Nat : n <= N => left[n] \in Nat}
<1>6. Nat \subseteq U
  <2>1. 0 \in U
    BY <1>5
  <2>2. \A n \in Nat : n \in U => n + 1 \in U
    BY <1>1, <1>5 DEF AtLeast
  <2> HIDE DEF U
  <2> QED BY <2>1, <2>2, EveryNat
<1>7. left \in [0..N -> Nat]
  BY <1>4, <1>6
<1> QED BY <1>5, <1>7 DEF left
-----------------------------------------------------------------------------
(* The queue and the permits *)

Permits == {"none", "queued", "held"}
Members(q) == {q[i] : i \in DOMAIN q}
Distinct(q) == \A i, j \in DOMAIN q : q[i] = q[j] => i = j
HoldersIn(p) == {c \in Callers : p[c] = "held"}

\* A caller is in the queue once and just while it has no permit yet.
InLine(q, p) ==
    /\ q \in Seq(Callers) /\ Distinct(q)
    /\ p \in [Callers -> Permits]
    /\ \A c \in Callers : p[c] = "queued" <=> c \in Members(q)

Counted(p, n) ==
    /\ IsFiniteSet(HoldersIn(p))
    /\ n = Cardinality(HoldersIn(p))

LimiterOK ==
    /\ tokens \in Nat /\ backoff \in Int /\ timer \in Nat \cup {None}
    /\ InLine(queue, permit)
    /\ Counted(permit, inFlight)
    /\ queue # <<>> => timer # None

\* The queue and the permits once the first n have been served.
From(q, n) == SubSeq(q, n + 1, Len(q))
Granted(q, held, n) ==
    [c \in Callers |-> IF \E i \in 1..n : q[i] = c THEN "held" ELSE held[c]]

\* The end of a sequence.
LEMMA Rest ==
    ASSUME NEW q \in Seq(Callers), NEW n \in 0..Len(q)
    PROVE  LET rest == From(q, n) IN
           /\ rest \in Seq(Callers) /\ Len(rest) = Len(q) - n
           /\ \A i \in 1..(Len(q) - n) : rest[i] = q[n + i] /\ n + i \in (n + 1)..Len(q)
           /\ \A j \in (n + 1)..Len(q) : j - n \in 1..(Len(q) - n) /\ rest[j - n] = q[j]
<1> DEFINE N == Len(q)
           rest == From(q, n)
<1> USE DEF From
<1>1. N \in Nat /\ n + 1 \in Int /\ n \in Nat /\ n <= N /\ N - n \in Nat
  OBVIOUS
<1>2. rest \in Seq(Callers) /\ Len(rest) = N - n
  BY <1>1
<1>3. \A i \in 1..(N - n) : rest[i] = q[n + i]
  BY <1>1
<1>4. \A i \in 1..(N - n) : n + i \in (n + 1)..N
  BY <1>1
<1>5. ASSUME NEW j \in (n + 1)..N PROVE j - n \in 1..(N - n) /\ rest[j - n] = q[j]
  <2>1. j - n \in 1..(N - n) /\ n + (j - n) = j
    BY <1>1
  <2> QED BY <2>1, <1>3
<1> QED BY <1>2, <1>3, <1>4, <1>5

\* A service takes the head of the queue and gives it permits, each counted.
LEMMA ServiceGrants ==
    ASSUME NEW q, NEW held, InLine(q, held), NEW n \in 0..Len(q),
           NEW flying, Counted(held, flying)
    PROVE  InLine(From(q, n), Granted(q, held, n)) /\ Counted(Granted(q, held, n), flying + n)
<1> DEFINE N == Len(q)
           rest == From(q, n)
           got == Granted(q, held, n)
           served == {q[i] : i \in 1..n}
<1>1. /\ q \in Seq(Callers) /\ Distinct(q) /\ held \in [Callers -> Permits]
      /\ N \in Nat /\ DOMAIN q = 1..N /\ n \in Nat /\ n <= N
      /\ \A i \in 1..N : q[i] \in Callers /\ held[q[i]] = "queued"
  BY DEF InLine, Members
<1>2. /\ rest \in Seq(Callers) /\ DOMAIN rest = 1..(N - n)
      /\ \A i \in 1..(N - n) : rest[i] = q[n + i] /\ n + i \in (n + 1)..N
      /\ \A j \in (n + 1)..N : j - n \in 1..(N - n) /\ rest[j - n] = q[j]
  <2>1. /\ rest \in Seq(Callers) /\ Len(rest) = N - n
        /\ \A i \in 1..(N - n) : rest[i] = q[n + i] /\ n + i \in (n + 1)..N
        /\ \A j \in (n + 1)..N : j - n \in 1..(N - n) /\ rest[j - n] = q[j]
    BY <1>1, Rest
  <2> HIDE DEF rest
  <2> QED BY <2>1
<1>0. \A c \in Callers : got[c] = IF \E i \in 1..n : q[i] = c THEN "held" ELSE held[c]
  BY DEF Granted
<1>3. Distinct(rest)
  <2> SUFFICES ASSUME NEW i \in 1..(N - n), NEW j \in 1..(N - n), rest[i] = rest[j]
               PROVE  i = j
    BY <1>2 DEF Distinct
  <2>1. n + i \in 1..N /\ n + j \in 1..N /\ q[n + i] = q[n + j]
    BY <1>1, <1>2
  <2>2. n + i = n + j
    BY <1>1, <2>1 DEF Distinct
  <2> QED BY <1>1, <2>2
<1>4. got \in [Callers -> Permits]
  BY <1>1 DEF Permits, Granted
<1> HIDE DEF got, rest
<1>5. ASSUME NEW c \in Callers PROVE got[c] = "queued" <=> c \in Members(rest)
  <2>1. got[c] = "queued" <=> c \in Members(q) /\ ~\E i \in 1..n : q[i] = c
    BY <1>0 DEF InLine
  <2>2. ASSUME c \in Members(q), ~\E i \in 1..n : q[i] = c PROVE c \in Members(rest)
    <3>1. PICK j \in 1..N : q[j] = c
      BY <1>1, <2>2 DEF Members
    <3>2. j \in (n + 1)..N
      BY <1>1, <2>2, <3>1
    <3> QED BY <1>2, <3>1, <3>2 DEF Members
  <2>3. ASSUME c \in Members(rest)
        PROVE  c \in Members(q) /\ ~\E i \in 1..n : q[i] = c
    <3>1. PICK i \in 1..(N - n) : rest[i] = c
      BY <1>2, <2>3 DEF Members
    <3>2. n + i \in 1..N /\ n + i > n /\ q[n + i] = c
      BY <1>1, <1>2, <3>1
    <3>3. c \in Members(q)
      BY <1>1, <3>2 DEF Members
    <3>4. ASSUME NEW j \in 1..n, q[j] = c PROVE FALSE
      <4>1. j \in 1..N /\ j <= n
        BY <1>1
      <4>2. j = n + i
        BY <1>1, <3>2, <3>4, <4>1 DEF Distinct
      <4> QED BY <1>1, <3>2, <4>1, <4>2
    <3> QED BY <3>3, <3>4
  <2> QED BY <2>1, <2>2, <2>3
<1>6. IsFiniteSet(served) /\ Cardinality(served) = n
  <2> DEFINE f == [i \in 1..n |-> q[i]]
  <2>1. f \in [1..n -> served] /\ \A s \in served : \E i \in 1..n : f[i] = s
    OBVIOUS
  <2>2. ASSUME NEW i \in 1..n, NEW j \in 1..n, f[i] = f[j] PROVE i = j
    <3>1. i \in 1..N /\ j \in 1..N /\ q[i] = q[j]
      BY <1>1, <2>2
    <3> QED BY <1>1, <3>1 DEF Distinct
  <2> HIDE DEF f, served
  <2>3. f \in Bijection(1..n, served)
    BY <2>1, <2>2 DEF Bijection, Injection, Surjection, IsInjective
  <2>4. ExistsBijection(1..n, served)
    BY <2>3 DEF ExistsBijection
  <2>5. IsFiniteSet(1..n) /\ Cardinality(1..n) = n
    BY <1>1, FS_Interval
  <2> QED BY <2>4, <2>5, FS_Bijection
<1>7. HoldersIn(got) = HoldersIn(held) \cup served
  <2>1. \A i \in 1..n : i \in 1..N
    BY <1>1
  <2>2. served \subseteq Callers
    BY <1>1, <2>1
  <2>3. \A c \in Callers : got[c] = "held" <=> held[c] = "held" \/ c \in served
    BY <1>0
  <2> HIDE DEF served
  <2> QED BY <2>2, <2>3 DEF HoldersIn
<1>8. HoldersIn(held) \cap served = {}
  BY <1>1 DEF HoldersIn
<1>9. Counted(got, flying + n)
  <2>1. Cardinality(HoldersIn(held)) \in Nat
    BY FS_CardinalityType DEF Counted
  <2>2. Cardinality({}) = 0
    BY FS_EmptySet
  <2> DEFINE old == HoldersIn(held)
             new == HoldersIn(got)
  <2>4. IsFiniteSet(old) /\ flying = Cardinality(old)
    BY DEF Counted
  <2> HIDE DEF served, old, new
  <2>3. /\ IsFiniteSet(old \cup served)
        /\ Cardinality(old \cup served)
             = Cardinality(old) + Cardinality(served) - Cardinality(old \cap served)
    BY <1>6, <2>4, FS_Union
  <2>5. new = old \cup served /\ old \cap served = {} /\ Cardinality(old) \in Nat
    BY <1>7, <1>8, <2>1 DEF old, new
  <2>6. IsFiniteSet(new) /\ flying + n = Cardinality(new)
    <3>1. Cardinality(old \cap served) = 0
      BY <2>2, <2>5
    <3>2. Cardinality(new) = Cardinality(old) + Cardinality(served) - 0
      BY <2>3, <2>5, <3>1
    <3>3. Cardinality(new) = flying + n
      BY <1>1, <1>6, <2>4, <2>5, <3>2
    <3> QED BY <2>3, <2>5, <3>3
  <2> QED BY <2>6 DEF Counted, new
<1> QED BY <1>2, <1>3, <1>4, <1>5, <1>9 DEF InLine, got, rest

\* The timer is armed for somebody, and for a natural number of ticks.
LEMMA ArmedForSomebody ==
    ASSUME NEW rest \in Seq(Callers), rest # <<>>, NEW req \in Int, NEW tok \in Int,
           NEW pause \in Int, NEW clock \in Nat \cup {None}
    PROVE  Armed(rest, req, tok, pause, clock) \in Nat
<1>1. Head(rest) \in Callers
  OBVIOUS
<1>2. Est[Head(rest)] \in Nat
  BY <1>1, BucketAssumption
<1>3. ASSUME NEW a \in Int, NEW b \in Nat \ {0} PROVE CeilDiv(a, b) \in Int
  <2>1. a + b - 1 \in Int
    OBVIOUS
  <2>2. \A x \in Int : x \div b \in Int
    OBVIOUS
  <2> QED BY <2>1, <2>2 DEF CeilDiv
<1>4. /\ CeilDiv(RequestCost - req, RefillRequests) \in Int
      /\ CeilDiv(Est[Head(rest)] - tok, RefillTokens) \in Int
  <2>1. RequestCost - req \in Int /\ Est[Head(rest)] - tok \in Int
    BY <1>2, BucketAssumption
  <2>2. RefillRequests \in Nat \ {0} /\ RefillTokens \in Nat \ {0}
    BY BucketAssumption
  <2> QED BY <1>3, <2>1, <2>2, Zenon
<1>5. Delay(Head(rest), req, tok) \in Nat
  BY <1>4, BucketAssumption DEF Delay, AtLeast, AtMost
<1> QED BY <1>5 DEF Armed

\* What processQueue leaves of a queue: nobody waits who could be served, the
\* timer runs for those who wait, and permits went to the head of the queue.
GotPermit(c, q, held, req, pause) ==
    /\ held[c] = "queued" /\ permit'[c] = "held"
    /\ pause = 0 /\ req >= RequestCost
    /\ \E k \in DOMAIN q : q[k] = c /\ \A i \in 1..k : permit'[q[i]] = "held"

Serviced(q, held, req, pause) ==
    /\ InLine(queue', permit') /\ Counted(permit', inFlight')
    /\ tokens' \in Nat /\ timer' \in Nat \cup {None}
    /\ queue' # <<>> => timer' # None
    /\ queue' # <<>> /\ pause = 0 => ~Admits(queue', 1, requests', tokens', inFlight')
    /\ \A c \in Callers : permit'[c] = held[c] \/ GotPermit(c, q, held, req, pause)

\* processQueue leaves just that.
LEMMA Service ==
    ASSUME NEW q, NEW held, InLine(q, held), NEW req \in Int, NEW tok \in Nat, NEW flying,
           Counted(held, flying), NEW pause \in Int, NEW clock \in Nat \cup {None},
           ProcessQueue(q, held, req, tok, flying, pause, clock)
    PROVE  Serviced(q, held, req, pause)
<1>1. PICK n \in 0..Len(q) :
        /\ \A i \in 1..n : pause = 0 /\ Admits(q, i, req, tok, flying)
        /\ n < Len(q) => pause > 0 \/ ~Admits(q, n + 1, req, tok, flying)
        /\ queue' = SubSeq(q, n + 1, Len(q))
        /\ permit' = [c \in Callers |->
                          IF \E i \in 1..n : q[i] = c THEN "held" ELSE held[c]]
        /\ requests' = req - n * RequestCost
        /\ tokens' = TokensAfter(q, tok)[n]
        /\ inFlight' = flying + n
        /\ timer' = IF q = <<>> THEN None
                    ELSE Armed(queue', requests', tokens', pause, clock)
  BY DEF ProcessQueue
<1> DEFINE N == Len(q)
<1>2. /\ q \in Seq(Callers) /\ N \in Nat /\ DOMAIN q = 1..N /\ n \in Nat /\ n <= N
      /\ \A i \in 1..N : q[i] \in Callers /\ held[q[i]] = "queued"
  BY DEF InLine, Members
<1>3. InLine(queue', permit') /\ Counted(permit', inFlight')
  <2>1. InLine(From(q, n), Granted(q, held, n)) /\ Counted(Granted(q, held, n), flying + n)
    BY ServiceGrants
  <2>2. queue' = From(q, n) /\ permit' = Granted(q, held, n) /\ inFlight' = flying + n
    BY <1>1 DEF From, Granted
  <2> QED BY <2>1, <2>2
<1>4. n * RequestCost \in Nat /\ requests' \in Int
  <2>1. n * RequestCost \in Nat
    BY <1>2, BucketAssumption
  <2> QED BY <1>1, <2>1
<1>5. tokens' \in Nat
  BY <1>1, <1>2, TokensAfterIs
<1>6. timer' \in Nat \cup {None} /\ (queue' # <<>> => timer' # None)
  <2>1. CASE q = <<>>
    BY <1>1, <2>1
  <2>2. CASE q # <<>> /\ queue' = <<>>
    BY <1>1, <2>2 DEF Armed
  <2>3. CASE q # <<>> /\ queue' # <<>>
    <3>1. timer' = Armed(queue', requests', tokens', pause, clock) /\ queue' \in Seq(Callers)
      BY <1>1, <1>3, <2>3 DEF InLine
    <3>2. timer' \in Nat
      BY <1>4, <1>5, <2>3, <3>1, ArmedForSomebody
    <3> QED BY <3>2, BucketAssumption
  <2> QED BY <2>1, <2>2, <2>3
<1>7. ASSUME queue' # <<>>, pause = 0, Admits(queue', 1, requests', tokens', inFlight')
      PROVE  FALSE
  <2>1. queue' \in Seq(Callers) /\ Len(queue') = N - n /\ \A i \in 1..(N - n) : queue'[i] = q[n + i]
    <3>1. queue' = From(q, n)
      BY <1>1 DEF From
    <3> QED BY <1>2, <3>1, Rest
  <2>2. n < N /\ queue'[1] = q[n + 1]
    BY <1>2, <1>7, <2>1
  <2>3. TokensAfter(queue', tokens')[1 - 1] = tokens'
    BY <1>5, <2>1, TokensAfterIs
  <2>4. ~Admits(q, n + 1, req, tok, flying)
    BY <1>1, <1>7, <2>2
  <2>5. /\ inFlight' + 1 - 1 < MaxConcurrent
        /\ requests' - (1 - 1) * RequestCost >= RequestCost
        /\ EnoughTokens(tokens', Reserved(q[n + 1]))
    BY <1>7, <2>2, <2>3 DEF Admits
  <2>6. /\ inFlight' + 1 - 1 = flying + (n + 1) - 1
        /\ requests' - (1 - 1) * RequestCost = req - ((n + 1) - 1) * RequestCost
        /\ tokens' = TokensAfter(q, tok)[(n + 1) - 1]
    <3>1. flying \in Nat
      BY FS_CardinalityType DEF Counted
    <3>2. (1 - 1) * RequestCost = 0 /\ (n + 1) - 1 = n
      BY <1>2, BucketAssumption
    <3> QED BY <1>1, <1>2, <1>4, <3>1, <3>2
  <2> QED BY <2>4, <2>5, <2>6 DEF Admits
<1>8. ASSUME NEW c \in Callers, permit'[c] # held[c] PROVE GotPermit(c, q, held, req, pause)
  <2>1. PICK k \in 1..n : q[k] = c
    BY <1>1, <1>8
  <2>2. k \in 1..N /\ permit'[c] = "held" /\ held[c] = "queued" /\ pause = 0
    BY <1>1, <1>2, <2>1
  <2>3. \A i \in 1..k : i \in 1..n /\ i \in 1..N
    BY <1>2, <2>1
  <2>4. \A i \in 1..k : permit'[q[i]] = "held"
    BY <1>1, <1>2, <2>3
  <2>5. req >= RequestCost
    <3>1. Admits(q, k, req, tok, flying)
      BY <1>1, <2>1
    <3>2. req - (k - 1) * RequestCost >= RequestCost /\ k - 1 \in Nat
      BY <1>2, <2>1, <3>1 DEF Admits
    <3>3. (k - 1) * RequestCost \in Nat
      BY <3>2, BucketAssumption
    <3> QED BY <3>2, <3>3, BucketAssumption
  <2> QED BY <1>2, <2>1, <2>2, <2>4, <2>5 DEF GotPermit
<1> QED BY <1>3, <1>5, <1>6, <1>7, <1>8 DEF Serviced
-----------------------------------------------------------------------------
(* The steps of the limiter *)

\* A queue without its i-th place, place by place.
LEMMA Spliced ==
    ASSUME queue \in Seq(Callers), NEW i \in DOMAIN queue
    PROVE  LET rest == Splice(i)
               N == Len(queue)
           IN  /\ i \in 1..N /\ N \in Nat /\ DOMAIN queue = 1..N
               /\ rest \in Seq(Callers) /\ Len(rest) = N - 1 /\ DOMAIN rest = 1..(N - 1)
               /\ \A j \in 1..(N - 1) : rest[j] = IF j < i THEN queue[j] ELSE queue[j + 1]
<1> DEFINE N == Len(queue)
           a == SubSeq(queue, 1, i - 1)
           b == SubSeq(queue, i + 1, N)
           rest == Splice(i)
<1>1. i \in 1..N /\ N \in Nat /\ i \in Nat /\ DOMAIN queue = 1..N
  OBVIOUS
<1>2. a \in Seq(Callers) /\ Len(a) = i - 1 /\ \A j \in 1..(i - 1) : a[j] = queue[j]
  BY <1>1
<1>3. b \in Seq(Callers) /\ Len(b) = N - i /\ \A j \in 1..(N - i) : b[j] = queue[i + j]
  BY <1>1
<1>4. rest = a \o b
  BY DEF Splice
<1> HIDE DEF a, b, rest
<1>5. rest \in Seq(Callers) /\ Len(rest) = N - 1
  <2>1. \A s, t \in Seq(Callers) : s \o t \in Seq(Callers) /\ Len(s \o t) = Len(s) + Len(t)
    OBVIOUS
  <2>2. rest \in Seq(Callers) /\ Len(rest) = Len(a) + Len(b)
    BY <1>2, <1>3, <1>4, <2>1, Zenon
  <2> QED BY <1>1, <1>2, <1>3, <2>2
<1>6. ASSUME NEW j \in 1..(N - 1)
      PROVE  rest[j] = IF j < i THEN queue[j] ELSE queue[j + 1]
  <2>1. rest[j] = IF j <= Len(a) THEN a[j] ELSE b[j - Len(a)]
    BY <1>1, <1>2, <1>3, <1>4
  <2>2. CASE j < i
    BY <1>1, <1>2, <2>1, <2>2
  <2>3. CASE j >= i
    <3>1. j - (i - 1) \in 1..(N - i) /\ i + (j - (i - 1)) = j + 1 /\ ~(j <= i - 1)
      BY <1>1, <2>3
    <3> QED BY <1>1, <1>2, <1>3, <2>1, <2>3, <3>1
  <2> QED BY <1>1, <2>2, <2>3
<1> QED BY <1>1, <1>5, <1>6 DEF rest

\* Who joins the queue, leaves it or gives a permit back.
LEMMA Joins ==
    ASSUME InLine(queue, permit), Counted(permit, inFlight), NEW c \in Callers,
           permit[c] = "none"
    PROVE  LET q == Append(queue, c)
               held == [permit EXCEPT ![c] = "queued"]
           IN  InLine(q, held) /\ Counted(held, inFlight)
<1> DEFINE q == Append(queue, c)
           held == [permit EXCEPT ![c] = "queued"]
           N == Len(queue)
<1>1. /\ q \in Seq(Callers) /\ Len(q) = N + 1 /\ N \in Nat
      /\ \A i \in 1..N : q[i] = queue[i]
      /\ q[N + 1] = c
  BY DEF InLine
<1>2. DOMAIN queue = 1..N /\ DOMAIN q = 1..(N + 1) /\ queue \in Seq(Callers)
  BY <1>1 DEF InLine
<1>3. /\ held \in [Callers -> Permits]
      /\ \A d \in Callers : held[d] = IF d = c THEN "queued" ELSE permit[d]
  BY DEF InLine, Permits
<1>4. HoldersIn(held) = HoldersIn(permit)
  BY <1>3 DEF HoldersIn
<1> HIDE DEF q, held
<1>5. \A i \in 1..N : queue[i] # c
  BY <1>2 DEF InLine, Members
<1>6. Distinct(q)
  BY <1>1, <1>2, <1>5 DEF InLine, Distinct
<1>7. ASSUME NEW d \in Callers PROVE held[d] = "queued" <=> d \in Members(q)
  <2>1. d \in Members(q) <=> d \in Members(queue) \/ d = c
    BY <1>1, <1>2 DEF Members
  <2> QED BY <1>3, <2>1 DEF InLine
<1> QED BY <1>1, <1>3, <1>4, <1>6, <1>7 DEF InLine, Counted, q, held

\* A caller whose signal aborts leaves the queue.
LEMMA Leaves ==
    ASSUME InLine(queue, permit), Counted(permit, inFlight), NEW i \in DOMAIN queue
    PROVE  LET held == [permit EXCEPT ![queue[i]] = "none"]
           IN  InLine(Splice(i), held) /\ Counted(held, inFlight)
<1> DEFINE q == Splice(i)
           c == queue[i]
           held == [permit EXCEPT ![c] = "none"]
           N == Len(queue)
<1>1. /\ i \in 1..N /\ N \in Nat /\ DOMAIN queue = 1..N /\ queue \in Seq(Callers)
      /\ q \in Seq(Callers) /\ DOMAIN q = 1..(N - 1)
      /\ \A j \in 1..(N - 1) : q[j] = IF j < i THEN queue[j] ELSE queue[j + 1]
  BY Spliced DEF InLine
<1>2. c \in Callers /\ permit[c] = "queued"
  BY <1>1 DEF InLine, Members
<1>3. /\ held \in [Callers -> Permits]
      /\ \A d \in Callers : held[d] = IF d = c THEN "none" ELSE permit[d]
  BY DEF InLine, Permits
<1>4. HoldersIn(held) = HoldersIn(permit)
  BY <1>2, <1>3 DEF HoldersIn
<1> HIDE DEF q, held, N
<1> DEFINE place(j) == IF j < i THEN j ELSE j + 1
<1>5. \A j \in 1..(N - 1) : place(j) \in 1..N /\ place(j) # i /\ q[j] = queue[place(j)]
  BY <1>1
<1>6. \A j, k \in 1..(N - 1) : place(j) = place(k) => j = k
  BY <1>1
<1>7. \A j \in 1..N : j # i => \E k \in 1..(N - 1) : place(k) = j
  <2> SUFFICES ASSUME NEW j \in 1..N, j # i PROVE \E k \in 1..(N - 1) : place(k) = j
    OBVIOUS
  <2>1. CASE j < i
    <3>1. j \in 1..(N - 1) /\ place(j) = j
      BY <1>1, <2>1
    <3> QED BY <3>1
  <2>2. CASE j > i
    <3>1. j - 1 \in 1..(N - 1) /\ place(j - 1) = j
      BY <1>1, <2>2
    <3> QED BY <3>1
  <2> QED BY <1>1, <2>1, <2>2
<1>8. \A j, k \in 1..N : queue[j] = queue[k] => j = k
  BY <1>1 DEF InLine, Distinct
<1> HIDE DEF place
<1>9. Distinct(q)
  BY <1>1, <1>5, <1>6, <1>8 DEF Distinct
<1>10. ASSUME NEW d \in Callers PROVE held[d] = "queued" <=> d \in Members(q)
  <2>1. d \in Members(q) => d \in Members(queue) /\ d # c
    BY <1>1, <1>5, <1>8 DEF Members
  <2>2. d \in Members(queue) /\ d # c => d \in Members(q)
    <3> SUFFICES ASSUME d \in Members(queue), d # c PROVE d \in Members(q)
      OBVIOUS
    <3>1. PICK j \in 1..N : queue[j] = d /\ j # i
      BY <1>1 DEF Members
    <3>2. PICK k \in 1..(N - 1) : place(k) = j
      BY <1>7, <3>1
    <3>3. q[k] = d
      BY <1>5, <3>1, <3>2
    <3> QED BY <1>1, <3>3 DEF Members
  <2> QED BY <1>3, <2>1, <2>2 DEF InLine
<1> QED BY <1>1, <1>3, <1>4, <1>9, <1>10 DEF InLine, Counted, q, held

\* A permit that is given back.
LEMMA PutsBack ==
    ASSUME InLine(queue, permit), Counted(permit, inFlight), NEW c \in Callers, HoldsPermit(c)
    PROVE  InLine(queue, PutBack(c)) /\ Counted(PutBack(c), inFlight - 1)
<1>1. /\ PutBack(c) \in [Callers -> Permits]
      /\ \A d \in Callers : PutBack(c)[d] = IF d = c THEN "none" ELSE permit[d]
  BY DEF InLine, Permits, PutBack
<1>2. HoldersIn(PutBack(c)) = HoldersIn(permit) \ {c} /\ c \in HoldersIn(permit)
  BY <1>1 DEF HoldersIn, HoldsPermit
<1>3. /\ IsFiniteSet(HoldersIn(permit) \ {c})
      /\ Cardinality(HoldersIn(permit) \ {c}) = inFlight - 1
  BY <1>2, FS_RemoveElement DEF Counted
<1>4. Counted(PutBack(c), inFlight - 1)
  BY <1>2, <1>3 DEF Counted
<1> QED BY <1>1, <1>4 DEF InLine, HoldsPermit

\* What a step may do to those who wait, as QueueIsServed says it.
NobodyLeft ==
    permit' # permit /\ queue' # <<>> /\ backoff' = 0
      => ~Admits(queue', 1, requests', tokens', inFlight')

NobodyPassed ==
    \A c \in Holders' \ Holders :
        /\ backoff = 0
        /\ \A i \in Ahead(c) : permit'[queue[i]] # "queued"

\* A service of the queue as it stands passes nobody.
LEMMA ServesFair ==
    ASSUME LimiterOK, NEW held, \A c \in Callers : held[c] = "held" => permit[c] = "held",
           NEW req, NEW pause, Serviced(queue, held, req, pause),
           pause = 0 /\ req >= RequestCost => backoff = 0
    PROVE  NobodyPassed
<1> SUFFICES ASSUME NEW c \in Callers, permit'[c] = "held", permit[c] # "held"
             PROVE  backoff = 0 /\ \A i \in Ahead(c) : permit'[queue[i]] # "queued"
  BY DEF NobodyPassed, Holders
<1>1. GotPermit(c, queue, held, req, pause)
  BY DEF Serviced
<1>2. PICK k \in DOMAIN queue : queue[k] = c /\ \A i \in 1..k : permit'[queue[i]] = "held"
  BY <1>1 DEF GotPermit
<1>3. ASSUME NEW i \in Ahead(c) PROVE permit'[queue[i]] # "queued"
  <2>1. DOMAIN queue = 1..Len(queue) /\ Len(queue) \in Nat
    BY DEF LimiterOK, InLine
  <2>2. i \in 1..Len(queue) /\ k \in 1..Len(queue) /\ ~(k \in 1..i)
    BY <1>2, <2>1 DEF Ahead
  <2>3. i \in 1..k
    BY <2>1, <2>2
  <2> QED BY <1>2, <2>3
<1> QED BY <1>1, <1>3 DEF GotPermit

\* A caller that joins passes nobody.
LEMMA AcquireFair ==
    ASSUME LimiterOK, NEW c \in Callers, permit[c] = "none",
           Serviced(Append(queue, c), [permit EXCEPT ![c] = "queued"], requests, backoff)
    PROVE  NobodyPassed
<1> DEFINE q == Append(queue, c)
           held == [permit EXCEPT ![c] = "queued"]
           N == Len(queue)
<1> SUFFICES ASSUME NEW d \in Callers, permit'[d] = "held", permit[d] # "held"
             PROVE  backoff = 0 /\ \A i \in Ahead(d) : permit'[queue[i]] # "queued"
  BY DEF NobodyPassed, Holders
<1>1. held[d] # "held"
  BY DEF LimiterOK, InLine
<1>2. GotPermit(d, q, held, requests, backoff)
  BY <1>1 DEF Serviced
<1>3. PICK k \in DOMAIN q : q[k] = d /\ \A i \in 1..k : permit'[q[i]] = "held"
  BY <1>2 DEF GotPermit
<1>4. /\ N \in Nat /\ DOMAIN queue = 1..N /\ DOMAIN q = 1..(N + 1)
      /\ \A i \in 1..N : q[i] = queue[i]
  BY DEF LimiterOK, InLine
<1> HIDE DEF q, held, N
<1>5. ASSUME NEW i \in Ahead(d) PROVE permit'[queue[i]] # "queued"
  <2>1. i \in 1..N /\ \A j \in 1..i : queue[j] # d
    BY <1>4 DEF Ahead
  <2>2. ~(k <= i)
    BY <1>3, <1>4, <2>1
  <2>3. i \in 1..k /\ q[i] = queue[i]
    BY <1>3, <1>4, <2>1, <2>2
  <2> QED BY <1>3, <2>3
<1> QED BY <1>2, <1>5 DEF GotPermit

\* A caller that leaves lets nobody pass.
LEMMA AbortFair ==
    ASSUME LimiterOK, NEW i \in DOMAIN queue,
           Serviced(Splice(i), [permit EXCEPT ![queue[i]] = "none"], requests, backoff)
    PROVE  NobodyPassed
<1> DEFINE q == Splice(i)
           c == queue[i]
           held == [permit EXCEPT ![c] = "none"]
           N == Len(queue)
<1> SUFFICES ASSUME NEW d \in Callers, permit'[d] = "held", permit[d] # "held"
             PROVE  backoff = 0 /\ \A j \in Ahead(d) : permit'[queue[j]] # "queued"
  BY DEF NobodyPassed, Holders
<1>1. /\ i \in 1..N /\ N \in Nat /\ DOMAIN queue = 1..N
      /\ DOMAIN q = 1..(N - 1) /\ c \in Callers
      /\ \A j \in 1..(N - 1) : q[j] = IF j < i THEN queue[j] ELSE queue[j + 1]
  BY Spliced DEF LimiterOK, InLine
<1>2. held[d] # "held" /\ held[c] = "none"
  BY <1>1 DEF LimiterOK, InLine
<1>3. GotPermit(d, q, held, requests, backoff) /\ permit'[c] # "queued"
  BY <1>1, <1>2 DEF Serviced, GotPermit
<1>4. PICK k \in DOMAIN q : q[k] = d /\ \A j \in 1..k : permit'[q[j]] = "held"
  BY <1>3 DEF GotPermit
<1> HIDE DEF q, held, N
<1>5. ASSUME NEW j \in Ahead(d) PROVE permit'[queue[j]] # "queued"
  <2>1. j \in 1..N /\ \A l \in 1..j : queue[l] # d
    BY <1>1 DEF Ahead
  <2>2. CASE j = i
    BY <1>3, <2>2
  <2>3. CASE j < i
    <3>1. ~(k <= j)
      BY <1>1, <1>4, <2>1, <2>3
    <3>2. j \in 1..k /\ q[j] = queue[j]
      BY <1>1, <1>4, <2>1, <2>3, <3>1
    <3> QED BY <1>4, <3>2
  <2>4. CASE j > i
    <3>1. ~(k <= j - 1)
      <4>1. CASE k < i
        <5>1. q[k] = queue[k]
          BY <1>1, <1>4, <4>1
        <5> QED BY <1>1, <1>4, <2>1, <5>1
      <4>2. CASE k >= i
        <5>1. q[k] = queue[k + 1]
          BY <1>1, <1>4, <4>2
        <5> QED BY <1>1, <1>4, <2>1, <5>1
      <4> QED BY <1>1, <4>1, <4>2
    <3>2. j - 1 \in 1..k /\ j - 1 \in 1..(N - 1) /\ (j - 1) + 1 = j /\ ~(j - 1 < i)
      BY <1>1, <1>4, <2>1, <2>4, <3>1
    <3>3. q[j - 1] = queue[j]
      BY <1>1, <3>2
    <3> QED BY <1>4, <3>2, <3>3
  <2> QED BY <1>1, <2>1, <2>2, <2>3, <2>4
<1> QED BY <1>3, <1>5 DEF GotPermit

\* What every step of the limiter keeps and respects, and what it may do to the
\* permit of a caller it is not about.
Fair == LimiterOK' /\ NobodyLeft /\ NobodyPassed

Kept(d) == permit'[d] = permit[d] \/ (permit[d] = "queued" /\ permit'[d] = "held")

\* A service of the queue as it stands, after what its caller did to the permits.
LEMMA QueueServed ==
    ASSUME LimiterOK, NEW held, InLine(queue, held), NEW flying, Counted(held, flying),
           \A d \in Callers : held[d] = "held" => permit[d] = "held",
           NEW req \in Int, NEW tok \in Nat, NEW pause \in Int, NEW clock \in Nat \cup {None},
           ProcessQueue(queue, held, req, tok, flying, pause, clock), backoff' = pause,
           pause = 0 /\ req >= RequestCost => backoff = 0
    PROVE  /\ Fair
           /\ \A d \in Callers :
                  permit'[d] = held[d] \/ (held[d] = "queued" /\ permit'[d] = "held")
<1>1. Serviced(queue, held, req, pause)
  BY Service
<1>2. LimiterOK' /\ NobodyLeft
  BY <1>1 DEF Serviced, LimiterOK, NobodyLeft
<1>3. NobodyPassed
  BY <1>1, ServesFair
<1>4. Fair
  BY <1>2, <1>3 DEF Fair
<1>5. \A d \in Callers : permit'[d] = held[d] \/ (held[d] = "queued" /\ permit'[d] = "held")
  BY <1>1 DEF Serviced, GotPermit
<1> QED BY <1>4, <1>5

\* acquire().
LEMMA AcquireKeeps ==
    ASSUME LimiterOK, requests \in Nat, NEW c \in Callers, Acquire(c)
    PROVE  /\ Fair /\ \A d \in Callers \ {c} : Kept(d)
           /\ permit[c] = "none" /\ permit'[c] \in {"queued", "held"}
<1>1. permit[c] = "none" /\ UNCHANGED backoff
  BY DEF Acquire
<1>2. CASE HasCapacity(c)
  <2>1. /\ permit' = [permit EXCEPT ![c] = "held"] /\ queue = <<>> /\ UNCHANGED <<queue, timer>>
        /\ tokens' = AtLeast(0, tokens - Reserved(c)) /\ inFlight' = inFlight + 1
        /\ backoff = 0
    BY <1>2 DEF Acquire, HasCapacity
  <2>2. /\ permit \in [Callers -> Permits] /\ permit' \in [Callers -> Permits]
        /\ \A d \in Callers : permit'[d] = IF d = c THEN "held" ELSE permit[d]
    BY <2>1 DEF LimiterOK, InLine, Permits
  <2>3. InLine(queue', permit')
    BY <1>1, <2>1, <2>2 DEF LimiterOK, InLine
  <2>4. HoldersIn(permit') = HoldersIn(permit) \cup {c} /\ c \notin HoldersIn(permit)
    BY <1>1, <2>2 DEF HoldersIn
  <2>5. Counted(permit', inFlight')
    <3>1. /\ IsFiniteSet(HoldersIn(permit) \cup {c})
          /\ Cardinality(HoldersIn(permit) \cup {c}) = Cardinality(HoldersIn(permit)) + 1
      BY <2>4, FS_AddElement DEF LimiterOK, Counted
    <3> QED BY <2>1, <2>4, <3>1 DEF LimiterOK, Counted
  <2>6. tokens' \in Nat
    <3>1. Reserved(c) \in Nat
      BY BucketAssumption DEF Reserved, AtMost
    <3> QED BY <2>1, <3>1 DEF AtLeast, LimiterOK
  <2>7. LimiterOK'
    BY <1>1, <2>1, <2>3, <2>5, <2>6 DEF LimiterOK
  <2>8. NobodyLeft /\ NobodyPassed
    BY <2>1, <2>2 DEF NobodyLeft, NobodyPassed, Ahead
  <2>9. Fair
    BY <2>7, <2>8 DEF Fair
  <2>10. /\ \A d \in Callers \ {c} : Kept(d)
         /\ permit[c] = "none" /\ permit'[c] \in {"queued", "held"}
    BY <1>1, <2>2 DEF Kept
  <2> QED BY <2>9, <2>10
<1>3. CASE ~HasCapacity(c)
  <2> DEFINE q == Append(queue, c)
             held == [permit EXCEPT ![c] = "queued"]
  <2>1. ProcessQueue(q, held, requests, tokens, inFlight, backoff, timer)
    BY <1>3 DEF Acquire
  <2>2. InLine(q, held) /\ Counted(held, inFlight)
    BY <1>1, Joins DEF LimiterOK
  <2>3. \A d \in Callers : held[d] = IF d = c THEN "queued" ELSE permit[d]
    BY DEF LimiterOK, InLine
  <2> HIDE DEF q, held
  <2>4. Serviced(q, held, requests, backoff)
    BY <2>1, <2>2, Service DEF LimiterOK
  <2>5. LimiterOK' /\ NobodyLeft
    BY <1>1, <2>4 DEF Serviced, LimiterOK, NobodyLeft
  <2>6. NobodyPassed
    BY <1>1, <2>4, AcquireFair DEF q, held
  <2>7. Fair
    BY <2>5, <2>6 DEF Fair
  <2>8. /\ \A d \in Callers \ {c} : Kept(d)
        /\ permit[c] = "none" /\ permit'[c] \in {"queued", "held"}
    BY <1>1, <2>3, <2>4 DEF Kept, Serviced, GotPermit
  <2> QED BY <2>7, <2>8
<1> QED BY <1>2, <1>3

\* The abort of a caller that waits.
LEMMA AbortKeeps ==
    ASSUME LimiterOK, requests \in Nat, NEW c \in Callers, AbortQueued(c)
    PROVE  /\ Fair /\ \A d \in Callers \ {c} : Kept(d)
           /\ permit[c] = "queued" /\ permit'[c] = "none"
<1> DEFINE held == [permit EXCEPT ![c] = "none"]
<1>1. PICK i \in DOMAIN queue :
         /\ queue[i] = c
         /\ ProcessQueue(Splice(i), held, requests, tokens, inFlight, backoff, timer)
  BY DEF AbortQueued
<1>2. UNCHANGED backoff
  BY DEF AbortQueued
<1>3. InLine(Splice(i), held) /\ Counted(held, inFlight)
  BY <1>1, Leaves DEF LimiterOK
<1>4. \A d \in Callers : held[d] = IF d = c THEN "none" ELSE permit[d]
  BY DEF LimiterOK, InLine
<1>5. permit[c] = "queued"
  BY <1>1 DEF LimiterOK, InLine, Members
<1> HIDE DEF held
<1>6. Serviced(Splice(i), held, requests, backoff)
  BY <1>1, <1>3, Service DEF LimiterOK
<1>7. LimiterOK' /\ NobodyLeft
  BY <1>2, <1>6 DEF Serviced, LimiterOK, NobodyLeft
<1>8. NobodyPassed
  BY <1>1, <1>6, AbortFair DEF held
<1>9. Fair
  BY <1>7, <1>8 DEF Fair
<1>10. /\ \A d \in Callers \ {c} : Kept(d)
       /\ permit[c] = "queued" /\ permit'[c] = "none"
  BY <1>4, <1>5, <1>6 DEF Kept, Serviced, GotPermit
<1> QED BY <1>9, <1>10

\* finalizePermit, in each of its outcomes.
LEMMA ReleaseKeeps ==
    ASSUME LimiterOK, requests \in Nat, NEW c \in Callers, Release(c)
    PROVE  /\ Fair /\ \A d \in Callers \ {c} : Kept(d)
           /\ permit[c] = "held" /\ permit'[c] = "none"
<1>1. HoldsPermit(c)
  BY DEF Release, FinalizeRateLimited, FinalizeCompleted, FinalizeFailed, Finalize
<1> DEFINE held == PutBack(c)
<1>2. InLine(queue, held) /\ Counted(held, inFlight - 1)
  BY <1>1, PutsBack DEF LimiterOK
<1>3. permit[c] = "held" /\ \A d \in Callers : held[d] = IF d = c THEN "none" ELSE permit[d]
  BY <1>1 DEF LimiterOK, InLine, PutBack, HoldsPermit
<1>4. tokens \in Nat /\ timer \in Nat \cup {None} /\ backoff \in Int /\ Reserved(c) \in Nat
  BY BucketAssumption DEF LimiterOK, Reserved, AtMost
<1> HIDE DEF held
<1>5. \A d \in Callers : held[d] = "held" => permit[d] = "held"
  BY <1>3
<1> SUFFICES /\ Fair
             /\ \A d \in Callers :
                    permit'[d] = held[d] \/ (held[d] = "queued" /\ permit'[d] = "held")
  BY <1>3 DEF Kept
<1>6. CASE FinalizeRateLimited(c)
  <2>1. PICK pause \in {AtMost(BackoffMax, t) : t \in RetryAfters} \cup BackoffDelays :
          /\ backoff' = pause
          /\ ProcessQueue(queue, held, 0, 0, inFlight - 1, pause, timer)
    BY <1>6 DEF FinalizeRateLimited, held
  <2>2. pause \in Int
    <3>1. CASE pause \in BackoffDelays
      BY <3>1 DEF BackoffDelays
    <3>2. CASE pause \in {AtMost(BackoffMax, t) : t \in RetryAfters}
      BY <3>2, BucketAssumption DEF AtMost
    <3> QED BY <2>1, <3>1, <3>2
  <2>3. ~(0 >= RequestCost)
    BY BucketAssumption
  <2> QED BY <1>2, <1>4, <1>5, <2>1, <2>2, <2>3, QueueServed
<1>7. ASSUME NEW used \in Int, Finalize(c, used)
      PROVE  /\ Fair
             /\ \A d \in Callers :
                    permit'[d] = held[d] \/ (held[d] = "queued" /\ permit'[d] = "held")
  <2> DEFINE tok == AtMost(MaxTokens, AtLeast(0, tokens + Reserved(c) - used))
  <2>1. ProcessQueue(queue, held, requests, tok, inFlight - 1, backoff, timer)
        /\ backoff' = backoff
    BY <1>7 DEF Finalize, held
  <2>2. tok \in Nat
    BY <1>4, BucketAssumption DEF AtMost, AtLeast
  <2> HIDE DEF tok
  <2> QED BY <1>2, <1>4, <1>5, <2>1, <2>2, QueueServed
<1>8. CASE FinalizeCompleted(c)
  BY <1>4, <1>7, <1>8, BucketAssumption DEF FinalizeCompleted
<1>9. CASE FinalizeFailed(c)
  BY <1>7, <1>9 DEF FinalizeFailed
<1> QED BY <1>6, <1>8, <1>9 DEF Release

\* Time and the timer.
LEMMA ClockKeeps ==
    ASSUME LimiterOK, requests \in Nat, Tick \/ TimerFires
    PROVE  Fair /\ \A d \in Callers : Kept(d)
<1>1. CASE Tick
  <2>1. /\ tokens' \in Nat /\ backoff' \in Int /\ timer' \in Nat \cup {None}
        /\ timer # None => timer' # None
    BY <1>1, BucketAssumption DEF Tick, LimiterOK, Refilled, AtMost, AtLeast
  <2>2. UNCHANGED <<inFlight, queue, permit>>
    BY <1>1 DEF Tick
  <2>3. LimiterOK' /\ NobodyLeft /\ NobodyPassed
    BY <2>1, <2>2 DEF LimiterOK, NobodyLeft, NobodyPassed, Holders
  <2>4. Fair
    BY <2>3 DEF Fair
  <2>5. \A d \in Callers : Kept(d)
    BY <2>2 DEF Kept
  <2> QED BY <2>4, <2>5
<1>2. CASE TimerFires
  <2>1. /\ ProcessQueue(queue, permit, requests, tokens, inFlight, backoff, None)
        /\ backoff' = backoff
    BY <1>2 DEF TimerFires
  <2>2. /\ InLine(queue, permit) /\ Counted(permit, inFlight)
        /\ requests \in Int /\ tokens \in Nat /\ backoff \in Int
        /\ None \in Nat \cup {None}
        /\ \A d \in Callers : permit[d] = "held" => permit[d] = "held"
        /\ backoff = 0 /\ requests >= RequestCost => backoff = 0
    BY DEF LimiterOK
  <2>3. Fair /\ \A d \in Callers :
               permit'[d] = permit[d] \/ (permit[d] = "queued" /\ permit'[d] = "held")
    BY <2>1, <2>2, QueueServed, ZenonT(60)
  <2>4. \A d \in Callers : Kept(d)
    BY <2>3 DEF Kept
  <2> QED BY <2>3, <2>4
<1> QED BY <1>1, <1>2

\* Every step of the limiter keeps its invariant and is fair.
LEMMA LimiterStep == LimiterOK /\ Conserved /\ [Next]_vars => Fair
<1> SUFFICES ASSUME LimiterOK, requests \in Nat, [Next]_vars PROVE Fair
  BY DEF Conserved
<1>1. CASE UNCHANGED vars
  <2>1. LimiterOK'
    BY <1>1 DEF vars, LimiterOK
  <2>2. NobodyLeft /\ NobodyPassed
    BY <1>1 DEF vars, NobodyLeft, NobodyPassed, Holders
  <2> QED BY <2>1, <2>2 DEF Fair
<1>2. CASE Tick \/ TimerFires
  BY <1>2, ClockKeeps
<1>3. ASSUME NEW c \in Callers, Acquire(c) \/ AbortQueued(c) \/ Release(c) PROVE Fair
  BY <1>3, AcquireKeeps, AbortKeeps, ReleaseKeeps
<1> QED BY <1>1, <1>2, <1>3 DEF Next

\* The invariant holds at first.
LEMMA InitLimiter == Init => LimiterOK
<1> SUFFICES ASSUME Init PROVE LimiterOK
  OBVIOUS
<1>1. InLine(queue, permit)
  BY DEF Init, InLine, Distinct, Members, Permits
<1>2. HoldersIn(permit) = {}
  BY DEF Init, HoldersIn
<1>3. Counted(permit, inFlight)
  BY <1>2, FS_EmptySet DEF Init, Counted
<1> QED BY <1>1, <1>3, BucketAssumption DEF Init, LimiterOK

\* Both invariants of the limiter always hold.
LEMMA AlwaysLimiter == Spec => []LimiterOK /\ []Conserved
<1>1. LimiterOK => queue \in Seq(Callers)
  BY DEF LimiterOK, InLine
<1>2. LimiterOK /\ Conserved /\ [Next]_vars => LimiterOK' /\ Conserved'
  BY <1>1, LimiterStep, StepConserves DEF Fair
<1> QED BY <1>2, InitLimiter, InitConserved, PTL DEF Spec

\* Whoever waits is woken: the timer runs as long as anybody is in the queue, no
\* step leaves somebody waiting who could be served, and permits are granted in
\* the order of the queue and never during a pause.
THEOREM WaitersServed == Spec => QueueIsServed
<1>1. LimiterOK => (queue # <<>> => timer # None)
  BY DEF LimiterOK
<1>2. LimiterOK /\ Conserved /\ [Next]_vars => [NobodyLeft]_vars /\ [NobodyPassed]_vars
  BY LimiterStep DEF Fair
<1>3. Spec => [](queue # <<>> => timer # None)
  BY <1>1, AlwaysLimiter, PTL
<1>4. Spec => [][NobodyLeft]_vars /\ [][NobodyPassed]_vars
  BY <1>2, AlwaysLimiter, PTL DEF Spec
<1> QED BY <1>3, <1>4 DEF QueueIsServed, NobodyLeft, NobodyPassed
-----------------------------------------------------------------------------
(* The turns *)

\* The stage of a turn tells what it has of the limiter, and a turn whose signal
\* is aborted waits for nothing any more.
TurnOf(c) ==
    /\ pc[c] \in {"fetch", "lease"} => permit[c] = "held"
    /\ pc[c] = "acquire" => permit[c] # "none"
    /\ pc[c] \notin {"acquire", "fetch", "lease"} => permit[c] = "none"
    /\ aborted[c] => /\ pc[c] \notin {"start", "backoff"}
                     /\ pc[c] = "acquire" => permit[c] = "held"

TurnInv ==
    /\ pc \in [Callers -> Stages]
    /\ attempt \in [Callers -> Nat]
    /\ aborted \in [Callers -> BOOLEAN]
    /\ permit \in [Callers -> Permits]
    /\ \A c \in Callers : TurnOf(c)

AbortRespected(c) ==
    aborted[c] /\ aborted'[c] =>
        /\ permit[c] # "held" => permit'[c] # "held"
        /\ attempt'[c] = attempt[c]

\* A step that takes a caller to a stage.
Moves(c, to) == pc' = [pc EXCEPT ![c] = to]

\* A step about one caller keeps the invariant if it does so for that caller.
LEMMA OneTurn ==
    ASSUME TurnInv, NEW c \in Callers, NEW to \in Stages, Moves(c, to),
           attempt' \in [Callers -> Nat], aborted' \in [Callers -> BOOLEAN],
           permit' \in [Callers -> Permits],
           \A d \in Callers \ {c} :
               Kept(d) /\ attempt'[d] = attempt[d] /\ aborted'[d] = aborted[d],
           TurnOf(c)', AbortRespected(c)
    PROVE  TurnInv' /\ \A d \in Callers : AbortRespected(d)
<1>1. pc' \in [Callers -> Stages] /\ \A d \in Callers \ {c} : pc'[d] = pc[d]
  BY DEF TurnInv, Moves
<1>2. ASSUME NEW d \in Callers \ {c} PROVE TurnOf(d)' /\ AbortRespected(d)
  <2>1. /\ pc'[d] = pc[d] /\ Kept(d) /\ aborted'[d] = aborted[d] /\ attempt'[d] = attempt[d]
        /\ TurnOf(d)
    BY <1>1 DEF TurnInv
  <2>2. TurnOf(d)'
    BY <2>1 DEF TurnOf, Kept
  <2>3. AbortRespected(d)
    BY <2>1 DEF TurnOf, Kept, AbortRespected
  <2> QED BY <2>2, <2>3
<1>3. \A d \in Callers : TurnOf(d)' /\ AbortRespected(d)
  BY <1>2
<1> QED BY <1>1, <1>3 DEF TurnInv

\* Every step of a turn.
LEMMA TurnStep ==
    TurnInv /\ LimiterOK /\ Conserved /\ [TurnNext]_allVars
      => TurnInv' /\ \A c \in Callers : AbortRespected(c)
<1> SUFFICES ASSUME TurnInv, LimiterOK, requests \in Nat, [TurnNext]_allVars
             PROVE  TurnInv' /\ \A c \in Callers : AbortRespected(c)
  BY DEF Conserved
<1>1. CASE UNCHANGED allVars
  <2>1. TurnInv'
    BY <1>1 DEF allVars, turn, vars, TurnInv, TurnOf
  <2>2. \A c \in Callers : AbortRespected(c)
    BY <1>1 DEF allVars, turn, vars, AbortRespected
  <2> QED BY <2>1, <2>2
<1>2. CASE Clock
  <2>1. (Tick \/ TimerFires) /\ UNCHANGED turn
    BY <1>2 DEF Clock
  <2>2. Fair /\ \A d \in Callers : Kept(d)
    BY <2>1, ClockKeeps
  <2>3. permit' \in [Callers -> Permits]
    BY <2>2 DEF Fair, LimiterOK, InLine
  <2>4. ASSUME NEW d \in Callers PROVE TurnOf(d)' /\ AbortRespected(d)
    <3>1. TurnOf(d) /\ Kept(d) /\ UNCHANGED <<pc, attempt, aborted>>
      BY <2>1, <2>2 DEF TurnInv, turn
    <3> QED BY <3>1 DEF TurnOf, Kept, AbortRespected
  <2> QED BY <2>1, <2>3, <2>4 DEF TurnInv, turn
<1>3. ASSUME NEW c \in Callers, BeginTurn(c) \/ Proceed(c) \/ Abort(c)
      PROVE  TurnInv' /\ \A d \in Callers : AbortRespected(d)
  <2>0. /\ pc \in [Callers -> Stages] /\ attempt \in [Callers -> Nat] /\ TurnOf(c)
        /\ aborted \in [Callers -> BOOLEAN] /\ permit \in [Callers -> Permits]
    BY DEF TurnInv
  <2> DEFINE Others == \A d \in Callers \ {c} :
                 Kept(d) /\ attempt'[d] = attempt[d] /\ aborted'[d] = aborted[d]
  <2>1. ASSUME UNCHANGED vars PROVE permit' = permit /\ \A d \in Callers : Kept(d)
    BY <2>1 DEF vars, Kept
  <2>2. CASE BeginTurn(c)
    <3>1. /\ Moves(c, "start") /\ pc[c] \in Over /\ UNCHANGED vars
          /\ attempt' = [attempt EXCEPT ![c] = 0] /\ aborted' = [aborted EXCEPT ![c] = FALSE]
      BY <2>2 DEF BeginTurn, Moves
    <3>2. Others /\ attempt' \in [Callers -> Nat] /\ aborted' \in [Callers -> BOOLEAN]
      BY <2>0, <2>1, <3>1
    <3>3. pc'[c] = "start" /\ aborted'[c] = FALSE /\ permit'[c] = permit[c]
      BY <2>0, <2>1, <3>1 DEF Moves
    <3>4. TurnOf(c)' /\ AbortRespected(c)
      BY <2>0, <3>1, <3>3 DEF TurnOf, AbortRespected, Over
    <3>5. "start" \in Stages
      BY DEF Stages
    <3> QED BY <2>0, <2>1, <3>1, <3>2, <3>4, <3>5, OneTurn
  <2>3. CASE StartAttempt(c)
    <3>1. /\ Moves(c, "acquire") /\ pc[c] = "start" /\ aborted[c] = FALSE /\ Acquire(c)
          /\ UNCHANGED <<attempt, aborted>>
      BY <2>0, <2>3 DEF StartAttempt, At, Moves
    <3>2. /\ Fair /\ \A d \in Callers \ {c} : Kept(d)
          /\ permit'[c] \in {"queued", "held"}
      BY <3>1, AcquireKeeps
    <3>3. permit' \in [Callers -> Permits] /\ Others
      BY <3>1, <3>2 DEF Fair, LimiterOK, InLine
    <3>4. pc'[c] = "acquire"
      BY <2>0, <3>1 DEF Moves
    <3>5. TurnOf(c)' /\ AbortRespected(c)
      BY <3>1, <3>2, <3>4 DEF TurnOf, AbortRespected
    <3>6. "acquire" \in Stages
      BY DEF Stages
    <3> QED BY <2>0, <3>1, <3>3, <3>5, <3>6, OneTurn
  <2>4. CASE PermitArrives(c) \/ Responds(c)
    <3>1. PICK to \in {"fetch", "lease"} : Moves(c, to)
      BY <2>4 DEF PermitArrives, Responds, At, Moves
    <3>2. /\ permit[c] = "held" /\ UNCHANGED <<vars, attempt, aborted>>
      BY <2>0, <2>4 DEF PermitArrives, Responds, At, TurnOf
    <3>3. pc'[c] = to /\ Others /\ UNCHANGED permit
      BY <2>0, <2>1, <3>1, <3>2 DEF Moves
    <3>4. TurnOf(c)' /\ AbortRespected(c)
      BY <3>2, <3>3 DEF TurnOf, AbortRespected
    <3>5. to \in Stages
      BY DEF Stages
    <3> QED BY <2>0, <3>1, <3>2, <3>3, <3>4, <3>5, OneTurn
  <2>5. CASE AttemptFails(c) \/ LeaseEnds(c)
    <3>1. Release(c) /\ UNCHANGED <<attempt, aborted>>
      BY <2>5 DEF AttemptFails, LeaseEnds, Release
    <3>2. PICK to \in Over \cup {"backoff"} : Moves(c, to) /\ (aborted[c] => to # "backoff")
      BY <2>0, <2>5 DEF AttemptFails, LeaseEnds, AfterFailure, At, Moves, Over
    <3>3. /\ Fair /\ \A d \in Callers \ {c} : Kept(d)
          /\ permit[c] = "held" /\ permit'[c] = "none"
      BY <3>1, ReleaseKeeps
    <3>4. permit' \in [Callers -> Permits] /\ Others
      BY <3>1, <3>3 DEF Fair, LimiterOK, InLine
    <3>5. pc'[c] = to
      BY <2>0, <3>2 DEF Moves
    <3>6. TurnOf(c)' /\ AbortRespected(c)
      BY <3>1, <3>2, <3>3, <3>5 DEF TurnOf, AbortRespected, Over
    <3>7. to \in Stages
      BY DEF Stages
    <3> QED BY <2>0, <3>1, <3>2, <3>4, <3>6, <3>7, OneTurn
  <2>6. CASE RetryDelayEnds(c)
    <3>1. /\ Moves(c, "start") /\ pc[c] = "backoff" /\ UNCHANGED <<vars, aborted>>
          /\ attempt' = [attempt EXCEPT ![c] = @ + 1]
      BY <2>6 DEF RetryDelayEnds, At, Moves
    <3>2. Others /\ attempt' \in [Callers -> Nat] /\ UNCHANGED permit
      BY <2>0, <2>1, <3>1
    <3>3. pc'[c] = "start" /\ ~aborted[c] /\ permit[c] = "none"
      BY <2>0, <3>1 DEF Moves, TurnOf
    <3>4. TurnOf(c)' /\ AbortRespected(c)
      BY <3>1, <3>2, <3>3 DEF TurnOf, AbortRespected
    <3>5. "start" \in Stages
      BY DEF Stages
    <3> QED BY <2>0, <3>1, <3>2, <3>4, <3>5, OneTurn
  <2>7. CASE Abort(c)
    <3>1. /\ pc[c] \notin Over /\ ~aborted[c]
          /\ aborted' = [aborted EXCEPT ![c] = TRUE] /\ UNCHANGED attempt
      BY <2>7 DEF Abort
    <3>2. /\ aborted' \in [Callers -> BOOLEAN] /\ aborted'[c] = TRUE
          /\ \A d \in Callers \ {c} : aborted'[d] = aborted[d]
      BY <2>0, <3>1
    <3>3. AbortRespected(c)
      BY <3>1 DEF AbortRespected
    <3>4. CASE permit[c] = "queued"
      <4>1. AbortQueued(c) /\ Moves(c, "aborted")
        BY <2>7, <3>4 DEF Abort, At, Moves
      <4>2. /\ Fair /\ \A d \in Callers \ {c} : Kept(d)
            /\ permit'[c] = "none"
        BY <4>1, AbortKeeps
      <4>3. permit' \in [Callers -> Permits] /\ Others
        BY <3>1, <3>2, <4>2 DEF Fair, LimiterOK, InLine
      <4>4. pc'[c] = "aborted"
        BY <2>0, <4>1 DEF Moves
      <4>5. TurnOf(c)'
        BY <4>2, <4>4 DEF TurnOf
      <4>6. "aborted" \in Stages
        BY DEF Stages, Over
      <4> QED BY <2>0, <3>1, <3>2, <3>3, <4>1, <4>3, <4>5, <4>6, OneTurn
    <3>5. CASE permit[c] # "queued"
      <4> DEFINE to == IF pc[c] \in {"start", "backoff"} THEN "aborted" ELSE pc[c]
      <4>1. UNCHANGED vars /\ Moves(c, to)
        BY <2>7, <3>5 DEF Abort, Moves
      <4>2. UNCHANGED permit /\ Others
        BY <2>1, <3>1, <3>2, <4>1
      <4>3. pc'[c] = to /\ to \in Stages /\ permit[c] \in Permits
        BY <2>0, <4>1 DEF Moves, Stages, Over
      <4>4. TurnOf(c)'
        BY <2>0, <3>5, <4>2, <4>3 DEF TurnOf, Permits
      <4> HIDE DEF to
      <4> QED BY <2>0, <3>1, <3>2, <3>3, <4>1, <4>2, <4>3, <4>4, OneTurn
    <3> QED BY <3>4, <3>5
  <2> QED BY <1>3, <2>2, <2>3, <2>4, <2>5, <2>6, <2>7 DEF Proceed
<1> QED BY <1>1, <1>2, <1>3 DEF TurnNext

\* The invariant of the turns holds at first.
LEMMA InitTurn == TurnInit => TurnInv
  BY DEF TurnInit, Init, TurnInv, TurnOf, Stages, Over, Permits

\* Whatever the turns do, the limiter takes its own steps: what is proved of the
\* limiter holds of the requests that share it.
THEOREM TurnsUseLimiter == TurnSpec => Spec
<1>1. [TurnNext]_allVars => [Next]_vars
  BY DEF TurnNext, Clock, BeginTurn, Proceed, StartAttempt, PermitArrives, Responds,
         AttemptFails, RetryDelayEnds, LeaseEnds, Abort, Next, Release, allVars
<1>2. TurnInit => Init
  BY DEF TurnInit
<1> QED BY <1>1, <1>2, PTL DEF TurnSpec, Spec

\* All three always hold.
LEMMA AlwaysTurn == TurnSpec => []TurnInv /\ []LimiterOK /\ []Conserved
<1>1. TurnSpec => []LimiterOK /\ []Conserved
  BY TurnsUseLimiter, AlwaysLimiter
<1> QED BY <1>1, TurnStep, InitTurn, PTL DEF TurnSpec

\* No permit leaks and none is used twice: the stage of each turn says whether it
\* has one, and the limiter counts exactly those that are out.
THEOREM NoPermitLeaks == TurnSpec => []PermitFollowsTurn
<1>1. TurnInv /\ LimiterOK => PermitFollowsTurn
  BY DEF TurnInv, TurnOf, LimiterOK, Counted, HoldersIn, PermitFollowsTurn, CountsPermits,
         Holders
<1> QED BY <1>1, AlwaysTurn, PTL

\* An aborted turn is granted no permit and begins no other attempt.
THEOREM AbortIsHeeded == TurnSpec => AbortStopsTurn
<1>1. TurnInv /\ LimiterOK /\ Conserved /\ [TurnNext]_allVars
        => [\A c \in Callers : AbortRespected(c)]_allVars
  BY TurnStep
<1>2. TurnSpec => [][\A c \in Callers : AbortRespected(c)]_allVars
  BY <1>1, AlwaysTurn, PTL DEF TurnSpec
<1> QED BY <1>2 DEF AbortStopsTurn, AbortRespected
=============================================================================
