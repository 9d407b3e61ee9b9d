----------------------------- MODULE StudyProofs -----------------------------
(***************************************************************************)
(* What a study promises, proved for every value of its constants.         *)
(* IsolationProofs has the workspace, the sandbox, the faults, the skills  *)
(* and the texts they are read from; here are the tournament, the matrix with its histories and its  *)
(* catalog, the binding and the ledger of a sweep, the budget, the terms   *)
(* of requests, the evaluation and the dialog, each with its inductive     *)
(* invariant, and at the end StudyInv, their conjunction.  The sums that   *)
(* ledgers, budgets and grades keep are in FoldTheorems.                   *)
(***************************************************************************)
EXTENDS Study, IsolationProofs, FoldTheorems

-----------------------------------------------------------------------------
(* The schedule of a tournament.  The circle method turns all seats but one,   *)
(* an odd number of them, by one a round: the two seats of a match add up, but *)
(* for whole turns, to a number that tells the round.                          *)

\* The remainder of what is off by less than one turn.
LEMMA Residue ==
    ASSUME NEW k \in Nat \ {0}, NEW v \in Int, -k <= v, v < k
    PROVE  v % k = IF v < 0 THEN v + k ELSE v
  OBVIOUS

\* The seats of the circle method, without remainders.
SeatOf(n, r, i) == IF i = 1 THEN 1 ELSE IF i > r THEN i + 1 - r ELSE i - r + n

\* Rotated is what its name says.
LEMMA RotatedIs ==
    ASSUME NEW n \in Nat, n >= 2, NEW r \in 1..(n - 1), NEW i \in 1..n
    PROVE  Rotated(n, r, i) = SeatOf(n, r, i)
  <1>1. CASE i = 1
    BY <1>1 DEF Rotated, SeatOf
  <1>2. CASE i # 1
    <2> DEFINE v == i - 2 - (r - 1)
    <2>1. v \in Int /\ -(n - 1) <= v /\ v < n - 1 /\ n - 1 \in Nat \ {0}
      BY <1>2
    <2>2. v % (n - 1) = IF v < 0 THEN v + (n - 1) ELSE v
      BY <2>1, Residue
    <2>3. Rotated(n, r, i) = 2 + (v % (n - 1))
      BY <1>2 DEF Rotated
    <2> QED
      BY <1>2, <2>2, <2>3 DEF SeatOf
  <1> QED
    BY <1>1, <1>2

\* The first and the second seat of a match, and the two of them.
LeftSeat(h, r, m) == SeatOf(2 * h, r, m + 1)

RightSeat(h, r, m) == SeatOf(2 * h, r, 2 * h - m)

Meeting(h, r, m) == {LeftSeat(h, r, m), RightSeat(h, r, m)}

\* In a round every seat is taken, and by one match.
LEMMA SeatsOfRound ==
    ASSUME NEW h \in Nat \ {0}, NEW r \in 1..(2 * h - 1)
    PROVE  /\ \A m \in 0..(h - 1) : /\ LeftSeat(h, r, m) \in 1..(2 * h)
                                    /\ RightSeat(h, r, m) \in 1..(2 * h)
                                    /\ LeftSeat(h, r, m) # RightSeat(h, r, m)
           /\ \A m, k \in 0..(h - 1) : m # k => Meeting(h, r, m) \cap Meeting(h, r, k) = {}
           /\ \A s \in 1..(2 * h) : \E m \in 0..(h - 1) : s \in Meeting(h, r, m)
  <1>1. \A m \in 0..(h - 1) : /\ LeftSeat(h, r, m) \in 1..(2 * h)
                              /\ RightSeat(h, r, m) \in 1..(2 * h)
                              /\ LeftSeat(h, r, m) # RightSeat(h, r, m)
    BY DEF LeftSeat, RightSeat, SeatOf
  <1>2. ASSUME NEW m \in 0..(h - 1), NEW k \in 0..(h - 1), m # k
        PROVE  Meeting(h, r, m) \cap Meeting(h, r, k) = {}
    <2>1. LeftSeat(h, r, m) # LeftSeat(h, r, k)
      BY <1>2 DEF LeftSeat, SeatOf
    <2>2. LeftSeat(h, r, m) # RightSeat(h, r, k)
      BY <1>2 DEF LeftSeat, RightSeat, SeatOf
    <2>3. RightSeat(h, r, m) # LeftSeat(h, r, k)
      BY <1>2 DEF LeftSeat, RightSeat, SeatOf
    <2>4. RightSeat(h, r, m) # RightSeat(h, r, k)
      BY <1>2 DEF RightSeat, SeatOf
    <2> QED
      BY <2>1, <2>2, <2>3, <2>4 DEF Meeting
  <1>3. ASSUME NEW s \in 1..(2 * h)
        PROVE  \E m \in 0..(h - 1) : s \in Meeting(h, r, m)
    <2> DEFINE i == IF s = 1 THEN 1 ELSE IF s + r - 1 <= 2 * h THEN s + r - 1 ELSE s + r - 2 * h
    <2>1. i \in 1..(2 * h) /\ SeatOf(2 * h, r, i) = s
      BY DEF SeatOf
    <2> HIDE DEF i
    <2>2. CASE i <= h
      <3>1. i - 1 \in 0..(h - 1) /\ LeftSeat(h, r, i - 1) = s
        BY <2>1, <2>2 DEF LeftSeat
      <3> QED
        BY <3>1 DEF Meeting
    <2>3. CASE i > h
      <3>1. 2 * h - i \in 0..(h - 1) /\ 2 * h - (2 * h - i) = i
        BY <2>1, <2>3
      <3>2. RightSeat(h, r, 2 * h - i) = s
        BY <2>1, <3>1 DEF RightSeat
      <3> QED
        BY <3>1, <3>2 DEF Meeting
    <2> QED
      BY <2>1, <2>2, <2>3
  <1> QED
    BY <1>1, <1>2, <1>3

\* The sum of the two seats of a match tells the round.
LEMMA SumOfSeats ==
    ASSUME NEW h \in Nat \ {0}, NEW r \in 1..(2 * h - 1), NEW m \in 0..(h - 1)
    PROVE  LET k == 2 * h - 1
           IN /\ m = 0 => LeftSeat(h, r, m) = 1 /\ RightSeat(h, r, m) = k + 2 - r
              /\ m > 0 => /\ LeftSeat(h, r, m) # 1 /\ RightSeat(h, r, m) # 1
                          /\ \E c \in 1..3 : LeftSeat(h, r, m) + RightSeat(h, r, m) = 4 + c * k - 2 * r
  <1>1. m = 0 => LeftSeat(h, r, m) = 1 /\ RightSeat(h, r, m) = 2 * h - 1 + 2 - r
    BY DEF LeftSeat, RightSeat, SeatOf
  <1>2. ASSUME m > 0
        PROVE  /\ LeftSeat(h, r, m) # 1 /\ RightSeat(h, r, m) # 1
               /\ \/ LeftSeat(h, r, m) + RightSeat(h, r, m) = 4 + (2 * h - 1) - 2 * r
                  \/ LeftSeat(h, r, m) + RightSeat(h, r, m) = 4 + 2 * (2 * h - 1) - 2 * r
                  \/ LeftSeat(h, r, m) + RightSeat(h, r, m) = 4 + 3 * (2 * h - 1) - 2 * r
    BY <1>2 DEF LeftSeat, RightSeat, SeatOf
  <1> QED
    BY <1>1, <1>2

\* No two seats meet in two rounds.
LEMMA MeetOnce ==
    ASSUME NEW h \in Nat \ {0}, NEW r \in 1..(2 * h - 1), NEW q \in 1..(2 * h - 1),
           NEW m \in 0..(h - 1), NEW k \in 0..(h - 1), Meeting(h, r, m) = Meeting(h, q, k)
    PROVE  r = q /\ m = k
  <1> DEFINE a == LeftSeat(h, r, m)
             b == RightSeat(h, r, m)
             c == LeftSeat(h, q, k)
             d == RightSeat(h, q, k)
  <1>1. a \in Int /\ b \in Int /\ c \in Int /\ d \in Int /\ a # b /\ c # d
    BY SeatsOfRound
  <1>2. {a, b} = {c, d}
    BY DEF Meeting
  <1>3. a + b = c + d /\ (1 \in {a, b} <=> 1 \in {c, d})
    BY <1>1, <1>2
  <1>4. (m = 0 => a = 1 /\ b = 2 * h + 1 - r) /\ (m > 0 => a # 1 /\ b # 1)
    BY SumOfSeats
  <1>5. (k = 0 => c = 1 /\ d = 2 * h + 1 - q) /\ (k > 0 => c # 1 /\ d # 1)
    BY SumOfSeats
  <1>6. m = 0 <=> k = 0
    BY <1>3, <1>4, <1>5
  <1>7. r = q
    <2>1. CASE m = 0
      BY <1>3, <1>4, <1>5, <1>6, <2>1
    <2>2. CASE m > 0
      <3>1. PICK x \in 1..3 : a + b = 4 + x * (2 * h - 1) - 2 * r
        BY <2>2, SumOfSeats
      <3>2. PICK y \in 1..3 : c + d = 4 + y * (2 * h - 1) - 2 * q
        BY <1>6, <2>2, SumOfSeats
      <3>3. x * (2 * h - 1) - 2 * r = y * (2 * h - 1) - 2 * q
        BY <1>3, <3>1, <3>2
      <3>4. x \in {1, 2, 3} /\ y \in {1, 2, 3}
        OBVIOUS
      <3> HIDE DEF a, b, c, d
      <3> QED
        BY <3>3, <3>4
    <2> QED
      BY <2>1, <2>2
  <1>8. m = k
    BY <1>1, <1>2, <1>7, SeatsOfRound DEF Meeting
  <1> QED
    BY <1>7, <1>8

\* Any two seats meet in some round.
LEMMA AllMeet ==
    ASSUME NEW h \in Nat \ {0}, NEW s \in 1..(2 * h), NEW t \in 1..(2 * h), s < t
    PROVE  \E r \in 1..(2 * h - 1) : \E m \in 0..(h - 1) : Meeting(h, r, m) = {s, t}
  <1>1. CASE s = 1
    <2>1. 2 * h + 1 - t \in 1..(2 * h - 1) /\ 0 \in 0..(h - 1)
      BY <1>1
    <2>2. LeftSeat(h, 2 * h + 1 - t, 0) = 1 /\ RightSeat(h, 2 * h + 1 - t, 0) = t
      BY <2>1 DEF LeftSeat, RightSeat, SeatOf
    <2> QED
      BY <1>1, <2>1, <2>2 DEF Meeting
  <1>2. CASE s > 1
    <2> DEFINE k == 2 * h - 1
    <2>1. \E r \in 1..k : \E x \in 1..3 : s + t = 4 + x * k - 2 * r
      <3> DEFINE u == (s + t) \div 2
      <3>1. u \in Int /\ (s + t = 2 * u \/ s + t = 2 * u + 1)
        OBVIOUS
      <3> HIDE DEF u
      <3>2. CASE s + t = 2 * u
        <4>1. k + 2 - u \in 1..k /\ s + t = 4 + 2 * k - 2 * (k + 2 - u)
          BY <1>2, <3>1, <3>2
        <4> QED
          BY <4>1
      <3>3. CASE s + t = 2 * u + 1 /\ s + t - 4 < k
        <4>1. h + 1 - u \in 1..k /\ s + t = 4 + 1 * k - 2 * (h + 1 - u)
          BY <1>2, <3>1, <3>3
        <4> QED
          BY <4>1
      <3>4. CASE s + t = 2 * u + 1 /\ s + t - 4 >= k
        <4>1. 3 * h - u \in 1..k /\ s + t = 4 + 3 * k - 2 * (3 * h - u)
          BY <1>2, <3>1, <3>4
        <4> QED
          BY <4>1
      <3> QED
        BY <3>1, <3>2, <3>3, <3>4
    <2>2. PICK r \in 1..k, x \in 1..3 : s + t = 4 + x * k - 2 * r
      BY <2>1
    <2>3. PICK m \in 0..(h - 1) : s \in Meeting(h, r, m)
      BY SeatsOfRound
    <2> DEFINE a == LeftSeat(h, r, m)
               b == RightSeat(h, r, m)
    <2>4. a \in 1..(2 * h) /\ b \in 1..(2 * h) /\ (s = a \/ s = b)
      BY <2>3, SeatsOfRound DEF Meeting
    <2>5. (m = 0 => a = 1 /\ b = k + 2 - r) /\ (m > 0 => a # 1 /\ b # 1)
      BY SumOfSeats
    <2>6. m > 0 => \E c \in 1..3 : a + b = 4 + c * k - 2 * r
      BY SumOfSeats
    <2> HIDE DEF a, b
    <2>7. x \in {1, 2, 3}
      OBVIOUS
    <2>8. m > 0
      BY <1>2, <2>2, <2>4, <2>5, <2>7
    <2>9. PICK c \in 1..3 : a + b = 4 + c * k - 2 * r
      BY <2>6, <2>8
    <2>10. c \in {1, 2, 3}
      OBVIOUS
    <2>11. {a, b} = {s, t}
      BY <1>2, <2>2, <2>4, <2>5, <2>7, <2>8, <2>9, <2>10
    <2> QED
      BY <2>11 DEF Meeting, a, b
  <1> QED
    BY <1>1, <1>2

\* The powers of two grow faster than their exponents.
LEMMA DoubledGrows ==
    ASSUME NEW n \in Nat
    PROVE  \A k \in 0..n : Doubled(n)[k] \in Nat /\ Doubled(n)[k] > k
  <1> DEFINE S == Nat
             base == 1
             step == [p \in S \X (1..n) |-> 2 * p[1]]
             twice == CHOOSE f : f = [k \in 0..n |-> IF k = 0 THEN 1 ELSE 2 * f[k - 1]]
  <1>1. StaysWithin(step, S, n) /\ base \in S
    BY DEF StaysWithin
  <1>2. \A s \in S, i \in 1..n : step[<<s, i>>] = 2 * s
    OBVIOUS
  <1> HIDE DEF step, S, base
  <1>3. PICK f : Follows(f, S, n, base, step)
    BY ONLY <1>1, Recursion, n \in Nat
  <1>4. f \in [0..n -> Nat] /\ f[0] = 1 /\ \A i \in 1..n : f[i] = 2 * f[i - 1]
    <2>1. \A i \in 1..n : i - 1 \in 0..n
      OBVIOUS
    <2> QED
      BY <1>2, <1>3, <2>1 DEF Follows, S, base
  <1>5. f = [k \in 0..n |-> IF k = 0 THEN 1 ELSE 2 * f[k - 1]]
    <2>1. \A k \in 0..n : k # 0 => k \in 1..n
      OBVIOUS
    <2>2. \A k \in 0..n : f[k] = IF k = 0 THEN 1 ELSE 2 * f[k - 1]
      BY <1>4, <2>1
    <2> QED
      BY <1>4, <2>2
  <1>6. twice = [k \in 0..n |-> IF k = 0 THEN 1 ELSE 2 * twice[k - 1]]
    BY <1>5
  <1>7. Doubled(n) = twice
    BY DEF Doubled
  <1> HIDE DEF twice
  <1> DEFINE Has == {k \in Nat : k <= n => twice[k] \in Nat /\ twice[k] > k}
  <1>8. 0 \in Has
    BY <1>6
  <1>9. ASSUME NEW k \in Nat, k \in Has PROVE k + 1 \in Has
    <2> SUFFICES ASSUME k + 1 <= n PROVE twice[k + 1] \in Nat /\ twice[k + 1] > k + 1
      OBVIOUS
    <2>1. twice[k] \in Nat /\ twice[k] > k /\ k + 1 \in 0..n /\ k + 1 # 0 /\ (k + 1) - 1 = k
      BY <1>9
    <2>2. twice[k + 1] = 2 * twice[k]
      BY <1>6, <2>1
    <2> QED
      BY <2>1, <2>2
  <1>10. Nat \subseteq Has
    <2> HIDE DEF Has
    <2> QED
      BY <1>8, <1>9, AllNat
  <1> QED
    BY <1>7, <1>10

\* A tournament of two or more has a round.
LEMMA RoundsAreCounted ==
    ASSUME NEW n \in Nat, n >= 2, NEW mode
    PROVE  MaximumTournamentRounds(mode, n) \in Nat \ {0}
  <1>1. CeilLog2(n) \in Nat
    <2> DEFINE T == {k \in 0..n : Doubled(n)[k] >= n}
    <2>1. T \subseteq Nat /\ n \in T
      BY DoubledGrows
    <2>2. PICK x \in T : \A y \in T : x <= y
      BY <2>1, LeastOf
    <2>3. Min(T) \in T
      BY <2>2 DEF Min
    <2> QED
      BY <2>1, <2>3 DEF CeilLog2
  <1>2. n - 1 + (n % 2) \in Nat \ {0}
    OBVIOUS
  <1> QED
    BY <1>1, <1>2 DEF MaximumTournamentRounds

-----------------------------------------------------------------------------
(* The schedule *)

\* Half the seats: as many as there are matches in a full round.
HalfOf(n) == (n + (n % 2)) \div 2

\* The field fills the seats or leaves one empty.
LEMMA HalfIs ==
    ASSUME NEW n \in Nat, n >= 2
    PROVE  /\ HalfOf(n) \in Nat \ {0} /\ n + (n % 2) = 2 * HalfOf(n)
           /\ n \in {2 * HalfOf(n) - 1, 2 * HalfOf(n)} /\ (n + 1) \div 2 = HalfOf(n)
           /\ n % 2 = 2 * HalfOf(n) - n
           /\ (n + (n % 2)) \div 2 = HalfOf(n)
           /\ n = 2 * HalfOf(n) - 1 => HalfOf(n) >= 2
  <1> DEFINE h == (n + 1) \div 2
  <1>1. h \in Nat /\ (n = 2 * h - 1 \/ n = 2 * h)
    OBVIOUS
  <1>2. (n = 2 * h - 1 => n % 2 = 1) /\ (n = 2 * h => n % 2 = 0)
    <2> HIDE DEF h
    <2> QED
      BY <1>1
  <1>3. n + (n % 2) = 2 * h
    BY <1>1, <1>2
  <1>4. (2 * h) \div 2 = h
    <2> HIDE DEF h
    <2> QED
      BY <1>1
  <1> HIDE DEF h
  <1>5. HalfOf(n) = h
    BY <1>3, <1>4 DEF HalfOf
  <1> QED
    BY <1>1, <1>2, <1>3, <1>4, <1>5 DEF h

\* The scenario of a round.
Scenery(scenarios, r) == 1 + ((r - 1) % scenarios)

\* The pairing of a match.
Meets(n, scenarios, r, m) ==
  Pairing(r, m, Scenery(scenarios, r), LeftSeat(HalfOf(n), r, m), RightSeat(HalfOf(n), r, m))

\* What the circle method plans, seat by seat.
LEMMA RoundRobinIs ==
    ASSUME NEW n \in Nat, n >= 2, NEW scenarios, NEW rounds \in 1..(2 * HalfOf(n) - 1)
    PROVE  LET s == RoundRobinSchedule(n, scenarios, rounds)
               h == HalfOf(n)
           IN /\ s.pairings = {Meets(n, scenarios, x[1], x[2]) :
                     x \in {y \in (1..rounds) \X (0..(h - 1)) :
                              LeftSeat(h, y[1], y[2]) <= n /\ RightSeat(h, y[1], y[2]) <= n}}
              /\ s.byes = {Bye(x[1], Min(Meeting(h, x[1], x[2]))) :
                     x \in {y \in (1..rounds) \X (0..(h - 1)) : n < Max(Meeting(h, y[1], y[2]))}}
              /\ s.unplanned = {}
  <1> DEFINE h == HalfOf(n)
             seats == n + (n % 2)
             meetings == (1..rounds) \X (0..(seats \div 2 - 1))
  <1>1. h \in Nat \ {0} /\ seats = 2 * h /\ seats \div 2 = h
    BY HalfIs
  <1> HIDE DEF h, seats
  <1>2. meetings = (1..rounds) \X (0..(h - 1))
    BY <1>1
  <1>3. ASSUME NEW x \in meetings
        PROVE  /\ Rotated(seats, x[1], x[2] + 1) = LeftSeat(h, x[1], x[2])
               /\ Rotated(seats, x[1], seats - x[2]) = RightSeat(h, x[1], x[2])
    <2>1. x[1] \in 1..rounds /\ x[2] \in 0..(h - 1) /\ rounds \in 1..(2 * h - 1)
      BY <1>2, <1>3 DEF h
    <2>2. x[1] \in 1..(2 * h - 1) /\ x[2] + 1 \in 1..(2 * h) /\ 2 * h - x[2] \in 1..(2 * h) /\ 2 * h \in Nat /\ 2 * h >= 2
      BY <1>1, <2>1
    <2> QED
      BY <1>1, <2>2, RotatedIs DEF LeftSeat, RightSeat
  <1> DEFINE s == RoundRobinSchedule(n, scenarios, rounds)
  <1>4. s = [pairings |-> {Pairing(x[1], x[2], Scenery(scenarios, x[1]), Rotated(seats, x[1], x[2] + 1), Rotated(seats, x[1], seats - x[2])) :
                x \in {y \in meetings : Rotated(seats, y[1], y[2] + 1) <= n /\ Rotated(seats, y[1], seats - y[2]) <= n}},
             byes |-> {Bye(x[1], Min({Rotated(seats, x[1], x[2] + 1), Rotated(seats, x[1], seats - x[2])})) :
                x \in {y \in meetings : n < Max({Rotated(seats, y[1], y[2] + 1), Rotated(seats, y[1], seats - y[2])})}},
             unplanned |-> {}]
    BY DEF RoundRobinSchedule, Scenery, seats
  <1> HIDE DEF s, meetings
  <1>5. s.pairings = {Meets(n, scenarios, x[1], x[2]) :
                     x \in {y \in meetings : LeftSeat(h, y[1], y[2]) <= n /\ RightSeat(h, y[1], y[2]) <= n}}
    <2>1. \A x \in meetings : Meets(n, scenarios, x[1], x[2]) =
            Pairing(x[1], x[2], Scenery(scenarios, x[1]), Rotated(seats, x[1], x[2] + 1), Rotated(seats, x[1], seats - x[2]))
      BY <1>3 DEF Meets, h
    <2>2. {y \in meetings : LeftSeat(h, y[1], y[2]) <= n /\ RightSeat(h, y[1], y[2]) <= n} =
          {y \in meetings : Rotated(seats, y[1], y[2] + 1) <= n /\ Rotated(seats, y[1], seats - y[2]) <= n}
      BY <1>3
    <2>3. s.pairings = {Pairing(x[1], x[2], Scenery(scenarios, x[1]), Rotated(seats, x[1], x[2] + 1), Rotated(seats, x[1], seats - x[2])) :
                x \in {y \in meetings : Rotated(seats, y[1], y[2] + 1) <= n /\ Rotated(seats, y[1], seats - y[2]) <= n}}
      BY <1>4
    <2> QED
      BY <2>1, <2>2, <2>3
  <1>6. s.byes = {Bye(x[1], Min(Meeting(h, x[1], x[2]))) :
                     x \in {y \in meetings : n < Max(Meeting(h, y[1], y[2]))}}
    <2>1. \A x \in meetings : Meeting(h, x[1], x[2]) = {Rotated(seats, x[1], x[2] + 1), Rotated(seats, x[1], seats - x[2])}
      BY <1>3 DEF Meeting
    <2>2. s.byes = {Bye(x[1], Min({Rotated(seats, x[1], x[2] + 1), Rotated(seats, x[1], seats - x[2])})) :
                x \in {y \in meetings : n < Max({Rotated(seats, y[1], y[2] + 1), Rotated(seats, y[1], seats - y[2])})}}
      BY <1>4
    <2> QED
      BY <2>1, <2>2
  <1>7. s.unplanned = {}
    BY <1>4
  <1> QED
    BY <1>2, <1>5, <1>6, <1>7 DEF s, h

\* What the round robin pairs, and whom it lets sit out.
Pairings(n, scenarios, rounds) == RoundRobinSchedule(n, scenarios, rounds).pairings

Byes(n, scenarios, rounds) == RoundRobinSchedule(n, scenarios, rounds).byes

\* A pairing is a meeting of two seats that are not empty.
LEMMA PairingsAre ==
    ASSUME NEW n \in Nat, n >= 2, NEW scenarios \in Nat \ {0}, NEW rounds \in 1..(2 * HalfOf(n) - 1)
    PROVE  /\ \A p \in Pairings(n, scenarios, rounds) :
                /\ p.roundNumber \in 1..rounds /\ p.matchIndex \in 0..(HalfOf(n) - 1)
                /\ p = Meets(n, scenarios, p.roundNumber, p.matchIndex)
                /\ {p.a, p.b} = Meeting(HalfOf(n), p.roundNumber, p.matchIndex)
                /\ p.a \in 1..n /\ p.b \in 1..n /\ p.a # p.b
                /\ p.scenario \in 1..scenarios
           /\ \A r \in 1..rounds, m \in 0..(HalfOf(n) - 1) :
                Meeting(HalfOf(n), r, m) \subseteq 1..n =>
                  \E p \in Pairings(n, scenarios, rounds) :
                    /\ p.roundNumber = r /\ p.matchIndex = m
                    /\ {p.a, p.b} = Meeting(HalfOf(n), r, m)
  <1> DEFINE h == HalfOf(n)
             meetings == (1..rounds) \X (0..(h - 1))
             played == {y \in meetings : LeftSeat(h, y[1], y[2]) <= n /\ RightSeat(h, y[1], y[2]) <= n}
  <1>0. h \in Nat \ {0}
    BY HalfIs
  <1>1. Pairings(n, scenarios, rounds) = {Meets(n, scenarios, x[1], x[2]) : x \in played}
    BY RoundRobinIs DEF Pairings
  <1>2. ASSUME NEW r \in 1..rounds, NEW m \in 0..(h - 1)
        PROVE  LET p == Meets(n, scenarios, r, m)
               IN /\ p.roundNumber = r /\ p.matchIndex = m /\ p.scenario \in 1..scenarios
                  /\ p.a = LeftSeat(h, r, m) /\ p.b = RightSeat(h, r, m)
                  /\ {p.a, p.b} = Meeting(h, r, m)
                  /\ p.a \in 1..(2 * h) /\ p.b \in 1..(2 * h) /\ p.a # p.b
    <2>1. r \in 1..(2 * h - 1)
      BY <1>0
    <2>2. Scenery(scenarios, r) \in 1..scenarios
      BY DEF Scenery
    <2> HIDE DEF h
    <2>3. /\ LeftSeat(h, r, m) \in 1..(2 * h) /\ RightSeat(h, r, m) \in 1..(2 * h)
          /\ LeftSeat(h, r, m) # RightSeat(h, r, m)
      BY <1>0, <2>1, SeatsOfRound
    <2> DEFINE p == Meets(n, scenarios, r, m)
    <2>4. p = [roundNumber |-> r, matchIndex |-> m, scenario |-> Scenery(scenarios, r),
               a |-> LeftSeat(h, r, m), b |-> RightSeat(h, r, m)]
      BY DEF Meets, Pairing, h
    <2> HIDE DEF p
    <2>5. /\ p.roundNumber = r /\ p.matchIndex = m /\ p.scenario = Scenery(scenarios, r)
          /\ p.a = LeftSeat(h, r, m) /\ p.b = RightSeat(h, r, m)
      BY <2>4
    <2> QED
      BY <2>2, <2>3, <2>5 DEF Meeting, p
  <1>3. ASSUME NEW p \in Pairings(n, scenarios, rounds)
        PROVE  /\ p.roundNumber \in 1..rounds /\ p.matchIndex \in 0..(h - 1)
               /\ p = Meets(n, scenarios, p.roundNumber, p.matchIndex)
               /\ {p.a, p.b} = Meeting(h, p.roundNumber, p.matchIndex)
               /\ p.a \in 1..n /\ p.b \in 1..n /\ p.a # p.b
               /\ p.scenario \in 1..scenarios
    <2>1. PICK x \in played : p = Meets(n, scenarios, x[1], x[2])
      BY <1>1
    <2>2. x[1] \in 1..rounds /\ x[2] \in 0..(h - 1)
          /\ LeftSeat(h, x[1], x[2]) <= n /\ RightSeat(h, x[1], x[2]) <= n
      OBVIOUS
    <2> HIDE DEF h
    <2> QED
      BY <1>2, <2>1, <2>2
  <1>4. ASSUME NEW r \in 1..rounds, NEW m \in 0..(h - 1), Meeting(h, r, m) \subseteq 1..n
        PROVE  \E p \in Pairings(n, scenarios, rounds) :
                    /\ p.roundNumber = r /\ p.matchIndex = m /\ {p.a, p.b} = Meeting(h, r, m)
    <2>1. LeftSeat(h, r, m) \in 1..n /\ RightSeat(h, r, m) \in 1..n
      BY <1>4 DEF Meeting
    <2>2. <<r, m>> \in played
      BY <2>1
    <2>3. Meets(n, scenarios, r, m) \in Pairings(n, scenarios, rounds)
      BY <1>1, <2>2
    <2> HIDE DEF h
    <2> QED
      BY <1>2, <2>3
  <1> QED
    BY <1>3, <1>4

\* In an odd field each round has one bye, that of the empty seat's partner.
LEMMA ByesAre ==
    ASSUME NEW n \in Nat, n >= 2, NEW scenarios, NEW rounds \in 1..(2 * HalfOf(n) - 1)
    PROVE  LET h == HalfOf(n)
               byes == Byes(n, scenarios, rounds)
           IN /\ n = 2 * h => byes = {}
              /\ \A x \in byes :
                   /\ x.roundNumber \in 1..rounds /\ x.model \in 1..n
                   /\ x = Bye(x.roundNumber, x.model)
                   /\ \E m \in 0..(h - 1) : Meeting(h, x.roundNumber, m) = {x.model, 2 * h}
              /\ \A x, y \in byes : x.roundNumber = y.roundNumber => x = y
              /\ \A r \in 1..rounds : n = 2 * h - 1 => \E x \in byes : x.roundNumber = r
              /\ Cardinality(byes) = IF n % 2 = 0 THEN 0 ELSE rounds
  <1> DEFINE h == HalfOf(n)
             byes == Byes(n, scenarios, rounds)
             meetings == (1..rounds) \X (0..(h - 1))
             empty == {y \in meetings : n < Max(Meeting(h, y[1], y[2]))}
  <1>0. h \in Nat \ {0} /\ n \in {2 * h - 1, 2 * h} /\ n % 2 = 2 * h - n
    BY HalfIs
  <1>1. byes = {Bye(x[1], Min(Meeting(h, x[1], x[2]))) : x \in empty}
    BY RoundRobinIs DEF Byes
  <1> HIDE DEF h, byes
  <1>2. ASSUME NEW r \in 1..rounds, NEW m \in 0..(h - 1)
        PROVE  LET a == LeftSeat(h, r, m)  b == RightSeat(h, r, m)
               IN /\ a \in 1..(2 * h) /\ b \in 1..(2 * h) /\ a # b
                  /\ Min(Meeting(h, r, m)) = IF a <= b THEN a ELSE b
                  /\ Max(Meeting(h, r, m)) = IF a >= b THEN a ELSE b
    <2>1. r \in 1..(2 * h - 1)
      BY <1>0 DEF h
    <2>2. /\ LeftSeat(h, r, m) \in 1..(2 * h) /\ RightSeat(h, r, m) \in 1..(2 * h)
          /\ LeftSeat(h, r, m) # RightSeat(h, r, m)
      BY <1>0, <2>1, SeatsOfRound
    <2>3. LeftSeat(h, r, m) \in Int /\ RightSeat(h, r, m) \in Int
      BY <2>2
    <2> QED
      BY <2>2, <2>3, OfTwo DEF Meeting
  <1>3. n = 2 * h => byes = {}
    <2> SUFFICES ASSUME n = 2 * h, NEW x \in empty PROVE FALSE
      BY <1>1
    <2>1. x[1] \in 1..rounds /\ x[2] \in 0..(h - 1) /\ n < Max(Meeting(h, x[1], x[2]))
      OBVIOUS
    <2> QED
      BY <1>2, <2>1
  <1>4. ASSUME NEW x \in byes
        PROVE  /\ x.roundNumber \in 1..rounds /\ x.model \in 1..n
               /\ x = Bye(x.roundNumber, x.model)
               /\ \E m \in 0..(h - 1) : Meeting(h, x.roundNumber, m) = {x.model, 2 * h}
    <2>1. PICK y \in empty : x = Bye(y[1], Min(Meeting(h, y[1], y[2])))
      BY <1>1
    <2>2. y[1] \in 1..rounds /\ y[2] \in 0..(h - 1) /\ n < Max(Meeting(h, y[1], y[2]))
      OBVIOUS
    <2> DEFINE a == LeftSeat(h, y[1], y[2])
               b == RightSeat(h, y[1], y[2])
    <2>3. /\ a \in 1..(2 * h) /\ b \in 1..(2 * h) /\ a # b
          /\ Min(Meeting(h, y[1], y[2])) = IF a <= b THEN a ELSE b
          /\ n < IF a >= b THEN a ELSE b
      BY <1>2, <2>2
    <2>4. Meeting(h, y[1], y[2]) = {a, b}
      BY DEF Meeting
    <2> HIDE DEF a, b
    <2>5. /\ Min(Meeting(h, y[1], y[2])) \in 1..n
          /\ Meeting(h, y[1], y[2]) = {Min(Meeting(h, y[1], y[2])), 2 * h}
      BY <1>0, <2>3, <2>4
    <2>6. x.roundNumber = y[1] /\ x.model = Min(Meeting(h, y[1], y[2]))
      BY <2>1 DEF Bye
    <2> QED
      BY <2>1, <2>2, <2>5, <2>6
  <1>5. ASSUME NEW x \in byes, NEW y \in byes, x.roundNumber = y.roundNumber PROVE x = y
    <2>1. PICK m \in 0..(h - 1) : Meeting(h, x.roundNumber, m) = {x.model, 2 * h}
      BY <1>4
    <2>2. PICK k \in 0..(h - 1) : Meeting(h, x.roundNumber, k) = {y.model, 2 * h}
      BY <1>4, <1>5
    <2>3. x.roundNumber \in 1..(2 * h - 1)
      BY <1>0, <1>4 DEF h
    <2>4. m = k
      BY <1>0, <2>1, <2>2, <2>3, SeatsOfRound
    <2>5. x.model \in 1..n /\ y.model \in 1..n /\ n < 2 * h
      <3>1. n # 2 * h
        BY <1>3
      <3>2. x.model \in 1..n /\ y.model \in 1..n
        BY <1>4
      <3>3. n < 2 * h
        BY <1>0, <3>1
      <3> QED
        BY <3>2, <3>3
    <2>6. {x.model, 2 * h} = {y.model, 2 * h} /\ x.model # 2 * h /\ y.model # 2 * h
      <3>1. {x.model, 2 * h} = {y.model, 2 * h}
        BY <2>1, <2>2, <2>4, Zenon
      <3>2. x.model # 2 * h /\ y.model # 2 * h
        BY <1>0, <2>5
      <3> QED
        BY <3>1, <3>2
    <2>7. x.model = y.model
      BY <2>6
    <2> QED
      BY <1>4, <1>5, <2>7
  <1>6. ASSUME NEW r \in 1..rounds, n = 2 * h - 1 PROVE \E x \in byes : x.roundNumber = r
    <2>1. r \in 1..(2 * h - 1) /\ 2 * h \in 1..(2 * h)
      BY <1>0 DEF h
    <2>2. PICK m \in 0..(h - 1) : 2 * h \in Meeting(h, r, m)
      BY <1>0, <2>1, SeatsOfRound
    <2>3. n < Max(Meeting(h, r, m))
      <3> DEFINE a == LeftSeat(h, r, m)
                 b == RightSeat(h, r, m)
      <3>1. a \in 1..(2 * h) /\ b \in 1..(2 * h) /\ Max(Meeting(h, r, m)) = IF a >= b THEN a ELSE b
        BY <1>2
      <3>2. a = 2 * h \/ b = 2 * h
        BY <2>2 DEF Meeting
      <3> HIDE DEF a, b
      <3> QED
        BY <1>0, <1>6, <3>1, <3>2
    <2>4. <<r, m>> \in empty
      BY <2>3
    <2>5. Bye(r, Min(Meeting(h, r, m))) \in byes
      BY <1>1, <2>4
    <2> QED
      BY <2>5 DEF Bye
  <1>7. Cardinality(byes) = IF n % 2 = 0 THEN 0 ELSE rounds
    <2>1. CASE n % 2 = 0
      <3>1. byes = {}
        BY <1>0, <1>3, <2>1
      <3> QED
        BY <2>1, <3>1, FS_EmptySet
    <2>2. CASE n % 2 # 0
      <3>1. n = 2 * h - 1
        BY <1>0, <2>2
      <3> DEFINE f == [r \in 1..rounds |-> CHOOSE x \in byes : x.roundNumber = r]
      <3>2. \A r \in 1..rounds : f[r] \in byes /\ f[r].roundNumber = r
        BY <1>6, <3>1
      <3>3. f \in [1..rounds -> byes]
        BY <3>2
      <3> HIDE DEF f
      <3>4. f \in Bijection(1..rounds, byes)
        <4>1. \A r, q \in 1..rounds : f[r] = f[q] => r = q
          BY <3>2
        <4>2. \A x \in byes : \E r \in 1..rounds : f[r] = x
          <5> SUFFICES ASSUME NEW x \in byes PROVE \E r \in 1..rounds : f[r] = x
            OBVIOUS
          <5>1. x.roundNumber \in 1..rounds
            BY <1>4
          <5>2. f[x.roundNumber] = x
            BY <1>5, <3>2, <5>1
          <5> QED
            BY <5>1, <5>2
        <4> QED
          BY <3>3, <4>1, <4>2 DEF Bijection, Injection, Surjection, IsInjective
      <3>5. ExistsBijection(1..rounds, byes)
        BY <3>4 DEF ExistsBijection
      <3>6. IsFiniteSet(1..rounds) /\ Cardinality(1..rounds) = rounds
        <4>1. rounds \in Int /\ 1 \in Int /\ rounds >= 1
          BY <1>0
        <4> QED
          BY <4>1, FS_Interval
      <3>7. Cardinality(byes) = Cardinality(1..rounds)
        BY ONLY <3>5, <3>6, FS_Bijection
      <3> QED
        BY <2>2, <3>6, <3>7
    <2> QED
      BY <2>1, <2>2
  <1> QED
    BY <1>3, <1>4, <1>5, <1>6, <1>7 DEF byes, h

\* A limit keeps the first pairings.
LEMMA LimitKeepsFirst ==
    ASSUME NEW P, NEW max, max = None \/ max \in Nat \ {0}, NEW first \in P,
           \A q \in P : ~Before(q, first)
    PROVE  Limited(P, max) \subseteq P /\ first \in Limited(P, max)
  <1>1. {q \in P : Before(q, first)} = {}
    OBVIOUS
  <1>2. Cardinality({q \in P : Before(q, first)}) = 0
    BY <1>1, FS_EmptySet
  <1> QED
    BY <1>2 DEF Limited

\* A plan with some of the pairings of a round robin.
RoundRobinPlan(n, scenarios, rounds, P) ==
  [mode |-> "round-robin", models |-> n, scenarios |-> scenarios, rounds |-> rounds,
   pairings |-> P, byes |-> Byes(n, scenarios, rounds),
   unplanned |-> RoundRobinSchedule(n, scenarios, rounds).unplanned]

\* Whatever of a round robin is kept is a sound schedule.
LEMMA RoundRobinIsSound ==
    ASSUME NEW n \in Nat, n >= 2, NEW scenarios \in Nat \ {0},
           NEW rounds \in 1..MaximumTournamentRounds("round-robin", n),
           NEW P, P \subseteq Pairings(n, scenarios, rounds), P # {}
    PROVE  NormalizeTournamentPlan(RoundRobinPlan(n, scenarios, rounds, P))
  <1> DEFINE h == HalfOf(n)
             planned == RoundRobinPlan(n, scenarios, rounds, P)
  <1>0. h \in Nat \ {0} /\ n \in {2 * h - 1, 2 * h} /\ n % 2 = 2 * h - n /\ (n + 1) \div 2 = h
    BY HalfIs
  <1>1. MaximumTournamentRounds("round-robin", n) = 2 * h - 1 /\ rounds \in 1..(2 * h - 1)
    BY <1>0 DEF MaximumTournamentRounds
  <1>12. \A r \in 1..rounds : r \in 1..(2 * h - 1)
    BY <1>0, <1>1
  <1>13. h \in Nat \ {0}
    BY <1>0
  <1> HIDE DEF h
  <1>2. /\ planned.mode = "round-robin" /\ planned.models = n /\ planned.scenarios = scenarios
        /\ planned.rounds = rounds /\ planned.pairings = P
        /\ planned.byes = Byes(n, scenarios, rounds) /\ planned.unplanned = {}
    BY <1>1, RoundRobinIs DEF RoundRobinPlan, h
  <1> HIDE DEF planned
  <1>3. \A p \in P :
          /\ p.roundNumber \in 1..rounds /\ p.matchIndex \in 0..(h - 1)
          /\ p = Meets(n, scenarios, p.roundNumber, p.matchIndex)
          /\ {p.a, p.b} = Meeting(h, p.roundNumber, p.matchIndex)
          /\ p.a \in 1..n /\ p.b \in 1..n /\ p.a # p.b
          /\ p.scenario \in 1..scenarios
    <2>1. rounds \in 1..(2 * HalfOf(n) - 1)
      BY <1>1 DEF h
    <2> QED
      BY <2>1, PairingsAre DEF h
  <1>4. /\ \A x \in planned.byes :
             /\ x.roundNumber \in 1..rounds /\ x.model \in 1..n
             /\ \E m \in 0..(h - 1) : Meeting(h, x.roundNumber, m) = {x.model, 2 * h}
        /\ \A x, y \in planned.byes : x.roundNumber = y.roundNumber => x = y
        /\ Cardinality(planned.byes) = IF n % 2 = 0 THEN 0 ELSE rounds
        /\ n = 2 * h => planned.byes = {}
    <2>1. rounds \in 1..(2 * HalfOf(n) - 1)
      BY <1>1 DEF h
    <2>2. /\ n = 2 * h => Byes(n, scenarios, rounds) = {}
          /\ \A x \in Byes(n, scenarios, rounds) :
               /\ x.roundNumber \in 1..rounds /\ x.model \in 1..n
               /\ \E m \in 0..(h - 1) : Meeting(h, x.roundNumber, m) = {x.model, 2 * h}
          /\ \A x, y \in Byes(n, scenarios, rounds) : x.roundNumber = y.roundNumber => x = y
          /\ Cardinality(Byes(n, scenarios, rounds)) = IF n % 2 = 0 THEN 0 ELSE rounds
      BY <2>1, ByesAre DEF h
    <2>3. planned.byes = Byes(n, scenarios, rounds)
      BY <1>2
    <2> QED
      BY ONLY <2>2, <2>3
  <1>5. ASSUME NEW p \in planned.pairings
        PROVE  /\ SoundPairing(planned, p)
               /\ p.roundNumber \notin planned.unplanned /\ p.matchIndex < (planned.models + 1) \div 2
    <2>1. /\ p.roundNumber \in 1..rounds /\ p.matchIndex \in 0..(h - 1)
          /\ p.a \in 1..n /\ p.b \in 1..n /\ p.a # p.b
          /\ p.scenario \in 1..scenarios
      BY <1>2, <1>3
    <2>2. p.matchIndex >= 0 /\ p.matchIndex < h
      BY <1>0, <2>1
    <2>3. SoundPairing(planned, p)
      BY <1>2, <2>1, <2>2 DEF SoundPairing
    <2>4. p.roundNumber \notin planned.unplanned
      BY <1>2
    <2>5. p.matchIndex < (planned.models + 1) \div 2
      BY <1>0, <1>2, <2>2
    <2> QED
      BY <2>3, <2>4, <2>5
  <1>7. ASSUME NEW p \in planned.pairings, NEW q \in planned.pairings, p # q
        PROVE  /\ {p.a, p.b} # {q.a, q.b}
               /\ p.roundNumber = q.roundNumber =>
                    p.matchIndex # q.matchIndex /\ {p.a, p.b} \cap {q.a, q.b} = {}
    <2>1. p \in P /\ q \in P
      BY <1>2
    <2>2. ~(p.roundNumber = q.roundNumber /\ p.matchIndex = q.matchIndex)
      <3>1. /\ p = Meets(n, scenarios, p.roundNumber, p.matchIndex)
            /\ q = Meets(n, scenarios, q.roundNumber, q.matchIndex)
        BY <1>3, <2>1
      <3> QED
        BY <1>7, <3>1
    <2>3. /\ {p.a, p.b} = Meeting(h, p.roundNumber, p.matchIndex)
          /\ {q.a, q.b} = Meeting(h, q.roundNumber, q.matchIndex)
          /\ p.roundNumber \in 1..(2 * h - 1) /\ q.roundNumber \in 1..(2 * h - 1)
          /\ p.matchIndex \in 0..(h - 1) /\ q.matchIndex \in 0..(h - 1)
      <3>1. /\ {p.a, p.b} = Meeting(h, p.roundNumber, p.matchIndex)
            /\ {q.a, q.b} = Meeting(h, q.roundNumber, q.matchIndex)
        BY <1>3, <2>1, Zenon
      <3>2. /\ p.roundNumber \in 1..rounds /\ q.roundNumber \in 1..rounds
            /\ p.matchIndex \in 0..(h - 1) /\ q.matchIndex \in 0..(h - 1)
        BY <1>3, <2>1
      <3>3. p.roundNumber \in 1..(2 * h - 1) /\ q.roundNumber \in 1..(2 * h - 1)
        BY <1>12, <3>2, Zenon
      <3> QED
        BY <3>1, <3>2, <3>3
    <2>4. {p.a, p.b} # {q.a, q.b}
      <3>1. \A r, o \in 1..(2 * h - 1), m, k \in 0..(h - 1) :
              Meeting(h, r, m) = Meeting(h, o, k) => r = o /\ m = k
        BY <1>13, MeetOnce
      <3> QED
        BY <2>2, <2>3, <3>1, Zenon
    <2>5. p.roundNumber = q.roundNumber => {p.a, p.b} \cap {q.a, q.b} = {}
      <3>1. ASSUME p.roundNumber = q.roundNumber PROVE {p.a, p.b} \cap {q.a, q.b} = {}
        <4>1. p.matchIndex # q.matchIndex
          BY <2>2, <3>1
        <4>2. \A m, k \in 0..(h - 1) : m # k =>
                Meeting(h, p.roundNumber, m) \cap Meeting(h, p.roundNumber, k) = {}
          <5>1. p.roundNumber \in 1..(2 * h - 1)
            BY <2>3
          <5> QED
            BY <1>13, <5>1, SeatsOfRound, Zenon
        <4> QED
          BY <2>3, <3>1, <4>1, <4>2, Zenon
      <3> QED
        BY <3>1
    <2> QED
      BY <2>2, <2>4, <2>5
  <1>8. \A x, y \in planned.byes : x # y => x.roundNumber # y.roundNumber
    BY <1>4
  <1>9. ASSUME NEW x \in planned.byes
        PROVE  x.roundNumber \notin planned.unplanned /\ x.model \notin Seated(planned, x.roundNumber)
    <2>1. SUFFICES ASSUME x.model \in Seated(planned, x.roundNumber) PROVE FALSE
      BY <1>2
    <2>2. PICK p \in P : p.roundNumber = x.roundNumber /\ (x.model = p.a \/ x.model = p.b)
      BY <1>2, <2>1 DEF Seated, Players
    <2>3. PICK m \in 0..(h - 1) : Meeting(h, x.roundNumber, m) = {x.model, 2 * h}
      BY <1>4
    <2>4. /\ {p.a, p.b} = Meeting(h, x.roundNumber, p.matchIndex) /\ p.matchIndex \in 0..(h - 1)
          /\ p.a \in 1..n /\ p.b \in 1..n
      <3>1. {p.a, p.b} = Meeting(h, p.roundNumber, p.matchIndex)
        BY <1>3, Zenon
      <3>2. p.matchIndex \in 0..(h - 1) /\ p.a \in 1..n /\ p.b \in 1..n
        BY <1>3
      <3> QED
        BY <2>2, <3>1, <3>2
    <2>5. x.roundNumber \in 1..(2 * h - 1)
      <3>1. x.roundNumber \in 1..rounds
        BY <1>4
      <3> QED
        BY <1>0, <1>1, <3>1
    <2>6. x.model \in Meeting(h, x.roundNumber, m) \cap Meeting(h, x.roundNumber, p.matchIndex)
      BY <2>2, <2>3, <2>4
    <2>7. m = p.matchIndex
      BY <1>13, <2>4, <2>5, <2>6, SeatsOfRound, Zenon
    <2>8. 2 * h \in 1..n
      BY <2>3, <2>4, <2>7
    <2>9. n = 2 * h
      BY <1>0, <2>8
    <2> QED
      BY <1>4, <2>9
  <1>10. Cardinality(planned.byes) = ExpectedByes(planned)
    BY <1>2, <1>4 DEF ExpectedByes
  <1>11. SoundSchedule(planned)
    BY <1>5, <1>7, <1>8, <1>9 DEF SoundSchedule
  <1> QED
    BY <1>1, <1>2, <1>4, <1>5, <1>10, <1>11 DEF NormalizeTournamentPlan, planned

\* A full round seats everybody but the bye.
LEMMA RoundIsFull ==
    ASSUME NEW n \in Nat, n >= 2, NEW scenarios \in Nat \ {0},
           NEW rounds \in 1..MaximumTournamentRounds("round-robin", n), NEW r \in 1..rounds
    PROVE  LET planned == RoundRobinPlan(n, scenarios, rounds, Pairings(n, scenarios, rounds))
           IN Seated(planned, r) \cup Sitting(planned, r) = 1..n
  <1> DEFINE h == HalfOf(n)
  <1>0. h \in Nat \ {0} /\ n \in {2 * h - 1, 2 * h} /\ n % 2 = 2 * h - n
    BY HalfIs
  <1>1. rounds \in 1..(2 * h - 1)
    BY <1>0 DEF MaximumTournamentRounds
  <1>2. r \in 1..(2 * h - 1) /\ h \in Nat \ {0}
    BY <1>0, <1>1
  <1>12. rounds \in 1..(2 * HalfOf(n) - 1)
    BY <1>1
  <1> HIDE DEF h
  <1> DEFINE P == Pairings(n, scenarios, rounds)
             planned == RoundRobinPlan(n, scenarios, rounds, P)
  <1>3. planned.pairings = P /\ planned.byes = Byes(n, scenarios, rounds)
    BY DEF RoundRobinPlan
  <1>4. /\ \A p \in P : p.a \in 1..n /\ p.b \in 1..n
        /\ \A m \in 0..(h - 1) : Meeting(h, r, m) \subseteq 1..n =>
             \E p \in P : p.roundNumber = r /\ p.matchIndex = m /\ {p.a, p.b} = Meeting(h, r, m)
    <2>3. /\ \A p \in P : p.a \in 1..n /\ p.b \in 1..n
          /\ \A q \in 1..rounds, m \in 0..(h - 1) : Meeting(h, q, m) \subseteq 1..n =>
               \E p \in P : p.roundNumber = q /\ p.matchIndex = m /\ {p.a, p.b} = Meeting(h, q, m)
      BY <1>12, PairingsAre DEF h
    <2> QED
      BY <2>3
  <1>5. /\ \A x \in planned.byes :
             x.model \in 1..n /\ \E m \in 0..(h - 1) : Meeting(h, x.roundNumber, m) = {x.model, 2 * h}
        /\ n = 2 * h - 1 => \E x \in planned.byes : x.roundNumber = r
    <2>1. \A x \in Byes(n, scenarios, rounds) :
            x.model \in 1..n /\ \E m \in 0..(h - 1) : Meeting(h, x.roundNumber, m) = {x.model, 2 * h}
      BY <1>12, ByesAre DEF h
    <2>2. \A q \in 1..rounds : n = 2 * h - 1 => \E x \in Byes(n, scenarios, rounds) : x.roundNumber = q
      BY <1>12, ByesAre DEF h
    <2>3. planned.byes = Byes(n, scenarios, rounds) /\ r \in 1..rounds
      BY <1>3
    <2> QED
      BY ONLY <2>1, <2>2, <2>3
  <1>6. /\ \A m \in 0..(h - 1) : Meeting(h, r, m) \subseteq 1..(2 * h)
        /\ \A m, k \in 0..(h - 1) : m # k => Meeting(h, r, m) \cap Meeting(h, r, k) = {}
        /\ \A s \in 1..(2 * h) : \E m \in 0..(h - 1) : s \in Meeting(h, r, m)
    <2>1. \A m \in 0..(h - 1) : LeftSeat(h, r, m) \in 1..(2 * h) /\ RightSeat(h, r, m) \in 1..(2 * h)
      BY <1>2, SeatsOfRound
    <2>2. \A m \in 0..(h - 1) : Meeting(h, r, m) \subseteq 1..(2 * h)
      BY <2>1 DEF Meeting
    <2>3. /\ \A m, k \in 0..(h - 1) : m # k => Meeting(h, r, m) \cap Meeting(h, r, k) = {}
          /\ \A s \in 1..(2 * h) : \E m \in 0..(h - 1) : s \in Meeting(h, r, m)
      BY <1>2, SeatsOfRound
    <2> QED
      BY <2>2, <2>3
  <1>7. /\ \A p \in P : p.roundNumber = r => p.a \in Seated(planned, r) /\ p.b \in Seated(planned, r)
        /\ \A s \in Seated(planned, r) : \E p \in P : s = p.a \/ s = p.b
    <2> DEFINE Q == {q \in planned.pairings : q.roundNumber = r}
    <2>1. Players(planned, r) = {<<p.matchIndex, p.a>> : p \in Q} \cup {<<p.matchIndex, p.b>> : p \in Q}
      BY DEF Players
    <2>2. \A p \in P : p.roundNumber = r => p \in Q
      BY <1>3
    <2>3. Q \subseteq P
      BY <1>3
    <2> HIDE DEF Q, P, planned
    <2>4. \A p \in Q : p.a \in Seated(planned, r) /\ p.b \in Seated(planned, r)
      <3> SUFFICES ASSUME NEW p \in Q PROVE p.a \in Seated(planned, r) /\ p.b \in Seated(planned, r)
        OBVIOUS
      <3>1. <<p.matchIndex, p.a>> \in Players(planned, r) /\ <<p.matchIndex, p.b>> \in Players(planned, r)
        BY <2>1
      <3>2. <<p.matchIndex, p.a>>[2] = p.a /\ <<p.matchIndex, p.b>>[2] = p.b
        OBVIOUS
      <3> QED
        BY <3>1, <3>2 DEF Seated
    <2>5. ASSUME NEW s \in Seated(planned, r) PROVE \E p \in Q : s = p.a \/ s = p.b
      <3>1. PICK x \in Players(planned, r) : s = x[2]
        BY DEF Seated
      <3>2. PICK p \in Q : x = <<p.matchIndex, p.a>> \/ x = <<p.matchIndex, p.b>>
        BY <2>1
      <3> QED
        BY <3>1, <3>2
    <2> QED
      BY <2>2, <2>3, <2>4, <2>5
  <1> HIDE DEF P, planned
  <1>8. Seated(planned, r) \subseteq 1..n
    BY <1>4, <1>7
  <1>9. Sitting(planned, r) \subseteq 1..n
    BY <1>5 DEF Sitting
  <1>10. ASSUME NEW s \in 1..n PROVE s \in Seated(planned, r) \cup Sitting(planned, r)
    <2>1. PICK m \in 0..(h - 1) : s \in Meeting(h, r, m)
      BY <1>0, <1>6
    <2>2. CASE Meeting(h, r, m) \subseteq 1..n
      <3>1. PICK p \in P : p.roundNumber = r /\ {p.a, p.b} = Meeting(h, r, m)
        BY <1>4, <2>2
      <3> QED
        BY <1>7, <2>1, <3>1
    <2>3. CASE ~(Meeting(h, r, m) \subseteq 1..n)
      <3>1. n = 2 * h - 1 /\ 2 * h \in Meeting(h, r, m)
        BY <1>0, <1>6, <2>3
      <3>2. PICK x \in planned.byes : x.roundNumber = r
        BY <1>5, <3>1
      <3>3. PICK k \in 0..(h - 1) : Meeting(h, r, k) = {x.model, 2 * h}
        BY <1>5, <3>2
      <3>4. m = k
        BY <1>6, <3>1, <3>3
      <3>5. s # 2 * h
        BY <1>0, <3>1
      <3>6. s = x.model
        BY <2>1, <3>3, <3>4, <3>5
      <3> QED
        BY <3>2, <3>6 DEF Sitting
    <2> QED
      BY <2>2, <2>3
  <1>11. Seated(planned, r) \cup Sitting(planned, r) = 1..n
    BY <1>8, <1>9, <1>10
  <1> QED
    BY <1>11 DEF planned, P

\* Two make a pair.
LEMMA PairsAre ==
    ASSUME NEW S, IsFiniteSet(S)
    PROVE  kSubset(2, S) = {X \in SUBSET S : \E s, t \in S : s # t /\ X = {s, t}}
  <1>1. ASSUME NEW X \in SUBSET S, Cardinality(X) = 2
        PROVE  \E s, t \in S : s # t /\ X = {s, t}
    <2>1. IsFiniteSet(X)
      BY FS_Subset
    <2>2. X # {}
      BY <1>1, FS_EmptySet
    <2>3. PICK s \in X : TRUE
      BY <2>2
    <2>4. IsFiniteSet(X \ {s}) /\ Cardinality(X \ {s}) = 1
      BY <1>1, <2>1, <2>3, FS_RemoveElement
    <2>5. PICK t : X \ {s} = {t}
      BY <2>4, FS_Singleton
    <2>6. s # t /\ X = {s, t} /\ s \in S /\ t \in S
      BY <2>3, <2>5
    <2> QED
      BY <2>6
  <1>2. ASSUME NEW s \in S, NEW t \in S, s # t
        PROVE  Cardinality({s, t}) = 2
    <2>1. IsFiniteSet({s}) /\ Cardinality({s}) = 1
      BY FS_Singleton
    <2>2. {s, t} = {s} \cup {t} /\ t \notin {s}
      BY <1>2
    <2> QED
      BY <2>1, <2>2, FS_AddElement
  <1> QED
    BY <1>1, <1>2 DEF kSubset

\* A whole round robin lets every pair meet.
LEMMA EveryPairMeets ==
    ASSUME NEW n \in Nat, n >= 2, NEW scenarios \in Nat \ {0}
    PROVE  {{p.a, p.b} : p \in Pairings(n, scenarios, MaximumTournamentRounds("round-robin", n))}
             = kSubset(2, 1..n)
  <1> DEFINE h == HalfOf(n)
             rounds == MaximumTournamentRounds("round-robin", n)
  <1>0. h \in Nat \ {0} /\ n \in {2 * h - 1, 2 * h} /\ n % 2 = 2 * h - n
    BY HalfIs
  <1>1. rounds = 2 * h - 1 /\ rounds \in 1..(2 * h - 1)
    BY <1>0 DEF MaximumTournamentRounds
  <1>8. rounds \in 1..(2 * HalfOf(n) - 1)
    BY <1>1
  <1> HIDE DEF h, rounds
  <1> DEFINE P == Pairings(n, scenarios, rounds)
  <1>2. /\ \A p \in P : p.a \in 1..n /\ p.b \in 1..n /\ p.a # p.b
        /\ \A r \in 1..rounds, m \in 0..(h - 1) : Meeting(h, r, m) \subseteq 1..n =>
             \E p \in P : {p.a, p.b} = Meeting(h, r, m)
    BY <1>8, PairingsAre DEF h
  <1>3. kSubset(2, 1..n) = {X \in SUBSET (1..n) : \E s, t \in 1..n : s # t /\ X = {s, t}}
    <2>1. IsFiniteSet(1..n)
      BY FS_Interval
    <2> QED
      BY <2>1, PairsAre
  <1> HIDE DEF P
  <1>4. \A p \in P : {p.a, p.b} \in kSubset(2, 1..n)
    BY <1>2, <1>3
  <1>5. ASSUME NEW s \in 1..n, NEW t \in 1..n, s < t PROVE \E p \in P : {p.a, p.b} = {s, t}
    <2>1. s \in 1..(2 * h) /\ t \in 1..(2 * h)
      BY <1>0
    <2>2. PICK r \in 1..(2 * h - 1), m \in 0..(h - 1) : Meeting(h, r, m) = {s, t}
      <3>1. h \in Nat \ {0}
        BY <1>0
      <3> QED
        BY <1>5, <2>1, <3>1, AllMeet
    <2>3. Meeting(h, r, m) \subseteq 1..n
      BY <2>2
    <2> QED
      BY <1>1, <1>2, <2>2, <2>3
  <1>6. ASSUME NEW X \in kSubset(2, 1..n) PROVE \E p \in P : {p.a, p.b} = X
    <2>1. PICK s \in 1..n, t \in 1..n : s # t /\ X = {s, t}
      BY <1>3
    <2>2. CASE s < t
      BY <1>5, <2>1, <2>2
    <2>3. CASE t < s
      <3>1. X = {t, s}
        BY <2>1
      <3> QED
        BY <1>5, <2>3, <3>1
    <2>4. s < t \/ t < s
      <3>1. s # t /\ s \in Int /\ t \in Int
        BY <2>1
      <3> QED
        BY <3>1
    <2> QED
      BY <2>2, <2>3, <2>4
  <1>7. {{p.a, p.b} : p \in P} = kSubset(2, 1..n)
    BY <1>4, <1>6
  <1> QED
    BY <1>7 DEF P, rounds

\* A field of two or more has a first pairing, whatever the limit.
LEMMA RoundRobinHasFirst ==
    ASSUME NEW n \in Nat, n >= 2, NEW scenarios \in Nat \ {0}, NEW rounds \in 1..(2 * HalfOf(n) - 1)
    PROVE  \E first \in Pairings(n, scenarios, rounds) :
             \A q \in Pairings(n, scenarios, rounds) : ~Before(q, first)
  <1> DEFINE h == HalfOf(n)
             T == {m \in 0..(h - 1) : Meeting(h, 1, m) \subseteq 1..n}
  <1>0. /\ h \in Nat \ {0} /\ n \in {2 * h - 1, 2 * h} /\ 1 \in 1..rounds /\ 1 \in 1..(2 * h - 1)
        /\ n = 2 * h - 1 => h >= 2
    <2>1. h \in Nat \ {0} /\ n \in {2 * h - 1, 2 * h} /\ (n = 2 * h - 1 => h >= 2)
      BY HalfIs
    <2> QED
      BY <2>1
  <1> HIDE DEF h
  <1>1. /\ \A p \in Pairings(n, scenarios, rounds) :
             /\ p.roundNumber \in 1..rounds /\ p.matchIndex \in 0..(h - 1)
             /\ {p.a, p.b} = Meeting(h, p.roundNumber, p.matchIndex)
             /\ p.a \in 1..n /\ p.b \in 1..n
        /\ \A r \in 1..rounds, m \in 0..(h - 1) : Meeting(h, r, m) \subseteq 1..n =>
             \E p \in Pairings(n, scenarios, rounds) : p.roundNumber = r /\ p.matchIndex = m
    <2>1. rounds \in 1..(2 * HalfOf(n) - 1)
      OBVIOUS
    <2>2. \A p \in Pairings(n, scenarios, rounds) :
             /\ p.roundNumber \in 1..rounds /\ p.matchIndex \in 0..(h - 1)
             /\ {p.a, p.b} = Meeting(h, p.roundNumber, p.matchIndex)
             /\ p.a \in 1..n /\ p.b \in 1..n
      <3> SUFFICES ASSUME NEW p \in Pairings(n, scenarios, rounds)
                   PROVE  /\ p.roundNumber \in 1..rounds /\ p.matchIndex \in 0..(h - 1)
                          /\ {p.a, p.b} = Meeting(h, p.roundNumber, p.matchIndex)
                          /\ p.a \in 1..n /\ p.b \in 1..n
        OBVIOUS
      <3>1. {p.a, p.b} = Meeting(h, p.roundNumber, p.matchIndex)
        <4>1. p = Meets(n, scenarios, p.roundNumber, p.matchIndex)
          BY <2>1, PairingsAre
        <4>2. p.a = LeftSeat(h, p.roundNumber, p.matchIndex) /\ p.b = RightSeat(h, p.roundNumber, p.matchIndex)
          <5> DEFINE r == p.roundNumber
                     m == p.matchIndex
          <5>1. p = Meets(n, scenarios, r, m)
            BY <4>1
          <5> HIDE DEF r, m
          <5>2. p.a = LeftSeat(h, r, m) /\ p.b = RightSeat(h, r, m)
            BY <5>1 DEF Meets, Pairing, h
          <5> QED
            BY <5>2 DEF r, m
        <4> QED
          BY <4>2 DEF Meeting
      <3>2. p.roundNumber \in 1..rounds /\ p.matchIndex \in 0..(h - 1)
        BY <2>1, PairingsAre DEF h
      <3>3. p.a \in 1..n /\ p.b \in 1..n
        BY <2>1, PairingsAre DEF h
      <3> QED
        BY <3>1, <3>2, <3>3
    <2>3. \A r \in 1..rounds, m \in 0..(h - 1) : Meeting(h, r, m) \subseteq 1..n =>
             \E p \in Pairings(n, scenarios, rounds) : p.roundNumber = r /\ p.matchIndex = m
      BY <2>1, PairingsAre DEF h
    <2> QED
      BY <2>2, <2>3
  <1>2. /\ \A m \in 0..(h - 1) : LeftSeat(h, 1, m) \in 1..(2 * h) /\ RightSeat(h, 1, m) \in 1..(2 * h)
        /\ \A m, k \in 0..(h - 1) : m # k => Meeting(h, 1, m) \cap Meeting(h, 1, k) = {}
    BY <1>0, SeatsOfRound
  <1>3. T # {}
    <2>1. \A m \in 0..(h - 1) : Meeting(h, 1, m) \subseteq 1..(2 * h)
      BY <1>2 DEF Meeting
    <2>2. CASE n = 2 * h
      <3>1. 0 \in T
        BY <1>0, <2>1, <2>2
      <3> QED
        BY <3>1
    <2>3. CASE n = 2 * h - 1
      <3>1. 0 \in 0..(h - 1) /\ 1 \in 0..(h - 1)
        BY <1>0, <2>3
      <3>2. 2 * h \notin Meeting(h, 1, 0) \/ 2 * h \notin Meeting(h, 1, 1)
        BY <1>2, <3>1
      <3>3. \A x \in 1..(2 * h) : x # 2 * h => x \in 1..n
        BY <1>0, <2>3
      <3>4. \A m \in 0..(h - 1) : 2 * h \notin Meeting(h, 1, m) => m \in T
        BY <2>1, <3>3
      <3> QED
        BY <3>1, <3>2, <3>4
    <2> QED
      BY <1>0, <2>2, <2>3
  <1>4. PICK m \in T : \A k \in T : m <= k
    <2>1. T \subseteq Nat
      OBVIOUS
    <2> HIDE DEF T
    <2> QED
      BY <1>3, <2>1, LeastOf
  <1>5. PICK first \in Pairings(n, scenarios, rounds) : first.roundNumber = 1 /\ first.matchIndex = m
    BY <1>0, <1>1
  <1>6. ASSUME NEW q \in Pairings(n, scenarios, rounds), Before(q, first) PROVE FALSE
    <2>1. q.roundNumber \in 1..rounds /\ q.matchIndex \in 0..(h - 1) /\ q.a \in 1..n /\ q.b \in 1..n
      BY <1>1
    <2>2. {q.a, q.b} = Meeting(h, q.roundNumber, q.matchIndex)
      BY <1>1, Zenon
    <2>3. q.roundNumber = 1 /\ q.matchIndex < m
      BY <1>5, <1>6, <2>1 DEF Before
    <2>4. q.matchIndex \in T
      BY <2>1, <2>2, <2>3
    <2>5. m <= q.matchIndex /\ m \in 0..(h - 1)
      BY <1>4, <2>4
    <2> QED
      BY <2>1, <2>3, <2>5
  <1> QED
    BY <1>6

\* The pairings of an opening round, and a plan with some of them.
Openings(n) == {Pairing(1, m, 1, 2 * m + 1, 2 * m + 2) : m \in 0..(n \div 2 - 1)}

OpeningPlan(n, scenarios, rounds, P) ==
  [mode |-> "swiss", models |-> n, scenarios |-> scenarios, rounds |-> rounds,
   pairings |-> P, byes |-> SwissOpeningSchedule(n, rounds).byes,
   unplanned |-> SwissOpeningSchedule(n, rounds).unplanned]

\* Neighbours meet in an opening round, and one pairing is the first.
LEMMA OpeningsAre ==
    ASSUME NEW n \in Nat, n >= 2
    PROVE  /\ \A p \in Openings(n) :
                /\ p.roundNumber = 1 /\ p.matchIndex \in Nat /\ p.scenario = 1
                /\ p.a = 2 * p.matchIndex + 1 /\ p.b = 2 * p.matchIndex + 2
                /\ p.b <= n /\ (n % 2 # 0 => p.b < n)
                /\ p = Pairing(1, p.matchIndex, 1, 2 * p.matchIndex + 1, 2 * p.matchIndex + 2)
           /\ \E first \in Openings(n) : \A q \in Openings(n) : ~Before(q, first)
  <1> DEFINE half == n \div 2
  <1>1. half \in Nat \ {0} /\ (n = 2 * half \/ n = 2 * half + 1)
    OBVIOUS
  <1>2. n = 2 * half => n % 2 = 0
    <2> HIDE DEF half
    <2> QED
      BY <1>1
  <1>3. Openings(n) = {Pairing(1, m, 1, 2 * m + 1, 2 * m + 2) : m \in 0..(half - 1)}
    BY DEF Openings
  <1> HIDE DEF half
  <1>4. \A p \in Openings(n) :
          /\ p.roundNumber = 1 /\ p.matchIndex \in Nat /\ p.scenario = 1
          /\ p.a = 2 * p.matchIndex + 1 /\ p.b = 2 * p.matchIndex + 2
          /\ p.b <= n /\ (n % 2 # 0 => p.b < n)
          /\ p = Pairing(1, p.matchIndex, 1, 2 * p.matchIndex + 1, 2 * p.matchIndex + 2)
    <2> SUFFICES ASSUME NEW m \in 0..(half - 1)
                 PROVE  LET p == Pairing(1, m, 1, 2 * m + 1, 2 * m + 2)
                        IN /\ p.roundNumber = 1 /\ p.matchIndex = m /\ p.scenario = 1
                           /\ p.a = 2 * m + 1 /\ p.b = 2 * m + 2
                           /\ 2 * m + 2 <= n /\ (n % 2 # 0 => 2 * m + 2 < n)
      BY <1>3
    <2>1. 2 * m + 2 <= n /\ (n % 2 # 0 => 2 * m + 2 < n)
      BY <1>1, <1>2
    <2> QED
      BY <2>1 DEF Pairing
  <1>5. \E first \in Openings(n) : first.matchIndex = 0
    <2>1. 0 \in 0..(half - 1)
      BY <1>1
    <2>2. Pairing(1, 0, 1, 2 * 0 + 1, 2 * 0 + 2) \in Openings(n)
      BY <1>3, <2>1
    <2> QED
      BY <2>2 DEF Pairing
  <1>6. PICK first \in Openings(n) : first.matchIndex = 0
    BY <1>5
  <1>7. \A q \in Openings(n) : ~Before(q, first)
    <2> SUFFICES ASSUME NEW q \in Openings(n), Before(q, first) PROVE FALSE
      OBVIOUS
    <2>1. q.roundNumber = 1 /\ first.roundNumber = 1 /\ q.matchIndex \in Nat
      BY <1>4
    <2> QED
      BY <1>6, <2>1 DEF Before
  <1> QED
    BY <1>4, <1>7

\* Whatever of an opening round is kept is a sound schedule.
LEMMA OpeningIsSound ==
    ASSUME NEW n \in Nat, n >= 2, NEW scenarios \in Nat \ {0},
           NEW rounds \in 1..MaximumTournamentRounds("swiss", n),
           NEW P, P \subseteq Openings(n), P # {}
    PROVE  NormalizeTournamentPlan(OpeningPlan(n, scenarios, rounds, P))
  <1> DEFINE planned == OpeningPlan(n, scenarios, rounds, P)
  <1>1. rounds \in Nat \ {0} /\ 1 \in 1..rounds
    <2>1. MaximumTournamentRounds("swiss", n) \in Nat
      BY RoundsAreCounted
    <2> QED
      BY <2>1
  <1>2. /\ planned.mode = "swiss" /\ planned.models = n /\ planned.scenarios = scenarios
        /\ planned.rounds = rounds /\ planned.pairings = P
        /\ planned.byes = (IF n % 2 = 0 THEN {} ELSE {Bye(1, n)}) /\ planned.unplanned = 2..rounds
    BY DEF OpeningPlan, SwissOpeningSchedule
  <1> HIDE DEF planned
  <1>3. ASSUME NEW p \in P
        PROVE  /\ p.roundNumber = 1 /\ p.matchIndex \in Nat /\ p.scenario = 1
               /\ p.a = 2 * p.matchIndex + 1 /\ p.b = 2 * p.matchIndex + 2
               /\ p.b <= n /\ (n % 2 # 0 => p.b < n)
    BY OpeningsAre
  <1>4. ASSUME NEW p \in P
        PROVE  /\ SoundPairing(planned, p)
               /\ p.roundNumber \notin planned.unplanned /\ p.matchIndex < (planned.models + 1) \div 2
    <2>1. /\ p.roundNumber = 1 /\ p.matchIndex \in Nat /\ p.scenario = 1
          /\ p.a = 2 * p.matchIndex + 1 /\ p.b = 2 * p.matchIndex + 2
          /\ p.b <= n
      BY <1>3
    <2>2. p.a \in 1..n /\ p.b \in 1..n /\ p.a # p.b /\ p.scenario \in 1..scenarios
      BY <2>1
    <2>3. \A m \in Nat : 2 * m + 2 <= n => m < (n + 1) \div 2
      OBVIOUS
    <2>4. p.matchIndex < (n + 1) \div 2 /\ p.matchIndex >= 0
      BY <2>1, <2>3
    <2>5. 1 \notin 2..rounds
      BY <1>1
    <2> QED
      BY <1>1, <1>2, <2>1, <2>2, <2>4, <2>5 DEF SoundPairing
  <1>5. ASSUME NEW p \in P, NEW q \in P, p # q
        PROVE  p.matchIndex # q.matchIndex /\ {p.a, p.b} \cap {q.a, q.b} = {}
    <2>1. /\ p.matchIndex \in Nat /\ q.matchIndex \in Nat
          /\ p.a = 2 * p.matchIndex + 1 /\ p.b = 2 * p.matchIndex + 2
          /\ q.a = 2 * q.matchIndex + 1 /\ q.b = 2 * q.matchIndex + 2
      BY <1>3
    <2>2. p.matchIndex # q.matchIndex
      <3>1. /\ p = Pairing(1, p.matchIndex, 1, 2 * p.matchIndex + 1, 2 * p.matchIndex + 2)
            /\ q = Pairing(1, q.matchIndex, 1, 2 * q.matchIndex + 1, 2 * q.matchIndex + 2)
        BY OpeningsAre
      <3> QED
        BY <1>5, <3>1
    <2>3. p.a # q.a /\ p.a # q.b /\ p.b # q.a /\ p.b # q.b
      BY <2>1, <2>2
    <2> QED
      BY <2>2, <2>3
  <1>6. /\ \A x \in planned.byes : x.roundNumber = 1 /\ x.model = n
        /\ \A x, y \in planned.byes : x # y => x.roundNumber # y.roundNumber
        /\ planned.byes # {} => n % 2 # 0
    BY <1>2 DEF Bye
  <1>7. Cardinality(planned.byes) = n % 2
    <2>1. n % 2 = 0 \/ n % 2 = 1
      OBVIOUS
    <2> QED
      BY <1>2, <2>1, FS_EmptySet, FS_Singleton
  <1>8. ASSUME NEW x \in planned.byes
        PROVE  x.roundNumber \notin planned.unplanned /\ x.model \notin Seated(planned, x.roundNumber)
    <2>1. x.roundNumber = 1 /\ x.model = n /\ n % 2 # 0
      BY <1>6
    <2>2. \A p \in P : p.a # n /\ p.b # n
      BY <1>3, <2>1
    <2>3. n \notin Seated(planned, 1)
      BY <1>2, <2>2 DEF Seated, Players
    <2>4. 1 \notin 2..rounds
      BY <1>1
    <2> QED
      BY <1>2, <2>1, <2>3, <2>4
  <1>9. SoundSchedule(planned)
    <2>1. \A p \in planned.pairings :
            p.roundNumber \notin planned.unplanned /\ p.matchIndex < (planned.models + 1) \div 2
      BY <1>2, <1>4
    <2>2. \A p, q \in planned.pairings : p # q =>
            /\ {p.a, p.b} # {q.a, q.b}
            /\ p.roundNumber = q.roundNumber =>
                 p.matchIndex # q.matchIndex /\ {p.a, p.b} \cap {q.a, q.b} = {}
      BY <1>2, <1>5
    <2> QED
      BY <1>6, <1>8, <2>1, <2>2 DEF SoundSchedule
  <1>10. Cardinality(planned.byes) = ExpectedByes(planned)
    BY <1>2, <1>7 DEF ExpectedByes
  <1>11. \A x \in planned.byes : x.roundNumber \in 1..planned.rounds /\ x.model \in 1..planned.models
    BY <1>1, <1>2, <1>6
  <1>12. \A p \in planned.pairings : SoundPairing(planned, p)
    BY <1>2, <1>4
  <1>13. /\ planned.models >= 2 /\ planned.scenarios >= 1 /\ planned.pairings # {}
         /\ planned.rounds \in 1..MaximumTournamentRounds(planned.mode, planned.models)
         /\ planned.unplanned = IF planned.mode = "swiss" THEN 2..planned.rounds ELSE {}
    BY <1>2
  <1> QED
    BY <1>9, <1>10, <1>11, <1>12, <1>13 DEF NormalizeTournamentPlan, planned

\* What a tournament is asked for.
Requested(i) ==
  /\ i.mode \in {"round-robin", "swiss"}
  /\ i.models \in Nat /\ i.models >= 2 /\ i.scenarios \in Nat \ {0}
  /\ i.rounds \in 1..MaximumTournamentRounds(i.mode, i.models)
  /\ i.maxMatches = None \/ i.maxMatches \in Nat \ {0}

\* Every plan that is made is a schedule.
LEMMA CreatedIsSchedule ==
    ASSUME NEW i, Requested(i)
    PROVE  LET planned == CreateTournamentPlan(i)
               whole == i.maxMatches = None /\ planned.mode = "round-robin"
           IN /\ NormalizeTournamentPlan(planned)
              /\ whole => \A r \in 1..planned.rounds :
                    Seated(planned, r) \cup Sitting(planned, r) = 1..planned.models
              /\ whole /\ planned.rounds = MaximumTournamentRounds(planned.mode, planned.models) =>
                    {{p.a, p.b} : p \in planned.pairings} = kSubset(2, 1..planned.models)
  <1> DEFINE n == i.models
             scenarios == i.scenarios
             rounds == i.rounds
  <1>1. /\ n \in Nat /\ n >= 2 /\ scenarios \in Nat \ {0}
        /\ rounds \in 1..MaximumTournamentRounds(i.mode, n)
        /\ i.maxMatches = None \/ i.maxMatches \in Nat \ {0}
        /\ i.mode \in {"round-robin", "swiss"}
    BY DEF Requested
  <1> HIDE DEF n, scenarios, rounds
  <1>2. CASE i.mode = "round-robin"
    <2> DEFINE P == Limited(Pairings(n, scenarios, rounds), i.maxMatches)
    <2>1. CreateTournamentPlan(i) = RoundRobinPlan(n, scenarios, rounds, P)
      BY <1>2 DEF CreateTournamentPlan, RoundRobinPlan, Pairings, Byes, n, scenarios, rounds
    <2>2. rounds \in 1..MaximumTournamentRounds("round-robin", n)
      BY <1>1, <1>2
    <2>3. rounds \in 1..(2 * HalfOf(n) - 1)
      <3>1. MaximumTournamentRounds("round-robin", n) = 2 * HalfOf(n) - 1
        <4>1. n + (n % 2) = 2 * HalfOf(n) /\ HalfOf(n) \in Nat /\ n % 2 \in Nat
          BY <1>1, HalfIs
        <4>2. MaximumTournamentRounds("round-robin", n) = n - 1 + (n % 2)
          BY DEF MaximumTournamentRounds
        <4> QED
          BY <1>1, <4>1, <4>2
      <3> QED
        BY <2>2, <3>1
    <2>4. PICK first \in Pairings(n, scenarios, rounds) :
            \A q \in Pairings(n, scenarios, rounds) : ~Before(q, first)
      BY <1>1, <2>3, RoundRobinHasFirst
    <2>5. P \subseteq Pairings(n, scenarios, rounds) /\ P # {}
      BY <1>1, <2>4, LimitKeepsFirst
    <2>6. NormalizeTournamentPlan(RoundRobinPlan(n, scenarios, rounds, P))
      <3> HIDE DEF P
      <3> QED
        BY <1>1, <2>2, <2>5, RoundRobinIsSound
    <2>7. i.maxMatches = None => P = Pairings(n, scenarios, rounds)
      BY DEF Limited
    <2> HIDE DEF P
    <2>8. LET planned == RoundRobinPlan(n, scenarios, rounds, P)
          IN planned.rounds = rounds /\ planned.models = n /\ planned.mode = "round-robin" /\ planned.pairings = P
      BY DEF RoundRobinPlan
    <2>9. ASSUME i.maxMatches = None, NEW r \in 1..rounds
          PROVE  LET planned == RoundRobinPlan(n, scenarios, rounds, P)
                 IN Seated(planned, r) \cup Sitting(planned, r) = 1..n
      BY <1>1, <2>2, <2>7, <2>9, RoundIsFull
    <2>10. ASSUME i.maxMatches = None, rounds = MaximumTournamentRounds("round-robin", n)
           PROVE  {{p.a, p.b} : p \in P} = kSubset(2, 1..n)
      BY <1>1, <2>7, <2>10, EveryPairMeets
    <2> QED
      BY <2>1, <2>6, <2>8, <2>9, <2>10
  <1>3. CASE i.mode = "swiss"
    <2> DEFINE P == Limited(Openings(n), i.maxMatches)
    <2>1. CreateTournamentPlan(i) = OpeningPlan(n, scenarios, rounds, P)
      BY <1>3 DEF CreateTournamentPlan, OpeningPlan, SwissOpeningSchedule, Openings, n, scenarios, rounds
    <2>2. rounds \in 1..MaximumTournamentRounds("swiss", n)
      BY <1>1, <1>3
    <2>3. PICK first \in Openings(n) : \A q \in Openings(n) : ~Before(q, first)
      BY <1>1, OpeningsAre
    <2>4. P \subseteq Openings(n) /\ P # {}
      BY <1>1, <2>3, LimitKeepsFirst
    <2>5. NormalizeTournamentPlan(OpeningPlan(n, scenarios, rounds, P))
      <3> HIDE DEF P
      <3> QED
        BY <1>1, <2>2, <2>4, OpeningIsSound
    <2> HIDE DEF P
    <2>6. OpeningPlan(n, scenarios, rounds, P).mode # "round-robin"
      BY DEF OpeningPlan
    <2> QED
      BY <2>1, <2>5, <2>6
  <1> QED
    BY <1>1, <1>2, <1>3

-----------------------------------------------------------------------------
(* The tournament of a campaign                                            *)

ContestFields == {"input", "config", "phase", "plan", "fought", "reasons", "result"}

ContestShape(c) == DOMAIN c = ContestFields /\ c = [x \in ContestFields |-> c[x]]

\* What may have been fought: nothing in a tournament that is dry or live.
SoundBattles(c) ==
  /\ c.fought \in Nat
  /\ c.fought > 0 => c.reasons # {} /\ ~c.config.dry /\ ~c.config.live

SoundInput(i) ==
  /\ i.models \in Nat /\ i.scenarios \in Nat
  /\ i.mode = "round-robin" => i.rounds \in Nat

FinitePlan(planned) ==
  "pairings" \in DOMAIN planned /\ planned = [x \in DOMAIN planned |-> planned[x]] /\ IsFiniteSet(planned.pairings)

TournamentInv ==
  /\ ContestShape(contest) /\ SoundBattles(contest)
  /\ contest.phase = "input" => Requested(contest.input)
  /\ contest.phase \in {"planned", "altered", "running"} => FinitePlan(contest.plan)
  /\ contest.phase \in {"input", "planned", "altered"} => contest.fought = 0
  /\ contest.phase # "ended" => contest.result = None
  /\ contest.phase = "running" =>
       NormalizeTournamentPlan(contest.plan) /\ ~contest.config.dry /\ ~contest.config.live
  /\ SimulatedIsEarned /\ PlanIsSchedule

\* A tournament begins with nothing fought (runTournament).
LEMMA TournamentStarts == TournamentInit => TournamentInv
  <1> SUFFICES ASSUME TournamentInit PROVE TournamentInv
    OBVIOUS
  <1>0. PICK mode \in {"round-robin", "swiss"}, n \in 2..MaxModels, scenarios \in 1..MaxScenarios,
             dry \in BOOLEAN, live \in BOOLEAN, hasConfig \in BOOLEAN :
          \E rounds \in 1..MaximumTournamentRounds(mode, n), maxMatches \in {None} \cup 1..3 :
          contest = [input |-> [mode |-> mode, models |-> n, scenarios |-> scenarios,
                                rounds |-> rounds, maxMatches |-> maxMatches],
                     config |-> [dry |-> dry, live |-> live, hasConfig |-> hasConfig],
                     phase |-> "input", plan |-> None, fought |-> 0, reasons |-> {}, result |-> None]
    BY DEF TournamentInit
  <1>1. PICK rounds \in 1..MaximumTournamentRounds(mode, n), maxMatches \in {None} \cup 1..3 :
          contest = [input |-> [mode |-> mode, models |-> n, scenarios |-> scenarios,
                                rounds |-> rounds, maxMatches |-> maxMatches],
                     config |-> [dry |-> dry, live |-> live, hasConfig |-> hasConfig],
                     phase |-> "input", plan |-> None, fought |-> 0, reasons |-> {}, result |-> None]
    BY <1>0
  <1> DEFINE input == [mode |-> mode, models |-> n, scenarios |-> scenarios,
                       rounds |-> rounds, maxMatches |-> maxMatches]
             config == [dry |-> dry, live |-> live, hasConfig |-> hasConfig]
  <1>2. n \in Nat /\ n >= 2 /\ scenarios \in Nat \ {0}
    BY TournamentAssumption
  <1>4. Requested(input)
    BY <1>2 DEF Requested
  <1>5. contest = [input |-> input, config |-> config, phase |-> "input", plan |-> None,
                   fought |-> 0, reasons |-> {}, result |-> None]
    BY <1>1
  <1> HIDE DEF input, config
  <1>6. /\ ContestShape(contest) /\ contest.phase = "input" /\ contest.fought = 0 /\ contest.result = None
        /\ contest.input = input
    BY <1>5 DEF ContestShape, ContestFields
  <1> QED
    BY <1>4, <1>6, TournamentAssumption DEF TournamentInv, SoundBattles, SimulatedIsEarned, PlanIsSchedule

\* A plan that is made is finite (createRoundRobinSchedule,
\* createSwissOpeningSchedule).
LEMMA CreatedIsFinite ==
    ASSUME NEW input, SoundInput(input)
    PROVE  FinitePlan(CreateTournamentPlan(input))
  <1> DEFINE n == input.models
             scenarios == input.scenarios
             rounds == input.rounds
             circle == RoundRobinSchedule(n, scenarios, rounds)
             opening == SwissOpeningSchedule(n, rounds)
             schedule == IF input.mode = "round-robin" THEN circle ELSE opening
  <1>1. ASSUME input.mode = "round-robin" PROVE IsFiniteSet(circle.pairings)
    <2> DEFINE seats == n + (n % 2)
               Left(r, m) == Rotated(seats, r, m + 1)
               Right(r, m) == Rotated(seats, r, seats - m)
               Scenario(r) == 1 + ((r - 1) % scenarios)
               meetings == (1..rounds) \X (0..(seats \div 2 - 1))
               Met(x) == Pairing(x[1], x[2], Scenario(x[1]), Left(x[1], x[2]), Right(x[1], x[2]))
               played == {y \in meetings : Left(y[1], y[2]) <= n /\ Right(y[1], y[2]) <= n}
    <2>1. n \in Nat /\ rounds \in Nat /\ seats \div 2 - 1 \in Int
      BY <1>1 DEF SoundInput
    <2>2. IsFiniteSet(1..rounds) /\ IsFiniteSet(0..(seats \div 2 - 1))
      <3>1. rounds \in Int /\ 0 \in Int /\ 1 \in Int
        BY <2>1
      <3> HIDE DEF seats
      <3> QED
        BY <2>1, <3>1, FS_Interval
    <2>3. IsFiniteSet(meetings)
      BY <2>2, FS_Product
    <2>4. IsFiniteSet(played)
      BY <2>3, FS_Subset
    <2>5. circle.pairings = {Met(x) : x \in played}
      BY DEF RoundRobinSchedule
    <2> DEFINE f == [x \in played |-> Met(x)]
    <2>6. DOMAIN f = played /\ {f[x] : x \in DOMAIN f} = {Met(x) : x \in played}
      OBVIOUS
    <2> HIDE DEF Met, played, f
    <2>7. IsFiniteSet({f[x] : x \in DOMAIN f})
      BY <2>4, <2>6, ImageIsFinite
    <2> QED
      BY <1>1, <2>5, <2>6, <2>7
  <1>2. ASSUME input.mode # "round-robin" PROVE IsFiniteSet(opening.pairings)
    <2> DEFINE Met(m) == Pairing(1, m, 1, 2 * m + 1, 2 * m + 2)
               tables == 0..(n \div 2 - 1)
               f == [m \in tables |-> Met(m)]
    <2>1. n \in Nat /\ n \div 2 - 1 \in Int
      BY DEF SoundInput
    <2>2. IsFiniteSet(tables)
      BY <2>1, FS_Interval
    <2>3. opening.pairings = {Met(m) : m \in tables}
      BY DEF SwissOpeningSchedule
    <2>4. DOMAIN f = tables /\ {f[x] : x \in DOMAIN f} = {Met(m) : m \in tables}
      OBVIOUS
    <2> HIDE DEF Met, tables, f
    <2>5. IsFiniteSet({f[x] : x \in DOMAIN f})
      BY <2>2, <2>4, ImageIsFinite
    <2> QED
      BY <1>2, <2>3, <2>4, <2>5
  <1>3. IsFiniteSet(schedule.pairings)
    BY <1>1, <1>2
  <1>4. \A pairings, max : Limited(pairings, max) \subseteq pairings
    BY DEF Limited
  <1> DEFINE planned == CreateTournamentPlan(input)
  <1>5. planned = [mode |-> input.mode, models |-> n, scenarios |-> scenarios, rounds |-> rounds,
                pairings |-> Limited(schedule.pairings, input.maxMatches),
                byes |-> schedule.byes, unplanned |-> schedule.unplanned]
    BY DEF CreateTournamentPlan
  <1> HIDE DEF planned, schedule
  <1>6. "pairings" \in DOMAIN planned /\ planned = [x \in DOMAIN planned |-> planned[x]]
        /\ planned.pairings = Limited(schedule.pairings, input.maxMatches)
    BY <1>5
  <1>7. IsFiniteSet(planned.pairings)
    BY <1>3, <1>4, <1>6, FS_Subset
  <1> QED
    BY <1>6, <1>7 DEF FinitePlan, planned

\* What is asked for can be planned.
LEMMA RequestedIsSound ==
    ASSUME NEW input, Requested(input)
    PROVE  SoundInput(input)
  <1>1. input.models \in Nat /\ input.scenarios \in Nat
        /\ input.rounds \in 1..MaximumTournamentRounds(input.mode, input.models)
    BY DEF Requested
  <1>2. MaximumTournamentRounds("round-robin", input.models) = input.models - 1 + (input.models % 2)
    BY DEF MaximumTournamentRounds
  <1>3. input.models - 1 + (input.models % 2) \in Int
    BY <1>1
  <1> QED
    BY <1>1, <1>2, <1>3 DEF SoundInput

\* Every step of a tournament.
LEMMA TournamentKeeps == TournamentInv /\ TournamentNext => TournamentInv'
  <1> SUFFICES ASSUME TournamentInv, TournamentNext PROVE TournamentInv'
    OBVIOUS
  <1>0. /\ ContestShape(contest) /\ SoundBattles(contest)
        /\ contest.phase = "input" => Requested(contest.input)
        /\ contest.phase \in {"planned", "altered", "running"} => FinitePlan(contest.plan)
        /\ contest.phase \in {"input", "planned", "altered"} => contest.fought = 0
        /\ contest.phase # "ended" => contest.result = None
        /\ contest.phase = "running" =>
             NormalizeTournamentPlan(contest.plan) /\ ~contest.config.dry /\ ~contest.config.live
        /\ SimulatedIsEarned
    BY DEF TournamentInv
  <1>1. ASSUME NEW status, status # "simulated", contest' = Ended(status) PROVE TournamentInv'
    <2>1. /\ ContestShape(contest') /\ contest'.phase = "ended" /\ contest'.result = status
          /\ contest'.fought = contest.fought /\ contest'.reasons = contest.reasons
          /\ contest'.config = contest.config
      BY <1>0, <1>1 DEF Ended, ContestShape, ContestFields
    <2>2. SoundBattles(contest')
      BY <1>0, <2>1 DEF SoundBattles
    <2>3. SimulatedIsEarned'
      BY <1>1, <2>1, <2>2 DEF SimulatedIsEarned, SoundBattles
    <2> QED
      BY <2>1, <2>2, <2>3 DEF TournamentInv, PlanIsSchedule
  <1>2. CASE PlanTournament
    <2> DEFINE planned == CreateTournamentPlan(contest.input)
    <2>1. contest.phase = "input" /\ contest' = [contest EXCEPT !.phase = "planned", !.plan = planned]
      BY <1>2 DEF PlanTournament
    <2>2. FinitePlan(planned)
      BY <1>0, <2>1, RequestedIsSound, CreatedIsFinite
    <2>6. LET whole == contest.input.maxMatches = None /\ planned.mode = "round-robin"
          IN /\ NormalizeTournamentPlan(planned)
             /\ whole => \A r \in 1..planned.rounds :
                   Seated(planned, r) \cup Sitting(planned, r) = 1..planned.models
             /\ whole /\ planned.rounds = MaximumTournamentRounds(planned.mode, planned.models) =>
                   {{p.a, p.b} : p \in planned.pairings} = kSubset(2, 1..planned.models)
      BY <1>0, <2>1, CreatedIsSchedule
    <2> HIDE DEF planned
    <2>3. /\ ContestShape(contest') /\ contest'.phase = "planned" /\ contest'.plan = planned
          /\ contest'.fought = contest.fought /\ contest'.reasons = contest.reasons
          /\ contest'.config = contest.config /\ contest'.result = contest.result
          /\ contest'.input = contest.input
      BY <1>0, <2>1 DEF ContestShape, ContestFields
    <2>4. SoundBattles(contest')
      BY <1>0, <2>3 DEF SoundBattles
    <2>5. SimulatedIsEarned'
      BY <1>0, <2>1, <2>3, TournamentAssumption DEF SimulatedIsEarned
    <2>7. PlanIsSchedule'
      BY <2>3, <2>6 DEF PlanIsSchedule
    <2> QED
      BY <1>0, <2>1, <2>2, <2>3, <2>4, <2>5, <2>7 DEF TournamentInv
  <1>3. CASE AlterPlan
    <2>1. PICK p \in contest.plan.pairings, model \in 1..contest.plan.models, round \in 1..contest.plan.rounds :
            /\ contest.phase = "planned"
            /\ contest' = [contest EXCEPT !.phase = "altered",
                 !.plan.pairings = (@ \ {p}) \cup {[p EXCEPT !.b = model, !.roundNumber = round]}]
      BY <1>3 DEF AlterPlan
    <2> DEFINE q == [p EXCEPT !.b = model, !.roundNumber = round]
               pairings == (contest.plan.pairings \ {p}) \cup {q}
               planned == [contest.plan EXCEPT !.pairings = pairings]
    <2>2. contest' = [contest EXCEPT !.phase = "altered", !.plan = planned]
      BY <2>1
    <2>3. FinitePlan(contest.plan)
      BY <1>0, <2>1
    <2>4. IsFiniteSet(pairings)
      <3>1. IsFiniteSet(contest.plan.pairings \ {p})
        BY <2>3, FS_Subset DEF FinitePlan
      <3> HIDE DEF q
      <3>2. IsFiniteSet({q})
        BY FS_Singleton
      <3> QED
        BY <3>1, <3>2, FS_Union
    <2> HIDE DEF pairings
    <2>5. FinitePlan(planned)
      BY <2>3, <2>4 DEF FinitePlan
    <2> HIDE DEF planned
    <2>6. /\ ContestShape(contest') /\ contest'.phase = "altered" /\ contest'.plan = planned
          /\ contest'.fought = contest.fought /\ contest'.reasons = contest.reasons
          /\ contest'.config = contest.config /\ contest'.result = contest.result
      BY <1>0, <2>2 DEF ContestShape, ContestFields
    <2>7. SoundBattles(contest')
      BY <1>0, <2>6 DEF SoundBattles
    <2>8. SimulatedIsEarned'
      BY <1>0, <2>1, <2>6, TournamentAssumption DEF SimulatedIsEarned
    <2> QED
      BY <1>0, <2>1, <2>5, <2>6, <2>7, <2>8 DEF TournamentInv, PlanIsSchedule
  <1>4. CASE RunTournament
    <2>1. contest.phase \in {"planned", "altered"}
      BY <1>4 DEF RunTournament
    <2>2. CASE ~NormalizeTournamentPlan(contest.plan)
      <3>1. contest' = Ended("throws")
        BY <1>4, <2>2 DEF RunTournament
      <3> QED
        BY <1>1, <3>1
    <2>3. CASE NormalizeTournamentPlan(contest.plan) /\ contest.config.dry
      <3>1. contest' = Ended("planned")
        BY <1>4, <2>3 DEF RunTournament
      <3> QED
        BY <1>1, <3>1
    <2>4. CASE NormalizeTournamentPlan(contest.plan) /\ ~contest.config.dry /\ contest.config.live
      <3>1. contest' = Ended("not_evaluated")
        BY <1>4, <2>4 DEF RunTournament
      <3> QED
        BY <1>1, <3>1
    <2>5. CASE NormalizeTournamentPlan(contest.plan) /\ ~contest.config.dry /\ ~contest.config.live
      <3>1. contest' = Ended("failed") \/ contest' = [contest EXCEPT !.phase = "running"]
        BY <1>4, <2>5 DEF RunTournament
      <3>2. CASE contest' = [contest EXCEPT !.phase = "running"]
        <4>1. /\ ContestShape(contest') /\ contest'.phase = "running" /\ contest'.plan = contest.plan
              /\ contest'.fought = contest.fought /\ contest'.reasons = contest.reasons
              /\ contest'.config = contest.config /\ contest'.result = contest.result
          BY <1>0, <3>2 DEF ContestShape, ContestFields
        <4>2. SoundBattles(contest')
          BY <1>0, <4>1 DEF SoundBattles
        <4>3. SimulatedIsEarned'
          BY <1>0, <2>1, <4>1, TournamentAssumption DEF SimulatedIsEarned
        <4> QED
          BY <1>0, <2>1, <2>5, <4>1, <4>2, <4>3 DEF TournamentInv, PlanIsSchedule
      <3> QED
        BY <1>1, <3>1, <3>2
    <2> QED
      BY <2>2, <2>3, <2>4, <2>5
  <1>5. CASE RunBattle
    <2>1. PICK reason \in Verdicts :
            /\ contest.phase = "running"
            /\ contest' = IF reason = "throws" THEN Ended("throws")
                          ELSE [contest EXCEPT !.fought = contest.fought + 1, !.reasons = contest.reasons \cup {reason}]
      BY <1>5 DEF RunBattle
    <2>2. CASE reason = "throws"
      BY <1>1, <2>1, <2>2
    <2>3. CASE reason # "throws"
      <3> DEFINE reasons == contest.reasons \cup {reason}
      <3>1. contest' = [contest EXCEPT !.fought = contest.fought + 1, !.reasons = reasons] /\ reasons # {}
        BY <2>1, <2>3
      <3> HIDE DEF reasons
      <3>2. /\ ContestShape(contest') /\ contest'.phase = "running" /\ contest'.plan = contest.plan
            /\ contest'.fought = contest.fought + 1 /\ contest'.reasons = reasons
            /\ contest'.config = contest.config /\ contest'.result = contest.result
        BY <1>0, <2>1, <3>1 DEF ContestShape, ContestFields
      <3>3. SoundBattles(contest')
        BY <1>0, <2>1, <3>1, <3>2 DEF SoundBattles
      <3>4. SimulatedIsEarned'
        BY <1>0, <2>1, <3>2, TournamentAssumption DEF SimulatedIsEarned
      <3> QED
        BY <1>0, <2>1, <3>2, <3>3, <3>4 DEF TournamentInv, PlanIsSchedule
    <2> QED
      BY <2>2, <2>3
  <1>6. CASE CreateTournamentDiagnostic
    <2> DEFINE status == IF contest.reasons \subseteq {"simulated_candidates"} THEN "simulated" ELSE "failed"
    <2>1. contest.phase = "running" /\ Cardinality(contest.plan.pairings) - contest.fought = 0 /\ contest' = Ended(status)
      BY <1>6 DEF CreateTournamentDiagnostic, Unfought
    <2>2. CASE status # "simulated"
      BY <1>1, <2>1, <2>2
    <2>3. CASE status = "simulated"
      <3>1. /\ ContestShape(contest') /\ contest'.phase = "ended" /\ contest'.result = status
            /\ contest'.fought = contest.fought /\ contest'.reasons = contest.reasons
            /\ contest'.config = contest.config /\ contest'.plan = contest.plan
        <4> HIDE DEF status
        <4> QED
          BY <1>0, <2>1 DEF Ended, ContestShape, ContestFields
      <3>2. SoundBattles(contest')
        BY <1>0, <3>1 DEF SoundBattles
      <3>3. IsFiniteSet(contest.plan.pairings) /\ contest.plan.pairings # {}
        BY <1>0, <2>1 DEF FinitePlan, NormalizeTournamentPlan
      <3>4. Cardinality(contest.plan.pairings) \in Nat /\ Cardinality(contest.plan.pairings) # 0
        BY <3>3, FS_CardinalityType, FS_EmptySet
      <3>5. contest.fought = Cardinality(contest.plan.pairings) /\ contest.fought > 0
        BY <1>0, <2>1, <3>4 DEF SoundBattles
      <3>6. contest.reasons = {"simulated_candidates"}
        <4>1. contest.reasons # {} /\ contest.reasons \subseteq {"simulated_candidates"}
          BY <1>0, <2>3, <3>5 DEF SoundBattles
        <4> QED
          BY <4>1
      <3>7. SimulatedIsEarned'
        BY <1>0, <2>1, <3>1, <3>5, <3>6 DEF SimulatedIsEarned
      <3> QED
        BY <3>1, <3>2, <3>7 DEF TournamentInv, PlanIsSchedule
    <2> QED
      BY <2>2, <2>3
  <1> QED
    BY <1>2, <1>3, <1>4, <1>5, <1>6 DEF TournamentNext

\* What the invariant of a tournament says of its plan and its simulations.
LEMMA TournamentHolds == TournamentInv => SimulatedIsEarned /\ PlanIsSchedule
  BY DEF TournamentInv
-----------------------------------------------------------------------------
(* The matrix, the history and the catalog                                 *)

MatrixFields == {"on", "pool", "next", "rejected", "worker", "container", "results"}

Places == {"idle", "acquire", "run", "release", "complete", "gone"}

MatrixShape(h) ==
  DOMAIN h = MatrixFields /\ h = [x \in MatrixFields |-> h[x]] /\ h.on = "matrix"

MatrixTypes(h) ==
  /\ MatrixShape(h)
  /\ h.next \in Nat /\ h.rejected \in BOOLEAN
  /\ h.worker \in [Workers -> [at : Places, cell : Nat]]
  /\ h.container \in [1..Cells -> {"none", "held", "released"}]
  /\ h.results \in [1..Cells -> {"none", "success", "limit", "error"}]

\* A cell is with one worker, and before a worker stops every cell was taken.
Taken(h) ==
  /\ \A w \in Workers :
       /\ h.worker[w].cell < h.next /\ h.worker[w].cell <= Cells
       /\ h.worker[w].at \in {"acquire", "run", "release", "complete"} => h.worker[w].cell > 0
       /\ h.worker[w].at = "gone" /\ ~h.rejected => h.next > Cells
  /\ \A v, w \in Workers : v # w /\ h.worker[v].cell > 0 => h.worker[v].cell # h.worker[w].cell
  /\ h.next > 0

\* A container is held by the worker of its cell.
HeldBy(h) ==
  \A c \in 1..Cells : h.container[c] = "held" =>
    \E w \in Workers : h.worker[w].cell = c /\ h.worker[w].at \in {"run", "release"}

\* A cell that was taken has a result or is at work.
Resulting(h) ==
  ~h.rejected => \A c \in 1..Cells : c < h.next /\ h.results[c] = "none" =>
    \E w \in Workers : h.worker[w].cell = c /\ h.worker[w].at \in {"acquire", "run"}

SoundMatrix(h) == MatrixTypes(h) /\ Taken(h) /\ HeldBy(h) /\ Resulting(h)

\* A step of one worker that takes no cell: what must hold of its place, its
\* container and its result.
WorkerStep(w, place, rejected, held, result) ==
  /\ harness.worker[w].at \in {"acquire", "run", "release", "complete"}
  /\ rejected \in BOOLEAN /\ (harness.rejected => rejected)
  /\ place \in Places /\ (place = "gone" => rejected)
  /\ held \in {"none", "held", "released"} /\ (held = "held" => place \in {"run", "release"})
  /\ result \in {"none", "success", "limit", "error"}
  /\ result = "none" => rejected \/ place \in {"acquire", "run"}
  /\ MatrixShape(harness') /\ harness'.next = harness.next /\ harness'.rejected = rejected
  /\ harness'.worker = [harness.worker EXCEPT ![w].at = place]
  /\ harness'.container = [harness.container EXCEPT ![Cell(w)] = held]
  /\ harness'.results = [harness.results EXCEPT ![Cell(w)] = result]

\* Such a step keeps the matrix sound (runMatrix, runCell).
LEMMA WorkerMoves ==
    ASSUME SoundMatrix(harness), NEW w \in Workers, NEW place, NEW rejected, NEW held, NEW result,
           WorkerStep(w, place, rejected, held, result)
    PROVE  SoundMatrix(harness')
  <1> DEFINE c == harness.worker[w].cell
             worker == harness'.worker
             container == harness'.container
             results == harness'.results
  <1>0. MatrixTypes(harness) /\ Taken(harness) /\ HeldBy(harness) /\ Resulting(harness)
    BY DEF SoundMatrix
  <1>1. c \in 1..Cells
    <2>1. c \in Nat
      BY <1>0 DEF MatrixTypes
    <2>2. c > 0 /\ c <= Cells
      BY <1>0 DEF Taken, WorkerStep
    <2> QED
      BY <2>1, <2>2, HarnessAssumption
  <1>2. /\ worker \in [Workers -> [at : Places, cell : Nat]]
        /\ worker[w].at = place /\ worker[w].cell = c
        /\ \A v \in Workers \ {w} : worker[v] = harness.worker[v]
    <2>1. harness.worker \in [Workers -> [at : Places, cell : Nat]] /\ place \in Places
          /\ worker = [harness.worker EXCEPT ![w].at = place]
      BY <1>0 DEF MatrixTypes, WorkerStep
    <2> QED
      BY <2>1
  <1>3. /\ container \in [1..Cells -> {"none", "held", "released"}] /\ container[c] = held
        /\ \A d \in (1..Cells) \ {c} : container[d] = harness.container[d]
    <2>1. harness.container \in [1..Cells -> {"none", "held", "released"}] /\ held \in {"none", "held", "released"}
          /\ container = [harness.container EXCEPT ![c] = held]
      BY <1>0 DEF MatrixTypes, WorkerStep, Cell
    <2> QED
      BY <2>1, <1>1
  <1>b. /\ results \in [1..Cells -> {"none", "success", "limit", "error"}] /\ results[c] = result
        /\ \A d \in (1..Cells) \ {c} : results[d] = harness.results[d]
    <2>1. harness.results \in [1..Cells -> {"none", "success", "limit", "error"}]
          /\ result \in {"none", "success", "limit", "error"}
          /\ results = [harness.results EXCEPT ![c] = result]
      BY <1>0 DEF MatrixTypes, WorkerStep, Cell
    <2> QED
      BY <2>1, <1>1
  <1>4. /\ harness'.next = harness.next /\ harness'.rejected = rejected /\ MatrixShape(harness')
        /\ rejected \in BOOLEAN /\ (harness.rejected => rejected) /\ place \in Places
        /\ (place = "gone" => rejected)
        /\ (held = "held" => place \in {"run", "release"})
        /\ (result = "none" => rejected \/ place \in {"acquire", "run"})
        /\ harness.worker[w].at \in {"acquire", "run", "release", "complete"}
    BY DEF WorkerStep
  <1> HIDE DEF c, worker, container, results
  <1>a. /\ harness'.worker = worker /\ harness'.container = container /\ harness'.results = results
        /\ c = harness.worker[w].cell
    BY DEF worker, container, results, c
  <1>5. MatrixTypes(harness')
    BY <1>0, <1>2, <1>3, <1>b, <1>4, <1>a DEF MatrixTypes
  <1>6. \A v \in Workers : worker[v].cell = harness.worker[v].cell
    BY <1>2, <1>a
  <1>7. Taken(harness')
    <2>1. \A v \in Workers :
            /\ worker[v].at \in {"acquire", "run", "release", "complete"} => worker[v].cell > 0
            /\ worker[v].at = "gone" /\ ~rejected => harness.next > Cells
      BY <1>0, <1>1, <1>2, <1>4, <1>a, HarnessAssumption DEF Taken
    <2> QED
      BY <1>0, <2>1, <1>4, <1>a, <1>6 DEF Taken
  <1>8. HeldBy(harness')
    <2> SUFFICES ASSUME NEW d \in 1..Cells, container[d] = "held"
                 PROVE  \E v \in Workers : worker[v].cell = d /\ worker[v].at \in {"run", "release"}
      BY <1>4, <1>a DEF HeldBy
    <2>1. CASE d = c
      BY <2>1, <1>2, <1>3, <1>4
    <2>2. CASE d # c
      <3>1. PICK v \in Workers : harness.worker[v].cell = d /\ harness.worker[v].at \in {"run", "release"}
        BY <2>2, <1>0, <1>3 DEF HeldBy
      <3> QED
        BY <3>1, <2>2, <1>2, <1>a
    <2> QED
      BY <2>1, <2>2
  <1>9. Resulting(harness')
    <2> SUFFICES ASSUME ~rejected, NEW d \in 1..Cells, d < harness.next, results[d] = "none"
                 PROVE  \E v \in Workers : worker[v].cell = d /\ worker[v].at \in {"acquire", "run"}
      BY <1>4, <1>a DEF Resulting
    <2>1. CASE d = c
      BY <2>1, <1>2, <1>b, <1>4
    <2>2. CASE d # c
      <3>1. PICK v \in Workers : harness.worker[v].cell = d /\ harness.worker[v].at \in {"acquire", "run"}
        BY <2>2, <1>0, <1>b, <1>4 DEF Resulting
      <3> QED
        BY <3>1, <2>2, <1>2, <1>a
    <2> QED
      BY <2>1, <2>2
  <1> QED
    BY <1>5, <1>7, <1>8, <1>9 DEF SoundMatrix

\* A worker takes the next cell, or finds none and stops (runMatrix).
LEMMA TakingKeeps ==
    ASSUME SoundMatrix(harness), NEW w \in Workers,
           (\E throws \in BOOLEAN : TakeCell(w, throws)) \/ StopWorker(w)
    PROVE  SoundMatrix(harness')
  <1>0. MatrixTypes(harness) /\ Taken(harness) /\ HeldBy(harness) /\ Resulting(harness)
    BY DEF SoundMatrix
  <1>1. ASSUME NEW throws \in BOOLEAN, TakeCell(w, throws) PROVE SoundMatrix(harness')
    <2> DEFINE place == IF throws THEN "gone" ELSE IF harness.pool THEN "acquire" ELSE "run"
               rejected == harness.rejected \/ throws
               worker == [harness.worker EXCEPT ![w] = [at |-> place, cell |-> harness.next]]
    <2>1. /\ harness' = [harness EXCEPT !.next = harness.next + 1, !.rejected = rejected, !.worker = worker]
          /\ harness.worker[w].at = "idle" /\ harness.next <= Cells
      BY <1>1 DEF TakeCell, At
    <2>2. /\ place \in Places /\ rejected \in BOOLEAN /\ (place = "gone" => rejected)
          /\ (harness.rejected => rejected) /\ (~rejected => place \in {"acquire", "run"})
      BY <1>0 DEF Places, MatrixTypes
    <2> HIDE DEF place, rejected
    <2>3. /\ worker \in [Workers -> [at : Places, cell : Nat]]
          /\ worker[w].at = place /\ worker[w].cell = harness.next
          /\ \A v \in Workers \ {w} : worker[v] = harness.worker[v]
      BY <1>0, <2>2 DEF MatrixTypes
    <2> HIDE DEF worker
    <2>4. /\ MatrixShape(harness') /\ harness'.next = harness.next + 1 /\ harness'.rejected = rejected
          /\ harness'.worker = worker /\ harness'.container = harness.container
          /\ harness'.results = harness.results
      BY <1>0, <2>1 DEF MatrixTypes, MatrixShape, MatrixFields
    <2>5. MatrixTypes(harness')
      BY <1>0, <2>2, <2>3, <2>4 DEF MatrixTypes
    <2>6. harness.next \in Nat /\ \A v \in Workers : harness.worker[v].cell \in Nat
      BY <1>0 DEF MatrixTypes
    <2>7. Taken(harness')
      <3>1. ASSUME NEW v \in Workers
            PROVE  /\ worker[v].cell < harness.next + 1 /\ worker[v].cell <= Cells
                   /\ worker[v].at \in {"acquire", "run", "release", "complete"} => worker[v].cell > 0
                   /\ worker[v].at = "gone" /\ ~rejected => harness.next + 1 > Cells
        <4>1. CASE v = w
          BY <4>1, <1>0, <2>1, <2>2, <2>3, <2>6, HarnessAssumption DEF Taken
        <4>2. CASE v # w
          BY <4>2, <1>0, <2>1, <2>2, <2>3, <2>6, HarnessAssumption DEF Taken
        <4> QED
          BY <4>1, <4>2
      <3>2. \A v, u \in Workers : v # u /\ worker[v].cell > 0 => worker[v].cell # worker[u].cell
        BY <1>0, <2>3, <2>6 DEF Taken
      <3> QED
        BY <3>1, <3>2, <2>4, <2>6, <1>0 DEF Taken
    <2>8. HeldBy(harness')
      BY <1>0, <2>1, <2>3, <2>4 DEF HeldBy
    <2>9. Resulting(harness')
      <3> SUFFICES ASSUME ~rejected, NEW d \in 1..Cells, d < harness.next + 1, harness.results[d] = "none"
                   PROVE  \E v \in Workers : worker[v].cell = d /\ worker[v].at \in {"acquire", "run"}
        BY <2>4 DEF Resulting
      <3>1. CASE d = harness.next
        BY <3>1, <2>2, <2>3
      <3>2. CASE d # harness.next
        <4>1. PICK v \in Workers : harness.worker[v].cell = d /\ harness.worker[v].at \in {"acquire", "run"}
          BY <3>2, <1>0, <2>2, <2>6 DEF Resulting
        <4> QED
          BY <4>1, <2>1, <2>3
      <3> QED
        BY <3>1, <3>2
    <2> QED
      BY <2>5, <2>7, <2>8, <2>9 DEF SoundMatrix
  <1>2. CASE StopWorker(w)
    <2> DEFINE worker == [harness.worker EXCEPT ![w].at = "gone"]
    <2>1. harness' = [harness EXCEPT !.worker = worker] /\ harness.worker[w].at = "idle" /\ harness.next > Cells
      BY <1>2 DEF StopWorker, At, Moved
    <2>2. /\ worker \in [Workers -> [at : Places, cell : Nat]]
          /\ worker[w].at = "gone" /\ worker[w].cell = harness.worker[w].cell
          /\ \A v \in Workers \ {w} : worker[v] = harness.worker[v]
      BY <1>0 DEF MatrixTypes, Places
    <2> HIDE DEF worker
    <2>3. /\ MatrixShape(harness') /\ harness'.next = harness.next /\ harness'.rejected = harness.rejected
          /\ harness'.worker = worker /\ harness'.container = harness.container
          /\ harness'.results = harness.results
      BY <1>0, <2>1 DEF MatrixTypes, MatrixShape, MatrixFields
    <2>4. MatrixTypes(harness')
      BY <1>0, <2>2, <2>3 DEF MatrixTypes
    <2>5. Taken(harness')
      <3>1. \A v \in Workers : worker[v].cell = harness.worker[v].cell
        BY <2>2
      <3> QED
        BY <3>1, <1>0, <2>1, <2>2, <2>3 DEF Taken
    <2>6. HeldBy(harness')
      BY <1>0, <2>1, <2>2, <2>3 DEF HeldBy
    <2>7. Resulting(harness')
      BY <1>0, <2>1, <2>2, <2>3 DEF Resulting
    <2> QED
      BY <2>4, <2>5, <2>6, <2>7 DEF SoundMatrix
  <1> QED
    BY <1>1, <1>2

\* Every step of the matrix runner (runMatrix, executeCell).
LEMMA MatrixKeeps == SoundMatrix(harness) /\ RunMatrix => SoundMatrix(harness')
  <1> SUFFICES ASSUME SoundMatrix(harness), RunMatrix PROVE SoundMatrix(harness')
    OBVIOUS
  <1>0. MatrixTypes(harness) /\ Taken(harness) /\ HeldBy(harness) /\ Resulting(harness)
    BY DEF SoundMatrix
  <1>1. PICK w \in Workers :
          \/ \E throws \in BOOLEAN : TakeCell(w, throws) \/ CompleteCell(w, throws)
          \/ \E granted \in BOOLEAN : AcquireContainer(w, granted)
          \/ \E result \in {"success", "limit", "error"} : RunCell(w, result)
          \/ ReleaseContainer(w) \/ StopWorker(w)
    BY DEF RunMatrix
  <1> DEFINE c == Cell(w)
  <1>2. c = harness.worker[w].cell
    BY DEF Cell
  <1>3. ASSUME harness.worker[w].at \in {"acquire", "run", "release", "complete"}
        PROVE  /\ c \in 1..Cells /\ harness.container[c] \in {"none", "held", "released"}
               /\ harness.results[c] \in {"none", "success", "limit", "error"}
               /\ harness.rejected \in BOOLEAN
               /\ harness.container[c] = "held" => harness.worker[w].at \in {"run", "release"}
               /\ harness.results[c] = "none" => harness.rejected \/ harness.worker[w].at \in {"acquire", "run"}
    <2>0. c \in Nat
      BY <1>0, <1>2 DEF MatrixTypes
    <2>1. c \in 1..Cells /\ c < harness.next /\ c > 0
      BY <2>0, <1>0, <1>2, <1>3, HarnessAssumption DEF Taken
    <2>2. \A v \in Workers : harness.worker[v].cell = c => v = w
      BY <1>0, <1>2, <2>1 DEF Taken
    <2>3. harness.container[c] = "held" => harness.worker[w].at \in {"run", "release"}
      BY <1>0, <2>1, <2>2 DEF HeldBy
    <2>4. harness.results[c] = "none" => harness.rejected \/ harness.worker[w].at \in {"acquire", "run"}
      BY <1>0, <2>1, <2>2 DEF Resulting
    <2> QED
      BY <1>0, <2>1, <2>3, <2>4 DEF MatrixTypes
  <1>4. /\ harness.container = [harness.container EXCEPT ![c] = harness.container[c]]
        /\ harness.results = [harness.results EXCEPT ![c] = harness.results[c]]
    BY <1>0 DEF MatrixTypes
  <1>5. MatrixShape(harness)
    BY <1>0 DEF MatrixTypes
  <1>6. c = Cell(w)
    OBVIOUS
  <1>7. ASSUME NEW throws \in BOOLEAN, CompleteCell(w, throws) PROVE SoundMatrix(harness')
    <2> DEFINE place == IF throws THEN "gone" ELSE "idle"
               rejected == harness.rejected \/ throws
               result == IF throws THEN "none" ELSE harness.results[c]
               worker == [harness.worker EXCEPT ![w].at = place]
               results == [harness.results EXCEPT ![c] = result]
    <2>1. harness' = [harness EXCEPT !.worker = worker, !.rejected = rejected, !.results = results]
      BY <1>7 DEF CompleteCell, Moved
    <2>2. harness.worker[w].at = "complete"
      BY <1>7 DEF CompleteCell, At
    <2>3. place \in Places
      BY DEF Places
    <2> HIDE DEF worker, rejected, results, c
    <2>4. MatrixShape(harness') /\ harness'.next = harness.next /\ harness'.rejected = rejected
          /\ harness'.worker = worker /\ harness'.container = harness.container /\ harness'.results = results
      BY <1>5, <2>1 DEF MatrixShape, MatrixFields
    <2>5. rejected \in BOOLEAN /\ (harness.rejected => rejected) /\ (throws => rejected)
      BY <1>3, <2>2 DEF rejected
    <2>6. place = "gone" => rejected
      BY <2>5
    <2>7. result \in {"none", "success", "limit", "error"} /\ (result = "none" => rejected)
      BY <1>3, <2>2, <2>5
    <2>8. harness.container[c] \in {"none", "held", "released"} /\ harness.container[c] # "held"
      BY <1>3, <2>2
    <2>9. worker = [harness.worker EXCEPT ![w].at = place] /\ results = [harness.results EXCEPT ![c] = result]
      BY DEF worker, results
    <2> HIDE DEF place, result
    <2>10. WorkerStep(w, place, rejected, harness.container[c], result)
      BY <2>2, <2>3, <2>4, <2>5, <2>6, <2>7, <2>8, <2>9, <1>4, <1>6 DEF WorkerStep
    <2> QED
      BY <2>10, WorkerMoves
  <1>8. ASSUME NEW granted \in BOOLEAN, AcquireContainer(w, granted) PROVE SoundMatrix(harness')
    <2>1. harness.worker[w].at = "acquire" /\ "run" \in Places /\ "release" \in Places
      BY <1>8 DEF AcquireContainer, At, Places
    <2>2. CASE granted
      <3> DEFINE worker == [harness.worker EXCEPT ![w].at = "run"]
                 container == [harness.container EXCEPT ![c] = "held"]
      <3>1. harness' = [harness EXCEPT !.worker = worker, !.container = container]
        BY <1>8, <2>2 DEF AcquireContainer, Moved
      <3>2. worker = [harness.worker EXCEPT ![w].at = "run"] /\ container = [harness.container EXCEPT ![c] = "held"]
        OBVIOUS
      <3> HIDE DEF c, worker, container
      <3>3. MatrixShape(harness') /\ harness'.next = harness.next /\ harness'.rejected = harness.rejected
            /\ harness'.worker = worker /\ harness'.container = container /\ harness'.results = harness.results
        BY <1>5, <3>1 DEF MatrixShape, MatrixFields
      <3>4. WorkerStep(w, "run", harness.rejected, "held", harness.results[c])
        BY <3>2, <3>3, <2>1, <1>3, <1>4, <1>6 DEF WorkerStep
      <3> QED
        BY <3>4, WorkerMoves
    <2>3. CASE ~granted
      <3> DEFINE worker == [harness.worker EXCEPT ![w].at = "release"]
                 results == [harness.results EXCEPT ![c] = "error"]
      <3>1. harness' = [harness EXCEPT !.worker = worker, !.results = results]
        BY <1>8, <2>3 DEF AcquireContainer, Moved
      <3>2. worker = [harness.worker EXCEPT ![w].at = "release"] /\ results = [harness.results EXCEPT ![c] = "error"]
        OBVIOUS
      <3> HIDE DEF c, worker, results
      <3>3. MatrixShape(harness') /\ harness'.next = harness.next /\ harness'.rejected = harness.rejected
            /\ harness'.worker = worker /\ harness'.container = harness.container /\ harness'.results = results
        BY <1>5, <3>1 DEF MatrixShape, MatrixFields
      <3>4. WorkerStep(w, "release", harness.rejected, harness.container[c], "error")
        BY <3>2, <3>3, <2>1, <1>3, <1>4, <1>6 DEF WorkerStep
      <3> QED
        BY <3>4, WorkerMoves
    <2> QED
      BY <2>2, <2>3
  <1>9. ASSUME NEW result \in {"success", "limit", "error"}, RunCell(w, result) PROVE SoundMatrix(harness')
    <2>1. harness.worker[w].at = "run" /\ "release" \in Places
      BY <1>9 DEF RunCell, At, Places
    <2> DEFINE worker == [harness.worker EXCEPT ![w].at = "release"]
               results == [harness.results EXCEPT ![c] = result]
    <2>2. harness' = [harness EXCEPT !.worker = worker, !.results = results]
      BY <1>9 DEF RunCell, Moved
    <2>3. worker = [harness.worker EXCEPT ![w].at = "release"] /\ results = [harness.results EXCEPT ![c] = result]
      OBVIOUS
    <2> HIDE DEF c, worker, results
    <2>4. MatrixShape(harness') /\ harness'.next = harness.next /\ harness'.rejected = harness.rejected
          /\ harness'.worker = worker /\ harness'.container = harness.container /\ harness'.results = results
      BY <1>5, <2>2 DEF MatrixShape, MatrixFields
    <2>5. WorkerStep(w, "release", harness.rejected, harness.container[c], result)
      BY <2>1, <2>3, <2>4, <1>3, <1>4, <1>6 DEF WorkerStep
    <2> QED
      BY <2>5, WorkerMoves
  <1>10. CASE ReleaseContainer(w)
    <2> DEFINE held == IF harness.container[c] = "held" THEN "released" ELSE harness.container[c]
               worker == [harness.worker EXCEPT ![w].at = "complete"]
               container == [harness.container EXCEPT ![c] = held]
    <2>1. harness.worker[w].at = "release" /\ "complete" \in Places
      BY <1>10 DEF ReleaseContainer, At, Places
    <2>2. harness' = [harness EXCEPT !.worker = worker, !.container = container]
      BY <1>10 DEF ReleaseContainer, Moved
    <2>3. worker = [harness.worker EXCEPT ![w].at = "complete"] /\ container = [harness.container EXCEPT ![c] = held]
      OBVIOUS
    <2>4. held \in {"none", "held", "released"} /\ held # "held"
      BY <1>3, <2>1
    <2> HIDE DEF c, worker, container, held
    <2>5. MatrixShape(harness') /\ harness'.next = harness.next /\ harness'.rejected = harness.rejected
          /\ harness'.worker = worker /\ harness'.container = container /\ harness'.results = harness.results
      BY <1>5, <2>2 DEF MatrixShape, MatrixFields
    <2>6. WorkerStep(w, "complete", harness.rejected, held, harness.results[c])
      BY <2>1, <2>3, <2>4, <2>5, <1>3, <1>4, <1>6 DEF WorkerStep
    <2> QED
      BY <2>6, WorkerMoves
  <1> QED
    BY <1>1, <1>7, <1>8, <1>9, <1>10, TakingKeeps
-----------------------------------------------------------------------------
(* The history of a conversation *)

ContextFields == {"on", "calls", "answered", "messages"}

Message == [role : {"system", "user", "assistant", "tool"}, id : Nat, size : Nat]

\* The answers at i have their call, with nothing but answers between.
AskedFor(ms, i) ==
  \E a \in 1..Len(ms) :
    /\ ms[a].role = "assistant" /\ a < i /\ ms[a].id >= ms[i].id
    /\ \A j \in (a + 1)..i : ms[j].role = "tool"

\* A call that is not answered is the last turn.
Waits(ms, calls) ==
  \E a \in 1..Len(ms) :
    /\ ms[a].role = "assistant" /\ ms[a].id = calls
    /\ \A j \in (a + 1)..Len(ms) : ms[j].role = "tool"

SoundContext(h) ==
  /\ DOMAIN h = ContextFields /\ h = [x \in ContextFields |-> h[x]] /\ h.on = "context"
  /\ h.calls \in Nat /\ h.answered \in Nat /\ h.answered <= h.calls
  /\ h.messages \in Seq(Message) /\ Len(h.messages) >= 2
  /\ h.messages[1].role = "system" /\ h.messages[2].role = "user"
  /\ \A i \in 1..Len(h.messages) : h.messages[i].role = "tool" => AskedFor(h.messages, i)
  /\ h.answered < h.calls => Waits(h.messages, h.calls)

\* A history that grows by a message: answers before it keep their calls.
LEMMA GrownKeepsCalls ==
    ASSUME NEW ms \in Seq(Message), NEW m \in Message,
           \A i \in 1..Len(ms) : ms[i].role = "tool" => AskedFor(ms, i)
    PROVE  /\ Append(ms, m) \in Seq(Message) /\ Len(Append(ms, m)) = Len(ms) + 1
           /\ \A i \in 1..Len(ms) : Append(ms, m)[i] = ms[i]
           /\ Append(ms, m)[Len(ms) + 1] = m
           /\ \A i \in 1..Len(ms) : Append(ms, m)[i].role = "tool" => AskedFor(Append(ms, m), i)
  <1> DEFINE n == Append(ms, m)
  <1>1. /\ n \in Seq(Message) /\ Len(n) = Len(ms) + 1 /\ n[Len(ms) + 1] = m
        /\ \A i \in 1..Len(ms) : n[i] = ms[i]
    BY AppendProperties
  <1>2. Len(ms) \in Nat
    OBVIOUS
  <1> HIDE DEF n
  <1>3. ASSUME NEW i \in 1..Len(ms), n[i].role = "tool" PROVE AskedFor(n, i)
    <2>1. PICK a \in 1..Len(ms) : /\ ms[a].role = "assistant" /\ a < i /\ ms[a].id >= ms[i].id
                                   /\ \A j \in (a + 1)..i : ms[j].role = "tool"
      BY <1>1, <1>3 DEF AskedFor
    <2>2. a \in 1..Len(n) /\ \A j \in (a + 1)..i : n[j] = ms[j]
      BY <1>1, <1>2, <2>1
    <2> QED
      BY <1>1, <2>1, <2>2 DEF AskedFor
  <1> QED
    BY <1>1, <1>3 DEF n

\* A history that grows by m.
GrowsBy(m, calls, answered) ==
  /\ m \in Message /\ calls \in Nat /\ answered \in Nat /\ answered <= calls
  /\ harness' = [harness EXCEPT !.calls = calls, !.answered = answered,
                                !.messages = Append(harness.messages, m)]
  /\ m.role = "tool" => AskedFor(Append(harness.messages, m), Len(harness.messages) + 1)
  /\ answered < calls => Waits(Append(harness.messages, m), calls)

\* Such a step keeps the history sound (AgentHarness.run).
LEMMA GrowthKeeps ==
    ASSUME SoundContext(harness), NEW m, NEW calls, NEW answered, GrowsBy(m, calls, answered)
    PROVE  SoundContext(harness')
  <1> DEFINE ms == harness.messages
  <1>0. /\ ms \in Seq(Message) /\ Len(ms) >= 2 /\ ms[1].role = "system" /\ ms[2].role = "user"
        /\ \A i \in 1..Len(ms) : ms[i].role = "tool" => AskedFor(ms, i)
        /\ Len(ms) \in Nat
    BY DEF SoundContext
  <1> DEFINE n == Append(ms, m)
  <1>2. m \in Message /\ calls \in Nat /\ answered \in Nat /\ answered <= calls
    BY DEF GrowsBy
  <1>1. /\ n \in Seq(Message) /\ Len(n) = Len(ms) + 1 /\ \A i \in 1..Len(ms) : n[i] = ms[i]
        /\ n[Len(ms) + 1] = m /\ \A i \in 1..Len(ms) : n[i].role = "tool" => AskedFor(n, i)
    BY <1>0, <1>2, GrownKeepsCalls
  <1>3. harness' = [harness EXCEPT !.calls = calls, !.answered = answered, !.messages = n]
        /\ (m.role = "tool" => AskedFor(n, Len(ms) + 1)) /\ (answered < calls => Waits(n, calls))
    BY DEF GrowsBy
  <1> HIDE DEF n
  <1>4. /\ DOMAIN harness' = ContextFields /\ harness' = [x \in ContextFields |-> harness'[x]]
        /\ harness'.on = "context" /\ harness'.calls = calls /\ harness'.answered = answered
        /\ harness'.messages = n
    BY <1>3 DEF SoundContext, ContextFields
  <1>5. \A i \in 1..Len(n) : n[i].role = "tool" => AskedFor(n, i)
    BY <1>1, <1>3, <1>0
  <1>6. n[1].role = "system" /\ n[2].role = "user" /\ Len(n) >= 2
    BY <1>1, <1>0
  <1> QED
    BY <1>1, <1>2, <1>3, <1>4, <1>5, <1>6 DEF SoundContext

\* What a sound conversation holds.
LEMMA ContextFacts ==
    ASSUME SoundContext(harness)
    PROVE  LET ms == harness.messages IN
             /\ ms \in Seq(Message) /\ Len(ms) >= 2 /\ ms[1].role = "system" /\ ms[2].role = "user"
             /\ \A i \in 1..Len(ms) : ms[i].role = "tool" => AskedFor(ms, i)
             /\ harness.calls \in Nat /\ harness.answered \in Nat /\ harness.answered <= harness.calls
             /\ harness.answered < harness.calls => Waits(ms, harness.calls)
             /\ Len(ms) \in Nat
  BY DEF SoundContext

\* A turn of the assistant, of the user, or a tool's answer.
LEMMA ContextKeeps ==
    ASSUME SoundContext(harness),
           \E size \in {1, 2} :
             \/ \E calls \in 0..2 : AddAssistantTurn(calls, size)
             \/ AddToolResult(size) \/ AddUserMessage(size)
    PROVE  SoundContext(harness')
  <1> DEFINE ms == harness.messages
  <1>0. /\ ms \in Seq(Message) /\ Len(ms) >= 2 /\ ms[1].role = "system" /\ ms[2].role = "user"
        /\ \A i \in 1..Len(ms) : ms[i].role = "tool" => AskedFor(ms, i)
        /\ harness.calls \in Nat /\ harness.answered \in Nat /\ harness.answered <= harness.calls
        /\ harness.answered < harness.calls => Waits(ms, harness.calls)
        /\ Len(ms) \in Nat
    BY ContextFacts
  <1>2. ASSUME NEW size \in {1, 2}, NEW calls \in 0..2, AddAssistantTurn(calls, size)
        PROVE  SoundContext(harness')
    <2> DEFINE m == Said("assistant", harness.calls + calls, size)
    <2>1. /\ harness' = [harness EXCEPT !.calls = harness.calls + calls, !.messages = Append(ms, m)]
          /\ harness.answered = harness.calls
      BY <1>2 DEF AddAssistantTurn
    <2>2. m \in Message /\ m.role = "assistant" /\ m.id = harness.calls + calls
      BY <1>0 DEF Message, Said
    <2> HIDE DEF m
    <2>3. Waits(Append(ms, m), harness.calls + calls)
      <3>1. Append(ms, m)[Len(ms) + 1] = m /\ Len(Append(ms, m)) = Len(ms) + 1
        BY <1>0, <2>2, GrownKeepsCalls
      <3> HIDE DEF ms
      <3> QED
        BY <1>0, <2>2, <3>1 DEF Waits
    <2>4. harness' = [harness EXCEPT !.calls = harness.calls + calls, !.answered = harness.answered,
                                     !.messages = Append(ms, m)]
      BY <2>1 DEF SoundContext, ContextFields
    <2>5. GrowsBy(m, harness.calls + calls, harness.answered)
      BY <1>0, <2>1, <2>2, <2>3, <2>4 DEF GrowsBy
    <2> QED
      BY <2>5, GrowthKeeps
  <1>3. ASSUME NEW size \in {1, 2}, AddToolResult(size) PROVE SoundContext(harness')
    <2> DEFINE m == Said("tool", harness.answered + 1, size)
    <2>1. /\ harness' = [harness EXCEPT !.answered = harness.answered + 1, !.messages = Append(ms, m)]
          /\ harness.answered < harness.calls
      BY <1>3 DEF AddToolResult
    <2>2. m \in Message /\ m.role = "tool" /\ m.id = harness.answered + 1
      BY <1>0 DEF Message, Said
    <2> HIDE DEF m
    <2>3. PICK a \in 1..Len(ms) : /\ ms[a].role = "assistant" /\ ms[a].id = harness.calls
                                   /\ \A j \in (a + 1)..Len(ms) : ms[j].role = "tool"
      BY <1>0, <2>1 DEF Waits
    <2>4. /\ Append(ms, m)[Len(ms) + 1] = m /\ Len(Append(ms, m)) = Len(ms) + 1
          /\ \A i \in 1..Len(ms) : Append(ms, m)[i] = ms[i]
      BY <1>0, <2>2, GrownKeepsCalls
    <2> DEFINE n == Append(ms, m)
    <2>5. a \in 1..Len(n) /\ n[a] = ms[a] /\ \A j \in (a + 1)..Len(n) : n[j].role = "tool"
      BY <1>0, <2>2, <2>3, <2>4
    <2>8. n[Len(ms) + 1] = m /\ Len(n) = Len(ms) + 1
      BY <2>4
    <2>6. AskedFor(n, Len(ms) + 1) /\ Waits(n, harness.calls)
      <3> HIDE DEF n, ms
      <3>1. Len(ms) + 1 = Len(n) /\ a < Len(n) /\ n[a].role = "assistant" /\ n[a].id = harness.calls
        BY <1>0, <2>3, <2>5, <2>8
      <3>2. n[Len(n)].id = harness.answered + 1 /\ n[a].id >= n[Len(n)].id
        BY <1>0, <2>1, <2>2, <2>8, <3>1
      <3> QED
        BY <2>5, <3>1, <3>2 DEF AskedFor, Waits
    <2>7. harness' = [harness EXCEPT !.calls = harness.calls, !.answered = harness.answered + 1,
                                     !.messages = Append(ms, m)]
      BY <2>1 DEF SoundContext, ContextFields
    <2>9. GrowsBy(m, harness.calls, harness.answered + 1)
      BY <1>0, <2>1, <2>2, <2>6, <2>7 DEF GrowsBy
    <2> QED
      BY <2>9, GrowthKeeps
  <1>4. ASSUME NEW size \in {1, 2}, AddUserMessage(size) PROVE SoundContext(harness')
    <2> DEFINE m == Said("user", 0, size)
    <2>1. /\ harness' = [harness EXCEPT !.messages = Append(ms, m)] /\ harness.answered = harness.calls
      BY <1>4 DEF AddUserMessage
    <2>2. m \in Message /\ m.role = "user"
      BY DEF Message, Said
    <2> HIDE DEF m
    <2>3. harness' = [harness EXCEPT !.calls = harness.calls, !.answered = harness.answered,
                                     !.messages = Append(ms, m)]
      BY <2>1 DEF SoundContext, ContextFields
    <2>5. m.role # "tool" /\ ~(harness.answered < harness.calls)
      BY <1>0, <2>1, <2>2
    <2>4. GrowsBy(m, harness.calls, harness.answered)
      BY <1>0, <2>2, <2>3, <2>5 DEF GrowsBy
    <2> QED
      BY <2>4, GrowthKeeps
  <1> QED
    BY <1>2, <1>3, <1>4

\* Some block fits: the last one, at least (pruneHistory).
LEMMA PruningChooses ==
    ASSUME NEW ms \in Seq(Message), Len(ms) > 2, NEW turns \in Nat, NEW tokens \in Nat
    PROVE  \E i \in Starts(ms) : Pruned(ms, turns, tokens) = From(ms, i)
  <1>1. Len(ms) \in Nat /\ 3 \in Starts(ms) /\ Starts(ms) \subseteq 0..Len(ms)
    BY DEF Starts
  <1>2. PICK m \in Starts(ms) : \A j \in Starts(ms) : j <= m
    BY <1>1, GreatestOf
  <1>3. {j \in Starts(ms) : j >= m} = {m}
    BY <1>1, <1>2
  <1>4. Cardinality({m}) = 1
    BY FS_Singleton
  <1>5. BlocksFrom(ms, m) = 1
    BY <1>3, <1>4 DEF BlocksFrom
  <1>6. Fits(ms, m, turns, tokens)
    BY <1>5 DEF Fits
  <1> DEFINE T == {i \in Starts(ms) : Fits(ms, i, turns, tokens)}
  <1>7. T \subseteq Nat /\ T # {}
    BY <1>1, <1>2, <1>6
  <1>8. PICK i \in T : \A j \in T : i <= j
    BY <1>7, LeastOf
  <1>9. \E k \in Starts(ms) : /\ Fits(ms, k, turns, tokens)
                              /\ \A j \in Starts(ms) : Fits(ms, j, turns, tokens) => k <= j
    BY <1>8
  <1> DEFINE chosen == CHOOSE k \in Starts(ms) : /\ Fits(ms, k, turns, tokens)
                              /\ \A j \in Starts(ms) : Fits(ms, j, turns, tokens) => k <= j
  <1>10. chosen \in Starts(ms)
    BY <1>9
  <1>11. ~(Len(ms) <= 2)
    BY <1>1
  <1>12. Pruned(ms, turns, tokens) = From(ms, chosen)
    BY <1>11 DEF Pruned
  <1> HIDE DEF chosen
  <1> QED
    BY <1>10, <1>12

\* What is left of a history from where one of its blocks begins.
LEMMA FromIs ==
    ASSUME NEW ms \in Seq(Message), NEW i \in Starts(ms)
    PROVE  /\ From(ms, i) \in Seq(Message) /\ Len(From(ms, i)) = Len(ms) - i + 3
           /\ From(ms, i)[1] = ms[1] /\ From(ms, i)[2] = ms[2]
           /\ \A k \in 3..(Len(ms) - i + 3) : From(ms, i)[k] = ms[k + i - 3]
  <1>1. i \in 3..Len(ms) /\ Len(ms) \in Nat /\ \A k \in 1..Len(ms) : ms[k] \in Message
    BY DEF Starts
  <1> DEFINE p == SubSeq(ms, 1, 2)
             q == SubSeq(ms, i, Len(ms))
  <1>2. p \in Seq(Message) /\ Len(p) = 2 /\ p[1] = ms[1] /\ p[2] = ms[2]
    <2>1. \A k \in 1..2 : ms[k] \in Message
      BY <1>1
    <2>2. /\ p \in Seq(Message) /\ Len(p) = IF 1 <= 2 THEN 2 - 1 + 1 ELSE 0
          /\ \A k \in 1..(2 - 1 + 1) : p[k] = ms[1 + k - 1]
      BY <2>1, SubSeqProperties
    <2> HIDE DEF p
    <2> QED
      BY <2>2
  <1>3. q \in Seq(Message) /\ Len(q) = Len(ms) - i + 1 /\ \A k \in 1..(Len(ms) - i + 1) : q[k] = ms[i + k - 1]
    <2>1. \A k \in i..Len(ms) : ms[k] \in Message
      BY <1>1
    <2>2. /\ q \in Seq(Message) /\ Len(q) = IF i <= Len(ms) THEN Len(ms) - i + 1 ELSE 0
          /\ \A k \in 1..(Len(ms) - i + 1) : q[k] = ms[i + k - 1]
      BY <1>1, <2>1, SubSeqProperties
    <2> HIDE DEF q
    <2> QED
      BY <1>1, <2>2
  <1>4. From(ms, i) = p \o q
    BY DEF From
  <1> HIDE DEF p, q
  <1>5. /\ p \o q \in Seq(Message) /\ Len(p \o q) = Len(p) + Len(q)
        /\ \A k \in 1..(Len(p) + Len(q)) : (p \o q)[k] = IF k <= Len(p) THEN p[k] ELSE q[k - Len(p)]
    BY <1>2, <1>3, ConcatProperties
  <1>6. \A k \in 3..(Len(ms) - i + 3) : (p \o q)[k] = q[k - 2] /\ k - 2 \in 1..(Len(ms) - i + 1)
    BY <1>1, <1>2, <1>3, <1>5
  <1>7. \A k \in 3..(Len(ms) - i + 3) : q[k - 2] = ms[k + i - 3]
    BY <1>1, <1>3, <1>6
  <1>8. Len(p \o q) = Len(ms) - i + 3 /\ (p \o q)[1] = p[1] /\ (p \o q)[2] = p[2]
    BY <1>1, <1>2, <1>3, <1>5
  <1>9. \A k \in 3..(Len(ms) - i + 3) : (p \o q)[k] = ms[k + i - 3]
    BY <1>6, <1>7
  <1> QED
    BY <1>2, <1>4, <1>5, <1>8, <1>9

\* A message that is kept lies at a place that is earlier by what was cut.
LEMMA MovesBack ==
    ASSUME NEW a \in Int, NEW i \in Int, NEW k \in Int, NEW size \in Int,
           i >= 3, i <= a, a < k + i - 3, k <= size
    PROVE  a - i + 3 \in 3..size /\ a - i + 3 < k /\ (a - i + 3) + i - 3 = a
  OBVIOUS

\* Pruning cuts between blocks (pruneHistory).
LEMMA PruningKeeps ==
    ASSUME SoundContext(harness), NEW turns \in Nat, NEW tokens \in Nat, PruneHistory(turns, tokens)
    PROVE  SoundContext(harness')
  <1> DEFINE ms == harness.messages
             n == Pruned(ms, turns, tokens)
  <1>0. /\ ms \in Seq(Message) /\ Len(ms) >= 2 /\ ms[1].role = "system" /\ ms[2].role = "user"
        /\ \A i \in 1..Len(ms) : ms[i].role = "tool" => AskedFor(ms, i)
        /\ harness.calls \in Nat /\ harness.answered \in Nat /\ harness.answered <= harness.calls
        /\ harness.answered < harness.calls => Waits(ms, harness.calls)
        /\ Len(ms) \in Nat
    BY ContextFacts
  <1>1. harness' = [harness EXCEPT !.messages = n]
    BY DEF PruneHistory
  <1>2. /\ n \in Seq(Message) /\ Len(n) >= 2 /\ n[1].role = "system" /\ n[2].role = "user"
        /\ \A i \in 1..Len(n) : n[i].role = "tool" => AskedFor(n, i)
        /\ harness.answered < harness.calls => Waits(n, harness.calls)
    <2>1. CASE Len(ms) <= 2
      <3>1. n = ms
        BY <2>1 DEF Pruned
      <3> QED
        BY <1>0, <3>1
    <2>2. CASE Len(ms) > 2
      <3>1. PICK i \in Starts(ms) : n = From(ms, i)
        BY <1>0, <2>2, PruningChooses
      <3>2. /\ n \in Seq(Message) /\ Len(n) = Len(ms) - i + 3 /\ n[1] = ms[1] /\ n[2] = ms[2]
            /\ \A k \in 3..(Len(ms) - i + 3) : n[k] = ms[k + i - 3]
        BY <1>0, <3>1, FromIs
      <3>3. i \in 3..Len(ms) /\ (i > 3 => ms[i].role # "tool")
        BY DEF Starts
      <3> HIDE DEF n, ms
      <3>4. ASSUME NEW k \in 1..Len(n), n[k].role = "tool" PROVE AskedFor(n, k)
        <4>1. k \in 3..Len(n) /\ k + i - 3 \in 1..Len(ms) /\ n[k] = ms[k + i - 3]
          BY <1>0, <3>2, <3>3, <3>4
        <4>2. PICK a \in 1..Len(ms) : /\ ms[a].role = "assistant" /\ a < k + i - 3
                                       /\ ms[a].id >= ms[k + i - 3].id
                                       /\ \A j \in (a + 1)..(k + i - 3) : ms[j].role = "tool"
          BY <1>0, <3>4, <4>1 DEF AskedFor
        <4>3. a # 1 /\ a # 2
          BY <1>0, <4>2
        <4>4. a >= i
          BY <1>0, <3>3, <4>1, <4>2, <4>3
        <4> DEFINE b == a - i + 3
        <4>5. b \in 3..Len(n) /\ b < k /\ n[b] = ms[a]
          <5>2. /\ a \in Int /\ i \in Int /\ k \in Int /\ Len(n) \in Int /\ i >= 3 /\ i <= a
                /\ a < k + i - 3 /\ k <= Len(n)
            BY <1>0, <3>2, <3>3, <4>1, <4>2, <4>4
          <5>1. b \in 3..Len(n) /\ b < k /\ b + i - 3 = a
            BY <5>2, MovesBack
          <5> QED
            BY <3>2, <5>1
        <4>6. \A j \in (b + 1)..k : n[j] = ms[j + i - 3] /\ j + i - 3 \in (a + 1)..(k + i - 3)
          BY <1>0, <3>2, <3>3, <4>1, <4>2, <4>4
        <4>7. \A j \in (b + 1)..k : n[j].role = "tool"
          BY <4>2, <4>6
        <4>8. b \in 1..Len(n)
          BY <4>5
        <4> HIDE DEF b
        <4> QED
          BY <4>1, <4>2, <4>5, <4>7, <4>8 DEF AskedFor
      <3>5. ASSUME harness.answered < harness.calls PROVE Waits(n, harness.calls)
        <4>2. PICK a \in 1..Len(ms) : /\ ms[a].role = "assistant" /\ ms[a].id = harness.calls
                                       /\ \A j \in (a + 1)..Len(ms) : ms[j].role = "tool"
          BY <1>0, <3>5 DEF Waits
        <4>3. a # 1 /\ a # 2
          BY <1>0, <4>2
        <4>4. a >= i
          BY <1>0, <3>3, <4>2, <4>3
        <4> DEFINE b == a - i + 3
        <4>5. b \in 3..Len(n) /\ n[b] = ms[a]
          <5>1. b \in 3..Len(n) /\ b + i - 3 = a
            BY <1>0, <3>2, <3>3, <4>2, <4>4
          <5> QED
            BY <3>2, <5>1
        <4>6. \A j \in (b + 1)..Len(n) : n[j] = ms[j + i - 3] /\ j + i - 3 \in (a + 1)..Len(ms)
          BY <1>0, <3>2, <3>3, <4>2, <4>4
        <4>7. \A j \in (b + 1)..Len(n) : n[j].role = "tool"
          BY <4>2, <4>6
        <4>8. b \in 1..Len(n)
          BY <4>5
        <4> HIDE DEF b
        <4> QED
          BY <4>2, <4>5, <4>7, <4>8 DEF Waits
      <3> QED
        BY <1>0, <3>2, <3>3, <3>4, <3>5
    <2> QED
      BY <1>0, <2>1, <2>2
  <1> HIDE DEF n
  <1>3. /\ DOMAIN harness' = ContextFields /\ harness' = [x \in ContextFields |-> harness'[x]]
        /\ harness'.on = "context" /\ harness'.calls = harness.calls /\ harness'.answered = harness.answered
        /\ harness'.messages = n
    BY <1>1 DEF SoundContext, ContextFields
  <1> QED
    BY <1>0, <1>2, <1>3 DEF SoundContext
-----------------------------------------------------------------------------
(* The catalog of scenarios *)

CatalogFields == {"on", "disk", "cache", "catalog", "outcome"}

WholeCatalog(h) ==
  /\ DOMAIN h = CatalogFields /\ h = [x \in CatalogFields |-> h[x]] /\ h.on = "catalog"
  /\ h.disk \in Entries /\ h.outcome # "scenario_invalid"
  /\ h.catalog # None =>
       \A i \in DOMAIN h.catalog.entries : LET e == h.catalog.entries[i] IN
         /\ e \in h.cache /\ e.file = <<e.id, e.category>>
         /\ \A j \in DOMAIN h.catalog.entries : h.catalog.entries[j].id = e.id => i = j

Refuses(entries, i) ==
  \/ \E j \in 1..(i - 1) : entries[j].id = entries[i].id \/ entries[j].path = entries[i].path
  \/ entries[i].file = None
  \/ entries[i].file # None /\ entries[i].file # <<entries[i].id, entries[i].category>>

\* The first entry that is refused is found, and none before it is refused.
LEMMA FirstRefusedIs ==
    ASSUME NEW entries, Len(entries) \in Nat
    PROVE  /\ FirstRefused(entries) \in 1..(Len(entries) + 1)
           /\ \A i \in 1..(FirstRefused(entries) - 1) : ~Refuses(entries, i)
  <1> DEFINE n == Len(entries)
             T == {k \in 1..(n + 1) : k <= n => Refuses(entries, k)}
             Chosen(k) == (k <= n => Refuses(entries, k)) /\ \A i \in 1..(k - 1) : ~Refuses(entries, i)
  <1>1. T \subseteq Nat /\ n + 1 \in T
    OBVIOUS
  <1>2. PICK k \in T : \A j \in T : k <= j
    BY <1>1, LeastOf
  <1>3. k \in 1..(n + 1) /\ Chosen(k)
    <2>1. k \in 1..(n + 1) /\ (k <= n => Refuses(entries, k))
      OBVIOUS
    <2>2. ASSUME NEW i \in 1..(k - 1), Refuses(entries, i) PROVE FALSE
      <3>1. i \in T
        BY <2>1, <2>2
      <3>2. k <= i
        BY <3>1, <1>2
      <3> QED
        BY <2>1, <3>2
    <2> QED
      BY <2>1, <2>2
  <1>4. FirstRefused(entries) = CHOOSE x \in 1..(n + 1) : Chosen(x)
    BY DEF FirstRefused, Refuses
  <1> DEFINE found == CHOOSE x \in 1..(n + 1) : Chosen(x)
  <1>5. found \in 1..(n + 1) /\ Chosen(found)
    BY <1>3
  <1> HIDE DEF found
  <1> QED
    BY <1>4, <1>5

\* A catalog is loaded when none of its entries is refused (loadCatalog).
LEMMA LoadingKeeps == WholeCatalog(harness) /\ LoadCatalog => WholeCatalog(harness')
  <1> SUFFICES ASSUME WholeCatalog(harness), LoadCatalog PROVE WholeCatalog(harness')
    OBVIOUS
  <1> DEFINE entries == harness.disk.entries
             n == FirstRefused(entries) - 1
             read == {entries[i] : i \in 1..n}
             cached == {e \in harness.cache : \A r \in read : r.id # e.id} \cup read
             whole == n = Len(entries) /\ CategoriesMatch(harness.disk)
             catalog == IF whole THEN harness.disk ELSE harness.catalog
             outcome == IF whole THEN "loaded" ELSE "refused"
  <1>1. harness.catalog = None /\ harness' = [harness EXCEPT !.cache = cached, !.catalog = catalog, !.outcome = outcome]
    <2>1. /\ harness.catalog = None
          /\ harness' = IF whole THEN [harness EXCEPT !.cache = cached, !.catalog = harness.disk, !.outcome = "loaded"]
                        ELSE [harness EXCEPT !.cache = cached, !.outcome = "refused"]
      BY DEF LoadCatalog
    <2> HIDE DEF whole, cached
    <2>2. [harness EXCEPT !.cache = cached, !.outcome = "refused"]
            = [harness EXCEPT !.cache = cached, !.catalog = harness.catalog, !.outcome = "refused"]
      BY DEF WholeCatalog, CatalogFields
    <2> QED
      BY <2>1, <2>2
  <1>2. harness.disk \in Entries /\ Len(entries) \in Nat /\ DOMAIN entries = 1..Len(entries)
    BY HarnessAssumption DEF WholeCatalog
  <1>3. FirstRefused(entries) \in 1..(Len(entries) + 1) /\ \A i \in 1..n : ~Refuses(entries, i)
    BY <1>2, FirstRefusedIs
  <1>4. ASSUME whole, NEW i \in DOMAIN entries
        PROVE  /\ entries[i] \in cached /\ entries[i].file = <<entries[i].id, entries[i].category>>
               /\ \A j \in DOMAIN entries : entries[j].id = entries[i].id => i = j
    <2>1. n = Len(entries) /\ i \in 1..n
      BY <1>2, <1>4
    <2>2. entries[i] \in cached
      BY <2>1
    <2> HIDE DEF n
    <2>3. ~Refuses(entries, i) /\ \A j \in 1..n : ~Refuses(entries, j)
      BY <1>3, <2>1
    <2>4. entries[i].file = <<entries[i].id, entries[i].category>>
      BY <2>3 DEF Refuses
    <2>5. ASSUME NEW j \in DOMAIN entries, entries[j].id = entries[i].id PROVE i = j
      <3>1. j \in 1..n /\ ~Refuses(entries, j)
        BY <1>2, <2>1, <2>3
      <3>2. j \notin 1..(i - 1)
        BY <2>3, <2>5 DEF Refuses
      <3>3. i \notin 1..(j - 1)
        BY <3>1, <2>5 DEF Refuses
      <3> QED
        BY <1>2, <2>1, <3>1, <3>2, <3>3
    <2> QED
      BY <2>2, <2>4, <2>5
  <1>5. outcome # "scenario_invalid"
    OBVIOUS
  <1>6. catalog # None => catalog = harness.disk /\ whole
    BY <1>1
  <1> HIDE DEF cached, catalog, outcome, whole
  <1>7. /\ DOMAIN harness' = CatalogFields /\ harness' = [x \in CatalogFields |-> harness'[x]]
        /\ harness'.on = "catalog" /\ harness'.disk = harness.disk /\ harness'.cache = cached
        /\ harness'.catalog = catalog /\ harness'.outcome = outcome
    BY <1>1 DEF WholeCatalog, CatalogFields
  <1>8. catalog # None =>
          \A i \in DOMAIN catalog.entries :
            /\ catalog.entries[i] \in cached
            /\ catalog.entries[i].file = <<catalog.entries[i].id, catalog.entries[i].category>>
            /\ \A j \in DOMAIN catalog.entries : catalog.entries[j].id = catalog.entries[i].id => i = j
    BY <1>4, <1>6
  <1> QED
    BY <1>2, <1>5, <1>7, <1>8 DEF WholeCatalog

\* A scenario of the catalog is in the cache (loadScenario).
LEMMA LookingUpKeeps ==
    ASSUME WholeCatalog(harness), ChangeDisk \/ \E id \in {1, 2, 3} : LoadScenario(id)
    PROVE  WholeCatalog(harness')
  <1>1. CASE ChangeDisk
    <2>1. PICK disk \in Entries : harness' = [harness EXCEPT !.disk = disk]
      BY <1>1 DEF ChangeDisk
    <2>2. /\ DOMAIN harness' = CatalogFields /\ harness' = [x \in CatalogFields |-> harness'[x]]
          /\ harness'.on = "catalog" /\ harness'.disk = disk /\ harness'.cache = harness.cache
          /\ harness'.catalog = harness.catalog /\ harness'.outcome = harness.outcome
      BY <2>1 DEF WholeCatalog, CatalogFields
    <2> QED
      BY <2>2 DEF WholeCatalog
  <1>2. ASSUME NEW id \in {1, 2, 3}, LoadScenario(id) PROVE WholeCatalog(harness')
    <2> DEFINE outcome ==
          IF \E i \in DOMAIN harness.catalog.entries : harness.catalog.entries[i].id = id
            THEN IF \E e \in harness.cache : e.id = id THEN "scenario" ELSE "scenario_invalid"
            ELSE "scenario_unresolved"
    <2>1. harness' = [harness EXCEPT !.outcome = outcome] /\ harness.catalog # None
      BY <1>2 DEF LoadScenario
    <2>2. outcome # "scenario_invalid"
      <3>1. ASSUME NEW i \in DOMAIN harness.catalog.entries, harness.catalog.entries[i].id = id
            PROVE  \E e \in harness.cache : e.id = id
        <4>1. harness.catalog.entries[i] \in harness.cache
          BY <2>1 DEF WholeCatalog
        <4> QED
          BY <3>1, <4>1
      <3> QED
        BY <3>1
    <2> HIDE DEF outcome
    <2>3. /\ DOMAIN harness' = CatalogFields /\ harness' = [x \in CatalogFields |-> harness'[x]]
          /\ harness'.on = "catalog" /\ harness'.disk = harness.disk /\ harness'.cache = harness.cache
          /\ harness'.catalog = harness.catalog /\ harness'.outcome = outcome
      BY <2>1 DEF WholeCatalog, CatalogFields
    <2> QED
      BY <2>2, <2>3 DEF WholeCatalog
  <1> QED
    BY <1>1, <1>2
-----------------------------------------------------------------------------
(* The harness *)

HarnessInv == SoundMatrix(harness) \/ SoundContext(harness) \/ WholeCatalog(harness)

\* A harness begins sound.
LEMMA HarnessStarts == HarnessInit => HarnessInv
  <1> SUFFICES ASSUME HarnessInit PROVE HarnessInv
    OBVIOUS
  <1>1. ASSUME NEW pool \in BOOLEAN,
               harness = [on |-> "matrix", pool |-> pool, next |-> 1, rejected |-> FALSE,
                          worker |-> [w \in Workers |-> [at |-> "idle", cell |-> 0]],
                          container |-> [c \in 1..Cells |-> "none"],
                          results |-> [c \in 1..Cells |-> "none"]]
        PROVE  SoundMatrix(harness)
    <2> DEFINE worker == [w \in Workers |-> [at |-> "idle", cell |-> 0]]
               container == [c \in 1..Cells |-> "none"]
               results == [c \in 1..Cells |-> "none"]
    <2>1. /\ worker \in [Workers -> [at : Places, cell : Nat]]
          /\ \A w \in Workers : worker[w].at = "idle" /\ worker[w].cell = 0
          /\ container \in [1..Cells -> {"none", "held", "released"}] /\ \A c \in 1..Cells : container[c] = "none"
          /\ results \in [1..Cells -> {"none", "success", "limit", "error"}]
      BY DEF Places
    <2>2. harness = [on |-> "matrix", pool |-> pool, next |-> 1, rejected |-> FALSE,
                     worker |-> worker, container |-> container, results |-> results]
      BY <1>1
    <2> HIDE DEF worker, container, results
    <2>3. /\ MatrixShape(harness) /\ harness.next = 1 /\ harness.rejected = FALSE /\ harness.worker = worker
          /\ harness.container = container /\ harness.results = results
      BY <2>2 DEF MatrixShape, MatrixFields
    <2>7. harness.next \in Nat
      BY <2>3
    <2>8. harness.rejected \in BOOLEAN
      BY <2>3, Zenon
    <2>4. MatrixTypes(harness)
      BY <2>1, <2>3, <2>7, <2>8, Zenon DEF MatrixTypes
    <2>5. Taken(harness)
      BY <2>1, <2>3, HarnessAssumption DEF Taken
    <2>6. HeldBy(harness) /\ Resulting(harness)
      BY <2>1, <2>3 DEF HeldBy, Resulting
    <2> QED
      BY <2>4, <2>5, <2>6 DEF SoundMatrix
  <1>2. ASSUME harness = [on |-> "context", calls |-> 0, answered |-> 0, messages |->
                 <<[role |-> "system", id |-> 0, size |-> 1], [role |-> "user", id |-> 0, size |-> 1]>>]
        PROVE  SoundContext(harness)
    <2> DEFINE s == [role |-> "system", id |-> 0, size |-> 1]
               u == [role |-> "user", id |-> 0, size |-> 1]
               ms == <<s, u>>
    <2>1. s \in Message /\ u \in Message /\ s.role = "system" /\ u.role = "user"
      BY DEF Message
    <2>2. harness = [on |-> "context", calls |-> 0, answered |-> 0, messages |-> ms]
      BY <1>2
    <2> HIDE DEF s, u
    <2>3. ms \in Seq(Message) /\ Len(ms) = 2 /\ ms[1] = s /\ ms[2] = u
      BY <2>1
    <2> HIDE DEF ms
    <2>4. /\ DOMAIN harness = ContextFields /\ harness = [x \in ContextFields |-> harness[x]]
          /\ harness.on = "context" /\ harness.calls = 0 /\ harness.answered = 0 /\ harness.messages = ms
      BY <2>2 DEF ContextFields
    <2>5. \A i \in 1..Len(ms) : ms[i].role # "tool"
      BY <2>1, <2>3
    <2> QED
      BY <2>1, <2>3, <2>4, <2>5 DEF SoundContext
  <1>3. ASSUME NEW disk \in Entries,
               harness = [on |-> "catalog", disk |-> disk, cache |-> {}, catalog |-> None, outcome |-> "none"]
        PROVE  WholeCatalog(harness)
    BY <1>3 DEF WholeCatalog, CatalogFields
  <1> QED
    BY <1>1, <1>2, <1>3 DEF HarnessInit, HarnessInv

\* Every step of a harness.
LEMMA HarnessKeeps == HarnessInv /\ HarnessNext => HarnessInv'
  <1> SUFFICES ASSUME HarnessInv, HarnessNext PROVE HarnessInv'
    OBVIOUS
  <1>1. CASE RunMatrix
    <2>1. Is("matrix")
      BY <1>1 DEF RunMatrix, TakeCell, CompleteCell, AcquireContainer, RunCell, ReleaseContainer, StopWorker, At
    <2>2. SoundMatrix(harness)
      BY <2>1 DEF HarnessInv, Is, SoundContext, WholeCatalog
    <2> QED
      BY <1>1, <2>2, MatrixKeeps DEF HarnessInv
  <1>2. CASE Converse
    <2>1. \/ \E size \in {1, 2} :
               \/ \E calls \in 0..2 : AddAssistantTurn(calls, size)
               \/ AddToolResult(size) \/ AddUserMessage(size)
          \/ \E turns \in 0..2, tokens \in 0..MaxTokens : PruneHistory(turns, tokens)
      BY <1>2 DEF Converse
    <2>2. Is("context")
      BY <2>1 DEF AddAssistantTurn, AddToolResult, AddUserMessage, PruneHistory
    <2>3. SoundContext(harness)
      BY <2>2 DEF HarnessInv, Is, SoundMatrix, MatrixTypes, MatrixShape, WholeCatalog
    <2>4. \A tokens \in 0..MaxTokens, turns \in 0..2 : tokens \in Nat /\ turns \in Nat
      OBVIOUS
    <2> QED
      BY <2>1, <2>3, <2>4, ContextKeeps, PruningKeeps DEF HarnessInv
  <1>3. CASE LoadCatalog \/ ChangeDisk \/ \E id \in {1, 2, 3} : LoadScenario(id)
    <2>1. Is("catalog")
      BY <1>3 DEF LoadCatalog, ChangeDisk, LoadScenario
    <2>2. WholeCatalog(harness)
      BY <2>1 DEF HarnessInv, Is, SoundMatrix, MatrixTypes, MatrixShape, SoundContext
    <2> QED
      BY <1>3, <2>2, LoadingKeeps, LookingUpKeeps DEF HarnessInv
  <1> QED
    BY <1>1, <1>2, <1>3 DEF HarnessNext

\* A sound harness is whole.
LEMMA HarnessHolds == HarnessInv => MatrixIsWhole /\ HistoryIsWhole /\ CatalogIsWhole
  <1> SUFFICES ASSUME HarnessInv PROVE MatrixIsWhole /\ HistoryIsWhole /\ CatalogIsWhole
    OBVIOUS
  <1>1. CASE SoundMatrix(harness)
    <2>0. MatrixTypes(harness) /\ Taken(harness) /\ HeldBy(harness) /\ Resulting(harness)
      BY <1>1 DEF SoundMatrix
    <2>1. ASSUME \A w \in Workers : harness.worker[w].at = "gone", ~harness.rejected, NEW c \in 1..Cells
          PROVE  harness.results[c] # "none"
      <3>1. PICK w \in Workers : TRUE
        BY HarnessAssumption
      <3>2. harness.next > Cells
        BY <2>0, <2>1, <3>1 DEF Taken
      <3>3. c < harness.next
        BY <2>0, <3>2, HarnessAssumption DEF MatrixTypes
      <3> QED
        BY <2>0, <2>1, <3>3 DEF Resulting
    <2>2. \A c \in 1..Cells : harness.container[c] = "held" =>
            \E w \in Workers : harness.worker[w].cell = c /\ harness.worker[w].at \in {"run", "release"}
      BY <2>0 DEF HeldBy
    <2>3. \A v, w \in Workers : v # w /\ harness.worker[v].cell > 0 => harness.worker[v].cell # harness.worker[w].cell
      BY <2>0 DEF Taken
    <2>4. harness.on = "matrix"
      BY <2>0 DEF MatrixTypes, MatrixShape
    <2> QED
      BY <2>1, <2>2, <2>3, <2>4 DEF MatrixIsWhole, HistoryIsWhole, CatalogIsWhole, Is, At, Cell
  <1>2. CASE SoundContext(harness)
    <2>0. LET ms == harness.messages IN
             /\ ms \in Seq(Message) /\ Len(ms) >= 2 /\ ms[1].role = "system" /\ ms[2].role = "user"
             /\ \A i \in 1..Len(ms) : ms[i].role = "tool" => AskedFor(ms, i)
             /\ harness.answered < harness.calls => Waits(ms, harness.calls)
      BY <1>2 DEF SoundContext
    <2>1. harness.on = "context" /\ DOMAIN harness.messages = 1..Len(harness.messages)
      BY <1>2, <2>0 DEF SoundContext
    <2> QED
      BY <2>0, <2>1 DEF MatrixIsWhole, HistoryIsWhole, CatalogIsWhole, Is, AskedFor, Waits
  <1>3. CASE WholeCatalog(harness)
    BY <1>3 DEF WholeCatalog, MatrixIsWhole, HistoryIsWhole, CatalogIsWhole, Is
  <1> QED
    BY <1>1, <1>2, <1>3 DEF HarnessInv
-----------------------------------------------------------------------------
(* The cells of a matrix                                                   *)

\* A loop around loops: where its rounds begin.
LEMMA RoundBegins ==
    ASSUME NEW x \in Int, NEW l \in Int, NEW y \in Int, NEW w \in Int
    PROVE  (x * l + y) * w = x * (l * w) + y * w
  <1>1. (x * l + y) * w = (x * l) * w + y * w
    OBVIOUS
  <1>2. (x * l) * w = x * (l * w)
    OBVIOUS
  <1> QED
    BY <1>1, <1>2

\* A cell of a matrix, and its place in the nested loops.
CellAt(s, k, m, l, r) ==
  [at |-> <<s, k, m, l, r>>, provider |-> EffectiveProvider(plan.models[m])]

OccurrenceOf(K, M, s, k, m, l, r) ==
  ((((s - 1) * K + k - 1) * M + m - 1) * LevelCount + l - 1) * RepetitionCount + r

CellsOf(N, K, M) ==
  {CellAt(x[1], x[2], x[3], x[4], x[5]) :
     x \in (1..N) \X (1..K) \X (1..M) \X (1..LevelCount) \X (1..RepetitionCount)}

RankOf(N, K, M) ==
  [c \in CellsOf(N, K, M) |-> OccurrenceOf(K, M, c.at[1], c.at[2], c.at[3], c.at[4], c.at[5])]

\* The rank of a cell is its occurrence.
LEMMA RankIs ==
    ASSUME NEW N \in Nat, NEW K \in Nat, NEW M \in Nat,
           NEW s \in 1..N, NEW k \in 1..K, NEW m \in 1..M, NEW l \in 1..LevelCount, NEW r \in 1..RepetitionCount
    PROVE  /\ CellAt(s, k, m, l, r) \in CellsOf(N, K, M)
           /\ RankOf(N, K, M)[CellAt(s, k, m, l, r)] = OccurrenceOf(K, M, s, k, m, l, r)
  <1> DEFINE x == <<s, k, m, l, r>>
  <1>1. x \in (1..N) \X (1..K) \X (1..M) \X (1..LevelCount) \X (1..RepetitionCount)
    OBVIOUS
  <1>2. x[1] = s /\ x[2] = k /\ x[3] = m /\ x[4] = l /\ x[5] = r
    OBVIOUS
  <1>3. CellAt(s, k, m, l, r) \in CellsOf(N, K, M)
    BY <1>1, <1>2 DEF CellsOf
  <1>4. CellAt(s, k, m, l, r).at = x
    BY DEF CellAt
  <1> HIDE DEF x
  <1>5. RankOf(N, K, M)[CellAt(s, k, m, l, r)] = OccurrenceOf(K, M, x[1], x[2], x[3], x[4], x[5])
    BY <1>3, <1>4 DEF RankOf
  <1> QED
    BY <1>2, <1>3, <1>5

\* The cells of a matrix are numbered in the order of its loops.
LEMMA MatrixIsNumbered ==
    ASSUME NEW N \in Nat \ {0}, NEW K \in Nat \ {0}, NEW M \in Nat \ {0},
           DOMAIN plan.scenarios = 1..N, DOMAIN plan.skills = 1..K, DOMAIN plan.models = 1..M
    PROVE  NumberedFrom(CellsOf(N, K, M), RankOf(N, K, M), 0, MatrixCells,
                        N * (K * (M * (LevelCount * RepetitionCount))))
  <1> DEFINE L == LevelCount
             R == RepetitionCount
             S == CellsOf(N, K, M)
             rank == RankOf(N, K, M)
             Row(s, k, m, l) == [r \in 1..R |-> CellAt(s, k, m, l, r)]
             Leveled(s, k, m) == FlattenSeq([l \in 1..L |-> Row(s, k, m, l)])
             Served(s, k) == FlattenSeq([m \in 1..M |-> Leveled(s, k, m)])
             Skilled(s) == FlattenSeq([k \in 1..K |-> Served(s, k)])
             whole == FlattenSeq([s \in 1..N |-> Skilled(s)])
  <1>0. MatrixCells = whole
    BY DEF MatrixCells, CellAt
  <1>1. L \in Nat \ {0} /\ R \in Nat \ {0}
    BY DEF LevelCount, RepetitionCount
  <1>2. \A s \in 1..N, k \in 1..K, m \in 1..M, l \in 1..L, r \in 1..R :
          /\ CellAt(s, k, m, l, r) \in S
          /\ rank[CellAt(s, k, m, l, r)] = ((((s - 1) * K + k - 1) * M + m - 1) * L + l - 1) * R + r
    BY RankIs DEF OccurrenceOf
  <1> HIDE DEF L, R, S, rank
  <1>3. ASSUME NEW s \in 1..N, NEW k \in 1..K, NEW m \in 1..M
        PROVE  NumberedFrom(S, rank, (((s - 1) * K + k - 1) * M + m - 1) * (L * R), Leveled(s, k, m), L * R)
    <2> DEFINE x == ((s - 1) * K + k - 1) * M + m - 1
               rows == [l \in 1..L |-> Row(s, k, m, l)]
    <2>1. x \in Int /\ \A l \in 1..L, r \in 1..R :
            CellAt(s, k, m, l, r) \in S /\ rank[CellAt(s, k, m, l, r)] = (x * L + l - 1) * R + r
      <3>1. x \in Int
        OBVIOUS
      <3> QED
        BY <1>2, <3>1
    <2> HIDE DEF x
    <2>2. ASSUME NEW l \in 1..L PROVE NumberedFrom(S, rank, x * (L * R) + (l - 1) * R, Row(s, k, m, l), R)
      <3>1. Row(s, k, m, l) \in [1..R -> S]
        BY <2>1
      <3>2. Row(s, k, m, l) \in Seq(S) /\ Len(Row(s, k, m, l)) = R
        BY <1>1, <3>1
      <3>3. (x * L + (l - 1)) * R = x * (L * R) + (l - 1) * R
        <4>1. x \in Int /\ L \in Int /\ R \in Int /\ l - 1 \in Int
          BY <1>1, <2>1
        <4> QED
          BY <4>1, RoundBegins
      <3>4. x * L + l - 1 = x * L + (l - 1)
        BY <1>1, <2>1
      <3>5. ASSUME NEW r \in 1..R PROVE rank[Row(s, k, m, l)[r]] = (x * (L * R) + (l - 1) * R) + r
        <4>1. Row(s, k, m, l)[r] = CellAt(s, k, m, l, r)
          OBVIOUS
        <4>2. rank[CellAt(s, k, m, l, r)] = (x * L + l - 1) * R + r
          BY <2>1
        <4> QED
          BY <3>3, <3>4, <4>1, <4>2
      <3> QED
        BY <3>2, <3>5 DEF NumberedFrom
    <2>3. rows \in Seq(Seq(S)) /\ Len(rows) = L
      <3>1. \A l \in 1..L : Row(s, k, m, l) \in Seq(S)
        BY <2>2 DEF NumberedFrom
      <3> HIDE DEF Row
      <3> QED
        BY <1>1, <3>1
    <2>4. \A l \in 1..L : NumberedFrom(S, rank, x * (L * R) + (l - 1) * R, rows[l], R)
      <3> HIDE DEF Row
      <3> QED
        BY <2>2
    <2>5. x * (L * R) \in Int
      BY <1>1, <2>1
    <2>6. NumberedFrom(S, rank, x * (L * R), FlattenSeq(rows), L * R)
      <3> HIDE DEF rows
      <3> QED
        BY <1>1, <2>3, <2>4, <2>5, LoopIsNumbered
    <2> QED
      BY <2>6 DEF x
  <1> HIDE DEF Leveled
  <1> DEFINE w == L * R
  <1>4. w \in Nat
    BY <1>1
  <1>5. ASSUME NEW s \in 1..N, NEW k \in 1..K, NEW m \in 1..M
        PROVE  NumberedFrom(S, rank, (((s - 1) * K + k - 1) * M + m - 1) * w, Leveled(s, k, m), w)
    BY <1>3
  <1> HIDE DEF w
  <1>6. ASSUME NEW s \in 1..N, NEW k \in 1..K
        PROVE  NumberedFrom(S, rank, ((s - 1) * K + k - 1) * (M * w), Served(s, k), M * w)
    <2> DEFINE x == (s - 1) * K + k - 1
               rows == [m \in 1..M |-> Leveled(s, k, m)]
    <2>1. x \in Int /\ \A m \in 1..M : NumberedFrom(S, rank, (x * M + m - 1) * w, Leveled(s, k, m), w)
      <3>1. \A m \in 1..M : NumberedFrom(S, rank, (x * M + m - 1) * w, Leveled(s, k, m), w)
        BY <1>5
      <3>2. x \in Int
        OBVIOUS
      <3> QED
        BY <3>1, <3>2
    <2> HIDE DEF x
    <2>2. ASSUME NEW m \in 1..M PROVE NumberedFrom(S, rank, x * (M * w) + (m - 1) * w, Leveled(s, k, m), w)
      <3>1. (x * M + (m - 1)) * w = x * (M * w) + (m - 1) * w
        <4>1. x \in Int /\ M \in Int /\ w \in Int /\ m - 1 \in Int
          BY <1>4, <2>1
        <4> QED
          BY <4>1, RoundBegins
      <3>2. x * M + m - 1 = x * M + (m - 1)
        BY <2>1
      <3>3. NumberedFrom(S, rank, (x * M + m - 1) * w, Leveled(s, k, m), w)
        BY <2>1
      <3> QED
        BY <3>1, <3>2, <3>3, Zenon
    <2>3. rows \in Seq(Seq(S)) /\ Len(rows) = M
      <3>1. \A m \in 1..M : Leveled(s, k, m) \in Seq(S)
        BY <2>2 DEF NumberedFrom
      <3>2. rows \in [1..M -> Seq(S)]
        BY <3>1
      <3> HIDE DEF rows
      <3> QED
        BY <3>2
    <2>4. \A m \in 1..M : NumberedFrom(S, rank, x * (M * w) + (m - 1) * w, rows[m], w)
      BY <2>2
    <2>5. x * (M * w) \in Int
      BY <1>4, <2>1
    <2>6. NumberedFrom(S, rank, x * (M * w), FlattenSeq(rows), M * w)
      <3> HIDE DEF rows
      <3> QED
        BY <1>4, <2>3, <2>4, <2>5, LoopIsNumbered
    <2> QED
      BY <2>6 DEF x
  <1> HIDE DEF Served
  <1> DEFINE v == M * w
  <1>7. v \in Nat
    BY <1>4
  <1>8. ASSUME NEW s \in 1..N, NEW k \in 1..K
        PROVE  NumberedFrom(S, rank, ((s - 1) * K + k - 1) * v, Served(s, k), v)
    BY <1>6
  <1> HIDE DEF v
  <1>9. ASSUME NEW s \in 1..N
        PROVE  NumberedFrom(S, rank, (s - 1) * (K * v), Skilled(s), K * v)
    <2> DEFINE x == s - 1
               rows == [k \in 1..K |-> Served(s, k)]
    <2>1. x \in Int /\ \A k \in 1..K : NumberedFrom(S, rank, (x * K + k - 1) * v, Served(s, k), v)
      <3>1. \A k \in 1..K : NumberedFrom(S, rank, (x * K + k - 1) * v, Served(s, k), v)
        BY <1>8
      <3> QED
        BY <3>1
    <2> HIDE DEF x
    <2>2. ASSUME NEW k \in 1..K PROVE NumberedFrom(S, rank, x * (K * v) + (k - 1) * v, Served(s, k), v)
      <3>1. (x * K + (k - 1)) * v = x * (K * v) + (k - 1) * v
        <4>1. x \in Int /\ K \in Int /\ v \in Int /\ k - 1 \in Int
          BY <1>7, <2>1
        <4> QED
          BY <4>1, RoundBegins
      <3>2. x * K + k - 1 = x * K + (k - 1)
        BY <2>1
      <3>3. NumberedFrom(S, rank, (x * K + k - 1) * v, Served(s, k), v)
        BY <2>1
      <3> QED
        BY <3>1, <3>2, <3>3, Zenon
    <2>3. rows \in Seq(Seq(S)) /\ Len(rows) = K
      <3>1. \A k \in 1..K : Served(s, k) \in Seq(S)
        BY <2>2 DEF NumberedFrom
      <3> QED
        BY <3>1
    <2>4. \A k \in 1..K : NumberedFrom(S, rank, x * (K * v) + (k - 1) * v, rows[k], v)
      BY <2>2
    <2>5. x * (K * v) \in Int
      BY <1>7, <2>1
    <2>6. NumberedFrom(S, rank, x * (K * v), FlattenSeq(rows), K * v)
      <3> HIDE DEF rows
      <3> QED
        BY <1>7, <2>3, <2>4, <2>5, LoopIsNumbered
    <2> QED
      BY <2>6 DEF x
  <1> HIDE DEF Skilled
  <1> DEFINE u == K * v
  <1>10. u \in Nat
    BY <1>7
  <1>11. \A s \in 1..N : NumberedFrom(S, rank, (s - 1) * u, Skilled(s), u)
    BY <1>9
  <1> HIDE DEF u
  <1>12. NumberedFrom(S, rank, 0, whole, N * u)
    <2> DEFINE rows == [s \in 1..N |-> Skilled(s)]
    <2>1. rows \in Seq(Seq(S)) /\ Len(rows) = N
      <3>1. \A s \in 1..N : Skilled(s) \in Seq(S)
        BY <1>11 DEF NumberedFrom
      <3> QED
        BY <3>1
    <2> DEFINE zero == 0
    <2>2. ASSUME NEW s \in 1..N PROVE NumberedFrom(S, rank, zero + (s - 1) * u, rows[s], u)
      <3>1. zero + (s - 1) * u = (s - 1) * u
        BY <1>10
      <3> QED
        BY <1>11, <3>1
    <2>3. zero \in Int
      OBVIOUS
    <2> HIDE DEF rows, zero
    <2>4. NumberedFrom(S, rank, zero, FlattenSeq(rows), N * u)
      BY <1>10, <2>1, <2>2, <2>3, LoopIsNumbered
    <2> QED
      BY <2>4 DEF rows, zero
  <1> QED
    BY <1>0, <1>12 DEF S, rank, u, v, w, L, R
\* What a matrix is asked to be.
MatrixTyped ==
  /\ plan.scenarios \in Seq(Scenarios \cup {Strange}) /\ plan.skills \in Seq(Skills \cup {Strange})
  /\ plan.models \in Seq([id : KnownModels \cup {Strange}, provider : Providers])

\* Nothing is refused: no selector is empty, unknown or twice there, and a model
\* has the provider that serves it.
LEMMA AdmittedIsKnown ==
    ASSUME MatrixTyped, Refusals = {}
    PROVE  /\ plan.scenarios # <<>> /\ Cardinality(ToSet(plan.scenarios)) = Len(plan.scenarios)
           /\ plan.skills # <<>> /\ Cardinality(ToSet(plan.skills)) = Len(plan.skills)
           /\ Strange \notin ToSet(plan.scenarios) \cup ToSet(plan.skills)
           /\ plan.models # <<>>
           /\ \A i \in DOMAIN plan.models :
                /\ EffectiveProvider(plan.models[i]) = ProviderOfModel[plan.models[i].id]
                /\ \A j \in 1..(i - 1) : plan.models[j].id # plan.models[i].id
  <1>1. \A i \in 1..6 : AdmissionCodes[i] = "ok"
    <2>1. DOMAIN AdmissionCodes = 1..6
      BY DEF AdmissionCodes
    <2> QED
      BY <2>1 DEF Refusals
  <1>2. /\ SelectorCode(plan.scenarios) = "ok" /\ SelectorCode(plan.skills) = "ok" /\ ModelsCode = "ok"
        /\ ToSet(plan.scenarios) \subseteq Scenarios /\ ToSet(plan.skills) \subseteq Skills
    <2>1. AdmissionCodes[2] = "ok" /\ AdmissionCodes[3] = "ok" /\ AdmissionCodes[4] = "ok"
          /\ AdmissionCodes[5] = "ok" /\ AdmissionCodes[6] = "ok"
      BY <1>1
    <2>2. /\ AdmissionCodes[2] = SelectorCode(plan.scenarios)
          /\ AdmissionCodes[3] = SelectorCode(plan.skills)
          /\ AdmissionCodes[4] = ModelsCode
          /\ AdmissionCodes[5] = IF ToSet(plan.scenarios) \subseteq Scenarios THEN "ok" ELSE "scenario_unresolved"
          /\ AdmissionCodes[6] = IF ToSet(plan.skills) \subseteq Skills THEN "ok" ELSE "skill_unresolved"
      BY DEF AdmissionCodes
    <2> QED
      BY <2>1, <2>2
  <1>3. ASSUME NEW s, SelectorCode(s) = "ok" PROVE s # <<>> /\ Cardinality(ToSet(s)) = Len(s)
    BY <1>3 DEF SelectorCode, HasDuplicates
  <1> DEFINE wrong == {i \in DOMAIN plan.models : ModelCode(i) # "ok"}
  <1>4. plan.models # <<>>
    BY <1>2 DEF ModelsCode
  <1>5. wrong = {}
    <2>1. SUFFICES ASSUME wrong # {} PROVE FALSE
      OBVIOUS
    <2>2. wrong \subseteq Nat
      BY DEF MatrixTyped
    <2>3. PICK x \in wrong : \A y \in wrong : x <= y
      BY <2>1, <2>2, LeastOf
    <2>4. Min(wrong) \in wrong
      BY <2>3 DEF Min
    <2>5. ModelCode(Min(wrong)) # "ok"
      BY <2>4
    <2> QED
      BY <1>2, <1>4, <2>1, <2>5 DEF ModelsCode
  <1>6. ASSUME NEW i \in DOMAIN plan.models
        PROVE  /\ EffectiveProvider(plan.models[i]) = ProviderOfModel[plan.models[i].id]
               /\ \A j \in 1..(i - 1) : plan.models[j].id # plan.models[i].id
    <2>1. ModelCode(i) = "ok"
      BY <1>5
    <2> QED
      BY <2>1 DEF ModelCode, EffectiveProvider
  <1> QED
    BY <1>2, <1>3, <1>4, <1>6, StrangeAssumption

\* As many models as names of models.
LEMMA IdsAreCounted ==
    ASSUME NEW models, NEW n \in Nat, DOMAIN models = 1..n,
           \A i \in 1..n : \A j \in 1..(i - 1) : models[j].id # models[i].id
    PROVE  Cardinality({m.id : m \in ToSet(models)}) = n
  <1> DEFINE ids == {m.id : m \in ToSet(models)}
             f == [i \in 1..n |-> models[i].id]
  <1>1. \A i \in 1..n : f[i] \in ids
    BY DEF ToSet
  <1>2. \A x \in ids : \E i \in 1..n : f[i] = x
    BY DEF ToSet
  <1>3. ASSUME NEW i \in 1..n, NEW j \in 1..n, f[i] = f[j] PROVE i = j
    <2>1. i \in Int /\ j \in Int /\ (i < j \/ j < i \/ i = j)
      OBVIOUS
    <2>2. i < j => i \in 1..(j - 1)
      OBVIOUS
    <2>3. j < i => j \in 1..(i - 1)
      OBVIOUS
    <2>4. f[i] = models[i].id /\ f[j] = models[j].id
      OBVIOUS
    <2> QED
      BY <1>3, <2>1, <2>2, <2>3, <2>4
  <1> HIDE DEF ids
  <1>4. f \in [1..n -> ids]
    BY <1>1
  <1> HIDE DEF f
  <1>5. f \in Bijection(1..n, ids)
    BY <1>2, <1>3, <1>4 DEF Bijection, Injection, Surjection, IsInjective
  <1>6. ExistsBijection(1..n, ids)
    BY <1>5 DEF ExistsBijection
  <1> QED
    BY <1>6, FS_CountingElements DEF ids

\* Of a matrix that is not refused, the cells are its product in order.
LEMMA AdmittedHasCells ==
    ASSUME MatrixTyped, Refusals = {}
    PROVE  LET K == Len(plan.skills)
               M == Len(plan.models)
               Occurrence(at) ==
                 ((((at[1] - 1) * K + at[2] - 1) * M + at[3] - 1) * LevelCount + at[4] - 1) * RepetitionCount + at[5]
           IN /\ MatrixCells # <<>>
              /\ Len(MatrixCells) = Cardinality(ToSet(plan.scenarios)) * Cardinality(ToSet(plan.skills))
                                     * Cardinality({m.id : m \in ToSet(plan.models)}) * LevelCount * RepetitionCount
              /\ \A n \in DOMAIN MatrixCells :
                   /\ Occurrence(MatrixCells[n].at) = n
                   /\ MatrixCells[n].provider = ProviderOfModel[plan.models[MatrixCells[n].at[3]].id]
              /\ Strange \notin ToSet(plan.scenarios) \cup ToSet(plan.skills)
  <1> DEFINE N == Len(plan.scenarios)
             K == Len(plan.skills)
             M == Len(plan.models)
             total == N * (K * (M * (LevelCount * RepetitionCount)))
  <1>1. /\ N \in Nat \ {0} /\ DOMAIN plan.scenarios = 1..N
        /\ K \in Nat \ {0} /\ DOMAIN plan.skills = 1..K
        /\ M \in Nat \ {0} /\ DOMAIN plan.models = 1..M
    <2>1. plan.scenarios # <<>> /\ plan.skills # <<>> /\ plan.models # <<>>
      BY AdmittedIsKnown
    <2>2. \A S : \A s \in Seq(S) : s # <<>> => Len(s) \in Nat \ {0} /\ DOMAIN s = 1..Len(s)
      OBVIOUS
    <2> QED
      BY <2>1, <2>2 DEF MatrixTyped
  <1>2. Cardinality({m.id : m \in ToSet(plan.models)}) = M
    <2>1. \A i \in 1..M : \A j \in 1..(i - 1) : plan.models[j].id # plan.models[i].id
      BY <1>1, AdmittedIsKnown
    <2> HIDE DEF M
    <2> QED
      BY <1>1, <2>1, IdsAreCounted
  <1>3. Cardinality(ToSet(plan.scenarios)) = N /\ Cardinality(ToSet(plan.skills)) = K
    BY AdmittedIsKnown
  <1> HIDE DEF N, K, M
  <1>4. NumberedFrom(CellsOf(N, K, M), RankOf(N, K, M), 0, MatrixCells, total)
    BY <1>1, MatrixIsNumbered
  <1>5. LevelCount \in Nat \ {0} /\ RepetitionCount \in Nat \ {0}
    BY DEF LevelCount, RepetitionCount
  <1>6. total = N * K * M * LevelCount * RepetitionCount /\ total \in Nat \ {0}
    <2> DEFINE a == M * (LevelCount * RepetitionCount)
    <2>1. a = M * LevelCount * RepetitionCount /\ a \in Nat \ {0}
      BY <1>1 DEF LevelCount, RepetitionCount
    <2>2. total = N * (K * a) /\ N * (K * a) = N * K * a
      <3> HIDE DEF a
      <3>1. N * (K * a) = N * K * a
        BY <1>1, <2>1
      <3> QED
        BY <3>1 DEF a
    <2>3. N * K * a = N * K * M * LevelCount * RepetitionCount
      BY <1>1 DEF LevelCount, RepetitionCount
    <2>4. K * a \in Nat \ {0} /\ N * (K * a) \in Nat \ {0}
      <3> HIDE DEF a
      <3>1. K * a \in Nat \ {0}
        BY <1>1, <2>1
      <3> QED
        BY <1>1, <3>1
    <2> QED
      BY <2>2, <2>3, <2>4
  <1> HIDE DEF total
  <1>7. /\ MatrixCells \in Seq(CellsOf(N, K, M)) /\ Len(MatrixCells) = total
        /\ \A n \in 1..total : RankOf(N, K, M)[MatrixCells[n]] = 0 + n
    BY <1>4 DEF NumberedFrom
  <1>8. ASSUME NEW n \in DOMAIN MatrixCells
        PROVE  LET c == MatrixCells[n]
               IN /\ ((((c.at[1] - 1) * K + c.at[2] - 1) * M + c.at[3] - 1) * LevelCount + c.at[4] - 1) * RepetitionCount
                        + c.at[5] = n
                  /\ c.provider = ProviderOfModel[plan.models[c.at[3]].id]
    <2> DEFINE c == MatrixCells[n]
    <2>1. n \in 1..total /\ c \in CellsOf(N, K, M)
      BY <1>6, <1>7
    <2>2. RankOf(N, K, M)[c] = n
      BY <1>7, <2>1
    <2> HIDE DEF c
    <2>3. RankOf(N, K, M)[c] = OccurrenceOf(K, M, c.at[1], c.at[2], c.at[3], c.at[4], c.at[5])
      BY <2>1 DEF RankOf
    <2>4. PICK x \in (1..N) \X (1..K) \X (1..M) \X (1..LevelCount) \X (1..RepetitionCount) :
            c = CellAt(x[1], x[2], x[3], x[4], x[5])
      BY <2>1 DEF CellsOf
    <2>5. x[3] \in 1..M
      OBVIOUS
    <2>6. c.at[3] = x[3] /\ c.provider = EffectiveProvider(plan.models[x[3]])
      BY <2>4 DEF CellAt
    <2>7. EffectiveProvider(plan.models[x[3]]) = ProviderOfModel[plan.models[x[3]].id]
      BY <1>1, <2>5, AdmittedIsKnown
    <2> QED
      BY <2>2, <2>3, <2>6, <2>7 DEF c, OccurrenceOf
  <1>9. MatrixCells # <<>>
    BY <1>6, <1>7
  <1>10. Strange \notin ToSet(plan.scenarios) \cup ToSet(plan.skills)
    BY AdmittedIsKnown
  <1> QED
    BY <1>2, <1>3, <1>6, <1>7, <1>8, <1>9, <1>10 DEF K, M

AdmissionFields == {"on", "scenarios", "skills", "models", "requested", "wellFormed", "code", "cells"}

\* A matrix before and after its admission.
AdmissionInv ==
  /\ DOMAIN plan = AdmissionFields /\ plan = [x \in AdmissionFields |-> plan[x]] /\ plan.on = "matrix"
  /\ MatrixTyped /\ AdmittedIsRunnable

\* An admission keeps what it asks for and makes its cells
\* (validateMatrixSweepConfig, generateMatrixCells).
LEMMA AdmissionKeeps == AdmissionInv /\ AdmitSweep => AdmissionInv'
  <1> SUFFICES ASSUME AdmissionInv, AdmitSweep PROVE AdmissionInv'
    OBVIOUS
  <1>1. /\ DOMAIN plan = AdmissionFields /\ plan = [x \in AdmissionFields |-> plan[x]] /\ plan.on = "matrix"
        /\ MatrixTyped
    BY DEF AdmissionInv
  <1> DEFINE code == AdmissionCodes[Min(Refusals)]
             cells == MatrixCells
  <1>2. CASE Refusals # {}
    <2>1. code # "ok"
      <3>1. Refusals \subseteq Nat
        BY DEF Refusals, AdmissionCodes
      <3>2. PICK x \in Refusals : \A y \in Refusals : x <= y
        BY <1>2, <3>1, LeastOf
      <3>3. Min(Refusals) \in Refusals
        BY <3>2 DEF Min
      <3> QED
        BY <3>3 DEF Refusals
    <2>2. plan' = [plan EXCEPT !.code = code]
      BY <1>2 DEF AdmitSweep
    <2> HIDE DEF code
    <2>3. /\ DOMAIN plan' = AdmissionFields /\ plan' = [x \in AdmissionFields |-> plan'[x]]
          /\ plan'.on = "matrix" /\ plan'.code = code
          /\ plan'.scenarios = plan.scenarios /\ plan'.skills = plan.skills /\ plan'.models = plan.models
      BY <1>1, <2>2 DEF AdmissionFields
    <2>4. MatrixTyped'
      BY <1>1, <2>3 DEF MatrixTyped
    <2>5. AdmittedIsRunnable'
      BY <2>1, <2>3 DEF AdmittedIsRunnable
    <2> QED
      BY <2>3, <2>4, <2>5 DEF AdmissionInv
  <1>3. CASE Refusals = {}
    <2>1. plan' = [plan EXCEPT !.code = "ok", !.cells = cells]
      BY <1>3 DEF AdmitSweep
    <2>2. LET K == Len(plan.skills)
              M == Len(plan.models)
              Occurrence(at) ==
                ((((at[1] - 1) * K + at[2] - 1) * M + at[3] - 1) * LevelCount + at[4] - 1) * RepetitionCount + at[5]
          IN /\ cells # <<>>
             /\ Len(cells) = Cardinality(ToSet(plan.scenarios)) * Cardinality(ToSet(plan.skills))
                               * Cardinality({m.id : m \in ToSet(plan.models)}) * LevelCount * RepetitionCount
             /\ \A n \in DOMAIN cells :
                  /\ Occurrence(cells[n].at) = n
                  /\ cells[n].provider = ProviderOfModel[plan.models[cells[n].at[3]].id]
             /\ Strange \notin ToSet(plan.scenarios) \cup ToSet(plan.skills)
      BY <1>1, <1>3, AdmittedHasCells
    <2> HIDE DEF cells
    <2>3. /\ DOMAIN plan' = AdmissionFields /\ plan' = [x \in AdmissionFields |-> plan'[x]]
          /\ plan'.on = "matrix" /\ plan'.cells = cells
          /\ plan'.scenarios = plan.scenarios /\ plan'.skills = plan.skills /\ plan'.models = plan.models
      BY <1>1, <2>1 DEF AdmissionFields
    <2>4. MatrixTyped'
      BY <1>1, <2>3 DEF MatrixTyped
    <2>5. AdmittedIsRunnable'
      BY <2>2, <2>3 DEF AdmittedIsRunnable
    <2> QED
      BY <2>3, <2>4, <2>5 DEF AdmissionInv
  <1> QED
    BY <1>2, <1>3
-----------------------------------------------------------------------------
(* The binding and the ledger of a sweep                                   *)

BinderStates == {"idle", "read", "refused", "list", "create", "link", "unlink", "bound"}

Bindings ==
  [on : {"bind"}, file : Fingerprints \cup {None}, links : Nat, stages : SUBSET PlanProcs,
   at : [PlanProcs -> BinderStates], wants : [PlanProcs -> Fingerprints \cup {None}],
   resumes : [PlanProcs -> BOOLEAN], ran : SUBSET Fingerprints, deaths : Nat]

\* OnePlan, and what it rests on: a process under way has a fingerprint, and
\* nothing ran before there was a file.
BindingInv ==
  /\ plan \in Bindings
  /\ \A p \in PlanProcs : plan.at[p] # "idle" => plan.wants[p] \in Fingerprints
  /\ \A p \in PlanProcs : plan.at[p] \in {"unlink", "bound"} => plan.file = plan.wants[p]
  /\ plan.ran \subseteq {plan.file}


\* Every step of a process that binds the identity keeps the invariant
\* (bindSweepPlan, publishBinding, readBinding).
LEMMA BindingStays == BindingInv /\ PlanNext => BindingInv'
  <1> SUFFICES ASSUME BindingInv, PlanNext PROVE BindingInv'
    OBVIOUS
  <1> USE FingerprintsAssumption DEF BindingInv, Bindings, BinderStates
  <1>1. ASSUME NEW p \in PlanProcs, ReadBinding(p) PROVE BindingInv'
    BY <1>1 DEF ReadBinding, Steps
  <1>2. ASSUME NEW p \in PlanProcs, ListNamespace(p) PROVE BindingInv'
    BY <1>2 DEF ListNamespace, Steps
  <1>3. ASSUME NEW p \in PlanProcs, CreateCandidate(p) PROVE BindingInv'
    BY <1>3 DEF CreateCandidate
  <1>4. ASSUME NEW p \in PlanProcs, CandidateFails(p) PROVE BindingInv'
    <2> DEFINE at == [plan.at EXCEPT ![p] = "refused"]
    <2>1. PICK stages \in SUBSET PlanProcs : plan' = [plan EXCEPT !.at = at, !.stages = stages]
      BY <1>4 DEF CandidateFails
    <2>2. at \in [PlanProcs -> BinderStates] /\ \A q \in PlanProcs : at[q] = plan.at[q] \/ (q = p /\ at[q] = "refused")
      OBVIOUS
    <2>3. plan.wants[p] \in Fingerprints
      BY <1>4 DEF CandidateFails
    <2> HIDE DEF at
    <2>4. plan' \in Bindings
      BY <2>1, <2>2
    <2>5. plan'.at = at /\ plan'.wants = plan.wants /\ plan'.file = plan.file /\ plan'.ran = plan.ran
      BY <2>1
    <2> QED
      BY <2>2, <2>3, <2>4, <2>5
  <1>5. ASSUME NEW p \in PlanProcs, LinkPlan(p) PROVE BindingInv'
    <2>1. CASE plan.file = None
      <3>1. plan' = [plan EXCEPT !.file = plan.wants[p], !.links = 2,
                                 !.at = [plan.at EXCEPT ![p] = "unlink"]]
        BY <1>5, <2>1 DEF LinkPlan, LinksPlan
      <3>2. plan.at[p] = "link" /\ plan.wants[p] \in Fingerprints
        BY <1>5 DEF LinkPlan
      <3>3. /\ plan.ran = {}
            /\ \A q \in PlanProcs : plan.at[q] \notin {"unlink", "bound"}
        BY <2>1
      <3>4. [plan.at EXCEPT ![p] = "unlink"] \in [PlanProcs -> BinderStates]
        OBVIOUS
      <3> QED
        BY <3>1, <3>2, <3>3, <3>4
    <2>2. CASE plan.file # None
      BY <1>5, <2>2 DEF LinkPlan, LinksPlan
    <2> QED
      BY <2>1, <2>2
  <1>6. ASSUME NEW p \in PlanProcs, RemoveOwnedCandidate(p) PROVE BindingInv'
    <2>1. plan.at[p] = "unlink"
      BY <1>6 DEF RemoveOwnedCandidate
    <2>2. ASSUME NEW end \in {"bound", "refused"},
                 plan' = [plan EXCEPT !.at[p] = end, !.links = 1, !.stages = @ \ {p}]
          PROVE  BindingInv'
      BY <2>1, <2>2
    <2>3. CASE plan' = [plan EXCEPT !.at[p] = "refused"]
      BY <2>1, <2>3
    <2> QED
      BY <1>6, <2>2, <2>3 DEF RemoveOwnedCandidate
  <1>7. ASSUME NEW p \in PlanProcs, RunsBound(p) PROVE BindingInv'
    BY <1>7 DEF RunsBound
  <1>8. ASSUME NEW p \in PlanProcs, GivesUpBinding(p) PROVE BindingInv'
    BY <1>8 DEF GivesUpBinding, Steps
  <1>9. ASSUME NEW p \in PlanProcs, BinderDies(p) PROVE BindingInv'
    <2>1. plan' = [plan EXCEPT !.at = [plan.at EXCEPT ![p] = "idle"],
                               !.deaths = plan.deaths + 1]
      BY <1>9 DEF BinderDies
    <2>2. plan.deaths + 1 \in Nat /\ [plan.at EXCEPT ![p] = "idle"] \in [PlanProcs -> BinderStates]
      OBVIOUS
    <2> QED
      BY <2>1, <2>2
  <1>10. ASSUME NEW p \in PlanProcs, NEW f \in Fingerprints, NEW resume \in BOOLEAN,
                BindSweepPlan(p, f, resume)
         PROVE  BindingInv'
    BY <1>10 DEF BindSweepPlan
  <1>11. plan.on = "bind"
    OBVIOUS
  <1> QED
    BY <1>1, <1>2, <1>3, <1>4, <1>5, <1>6, <1>7, <1>8, <1>9, <1>10, <1>11
       DEF PlanNext, AdmitSweep, LoadLedger, PreserveBackup, WriteTemporary, RenameCheckpoint,
           RenameIsNotSynced, LedgerDies, CheckpointBreaks, PersistState, Ledgering

-----------------------------------------------------------------------------
(* The checkpoint ledger *)

LedgerFields ==
  {"on", "described", "mem", "disk", "backup", "temporary", "at", "next", "told", "deaths", "broken",
   "spoiled"}

LedgerShape(l) == DOMAIN l = LedgerFields /\ l = [x \in LedgerFields |-> l[x]] /\ l.on = "ledger"

\* A state whose accounts are right.
SoundState(s) == s \in LedgerState /\ Accounts(s)

\* What is in memory describes its cells as planned.
InMemory(s) == SoundState(s) /\ DescribedAsPlanned(s)

\* What is in a file does, unless it was sanitized.
InFile(s) ==
  /\ SoundState(s) /\ Tracked(s) # {}
  /\ DescribedAsPlanned(s) \/ \E c \in Tracked(s) : plan.described[c] = "sensitive"

\* The cells that a file which can be read tells of.
Kept == IF plan.disk # None /\ ~plan.broken THEN Tracked(plan.disk) ELSE {}

LedgerInv ==
  /\ LedgerShape(plan) /\ plan.at \in {"off", "idle", "backup", "temporary", "rename"}
  /\ plan.described \in [PlannedCells -> {"plain", "sensitive"}]
  /\ plan.mem # None \/ plan.at # "off" => InMemory(plan.mem)
  /\ plan.at \notin {"off", "idle"} =>
       InMemory(plan.next) /\ Tracked(plan.next) # {} /\ Tracked(plan.mem) \subseteq Tracked(plan.next)
  /\ plan.disk # None => InFile(plan.disk)
  /\ plan.backup # None => InFile(plan.backup)
  /\ plan.told \subseteq Kept
  /\ plan.at # "off" => plan.told \subseteq Tracked(plan.mem)

\* The contract's sum is that of what the cells took.
LEMMA DurationIs ==
    ASSUME NEW s, SoundState(s)
    PROVE  s.whole => s.duration = Total(s.took, PlannedCells)
  BY DEF SoundState, Accounts, Total, MapThenSumSet, MapThenFoldSet

\* A new ledger satisfies the contract.
LEMMA EmptyIsSound == InMemory(EmptyLedger)
  <1> DEFINE of == [c \in PlannedCells |-> None]
             took == [c \in PlannedCells |-> 0]
  <1>1. EmptyLedger = [status |-> "pending", of |-> of, took |-> took, cell |-> of, duration |-> 0,
                       whole |-> TRUE]
    BY DEF EmptyLedger
  <1>2. /\ of \in [PlannedCells -> Outcomes \cup {None}] /\ took \in [PlannedCells -> Int]
        /\ of \in [PlannedCells -> {None, "plain", "sensitive", "redacted"}]
        /\ \A c \in PlannedCells : of[c] = None /\ took[c] = 0
    OBVIOUS
  <1>3. Total(took, PlannedCells) = 0
    <2>1. /\ Total(took, {}) = 0
          /\ \A s \in SUBSET PlannedCells : \A x \in s : Total(took, s) = took[x] + Total(took, s \ {x})
      BY <1>2, LedgerAssumption, TotalStep
    <2> DEFINE P == {s \in SUBSET PlannedCells : Total(took, s) = 0}
    <2>2. ASSUME NEW s \in SUBSET PlannedCells, \A u \in SUBSET s : u # s => u \in P PROVE s \in P
      <3>1. CASE s = {}
        BY <2>1, <3>1
      <3>2. CASE s # {}
        <4>1. PICK x \in s : TRUE
          BY <3>2
        <4>2. s \ {x} \in P
          BY <2>2
        <4>3. Total(took, s) = took[x] + Total(took, s \ {x}) /\ took[x] = 0
          BY <1>2, <2>1
        <4> QED
          BY <4>2, <4>3
      <3> QED
        BY <3>1, <3>2
    <2> HIDE DEF P
    <2>3. \A s \in SUBSET PlannedCells : s \in P
      BY <2>2, LedgerAssumption, EverySubset
    <2> QED
      BY <2>3 DEF P
  <1> HIDE DEF of, took
  <1>4. /\ EmptyLedger.of = of /\ EmptyLedger.took = took /\ EmptyLedger.duration = 0
        /\ EmptyLedger.status = "pending" /\ EmptyLedger.cell = of
        /\ EmptyLedger \in LedgerState
    BY <1>1, <1>2 DEF LedgerState
  <1>5. Tracked(EmptyLedger) = {}
    BY <1>2, <1>4 DEF Tracked
  <1>6. EmptyLedger.duration = MapThenSumSet(LAMBDA c : EmptyLedger.took[c], PlannedCells)
    BY <1>3, <1>4 DEF Total, MapThenSumSet, MapThenFoldSet
  <1> QED
    BY <1>2, <1>4, <1>5, <1>6 DEF InMemory, SoundState, Accounts, DescribedAsPlanned

\* What is recorded of a cell that was not tracked keeps the contract
\* (recordCellSuccess and the others).
LEMMA RecordedIsSound ==
    ASSUME NEW s, InMemory(s), NEW c \in PlannedCells, s.of[c] = None, NEW outcome \in Outcomes,
           NEW took \in Durations, NEW whole \in BOOLEAN, outcome = "skipped" => took = 0,
           plan.described \in [PlannedCells -> {"plain", "sensitive"}]
    PROVE  LET r == Recorded(s, c, outcome, took, whole)
           IN InMemory(r) /\ Tracked(r) # {} /\ Tracked(s) \subseteq Tracked(r)
  <1> DEFINE r == Recorded(s, c, outcome, took, whole)
             of == [s.of EXCEPT ![c] = outcome]
             each == [s.took EXCEPT ![c] = took]
             kept == [s.cell EXCEPT ![c] = plan.described[c]]
             status == ResolveCheckpointStatus(of)
  <1>0. /\ s.of \in [PlannedCells -> Outcomes \cup {None}] /\ s.took \in [PlannedCells -> Int]
        /\ s.cell \in [PlannedCells -> {None, "plain", "sensitive", "redacted"}]
        /\ s.duration \in Int /\ took \in Int /\ None \notin Outcomes /\ s.whole \in BOOLEAN
        /\ \A d \in PlannedCells : s.of[d] \in {None, "skipped"} => s.took[d] = 0
        /\ \A d \in PlannedCells : s.of[d] # None => s.cell[d] = plan.described[d]
    BY LedgerAssumption
       DEF InMemory, SoundState, LedgerState, Accounts, DescribedAsPlanned, Tracked, Outcomes
  <1>1. /\ of \in [PlannedCells -> Outcomes \cup {None}] /\ each \in [PlannedCells -> Int]
        /\ of[c] = outcome /\ each[c] = took
        /\ \A d \in PlannedCells \ {c} : of[d] = s.of[d] /\ each[d] = s.took[d]
    BY <1>0
  <1>K. /\ kept \in [PlannedCells -> {None, "plain", "sensitive", "redacted"}]
        /\ kept[c] = plan.described[c] /\ \A d \in PlannedCells \ {c} : kept[d] = s.cell[d]
    BY <1>0
  <1>2. r = [status |-> status, of |-> of, took |-> each, cell |-> kept, duration |-> s.duration + took,
             whole |-> s.whole /\ whole]
    BY DEF Recorded
  <1> HIDE DEF of, each, kept, status
  <1>3. /\ r.of = of /\ r.took = each /\ r.status = status /\ r.duration = s.duration + took
        /\ r.whole = (s.whole /\ whole) /\ r.cell = kept
        /\ r \in LedgerState
    <2>1. status \in {"pending", "running", "aborted", "failed", "completed"}
      BY Zenon DEF status, ResolveCheckpointStatus
    <2>3. s.duration + took \in Int
      BY <1>0
    <2>2. (s.whole /\ whole) \in BOOLEAN
      BY <1>0, Zenon
    <2> HIDE DEF r
    <2> QED
      BY <1>1, <1>K, <1>2, <2>1, <2>2, <2>3 DEF LedgerState
  <1> HIDE DEF r
  <1>4. c \in Tracked(r) /\ Tracked(s) \subseteq Tracked(r)
    BY <1>0, <1>1, <1>3 DEF Tracked
  <1>5. \A d \in PlannedCells : r.of[d] \in {None, "skipped"} => r.took[d] = 0
    BY <1>0, <1>1, <1>3
  <1>6. r.whole => r.duration = Total(each, PlannedCells)
    <2> SUFFICES ASSUME s.whole PROVE s.duration + took = Total(each, PlannedCells)
      BY <1>3
    <2> DEFINE others == PlannedCells \ {c}
    <2>1. s.duration = Total(s.took, PlannedCells)
      BY DurationIs DEF InMemory
    <2>2. Total(s.took, PlannedCells) = s.took[c] + Total(s.took, others) /\ Total(s.took, others) \in Int
      <3> DEFINE old == s.took
      <3>1. \A d \in PlannedCells : old[d] \in Int
        BY <1>0
      <3> HIDE DEF old
      <3>2. /\ \A S \in SUBSET PlannedCells : Total(old, S) \in Int
            /\ \A S \in SUBSET PlannedCells : \A x \in S : Total(old, S) = old[x] + Total(old, S \ {x})
        BY <3>1, LedgerAssumption, TotalStep
      <3> QED
        BY <3>2 DEF old
    <2>3. Total(each, PlannedCells) = each[c] + Total(each, others)
      <3>1. \A d \in PlannedCells : each[d] \in Int
        BY <1>1
      <3> QED
        BY <3>1, LedgerAssumption, TotalStep
    <2>4. Total(s.took, others) = Total(each, others)
      <3>1. IsFiniteSet(others) /\ \A d \in others : s.took[d] \in Int /\ s.took[d] = each[d]
        BY <1>0, <1>1, LedgerAssumption, FS_Subset
      <3> HIDE DEF others
      <3> QED
        BY <3>1, TotalCongruent
    <2>5. s.took[c] = 0
      BY <1>0
    <2> HIDE DEF others
    <2> QED
      BY <1>0, <1>1, <2>1, <2>2, <2>3, <2>4, <2>5
  <1>7. r.whole => r.duration = MapThenSumSet(LAMBDA d : r.took[d], PlannedCells)
    BY <1>3, <1>6 DEF Total, MapThenSumSet, MapThenFoldSet
  <1>8. r.status =
          IF Tracked(r) = {} THEN "pending"
          ELSE IF Tracked(r) # PlannedCells THEN "running"
          ELSE IF \E d \in PlannedCells : r.of[d] = "aborted" THEN "aborted"
          ELSE IF \E d \in PlannedCells : r.of[d] = "failed" THEN "failed" ELSE "completed"
    <2>1. Tracked(r) # PlannedCells <=> None \in {of[d] : d \in PlannedCells}
      BY <1>3 DEF Tracked
    <2> QED
      BY <1>3, <1>4, <2>1 DEF status, ResolveCheckpointStatus
  <1>9. InMemory(r)
    <2>2. DescribedAsPlanned(r)
      BY <1>0, <1>1, <1>3, <1>K DEF DescribedAsPlanned, Tracked
    <2> QED
      BY <1>3, <2>2, <1>5, <1>7, <1>8 DEF InMemory, SoundState, Accounts
  <1> QED
    BY <1>4, <1>9 DEF r

\* A sanitized state has the accounts of the state, and its descriptors unless
\* one of them is sensitive.
LEMMA SanitizedIsSound ==
    ASSUME NEW s, InMemory(s), Tracked(s) # {}, plan.described \in [PlannedCells -> {"plain", "sensitive"}]
    PROVE  InFile(Sanitized(s)) /\ Tracked(Sanitized(s)) = Tracked(s)
  <1> DEFINE r == Sanitized(s)
             kept == [c \in PlannedCells |-> Redacted(s.cell[c])]
  <1>1. /\ s \in LedgerState /\ Accounts(s)
        /\ \A c \in PlannedCells : s.of[c] # None => s.cell[c] = plan.described[c]
    BY DEF InMemory, SoundState, DescribedAsPlanned, Tracked
  <1>2. /\ kept \in [PlannedCells -> {None, "plain", "sensitive", "redacted"}]
        /\ \A c \in PlannedCells : s.cell[c] = "plain" => kept[c] = "plain"
    BY <1>1 DEF LedgerState, Redacted
  <1>3. r = [s EXCEPT !.cell = kept]
    BY DEF Sanitized
  <1> HIDE DEF r, kept
  <1>4. /\ r \in LedgerState /\ r.status = s.status
        /\ r.of = s.of /\ r.took = s.took /\ r.duration = s.duration /\ r.whole = s.whole /\ r.cell = kept
    BY <1>1, <1>2, <1>3 DEF LedgerState
  <1>5. Tracked(r) = Tracked(s)
    BY <1>4 DEF Tracked
  <1>6. Accounts(r)
    <2>1. s.whole => s.duration = Total(s.took, PlannedCells)
      BY DurationIs DEF InMemory
    <2>2. r.whole => r.duration = Total(r.took, PlannedCells)
      BY <1>4, <2>1
    <2>3. r.whole => r.duration = MapThenSumSet(LAMBDA d : r.took[d], PlannedCells)
      BY <2>2 DEF Total, MapThenSumSet, MapThenFoldSet
    <2> QED
      BY <1>1, <1>4, <1>5, <2>3 DEF Accounts
  <1>8. DescribedAsPlanned(r) \/ \E c \in Tracked(r) : plan.described[c] = "sensitive"
    BY <1>1, <1>2, <1>4 DEF DescribedAsPlanned, Tracked
  <1> QED
    BY <1>4, <1>5, <1>6, <1>8 DEF InFile, SoundState, r

\* Every step of the ledger keeps its states within the contract, and what was
\* told in the file (persistState, writeCheckpointSnapshot).
LEMMA LedgerStays == LedgerInv /\ PlanNext => LedgerInv'
  <1> SUFFICES ASSUME LedgerInv, PlanNext PROVE LedgerInv'
    OBVIOUS
  <1>0. /\ LedgerShape(plan) /\ plan.at \in {"off", "idle", "backup", "temporary", "rename"}
        /\ plan.described \in [PlannedCells -> {"plain", "sensitive"}]
        /\ plan.mem # None \/ plan.at # "off" => InMemory(plan.mem)
        /\ plan.at \notin {"off", "idle"} =>
             InMemory(plan.next) /\ Tracked(plan.next) # {} /\ Tracked(plan.mem) \subseteq Tracked(plan.next)
        /\ plan.disk # None => InFile(plan.disk)
        /\ plan.backup # None => InFile(plan.backup)
        /\ plan.told \subseteq Kept
        /\ plan.at # "off" => plan.told \subseteq Tracked(plan.mem)
    BY DEF LedgerInv
  <1>1. CASE LoadLedger
    <2> DEFINE mem == LoadedState
    <2>1. plan' = [plan EXCEPT !.at = "idle", !.next = None, !.mem = mem] /\ DescribedAsPlanned(mem)
      BY <1>1 DEF LoadLedger, Contract
    <2>2. InMemory(mem) /\ plan.told \subseteq Tracked(mem)
      BY <1>0, <2>1, EmptyIsSound DEF LoadedState, InFile, InMemory, Kept
    <2> HIDE DEF mem
    <2>3. /\ LedgerShape(plan') /\ plan'.described = plan.described /\ plan'.at = "idle" /\ plan'.mem = mem
          /\ plan'.disk = plan.disk /\ plan'.backup = plan.backup /\ plan'.told = plan.told
          /\ plan'.broken = plan.broken
      BY <1>0, <2>1 DEF LedgerShape, LedgerFields
    <2> QED
      BY <1>0, <2>2, <2>3 DEF LedgerInv, InMemory, InFile, DescribedAsPlanned, Kept
  <1>2. ASSUME NEW c \in PlannedCells, PersistState(c) PROVE LedgerInv'
    <2>1. PICK outcome \in Outcomes, took \in Durations, whole \in BOOLEAN :
            /\ plan.at = "idle" /\ plan.mem.of[c] = None
            /\ outcome = "skipped" => took = 0
            /\ plan' = [plan EXCEPT !.at = "backup", !.temporary = FALSE,
                                    !.next = Recorded(plan.mem, c, outcome, took, whole)]
      BY <1>2 DEF PersistState
    <2> DEFINE next == Recorded(plan.mem, c, outcome, took, whole)
    <2>2. InMemory(next) /\ Tracked(next) # {} /\ Tracked(plan.mem) \subseteq Tracked(next)
      <3>1. InMemory(plan.mem)
        BY <1>0, <2>1
      <3> QED
        BY <1>0, <2>1, <3>1, RecordedIsSound
    <2>3. plan' = [plan EXCEPT !.at = "backup", !.temporary = FALSE, !.next = next]
      BY <2>1
    <2> HIDE DEF next
    <2>4. /\ LedgerShape(plan') /\ plan'.described = plan.described /\ plan'.at = "backup" /\ plan'.mem = plan.mem /\ plan'.next = next
          /\ plan'.disk = plan.disk /\ plan'.backup = plan.backup /\ plan'.told = plan.told
          /\ plan'.broken = plan.broken
      BY <1>0, <2>3 DEF LedgerShape, LedgerFields
    <2> QED
      BY <1>0, <2>1, <2>2, <2>4 DEF LedgerInv, InMemory, InFile, DescribedAsPlanned, Kept
  <1>3. CASE PreserveBackup
    <2>1. /\ plan.at = "backup"
          /\ \/ \E to \in {"temporary", "idle"} :
                  /\ plan.disk # None
                  /\ plan' = [plan EXCEPT !.at = to, !.backup = plan.disk, !.spoiled = plan.broken,
                                          !.next = IF to = "idle" THEN None ELSE plan.next]
             \/ plan' = [plan EXCEPT !.at = "temporary"]
             \/ plan' = [plan EXCEPT !.at = "idle", !.next = None]
      BY <1>3 DEF PreserveBackup
    <2>3. /\ LedgerShape(plan') /\ plan'.described = plan.described /\ plan'.mem = plan.mem
          /\ plan'.disk = plan.disk /\ plan'.told = plan.told /\ plan'.broken = plan.broken
          /\ (plan'.at = "temporary" /\ plan'.next = plan.next) \/ plan'.at = "idle"
          /\ plan'.backup = plan.backup \/ (plan.disk # None /\ plan'.backup = plan.disk)
      <3> DEFINE other(to) == [plan EXCEPT !.at = to, !.backup = plan.disk, !.spoiled = plan.broken,
                                           !.next = IF to = "idle" THEN None ELSE plan.next]
      <3>1. ASSUME NEW to \in {"temporary", "idle"}, plan.disk # None, plan' = other(to) PROVE <2>3!:
        <4> DEFINE next == IF to = "idle" THEN None ELSE plan.next
        <4>1. plan' = [plan EXCEPT !.at = to, !.backup = plan.disk, !.spoiled = plan.broken, !.next = next]
          BY <3>1
        <4>2. to = "idle" \/ (to = "temporary" /\ next = plan.next)
          OBVIOUS
        <4> HIDE DEF next
        <4> QED
          BY <1>0, <3>1, <4>1, <4>2 DEF LedgerShape, LedgerFields
      <3>2. CASE plan' = [plan EXCEPT !.at = "temporary"]
        BY <1>0, <3>2 DEF LedgerShape, LedgerFields
      <3>3. CASE plan' = [plan EXCEPT !.at = "idle", !.next = None]
        BY <1>0, <3>3 DEF LedgerShape, LedgerFields
      <3> QED
        BY <2>1, <3>1, <3>2, <3>3
    <2> QED
      BY <1>0, <2>1, <2>3 DEF LedgerInv, InMemory, InFile, DescribedAsPlanned, Kept
  <1>4. CASE WriteTemporary
    <2>1. plan.at = "temporary"
      BY <1>4 DEF WriteTemporary
    <2>2. /\ LedgerShape(plan') /\ plan'.described = plan.described /\ plan'.mem = plan.mem /\ plan'.disk = plan.disk /\ plan'.told = plan.told
          /\ plan'.broken = plan.broken /\ plan'.backup = plan.backup
          /\ (plan'.at = "rename" /\ plan'.next = plan.next) \/ plan'.at = "idle"
      BY <1>0, <1>4 DEF WriteTemporary, LedgerShape, LedgerFields
    <2> QED
      BY <1>0, <2>1, <2>2 DEF LedgerInv, InMemory, InFile, DescribedAsPlanned, Kept
  <1>5. CASE RenameCheckpoint
    <2> DEFINE file == Sanitized(plan.next)
    <2>1. /\ plan.at = "rename"
          /\ plan' = [plan EXCEPT !.at = "idle", !.disk = file, !.mem = plan.next, !.next = None,
                                  !.temporary = FALSE, !.broken = FALSE, !.told = Tracked(plan.next)]
      BY <1>5 DEF RenameCheckpoint
    <2>3. InFile(file) /\ Tracked(file) = Tracked(plan.next) /\ file # None
      BY <1>0, <2>1, SanitizedIsSound, StateAssumption DEF InFile, SoundState
    <2> HIDE DEF file
    <2>2. /\ LedgerShape(plan') /\ plan'.described = plan.described /\ plan'.at = "idle" /\ plan'.mem = plan.next /\ plan'.disk = file
          /\ plan'.told = Tracked(plan.next) /\ plan'.backup = plan.backup /\ plan'.broken = FALSE
      BY <1>0, <2>1 DEF LedgerShape, LedgerFields
    <2> QED
      BY <1>0, <2>1, <2>2, <2>3 DEF LedgerInv, InMemory, InFile, DescribedAsPlanned, Kept
  <1>9. CASE RenameIsNotSynced
    <2> DEFINE file == Sanitized(plan.next)
    <2>1. /\ plan.at = "rename"
          /\ plan' = [plan EXCEPT !.at = "idle", !.disk = file, !.next = None, !.temporary = FALSE,
                                  !.broken = FALSE, !.deaths = plan.deaths + 1]
      BY <1>9 DEF RenameIsNotSynced
    <2>3. InFile(file) /\ Tracked(file) = Tracked(plan.next) /\ file # None
      BY <1>0, <2>1, SanitizedIsSound, StateAssumption DEF InFile, SoundState
    <2> HIDE DEF file
    <2>2. /\ LedgerShape(plan') /\ plan'.described = plan.described /\ plan'.at = "idle"
          /\ plan'.mem = plan.mem /\ plan'.disk = file /\ plan'.told = plan.told
          /\ plan'.backup = plan.backup /\ plan'.broken = FALSE
      BY <1>0, <2>1 DEF LedgerShape, LedgerFields
    <2> QED
      BY <1>0, <2>1, <2>2, <2>3 DEF LedgerInv, InMemory, InFile, DescribedAsPlanned, Kept
  <1>6. CASE LedgerDies
    <2>1. plan' = [plan EXCEPT !.at = "off", !.mem = None, !.next = None, !.deaths = plan.deaths + 1]
      BY <1>6 DEF LedgerDies
    <2>2. /\ LedgerShape(plan') /\ plan'.described = plan.described /\ plan'.at = "off" /\ plan'.mem = None /\ plan'.disk = plan.disk
          /\ plan'.told = plan.told /\ plan'.backup = plan.backup /\ plan'.broken = plan.broken
      BY <1>0, <2>1 DEF LedgerShape, LedgerFields
    <2> QED
      BY <1>0, <2>2 DEF LedgerInv, InMemory, InFile, DescribedAsPlanned, Kept
  <1>7. CASE CheckpointBreaks
    <2>1. plan.at = "off" /\ plan' = [plan EXCEPT !.broken = TRUE, !.told = {}]
      BY <1>7 DEF CheckpointBreaks
    <2>2. /\ LedgerShape(plan') /\ plan'.described = plan.described /\ plan'.at = "off" /\ plan'.mem = plan.mem /\ plan'.disk = plan.disk
          /\ plan'.told = {} /\ plan'.backup = plan.backup
      BY <1>0, <2>1 DEF LedgerShape, LedgerFields
    <2> QED
      BY <1>0, <2>1, <2>2 DEF LedgerInv, InMemory, InFile, DescribedAsPlanned, Kept
  <1>8. plan.on = "ledger"
    BY <1>0 DEF LedgerShape
  <1> QED
    BY <1>1, <1>2, <1>3, <1>4, <1>5, <1>6, <1>7, <1>8, <1>9
       DEF PlanNext, AdmitSweep, ReadBinding, ListNamespace, CreateCandidate, CandidateFails, LinkPlan,
           RemoveOwnedCandidate, RunsBound, GivesUpBinding, BinderDies, BindSweepPlan, Steps
-----------------------------------------------------------------------------
(* What comes before a sweep's cells, and what is kept of them *)

PlanInv == AdmissionInv \/ BindingInv \/ LedgerInv

\* A plan, a binding or a ledger begins sound.
LEMMA PlanStarts == PlanInit => PlanInv
  <1> SUFFICES ASSUME PlanInit PROVE PlanInv
    OBVIOUS
  <1>1. CASE plan = [on |-> "bind", file |-> None, links |-> 0, stages |-> {},
             at |-> [p \in PlanProcs |-> "idle"], wants |-> [p \in PlanProcs |-> None],
             resumes |-> [p \in PlanProcs |-> FALSE], ran |-> {}, deaths |-> 0]
    <2>1. plan \in Bindings
      BY <1>1 DEF Bindings, BinderStates
    <2> QED
      BY <1>1, <2>1 DEF PlanInv, BindingInv
  <1>2. ASSUME NEW described \in [PlannedCells -> {"plain", "sensitive"}],
               plan = [on |-> "ledger", described |-> described, mem |-> None, disk |-> None,
                 backup |-> None, temporary |-> FALSE, at |-> "off", next |-> None, told |-> {},
                 deaths |-> 0, broken |-> FALSE, spoiled |-> FALSE]
        PROVE  PlanInv
    BY <1>2 DEF PlanInv, LedgerInv, LedgerShape, LedgerFields, Kept
  <1>3. ASSUME NEW scenarios \in Selections(Scenarios), NEW skills \in Selections(Skills),
               NEW models \in SeqOf([id : KnownModels \cup {Strange}, provider : Providers], 2),
               NEW requested, NEW wellFormed,
               plan = [on |-> "matrix", scenarios |-> scenarios, skills |-> skills,
                 models |-> models, requested |-> requested, wellFormed |-> wellFormed,
                 code |-> None, cells |-> <<>>]
        PROVE  PlanInv
    <2>1. ASSUME NEW S, NEW s \in SeqOf(S, 2) PROVE s \in Seq(S)
      <3>1. PICK m \in 0..2 : s \in [1..m -> S]
        BY DEF SeqOf
      <3> QED
        BY <3>1
    <2>2. MatrixTyped
      BY <1>3, <2>1 DEF MatrixTyped, Selections
    <2>3. /\ DOMAIN plan = AdmissionFields /\ plan = [x \in AdmissionFields |-> plan[x]]
          /\ plan.on = "matrix" /\ plan.code = None
      BY <1>3 DEF AdmissionFields
    <2>4. AdmittedIsRunnable
      BY <2>3, LedgerAssumption DEF AdmittedIsRunnable
    <2> QED
      BY <2>2, <2>3, <2>4 DEF PlanInv, AdmissionInv
  <1> QED
    BY <1>1, <1>2, <1>3 DEF PlanInit

\* Every step of what comes before the cells.
LEMMA PlanKeeps == PlanInv /\ PlanNext => PlanInv'
  <1> SUFFICES ASSUME AdmissionInv, PlanNext PROVE PlanInv'
    BY BindingStays, LedgerStays DEF PlanInv
  <1>1. AdmitSweep
    BY DEF AdmissionInv, PlanNext, ReadBinding, ListNamespace, CreateCandidate, CandidateFails, LinkPlan,
           RemoveOwnedCandidate, RunsBound, GivesUpBinding, BinderDies, BindSweepPlan, Steps,
           LoadLedger, PreserveBackup, WriteTemporary, RenameCheckpoint, RenameIsNotSynced,
           LedgerDies, CheckpointBreaks, PersistState, Ledgering
  <1>2. AdmissionInv'
    BY <1>1, AdmissionKeeps
  <1> QED
    BY <1>2 DEF PlanInv

\* Sound: one plan for an identity, checkpoints that pass their validation, and
\* what is admitted can run.
LEMMA PlanHolds == PlanInv => OnePlan /\ CheckpointIsSound /\ AdmittedIsRunnable
  <1>1. AdmissionInv => OnePlan /\ CheckpointIsSound /\ AdmittedIsRunnable
    BY DEF AdmissionInv, OnePlan, CheckpointIsSound, Ledgering
  <1>2. BindingInv => OnePlan /\ CheckpointIsSound /\ AdmittedIsRunnable
    BY DEF BindingInv, Bindings, OnePlan, CheckpointIsSound, AdmittedIsRunnable, Ledgering
  <1>3. LedgerInv => OnePlan /\ CheckpointIsSound /\ AdmittedIsRunnable
    BY DEF LedgerInv, LedgerShape, SoundState, InMemory, InFile, Contract, Kept, OnePlan,
           CheckpointIsSound, AdmittedIsRunnable, Ledgering
  <1> QED
    BY <1>1, <1>2, <1>3 DEF PlanInv
-----------------------------------------------------------------------------
(* The budget of a scenario                                                *)

BudgetFields ==
  {"on", "now", "used", "burstUsed", "lastReset", "rate", "active", "breaker", "resetAt", "failures",
   "successes", "history", "slots", "excess"}

Allowance(on) == IF on[2] THEN Burst ELSE 0

\* What may be used and be out together while answers keep to their estimates.
Most(on) == Limit + Allowance(on) + (MaxSlots - 1) * MaxEstimate

\* Counters and ceilings within their limits.
SoundCeilings(b) ==
  /\ b.now \in Nat /\ b.lastReset \in Nat /\ b.resetAt \in Nat
  /\ b.rate \in MinRate..MaxRate /\ b.failures \in 0..FailLimit /\ b.successes \in Nat
  /\ b.breaker \in {"closed", "open", "half_open"}
  /\ b.breaker = "closed" => b.failures < FailLimit
  /\ b.breaker = "open" => b.resetAt <= b.now + Cooldown

\* What is out is what was admitted, and it was admitted within the budget; what
\* is used goes beyond it by what answers reported beyond their estimates.
SoundSlots(b) ==
  /\ b.used \in Nat /\ b.burstUsed \in Nat /\ b.excess \in Nat
  /\ b.slots \in Seq(1..MaxEstimate) /\ Len(b.slots) = b.active /\ b.active <= MaxSlots
  /\ SumOf(b.slots) <= Most(b.on) /\ b.used + SumOf(b.slots) <= Most(b.on) + b.excess

SoundBudget(b) ==
  /\ DOMAIN b = BudgetFields /\ b.on[1] = "budget" /\ b.on[2] \in BOOLEAN
  /\ SoundCeilings(b) /\ SoundSlots(b)

\* A choice that was made, or none yet.
SoundRoute(r) ==
  /\ DOMAIN r = {"on", "candidates", "chosen", "frontier", "chain", "target"} /\ r.on = <<"route", FALSE>>
  /\ r.candidates \subseteq Candidate /\ IsFiniteSet(r.candidates)

OptimizerInv ==
  \/ SoundBudget(budget)
  \/ SoundRoute(budget) /\ RecommendationIsBest

\* What the constants of a budget are taken to be, fact by fact.
LEMMA BudgetConstants ==
  /\ Limit \in Nat /\ Burst \in Nat /\ ResetInterval \in Nat /\ WindowSize \in Nat /\ Cooldown \in Nat
  /\ MaxEstimate \in Nat /\ MaxTime \in Nat /\ MinRate \in Nat /\ MaxRate \in Nat /\ MinRate <= MaxRate
  /\ MaxSlots \in Nat /\ MaxSlots >= 1 /\ FailLimit \in Nat /\ FailLimit >= 1
  /\ ScaleUpAfter \in Nat /\ ScaleUpAfter >= 1
  BY OptimizerAssumption

LEMMA MostIsInt ==
    ASSUME NEW on, on[2] \in BOOLEAN PROVE Most(on) \in Nat /\ Allowance(on) \in Nat
  <1>1. Allowance(on) \in Nat /\ Limit \in Nat
    BY BudgetConstants DEF Allowance
  <1>2. (MaxSlots - 1) * MaxEstimate \in Nat
    BY BudgetConstants
  <1> QED
    BY <1>1, <1>2 DEF Most

\* What requests hold is a natural, and no more than the largest estimate each.
LEMMA SlotsHold ==
    ASSUME NEW s \in Seq(1..MaxEstimate)
    PROVE  /\ s \in Seq(Int) /\ Len(s) \in Nat /\ SumOf(s) \in Nat
           /\ SumOf(s) <= Len(s) * MaxEstimate
           /\ \A i \in 1..Len(s) : s[i] \in 1..MaxEstimate
  <1>1. MaxEstimate \in Nat /\ 1..MaxEstimate \subseteq 0..MaxEstimate /\ 1..MaxEstimate \subseteq Int
    BY BudgetConstants
  <1>2. s \in Seq(0..MaxEstimate) /\ s \in Seq(Int)
    BY <1>1, SeqMonotonic
  <1> QED
    BY <1>1, <1>2, SumOfBounded, LenProperties, ElementOfSeq

\* A reset keeps a budget sound, and leaves the breaker alone (resetProfileIfDue).
LEMMA ResetKeeps ==
    ASSUME NEW b, SoundBudget(b)
    PROVE  /\ SoundBudget(Reset(b)) /\ Reset(b).used <= b.used
           /\ \A x \in BudgetFields \ {"used", "burstUsed", "lastReset", "excess"} : Reset(b)[x] = b[x]
           /\ Reset(b) = b \/ (Reset(b).used = 0 /\ Reset(b).excess = 0)
  <1> DEFINE r == [b EXCEPT !.used = 0, !.burstUsed = 0, !.lastReset = b.now, !.excess = 0]
  <1>1. CASE b.now - b.lastReset >= ResetInterval
    <2>1. Reset(b) = r
      BY <1>1 DEF Reset
    <2>2. DOMAIN b = BudgetFields
      BY DEF SoundBudget
    <2>3. /\ DOMAIN r = BudgetFields /\ r.used = 0 /\ r.burstUsed = 0 /\ r.lastReset = b.now
          /\ r.excess = 0
          /\ \A x \in BudgetFields \ {"used", "burstUsed", "lastReset", "excess"} : r[x] = b[x]
      BY <2>2 DEF BudgetFields
    <2> HIDE DEF r
    <2>4. /\ r.on = b.on /\ r.now = b.now /\ r.rate = b.rate /\ r.active = b.active /\ r.breaker = b.breaker
          /\ r.resetAt = b.resetAt /\ r.failures = b.failures /\ r.successes = b.successes
          /\ r.slots = b.slots
      BY <2>3 DEF BudgetFields
    <2>5. SoundCeilings(r)
      BY <2>3, <2>4 DEF SoundBudget, SoundCeilings
    <2>6. SoundSlots(r) /\ r.used <= b.used
      <3>1. b.used \in Nat /\ b.slots \in Seq(1..MaxEstimate) /\ SumOf(b.slots) \in Nat
        BY SlotsHold DEF SoundBudget, SoundSlots
      <3>2. Most(b.on) \in Nat /\ SumOf(b.slots) <= Most(b.on)
        BY MostIsInt DEF SoundBudget, SoundSlots
      <3>3. r.used + SumOf(r.slots) <= Most(r.on) + r.excess
        BY <2>3, <2>4, <3>1, <3>2
      <3> QED
        BY <2>3, <2>4, <3>1, <3>2, <3>3 DEF SoundBudget, SoundSlots
    <2> QED
      BY <2>1, <2>3, <2>4, <2>5, <2>6 DEF SoundBudget
  <1>2. CASE ~(b.now - b.lastReset >= ResetInterval)
    <2>1. Reset(b) = b
      BY <1>2 DEF Reset
    <2>2. b.used \in Nat
      BY DEF SoundBudget, SoundSlots
    <2>3. SoundBudget(Reset(b)) /\ Reset(b).used <= b.used
      BY <2>1, <2>2
    <2>4. \A x \in BudgetFields : Reset(b)[x] = b[x]
      BY <2>1
    <2> QED
      BY <2>1, <2>3, <2>4, Zenon
  <1> QED
    BY <1>1, <1>2

\* What leaves tokens and slots alone.
LEMMA SlotsStay ==
    ASSUME NEW b, NEW r, SoundBudget(b), DOMAIN r = BudgetFields, r.on = b.on, r.used = b.used,
           r.burstUsed = b.burstUsed, r.slots = b.slots, r.active = b.active,
           r.excess = b.excess
    PROVE  SoundSlots(r)
  BY DEF SoundBudget, SoundSlots

\* What canExecute does before it looks at slots and rate keeps a budget sound;
\* an open breaker is left half open, and only when its time has come.
LEMMA AskedKeeps ==
    ASSUME NEW b, SoundBudget(b), NEW estimate
    PROVE  LET a == Asked(b, estimate)
           IN /\ SoundBudget(a) /\ a.on = b.on /\ a.now = b.now /\ a.slots = b.slots /\ a.active = b.active
              /\ a.breaker \in {b.breaker, "half_open"}
              /\ b.breaker = "open" /\ a.breaker = "half_open" => b.now >= b.resetAt
  <1> DEFINE r == Reset(b)
             p == PrunedHistory(r)
             h == HalfOpened(p)
  <1>1. /\ SoundBudget(r) /\ r.on = b.on /\ r.now = b.now /\ r.slots = b.slots /\ r.active = b.active
        /\ r.breaker = b.breaker /\ r.resetAt = b.resetAt
    BY ResetKeeps DEF BudgetFields
  <1> HIDE DEF r
  <1>2. DOMAIN r = BudgetFields
    BY <1>1 DEF SoundBudget
  <1>3. /\ DOMAIN p = BudgetFields /\ p.on = r.on /\ p.now = r.now /\ p.slots = r.slots /\ p.active = r.active
        /\ p.breaker = r.breaker /\ p.resetAt = r.resetAt /\ p.used = r.used /\ p.burstUsed = r.burstUsed /\ p.excess = r.excess
        /\ p.lastReset = r.lastReset /\ p.rate = r.rate /\ p.failures = r.failures
        /\ p.successes = r.successes
    <2> DEFINE kept == SelectSeq(r.history, LAMBDA t : t >= r.now - WindowSize)
    <2>1. p = [r EXCEPT !.history = kept]
      BY DEF PrunedHistory
    <2> HIDE DEF kept, p
    <2> QED
      BY <1>2, <2>1 DEF BudgetFields
  <1> HIDE DEF p
  <1>4. SoundBudget(p)
    <2>1. SoundCeilings(p)
      BY <1>1, <1>3 DEF SoundBudget, SoundCeilings
    <2>2. SoundSlots(p)
      BY <1>1, <1>3, SlotsStay
    <2> QED
      BY <1>1, <1>3, <2>1, <2>2 DEF SoundBudget
  <1>5. /\ SoundBudget(h) /\ h.on = p.on /\ h.now = p.now /\ h.slots = p.slots /\ h.active = p.active
        /\ h.breaker \in {p.breaker, "half_open"}
        /\ p.breaker = "open" /\ h.breaker = "half_open" => p.now >= p.resetAt
    <2>1. CASE p.breaker = "open" /\ p.now >= p.resetAt
      <3>1. h = [p EXCEPT !.breaker = "half_open"]
        BY <2>1 DEF HalfOpened
      <3> HIDE DEF h
      <3>2. /\ DOMAIN h = BudgetFields /\ h.breaker = "half_open" /\ h.on = p.on /\ h.now = p.now
            /\ h.slots = p.slots /\ h.active = p.active /\ h.resetAt = p.resetAt /\ h.used = p.used
            /\ h.excess = p.excess /\ h.burstUsed = p.burstUsed /\ h.lastReset = p.lastReset /\ h.rate = p.rate
            /\ h.failures = p.failures /\ h.successes = p.successes
        BY <1>3, <3>1 DEF BudgetFields
      <3>3. SoundCeilings(h)
        BY <1>4, <3>2 DEF SoundBudget, SoundCeilings
      <3>4. SoundSlots(h)
        BY <1>4, <3>2, SlotsStay
      <3> QED
        BY <1>4, <2>1, <3>2, <3>3, <3>4 DEF SoundBudget
    <2>2. CASE ~(p.breaker = "open" /\ p.now >= p.resetAt)
      <3>1. h = p
        BY <2>2 DEF HalfOpened
      <3> HIDE DEF h
      <3> QED
        BY <1>4, <2>2, <3>1
    <2> QED
      BY <2>1, <2>2
  <1>6. Asked(b, estimate) = h \/ Asked(b, estimate) = r
    BY DEF Asked, h, p, r
  <1> HIDE DEF h
  <1> QED
    BY <1>1, <1>3, <1>5, <1>6

\* A request that is admitted fits beside those that are out (canExecute,
\* acquireSlot).
LEMMA AdmittedKeeps ==
    ASSUME NEW b, SoundBudget(b), b.on = budget.on, NEW estimate \in 1..MaxEstimate, Admits(b, estimate),
           NEW r, r = [b EXCEPT !.active = @ + 1, !.slots = Append(@, estimate)]
    PROVE  SoundBudget(r) /\ r.breaker = b.breaker /\ r.on = b.on
  <1>1. DOMAIN b = BudgetFields
    BY DEF SoundBudget
  <1>2. /\ DOMAIN r = BudgetFields /\ r.active = b.active + 1 /\ r.slots = Append(b.slots, estimate)
        /\ r.on = b.on /\ r.now = b.now /\ r.resetAt = b.resetAt /\ r.used = b.used
        /\ r.burstUsed = b.burstUsed /\ r.lastReset = b.lastReset /\ r.rate = b.rate
        /\ r.failures = b.failures /\ r.successes = b.successes /\ r.breaker = b.breaker
        /\ r.excess = b.excess
    BY <1>1 DEF BudgetFields
  <1>3. SoundCeilings(r)
    BY <1>2 DEF SoundBudget, SoundCeilings
  <1>4. SoundSlots(r)
    <2>1. /\ b.used \in Nat /\ b.burstUsed \in Nat /\ b.slots \in Seq(1..MaxEstimate)
          /\ Len(b.slots) = b.active /\ b.active < MaxSlots /\ b.on[2] \in BOOLEAN
          /\ b.excess \in Nat
      BY DEF SoundBudget, SoundSlots, Admits
    <2>2. /\ b.slots \in Seq(Int) /\ SumOf(b.slots) \in Nat /\ Len(b.slots) \in Nat
          /\ SumOf(b.slots) <= Len(b.slots) * MaxEstimate
      BY <2>1, SlotsHold
    <2>3. SumOf(r.slots) = SumOf(b.slots) + estimate
      <3>1. estimate \in Int
        BY BudgetConstants
      <3> QED
        BY <1>2, <2>2, <3>1, SumOfAppend
    <2>4. b.used + estimate <= Limit + Allowance(b.on)
      <3>1. \/ b.used + estimate <= Limit
            \/ b.on[2] /\ b.used + estimate - Limit <= Burst - b.burstUsed
        BY DEF Admits, WithinTokens, AllowBurst
      <3>2. /\ Limit \in Nat /\ Burst \in Nat /\ b.used \in Nat /\ b.burstUsed \in Nat /\ estimate \in Nat
            /\ Allowance(b.on) \in Nat /\ (b.on[2] => Allowance(b.on) = Burst)
        <4>1. Limit \in Nat /\ Burst \in Nat /\ estimate \in Nat
          BY BudgetConstants
        <4> QED
          BY <2>1, <4>1 DEF Allowance
      <3>3. CASE b.used + estimate <= Limit
        BY <3>2, <3>3
      <3>4. CASE b.on[2] /\ b.used + estimate - Limit <= Burst - b.burstUsed
        <4>1. Allowance(b.on) = Burst
          BY <3>2, <3>4
        <4> QED
          BY <3>2, <3>4, <4>1
      <3> QED
        BY <3>1, <3>3, <3>4
    <2>5. SumOf(b.slots) <= (MaxSlots - 1) * MaxEstimate
      <3> DEFINE n == Len(b.slots)
                 m == MaxSlots - 1
      <3>1. n \in Nat /\ m \in Nat /\ n <= m /\ MaxEstimate \in Nat
        <4>1. MaxSlots \in Nat /\ MaxSlots >= 1 /\ MaxEstimate \in Nat
          BY BudgetConstants
        <4>2. n \in Nat /\ n < MaxSlots
          BY <2>1, <2>2
        <4> HIDE DEF n
        <4> QED
          BY <4>1, <4>2
      <3> HIDE DEF n, m
      <3>2. n * MaxEstimate <= m * MaxEstimate
        <4>1. m * MaxEstimate = n * MaxEstimate + (m - n) * MaxEstimate
          BY <3>1
        <4>2. (m - n) * MaxEstimate \in Nat /\ n * MaxEstimate \in Int
          BY <3>1
        <4> QED
          BY <4>1, <4>2
      <3>3. n * MaxEstimate \in Int /\ m * MaxEstimate \in Int
        BY <3>1
      <3> QED
        BY <2>2, <3>2, <3>3 DEF n, m
    <2>6. r.used + SumOf(r.slots) <= Most(r.on)
      <3> DEFINE most == (MaxSlots - 1) * MaxEstimate
                 all == Limit + Allowance(b.on)
      <3>1. most \in Int /\ all \in Int /\ estimate \in Int
        <4>1. MaxSlots - 1 \in Int /\ MaxEstimate \in Int /\ estimate \in Int
          BY BudgetConstants
        <4>2. most \in Int
          BY <4>1
        <4>3. all \in Int
          BY BudgetConstants DEF Allowance
        <4> QED
          BY <4>1, <4>2, <4>3
      <3>2. b.used + estimate <= all /\ SumOf(b.slots) <= most
        BY <2>4, <2>5, Zenon
      <3> HIDE DEF most, all
      <3>3. b.used + (SumOf(b.slots) + estimate) <= all + most
        BY <2>1, <2>2, <3>1, <3>2
      <3> QED
        BY <1>2, <2>3, <3>3 DEF most, all, Most
    <2>7. r.slots \in Seq(1..MaxEstimate) /\ Len(r.slots) = r.active /\ r.active <= MaxSlots
      <3>1. Append(b.slots, estimate) \in Seq(1..MaxEstimate)
            /\ Len(Append(b.slots, estimate)) = Len(b.slots) + 1
        BY <2>1, AppendProperties
      <3>2. r.slots = Append(b.slots, estimate) /\ r.active = b.active + 1
        BY <1>2
      <3>3. MaxSlots \in Int /\ b.active \in Int
        BY <2>1, <2>2, BudgetConstants
      <3> QED
        BY <2>1, <3>1, <3>2, <3>3
    <2>8. SumOf(r.slots) <= Most(r.on) /\ r.used + SumOf(r.slots) <= Most(r.on) + r.excess
      <3>1. SumOf(r.slots) \in Nat
        BY <2>7, SlotsHold
      <3>2. Most(r.on) \in Nat
        BY <1>2, <2>1, MostIsInt
      <3>3. r.excess \in Nat /\ r.used \in Nat
        BY <1>2, <2>1
      <3> QED
        BY <2>6, <3>1, <3>2, <3>3
    <2> QED
      BY <1>2, <2>1, <2>7, <2>8 DEF SoundSlots
  <1> QED
    BY <1>2, <1>3, <1>4 DEF SoundBudget

\* A ceiling that is scaled stays between floor and ceiling (scaleUpCeiling,
\* scaleDownCeiling).
LEMMA ScalingKeeps ==
    ASSUME NEW b, SoundBudget(b), NEW r, r = ScaledUp(b) \/ r = ScaledDown(b)
    PROVE  SoundBudget(r) /\ \A x \in BudgetFields \ {"rate", "successes"} : r[x] = b[x]
  <1>1. DOMAIN b = BudgetFields
    BY DEF SoundBudget
  <1>2. b.rate \in MinRate..MaxRate /\ b.rate \in Int /\ MinRate \in Nat /\ MaxRate \in Nat
    BY BudgetConstants DEF SoundBudget, SoundCeilings
  <1>3. ASSUME NEW rate \in MinRate..MaxRate, r = [b EXCEPT !.rate = rate, !.successes = 0]
        PROVE  SoundBudget(r) /\ \A x \in BudgetFields \ {"rate", "successes"} : r[x] = b[x]
    <2>1. /\ DOMAIN r = BudgetFields /\ r.rate = rate /\ r.successes = 0
          /\ \A x \in BudgetFields \ {"rate", "successes"} : r[x] = b[x]
      BY <1>1, <1>3 DEF BudgetFields
    <2>2. /\ r.on = b.on /\ r.now = b.now /\ r.resetAt = b.resetAt /\ r.used = b.used
          /\ r.burstUsed = b.burstUsed /\ r.lastReset = b.lastReset /\ r.active = b.active
          /\ r.failures = b.failures /\ r.slots = b.slots /\ r.breaker = b.breaker
          /\ r.excess = b.excess
      BY <2>1 DEF BudgetFields
    <2>3. SoundCeilings(r)
      BY <2>1, <2>2 DEF SoundBudget, SoundCeilings
    <2>4. SoundSlots(r)
      BY <2>1, <2>2, SlotsStay
    <2> QED
      BY <2>1, <2>2, <2>3, <2>4 DEF SoundBudget
  <1>4. CASE r = ScaledUp(b)
    <2>1. CASE b.rate >= MaxRate
      BY <1>4, <2>1 DEF ScaledUp
    <2>2. CASE ~(b.rate >= MaxRate)
      <3> DEFINE rate == Min({MaxRate, 2 * b.rate})
      <3>1. rate = IF MaxRate <= 2 * b.rate THEN MaxRate ELSE 2 * b.rate
        BY <1>2, OfTwo
      <3>2. r = [b EXCEPT !.rate = rate, !.successes = 0]
        BY <1>4, <2>2 DEF ScaledUp
      <3> HIDE DEF rate
      <3>3. rate \in MinRate..MaxRate
        BY <1>2, <3>1
      <3> QED
        BY <1>3, <3>2, <3>3
    <2> QED
      BY <2>1, <2>2
  <1>5. CASE r = ScaledDown(b)
    <2> DEFINE half == b.rate \div 2
               rate == Max({MinRate, half})
    <2>1. half \in Int /\ half <= b.rate
      BY <1>2
    <2>2. rate = IF MinRate >= half THEN MinRate ELSE half
      <3>1. half \in Int /\ MinRate \in Int
        BY <1>2, <2>1
      <3> HIDE DEF half
      <3>2. Max({MinRate, half}) = IF MinRate >= half THEN MinRate ELSE half
        BY <3>1, OfTwo
      <3> QED
        BY <3>2
    <2>3. r = [b EXCEPT !.rate = rate, !.successes = 0]
      BY <1>5 DEF ScaledDown
    <2> HIDE DEF rate, half
    <2>4. rate \in MinRate..MaxRate
      BY <1>2, <2>1, <2>2
    <2> QED
      BY <1>3, <2>3, <2>4
  <1> QED
    BY <1>4, <1>5

\* The fields an answer's outcome does not touch.
Untouched == BudgetFields \ {"failures", "successes", "breaker", "resetAt", "rate"}

\* A failure keeps a budget sound and closes nothing (releaseSlot).
LEMMA FailedKeeps ==
    ASSUME NEW b, SoundBudget(b)
    PROVE  /\ SoundBudget(Failed(b)) /\ \A x \in Untouched : Failed(b)[x] = b[x]
           /\ Failed(b).breaker \in {b.breaker, "open"}
  <1> DEFINE failures == Min({FailLimit, b.failures + 1})
             c == [b EXCEPT !.failures = failures, !.successes = 0]
             r == Failed(b)
  <1>1. DOMAIN b = BudgetFields
    BY DEF SoundBudget
  <1>2. b.failures \in Nat /\ b.failures <= FailLimit /\ FailLimit \in Nat /\ FailLimit >= 1
    BY BudgetConstants DEF SoundBudget, SoundCeilings
  <1>3. failures \in 0..FailLimit
    <2>1. b.failures + 1 \in Int /\ FailLimit \in Int
      BY <1>2
    <2>2. failures = IF FailLimit <= b.failures + 1 THEN FailLimit ELSE b.failures + 1
      BY <2>1, OfTwo
    <2> HIDE DEF failures
    <2> QED
      BY <1>2, <2>2
  <1>4. r = IF c.failures >= FailLimit
              THEN [c EXCEPT !.breaker = "open", !.resetAt = c.now + Cooldown] ELSE c
    BY DEF Failed
  <1> HIDE DEF failures
  <1>5. /\ DOMAIN c = BudgetFields /\ c.failures = failures /\ c.successes = 0
        /\ \A x \in BudgetFields \ {"failures", "successes"} : c[x] = b[x]
    BY <1>1 DEF BudgetFields
  <1> HIDE DEF c, r
  <1>6. c.now = b.now /\ c.breaker = b.breaker /\ c.resetAt = b.resetAt /\ c.rate = b.rate
        /\ c.lastReset = b.lastReset
    BY <1>5 DEF BudgetFields
  <1>7. /\ b.now \in Nat /\ b.lastReset \in Nat /\ b.resetAt \in Nat /\ b.rate \in MinRate..MaxRate
        /\ b.breaker \in {"closed", "open", "half_open"}
        /\ b.breaker = "open" => b.resetAt <= b.now + Cooldown
    BY DEF SoundBudget, SoundCeilings
  <1>8. /\ DOMAIN r = BudgetFields /\ SoundCeilings(r) /\ \A x \in Untouched : r[x] = b[x]
        /\ r.breaker \in {b.breaker, "open"}
    <2>1. CASE c.failures >= FailLimit
      <3>1. r = [c EXCEPT !.breaker = "open", !.resetAt = c.now + Cooldown]
        BY <1>4, <2>1
      <3>2. /\ DOMAIN r = BudgetFields /\ r.breaker = "open" /\ r.resetAt = b.now + Cooldown
            /\ \A x \in BudgetFields \ {"breaker", "resetAt"} : r[x] = c[x]
        BY <1>5, <1>6, <3>1 DEF BudgetFields
      <3>3. \A x \in Untouched : r[x] = b[x]
        BY <1>5, <3>2 DEF Untouched, BudgetFields
      <3>4. /\ r.failures = failures /\ r.successes = 0 /\ r.now = b.now /\ r.rate = b.rate
            /\ r.lastReset = b.lastReset
        BY <1>5, <1>6, <3>2 DEF BudgetFields
      <3>5. SoundCeilings(r)
        BY <1>3, <1>7, <3>2, <3>4, BudgetConstants DEF SoundCeilings
      <3> QED
        BY <3>2, <3>3, <3>5
    <2>2. CASE ~(c.failures >= FailLimit)
      <3>1. r = c
        BY <1>4, <2>2
      <3>2. \A x \in Untouched : r[x] = b[x]
        BY <1>5, <3>1 DEF Untouched, BudgetFields
      <3>3. SoundCeilings(r)
        BY <1>2, <1>3, <1>5, <1>6, <1>7, <2>2, <3>1 DEF SoundCeilings
      <3> QED
        BY <1>5, <1>6, <3>1, <3>2, <3>3
    <2> QED
      BY <2>1, <2>2
  <1>9. /\ r.on = b.on /\ r.used = b.used /\ r.burstUsed = b.burstUsed /\ r.slots = b.slots
        /\ r.active = b.active /\ r.excess = b.excess
    BY <1>8 DEF Untouched, BudgetFields
  <1>10. SoundSlots(r)
    BY <1>8, <1>9, SlotsStay
  <1>11. SoundBudget(r)
    BY <1>8, <1>9, <1>10 DEF SoundBudget
  <1> QED
    BY <1>8, <1>11 DEF r

\* A success keeps a budget sound, and closes what is half open only
\* (releaseSlot).
LEMMA SucceededKeeps ==
    ASSUME NEW b, SoundBudget(b)
    PROVE  /\ SoundBudget(Succeeded(b)) /\ \A x \in Untouched : Succeeded(b)[x] = b[x]
           /\ b.breaker = "open" => Succeeded(b).breaker = "open"
  <1> DEFINE successes == Min({ScaleUpAfter, b.successes + 1})
             breaker == IF b.breaker = "half_open" THEN "closed" ELSE b.breaker
             c == [b EXCEPT !.successes = successes, !.failures = 0, !.breaker = breaker]
  <1>1. DOMAIN b = BudgetFields
    BY DEF SoundBudget
  <1>2. successes \in Nat
    <2>1. b.successes + 1 \in Nat /\ ScaleUpAfter \in Nat
      BY BudgetConstants DEF SoundBudget, SoundCeilings
    <2>2. successes = IF ScaleUpAfter <= b.successes + 1 THEN ScaleUpAfter ELSE b.successes + 1
      BY <2>1, OfTwo
    <2> HIDE DEF successes
    <2> QED
      BY <2>1, <2>2
  <1>3. Succeeded(b) = IF c.successes >= ScaleUpAfter THEN ScaledUp(c) ELSE c
    BY DEF Succeeded
  <1>4. breaker \in {"closed", "open"} /\ (b.breaker = "open" => breaker = "open")
        /\ (breaker = "open" => b.breaker = "open")
    BY DEF SoundBudget, SoundCeilings
  <1> HIDE DEF successes, breaker
  <1>5. /\ DOMAIN c = BudgetFields /\ c.failures = 0 /\ c.successes = successes /\ c.breaker = breaker
        /\ \A x \in BudgetFields \ {"failures", "successes", "breaker"} : c[x] = b[x]
    BY <1>1 DEF BudgetFields
  <1> HIDE DEF c
  <1>6. /\ c.now = b.now /\ c.resetAt = b.resetAt /\ c.rate = b.rate /\ c.lastReset = b.lastReset
        /\ c.on = b.on /\ c.used = b.used /\ c.burstUsed = b.burstUsed /\ c.slots = b.slots
        /\ c.active = b.active /\ c.excess = b.excess
    BY <1>5 DEF BudgetFields
  <1>7. SoundCeilings(c)
    <2>1. /\ b.now \in Nat /\ b.lastReset \in Nat /\ b.resetAt \in Nat /\ b.rate \in MinRate..MaxRate
          /\ b.breaker = "open" => b.resetAt <= b.now + Cooldown
      BY DEF SoundBudget, SoundCeilings
    <2> QED
      BY <1>2, <1>4, <1>5, <1>6, <2>1, BudgetConstants DEF SoundCeilings
  <1>8. SoundSlots(c)
    BY <1>5, <1>6, SlotsStay
  <1>9. SoundBudget(c)
    BY <1>5, <1>6, <1>7, <1>8 DEF SoundBudget
  <1>10. \A x \in Untouched : c[x] = b[x]
    BY <1>5 DEF Untouched, BudgetFields
  <1>11. CASE c.successes >= ScaleUpAfter
    <2>1. Succeeded(b) = ScaledUp(c)
      BY <1>3, <1>11
    <2>2. SoundBudget(Succeeded(b)) /\ \A x \in BudgetFields \ {"rate", "successes"} : Succeeded(b)[x] = c[x]
      BY <1>9, <2>1, ScalingKeeps
    <2>3. \A x \in Untouched \cup {"breaker"} : Succeeded(b)[x] = c[x]
      BY <2>2 DEF Untouched, BudgetFields
    <2> QED
      BY <1>4, <1>5, <1>10, <2>2, <2>3
  <1>12. CASE ~(c.successes >= ScaleUpAfter)
    <2>1. Succeeded(b) = c
      BY <1>3, <1>12
    <2> QED
      BY <1>4, <1>5, <1>9, <1>10, <2>1
  <1> QED
    BY <1>11, <1>12

\* What an answer reports is charged: within what it was admitted for, or beyond
\* that and counted so (releaseSlot).
LEMMA SpentKeeps ==
    ASSUME NEW b, SoundBudget(b), NEW tokens \in Nat, NEW estimate \in Nat,
           SumOf(b.slots) + estimate <= Most(b.on),
           b.used + SumOf(b.slots) + estimate <= Most(b.on) + b.excess
    PROVE  SoundBudget(Spent(b, tokens, estimate)) /\ Spent(b, tokens, estimate).breaker = b.breaker
  <1> DEFINE r == Reset(b)
             total == r.used + tokens
             burst == IF total > Limit THEN Min({Burst, total - Limit}) ELSE r.burstUsed
             excess == r.excess + Beyond(estimate, tokens)
             s == Spent(b, tokens, estimate)
  <1>1. /\ SoundBudget(r) /\ r.on = b.on /\ r.slots = b.slots /\ r.breaker = b.breaker
        /\ r = b \/ (r.used = 0 /\ r.excess = 0)
    BY ResetKeeps DEF BudgetFields
  <1>2. s = [r EXCEPT !.used = total, !.excess = excess, !.burstUsed = burst]
    BY DEF Spent
  <1>3. r.used + SumOf(b.slots) + estimate <= Most(b.on) + r.excess
    <2>1. SumOf(b.slots) \in Nat
      BY SlotsHold DEF SoundBudget, SoundSlots
    <2>2. Most(b.on) \in Nat
      BY MostIsInt DEF SoundBudget
    <2> HIDE DEF r
    <2> QED
      BY <1>1, <2>1, <2>2
  <1> HIDE DEF r
  <1>4. /\ DOMAIN r = BudgetFields /\ r.used \in Nat /\ r.burstUsed \in Nat /\ r.excess \in Nat
        /\ r.slots \in Seq(1..MaxEstimate) /\ Len(r.slots) = r.active /\ r.active <= MaxSlots
        /\ SumOf(r.slots) <= Most(r.on) /\ SoundCeilings(r)
    BY <1>1 DEF SoundBudget, SoundSlots
  <1>5. total \in Nat /\ excess \in Nat /\ total - tokens = r.used
        /\ excess >= r.excess + (tokens - estimate)
    BY <1>4 DEF Beyond
  <1>6. burst \in Nat
    <2>1. CASE total > Limit
      <3>1. Burst \in Int /\ Burst >= 0 /\ total - Limit \in Int /\ total - Limit >= 0
        BY <1>5, <2>1, BudgetConstants
      <3>2. burst = IF Burst <= total - Limit THEN Burst ELSE total - Limit
        BY <2>1, <3>1, OfTwo
      <3> HIDE DEF burst, total
      <3> QED
        BY <3>1, <3>2
    <2>2. CASE ~(total > Limit)
      BY <1>4, <2>2
    <2> QED
      BY <2>1, <2>2
  <1> HIDE DEF burst, excess, s
  <1>7. /\ DOMAIN s = BudgetFields /\ s.used = total /\ s.burstUsed = burst /\ s.excess = excess
        /\ \A x \in BudgetFields \ {"used", "burstUsed", "excess"} : s[x] = r[x]
    <2> HIDE DEF total
    <2> QED
      BY <1>2, <1>4 DEF BudgetFields
  <1>8. /\ s.on = r.on /\ s.slots = r.slots /\ s.active = r.active /\ s.breaker = r.breaker /\ s.now = r.now
        /\ s.rate = r.rate /\ s.lastReset = r.lastReset /\ s.failures = r.failures
        /\ s.successes = r.successes /\ s.resetAt = r.resetAt
    BY <1>7 DEF BudgetFields
  <1>9. SoundCeilings(s)
    BY <1>4, <1>8 DEF SoundCeilings
  <1>10. s.used + SumOf(s.slots) <= Most(s.on) + s.excess
    <2> DEFINE most == Most(b.on)
               sum == SumOf(b.slots)
    <2>1. most \in Nat
      BY MostIsInt DEF SoundBudget
    <2>2. sum \in Nat
      BY SlotsHold DEF SoundBudget, SoundSlots
    <2>3. r.used + sum + estimate <= most + r.excess
      BY <1>3
    <2>4. s.used = r.used + tokens /\ SumOf(s.slots) = sum /\ Most(s.on) = most
      BY <1>1, <1>7, <1>8
    <2> HIDE DEF sum, most, total
    <2>5. r.used + tokens + sum <= most + excess
      <3>1. r.used \in Nat /\ r.excess \in Nat /\ excess \in Nat /\ tokens \in Nat /\ estimate \in Nat
        BY <1>4, <1>5
      <3>2. excess >= r.excess + (tokens - estimate)
        BY <1>5
      <3> QED
        BY <2>1, <2>2, <2>3, <3>1, <3>2
    <2> QED
      BY <1>4, <1>7, <2>2, <2>4, <2>5
  <1>11. SoundSlots(s)
    BY <1>4, <1>5, <1>6, <1>7, <1>8, <1>10 DEF SoundSlots
  <1> QED
    BY <1>1, <1>7, <1>8, <1>9, <1>11 DEF SoundBudget, s

\* An answer gives its slot back, and its tokens are charged, whatever it was
\* admitted for (releaseSlot).
LEMMA ReleaseKeeps ==
    ASSUME SoundBudget(budget), NEW i, NEW tokens \in 0..MaxReported, NEW isError \in BOOLEAN,
           ReleaseSlot(i, tokens, isError)
    PROVE  /\ SoundBudget(budget')
           /\ budget.breaker = "open" => budget'.breaker = "open"
  <1> DEFINE active == Max({0, budget.active - 1})
             slots == RemoveAt(budget.slots, i)
             history == Append(budget.history, budget.now)
             b == [budget EXCEPT !.active = active, !.slots = slots, !.history = history]
             c == IF isError THEN Failed(b) ELSE Succeeded(b)
  <1>1. budget' = Spent(c, tokens, budget.slots[i])
    BY DEF ReleaseSlot
  <1>2. /\ DOMAIN budget = BudgetFields /\ budget.used \in Nat /\ budget.burstUsed \in Nat
        /\ budget.excess \in Nat
        /\ budget.slots \in Seq(1..MaxEstimate) /\ Len(budget.slots) = budget.active
        /\ budget.active <= MaxSlots /\ SoundCeilings(budget) /\ budget.on[2] \in BOOLEAN
        /\ SumOf(budget.slots) <= Most(budget.on)
        /\ budget.used + SumOf(budget.slots) <= Most(budget.on) + budget.excess
    BY DEF SoundBudget, SoundSlots
  <1>3. /\ budget.slots \in Seq(Int) /\ Len(budget.slots) \in Nat /\ SumOf(budget.slots) \in Nat
        /\ \A j \in 1..Len(budget.slots) : budget.slots[j] \in 1..MaxEstimate
    BY <1>2, SlotsHold
  <1>4. i \in 1..Len(budget.slots)
    <2>1. DOMAIN budget.slots = 1..Len(budget.slots)
      BY <1>2, LenProperties
    <2> QED
      BY <2>1 DEF ReleaseSlot
  <1>5. /\ Len(slots) = Len(budget.slots) - 1 /\ SumOf(slots) = SumOf(budget.slots) - budget.slots[i]
        /\ slots \in Seq(1..MaxEstimate)
    BY <1>2, <1>3, <1>4, SumOfRemoved
  <1>6. active = Len(slots) /\ active <= MaxSlots
    <2>1. budget.active - 1 \in Int /\ budget.active >= 1
      BY <1>2, <1>3, <1>4
    <2> DEFINE others == budget.active - 1
    <2>2. others \in Int /\ others >= 0 /\ 0 \in Int
      BY <2>1, <1>2, <1>3
    <2>3. active = budget.active - 1
      <3> HIDE DEF others
      <3>1. Max({0, others}) = IF 0 >= others THEN 0 ELSE others
        BY <2>2, OfTwo
      <3>2. Max({0, others}) = others
        BY <2>2, <3>1
      <3> QED
        BY <3>2 DEF others
    <2> HIDE DEF active, slots, others
    <2>4. MaxSlots \in Nat
      BY BudgetConstants
    <2> QED
      BY <1>2, <1>5, <2>1, <2>3, <2>4
  <1> HIDE DEF active, slots, history
  <1>7. /\ DOMAIN b = BudgetFields /\ b.active = active /\ b.slots = slots
        /\ \A x \in BudgetFields \ {"active", "slots", "history"} : b[x] = budget[x]
    BY <1>2 DEF BudgetFields
  <1> HIDE DEF b
  <1>8. /\ b.on = budget.on /\ b.used = budget.used /\ b.burstUsed = budget.burstUsed /\ b.now = budget.now
        /\ b.rate = budget.rate /\ b.lastReset = budget.lastReset /\ b.failures = budget.failures
        /\ b.successes = budget.successes /\ b.excess = budget.excess /\ b.resetAt = budget.resetAt /\ b.breaker = budget.breaker
    BY <1>7 DEF BudgetFields
  <1>9. SoundCeilings(b)
    BY <1>2, <1>8 DEF SoundCeilings
  <1>10. /\ SumOf(b.slots) \in Nat /\ budget.slots[i] \in Nat /\ tokens \in Nat
         /\ SumOf(b.slots) + budget.slots[i] <= Most(b.on)
         /\ b.used + SumOf(b.slots) + budget.slots[i] <= Most(b.on) + b.excess
    <2> DEFINE most == Most(budget.on)
               size == budget.slots[i]
               sum == SumOf(budget.slots)
    <2>1. most \in Nat
      BY <1>2, MostIsInt
    <2>2. sum \in Nat /\ size \in Nat /\ tokens \in Nat /\ SumOf(slots) = sum - size
      BY <1>3, <1>4, <1>5
    <2>3. SumOf(slots) \in Nat
      BY <1>5, SlotsHold
    <2>4. budget.used + sum <= most + budget.excess /\ sum <= most
          /\ budget.used \in Nat /\ budget.excess \in Nat
      BY <1>2
    <2> HIDE DEF sum, most, size
    <2>5. SumOf(slots) + size <= most /\ budget.used + SumOf(slots) + size <= most + budget.excess
      BY <2>1, <2>2, <2>4
    <2> QED
      BY <1>2, <1>7, <1>8, <2>2, <2>3, <2>5 DEF most, size
  <1>11. SoundSlots(b)
    <2>1. Most(b.on) \in Nat
      BY <1>2, <1>8, MostIsInt
    <2>2. SumOf(b.slots) <= Most(b.on) /\ b.used + SumOf(b.slots) <= Most(b.on) + b.excess
      <3> DEFINE most == Most(b.on)
                 size == budget.slots[i]
                 sum == SumOf(b.slots)
      <3>1. /\ most \in Nat /\ size \in Nat /\ sum \in Nat /\ b.used \in Nat /\ b.excess \in Nat
            /\ sum + size <= most /\ b.used + sum + size <= most + b.excess
        BY <1>2, <1>8, <1>10, <2>1
      <3> HIDE DEF most, size, sum
      <3>2. sum <= most /\ b.used + sum <= most + b.excess
        BY <3>1
      <3> QED
        BY <3>2 DEF most, sum
    <2> QED
      BY <1>2, <1>5, <1>6, <1>7, <1>8, <2>2 DEF SoundSlots
  <1>12. SoundBudget(b)
    BY <1>7, <1>8, <1>9, <1>11 DEF SoundBudget
  <1>13. /\ SoundBudget(c) /\ \A x \in Untouched : c[x] = b[x]
         /\ b.breaker = "open" => c.breaker = "open"
    <2>1. CASE isError
      BY <1>12, <2>1, FailedKeeps
    <2>2. CASE ~isError
      BY <1>12, <2>2, SucceededKeeps
    <2> QED
      BY <2>1, <2>2
  <1> HIDE DEF c
  <1>14. c.on = b.on /\ c.used = b.used /\ c.slots = b.slots /\ c.excess = b.excess
    BY <1>13 DEF Untouched, BudgetFields
  <1>15. /\ SoundBudget(Spent(c, tokens, budget.slots[i]))
         /\ Spent(c, tokens, budget.slots[i]).breaker = c.breaker
    BY <1>10, <1>13, <1>14, SpentKeeps
  <1> QED
    BY <1>1, <1>8, <1>13, <1>15

\* Who is not worse than one that is not worse is not worse, and two that are
\* not worse than each other are one.
LEMMA NotWorseIsOrder ==
    ASSUME NEW a \in Candidate, NEW b \in Candidate
    PROVE  /\ NotWorse(a, a)
           /\ NotWorse(a, b) /\ NotWorse(b, a) => a = b
           /\ \A c \in Candidate : NotWorse(a, b) /\ NotWorse(b, c) => NotWorse(a, c)
  <1>1. \A c \in Candidate : c.cost \in Int /\ c.latency \in Int /\ c.quality \in Int
    BY OptimizerAssumption DEF Candidate
  <1>2. a.cost = b.cost /\ a.latency = b.latency /\ a.quality = b.quality => a = b
    BY DEF Candidate
  <1> QED
    BY <1>1, <1>2 DEF NotWorse

\* Beside each of finitely many candidates there is one that is not worse and
\* not dominated (computeParetoFrontier).
LEMMA FrontierCovers ==
    ASSUME NEW valid, IsFiniteSet(valid), valid \subseteq Candidate
    PROVE  \A c \in valid : \E d \in valid : NotWorse(d, c) /\ \A e \in valid : ~Dominates(e, d)
  <1> DEFINE Covered(s) ==
        \A c \in s : \E d \in s : NotWorse(d, c) /\ \A e \in s : ~Dominates(e, d)
             P == {s \in SUBSET valid : Covered(s)}
  <1>1. ASSUME NEW s \in SUBSET valid, \A u \in SUBSET s : u # s => u \in P
        PROVE  s \in P
    <2> SUFFICES ASSUME NEW c \in s
                 PROVE  \E d \in s : NotWorse(d, c) /\ \A e \in s : ~Dominates(e, d)
      OBVIOUS
    <2>1. CASE \A e \in s : ~Dominates(e, c)
      <3>1. NotWorse(c, c)
        BY NotWorseIsOrder
      <3> QED
        BY <2>1, <3>1
    <2>2. CASE \E e \in s : Dominates(e, c)
      <3>1. PICK e \in s : Dominates(e, c)
        BY <2>2
      <3>2. NotWorse(e, c) /\ e # c
        BY <3>1 DEF Dominates
      <3>3. s \ {c} \in P /\ e \in s \ {c}
        BY <1>1, <3>2
      <3>4. Covered(s \ {c})
        BY <3>3
      <3>5. PICK d \in s \ {c} : NotWorse(d, e) /\ \A x \in s \ {c} : ~Dominates(x, d)
        BY <3>3, <3>4
      <3>6. d \in Candidate /\ e \in Candidate /\ c \in Candidate
        OBVIOUS
      <3>7. NotWorse(d, c)
        BY <3>2, <3>5, <3>6, NotWorseIsOrder
      <3>8. ~Dominates(c, d)
        <4> SUFFICES ASSUME NotWorse(c, d) PROVE FALSE
          BY DEF Dominates
        <4>1. NotWorse(c, e)
          BY <3>5, <3>6, NotWorseIsOrder
        <4>2. c = e
          BY <3>2, <3>6, <4>1, NotWorseIsOrder
        <4> QED
          BY <3>2, <4>2
      <3>9. \A x \in s : ~Dominates(x, d)
        BY <3>5, <3>8
      <3> QED
        BY <3>5, <3>7, <3>9
    <2> QED
      BY <2>1, <2>2
  <1>2. \A s \in SUBSET valid : s \in P
    <2> HIDE DEF P
    <2> QED
      BY <1>1, EverySubset
  <1>3. valid \in P
    BY <1>2
  <1> QED
    BY <1>3

\* What is chosen from the frontier is the best of all (optimizeScenario).
LEMMA RouteKeeps == SoundRoute(budget) /\ OptimizeScenario => SoundRoute(budget') /\ RecommendationIsBest'
  <1> SUFFICES ASSUME SoundRoute(budget), OptimizeScenario
               PROVE  SoundRoute(budget') /\ RecommendationIsBest'
    OBVIOUS
  <1>1. PICK target \in {"cost", "latency", "quality", "balanced"}, constraints \in Candidate :
          LET frontier == ComputeParetoFrontier(budget.candidates, constraints)
          IN \E primary \in frontier :
               /\ \A c \in frontier : ~Better(c, primary, target)
               /\ budget' = [budget EXCEPT !.frontier = {c \in budget.candidates :
                                                         SatisfiesConstraints(c, constraints)},
                               !.chosen = primary, !.chain = frontier \ {primary}, !.target = target]
    BY DEF OptimizeScenario
  <1> DEFINE frontier == ComputeParetoFrontier(budget.candidates, constraints)
             valid == {c \in budget.candidates : SatisfiesConstraints(c, constraints)}
  <1>2. PICK primary \in frontier :
          /\ \A c \in frontier : ~Better(c, primary, target)
          /\ budget' = [budget EXCEPT !.frontier = valid, !.chosen = primary,
                                      !.chain = frontier \ {primary}, !.target = target]
    BY <1>1
  <1>3. valid \subseteq Candidate /\ valid \subseteq budget.candidates /\ IsFiniteSet(valid)
    BY FS_Subset DEF SoundRoute
  <1>4. frontier = {c \in valid : \A d \in valid : ~Dominates(d, c)}
    BY DEF ComputeParetoFrontier
  <1> HIDE DEF valid, frontier
  <1>5. \A c \in valid : \E d \in frontier : NotWorse(d, c)
    BY <1>3, <1>4, FrontierCovers
  <1>6. /\ DOMAIN budget' = DOMAIN budget /\ budget'.frontier = valid /\ budget'.chosen = primary
        /\ budget'.chain = frontier \ {primary} /\ budget'.target = target /\ budget'.on = budget.on
        /\ budget'.candidates = budget.candidates
    BY <1>2 DEF SoundRoute
  <1>7. SoundRoute(budget')
    BY <1>6 DEF SoundRoute
  <1>8. ASSUME NEW c \in valid PROVE ~Better(c, primary, target)
    <2> SUFFICES ASSUME Better(c, primary, target) PROVE FALSE
      OBVIOUS
    <2>1. PICK d \in frontier : NotWorse(d, c)
      BY <1>5
    <2>2. /\ c.cost \in Int /\ c.latency \in Int /\ c.quality \in Int
          /\ d.cost \in Int /\ d.latency \in Int /\ d.quality \in Int
          /\ primary.cost \in Int /\ primary.latency \in Int /\ primary.quality \in Int
      <3>1. \A x \in Candidate : x.cost \in Int /\ x.latency \in Int /\ x.quality \in Int
        BY OptimizerAssumption DEF Candidate
      <3>2. d \in Candidate /\ primary \in Candidate /\ c \in Candidate
        BY <1>3, <1>4
      <3> QED
        BY <3>1, <3>2
    <2>3. Better(d, primary, target)
      BY <2>1, <2>2 DEF Better, NotWorse
    <2> QED
      BY <1>2, <2>3
  <1>9. RecommendationIsBest'
    <2> SUFFICES ASSUME NEW c \in valid
                 PROVE  /\ ~Better(c, primary, target) /\ ~Dominates(c, primary)
                        /\ \A d \in frontier \ {primary} : ~Dominates(c, d)
                        /\ \E d \in {primary} \cup (frontier \ {primary}) : NotWorse(d, c)
      BY <1>6 DEF RecommendationIsBest
    <2>1. \A d \in frontier : ~Dominates(c, d)
      BY <1>4
    <2>2. primary \in frontier
      BY <1>2
    <2>3. PICK d \in frontier : NotWorse(d, c)
      BY <1>5
    <2> QED
      BY <1>8, <2>1, <2>2, <2>3
  <1> QED
    BY <1>7, <1>9

\* There are finitely many candidates.
LEMMA CandidatesAreFinite == IsFiniteSet(Candidate)
  <1> DEFINE triples == (Ranks \X Ranks) \X Ranks
             made == [x \in triples |-> [cost |-> x[1][1], latency |-> x[1][2], quality |-> x[2]]]
  <1>1. IsFiniteSet(triples)
    BY FS_Product, OptimizerAssumption
  <1>2. IsFiniteSet({made[x] : x \in DOMAIN made})
    BY <1>1, ImageIsFinite
  <1>3. ASSUME NEW c \in Candidate PROVE c \in {made[x] : x \in DOMAIN made}
    <2> DEFINE t == <<<<c.cost, c.latency>>, c.quality>>
    <2>1. t \in DOMAIN made
      BY DEF Candidate
    <2>2. made[t] = c
      BY <2>1 DEF Candidate
    <2> QED
      BY <2>1, <2>2
  <1> HIDE DEF made
  <1>4. Candidate \subseteq {made[x] : x \in DOMAIN made}
    BY <1>3
  <1> QED
    BY <1>2, <1>4, FS_Subset

\* A profile is registered with nothing used and nothing out, a scenario is
\* routed to nobody yet.
LEMMA OptimizerStarts == OptimizerInit => OptimizerInv
  <1> SUFFICES ASSUME OptimizerInit PROVE OptimizerInv
    OBVIOUS
  <1>1. ASSUME NEW allowBurst \in BOOLEAN, budget = [Registered EXCEPT !.on = <<"budget", allowBurst>>]
        PROVE  OptimizerInv
    <2>1. /\ DOMAIN budget = BudgetFields /\ budget.on = <<"budget", allowBurst>> /\ budget.now = 0
          /\ budget.used = 0 /\ budget.burstUsed = 0 /\ budget.lastReset = 0 /\ budget.rate = MaxRate
          /\ budget.active = 0 /\ budget.breaker = "closed" /\ budget.resetAt = 0 /\ budget.failures = 0
          /\ budget.successes = 0 /\ budget.slots = <<>> /\ budget.excess = 0
      BY <1>1 DEF Registered, BudgetFields
    <2>2. SoundCeilings(budget)
      BY <2>1, BudgetConstants DEF SoundCeilings
    <2>3. SumOf(<<>>) = 0 /\ <<>> \in Seq(1..MaxEstimate) /\ Len(<<>>) = 0
      <3>1. <<>> \in Seq(Int) /\ Len(<<>>) = 0 /\ <<>> \in Seq(1..MaxEstimate)
        BY EmptySeq
      <3> QED
        BY <3>1, PrefixSum DEF SumOf
    <2>4. SoundSlots(budget)
      <3>1. Most(budget.on) \in Nat
        BY <2>1, MostIsInt
      <3>2. MaxSlots \in Nat
        BY BudgetConstants
      <3> QED
        BY <2>1, <2>3, <3>1, <3>2 DEF SoundSlots
    <2>5. budget.on[1] = "budget" /\ budget.on[2] \in BOOLEAN
      BY <2>1
    <2> QED
      BY <2>1, <2>2, <2>4, <2>5 DEF OptimizerInv, SoundBudget
  <1>2. ASSUME NEW n \in 1..3, NEW candidates \in kSubset(n, Candidate),
               budget = [on |-> <<"route", FALSE>>, candidates |-> candidates, chosen |-> None,
                         frontier |-> {}, chain |-> {}, target |-> None]
        PROVE  OptimizerInv
    <2>1. candidates \subseteq Candidate /\ IsFiniteSet(candidates)
      BY CandidatesAreFinite, FS_Subset DEF kSubset
    <2> HIDE DEF Candidate
    <2>2. SoundRoute(budget)
      BY <1>2, <2>1 DEF SoundRoute
    <2>3. RecommendationIsBest
      BY <1>2 DEF RecommendationIsBest
    <2> QED
      BY <2>2, <2>3 DEF OptimizerInv
  <1> QED
    BY <1>1, <1>2 DEF OptimizerInit

\* Every step of the budget controller and of the router keeps the invariant,
\* and an open breaker waits.
LEMMA OptimizerKeeps == OptimizerInv /\ OptimizerNext => OptimizerInv' /\ BreakerWaits
  <1> SUFFICES ASSUME OptimizerInv, OptimizerNext PROVE OptimizerInv' /\ BreakerWaits
    OBVIOUS
  <1>1. CASE ~Budgeting
    <2>1. SoundRoute(budget) /\ OptimizeScenario
      BY <1>1 DEF OptimizerInv, SoundBudget, Budgeting, OptimizerNext, Tick, RecordThrottleEvent,
                  GetUsageSnapshot, Request, ReleaseSlot
    <2> QED
      BY <1>1, <2>1, RouteKeeps DEF OptimizerInv, BreakerWaits
  <1>2. CASE Budgeting
    <2>1. SoundBudget(budget)
      <3>1. ASSUME SoundRoute(budget) PROVE FALSE
        <4>1. budget.on = <<"route", FALSE>>
          BY <3>1 DEF SoundRoute
        <4>2. budget.on[1] = "route"
          BY <4>1
        <4>3. "route" # "budget"
          OBVIOUS
        <4> QED
          BY <1>2, <4>2, <4>3 DEF Budgeting
      <3> QED
        BY <3>1 DEF OptimizerInv
    <2> SUFFICES /\ SoundBudget(budget')
                 /\ budget.breaker = "open" =>
                      /\ budget'.breaker # "closed"
                      /\ budget'.breaker = "half_open" => budget.now >= budget.resetAt
      BY DEF OptimizerInv, BreakerWaits
    <2>2. DOMAIN budget = BudgetFields /\ SoundCeilings(budget)
      BY <2>1 DEF SoundBudget
    <2>3. CASE Tick
      <3>1. budget' = [budget EXCEPT !.now = budget.now + 1]
        BY <2>3 DEF Tick
      <3>2. /\ DOMAIN budget' = BudgetFields /\ budget'.now = budget.now + 1
            /\ budget'.on = budget.on /\ budget'.used = budget.used /\ budget'.burstUsed = budget.burstUsed
            /\ budget'.rate = budget.rate /\ budget'.lastReset = budget.lastReset
            /\ budget'.failures = budget.failures /\ budget'.successes = budget.successes
            /\ budget'.resetAt = budget.resetAt /\ budget'.breaker = budget.breaker
            /\ budget'.slots = budget.slots /\ budget'.active = budget.active
            /\ budget'.excess = budget.excess
        BY <2>2, <3>1 DEF BudgetFields
      <3>3. SoundCeilings(budget')
        BY <2>2, <3>2, BudgetConstants DEF SoundCeilings
      <3>4. SoundSlots(budget')
        BY <2>1, <3>2, SlotsStay
      <3> QED
        BY <2>1, <3>2, <3>3, <3>4 DEF SoundBudget
    <2>4. CASE RecordThrottleEvent
      <3>1. budget' = ScaledDown(budget)
        BY <2>4 DEF RecordThrottleEvent
      <3>2. SoundBudget(budget') /\ budget'.breaker = budget.breaker
        BY <2>1, <3>1, ScalingKeeps DEF BudgetFields
      <3> QED
        BY <3>2
    <2>5. CASE GetUsageSnapshot
      <3>1. budget' = Reset(budget)
        BY <2>5 DEF GetUsageSnapshot
      <3>2. SoundBudget(budget') /\ budget'.breaker = budget.breaker
        BY <2>1, <3>1, ResetKeeps DEF BudgetFields
      <3> QED
        BY <3>2
    <2>6. CASE OptimizeScenario
      BY <1>2, <2>6 DEF OptimizeScenario
    <2>7. ASSUME NEW estimate \in 1..MaxEstimate, Request(estimate)
          PROVE  /\ SoundBudget(budget')
                 /\ budget.breaker = "open" =>
                      /\ budget'.breaker # "closed"
                      /\ budget'.breaker = "half_open" => budget.now >= budget.resetAt
      <3> DEFINE a == Asked(budget, estimate)
                 r == [a EXCEPT !.active = @ + 1, !.slots = Append(@, estimate)]
      <3>1. budget' = IF Admits(a, estimate) THEN r ELSE a
        BY <2>7 DEF Request
      <3>2. /\ SoundBudget(a) /\ a.on = budget.on
            /\ a.breaker \in {budget.breaker, "half_open"}
            /\ budget.breaker = "open" /\ a.breaker = "half_open" => budget.now >= budget.resetAt
        BY <2>1, AskedKeeps
      <3> HIDE DEF a
      <3>3. CASE Admits(a, estimate)
        <4>1. SoundBudget(r) /\ r.breaker = a.breaker
          BY <3>2, <3>3, AdmittedKeeps
        <4> HIDE DEF r
        <4> QED
          BY <3>1, <3>2, <3>3, <4>1
      <3>4. CASE ~Admits(a, estimate)
        <4> HIDE DEF r
        <4> QED
          BY <3>1, <3>2, <3>4
      <3> QED
        BY <3>3, <3>4
    <2>8. ASSUME NEW i \in 1..MaxSlots, NEW tokens \in 0..MaxReported, NEW isError \in BOOLEAN,
                 ReleaseSlot(i, tokens, isError)
          PROVE  /\ SoundBudget(budget')
                 /\ budget.breaker = "open" =>
                      /\ budget'.breaker # "closed"
                      /\ budget'.breaker = "half_open" => budget.now >= budget.resetAt
      <3>1. SoundBudget(budget') /\ (budget.breaker = "open" => budget'.breaker = "open")
        BY <2>1, <2>8, ReleaseKeeps
      <3> QED
        BY <3>1
    <2> QED
      BY <2>3, <2>4, <2>5, <2>6, <2>7, <2>8 DEF OptimizerNext
  <1> QED
    BY <1>1, <1>2

\* What a sound budget keeps to.
LEMMA OptimizerHolds == OptimizerInv => OvershootIsBounded /\ CeilingsHold /\ RecommendationIsBest
  <1> SUFFICES ASSUME OptimizerInv PROVE OvershootIsBounded /\ CeilingsHold /\ RecommendationIsBest
    OBVIOUS
  <1>1. CASE SoundBudget(budget)
    <2>1. Budgeting
      BY <1>1 DEF SoundBudget, Budgeting
    <2>2. CeilingsHold /\ RecommendationIsBest
      BY <1>1, <2>1 DEF SoundBudget, SoundCeilings, CeilingsHold, RecommendationIsBest
    <2>3. /\ budget.slots \in Seq(1..MaxEstimate) /\ Len(budget.slots) = budget.active
          /\ budget.active <= MaxSlots
          /\ budget.used + SumOf(budget.slots) <= Most(budget.on) + budget.excess
      BY <1>1 DEF SoundBudget, SoundSlots
    <2>4. DOMAIN budget.slots = 1..Len(budget.slots)
      BY <2>3, LenProperties
    <2>5. SumFunction(budget.slots) = SumOf(budget.slots)
      <3>1. SumFunction(budget.slots) = Total(budget.slots, DOMAIN budget.slots)
        BY DEF SumFunction, SumFunctionOnSet, FoldFunctionOnSet, Total, MapThenSumSet
      <3> QED
        BY <2>4, <3>1 DEF SumOf
    <2>6. Most(budget.on) = Limit + (IF AllowBurst THEN Burst ELSE 0) + (MaxSlots - 1) * MaxEstimate
      BY DEF Most, Allowance, AllowBurst
    <2> QED
      BY <2>2, <2>3, <2>5, <2>6 DEF OvershootIsBounded
  <1>2. CASE SoundRoute(budget) /\ RecommendationIsBest
    BY <1>2 DEF SoundRoute, OvershootIsBounded, CeilingsHold, Budgeting
  <1> QED
    BY <1>1, <1>2 DEF OptimizerInv
-----------------------------------------------------------------------------
(* The terms of a request                                                  *)

\* A model whose limits are in order.
Thinks(m) ==
  /\ m.answer \in Nat
  /\ m.max # None => /\ m.min \in Nat /\ m.max \in Nat /\ m.default \in Nat
                     /\ m.min <= m.default /\ m.default <= m.max

TermsInv ==
  \/ /\ terms.on = "thinking" /\ DOMAIN terms = {"on", "model", "asked", "options"}
     /\ terms.model # None => Thinks(terms.model)
     /\ terms.model = None => terms.options = None
     /\ ThinkingFits
  \/ /\ terms.on = "cost" /\ DOMAIN terms = {"on", "usage", "cost"}
     /\ terms.usage \in Usages /\ ChargedOnce
  \/ /\ terms.on = "adapter" /\ DOMAIN terms = {"on", "provider", "mode", "key", "env", "adapter"}
     /\ terms.key \in BOOLEAN /\ terms.env \in BOOLEAN
     /\ terms.provider \in {"anthropic", "google", "openai", "ollama", "custom"}
     /\ AdapterIsEntitled
  \/ /\ terms.on = "error" /\ DOMAIN terms = {"on", "provider", "status", "says", "error"}
     /\ terms.provider \in {"anthropic", "google", "openai"}
     /\ terms.status \in {400, 401, 403, 404, 408, 429, 500, 504}
     /\ AdapterIsEntitled

\* What an effort or an explicit budget comes to lies within the model's limits
\* (resolveBudgetFromEffort).
LEMMA ResolvedFits ==
    ASSUME NEW m, Thinks(m), NEW level \in Efforts, NEW explicit \in Absent
    PROVE  LET chosen == ResolveBudgetFromEffort(m, level, explicit)
           IN /\ chosen \in Nat
              /\ m.max # None => chosen <= m.max /\ (level = "none" \/ chosen >= m.min)
  <1>1. CASE explicit # None /\ explicit > 0
    <2>1. explicit \in Nat
      BY <1>1, TermsAssumption DEF Absent
    <2>2. ResolveBudgetFromEffort(m, level, explicit) = ExplicitBudget(m, explicit)
      BY <1>1 DEF ResolveBudgetFromEffort
    <2> QED
      BY <2>1, <2>2 DEF ExplicitBudget, Clamped, Larger, Smaller, Thinks
  <1>2. CASE ~(explicit # None /\ explicit > 0) /\ m.max = None
    <2>1. ResolveBudgetFromEffort(m, level, explicit)
            = [none |-> 0, low |-> 2048, medium |-> 8192, high |-> 16384, max |-> 32768][level]
      BY <1>2 DEF ResolveBudgetFromEffort
    <2> QED
      BY <1>2, <2>1 DEF Efforts
  <1>3. CASE ~(explicit # None /\ explicit > 0) /\ m.max # None
    <2> DEFINE low == Larger(m.min, Share(m, 15))
               medium == Larger(m.min, m.default)
               high == Larger(m.min, Share(m, 65))
    <2>1. ResolveBudgetFromEffort(m, level, explicit)
            = [none |-> 0, low |-> low, medium |-> medium, high |-> high, max |-> m.max][level]
      BY <1>3 DEF ResolveBudgetFromEffort
    <2>2. m.min \in Nat /\ m.max \in Nat /\ m.default \in Nat /\ m.min <= m.default /\ m.default <= m.max
      BY <1>3 DEF Thinks
    <2>3. low \in Nat /\ m.min <= low /\ low <= m.max
      BY <2>2 DEF Larger, Share
    <2>4. high \in Nat /\ m.min <= high /\ high <= m.max
      BY <2>2 DEF Larger, Share
    <2>5. medium \in Nat /\ m.min <= medium /\ medium <= m.max
      BY <2>2 DEF Larger
    <2> HIDE DEF low, medium, high
    <2> QED
      BY <2>1, <2>2, <2>3, <2>4, <2>5 DEF Efforts
  <1> QED
    BY <1>1, <1>2, <1>3

\* The terms of a request with thinking fit (applyThinkingToGenerateOptions).
LEMMA ThinkingKeeps ==
    ASSUME NEW m, Thinks(m), NEW level \in Efforts, NEW explicit \in Absent, NEW limit \in Absent,
           NEW provider, NEW chosen,
           chosen = PayloadBudget(m, provider, level, ResolveBudgetFromEffort(m, level, explicit)),
           NEW answer, answer = AnswerLimit(m, limit, chosen)
    PROVE  /\ chosen > 0 /\ m.max # None => chosen <= Larger(m.max, Floor) /\ chosen >= m.min
           /\ level = "none" => chosen = 0 /\ answer = limit
           /\ chosen > 0 => answer >= chosen + Headroom \/ answer = m.answer
           /\ limit # None /\ m.answer >= limit => answer >= limit
           /\ chosen > 0 => ThinkingValid(m, level, explicit)
  <1> DEFINE resolved == ResolveBudgetFromEffort(m, level, explicit)
  <1>1. /\ resolved \in Nat
        /\ m.max # None => resolved <= m.max /\ (level = "none" \/ resolved >= m.min)
    BY ResolvedFits
  <1>2. chosen = PayloadBudget(m, provider, level, resolved)
    OBVIOUS
  <1>3. ThinkingValid(m, level, explicit) <=> (m.max = None \/ (resolved <= m.max /\ (resolved >= m.min \/ level = "none")))
    BY DEF ThinkingValid
  <1>4. /\ m.answer \in Nat /\ Headroom \in Nat /\ Floor \in Nat /\ (limit # None => limit \in Nat)
        /\ (m.max # None => m.min \in Nat /\ m.max \in Nat)
    BY TermsAssumption DEF Thinks, Absent
  <1> HIDE DEF resolved
  <1>5. chosen \in Nat
    BY <1>1, <1>2, <1>4 DEF PayloadBudget, Larger
  <1>6. chosen > 0 => level # "none" /\ (chosen = resolved \/ chosen = Larger(Floor, resolved))
    BY <1>1, <1>2 DEF PayloadBudget
  <1>7. chosen > 0 /\ m.max # None => chosen <= Larger(m.max, Floor) /\ chosen >= m.min
    BY <1>1, <1>4, <1>6 DEF Larger
  <1>8. level = "none" => chosen = 0 /\ answer = limit
    BY <1>2 DEF PayloadBudget, AnswerLimit
  <1>9. /\ chosen > 0 => answer >= chosen + Headroom \/ answer = m.answer
        /\ limit # None /\ m.answer >= limit => answer >= limit
    BY <1>4, <1>5 DEF AnswerLimit, Smaller
  <1>10. chosen > 0 => ThinkingValid(m, level, explicit)
    BY <1>1, <1>3, <1>6
  <1> QED
    BY <1>7, <1>8, <1>9, <1>10

\* What an error is taken for: the first test that holds (parseAnthropicError
\* and the others).
LEMMA ClassifiedIs ==
    ASSUME NEW provider, NEW status \in Int, NEW says
    PROVE  LET error == Classified(provider, status, says)
           IN /\ status \in {401, 403} => error = "auth"
              /\ Retryable(error) => status >= 408 \/ says \in {"limit", "timeout"}
  <1> DEFINE auth == status \in {401, 403} \/ (provider # "openai" /\ says = "auth")
             limit == status = 429 \/ (provider # "openai" /\ says = "limit")
             context == status = 400 /\ says = "context"
             timeout == status \in {408, 504} \/ (provider = "anthropic" /\ says = "timeout")
             fatal == status >= 500
             tests == <<<<"auth", auth>>, <<"limit", limit>>, <<"context", context>>,
                        <<"timeout", timeout>>, <<"transient", fatal>>>>
             holding == {i \in DOMAIN tests : tests[i][2]}
  <1>1. Classified(provider, status, says) = IF holding = {} THEN "other" ELSE tests[Min(holding)][1]
    BY DEF Classified, Tests
  <1>2. /\ DOMAIN tests = 1..5
        /\ tests[1] = <<"auth", auth>> /\ tests[2] = <<"limit", limit>> /\ tests[3] = <<"context", context>>
        /\ tests[4] = <<"timeout", timeout>> /\ tests[5] = <<"transient", fatal>>
    <2> HIDE DEF auth, limit, context, timeout, fatal
    <2> QED
      OBVIOUS
  <1> HIDE DEF tests, auth, limit, context, timeout, fatal
  <1>3. holding # {} => Min(holding) \in holding /\ \A i \in holding : Min(holding) <= i
    <2> SUFFICES ASSUME holding # {} PROVE Min(holding) \in holding /\ \A i \in holding : Min(holding) <= i
      OBVIOUS
    <2>1. holding \subseteq Nat
      BY <1>2
    <2> HIDE DEF holding
    <2>2. \E x \in holding : \A y \in holding : x <= y
      BY <2>1, LeastOf
    <2> QED
      BY <2>2 DEF Min
  <1> DEFINE first == Min(holding)
  <1>4. holding # {} => first \in 1..5 /\ tests[first][2]
    BY <1>2, <1>3
  <1>5. auth => holding # {} /\ first = 1
    <2> SUFFICES ASSUME auth PROVE holding # {} /\ first = 1
      OBVIOUS
    <2>1. 1 \in DOMAIN tests /\ tests[1][2]
      BY <1>2
    <2>2. 1 \in holding
      BY <2>1
    <2> QED
      BY <1>3, <1>4, <2>2
  <1> HIDE DEF holding, first
  <1>6. status \in {401, 403} => Classified(provider, status, says) = "auth"
    BY <1>1, <1>2, <1>5 DEF auth, first
  <1>7. ASSUME holding # {}
        PROVE  LET error == tests[first][1]
               IN error \in {"limit", "timeout", "transient"} => limit \/ timeout \/ fatal
    <2>1. first \in {1, 2, 3, 4, 5} /\ tests[first][2]
      BY <1>4, <1>7
    <2>2. CASE first = 1
      BY <1>2, <2>2
    <2>3. CASE first = 2
      BY <1>2, <2>1, <2>3
    <2>4. CASE first = 3
      BY <1>2, <2>4
    <2>5. CASE first = 4
      BY <1>2, <2>1, <2>5
    <2>6. CASE first = 5
      BY <1>2, <2>1, <2>6
    <2> QED
      BY <2>1, <2>2, <2>3, <2>4, <2>5, <2>6
  <1>8. Retryable(Classified(provider, status, says)) => limit \/ timeout \/ fatal
    BY <1>1, <1>7 DEF Retryable, first
  <1>9. limit \/ timeout \/ fatal => status >= 408 \/ says \in {"limit", "timeout"}
    BY DEF limit, timeout, fatal
  <1> QED
    BY <1>6, <1>8, <1>9

\* The terms of a request begin undecided.
LEMMA TermsStarts == TermsInit => TermsInv
  <1> SUFFICES ASSUME TermsInit PROVE TermsInv
    OBVIOUS
  <1>1. ASSUME NEW model \in {None} \cup Models,
               terms = [on |-> "thinking", model |-> model, asked |-> None, options |-> None]
        PROVE  TermsInv
    <2>1. model # None => Thinks(model)
      BY TermsAssumption DEF Thinks
    <2> QED
      BY <1>1, <2>1 DEF TermsInv, ThinkingFits
  <1>2. ASSUME NEW usage \in Usages, terms = [on |-> "cost", usage |-> usage, cost |-> None]
        PROVE  TermsInv
    BY <1>2 DEF TermsInv, ChargedOnce
  <1>3. ASSUME NEW provider \in {"anthropic", "google", "openai", "ollama", "custom"}, NEW mode,
               NEW key \in BOOLEAN, NEW env \in BOOLEAN,
               terms = [on |-> "adapter", provider |-> provider, mode |-> mode, key |-> key, env |-> env,
                        adapter |-> None]
        PROVE  TermsInv
    BY <1>3 DEF TermsInv, AdapterIsEntitled
  <1>4. ASSUME NEW provider \in {"anthropic", "google", "openai"},
               NEW status \in {400, 401, 403, 404, 408, 429, 500, 504}, NEW says,
               terms = [on |-> "error", provider |-> provider, status |-> status, says |-> says, error |-> None]
        PROVE  TermsInv
    BY <1>4 DEF TermsInv, AdapterIsEntitled
  <1> QED
    BY <1>1, <1>2, <1>3, <1>4 DEF TermsInit

\* Every step that decides them.
LEMMA TermsKeeps == TermsInv /\ TermsNext => TermsInv'
  <1> SUFFICES ASSUME TermsInv, TermsNext PROVE TermsInv'
    OBVIOUS
  <1>1. CASE MeetModel
    <2>1. PICK provider \in Callers : /\ terms.on = "thinking" /\ terms.model = None
                                      /\ terms' = [terms EXCEPT !.model = Created(provider)]
      BY <1>1 DEF MeetModel
    <2>2. Thinks(Created(provider))
      <3> DEFINE m == Created(provider)
      <3>1. m.answer = 8192 /\ m.min = 1024 /\ m.max = 32000 /\ m.default = 8000
        BY DEF Created
      <3> HIDE DEF m
      <3>2. Thinks(m)
        BY <3>1 DEF Thinks
      <3> QED
        BY <3>2 DEF m
    <2> DEFINE m == Created(provider)
    <2>3. terms' = [terms EXCEPT !.model = m] /\ Thinks(m)
      BY <2>1, <2>2
    <2> HIDE DEF m
    <2>4. DOMAIN terms = {"on", "model", "asked", "options"} /\ terms.options = None
      BY <2>1 DEF TermsInv
    <2>5. /\ DOMAIN terms' = {"on", "model", "asked", "options"} /\ terms'.on = "thinking"
          /\ terms'.model = m /\ terms'.options = None
      BY <2>1, <2>3, <2>4
    <2> QED
      BY <2>3, <2>5 DEF TermsInv, ThinkingFits
  <1>2. CASE ApplyThinking
    <2> DEFINE m == terms.model
    <2>1. PICK level \in Efforts, explicit \in Absent, limit \in Absent, provider \in Callers :
            LET chosen == PayloadBudget(m, provider, level, ResolveBudgetFromEffort(m, level, explicit))
            IN terms' = [terms EXCEPT
                 !.asked = [level |-> level, explicit |-> explicit, limit |-> limit, provider |-> provider],
                 !.options = [budget |-> chosen, limit |-> AnswerLimit(m, limit, chosen)]]
      BY <1>2 DEF ApplyThinking
    <2>2. terms.on = "thinking" /\ m # None
      BY <1>2 DEF ApplyThinking
    <2>3. DOMAIN terms = {"on", "model", "asked", "options"} /\ Thinks(m)
      BY <2>2 DEF TermsInv
    <2> DEFINE chosen == PayloadBudget(m, provider, level, ResolveBudgetFromEffort(m, level, explicit))
               answer == AnswerLimit(m, limit, chosen)
               asked == [level |-> level, explicit |-> explicit, limit |-> limit, provider |-> provider]
               options == [budget |-> chosen, limit |-> answer]
    <2>4. terms' = [terms EXCEPT !.asked = asked, !.options = options]
      BY <2>1
    <2>5. /\ chosen > 0 /\ m.max # None => chosen <= Larger(m.max, Floor) /\ chosen >= m.min
          /\ level = "none" => chosen = 0 /\ answer = limit
          /\ chosen > 0 => answer >= chosen + Headroom \/ answer = m.answer
          /\ limit # None /\ m.answer >= limit => answer >= limit
          /\ chosen > 0 => ThinkingValid(m, level, explicit)
      <3>1. chosen = PayloadBudget(m, provider, level, ResolveBudgetFromEffort(m, level, explicit))
            /\ answer = AnswerLimit(m, limit, chosen)
        OBVIOUS
      <3> HIDE DEF chosen, answer, m
      <3> QED
        BY <2>3, <3>1, ThinkingKeeps
    <2> HIDE DEF chosen, answer
    <2>6. /\ asked.level = level /\ asked.explicit = explicit /\ asked.limit = limit
          /\ options.budget = chosen /\ options.limit = answer
      OBVIOUS
    <2> HIDE DEF asked, options
    <2>7. /\ DOMAIN terms' = {"on", "model", "asked", "options"} /\ terms'.on = "thinking"
          /\ terms'.model = m /\ terms'.asked = asked /\ terms'.options = options
      BY <2>2, <2>3, <2>4
    <2>8. ThinkingFits'
      <3> HIDE DEF m
      <3> QED
        BY <2>5, <2>6, <2>7 DEF ThinkingFits
    <2> QED
      BY <2>2, <2>3, <2>7, <2>8 DEF TermsInv
  <1>3. CASE CalculateCost
    <2> DEFINE u == terms.usage
               cost == [uncached |-> Larger(0, u.input - u.write - u.read), write |-> u.write, read |-> u.read,
                        standard |-> Larger(0, u.output - u.reasoning), reasoning |-> u.reasoning]
    <2>1. terms.on = "cost" /\ terms' = [terms EXCEPT !.cost = cost]
      BY <1>3 DEF CalculateCost
    <2>2. DOMAIN terms = {"on", "usage", "cost"} /\ u \in Usages
      BY <2>1 DEF TermsInv
    <2>3. u.input \in Nat /\ u.write \in Nat /\ u.read \in Nat /\ u.output \in Nat /\ u.reasoning \in Nat
      BY <2>2, TermsAssumption DEF Usages
    <2>4. /\ cost.uncached = Larger(0, u.input - u.write - u.read) /\ cost.write = u.write /\ cost.read = u.read
          /\ cost.standard = Larger(0, u.output - u.reasoning) /\ cost.reasoning = u.reasoning
      OBVIOUS
    <2> HIDE DEF cost
    <2>5. DOMAIN terms' = {"on", "usage", "cost"} /\ terms'.on = "cost" /\ terms'.usage = u /\ terms'.cost = cost
      BY <2>1, <2>2
    <2>6. ChargedOnce'
      <3> DEFINE i == u.input
                 w == u.write
                 r == u.read
                 o == u.output
                 e == u.reasoning
      <3>1. i \in Nat /\ w \in Nat /\ r \in Nat /\ o \in Nat /\ e \in Nat
        BY <2>3
      <3>2. /\ cost.uncached = Larger(0, i - w - r) /\ cost.write = w /\ cost.read = r
            /\ cost.standard = Larger(0, o - e) /\ cost.reasoning = e
        BY <2>4
      <3>3. ChargedOnce' <=>
              /\ cost.uncached >= 0 /\ cost.standard >= 0
              /\ w + r <= i /\ e <= o =>
                   cost.uncached + cost.write + cost.read + cost.standard + cost.reasoning = i + o
              /\ cost.uncached + cost.write + cost.read >= i /\ cost.standard + cost.reasoning >= o
           \/ cost = None
        BY <2>5 DEF ChargedOnce
      <3> HIDE DEF u, i, w, r, o, e
      <3> QED
        BY <3>1, <3>2, <3>3 DEF Larger
    <2> QED
      BY <2>2, <2>5, <2>6 DEF TermsInv
  <1>4. CASE CreateProviderAdapter
    <2> DEFINE adapter ==
          IF terms.mode # "live" THEN "mock"
          ELSE IF terms.provider = "custom" THEN "refused"
          ELSE IF terms.provider = "ollama"
            THEN IF terms.key THEN "refused" ELSE ServedBy("ollama")
          ELSE IF terms.key \/ terms.env THEN ServedBy(terms.provider) ELSE "refused"
    <2>1. terms.on = "adapter" /\ terms' = [terms EXCEPT !.adapter = adapter]
      BY <1>4 DEF CreateProviderAdapter
    <2>2. /\ DOMAIN terms = {"on", "provider", "mode", "key", "env", "adapter"}
          /\ terms.key \in BOOLEAN /\ terms.env \in BOOLEAN
          /\ terms.provider \in {"anthropic", "google", "openai", "ollama", "custom"}
      BY <2>1 DEF TermsInv
    <2>3. /\ (adapter = "mock") = (terms.mode # "live")
          /\ adapter \notin {"mock", "refused"} =>
               IF terms.provider = "ollama" THEN ~terms.key ELSE terms.key \/ terms.env
      BY <2>2 DEF ServedBy
    <2> HIDE DEF adapter
    <2>4. /\ DOMAIN terms' = {"on", "provider", "mode", "key", "env", "adapter"} /\ terms'.on = "adapter"
          /\ terms'.provider = terms.provider /\ terms'.mode = terms.mode /\ terms'.key = terms.key
          /\ terms'.env = terms.env /\ terms'.adapter = adapter
      BY <2>1, <2>2
    <2>5. AdapterIsEntitled'
      BY <2>3, <2>4 DEF AdapterIsEntitled
    <2> QED
      BY <2>2, <2>4, <2>5 DEF TermsInv
  <1>5. CASE ParseError
    <2> DEFINE error == Classified(terms.provider, terms.status, terms.says)
    <2>1. terms.on = "error" /\ terms' = [terms EXCEPT !.error = error]
      BY <1>5 DEF ParseError
    <2>2. /\ DOMAIN terms = {"on", "provider", "status", "says", "error"}
          /\ terms.provider \in {"anthropic", "google", "openai"}
          /\ terms.status \in {400, 401, 403, 404, 408, 429, 500, 504}
      BY <2>1 DEF TermsInv
    <2>3. /\ terms.status \in {401, 403} => error = "auth"
          /\ Retryable(error) => terms.status >= 408 \/ terms.says \in {"limit", "timeout"}
      <3>1. terms.status \in Int
        BY <2>2
      <3> QED
        BY <3>1, ClassifiedIs
    <2>4. terms.status \in {401, 403} => ~Retryable(error)
      BY <2>3 DEF Retryable
    <2> HIDE DEF error
    <2>5. /\ DOMAIN terms' = {"on", "provider", "status", "says", "error"} /\ terms'.on = "error"
          /\ terms'.provider = terms.provider /\ terms'.status = terms.status /\ terms'.says = terms.says
          /\ terms'.error = error
      BY <2>1, <2>2
    <2>6. AdapterIsEntitled'
      BY <2>3, <2>4, <2>5 DEF AdapterIsEntitled
    <2> QED
      BY <2>2, <2>5, <2>6 DEF TermsInv
  <1> QED
    BY <1>1, <1>2, <1>3, <1>4, <1>5 DEF TermsNext

\* Thinking fits, every token is charged once, an adapter is entitled.
LEMMA TermsHolds == TermsInv => ThinkingFits /\ ChargedOnce /\ AdapterIsEntitled
  BY DEF TermsInv, ThinkingFits, ChargedOnce, AdapterIsEntitled
-----------------------------------------------------------------------------
(* The evaluation of a run                                                 *)

EvalFields ==
  {"phase", "checks", "results", "proc", "summary", "composite", "digest", "tampered", "evaluation",
   "judged"}

SummaryFields == {"status", "results", "digest", "passedCount", "total", "passed", "score"}

CompositeFields == {"status", "run", "judge", "config", "summary", "score", "passed"}

CheckResults ==
  [id : {1, 2}, weight : Weights, passed : BOOLEAN, score : Int, timely : BOOLEAN]

\* The checks under way: the next one is declared as long as one runs.
SoundChecks ==
  /\ eval.checks \in Seq(Checks) /\ eval.results \in Seq(CheckResults)
  /\ eval.proc \in {"none", "running", "killed"}
  /\ eval.proc # "none" => eval.phase = "checks" /\ Len(eval.results) < Len(eval.checks)
  /\ \A i \in DOMAIN eval.results : eval.results[i].passed => eval.results[i].timely

\* What a change of the stored summary leaves alone.
SoundSummary(s, results) ==
  /\ s = [x \in SummaryFields |-> s[x]]
  /\ s.status = "evaluated" => /\ s.digest = results /\ s.total = Len(results)
                               /\ s.passedCount = PassedCount(results)

SoundComposite(c) ==
  /\ DOMAIN c = CompositeFields
  /\ c.status = "evaluated" => c.judge \in {None} \cup (0..100)

EvaluationInv ==
  /\ DOMAIN eval = EvalFields
  /\ eval.phase \in {"checks", "composite", "bundle", "evidence", "judge", "judged"}
  /\ SoundChecks
  /\ eval.phase \in {"composite", "bundle", "evidence"} => SoundSummary(eval.summary, eval.results)
  /\ eval.phase \in {"bundle", "evidence"} => SoundComposite(eval.composite)
  /\ eval.phase # "evidence" => eval.evaluation = None
  /\ EvidenceIsEarned /\ JudgedIsPercentage

-----------------------------------------------------------------------------
(* The judge *)

\* A single score that is normalized is a percentage (normalizeJudgeScore).
LEMMA NormalizedIsPercentage ==
    ASSUME NEW raw \in Int
    PROVE  NormalizeJudgeScore(raw) \in 0..100
  <1>1. CASE raw > 5 /\ raw <= 100
    BY <1>1 DEF NormalizeJudgeScore
  <1>2. CASE ~(raw > 5 /\ raw <= 100)
    <2> DEFINE over == raw - 1
               most == Max({0, over})
               share == Min({4, most})
    <2>1. over \in Int /\ 0 \in Int /\ 4 \in Int
      OBVIOUS
    <2>2. most \in Int /\ most >= 0
      <3> HIDE DEF over
      <3>1. Max({0, over}) = IF 0 >= over THEN 0 ELSE over
        BY <2>1, OfTwo
      <3> QED
        BY <2>1, <3>1
    <2>3. share \in 0..4
      <3> HIDE DEF most
      <3>1. Min({4, most}) = IF 4 <= most THEN 4 ELSE most
        BY <2>1, <2>2, OfTwo
      <3> QED
        BY <2>2, <3>1
    <2>4. NormalizeJudgeScore(raw) = (200 * share + 4) \div (2 * 4)
      BY <1>2 DEF NormalizeJudgeScore, Percent
    <2> HIDE DEF share
    <2> QED
      BY <2>3, <2>4
  <1> QED
    BY <1>1, <1>2

\* Whatever items a judge's answer lists, the overall score is a percentage
\* (parseJudgeResponse).
LEMMA OverallIsPercentage ==
    ASSUME NEW items \in SeqOf(Items, 2)
    PROVE  OverallScore(items) \in 0..100
  <1> DEFINE scores == [i \in DOMAIN Rubrics |-> NormalizeJudgeScore(RawScoreOf(items, Rubrics[i]))]
  <1>1. DOMAIN Rubrics = 1..2 /\ Len(Rubrics) = 2
    BY DEF Rubrics
  <1>2. ASSUME NEW rubric PROVE RawScoreOf(items, rubric) \in Int
    <2> DEFINE matching == {i \in DOMAIN items : items[i].name = rubric.name
                                                 \/ items[i].category = rubric.category}
    <2>1. RawScoreOf(items, rubric) = IF matching = {} THEN 3 ELSE items[Min(matching)].score
      BY DEF RawScoreOf
    <2>2. PICK m \in 0..2 : items \in [1..m -> Items]
      BY DEF SeqOf
    <2>3. CASE matching = {}
      BY <2>1, <2>3
    <2>4. CASE matching # {}
      <3>1. matching \subseteq Nat /\ matching \subseteq DOMAIN items
        BY <2>2
      <3> HIDE DEF matching
      <3>2. \E x \in matching : \A y \in matching : x <= y
        BY <2>4, <3>1, LeastOf
      <3>3. Min(matching) \in matching
        BY <3>2 DEF Min
      <3>4. items[Min(matching)] \in Items
        BY <2>2, <3>1, <3>3
      <3>5. items[Min(matching)].score \in RawScores
        BY <3>4 DEF Items
      <3> QED
        BY <2>1, <2>4, <3>5, EvaluationAssumption
    <2> QED
      BY <2>3, <2>4
  <1>3. \A i \in 1..2 : NormalizeJudgeScore(RawScoreOf(items, Rubrics[i])) \in 0..100
    BY <1>2, NormalizedIsPercentage
  <1>4. scores \in Seq(0..100) /\ Len(scores) = 2 /\ DOMAIN scores = 1..2
    <2>1. scores \in [1..2 -> 0..100]
      BY <1>1, <1>3
    <2> HIDE DEF scores
    <2>2. scores \in Seq(0..100)
      BY <2>1, SeqDef
    <2>3. DOMAIN scores = 1..2
      BY <2>1
    <2> QED
      BY <2>2, <2>3, LenProperties
  <1>5. OverallScore(items) = Percent(SumFunction(scores), 100 * 2)
    BY <1>1 DEF OverallScore
  <1> HIDE DEF scores
  <1>6. SumFunction(scores) = SumOf(scores)
    <2>1. SumFunction(scores) = Total(scores, DOMAIN scores)
      BY DEF SumFunction, SumFunctionOnSet, FoldFunctionOnSet, Total, MapThenSumSet
    <2> QED
      BY <1>4, <2>1 DEF SumOf
  <1>7. SumOf(scores) \in Nat /\ SumOf(scores) <= 2 * 100
    <2>1. SumOf(scores) \in Nat /\ SumOf(scores) <= Len(scores) * 100
      BY <1>4, SumOfBounded
    <2> QED
      BY <1>4, <2>1
  <1> DEFINE sum == SumOf(scores)
  <1>8. OverallScore(items) = (200 * sum + 200) \div 400
    BY <1>5, <1>6, <1>7 DEF Percent
  <1>9. sum \in 0..200
    BY <1>7
  <1> HIDE DEF sum
  <1> QED
    BY <1>8, <1>9
-----------------------------------------------------------------------------
(* Results and their evidence *)

\* A check that settles adds its result, and none that was killed has passed
\* (executeCommand).
LEMMA SettledKeeps ==
    ASSUME EvaluationInv, eval.phase = "checks", Len(eval.results) < Len(eval.checks),
           NEW passed \in BOOLEAN, NEW score \in Int, NEW timely \in BOOLEAN, passed => timely,
           eval' = Settled(passed, score, timely)
    PROVE  EvaluationInv'
  <1> DEFINE r == Result(NextCheck, passed, score, timely)
             results == Append(eval.results, r)
  <1>1. /\ DOMAIN eval = EvalFields /\ eval.checks \in Seq(Checks) /\ eval.results \in Seq(CheckResults)
        /\ eval.evaluation = None /\ eval.judged \in 0..100
        /\ \A i \in DOMAIN eval.results : eval.results[i].passed => eval.results[i].timely
    BY DEF EvaluationInv, SoundChecks, JudgedIsPercentage
  <1>2. NextCheck \in Checks
    <2>1. Len(eval.results) \in Nat /\ Len(eval.checks) \in Nat
      BY <1>1, LenProperties
    <2>2. Len(eval.results) + 1 \in 1..Len(eval.checks)
      BY <2>1
    <2> QED
      BY <1>1, <2>2, ElementOfSeq DEF NextCheck
  <1>3. r \in CheckResults /\ (r.passed => r.timely)
    <2>1. NextCheck.id \in {1, 2} /\ NextCheck.weight \in Weights
      BY <1>2 DEF Checks
    <2>2. r \in CheckResults
      BY <2>1 DEF Result, CheckResults
    <2>3. r.passed = passed /\ r.timely = timely
      BY DEF Result
    <2> QED
      BY <2>2, <2>3
  <1> HIDE DEF r
  <1>4. /\ results \in Seq(CheckResults) /\ Len(results) = Len(eval.results) + 1
        /\ \A i \in 1..Len(eval.results) : results[i] = eval.results[i]
        /\ results[Len(eval.results) + 1] = r
    BY <1>1, <1>3, AppendProperties
  <1>5. DOMAIN results = 1..(Len(eval.results) + 1) /\ DOMAIN eval.results = 1..Len(eval.results)
        /\ Len(eval.results) \in Nat
    BY <1>1, <1>4, LenProperties
  <1>6. eval' = [eval EXCEPT !.proc = "none", !.results = results]
    BY DEF Settled, r
  <1> HIDE DEF results
  <1>7. \A i \in DOMAIN results : results[i].passed => results[i].timely
    BY <1>1, <1>3, <1>4, <1>5
  <1>8. /\ DOMAIN eval' = EvalFields /\ eval'.proc = "none" /\ eval'.results = results
        /\ eval'.phase = "checks" /\ eval'.checks = eval.checks /\ eval'.evaluation = None
        /\ eval'.judged = eval.judged
    BY <1>1, <1>6 DEF EvalFields
  <1>9. SoundChecks'
    BY <1>1, <1>4, <1>7, <1>8 DEF SoundChecks
  <1>10. EvidenceIsEarned' /\ JudgedIsPercentage'
    <2>1. None # "evaluated"
      BY EvaluationAssumption
    <2> QED
      BY <1>1, <1>7, <1>8, <2>1 DEF EvidenceIsEarned, JudgedIsPercentage
  <1> QED
    BY <1>8, <1>9, <1>10 DEF EvaluationInv

\* What the validation of a summary and of a verdict leaves: the summary of the
\* results, and the verdict on it (validateEvaluatedDeterministicSummary,
\* validComposite).
LEMMA ValidIsTrue ==
    ASSUME NEW results \in Seq(CheckResults), NEW s, SoundSummary(s, results), s.status = "evaluated", ValidSummary(s),
           NEW c, SoundComposite(c), c.status = "evaluated", ValidConfig(c.config), VerdictFollows(c, s)
    PROVE  LET truth == Composite(Summary("evaluated", results), c.judge, c.config)
           IN /\ s = Summary("evaluated", results)
              /\ c.score = truth.score /\ c.passed = truth.passed
              /\ c.passed /\ c.config.all => \A i \in DOMAIN results : results[i].passed
  <1> DEFINE truth == Composite(Summary("evaluated", results), c.judge, c.config)
  <1>1. /\ s.results = results /\ s.digest = results /\ s.total = Len(results)
        /\ s.passedCount = PassedCount(results) /\ s.passed = (PassedCount(results) = Len(results))
        /\ s.score = WeightedScore(results)
    BY DEF SoundSummary, ValidSummary
  <1>2. s = Summary("evaluated", results)
    <2> DEFINE t == Summary("evaluated", results)
    <2>1. /\ DOMAIN t = SummaryFields /\ t.status = "evaluated" /\ t.results = results /\ t.digest = results
          /\ t.passedCount = PassedCount(results) /\ t.total = Len(results)
          /\ t.passed = (PassedCount(results) = Len(results)) /\ t.score = WeightedScore(results)
          /\ t = [x \in SummaryFields |-> t[x]]
      BY DEF Summary, SummaryFields
    <2>2. s = [x \in SummaryFields |-> s[x]]
      BY DEF SoundSummary
    <2>3. s.status = t.status
      BY <2>1
    <2> HIDE DEF t
    <2>4. ASSUME NEW x \in SummaryFields PROVE s[x] = t[x]
      BY <1>1, <2>1, <2>3 DEF SummaryFields
    <2>5. s = t
      BY <2>1, <2>2, <2>4
    <2> QED
      BY <2>5 DEF t
  <1>3. /\ truth.score = CompositeScore(s, c.judge, c.config)
        /\ truth.passed = Passes(CompositeScore(s, c.judge, c.config), s, c.config)
    <2> DEFINE status == IF s.status # "evaluated" THEN s.status
                         ELSE IF ~ValidConfig(c.config) \/ ~ValidSummary(s) \/ c.judge \notin {None} \cup (0..100)
                           THEN "invalid" ELSE "evaluated"
               score == IF status = "evaluated" THEN CompositeScore(s, c.judge, c.config) ELSE 0
               passes == status = "evaluated" /\ Passes(score, s, c.config)
    <2>1. status = "evaluated"
      BY DEF SoundComposite
    <2>2. Composite(s, c.judge, c.config)
            = [status |-> status, run |-> "run", judge |-> c.judge, config |-> c.config, summary |-> s,
               score |-> score, passed |-> passes]
      BY DEF Composite
    <2>3. score = CompositeScore(s, c.judge, c.config) /\ passes = Passes(score, s, c.config)
      <3> HIDE DEF status
      <3>1. score = CompositeScore(s, c.judge, c.config)
        BY <2>1
      <3> HIDE DEF score
      <3>2. passes <=> Passes(score, s, c.config)
        BY <2>1
      <3>3. passes \in BOOLEAN /\ Passes(score, s, c.config) \in BOOLEAN
        BY DEF Passes
      <3> HIDE DEF passes
      <3> QED
        BY <3>1, <3>2, <3>3
    <2>4. truth = Composite(s, c.judge, c.config)
      BY <1>2
    <2> HIDE DEF truth, score, passes, status
    <2>5. truth.score = score /\ truth.passed = passes
      BY <2>2, <2>4
    <2> QED
      BY <2>3, <2>5
  <1>4. c.score = truth.score /\ c.passed = truth.passed
    BY <1>3 DEF VerdictFollows
  <1>5. ASSUME c.passed, c.config.all PROVE \A i \in DOMAIN results : results[i].passed
    <2>1. s.passed
      BY <1>3, <1>4, <1>5 DEF Passes
    <2>2. PassedCount(results) = Len(results)
      BY <1>1, <2>1
    <2> DEFINE all == {i \in DOMAIN results : results[i].passed}
    <2>3. DOMAIN results = 1..Len(results) /\ Len(results) \in Nat
      BY LenProperties
    <2>4. IsFiniteSet(DOMAIN results) /\ Cardinality(DOMAIN results) = Len(results)
      <3>1. IsFiniteSet(1..Len(results))
            /\ Cardinality(1..Len(results)) = IF 1 > Len(results) THEN 0 ELSE Len(results) - 1 + 1
        BY <2>3, FS_Interval
      <3> QED
        BY <2>3, <3>1
    <2>5. Cardinality(all) = Cardinality(DOMAIN results) /\ all \subseteq DOMAIN results
      BY <2>2, <2>4 DEF PassedCount
    <2>6. all = DOMAIN results
      <3> HIDE DEF all
      <3> QED
        BY <2>4, <2>5, FS_Subset
    <2> QED
      BY <2>6
  <1> QED
    BY <1>2, <1>4, <1>5

\* A step that leaves the results alone and settles no evaluation.
LEMMA ResultsStay ==
    ASSUME EvaluationInv, DOMAIN eval' = EvalFields, eval'.results = eval.results,
           eval'.checks \in {eval.checks, <<>>}, eval'.proc \in {"none", "running", "killed"},
           eval'.proc # "none" => eval'.phase = "checks" /\ eval'.checks = eval.checks
                                    /\ Len(eval.results) < Len(eval.checks),
           eval'.phase \in {"checks", "composite", "bundle", "judge", "judged"},
           eval'.evaluation = None, eval'.judged \in 0..100,
           eval'.phase \in {"composite", "bundle"} => SoundSummary(eval'.summary, eval.results),
           eval'.phase = "bundle" => SoundComposite(eval'.composite)
    PROVE  EvaluationInv'
  <1>1. /\ eval.checks \in Seq(Checks) /\ eval.results \in Seq(CheckResults)
        /\ \A i \in DOMAIN eval.results : eval.results[i].passed => eval.results[i].timely
    BY DEF EvaluationInv, SoundChecks
  <1>2. eval'.checks \in Seq(Checks)
    <2>1. <<>> \in Seq(Checks)
      BY EmptySeq
    <2> QED
      BY <1>1, <2>1
  <1>3. SoundChecks'
    BY <1>1, <1>2 DEF SoundChecks
  <1>4. None # "evaluated"
    BY EvaluationAssumption
  <1>5. EvidenceIsEarned' /\ JudgedIsPercentage'
    BY <1>1, <1>4 DEF EvidenceIsEarned, JudgedIsPercentage
  <1> QED
    BY <1>3, <1>5 DEF EvaluationInv

\* The steps of the checks (executeCheck, executeCommand, executeChecks).
LEMMA ChecksKeep ==
    ASSUME EvaluationInv, ExecuteCheck \/ CommandTimesOut \/ CommandEnds \/ ExecuteChecks
    PROVE  EvaluationInv'
  <1>1. /\ DOMAIN eval = EvalFields /\ eval.judged \in 0..100 /\ SoundChecks
        /\ eval.phase # "evidence" => eval.evaluation = None
    BY DEF EvaluationInv, JudgedIsPercentage
  <1>2. ASSUME NEW proc \in {"running", "killed"}, eval' = [eval EXCEPT !.proc = proc],
               eval.phase = "checks", Len(eval.results) < Len(eval.checks)
        PROVE  EvaluationInv'
    <2>1. /\ DOMAIN eval' = EvalFields /\ eval'.results = eval.results /\ eval'.checks = eval.checks
          /\ eval'.proc = proc /\ eval'.phase = "checks" /\ eval'.evaluation = None
          /\ eval'.judged = eval.judged
      BY <1>1, <1>2 DEF EvalFields
    <2> QED
      BY <1>1, <1>2, <2>1, ResultsStay
  <1>3. CASE ExecuteCheck
    <2>1. eval.phase = "checks" /\ Len(eval.results) < Len(eval.checks)
      BY <1>3 DEF ExecuteCheck, Unsettled
    <2>2. CASE eval' = [eval EXCEPT !.proc = "running"]
      BY <1>2, <2>1, <2>2
    <2>3. ASSUME NEW passed \in BOOLEAN, eval' = Settled(passed, IF passed THEN 2 ELSE 0, TRUE)
          PROVE  EvaluationInv'
      <3>1. (IF passed THEN 2 ELSE 0) \in Int
        OBVIOUS
      <3> QED
        BY <2>1, <2>3, <3>1, SettledKeeps
    <2>4. CASE eval' = Settled(FALSE, 0, TRUE)
      <3>1. FALSE \in BOOLEAN /\ TRUE \in BOOLEAN /\ 0 \in Int
        OBVIOUS
      <3> QED
        BY <2>1, <2>4, <3>1, SettledKeeps
    <2>5. ASSUME NEW passed \in BOOLEAN, NEW score \in {1, 3}, eval' = Settled(passed, score, TRUE)
          PROVE  EvaluationInv'
      <3>1. score \in Int
        OBVIOUS
      <3> QED
        BY <2>1, <2>5, <3>1, SettledKeeps
    <2> QED
      BY <1>3, <2>2, <2>3, <2>4, <2>5 DEF ExecuteCheck
  <1>4. CASE CommandTimesOut
    <2>1. eval.phase = "checks" /\ Len(eval.results) < Len(eval.checks)
      BY <1>1, <1>4 DEF CommandTimesOut, SoundChecks
    <2> QED
      BY <1>2, <1>4, <2>1 DEF CommandTimesOut
  <1>5. CASE CommandEnds
    <2>1. PICK code \in {0, 1, 124, None} :
            /\ eval.proc = "killed" <=> code = 124
            /\ LET passed == code \in {0, None}
               IN eval' = Settled(passed, IF passed THEN 2 ELSE 0, eval.proc = "running")
      BY <1>5 DEF CommandEnds
    <2>2. eval.proc \in {"running", "killed"} /\ eval.phase = "checks"
          /\ Len(eval.results) < Len(eval.checks)
      BY <1>1, <1>5 DEF CommandEnds, SoundChecks
    <2> DEFINE passed == code \in {0, None}
               score == IF passed THEN 2 ELSE 0
               timely == eval.proc = "running"
    <2>3. passed \in BOOLEAN /\ timely \in BOOLEAN /\ score \in Int
      OBVIOUS
    <2>4. passed => timely
      BY <2>1, <2>2, EvaluationAssumption
    <2>5. eval' = Settled(passed, score, timely)
      BY <2>1
    <2> HIDE DEF passed, score, timely
    <2> QED
      BY <2>2, <2>3, <2>4, <2>5, SettledKeeps
  <1>6. CASE ExecuteChecks
    <2>1. PICK status \in {"not_evaluated", "invalid", "evaluated"} :
            eval' = [eval EXCEPT !.phase = "composite", !.checks = <<>>,
                       !.summary = Summary(status, IF status = "evaluated" THEN eval.results ELSE <<>>)]
      BY <1>6 DEF ExecuteChecks
    <2>2. eval.phase = "checks" /\ eval.proc = "none"
      BY <1>6 DEF ExecuteChecks
    <2> DEFINE results == IF status = "evaluated" THEN eval.results ELSE <<>>
               s == Summary(status, results)
    <2>3. SoundSummary(s, eval.results)
      <3> DEFINE count == PassedCount(results)
                 score == IF status = "evaluated" THEN WeightedScore(results) ELSE 0
      <3>1. s = [status |-> status, results |-> results, digest |-> results, passedCount |-> count,
                 total |-> Len(results), passed |-> count = Len(results), score |-> score]
        BY DEF Summary
      <3>2. status = "evaluated" => results = eval.results /\ count = PassedCount(eval.results)
        OBVIOUS
      <3> HIDE DEF s, results, count, score
      <3>3. /\ s = [x \in SummaryFields |-> s[x]] /\ s.status = status /\ s.digest = results
            /\ s.total = Len(results) /\ s.passedCount = count
        BY <3>1 DEF SummaryFields
      <3> QED
        BY <3>2, <3>3 DEF SoundSummary
    <2> HIDE DEF results, s
    <2>4. eval' = [eval EXCEPT !.phase = "composite", !.checks = <<>>, !.summary = s]
      BY <2>1 DEF s, results
    <2>5. /\ DOMAIN eval' = EvalFields /\ eval'.results = eval.results /\ eval'.checks = <<>>
          /\ eval'.proc = "none" /\ eval'.phase = "composite" /\ eval'.evaluation = None
          /\ eval'.judged = eval.judged /\ eval'.summary = s
      BY <1>1, <2>2, <2>4 DEF EvalFields
    <2> QED
      BY <1>1, <2>3, <2>5, ResultsStay
  <1> QED
    BY <1>3, <1>4, <1>5, <1>6

\* The stored summary or composite is written.
StoredAnew ==
  /\ DOMAIN eval' = EvalFields /\ eval'.phase = "bundle"
  /\ \A x \in {"checks", "results", "proc", "evaluation", "judged"} : eval'[x] = eval[x]

\* The composite, its seal and what is changed behind them: no change touches
\* what a summary counted (evaluate, createEvaluationEvidenceDigest).
LEMMA BundleKeeps ==
    ASSUME EvaluationInv, EvaluateComposite \/ Seal \/ Tamper
    PROVE  EvaluationInv'
  <1>1. /\ DOMAIN eval = EvalFields /\ eval.judged \in 0..100 /\ SoundChecks
        /\ eval.phase # "evidence" => eval.evaluation = None
        /\ eval.phase \in {"composite", "bundle"} => SoundSummary(eval.summary, eval.results)
        /\ eval.phase = "bundle" => SoundComposite(eval.composite)
    BY DEF EvaluationInv, JudgedIsPercentage
  <1>2. ASSUME eval.phase \in {"composite", "bundle"}, StoredAnew,
               SoundSummary(eval'.summary, eval.results), SoundComposite(eval'.composite)
        PROVE  EvaluationInv'
    <2>1. eval.proc = "none"
      BY <1>1, <1>2 DEF SoundChecks
    <2>2. /\ DOMAIN eval' = EvalFields /\ eval'.results = eval.results /\ eval'.checks = eval.checks
          /\ eval'.proc = "none" /\ eval'.phase = "bundle" /\ eval'.evaluation = None
          /\ eval'.judged = eval.judged
      BY <1>1, <1>2, <2>1 DEF StoredAnew
    <2> QED
      BY <1>1, <1>2, <2>2, ResultsStay
  <1>3. CASE EvaluateComposite
    <2>1. PICK judge \in {None, 50, 101}, config \in Configs :
            eval' = [eval EXCEPT !.phase = "bundle", !.composite = Composite(eval.summary, judge, config)]
      BY <1>3 DEF EvaluateComposite
    <2>2. eval.phase = "composite"
      BY <1>3 DEF EvaluateComposite
    <2> DEFINE s == eval.summary
               c == Composite(s, judge, config)
    <2>3. SoundComposite(c)
      <3> DEFINE status == IF s.status # "evaluated" THEN s.status
                           ELSE IF ~ValidConfig(config) \/ ~ValidSummary(s) \/ judge \notin {None} \cup (0..100)
                             THEN "invalid" ELSE "evaluated"
                 score == IF status = "evaluated" THEN CompositeScore(s, judge, config) ELSE 0
                 passed == status = "evaluated" /\ Passes(score, s, config)
      <3>1. c = [status |-> status, run |-> "run", judge |-> judge, config |-> config, summary |-> s,
                 score |-> score, passed |-> passed]
        BY DEF Composite
      <3>2. status = "evaluated" => judge \in {None} \cup (0..100)
        OBVIOUS
      <3> HIDE DEF c, status, score, passed, s
      <3>3. DOMAIN c = CompositeFields /\ c.status = status /\ c.judge = judge
        BY <3>1 DEF CompositeFields
      <3> QED
        BY <3>2, <3>3 DEF SoundComposite
    <2> HIDE DEF c
    <2>4. StoredAnew /\ eval'.summary = s /\ eval'.composite = c
      <3>1. eval' = [eval EXCEPT !.phase = "bundle", !.composite = c]
        BY <2>1 DEF c
      <3> QED
        BY <1>1, <3>1 DEF EvalFields, StoredAnew
    <2> QED
      BY <1>1, <1>2, <2>2, <2>3, <2>4
  <1>4. CASE Seal
    <2>1. eval.phase = "bundle"
      BY <1>4 DEF Seal
    <2>2. StoredAnew /\ eval'.summary = eval.summary /\ eval'.composite = eval.composite
      <3> DEFINE digest == <<eval.summary, eval.composite>>
      <3>1. eval' = [eval EXCEPT !.digest = digest]
        BY <1>4 DEF Seal
      <3> HIDE DEF digest
      <3> QED
        BY <1>1, <2>1, <3>1 DEF EvalFields, StoredAnew
    <2> QED
      BY <1>1, <1>2, <2>1, <2>2
  <1>5. CASE Tamper
    <2>1. eval.phase = "bundle" /\ SoundSummary(eval.summary, eval.results) /\ SoundComposite(eval.composite)
      BY <1>1, <1>5 DEF Tamper
    <2> DEFINE s == eval.summary
               c == eval.composite
    <2>2. ASSUME NEW x \in SummaryFields \ {"status", "digest", "passedCount", "total"}, NEW v
          PROVE  SoundSummary([s EXCEPT ![x] = v], eval.results)
      <3> DEFINE t == [s EXCEPT ![x] = v]
      <3>1. s = [y \in SummaryFields |-> s[y]]
        BY <2>1 DEF SoundSummary
      <3>2. /\ DOMAIN t = SummaryFields /\ t.status = s.status /\ t.digest = s.digest
            /\ t.passedCount = s.passedCount /\ t.total = s.total /\ t = [y \in SummaryFields |-> t[y]]
        BY <3>1 DEF SummaryFields
      <3> HIDE DEF t
      <3> QED
        BY <2>1, <3>2 DEF SoundSummary, t
    <2>3. ASSUME NEW x \in CompositeFields \ {"status", "judge"}, NEW v
          PROVE  SoundComposite([c EXCEPT ![x] = v])
      <3> DEFINE d == [c EXCEPT ![x] = v]
      <3>1. DOMAIN d = CompositeFields /\ d.status = c.status /\ d.judge = c.judge
        BY <2>1 DEF SoundComposite, CompositeFields
      <3> HIDE DEF d
      <3> QED
        BY <2>1, <3>1 DEF SoundComposite, d
    <2>4. SoundComposite([c EXCEPT !.judge = 50])
      <3> DEFINE d == [c EXCEPT !.judge = 50]
      <3>1. DOMAIN d = CompositeFields /\ d.judge = 50
        BY <2>1 DEF SoundComposite, CompositeFields
      <3> HIDE DEF d
      <3> QED
        BY <3>1 DEF SoundComposite, d
    <2>5. ASSUME NEW t, SoundSummary(t, eval.results), NEW both \in BOOLEAN,
                 eval' = IF both THEN [eval EXCEPT !.tampered = TRUE, !.summary = t, !.composite.summary = t]
                         ELSE [eval EXCEPT !.tampered = TRUE, !.summary = t]
          PROVE  EvaluationInv'
      <3> DEFINE d == IF both THEN [c EXCEPT !.summary = t] ELSE c
      <3>1. SoundComposite(d)
        <4>1. SoundComposite([c EXCEPT !["summary"] = t])
          BY <2>3 DEF CompositeFields
        <4> QED
          BY <2>1, <4>1
      <3>2. StoredAnew /\ eval'.summary = t /\ eval'.composite = d
        <4>1. CASE both
          BY <1>1, <2>1, <2>5, <4>1 DEF EvalFields, StoredAnew
        <4>2. CASE ~both
          BY <1>1, <2>1, <2>5, <4>2 DEF EvalFields, StoredAnew
        <4> QED
          BY <4>1, <4>2
      <3> HIDE DEF d
      <3> QED
        BY <1>2, <2>1, <2>5, <3>1, <3>2
    <2>6. ASSUME NEW d, SoundComposite(d), eval' = [eval EXCEPT !.tampered = TRUE, !.composite = d]
          PROVE  EvaluationInv'
      <3>1. StoredAnew /\ eval'.summary = s /\ eval'.composite = d
        BY <1>1, <2>1, <2>6 DEF EvalFields, StoredAnew
      <3> QED
        BY <1>2, <2>1, <2>6, <3>1
    <2>7. PICK both \in BOOLEAN :
            LET Edited(t) == IF both THEN [eval EXCEPT !.tampered = TRUE, !.summary = t, !.composite.summary = t]
                              ELSE [eval EXCEPT !.tampered = TRUE, !.summary = t]
            IN \/ eval' = Edited([eval.summary EXCEPT !.score = 100 - @])
               \/ eval' = Edited([eval.summary EXCEPT !.passed = ~@])
               \/ eval' = Edited([eval.summary EXCEPT !.results = Front(@)])
               \/ eval' = Edited([eval.summary EXCEPT !.results[1].passed = ~@])
               \/ eval' = Edited([eval.summary EXCEPT !.results[1].score = 2 - @])
               \/ eval' = [eval EXCEPT !.tampered = TRUE, !.composite.score = 100]
               \/ eval' = [eval EXCEPT !.tampered = TRUE, !.composite.passed = ~@]
               \/ eval' = [eval EXCEPT !.tampered = TRUE, !.composite.run = "other"]
               \/ eval' = [eval EXCEPT !.tampered = TRUE, !.composite.judge = 50]
      BY <1>5 DEF Tamper
    <2> DEFINE Edited(t) == IF both THEN [eval EXCEPT !.tampered = TRUE, !.summary = t, !.composite.summary = t]
                             ELSE [eval EXCEPT !.tampered = TRUE, !.summary = t]
    <2>8. CASE eval' = Edited([eval.summary EXCEPT !.score = 100 - @])
      <3> DEFINE t == [s EXCEPT !["score"] = 100 - s.score]
      <3>1. SoundSummary(t, eval.results)
        BY <2>2 DEF SummaryFields
      <3>2. t = [eval.summary EXCEPT !.score = 100 - @]
        OBVIOUS
      <3> HIDE DEF t
      <3>3. eval' = Edited(t)
        BY <2>8, <3>2
      <3> QED
        BY <2>5, <3>1, <3>3
    <2>9. CASE eval' = Edited([eval.summary EXCEPT !.passed = ~@])
      <3> DEFINE t == [s EXCEPT !["passed"] = ~s.passed]
      <3>1. SoundSummary(t, eval.results)
        BY <2>2 DEF SummaryFields
      <3>2. t = [eval.summary EXCEPT !.passed = ~@]
        OBVIOUS
      <3> HIDE DEF t
      <3>3. eval' = Edited(t)
        BY <2>9, <3>2
      <3> QED
        BY <2>5, <3>1, <3>3
    <2>10. CASE eval' = Edited([eval.summary EXCEPT !.results = Front(@)])
      <3> DEFINE t == [s EXCEPT !["results"] = Front(s.results)]
      <3>1. SoundSummary(t, eval.results)
        BY <2>2 DEF SummaryFields
      <3>2. t = [eval.summary EXCEPT !.results = Front(@)]
        OBVIOUS
      <3> HIDE DEF t
      <3>3. eval' = Edited(t)
        BY <2>10, <3>2
      <3> QED
        BY <2>5, <3>1, <3>3
    <2>11. CASE eval' = Edited([eval.summary EXCEPT !.results[1].passed = ~@])
      <3> DEFINE t == [s EXCEPT !["results"] = [s.results EXCEPT ![1].passed = ~@]]
      <3>1. SoundSummary(t, eval.results)
        BY <2>2 DEF SummaryFields
      <3>2. t = [eval.summary EXCEPT !.results[1].passed = ~@]
        OBVIOUS
      <3> HIDE DEF t
      <3>3. eval' = Edited(t)
        BY <2>11, <3>2
      <3> QED
        BY <2>5, <3>1, <3>3
    <2>12. CASE eval' = Edited([eval.summary EXCEPT !.results[1].score = 2 - @])
      <3> DEFINE t == [s EXCEPT !["results"] = [s.results EXCEPT ![1].score = 2 - @]]
      <3>1. SoundSummary(t, eval.results)
        BY <2>2 DEF SummaryFields
      <3>2. t = [eval.summary EXCEPT !.results[1].score = 2 - @]
        OBVIOUS
      <3> HIDE DEF t
      <3>3. eval' = Edited(t)
        BY <2>12, <3>2
      <3> QED
        BY <2>5, <3>1, <3>3
    <2>13. CASE eval' = [eval EXCEPT !.tampered = TRUE, !.composite.score = 100]
      <3>1. SoundComposite([c EXCEPT !["score"] = 100])
        BY <2>3 DEF CompositeFields
      <3> QED
        BY <2>6, <2>13, <3>1
    <2>14. CASE eval' = [eval EXCEPT !.tampered = TRUE, !.composite.passed = ~@]
      <3>1. SoundComposite([c EXCEPT !["passed"] = ~c.passed])
        BY <2>3 DEF CompositeFields
      <3> QED
        BY <2>6, <2>14, <3>1
    <2>15. CASE eval' = [eval EXCEPT !.tampered = TRUE, !.composite.run = "other"]
      <3>1. SoundComposite([c EXCEPT !["run"] = "other"])
        BY <2>3 DEF CompositeFields
      <3> QED
        BY <2>6, <2>15, <3>1
    <2>16. CASE eval' = [eval EXCEPT !.tampered = TRUE, !.composite.judge = 50]
      BY <2>4, <2>6, <2>16
    <2> QED
      BY <2>7, <2>8, <2>9, <2>10, <2>11, <2>12, <2>13, <2>14, <2>15, <2>16
  <1> QED
    BY <1>3, <1>4, <1>5

\* Evidence counts when all of it was found valid (createEvaluationEvidence).
LEMMA EvidenceKeeps == EvaluationInv /\ CreateEvaluationEvidence => EvaluationInv'
  <1> SUFFICES ASSUME EvaluationInv, CreateEvaluationEvidence PROVE EvaluationInv'
    OBVIOUS
  <1>1. /\ DOMAIN eval = EvalFields /\ eval.judged \in 0..100 /\ SoundChecks /\ eval.phase = "bundle"
        /\ SoundSummary(eval.summary, eval.results) /\ SoundComposite(eval.composite)
    BY DEF EvaluationInv, JudgedIsPercentage, CreateEvaluationEvidence
  <1>2. eval.results \in Seq(CheckResults) /\ eval.proc = "none"
    BY <1>1 DEF SoundChecks
  <1>3. PICK evaluation :
          /\ eval' = [eval EXCEPT !.phase = "evidence", !.evaluation = evaluation]
          /\ evaluation = "evaluated" =>
               /\ eval.summary.status = "evaluated" /\ eval.composite.status = "evaluated"
               /\ ValidSummary(eval.summary) /\ ValidConfig(eval.composite.config)
               /\ VerdictFollows(eval.composite, eval.summary)
    <2>1. PICK observed \in {None, "run", "other"}, complete \in BOOLEAN :
           LET statuses == {eval.summary.status, eval.composite.status}
               evaluation ==
                 IF "invalid" \in statuses THEN "invalid"
                 ELSE IF statuses # {"evaluated"} THEN "not_evaluated"
                 ELSE IF ~ValidBundle(observed) THEN "invalid"
                 ELSE IF ~complete \/ observed = None \/ eval.digest = None THEN "not_evaluated"
                 ELSE IF eval.digest # <<eval.summary, eval.composite>> THEN "invalid"
                 ELSE "evaluated"
           IN eval' = [eval EXCEPT !.phase = "evidence", !.evaluation = evaluation]
      BY DEF CreateEvaluationEvidence
    <2> DEFINE statuses == {eval.summary.status, eval.composite.status}
               evaluation ==
                 IF "invalid" \in statuses THEN "invalid"
                 ELSE IF statuses # {"evaluated"} THEN "not_evaluated"
                 ELSE IF ~ValidBundle(observed) THEN "invalid"
                 ELSE IF ~complete \/ observed = None \/ eval.digest = None THEN "not_evaluated"
                 ELSE IF eval.digest # <<eval.summary, eval.composite>> THEN "invalid"
                 ELSE "evaluated"
    <2>2. evaluation = "evaluated" => statuses = {"evaluated"} /\ ValidBundle(observed)
      <3> HIDE DEF statuses
      <3> QED
        OBVIOUS
    <2>3. eval' = [eval EXCEPT !.phase = "evidence", !.evaluation = evaluation]
      BY <2>1
    <2> HIDE DEF evaluation
    <2> QED
      BY <2>2, <2>3 DEF ValidBundle
  <1>4. /\ DOMAIN eval' = EvalFields /\ eval'.results = eval.results /\ eval'.checks = eval.checks
        /\ eval'.proc = "none" /\ eval'.phase = "evidence" /\ eval'.evaluation = evaluation
        /\ eval'.judged = eval.judged /\ eval'.summary = eval.summary /\ eval'.composite = eval.composite
    BY <1>1, <1>2, <1>3 DEF EvalFields
  <1>5. SoundChecks'
    BY <1>1, <1>4 DEF SoundChecks
  <1>6. EvidenceIsEarned'
    <2>1. \A i \in DOMAIN eval.results : eval.results[i].passed => eval.results[i].timely
      BY <1>1 DEF SoundChecks
    <2>2. evaluation = "evaluated" =>
            LET truth == Composite(Summary("evaluated", eval.results), eval.composite.judge,
                                   eval.composite.config)
            IN /\ eval.summary = Summary("evaluated", eval.results)
               /\ eval.composite.score = truth.score /\ eval.composite.passed = truth.passed
               /\ eval.composite.passed /\ eval.composite.config.all =>
                    \A i \in DOMAIN eval.results : eval.results[i].passed
      BY <1>1, <1>2, <1>3, ValidIsTrue
    <2> QED
      BY <1>4, <2>1, <2>2 DEF EvidenceIsEarned
  <1>7. JudgedIsPercentage'
    BY <1>1, <1>4 DEF JudgedIsPercentage
  <1> QED
    BY <1>1, <1>4, <1>5, <1>6, <1>7 DEF EvaluationInv

\* What a judge answered.
LEMMA JudgeKeeps == EvaluationInv /\ ParseJudgeResponse => EvaluationInv'
  <1> SUFFICES ASSUME EvaluationInv, ParseJudgeResponse PROVE EvaluationInv'
    OBVIOUS
  <1>1. PICK items \in SeqOf(Items, 2) :
          eval' = [eval EXCEPT !.phase = "judged", !.judged = OverallScore(items)]
    BY DEF ParseJudgeResponse
  <1>2. OverallScore(items) \in 0..100
    BY OverallIsPercentage
  <1>3. DOMAIN eval = EvalFields /\ eval.phase = "judge" /\ SoundChecks /\ eval.evaluation = None
    BY DEF EvaluationInv, ParseJudgeResponse
  <1>4. eval.proc = "none"
    BY <1>3 DEF SoundChecks
  <1> DEFINE judged == OverallScore(items)
  <1> HIDE DEF judged
  <1>5. /\ DOMAIN eval' = EvalFields /\ eval'.results = eval.results /\ eval'.checks = eval.checks
        /\ eval'.proc = "none" /\ eval'.phase = "judged" /\ eval'.evaluation = None
        /\ eval'.judged = OverallScore(items)
    BY <1>1, <1>3, <1>4 DEF EvalFields
  <1> QED
    BY <1>2, <1>5, ResultsStay

\* Nothing is executed and nothing judged at first.
LEMMA EvaluationStarts == EvaluationInit => EvaluationInv
  <1> SUFFICES ASSUME EvaluationInit PROVE EvaluationInv
    OBVIOUS
  <1>1. PICK checks \in SeqOf(Checks, MaxChecks), phase \in {"checks", "judge"} :
          eval = [phase |-> phase, checks |-> checks, results |-> <<>>, proc |-> "none",
                  summary |-> None, composite |-> None, digest |-> None, tampered |-> FALSE,
                  evaluation |-> None, judged |-> 0]
    BY DEF EvaluationInit
  <1>2. checks \in Seq(Checks)
    <2>1. PICK m \in 0..MaxChecks : checks \in [1..m -> Checks]
      BY DEF SeqOf
    <2>2. m \in Nat
      BY <2>1
    <2> QED
      BY <2>1, <2>2, SeqDef
  <1>3. <<>> \in Seq(CheckResults) /\ DOMAIN <<>> = {}
    BY EmptySeq
  <1>4. /\ DOMAIN eval = EvalFields /\ eval.phase = phase /\ eval.checks = checks /\ eval.results = <<>>
        /\ eval.proc = "none" /\ eval.evaluation = None /\ eval.judged = 0
    BY <1>1 DEF EvalFields
  <1>5. None # "evaluated"
    BY EvaluationAssumption
  <1>6. SoundChecks
    BY <1>2, <1>3, <1>4 DEF SoundChecks
  <1>7. EvidenceIsEarned /\ JudgedIsPercentage
    BY <1>3, <1>4, <1>5 DEF EvidenceIsEarned, JudgedIsPercentage
  <1> QED
    BY <1>4, <1>6, <1>7 DEF EvaluationInv

\* Every step of an evaluation keeps the invariant.
LEMMA EvaluationKeeps == EvaluationInv /\ EvaluationNext => EvaluationInv'
  BY ChecksKeep, BundleKeeps, EvidenceKeeps, JudgeKeeps DEF EvaluationNext

\* What the invariant of an evaluation says of its verdict and its judge.
LEMMA EvaluationHolds == EvaluationInv => EvidenceIsEarned /\ JudgedIsPercentage
  BY DEF EvaluationInv
-----------------------------------------------------------------------------
(* The dialog of a run                                                     *)

DialogFields ==
  {"trigger", "pushback", "turn", "status", "asked", "revealed", "pushed", "completed", "quality",
   "score"}

\* A topic's status follows from the turn that named it first.
StatusFollows(status, asked, revealed) ==
  \A t \in Topics :
    /\ status[t] = IF asked[t] = 0 THEN "missed"
                   ELSE IF EarlyAt(asked[t]) THEN "clarified" ELSE "clarified_late"
    /\ status[t] # "missed" => t \in revealed

InterviewInv ==
  /\ DOMAIN dialog = DialogFields
  /\ dialog.trigger # None => dialog.trigger.reveals \subseteq Topics
  /\ dialog.turn \in Nat /\ dialog.quality \in Nat /\ dialog.quality <= 70 * dialog.turn
  /\ DOMAIN dialog.status = Topics /\ dialog.asked \in [Topics -> Nat] /\ dialog.revealed \subseteq Topics
  /\ StatusFollows(dialog.status, dialog.asked, dialog.revealed)
  /\ dialog.completed = (dialog.turn >= MaxTurns)
  /\ dialog.score \in {None} \cup (0..100)

-----------------------------------------------------------------------------
(* Rounded quotients *)

\* A quotient of whole numbers grows with its numerator.
LEMMA QuotientGrows ==
    ASSUME NEW a \in Int, NEW b \in Int, NEW d \in Int, d > 0, a <= b
    PROVE  a \div d \in Int /\ a \div d <= b \div d
  OBVIOUS

\* A quotient is where its multiples put it.
LEMMA QuotientWithin ==
    ASSUME NEW a \in Int, NEW d \in Int, d > 0, NEW k \in Int, 0 <= a, a < (k + 1) * d
    PROVE  a \div d \in 0..k
  OBVIOUS

\* What is rounded grows with its numerator, and stays below the multiple it is
\* below.
LEMMA RoundedGrows ==
    ASSUME NEW a \in Nat, NEW b \in Nat, NEW d \in Nat, d > 0, a <= b
    PROVE  Rounded(a, d) \in Int /\ Rounded(b, d) \in Int /\ Rounded(a, d) <= Rounded(b, d)
  <1> DEFINE x == 2 * a + d
             y == 2 * b + d
             e == 2 * d
  <1>1. x \in Int /\ y \in Int /\ e \in Int /\ e > 0 /\ x <= y /\ y <= y
    OBVIOUS
  <1>2. Rounded(a, d) = x \div e /\ Rounded(b, d) = y \div e
    BY DEF Rounded
  <1> HIDE DEF x, y, e
  <1> QED
    BY <1>1, <1>2, QuotientGrows

\* A quotient of at most k is rounded to at most k.
LEMMA RoundedWithin ==
    ASSUME NEW n \in Nat, NEW d \in Nat, d > 0, NEW k \in Nat, n <= k * d
    PROVE  Rounded(n, d) \in 0..k
  <1> DEFINE x == 2 * n + d
             e == 2 * d
  <1>1. x \in Int /\ e \in Int /\ e > 0 /\ 0 <= x /\ k \in Int
    OBVIOUS
  <1>2. x < (k + 1) * e
    <2> DEFINE m == k * d
    <2>1. m \in Int /\ (k + 1) * e = 2 * m + 2 * d
      OBVIOUS
    <2>2. n <= m
      OBVIOUS
    <2> HIDE DEF m, e
    <2> QED
      BY <2>1, <2>2
  <1>3. Rounded(n, d) = x \div e
    BY DEF Rounded
  <1> HIDE DEF x, e
  <1> QED
    BY <1>1, <1>2, <1>3, QuotientWithin
-----------------------------------------------------------------------------
(* The grades of a dialog *)

\* What the topics earned and what they weigh.
Earnings == [t \in Topics |-> Earned(t)]

TopicWeights == [t \in Topics |-> Weight(t)]

\* What a topic earns is no less than nothing.
LEMMA EarnedIsNatural ==
    ASSUME InterviewInv, NEW t \in Topics
    PROVE  /\ dialog.status[t] \in {"missed", "clarified", "clarified_late"}
           /\ Earned(t) \in Nat /\ (dialog.status[t] = "missed" => Earned(t) = 0)
           /\ Weight(t) \in Nat /\ Weight(t) >= 10
  <1>1. dialog.status[t] \in {"missed", "clarified", "clarified_late"}
    BY DEF InterviewInv, StatusFollows
  <1>2. Weight(t) \in Nat /\ Weight(t) >= 10 /\ Bonus \in Nat
    BY InterviewAssumption DEF Weight
  <1> QED
    BY <1>1, <1>2 DEF Earned

\* The topics together weigh something if there are any.
LEMMA TopicsWeigh ==
    ASSUME InterviewInv, Topics # {}
    PROVE  /\ SumFunction(Earnings) = Total(Earnings, Topics) /\ SumFunction(Earnings) \in Nat
           /\ SumFunction(TopicWeights) \in Nat /\ SumFunction(TopicWeights) > 0
  <1>1. /\ DOMAIN Earnings = Topics /\ DOMAIN TopicWeights = Topics
        /\ \A t \in Topics : Earnings[t] \in Nat
        /\ \A t \in Topics : TopicWeights[t] \in Nat /\ TopicWeights[t] >= 10
    BY EarnedIsNatural DEF Earnings, TopicWeights
  <1>2. IsFiniteSet(Topics)
    BY InterviewAssumption
  <1>3. SumFunction(Earnings) = Total(Earnings, Topics)
        /\ SumFunction(TopicWeights) = Total(TopicWeights, Topics)
    BY <1>1 DEF SumFunction, SumFunctionOnSet, FoldFunctionOnSet, Total, MapThenSumSet
  <1>4. Total(Earnings, Topics) \in Nat
    BY <1>1, <1>2, TotalIsNatural
  <1>5. Total(TopicWeights, Topics) \in Nat /\ \A t \in Topics : TopicWeights[t] <= Total(TopicWeights, Topics)
    BY <1>1, <1>2, TotalIsNatural
  <1>6. PICK t \in Topics : TRUE
    OBVIOUS
  <1> QED
    BY <1>1, <1>3, <1>4, <1>5, <1>6

\* Clarification, coverage and questions are percentages.
LEMMA GradesArePercentages ==
    ASSUME InterviewInv
    PROVE  ClarificationScore \in 0..100 /\ CoverageScore \in 0..100 /\ QuestionScore \in 0..100
  <1>1. ClarificationScore \in 0..100
    <2>1. CASE Topics = {}
      BY <2>1 DEF ClarificationScore
    <2>2. CASE Topics # {}
      <3> DEFINE points == Rounded(10 * SumFunction(Earnings), SumFunction(TopicWeights))
      <3>1. ClarificationScore = Min({100, points})
        BY <2>2 DEF ClarificationScore, Capped, Earnings, TopicWeights
      <3>2. points \in Int /\ points >= 0
        <4> DEFINE e == SumFunction(Earnings)
                   w == SumFunction(TopicWeights)
        <4>1. e \in Nat /\ w \in Nat /\ w > 0
          BY <2>2, TopicsWeigh
        <4> HIDE DEF e, w
        <4>2. 0 \in Nat /\ 10 * e \in Nat /\ 0 <= 10 * e
          BY <4>1
        <4>3. Rounded(0, w) \in 0..0
          BY <4>1, RoundedWithin
        <4>4. Rounded(10 * e, w) \in Int /\ Rounded(0, w) <= Rounded(10 * e, w)
          BY <4>1, <4>2, RoundedGrows
        <4> QED
          BY <4>3, <4>4 DEF e, w
      <3> HIDE DEF points
      <3>3. Min({100, points}) = IF 100 <= points THEN 100 ELSE points
        <4>1. 100 \in Int
          OBVIOUS
        <4> QED
          BY <3>2, <4>1, OfTwo
      <3> QED
        BY <3>1, <3>2, <3>3
    <2> QED
      BY <2>1, <2>2
  <1>2. CoverageScore \in 0..100
    <2> DEFINE found == {t \in Topics : dialog.status[t] # "missed"}
               c == Cardinality(found)
               n == Cardinality(Topics)
               m == Max({1, n})
    <2>1. c \in Nat /\ n \in Nat /\ c <= n
      <3>1. found \subseteq Topics
        OBVIOUS
      <3> HIDE DEF found
      <3> QED
        BY <3>1, FS_Subset, FS_CardinalityType, InterviewAssumption
    <2>2. CoverageScore = Rounded(100 * c, m)
      BY DEF CoverageScore
    <2> HIDE DEF c, n
    <2>3. m \in Nat /\ m > 0 /\ c <= m
      <3>1. Max({1, n}) = IF 1 >= n THEN 1 ELSE n
        <4>1. 1 \in Int /\ n \in Int
          BY <2>1
        <4> QED
          BY <4>1, OfTwo
      <3> QED
        BY <2>1, <3>1
    <2> HIDE DEF m
    <2>4. 100 * c \in Nat /\ 100 * c <= 100 * m /\ 100 \in Nat
      BY <2>1, <2>3
    <2> QED
      BY <2>2, <2>3, <2>4, RoundedWithin
  <1>3. QuestionScore \in 0..100
    <2>1. CASE dialog.turn = 0
      BY <2>1 DEF QuestionScore
    <2>2. CASE dialog.turn # 0
      <3>1. /\ dialog.quality \in Nat /\ dialog.turn \in Nat /\ dialog.turn > 0 /\ 70 \in Nat
            /\ dialog.quality <= 70 * dialog.turn
        BY <2>2 DEF InterviewInv
      <3>2. Rounded(dialog.quality, dialog.turn) \in 0..70
        BY <3>1, RoundedWithin
      <3> QED
        BY <2>2, <3>2 DEF QuestionScore
    <2> QED
      BY <2>1, <2>2
  <1> QED
    BY <1>1, <1>2, <1>3

\* And so is what they come to together (evaluateTranscript).
LEMMA OverallIsGrade ==
    ASSUME InterviewInv, NEW domain \in {0, 100}, NEW artifacts \in ArtifactScores
    PROVE  Overall(domain, artifacts) \in 0..100
  <1> DEFINE c == ClarificationScore
             v == CoverageScore
             q == QuestionScore
             sum == 30 * c + 25 * v + 20 * q + 15 * domain + 10 * artifacts
  <1>1. c \in 0..100 /\ v \in 0..100 /\ q \in 0..100
    BY GradesArePercentages
  <1>2. artifacts \in 0..100
    BY DEF ArtifactScores
  <1>3. Overall(domain, artifacts) = Rounded(sum, 100)
    BY DEF Overall
  <1> HIDE DEF c, v, q
  <1>4. sum \in Nat /\ sum <= 100 * 100
    BY <1>1, <1>2
  <1> HIDE DEF sum
  <1>5. 100 \in Nat /\ 100 > 0
    OBVIOUS
  <1> QED
    BY <1>3, <1>4, <1>5, RoundedWithin
-----------------------------------------------------------------------------
(* The dialog *)

\* Nothing is asked at first.
LEMMA InterviewStarts == InterviewInit => InterviewInv
  <1> SUFFICES ASSUME InterviewInit PROVE InterviewInv
    OBVIOUS
  <1>1. PICK trigger \in {None} \cup Triggers, pushback \in BOOLEAN :
          dialog = [trigger |-> trigger, pushback |-> pushback, turn |-> 0,
                    status |-> [t \in Topics |-> "missed"], asked |-> [t \in Topics |-> 0],
                    revealed |-> {}, pushed |-> FALSE, completed |-> FALSE, quality |-> 0,
                    score |-> None]
    BY DEF InterviewInit
  <1>2. trigger # None => trigger.reveals \subseteq Topics
    BY DEF Triggers
  <1> DEFINE status == [t \in Topics |-> "missed"]
             asked == [t \in Topics |-> 0]
  <1>3. DOMAIN status = Topics /\ asked \in [Topics -> Nat] /\ StatusFollows(status, asked, {})
    BY DEF StatusFollows
  <1> HIDE DEF status, asked
  <1>4. /\ DOMAIN dialog = DialogFields /\ dialog.trigger = trigger /\ dialog.turn = 0
        /\ dialog.status = status /\ dialog.asked = asked /\ dialog.revealed = {}
        /\ dialog.completed = FALSE /\ dialog.quality = 0 /\ dialog.score = None
    BY <1>1 DEF DialogFields, status, asked
  <1>5. dialog.completed = (dialog.turn >= MaxTurns)
    <2>1. ~(0 >= MaxTurns)
      BY InterviewAssumption
    <2>2. dialog.completed = FALSE /\ ~(dialog.turn >= MaxTurns)
      BY <1>4, <2>1
    <2> DEFINE over == dialog.turn >= MaxTurns
    <2>3. over = FALSE
      BY <2>2
    <2> HIDE DEF over
    <2>4. dialog.completed = over
      BY <2>2, <2>3, Zenon
    <2> QED
      BY <2>4 DEF over
  <1> QED
    BY <1>2, <1>3, <1>4, <1>5 DEF InterviewInv

\* A turn gives topics their status once, and takes nothing back (processTurn).
LEMMA TurnKeeps == InterviewInv /\ ProcessTurn => InterviewInv' /\ DialogOnlyGains
  <1> SUFFICES ASSUME InterviewInv, ProcessTurn PROVE InterviewInv' /\ DialogOnlyGains
    OBVIOUS
  <1>1. PICK mentioned \in SUBSET Topics, words \in BOOLEAN, question \in BOOLEAN :
         LET turn == dialog.turn + 1
             matched == Matches(turn, words)
         IN dialog' = [dialog EXCEPT
              !.turn = turn,
              !.status = Clarified(turn, mentioned),
              !.asked = [t \in Topics |-> IF t \in mentioned /\ @[t] = 0 THEN turn ELSE @[t]],
              !.revealed = @ \cup mentioned \cup (IF matched THEN dialog.trigger.reveals ELSE {}),
              !.pushed = turn <= ScriptedTurns /\ dialog.pushback /\ ~matched /\ ~question /\ mentioned = {},
              !.completed = @ \/ turn >= MaxTurns,
              !.quality = @ + (IF question THEN 70 ELSE 50)]
    BY DEF ProcessTurn
  <1>2. /\ DOMAIN dialog = DialogFields
        /\ dialog.trigger # None => dialog.trigger.reveals \subseteq Topics
        /\ dialog.turn \in Nat /\ dialog.quality \in Nat /\ dialog.quality <= 70 * dialog.turn
        /\ DOMAIN dialog.status = Topics /\ dialog.asked \in [Topics -> Nat] /\ dialog.revealed \subseteq Topics
        /\ StatusFollows(dialog.status, dialog.asked, dialog.revealed)
        /\ dialog.completed = (dialog.turn >= MaxTurns) /\ dialog.score \in {None} \cup (0..100)
    BY DEF InterviewInv
  <1> DEFINE turn == dialog.turn + 1
             matched == Matches(turn, words)
             status == Clarified(turn, mentioned)
             asked == [t \in Topics |-> IF t \in mentioned /\ dialog.asked[t] = 0 THEN turn ELSE dialog.asked[t]]
             told == IF matched THEN dialog.trigger.reveals ELSE {}
             revealed == dialog.revealed \cup mentioned \cup told
             pushed == turn <= ScriptedTurns /\ dialog.pushback /\ ~matched /\ ~question /\ mentioned = {}
             completed == dialog.completed \/ turn >= MaxTurns
             worth == IF question THEN 70 ELSE 50
             quality == dialog.quality + worth
  <1>3. dialog' = [dialog EXCEPT !.turn = turn, !.status = status, !.asked = asked, !.revealed = revealed,
                                 !.pushed = pushed, !.completed = completed, !.quality = quality]
    BY <1>1
  <1>4. turn \in Nat /\ turn = dialog.turn + 1 /\ turn # 0
    BY <1>2
  <1>5. quality \in Nat /\ quality <= 70 * turn
    <2>1. worth \in Nat /\ worth <= 70
      OBVIOUS
    <2> HIDE DEF worth
    <2> QED
      BY <1>2, <2>1
  <1>6. completed <=> turn >= MaxTurns
    <2>1. MaxTurns \in Nat
      BY InterviewAssumption
    <2>2. dialog.completed <=> dialog.turn >= MaxTurns
      BY <1>2
    <2> QED
      BY <1>2, <2>1, <2>2
  <1>7. told \subseteq Topics
    BY <1>2 DEF Matches
  <1>8. /\ \A t \in Topics : status[t] = IF t \in mentioned /\ dialog.status[t] = "missed"
                                          THEN IF EarlyAt(turn) THEN "clarified" ELSE "clarified_late"
                                          ELSE dialog.status[t]
        /\ \A t \in Topics : asked[t] = IF t \in mentioned /\ dialog.asked[t] = 0 THEN turn ELSE dialog.asked[t]
        /\ DOMAIN status = Topics
    BY DEF Clarified
  <1> HIDE DEF told, turn, matched, worth
  <1>9. revealed \subseteq Topics /\ dialog.revealed \subseteq revealed /\ mentioned \subseteq revealed
    BY <1>2, <1>7
  <1>10. asked \in [Topics -> Nat]
    BY <1>2, <1>4
  <1> HIDE DEF status, asked, revealed, pushed, completed, quality
  <1>11. StatusFollows(status, asked, revealed)
    <2> SUFFICES ASSUME NEW t \in Topics
                 PROVE  /\ status[t] = IF asked[t] = 0 THEN "missed"
                                       ELSE IF EarlyAt(asked[t]) THEN "clarified" ELSE "clarified_late"
                        /\ status[t] # "missed" => t \in revealed
      BY DEF StatusFollows
    <2>1. /\ dialog.status[t] = IF dialog.asked[t] = 0 THEN "missed"
                                ELSE IF EarlyAt(dialog.asked[t]) THEN "clarified" ELSE "clarified_late"
          /\ dialog.status[t] # "missed" => t \in dialog.revealed
      BY <1>2 DEF StatusFollows
    <2>2. CASE t \in mentioned /\ dialog.asked[t] = 0
      BY <1>4, <1>8, <1>9, <2>1, <2>2
    <2>3. CASE ~(t \in mentioned /\ dialog.asked[t] = 0)
      BY <1>4, <1>8, <1>9, <2>1, <2>3
    <2> QED
      BY <2>2, <2>3
  <1>12. completed \in BOOLEAN
    BY DEF completed
  <1>13. /\ DOMAIN dialog' = DialogFields /\ dialog'.trigger = dialog.trigger /\ dialog'.turn = turn
         /\ dialog'.status = status /\ dialog'.asked = asked /\ dialog'.revealed = revealed
         /\ dialog'.completed = completed /\ dialog'.quality = quality /\ dialog'.score = dialog.score
    BY <1>2, <1>3 DEF DialogFields
  <1>14. dialog'.completed = (dialog'.turn >= MaxTurns)
    BY <1>6, <1>12, <1>13
  <1>15. InterviewInv'
    BY <1>2, <1>4, <1>5, <1>8, <1>9, <1>10, <1>11, <1>13, <1>14 DEF InterviewInv
  <1>16. \A t \in Topics : dialog.status[t] # "missed" => dialog'.status[t] = dialog.status[t]
    BY <1>8, <1>13
  <1>17. ClarificationScore <= ClarificationScore'
    <2>1. CASE Topics = {}
      BY <2>1 DEF ClarificationScore
    <2>2. CASE Topics # {}
      <3> DEFINE before == Earnings
                 after == Earnings'
                 e == SumFunction(Earnings)
                 f == SumFunction(Earnings)'
                 w == SumFunction(TopicWeights)
                 p == Rounded(10 * e, w)
                 q == Rounded(10 * f, w)
      <3>1. e = Total(before, Topics) /\ e \in Nat /\ w \in Nat /\ w > 0
        BY <2>2, TopicsWeigh
      <3>2. \A t \in Topics : after[t] \in Nat
        <4> SUFFICES ASSUME NEW t \in Topics PROVE after[t] \in Nat
          OBVIOUS
        <4>1. after[t] = Earned(t)'
          BY DEF Earnings
        <4>2. dialog'.status[t] \in {"missed", "clarified", "clarified_late"}
          BY <1>11, <1>13 DEF StatusFollows
        <4> QED
          BY <4>1, <4>2, InterviewAssumption DEF Earned, Weight
      <3>22. f = Total(after, Topics) /\ f \in Nat
        <4>1. DOMAIN after = Topics /\ f = SumFunction(after)
          BY DEF Earnings
        <4> HIDE DEF after, f
        <4>2. f = Total(after, Topics)
          BY <4>1 DEF SumFunction, SumFunctionOnSet, FoldFunctionOnSet, Total, MapThenSumSet
        <4> QED
          BY <3>2, <4>2, InterviewAssumption, TotalIsNatural
      <3>3. \A t \in Topics : before[t] \in Int /\ after[t] \in Int /\ before[t] <= after[t]
        <4> SUFFICES ASSUME NEW t \in Topics
                     PROVE  before[t] \in Int /\ after[t] \in Int /\ before[t] <= after[t]
          OBVIOUS
        <4>1. before[t] = Earned(t) /\ after[t] = Earned(t)'
          BY DEF Earnings
        <4>2. Earned(t) \in Nat /\ (dialog.status[t] = "missed" => Earned(t) = 0)
          BY EarnedIsNatural
        <4>3. Earned(t)' \in Nat
          BY <3>2, <4>1
        <4>4. dialog.status[t] # "missed" => Earned(t)' = Earned(t)
          BY <1>16 DEF Earned, Weight
        <4> QED
          BY <4>1, <4>2, <4>3, <4>4
      <3> HIDE DEF before, after
      <3>4. e <= f
        <4>1. Total(before, Topics) <= Total(after, Topics)
          BY <3>3, InterviewAssumption, TotalMonotone
        <4> QED
          BY <3>1, <3>22, <4>1
      <3>5. ClarificationScore = Min({100, p}) /\ ClarificationScore' = Min({100, q})
        BY <2>2 DEF ClarificationScore, Capped, Earnings, TopicWeights, Weight
      <3> HIDE DEF e, f, w
      <3>6. p \in Int /\ q \in Int /\ p <= q
        <4>1. 10 * e \in Nat /\ 10 * f \in Nat /\ 10 * e <= 10 * f
          BY <3>1, <3>22, <3>4
        <4> QED
          BY <3>1, <4>1, RoundedGrows
      <3> HIDE DEF p, q
      <3>7. /\ Min({100, p}) = IF 100 <= p THEN 100 ELSE p
            /\ Min({100, q}) = IF 100 <= q THEN 100 ELSE q
        <4>1. 100 \in Int
          OBVIOUS
        <4> QED
          BY <3>6, <4>1, OfTwo
      <3> QED
        BY <3>5, <3>6, <3>7
    <2> QED
      BY <2>1, <2>2
  <1>18. CoverageScore <= CoverageScore'
    <2> DEFINE found == {t \in Topics : dialog.status[t] # "missed"}
               later == {t \in Topics : dialog'.status[t] # "missed"}
               c == Cardinality(found)
               d == Cardinality(later)
               n == Cardinality(Topics)
               m == Max({1, n})
    <2>1. c \in Nat /\ d \in Nat /\ c <= d /\ n \in Nat
      <3>1. found \subseteq later /\ later \subseteq Topics
        BY <1>16
      <3> HIDE DEF found, later
      <3>2. IsFiniteSet(later) /\ IsFiniteSet(found)
        BY <3>1, FS_Subset, InterviewAssumption
      <3> QED
        BY <3>1, <3>2, FS_Subset, FS_CardinalityType, InterviewAssumption
    <2>2. CoverageScore = Rounded(100 * c, m) /\ CoverageScore' = Rounded(100 * d, m)
      BY DEF CoverageScore, Rounded
    <2> HIDE DEF c, d, n
    <2>3. m \in Nat /\ m > 0
      <3>1. Max({1, n}) = IF 1 >= n THEN 1 ELSE n
        <4>1. 1 \in Int /\ n \in Int
          BY <2>1
        <4> QED
          BY <4>1, OfTwo
      <3> QED
        BY <2>1, <3>1
    <2> HIDE DEF m
    <2>4. 100 * c \in Nat /\ 100 * d \in Nat /\ 100 * c <= 100 * d
      BY <2>1
    <2> QED
      BY <2>2, <2>3, <2>4, RoundedGrows
  <1>19. dialog.revealed \subseteq dialog'.revealed
    BY <1>9, <1>13
  <1> QED
    BY <1>15, <1>17, <1>18, <1>19 DEF DialogOnlyGains

\* A transcript that is graded stays what it was (evaluateTranscript).
LEMMA GradeKeeps == InterviewInv /\ EvaluateTranscript => InterviewInv' /\ DialogOnlyGains
  <1> SUFFICES ASSUME InterviewInv, EvaluateTranscript PROVE InterviewInv' /\ DialogOnlyGains
    OBVIOUS
  <1>1. PICK domain \in {0, 100}, artifacts \in ArtifactScores :
          dialog' = [dialog EXCEPT !.score = Overall(domain, artifacts)]
    BY DEF EvaluateTranscript
  <1> DEFINE grade == Overall(domain, artifacts)
  <1>2. grade \in 0..100
    BY OverallIsGrade
  <1> HIDE DEF grade
  <1>3. dialog' = [dialog EXCEPT !.score = grade]
    BY <1>1 DEF grade
  <1>4. DOMAIN dialog = DialogFields
    BY DEF InterviewInv
  <1>5. /\ DOMAIN dialog' = DialogFields /\ dialog'.trigger = dialog.trigger /\ dialog'.turn = dialog.turn
        /\ dialog'.status = dialog.status /\ dialog'.asked = dialog.asked
        /\ dialog'.revealed = dialog.revealed /\ dialog'.completed = dialog.completed
        /\ dialog'.quality = dialog.quality /\ dialog'.score = grade
    BY <1>3, <1>4 DEF DialogFields
  <1>6. InterviewInv'
    BY <1>2, <1>5 DEF InterviewInv
  <1>7. ClarificationScore' = ClarificationScore /\ CoverageScore' = CoverageScore
    BY <1>5 DEF ClarificationScore, CoverageScore, Earned, Weight
  <1>8. ClarificationScore \in 0..100 /\ CoverageScore \in 0..100
    BY GradesArePercentages
  <1> HIDE DEF ClarificationScore
  <1> QED
    BY <1>5, <1>6, <1>7, <1>8 DEF DialogOnlyGains

\* Every step of a dialog keeps the invariant and takes no point away
\* (processTurn, gradeInterview).
LEMMA InterviewKeeps == InterviewInv /\ InterviewNext => InterviewInv' /\ DialogOnlyGains
  BY TurnKeeps, GradeKeeps DEF InterviewNext

\* Nor is a point taken away while nothing happens.
LEMMA RestTakesNothing == InterviewInv /\ dialog' = dialog => DialogOnlyGains
  <1> SUFFICES ASSUME InterviewInv, dialog' = dialog PROVE DialogOnlyGains
    OBVIOUS
  <1>1. ClarificationScore' = ClarificationScore /\ CoverageScore' = CoverageScore
    BY DEF ClarificationScore, CoverageScore, Earned, Weight
  <1>2. ClarificationScore \in 0..100 /\ CoverageScore \in 0..100
    BY GradesArePercentages
  <1> HIDE DEF ClarificationScore, CoverageScore
  <1> QED
    BY <1>1, <1>2 DEF DialogOnlyGains

\* What the invariant of a dialog says of its topics and its grade.
LEMMA InterviewHolds == InterviewInv => ClarifiedWhenAsked
  BY DEF InterviewInv, StatusFollows, ClarifiedWhenAsked
-----------------------------------------------------------------------------
(* The study: one part at work, the others off *)

\* The part that is at work is sound.
StudyInv ==
  /\ ws # Off => WorkspaceInv
  /\ box # Off => SandboxInv
  /\ chaos # Off => ChaosInv
  /\ store # Off => StoreInv
  /\ text # Off => TextInv
  /\ contest # Off => TournamentInv
  /\ harness # Off => HarnessInv
  /\ plan # Off => PlanInv
  /\ budget # Off => OptimizerInv
  /\ terms # Off => TermsInv
  /\ eval # Off => EvaluationInv
  /\ dialog # Off => InterviewInv

\* A part that is at rest stays as sound as it is.
LEMMA PartsStay ==
  /\ WorkspaceInv /\ ws' = ws => WorkspaceInv'
  /\ SandboxInv /\ box' = box => SandboxInv'
  /\ ChaosInv /\ chaos' = chaos => ChaosInv'
  /\ StoreInv /\ store' = store => StoreInv'
  /\ TournamentInv /\ contest' = contest => TournamentInv'
  /\ HarnessInv /\ harness' = harness => HarnessInv'
  /\ PlanInv /\ plan' = plan => PlanInv'
  /\ OptimizerInv /\ budget' = budget => OptimizerInv'
  /\ TermsInv /\ terms' = terms => TermsInv'
  /\ EvaluationInv /\ eval' = eval => EvaluationInv'
  /\ InterviewInv /\ dialog' = dialog => InterviewInv'
  /\ TextInv /\ text' = text => TextInv'
  <1>1. WorkspaceInv /\ ws' = ws => WorkspaceInv'
    BY DEF WorkspaceInv, WritesInv, WritesStayInLayout, DiffInv
  <1>2. SandboxInv /\ box' = box => SandboxInv'
    BY DEF SandboxInv
  <1>3. ChaosInv /\ chaos' = chaos => ChaosInv'
    BY DEF ChaosInv
  <1>4. StoreInv /\ store' = store => StoreInv'
    BY DEF StoreInv
  <1>5. TournamentInv /\ contest' = contest => TournamentInv'
    BY DEF TournamentInv, SimulatedIsEarned, PlanIsSchedule
  <1>6. HarnessInv /\ harness' = harness => HarnessInv'
    BY DEF HarnessInv
  <1>7. PlanInv /\ plan' = plan => PlanInv'
    <2>1. AdmissionInv /\ plan' = plan => AdmissionInv'
      BY DEF AdmissionInv, MatrixTyped, AdmittedIsRunnable
    <2>2. (BindingInv \/ LedgerInv) /\ plan' = plan => (BindingInv \/ LedgerInv)'
      BY DEF BindingInv, LedgerInv, Kept, InMemory, InFile, DescribedAsPlanned
    <2> QED
      BY <2>1, <2>2 DEF PlanInv
  <1>8. OptimizerInv /\ budget' = budget => OptimizerInv'
    BY DEF OptimizerInv, RecommendationIsBest, Budgeting
  <1>9. TermsInv /\ terms' = terms => TermsInv'
    BY DEF TermsInv, ThinkingFits, ChargedOnce, AdapterIsEntitled
  <1>10. EvaluationInv /\ eval' = eval => EvaluationInv'
    BY DEF EvaluationInv, SoundChecks, EvidenceIsEarned, JudgedIsPercentage
  <1>11. InterviewInv /\ dialog' = dialog => InterviewInv'
    BY DEF InterviewInv
  <1>12. TextInv /\ text' = text => TextInv'
    BY DEF TextInv, YamlInv, YamlRecord, BodyInv, ManifestIsText, PromptInv, PromptIsWithinLimit
  <1> QED
    BY <1>1, <1>2, <1>3, <1>4, <1>5, <1>6, <1>7, <1>8, <1>9, <1>10, <1>11, <1>12

\* A study begins with a part that begins, the others being off.
LEMMA StudyStarts == Init => StudyInv
  BY WorkspaceStarts, SandboxStarts, ChaosStarts, StoreStarts, TextStarts, TournamentStarts,
     HarnessStarts, PlanStarts, OptimizerStarts, TermsStarts, EvaluationStarts, InterviewStarts DEF Init, StudyInv

\* What a step of the study is to each part.
LEMMA PartMoves ==
    ASSUME [Next]_vars
    PROVE  /\ (ws # Off /\ WorkspaceNext) \/ ws' = ws
           /\ (box # Off /\ SandboxNext) \/ box' = box
           /\ (chaos # Off /\ ChaosNext) \/ chaos' = chaos
           /\ (store # Off /\ StoreNext) \/ store' = store
           /\ (contest # Off /\ TournamentNext) \/ contest' = contest
           /\ (harness # Off /\ HarnessNext) \/ harness' = harness
           /\ (plan # Off /\ PlanNext) \/ plan' = plan
           /\ (budget # Off /\ OptimizerNext) \/ budget' = budget
           /\ (terms # Off /\ TermsNext) \/ terms' = terms
           /\ (eval # Off /\ EvaluationNext) \/ eval' = eval
           /\ (dialog # Off /\ InterviewNext) \/ dialog' = dialog
           /\ (text # Off /\ TextNext) \/ text' = text
  BY DEF Next, vars

\* Every step of a study keeps its part sound.
LEMMA StudyKeeps == StudyInv /\ [Next]_vars => StudyInv'
  <1> SUFFICES ASSUME StudyInv, [Next]_vars PROVE StudyInv'
    OBVIOUS
  <1>1. ws' # Off => WorkspaceInv'
    BY PartMoves, PartsStay, WorkspaceKeeps DEF StudyInv
  <1>2. box' # Off => SandboxInv'
    BY PartMoves, PartsStay, SandboxKeeps DEF StudyInv
  <1>3. chaos' # Off => ChaosInv'
    BY PartMoves, PartsStay, ChaosKeeps DEF StudyInv
  <1>4. store' # Off => StoreInv'
    BY PartMoves, PartsStay, StoreKeeps DEF StudyInv
  <1>5. contest' # Off => TournamentInv'
    BY PartMoves, PartsStay, TournamentKeeps DEF StudyInv
  <1>6. harness' # Off => HarnessInv'
    BY PartMoves, PartsStay, HarnessKeeps DEF StudyInv
  <1>7. plan' # Off => PlanInv'
    BY PartMoves, PartsStay, PlanKeeps DEF StudyInv
  <1>8. budget' # Off => OptimizerInv'
    BY PartMoves, PartsStay, OptimizerKeeps DEF StudyInv
  <1>9. terms' # Off => TermsInv'
    BY PartMoves, PartsStay, TermsKeeps DEF StudyInv
  <1>10. eval' # Off => EvaluationInv'
    BY PartMoves, PartsStay, EvaluationKeeps DEF StudyInv
  <1>11. dialog' # Off => InterviewInv'
    BY PartMoves, PartsStay, InterviewKeeps DEF StudyInv
  <1>12. text' # Off => TextInv'
    BY PartMoves, PartsStay, TextKeeps DEF StudyInv
  <1> QED
    BY <1>1, <1>2, <1>3, <1>4, <1>5, <1>6, <1>7, <1>8, <1>9, <1>10, <1>11, <1>12 DEF StudyInv

\* The invariant holds in every state of a study.
LEMMA StudyIsSound == Spec => []StudyInv
  BY StudyStarts, StudyKeeps, PTL DEF Spec

\* A run writes in its own directories only, whoever replaces them meanwhile; a
\* sandbox that has terminated has left nothing behind, and a collection told the
\* truth; what a rollback leaves in the container is of a late injection, a failed
\* cleanup or a process no pid file names; and a cached skill is of a download that
\* was verified, and all of it unless installs overlapped or a copy broke off
\* (openAuthorizedRunDirectory, ContainerInstance.teardown, restoreAll,
\* downloadSkill).
THEOREM RunsAreIsolated == Spec => []IsolationHolds
  <1>1. StudyInv => IsolationHolds
    BY WorkspaceHolds, SandboxHolds, ChaosHolds, StoreHolds DEF StudyInv, IsolationHolds
  <1> QED
    BY <1>1, StudyIsSound, PTL

\* A simulation is earned, a matrix is run whole, a history can be sent and a
\* catalog is its files; a sweep identity has one plan for ever; and whatever died
\* when, a checkpoint's accounts are right, it has what the callers were told, and
\* the validation of a resume accepts it unless sanitizing changed the descriptor
\* of a cell it tracks (ArenaRunner, runMatrix, pruneHistory, bindSweepPlan,
\* persistState, validateCheckpointStateContract).
THEOREM CampaignsAreWhole == Spec => []CampaignIsWhole
  <1>1. StudyInv => CampaignIsWhole
    BY TournamentHolds, HarnessHolds, PlanHolds DEF StudyInv, CampaignIsWhole
  <1> QED
    BY <1>1, StudyIsSound, PTL

\* A budget is overrun by what was admitted beside the last request and by what
\* answers reported beyond their estimates, thinking fits its model, and every
\* token is charged, and once where cached tokens count as input and reasoned ones
\* as output; a verdict follows from the checks, the judge and the dialog
\* (canExecute, releaseSlot, applyThinkingToGenerateOptions,
\* calculateDetailedCostUSD, createEvaluationEvidence, processTurn).
THEOREM ReckoningsHold == Spec => []ReckoningHolds
  <1>1. StudyInv => ReckoningHolds
    BY OptimizerHolds, TermsHolds, EvaluationHolds, InterviewHolds DEF StudyInv, ReckoningHolds
  <1> QED
    BY <1>1, StudyIsSound, PTL

\* A manifest for which git answered tells each change of its workspace as it is,
\* the value of a key is what its block's last lines since a bare one say, the
\* sections of a skill are its text and its rules those under headings of rules,
\* and a prompt shows no rule before a critical one that it leaves out
\* (extractDiffFromLocal, parseGitDiff, parseYamlBlock, parseSkillContent,
\* formatSkillPrompt).
THEOREM DerivedAreTrue == Spec => []DerivedIsTrue
  <1>1. StudyInv => DerivedIsTrue
    BY WorkspaceHolds, TextHolds DEF StudyInv, DerivedIsTrue
  <1> QED
    BY <1>1, StudyIsSound, PTL

\* A sandbox never comes back from its teardown, an open breaker admits nobody
\* before its time, and an interview takes no point away (teardown, canExecute,
\* evaluateClarificationTopics).
THEOREM NothingSteppedBack == Spec => NoStepBack
  <1>1. StudyInv /\ [Next]_vars => [NoneStepsBack]_vars
    <2> SUFFICES ASSUME StudyInv, [Next]_vars PROVE NoneStepsBack
      OBVIOUS
    <2>1. box # Off => TeardownIsFinal
      <3>1. SandboxInv /\ box' = box => TeardownIsFinal
        BY DEF SandboxInv, SoundBox, Dismantled, TeardownIsFinal
      <3> QED
        BY <3>1, PartMoves, SandboxKeeps DEF StudyInv
    <2>2. budget # Off => BreakerWaits
      <3>1. budget' = budget => BreakerWaits
        BY DEF BreakerWaits
      <3> QED
        BY <3>1, PartMoves, OptimizerKeeps DEF StudyInv
    <2>3. dialog # Off => DialogOnlyGains
      <3>1. ASSUME InterviewInv, dialog' = dialog PROVE DialogOnlyGains
        BY <3>1, RestTakesNothing
      <3> QED
        BY <3>1, PartMoves, InterviewKeeps DEF StudyInv
    <2> QED
      BY <2>1, <2>2, <2>3 DEF NoneStepsBack
  <1> QED
    BY <1>1, StudyIsSound, PTL DEF Spec, NoStepBack
=============================================================================
