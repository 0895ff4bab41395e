------------------------ MODULE ReminderScheduleProofs ------------------------
(***************************************************************************)
(* For every calendar, rule, zone and setting of quiet hours: the cursor   *)
(* emits the rule, what it emits is available outside quiet hours, and a   *)
(* search fails only where there is nothing to be found.                   *)
(***************************************************************************)
EXTENDS ReminderSchedule, FiniteSetTheorems, WellFoundedInduction, TLAPS

-----------------------------------------------------------------------------
(* Arithmetic *)

\* A set of numbers has a smallest one.
LEMMA LeastOf ==
    ASSUME NEW T, T \subseteq Nat, T # {}
    PROVE  \E n \in T : \A m \in T : n <= m
  <1> DEFINE R == OpToRel(<, Nat)
  <1>1. IsWellFoundedOn(R, Nat)
    BY NatLessThanWellFounded
  <1>2. \A x, y \in Nat : x < y => <<x, y>> \in R
    BY DEF OpToRel
  <1> HIDE DEF R
  <1>3. PICK x \in T : \A y \in T : <<y, x>> \notin R
    BY <1>1, WFMin
  <1>4. ASSUME NEW y \in T PROVE x <= y
    <2>1. x \in Nat /\ y \in Nat /\ ~(y < x)
      BY <1>2, <1>3
    <2> QED
      BY <2>1
  <1> QED
    BY <1>3, <1>4

\* What is closed under +1 and holds 0 is everything.
LEMMA SetInduction ==
    ASSUME NEW T, 0 \in T, \A n \in Nat : n \in T => n + 1 \in T
    PROVE  Nat \subseteq T
  <1> SUFFICES ASSUME Nat \ T # {} PROVE FALSE
    OBVIOUS
  <1>1. PICK n \in Nat \ T : \A m \in Nat \ T : n <= m
    BY LeastOf
  <1>2. n - 1 \in Nat /\ n - 1 \in T
    BY <1>1
  <1> QED
    BY <1>1, <1>2

LEMMA DivMod ==
    ASSUME NEW a \in Int, NEW b \in Nat \ {0}
    PROVE  /\ a \div b \in Int /\ a % b \in 0..(b - 1)
           /\ a = (b * (a \div b)) + (a % b)
  OBVIOUS

LEMMA DivUnique ==
    ASSUME NEW a \in Int, NEW b \in Nat \ {0}, NEW q \in Int, NEW r \in 0..(b - 1),
           a = b * q + r
    PROVE  a \div b = q /\ a % b = r
  OBVIOUS

LEMMA TimesOrder ==
    ASSUME NEW a \in Int, NEW b \in Int, NEW c \in Nat \ {0}, a < b
    PROVE  c * a + c <= c * b
  OBVIOUS

-----------------------------------------------------------------------------
(* Days *)

LEMMA UnitsType ==
    /\ DayLength \in Nat \ {0} /\ WeekLength \in Nat \ {0}
    /\ SearchDays \in Nat \ {0} /\ SearchMonths \in Nat \ {0}
    /\ Horizon \in Nat
  BY CalendarAssumption

\* A wall time is a date and a clock time.
LEMMA PartsOf ==
    ASSUME NEW wall \in Int
    PROVE  /\ DateOf(wall) \in Int /\ ClockOf(wall) \in 0..(DayLength - 1)
           /\ wall = Combine(DateOf(wall), ClockOf(wall))
  BY UnitsType, DivMod DEF DateOf, ClockOf, Combine

LEMMA CombineParts ==
    ASSUME NEW date \in Int, NEW clock \in 0..(DayLength - 1)
    PROVE  /\ Combine(date, clock) \in Int
           /\ DateOf(Combine(date, clock)) = date
           /\ ClockOf(Combine(date, clock)) = clock
  <1>1. /\ date * DayLength + clock \in Int
        /\ date * DayLength + clock = DayLength * date + clock
    BY UnitsType
  <1> QED
    BY <1>1, UnitsType, DivUnique DEF DateOf, ClockOf, Combine

LEMMA CombineOrder ==
    ASSUME NEW date \in Int, NEW later \in Int, date < later,
           NEW clock \in 0..(DayLength - 1), NEW other \in 0..(DayLength - 1)
    PROVE  Combine(date, clock) < Combine(later, other)
  <1>1. /\ DayLength * date + DayLength <= DayLength * later
        /\ DayLength * date = date * DayLength /\ DayLength * later = later * DayLength
        /\ DayLength * date \in Int /\ DayLength * later \in Int
    BY UnitsType, TimesOrder
  <1> QED
    BY <1>1, UnitsType DEF Combine

-----------------------------------------------------------------------------
(* The time zone *)

LEMMA ZoneFacts ==
    ASSUME NEW z \in Zones
    PROVE  /\ z.before \in Int /\ z.after \in Int /\ z.at \in Nat
           /\ z.before < DayLength /\ z.after < DayLength
           /\ 0 - z.before < DayLength /\ 0 - z.after < DayLength
  BY ScheduleAssumption, UnitsType DEF ZoneType

LEMMA WallType ==
    ASSUME NEW z \in Zones, NEW utc \in Int
    PROVE  ToWall(z, utc) \in Int
  BY ZoneFacts DEF ToWall

\* A wall time that resolves has exactly one candidate, its instant.
LEMMA ResolveFacts ==
    ASSUME NEW z \in Zones, NEW wall \in Int
    PROVE  /\ Resolve(z, wall) \in Int \cup {None}
           /\ Resolve(z, wall) # None =>
                 Candidates(z, wall) = {Resolve(z, wall)}
  <1> DEFINE C == Candidates(z, wall)
             both == {wall - z.before, wall - z.after}
  <1>1. C \subseteq both /\ both \subseteq Int
    BY ZoneFacts DEF Candidates
  <1>2. IsFiniteSet(both)
    <2>1. both = {wall - z.before} \cup {wall - z.after}
      OBVIOUS
    <2>2. IsFiniteSet({wall - z.before})
      BY FS_Singleton
    <2>3. IsFiniteSet({wall - z.before} \cup {wall - z.after})
      BY <2>2, FS_AddElement
    <2> QED
      BY <2>1, <2>3
  <1>3. IsFiniteSet(C)
    BY <1>1, <1>2, FS_Subset
  <1>4. CASE Cardinality(C) = 1
    <2>1. PICK x : C = {x}
      BY <1>3, <1>4, FS_Singleton
    <2>2. x \in Int
      BY <1>1, <2>1
    <2>3. Max(C) = x
      BY <2>1, <2>2 DEF Max
    <2> QED
      BY <1>4, <2>1, <2>2, <2>3 DEF Resolve
  <1>5. CASE Cardinality(C) # 1
    BY <1>5 DEF Resolve
  <1> QED
    BY <1>4, <1>5

\* It comes back to its wall time, and no other instant does.
LEMMA ResolveBack ==
    ASSUME NEW z \in Zones, NEW wall \in Int, Resolve(z, wall) # None
    PROVE  /\ Resolve(z, wall) \in Int /\ ToWall(z, Resolve(z, wall)) = wall
           /\ \A utc \in Int : ToWall(z, utc) = wall => utc = Resolve(z, wall)
  <1>1. /\ Resolve(z, wall) \in Int
        /\ Candidates(z, wall) = {Resolve(z, wall)}
    BY ResolveFacts
  <1>2. ToWall(z, Resolve(z, wall)) = wall
    BY <1>1 DEF Candidates
  <1>3. ASSUME NEW utc \in Int, ToWall(z, utc) = wall
        PROVE  utc = Resolve(z, wall)
    <2>1. utc \in {wall - z.before, wall - z.after}
      BY <1>3, ZoneFacts DEF ToWall
    <2> QED
      BY <1>1, <1>3, <2>1 DEF Candidates
  <1> QED
    BY <1>1, <1>2, <1>3

\* Also when the clocks go back: what is later on the wall and resolves is later.
LEMMA ResolveOrder ==
    ASSUME NEW z \in Zones, NEW utc \in Int, NEW wall \in Int,
           ToWall(z, utc) < wall, Resolve(z, wall) # None
    PROVE  utc < Resolve(z, wall)
  <1> DEFINE u == Resolve(z, wall)
  <1>1. /\ u \in Int /\ ToWall(z, u) = wall
        /\ \A v \in Int : ToWall(z, v) = wall => v = u
    BY ResolveBack
  <1> HIDE DEF u
  <1>2. wall - z.after \in Int
    BY ZoneFacts
  <1>3. ToWall(z, wall - z.after) = wall => wall - z.after = u
    BY <1>1, <1>2
  <1>4. utc < u
    BY <1>1, <1>3, ZoneFacts DEF ToWall
  <1> QED
    BY <1>4 DEF u

-----------------------------------------------------------------------------
(* Quiet hours *)

\* The end of a window is after every moment in it, and not in it.
LEMMA QuietEndFacts ==
    ASSUME NEW q \in QuietHours \ {None}, NEW wall \in Int, Covers(q, ClockOf(wall))
    PROVE  /\ QuietEnd(q, wall) \in Int /\ wall < QuietEnd(q, wall)
           /\ ~Covers(q, ClockOf(QuietEnd(q, wall)))
  <1>1. q.start \in 0..(DayLength - 1) /\ q.end \in 0..(DayLength - 1) /\ q.start # q.end
    BY ScheduleAssumption DEF QuietType
  <1>2. /\ DateOf(wall) \in Int /\ ClockOf(wall) \in 0..(DayLength - 1)
        /\ wall = Combine(DateOf(wall), ClockOf(wall))
    BY PartsOf
  <1> DEFINE over == q.start > q.end /\ ClockOf(wall) >= q.start
             date == DateOf(wall) + IF over THEN 1 ELSE 0
  <1>3. date \in Int /\ QuietEnd(q, wall) = Combine(date, q.end)
    BY <1>2 DEF QuietEnd
  <1>4. /\ Combine(date, q.end) \in Int
        /\ ClockOf(Combine(date, q.end)) = q.end
    BY <1>1, <1>3, CombineParts
  <1>5. ~Covers(q, q.end)
    BY <1>1, UnitsType DEF Covers
  <1>6. wall < Combine(date, q.end)
    <2>1. CASE over
      <3>1. DateOf(wall) < date
        BY <1>2, <2>1
      <3> QED
        BY <1>1, <1>2, <1>3, <3>1, CombineOrder
    <2>2. CASE ~over
      <3>1. date = DateOf(wall)
        BY <1>2, <2>2
      <3>2. ClockOf(wall) < q.end
        BY <1>1, <1>2, <2>2, UnitsType DEF Covers
      <3> QED
        BY <1>1, <1>2, <3>1, <3>2, UnitsType DEF Combine
    <2> QED
      BY <2>1, <2>2
  <1> QED
    BY <1>3, <1>4, <1>5, <1>6

LEMMA AvailableFacts ==
    ASSUME NEW z \in Zones, NEW q \in QuietHours, NEW utc \in Int
    PROVE  /\ AvailableAt(z, q, utc) \in Int \cup {None}
           /\ AvailableAt(z, q, utc) # None =>
                 /\ AvailableAt(z, q, utc) >= utc
                 /\ q # None => ~Covers(q, ClockOf(ToWall(z, AvailableAt(z, q, utc))))
  <1>1. CASE q = None \/ ~Covers(q, ClockOf(ToWall(z, utc)))
    BY <1>1 DEF AvailableAt
  <1>2. CASE q # None /\ Covers(q, ClockOf(ToWall(z, utc)))
    <2> DEFINE wall == QuietEnd(q, ToWall(z, utc))
    <2>1. /\ wall \in Int /\ ToWall(z, utc) < wall /\ ~Covers(q, ClockOf(wall))
      BY <1>2, WallType, QuietEndFacts
    <2>2. AvailableAt(z, q, utc) = Resolve(z, wall)
      BY <1>2 DEF AvailableAt
    <2> HIDE DEF wall
    <2>3. Resolve(z, wall) \in Int \cup {None}
      BY <2>1, ResolveFacts
    <2>4. Resolve(z, wall) # None =>
            /\ Resolve(z, wall) > utc
            /\ ToWall(z, Resolve(z, wall)) = wall
      BY <2>1, ResolveBack, ResolveOrder
    <2> QED
      BY <2>1, <2>2, <2>3, <2>4
  <1> QED
    BY <1>1, <1>2

-----------------------------------------------------------------------------
(* Months *)

LEMMA LengthType ==
    /\ Len(MonthLengths) \in Nat \ {0}
    /\ \A m \in Int : LengthOf(m) \in Nat \ {0}
  <1>1. MonthLengths \in Seq(Nat \ {0}) /\ Len(MonthLengths) \in Nat \ {0}
    BY CalendarAssumption
  <1>2. ASSUME NEW m \in Int PROVE LengthOf(m) \in Nat \ {0}
    <2>1. m % Len(MonthLengths) \in 0..(Len(MonthLengths) - 1)
      BY <1>1, DivMod
    <2>2. (m % Len(MonthLengths)) + 1 \in 1..Len(MonthLengths)
      BY <1>1, <2>1
    <2> QED
      BY <1>1, <2>2 DEF LengthOf
  <1> QED
    BY <1>1, <1>2

LEMMA LengthPositive ==
    ASSUME NEW m \in Nat
    PROVE  LengthOf(m) \in Nat \ {0}
  <1>1. m \in Int
    OBVIOUS
  <1> QED
    BY <1>1, LengthType

\* The recursion that defines FirstDay has a solution: the solutions up to each
\* month exist and agree.
LEMMA FirstDayEquation ==
    FirstDay = [m \in Nat |-> IF m = 0 THEN 0 ELSE FirstDay[m - 1] + LengthOf(m - 1)]
  <1> DEFINE Upto(n) ==
               {g \in [0..n -> Nat] :
                   /\ g[0] = 0
                   /\ \A m \in 1..n : g[m] = g[m - 1] + LengthOf(m - 1)}
             T == {n \in Nat : Upto(n) # {}}
             Agree(x) == \A n, k \in Nat : x <= n /\ x <= k =>
                            \A g \in Upto(n), h \in Upto(k) : g[x] = h[x]
             A == {x \in Nat : Agree(x)}
  <1>0. ASSUME NEW n \in Nat, NEW g
        PROVE  g \in Upto(n) <=>
                  /\ g \in [0..n -> Nat] /\ g[0] = 0
                  /\ \A m \in 1..n : g[m] = g[m - 1] + LengthOf(m - 1)
    OBVIOUS
  <1> HIDE DEF Upto
  <1>1. Nat \subseteq T
    <2>1. 0 \in T
      <3> DEFINE g == [x \in 0..0 |-> 0]
      <3>1. g \in [0..0 -> Nat] /\ g[0] = 0 /\ 1..0 = {}
        OBVIOUS
      <3> HIDE DEF g
      <3>2. g \in Upto(0)
        BY <1>0, <3>1
      <3> QED
        BY <3>2
    <2>2. ASSUME NEW n \in Nat, n \in T PROVE n + 1 \in T
      <3>1. PICK g \in Upto(n) : TRUE
        BY <2>2
      <3> DEFINE h == [x \in 0..(n + 1) |-> IF x = n + 1 THEN g[n] + LengthOf(n) ELSE g[x]]
      <3>2. LengthOf(n) \in Nat
        BY LengthType
      <3>3. h \in [0..(n + 1) -> Nat]
        BY <1>0, <3>1, <3>2
      <3>4. h[0] = 0
        BY <1>0, <3>1
      <3>5. ASSUME NEW m \in 1..(n + 1) PROVE h[m] = h[m - 1] + LengthOf(m - 1)
        <4>1. CASE m = n + 1
          BY <4>1
        <4>2. CASE m # n + 1
          <5>1. m \in 1..n /\ m - 1 \in 0..n
            BY <4>2
          <5> QED
            BY <1>0, <3>1, <4>2, <5>1
        <4> QED
          BY <4>1, <4>2
      <3> HIDE DEF h
      <3>6. h \in Upto(n + 1)
        BY <1>0, <3>3, <3>4, <3>5
      <3> QED
        BY <3>6
    <2> HIDE DEF T
    <2> QED
      BY <2>1, <2>2, SetInduction
  <1>2. Nat \subseteq A
    <2>1. 0 \in A
      BY <1>0
    <2>2. ASSUME NEW x \in Nat, x \in A PROVE x + 1 \in A
      <3>1. ASSUME NEW n \in Nat, NEW k \in Nat, x + 1 <= n, x + 1 <= k,
                   NEW g \in Upto(n), NEW h \in Upto(k)
            PROVE  g[x + 1] = h[x + 1]
        <4>1. x <= n /\ x <= k
          BY <3>1
        <4>2. Agree(x)
          BY <2>2
        <4>3. g[x] = h[x]
          BY <4>1, <4>2
        <4>4. x + 1 \in 1..n /\ x + 1 \in 1..k /\ (x + 1) - 1 = x
          BY <3>1
        <4>5. g[x + 1] = g[x] + LengthOf(x)
          BY <1>0, <4>4
        <4>6. h[x + 1] = h[x] + LengthOf(x)
          BY <1>0, <4>4
        <4> QED
          BY <4>3, <4>5, <4>6
      <3>2. Agree(x + 1)
        BY <3>1
      <3> QED
        BY <3>2
    <2> HIDE DEF A
    <2> QED
      BY <2>1, <2>2, SetInduction
  <1> DEFINE G == [n \in Nat |-> CHOOSE g \in Upto(n) : TRUE]
             F == [n \in Nat |-> G[n][n]]
  <1>3. \A n \in Nat : G[n] \in Upto(n)
    BY <1>1
  <1>4. ASSUME NEW m \in Nat
        PROVE  F[m] = IF m = 0 THEN 0 ELSE F[m - 1] + LengthOf(m - 1)
    <2>1. CASE m = 0
      BY <1>0, <1>3, <2>1
    <2>2. CASE m # 0
      <3>1. m - 1 \in Nat /\ m \in 1..m /\ m - 1 <= m
        BY <2>2
      <3>2. G[m] \in Upto(m) /\ G[m - 1] \in Upto(m - 1)
        BY <1>3, <3>1
      <3>3. G[m][m] = G[m][m - 1] + LengthOf(m - 1)
        BY <1>0, <3>1, <3>2
      <3>4. G[m][m - 1] = G[m - 1][m - 1]
        <4>1. Agree(m - 1)
          BY <1>2, <3>1
        <4> HIDE DEF G
        <4> QED
          BY <3>1, <3>2, <4>1
      <3> QED
        BY <2>2, <3>1, <3>3, <3>4
    <2> QED
      BY <2>1, <2>2
  <1> HIDE DEF G
  <1>5. F = [m \in Nat |-> IF m = 0 THEN 0 ELSE F[m - 1] + LengthOf(m - 1)]
    BY <1>4
  <1> HIDE DEF F
  <1> QED
    BY <1>5 DEF FirstDay

LEMMA FirstDayStep ==
    /\ FirstDay[0] = 0
    /\ \A m \in Nat : FirstDay[m + 1] = FirstDay[m] + LengthOf(m)
  <1>1. \A m \in Nat : FirstDay[m] = IF m = 0 THEN 0 ELSE FirstDay[m - 1] + LengthOf(m - 1)
    BY FirstDayEquation
  <1>2. ASSUME NEW m \in Nat PROVE FirstDay[m + 1] = FirstDay[m] + LengthOf(m)
    <2>1. m + 1 \in Nat /\ m + 1 # 0 /\ (m + 1) - 1 = m
      OBVIOUS
    <2> QED
      BY <1>1, <2>1
  <1> QED
    BY <1>1, <1>2

LEMMA FirstDayType ==
    ASSUME NEW m \in Nat
    PROVE  FirstDay[m] \in Nat /\ FirstDay[m] >= m
  <1> DEFINE T == {n \in Nat : FirstDay[n] \in Nat /\ FirstDay[n] >= n}
  <1>1. 0 \in T
    BY FirstDayStep
  <1>2. ASSUME NEW n \in Nat, n \in T PROVE n + 1 \in T
    <2>1. FirstDay[n + 1] = FirstDay[n] + LengthOf(n)
      BY FirstDayStep
    <2>2. LengthOf(n) \in Nat \ {0}
      BY LengthPositive
    <2> QED
      BY <1>2, <2>1, <2>2
  <1> HIDE DEF T
  <1>3. Nat \subseteq T
    BY <1>1, <1>2, SetInduction
  <1> QED
    BY <1>3 DEF T

\* A later month begins after the end of an earlier one.
LEMMA FirstDayOrder ==
    ASSUME NEW m \in Nat, NEW k \in Nat, m < k
    PROVE  FirstDay[m] + LengthOf(m) <= FirstDay[k]
  <1> DEFINE T == {n \in Nat : FirstDay[m + 1] <= FirstDay[m + 1 + n]}
  <1>1. 0 \in T
    BY FirstDayType
  <1>2. ASSUME NEW n \in Nat, n \in T PROVE n + 1 \in T
    <2>1. /\ m + 1 + n \in Nat /\ (m + 1 + n) + 1 = m + 1 + (n + 1)
          /\ m + 1 \in Nat
      OBVIOUS
    <2>2. FirstDay[(m + 1 + n) + 1] = FirstDay[m + 1 + n] + LengthOf(m + 1 + n)
      BY <2>1, FirstDayStep
    <2>3. /\ LengthOf(m + 1 + n) \in Nat /\ FirstDay[m + 1 + n] \in Nat
          /\ FirstDay[m + 1] \in Nat
      BY <2>1, FirstDayType, LengthPositive
    <2> QED
      BY <1>2, <2>1, <2>2, <2>3
  <1>3. Nat \subseteq T
    <2> HIDE DEF T
    <2> QED
      BY <1>1, <1>2, SetInduction
  <1>4. k - (m + 1) \in Nat /\ m + 1 + (k - (m + 1)) = k
    OBVIOUS
  <1>5. FirstDay[m + 1] <= FirstDay[k]
    BY <1>3, <1>4
  <1> QED
    BY <1>5, FirstDayStep

\* Every day is in exactly one month.
LEMMA MonthFacts ==
    ASSUME NEW date \in Nat
    PROVE  /\ MonthOf(date) \in 0..date
           /\ FirstDay[MonthOf(date)] <= date
           /\ date < FirstDay[MonthOf(date)] + LengthOf(MonthOf(date))
  <1> DEFINE T == {n \in Nat : date < FirstDay[n + 1]}
  <1>1. date \in T
    BY FirstDayType
  <1>2. PICK m \in T : \A k \in T : m <= k
    BY <1>1, LeastOf
  <1>3. FirstDay[m] <= date
    <2>1. CASE m = 0
      BY <2>1, FirstDayStep
    <2>2. CASE m # 0
      <3>1. m - 1 \in Nat /\ (m - 1) + 1 = m /\ ~(m <= m - 1)
        BY <2>2
      <3>2. m - 1 \notin T
        BY <1>2, <3>1
      <3> QED
        BY <3>1, <3>2, FirstDayType
    <2> QED
      BY <2>1, <2>2
  <1>4. m \in 0..date
    BY <1>3, FirstDayType
  <1>5. /\ MonthOf(date) \in 0..date
        /\ FirstDay[MonthOf(date)] <= date /\ date < FirstDay[MonthOf(date) + 1]
    BY <1>2, <1>3, <1>4 DEF MonthOf
  <1> QED
    BY <1>5, FirstDayStep

LEMMA MonthUnique ==
    ASSUME NEW date \in Nat, NEW m \in Nat,
           FirstDay[m] <= date, date < FirstDay[m] + LengthOf(m)
    PROVE  MonthOf(date) = m
  <1> DEFINE k == MonthOf(date)
  <1>1. /\ k \in Nat /\ FirstDay[k] <= date /\ date < FirstDay[k] + LengthOf(k)
    BY MonthFacts
  <1> HIDE DEF k
  <1>2. /\ FirstDay[k] \in Nat /\ FirstDay[m] \in Nat
        /\ LengthOf(k) \in Nat /\ LengthOf(m) \in Nat
    BY <1>1, FirstDayType, LengthPositive
  <1>3. ~(k < m)
    BY <1>1, <1>2, FirstDayOrder
  <1>4. ~(m < k)
    BY <1>1, <1>2, FirstDayOrder
  <1> QED
    BY <1>1, <1>3, <1>4 DEF k

\* A day of a month is in that month, and the months' days come in their order.
LEMMA DateInFacts ==
    ASSUME NEW m \in Nat, NEW day \in Nat \ {0}, HasDay(m, day)
    PROVE  /\ DateIn(m, day) \in Nat /\ DateIn(m, day) >= m
           /\ MonthOf(DateIn(m, day)) = m
  <1>1. FirstDay[m] \in Nat /\ FirstDay[m] >= m /\ LengthOf(m) \in Nat
    BY FirstDayType, LengthType
  <1>2. /\ DateIn(m, day) \in Nat /\ DateIn(m, day) >= m
        /\ FirstDay[m] <= DateIn(m, day)
        /\ DateIn(m, day) < FirstDay[m] + LengthOf(m)
    BY <1>1 DEF DateIn, HasDay
  <1> QED
    BY <1>2, MonthUnique

LEMMA DateInOrder ==
    ASSUME NEW m \in Nat, NEW k \in Nat, m < k, NEW day \in Nat \ {0},
           NEW date \in Nat, MonthOf(date) = m
    PROVE  date < DateIn(k, day)
  <1>1. date < FirstDay[m] + LengthOf(m)
    BY MonthFacts
  <1>2. FirstDay[m] + LengthOf(m) <= FirstDay[k]
    BY FirstDayOrder
  <1>3. FirstDay[m] \in Nat /\ FirstDay[k] \in Nat /\ LengthOf(m) \in Nat
    BY FirstDayType, LengthPositive
  <1> QED
    BY <1>1, <1>2, <1>3 DEF DateIn

LEMMA DayOfMonthType ==
    ASSUME NEW date \in Nat
    PROVE  DayOfMonth(date) \in Nat \ {0}
  <1> DEFINE m == MonthOf(date)
  <1>1. m \in Nat /\ FirstDay[m] <= date
    BY MonthFacts
  <1>2. FirstDay[m] \in Nat
    BY <1>1, FirstDayType
  <1> HIDE DEF m
  <1>3. date - FirstDay[m] + 1 \in Nat \ {0}
    BY <1>1, <1>2
  <1> QED
    BY <1>3 DEF DayOfMonth, m

-----------------------------------------------------------------------------
(* The searches *)

LEMMA RuleFacts ==
    ASSUME NEW r \in Rules
    PROVE  /\ r.interval \in Nat \ {0} /\ r.weekdays \subseteq 0..(WeekLength - 1)
           /\ r.monthday \in (Nat \ {0}) \cup {None}
           /\ r.count \in (Nat \ {0}) \cup {None}
           /\ r.until \in Nat \cup {None}
           /\ r.kind \in {"once", "daily", "weekly", "monthly"}
           /\ r.kind = "once" => r.count = None /\ r.until = None
  BY ScheduleAssumption DEF RuleType, LegalShape

LEMMA ConstantFacts ==
    None \notin Int /\ Fails \notin Int /\ Fails # None
  BY ScheduleAssumption

\* Counting up finds the smallest number of a set.
LEMMA MinFacts ==
    ASSUME NEW S, S \subseteq Nat, S # {}
    PROVE  Min(S) \in S /\ \A n \in S : Min(S) <= n
  <1>1. \E n \in S : \A m \in S : n <= m
    BY LeastOf
  <1> QED
    BY <1>1 DEF Min

\* What the weekly search looks for: the weeks from the anchor's on in steps of
\* the interval, and in them the weekdays of the rule.
WeekOf(from)     == DateOf(from) - WeekdayOf(DateOf(from))
DaysOf(r, from)  == IF r.weekdays = {} THEN {WeekdayOf(DateOf(from))} ELSE r.weekdays
InWeeks(r, from, date) ==
    /\ ((date - WeekOf(from)) \div WeekLength) % r.interval = 0
    /\ WeekdayOf(date) \in DaysOf(r, from)

LEMMA WeekFacts ==
    ASSUME NEW r \in Rules, NEW from \in Nat
    PROVE  /\ DaysOf(r, from) \subseteq 0..(WeekLength - 1) /\ DaysOf(r, from) # {}
           /\ WeekOf(from) \in Nat /\ WeekOf(from) <= DateOf(from)
           /\ \E s \in Int : WeekOf(from) = WeekLength * s
  <1>1. /\ DateOf(from) \in Nat /\ DateOf(from) \in Int /\ WeekLength \in Nat \ {0}
    BY UnitsType DEF DateOf
  <1>2. /\ WeekdayOf(DateOf(from)) \in 0..(WeekLength - 1)
        /\ DateOf(from) \div WeekLength \in Int
        /\ DateOf(from) = (WeekLength * (DateOf(from) \div WeekLength)) + WeekdayOf(DateOf(from))
    BY <1>1, DivMod DEF WeekdayOf
  <1>3. /\ WeekOf(from) = WeekLength * (DateOf(from) \div WeekLength)
        /\ WeekOf(from) \in Nat /\ WeekOf(from) <= DateOf(from)
    <2>1. WeekLength * (DateOf(from) \div WeekLength) \in Nat
      <3>1. DateOf(from) \div WeekLength \in Nat
        BY <1>1
      <3> QED
        BY <1>1, <3>1
    <2> QED
      BY <1>1, <1>2, <2>1 DEF WeekOf
  <1>4. DaysOf(r, from) \subseteq 0..(WeekLength - 1) /\ DaysOf(r, from) # {}
    BY <1>2, RuleFacts DEF DaysOf
  <1> QED
    BY <1>2, <1>3, <1>4

\* A date the search accepts, by the step of weeks it is in and its weekday.
LEMMA InWeeksForm ==
    ASSUME NEW r \in Rules, NEW from \in Nat, NEW date \in Int
    PROVE  InWeeks(r, from, date) <=>
             \E k \in Int, w \in DaysOf(r, from) :
                date = WeekOf(from) + WeekLength * r.interval * k + w
  <1> DEFINE W == WeekLength
             i == r.interval
             q == (date - WeekOf(from)) \div W
  <1>1. W \in Nat \ {0} /\ i \in Nat \ {0}
    BY UnitsType, RuleFacts
  <1>2. PICK s \in Int : WeekOf(from) = W * s
    BY WeekFacts
  <1>3. W * s \in Int /\ DaysOf(r, from) \subseteq 0..(W - 1)
    BY <1>1, WeekFacts
  <1>4. ASSUME InWeeks(r, from, date)
        PROVE  \E k \in Int, w \in DaysOf(r, from) : date = WeekOf(from) + W * i * k + w
    <2> DEFINE w == date % W
               k == q \div i
    <2>1. w \in DaysOf(r, from) /\ q % i = 0
      BY <1>4 DEF InWeeks, WeekdayOf
    <2>2. w \in 0..(W - 1) /\ date \div W \in Int /\ date = (W * (date \div W)) + w
      BY <1>1, DivMod
    <2>3. q = (date \div W) - s
      <3>1. /\ date - W * s = W * ((date \div W) - s) + w
            /\ (date \div W) - s \in Int /\ date - W * s \in Int
        BY <1>1, <1>3, <2>2
      <3> QED
        BY <1>1, <1>2, <2>2, <3>1, DivUnique
    <2>4. q \in Int
      BY <2>2, <2>3
    <2> HIDE DEF q, w
    <2>5. k \in Int /\ q = i * k
      <3>1. q \div i \in Int /\ q = (i * (q \div i)) + (q % i)
        BY <1>1, <2>4, DivMod
      <3>2. i * (q \div i) \in Int
        BY <1>1, <3>1
      <3> QED
        BY <2>1, <3>1, <3>2
    <2>6. date = W * s + W * q + w
      BY <1>1, <2>2, <2>3
    <2> HIDE DEF k
    <2>7. W * (i * k) = W * i * k
      BY <1>1, <2>5
    <2>8. date = WeekOf(from) + W * i * k + w
      BY <1>2, <2>5, <2>6, <2>7
    <2> QED
      BY <2>1, <2>5, <2>8
  <1>5. ASSUME NEW k \in Int, NEW w \in DaysOf(r, from), date = WeekOf(from) + W * i * k + w
        PROVE  InWeeks(r, from, date)
    <2>1. w \in 0..(W - 1)
      BY <1>3
    <2>2. i * k \in Int /\ s + i * k \in Int /\ W * (s + i * k) = W * s + W * i * k
      BY <1>1
    <2>3. date - WeekOf(from) = W * (i * k) + w
      BY <1>1, <1>2, <1>3, <1>5, <2>1, <2>2
    <2>4. q = i * k
      BY <1>1, <1>2, <1>3, <2>1, <2>2, <2>3, DivUnique
    <2>5. date = W * (s + i * k) + w
      BY <1>1, <1>2, <1>5, <2>1, <2>2
    <2>6. WeekdayOf(date) = w
      BY <1>1, <2>1, <2>2, <2>5, DivUnique DEF WeekdayOf
    <2>7. (i * k) % i = 0
      <3>1. i * k = i * k + 0 /\ 0 \in 0..(i - 1)
        BY <1>1
      <3> QED
        BY <1>1, <2>2, <3>1, DivUnique
    <2> QED
      BY <2>4, <2>6, <2>7 DEF InWeeks
  <1> QED
    BY <1>4, <1>5

\* The weekly search never fails, and what it finds is the first date after
\* after's, within one step of weeks.
LEMMA WeeklyFinds ==
    ASSUME NEW r \in Rules, NEW from \in Nat, NEW after \in Int
    PROVE  \E date \in Int :
              /\ NextWeekly(r, from, after) = Combine(date, ClockOf(from))
              /\ DateOf(after) < date /\ date <= DateOf(after) + WeekLength * r.interval
              /\ InWeeks(r, from, date)
              /\ \A d \in Int : DateOf(after) < d /\ InWeeks(r, from, d) => date <= d
  <1> DEFINE P == WeekLength * r.interval
             a == DateOf(after)
             S == {n \in 1..SearchDays : InWeeks(r, from, a + n)}
  <1>1. /\ a \in Int /\ WeekOf(from) \in Int
        /\ DaysOf(r, from) \subseteq 0..(WeekLength - 1) /\ DaysOf(r, from) # {}
    <2>1. a \in Int
      BY PartsOf
    <2>2. WeekOf(from) \in Nat
      BY WeekFacts
    <2>3. DaysOf(r, from) \subseteq 0..(WeekLength - 1) /\ DaysOf(r, from) # {}
      BY WeekFacts
    <2> QED
      BY <2>1, <2>2, <2>3
  <1>2. P \in Nat \ {0} /\ P <= SearchDays /\ SearchDays \in Nat
    <2>1. WeekLength \in Nat \ {0} /\ r.interval \in Nat \ {0} /\ SearchDays \in Nat
      BY UnitsType, RuleFacts
    <2>2. r.interval * WeekLength <= SearchDays
      BY SearchAssumption
    <2> QED
      BY <2>1, <2>2
  <1> HIDE DEF a
  <1>3. \E n \in S : n <= P
    <2>1. PICK w \in DaysOf(r, from) : w \in Int
      BY <1>1
    <2> DEFINE x == WeekOf(from) + w - a - 1
    <2>2. x \in Int
      BY <1>1, <2>1
    <2>3. /\ x \div P \in Int /\ x % P \in 0..(P - 1)
          /\ x = (P * (x \div P)) + (x % P)
      BY <1>2, <2>2, DivMod
    <2> DEFINE n == (x % P) + 1
               k == 0 - (x \div P)
    <2>4. n \in 1..P /\ k \in Int
      BY <1>2, <2>3
    <2>5. a + n = WeekOf(from) + P * k + w
      <3> DEFINE y == P * (x \div P)
                 t == x % P
      <3>1. P * k = 0 - y /\ P * k \in Int /\ y \in Int
        BY <1>2, <2>3
      <3>2. x = y + t /\ t \in Int /\ n = t + 1
        BY <1>2, <2>3
      <3>3. x = WeekOf(from) + w - a - 1
        OBVIOUS
      <3> HIDE DEF k, y, t, x, n, P
      <3> QED
        BY <1>1, <2>1, <3>1, <3>2, <3>3
    <2> HIDE DEF n, k, x
    <2>6. a + n \in Int
      BY <1>1, <2>4
    <2>7. InWeeks(r, from, a + n)
      BY <2>1, <2>4, <2>5, <2>6, InWeeksForm
    <2> QED
      BY <1>2, <2>4, <2>7
  <1>4. S \subseteq Nat /\ S # {}
    BY <1>3
  <1> DEFINE n == Min(S)
  <1>5. n \in S /\ \A m \in S : n <= m
    BY <1>4, MinFacts
  <1>6. NextWeekly(r, from, after) = Combine(a + n, ClockOf(from))
    <2>1. n # Fails
      BY <1>5, ConstantFacts
    <2>2. \E m \in 1..SearchDays : InWeeks(r, from, a + m)
      BY <1>3
    <2> QED
      BY <2>1, <2>2 DEF NextWeekly, FirstOf, InWeeks, WeekOf, DaysOf, a
  <1> HIDE DEF n
  <1>7. a < a + n /\ a + n \in Int /\ a + n <= a + P /\ InWeeks(r, from, a + n)
    BY <1>1, <1>2, <1>3, <1>5
  <1>8. ASSUME NEW d \in Int, a < d, InWeeks(r, from, d)
        PROVE  a + n <= d
    <2>1. d - a \in Nat \ {0} /\ a + (d - a) = d
      BY <1>1, <1>8
    <2>2. CASE d - a <= SearchDays
      <3>1. d - a \in S
        BY <1>2, <1>8, <2>1, <2>2
      <3> QED
        BY <1>1, <1>5, <2>1, <3>1
    <2>3. CASE ~(d - a <= SearchDays)
      BY <1>1, <1>2, <1>5, <2>1, <2>3
    <2> QED
      BY <2>2, <2>3
  <1> QED
    BY <1>6, <1>7, <1>8 DEF a

\* The months a monthly rule reaches, and the day of them it asks for.
DayOf(r, from)      == IF r.monthday = None THEN DayOfMonth(DateOf(from)) ELSE r.monthday
MonthAt(r, from, k) == MonthOf(DateOf(from)) + k * r.interval

LEMMA MonthAtType ==
    ASSUME NEW r \in Rules, NEW from \in Nat
    PROVE  /\ DateOf(from) \in Nat /\ MonthOf(DateOf(from)) \in Nat
           /\ MonthOf(DateOf(from)) <= DateOf(from)
           /\ DayOf(r, from) \in Nat \ {0}
           /\ \A k \in Int : MonthAt(r, from, k) \in Int
           /\ \A k \in Nat : MonthAt(r, from, k) \in Nat
  <1>1. DateOf(from) \in Nat
    BY UnitsType DEF DateOf
  <1>2. MonthOf(DateOf(from)) \in 0..DateOf(from)
    BY <1>1, MonthFacts
  <1>3. DayOf(r, from) \in Nat \ {0}
    BY <1>1, DayOfMonthType, RuleFacts DEF DayOf
  <1>4. ASSUME NEW k \in Int PROVE MonthAt(r, from, k) \in Int /\ (k \in Nat => MonthAt(r, from, k) \in Nat)
    <2>1. k * r.interval \in Int /\ (k \in Nat => k * r.interval \in Nat)
      BY RuleFacts
    <2> QED
      BY <1>1, <1>2, <2>1 DEF MonthAt
  <1> QED
    BY <1>1, <1>2, <1>3, <1>4

LEMMA MonthAtOrder ==
    ASSUME NEW r \in Rules, NEW from \in Nat, NEW j \in Nat, NEW k \in Nat
    PROVE  /\ j < k <=> MonthAt(r, from, j) < MonthAt(r, from, k)
           /\ j <= MonthAt(r, from, j)
  <1>1. r.interval \in Nat \ {0} /\ MonthOf(DateOf(from)) \in Nat
    BY RuleFacts, MonthAtType
  <1>2. j * r.interval \in Nat /\ k * r.interval \in Nat /\ j <= j * r.interval
    BY <1>1
  <1>3. j < k => j * r.interval < k * r.interval
    BY <1>1
  <1>4. k <= j => k * r.interval <= j * r.interval
    BY <1>1
  <1> QED
    BY <1>1, <1>2, <1>3, <1>4 DEF MonthAt

\* The lengths of the months repeat.
LEMMA LengthRepeats ==
    ASSUME NEW m \in Int, NEW k \in Int, NEW j \in Int, k = m + Len(MonthLengths) * j
    PROVE  LengthOf(k) = LengthOf(m)
  <1> DEFINE L == Len(MonthLengths)
  <1>1. L \in Nat \ {0}
    BY LengthType
  <1>2. m \div L \in Int /\ m % L \in 0..(L - 1) /\ m = (L * (m \div L)) + (m % L)
    BY <1>1, DivMod
  <1>3. (m \div L) + j \in Int /\ k = L * ((m \div L) + j) + (m % L)
    BY <1>1, <1>2
  <1>4. k % L = m % L
    BY <1>1, <1>2, <1>3, DivUnique
  <1> QED
    BY <1>4 DEF LengthOf

\* From every month of the rule on, the longest of its months is tried.
LEMMA SearchReaches ==
    ASSUME NEW r \in Rules, NEW m \in Int, NEW k \in Int
    PROVE  \E n \in 1..SearchMonths :
              LengthOf(m + k * r.interval) <= LengthOf(m + n * r.interval)
  <1> DEFINE L == Len(MonthLengths)
             i == r.interval
             c == ((k - 1) % L) + 1
             b == m % L
             u == m \div L
             v == (k - 1) \div L
  <1>1. L \in Nat \ {0} /\ i \in Nat \ {0} /\ SearchMonths \in Nat
    BY LengthType, RuleFacts, UnitsType
  <1>2. u \in Int /\ b \in 0..(L - 1) /\ m = (L * u) + b
    BY <1>1, DivMod
  <1>3. c \in 1..L /\ v \in Int /\ k = (L * v) + c
    <2>1. k - 1 \in Int
      OBVIOUS
    <2>2. v \in Int /\ (k - 1) % L \in 0..(L - 1) /\ k - 1 = (L * v) + ((k - 1) % L)
      BY <1>1, <2>1, DivMod
    <2>3. L * v \in Int
      BY <1>1, <2>2
    <2> QED
      BY <1>1, <2>2, <2>3
  <1> HIDE DEF L, b, c, u, v, i
  <1>4. PICK n \in 1..SearchMonths : LengthOf(b + c * i) <= LengthOf(b + n * i)
    BY <1>2, <1>3, SearchAssumption DEF L, i
  <1>5. n \in Int
    BY <1>1
  <1>6. LengthOf(m + n * i) = LengthOf(b + n * i)
    <2>1. /\ b + n * i \in Int /\ m + n * i \in Int
          /\ m + n * i = (b + n * i) + L * u
      BY <1>1, <1>2, <1>5
    <2> QED
      BY <1>2, <2>1, LengthRepeats DEF L
  <1>7. LengthOf(m + k * i) = LengthOf(b + c * i)
    <2>1. b + c * i \in Int /\ m + k * i \in Int /\ u + v * i \in Int
      BY <1>1, <1>2, <1>3
    <2>2. k * i = (L * v) * i + c * i
      BY <1>1, <1>3
    <2>3. (L * v) * i = L * (v * i) /\ L * (u + v * i) = L * u + L * (v * i)
      BY <1>1, <1>2, <1>3
    <2>4. L * u \in Int /\ L * (v * i) \in Int /\ c * i \in Int /\ b \in Int
      BY <1>1, <1>2, <1>3
    <2>5. m + k * i = (b + c * i) + L * (u + v * i)
      BY <1>2, <2>2, <2>3, <2>4
    <2> QED
      BY <2>1, <2>5, LengthRepeats DEF L
  <1> QED
    BY <1>4, <1>6, <1>7 DEF i

\* The monthly search from the j-th month of the rule: it fails only when none
\* of the rule's months has the day, and finds the first month that has it.
LEMMA MonthlyFinds ==
    ASSUME NEW r \in Rules, NEW from \in Nat, NEW after \in Nat, NEW j \in Nat,
           MonthOf(DateOf(after)) = MonthAt(r, from, j)
    PROVE  \/ /\ NextMonthly(r, from, after) = Fails
              /\ \A k \in Int : ~HasDay(MonthAt(r, from, k), DayOf(r, from))
           \/ \E n \in 1..SearchMonths :
                 /\ HasDay(MonthAt(r, from, j + n), DayOf(r, from))
                 /\ NextMonthly(r, from, after) =
                       Combine(DateIn(MonthAt(r, from, j + n), DayOf(r, from)), ClockOf(from))
                 /\ \A k \in Nat : j < k /\ HasDay(MonthAt(r, from, k), DayOf(r, from)) => j + n <= k
  <1> DEFINE i == r.interval
             start == MonthOf(DateOf(from))
             passed == (MonthOf(DateOf(after)) - start) \div i
             S == {n \in 1..SearchMonths : HasDay(MonthAt(r, from, j + n), DayOf(r, from))}
  <1>1. i \in Nat \ {0} /\ start \in Nat /\ SearchMonths \in Nat
    BY RuleFacts, MonthAtType, UnitsType
  <1>2. passed = j
    <2>1. j * i \in Int /\ MonthOf(DateOf(after)) = start + j * i
      BY <1>1 DEF MonthAt
    <2>2. MonthOf(DateOf(after)) - start = i * j + 0 /\ 0 \in 0..(i - 1)
          /\ MonthOf(DateOf(after)) - start \in Int
      BY <1>1, <2>1
    <2> QED
      BY <1>1, <2>2, DivUnique
  <1>3. \A n : start + (passed + n) * i = MonthAt(r, from, j + n)
    BY <1>2 DEF MonthAt
  <1> HIDE DEF passed, start
  <1>4. NextMonthly(r, from, after) =
           IF S = {} THEN Fails
           ELSE Combine(DateIn(MonthAt(r, from, j + Min(S)), DayOf(r, from)), ClockOf(from))
    <2>1. CASE S = {}
      BY <1>3, <2>1 DEF NextMonthly, FirstOf, DayOf, start, passed
    <2>2. CASE S # {}
      <3>1. S \subseteq Nat
        BY <1>1
      <3>2. Min(S) # Fails
        BY <2>2, <3>1, MinFacts, ConstantFacts
      <3>3. \E n \in 1..SearchMonths : HasDay(MonthAt(r, from, j + n), DayOf(r, from))
        BY <2>2
      <3> QED
        BY <1>3, <2>2, <3>2, <3>3 DEF NextMonthly, FirstOf, DayOf, start, passed
    <2> QED
      BY <2>1, <2>2
  <1>5. CASE S = {}
    <2>1. ASSUME NEW k \in Int PROVE ~HasDay(MonthAt(r, from, k), DayOf(r, from))
      <3>1. MonthAt(r, from, j) \in Int /\ k - j \in Int
        BY MonthAtType
      <3>2. PICK n \in 1..SearchMonths :
              LengthOf(MonthAt(r, from, j) + (k - j) * i) <= LengthOf(MonthAt(r, from, j) + n * i)
        BY <3>1, SearchReaches
      <3>3. /\ MonthAt(r, from, j) + (k - j) * i = MonthAt(r, from, k)
            /\ MonthAt(r, from, j) + n * i = MonthAt(r, from, j + n)
        <4>1. /\ (k - j) * i = k * i - j * i /\ (j + n) * i = j * i + n * i
              /\ k * i \in Int /\ j * i \in Int /\ n * i \in Int
          BY <1>1
        <4> QED
          BY <1>1, <4>1 DEF MonthAt, start
      <3>4. ~HasDay(MonthAt(r, from, j + n), DayOf(r, from))
        BY <1>5
      <3>5. /\ LengthOf(MonthAt(r, from, k)) \in Nat /\ LengthOf(MonthAt(r, from, j + n)) \in Nat
            /\ DayOf(r, from) \in Nat
        <4>0. j + n \in Int
          BY <1>1
        <4>1. MonthAt(r, from, k) \in Int /\ MonthAt(r, from, j + n) \in Int
          BY <4>0, MonthAtType
        <4> QED
          BY <4>1, LengthType, MonthAtType
      <3> QED
        BY <3>2, <3>3, <3>4, <3>5 DEF HasDay
    <2> QED
      BY <1>4, <1>5, <2>1
  <1>6. CASE S # {}
    <2> DEFINE n == Min(S)
    <2>1. n \in S /\ \A k \in S : n <= k
      BY <1>1, <1>6, MinFacts
    <2>2. NextMonthly(r, from, after) =
             Combine(DateIn(MonthAt(r, from, j + n), DayOf(r, from)), ClockOf(from))
      BY <1>4, <1>6
    <2> HIDE DEF n
    <2>3. ASSUME NEW k \in Nat, j < k, HasDay(MonthAt(r, from, k), DayOf(r, from))
          PROVE  j + n <= k
      <3>1. k - j \in Nat \ {0} /\ j + (k - j) = k
        BY <2>3
      <3>2. CASE k - j <= SearchMonths
        <4>1. k - j \in S
          BY <1>1, <2>3, <3>1, <3>2
        <4> QED
          BY <1>1, <2>1, <3>1, <4>1
      <3>3. CASE ~(k - j <= SearchMonths)
        BY <1>1, <2>1, <3>1, <3>3
      <3> QED
        BY <3>2, <3>3
    <2> QED
      BY <2>1, <2>2, <2>3
  <1> QED
    BY <1>5, <1>6

-----------------------------------------------------------------------------
(* The walls of a rule and the step from one to the next *)

\* Without until, which only cuts them off.
AllWalls == {anchor} \cup {Combine(d, ClockOf(anchor)) : d \in DatesOfRule}

\* f is the first of the rule's walls after w.
FirstAfter(w, f) ==
    /\ f \in AllWalls /\ w < f
    /\ \A v \in AllWalls : w < v => f <= v

LEMMA PlanTypes ==
    ASSUME rule \in Rules, anchor \in Anchors
    PROVE  /\ anchor \in Nat /\ DateOf(anchor) \in Nat
           /\ ClockOf(anchor) \in 0..(DayLength - 1)
           /\ anchor = Combine(DateOf(anchor), ClockOf(anchor))
           /\ rule.interval \in Nat \ {0}
           /\ Periods \subseteq Nat \ {0}
  <1>1. anchor \in Nat
    BY ScheduleAssumption
  <1> QED
    BY <1>1, MonthAtType, PartsOf, RuleFacts, UnitsType DEF Periods

LEMMA DatesDaily ==
    ASSUME rule.kind = "daily"
    PROVE  DatesOfRule = {DateOf(anchor) + k * rule.interval : k \in Periods}
  BY DEF DatesOfRule

LEMMA DatesWeekly ==
    ASSUME rule \in Rules, anchor \in Anchors, rule.kind = "weekly", NEW d \in Int
    PROVE  d \in DatesOfRule <=>
              /\ d > DateOf(anchor)
              /\ \E k \in {0} \cup Periods, w \in DaysOf(rule, anchor) :
                    d = WeekOf(anchor) + WeekLength * rule.interval * k + w
  <1>1. DatesOfRule = {e \in {WeekOf(anchor) + WeekLength * rule.interval * k + w :
                                 k \in {0} \cup Periods, w \in DaysOf(rule, anchor)} :
                          e > DateOf(anchor)}
    BY DEF DatesOfRule, WeekOf, DaysOf
  <1> QED
    BY <1>1

LEMMA DatesMonthly ==
    ASSUME rule.kind = "monthly", NEW d
    PROVE  d \in DatesOfRule <=>
              \E k \in Periods :
                 /\ HasDay(MonthAt(rule, anchor, k), DayOf(rule, anchor))
                 /\ d = DateIn(MonthAt(rule, anchor, k), DayOf(rule, anchor))
  BY DEF DatesOfRule, MonthAt, DayOf

\* The anchor is the first of them.
LEMMA DatesLater ==
    ASSUME rule \in Rules, anchor \in Anchors, NEW d \in DatesOfRule
    PROVE  d \in Int /\ DateOf(anchor) < d
  <1>1. rule.kind \in {"once", "daily", "weekly", "monthly"}
    BY RuleFacts
  <1>2. CASE rule.kind = "once"
    BY <1>2 DEF DatesOfRule
  <1>3. CASE rule.kind = "daily"
    <2>1. PICK k \in Periods : d = DateOf(anchor) + k * rule.interval
      BY <1>3, DatesDaily
    <2>2. k * rule.interval \in Nat \ {0}
      BY PlanTypes
    <2> QED
      BY <2>1, <2>2, PlanTypes
  <1>4. CASE rule.kind = "weekly"
    <2>1. PICK k \in {0} \cup Periods, w \in DaysOf(rule, anchor) :
            d = WeekOf(anchor) + WeekLength * rule.interval * k + w
      BY <1>4 DEF DatesOfRule, WeekOf, DaysOf
    <2>2. anchor \in Nat /\ k \in Nat /\ rule.interval \in Nat /\ WeekLength \in Nat
      BY PlanTypes, UnitsType
    <2>3. WeekLength * rule.interval * k \in Int
      BY <2>2
    <2>4. w \in Int /\ WeekOf(anchor) \in Int
      BY <2>2, WeekFacts, UnitsType
    <2>5. d \in Int
      BY <2>1, <2>3, <2>4
    <2> QED
      BY <1>4, <2>5, DatesWeekly
  <1>5. CASE rule.kind = "monthly"
    <2> DEFINE day == DayOf(rule, anchor)
    <2>1. PICK k \in Periods : /\ HasDay(MonthAt(rule, anchor, k), day)
                               /\ d = DateIn(MonthAt(rule, anchor, k), day)
      BY <1>5, DatesMonthly
    <2>2. anchor \in Nat /\ k \in Nat \ {0} /\ DateOf(anchor) \in Nat
      BY PlanTypes
    <2>3. /\ day \in Nat \ {0} /\ MonthAt(rule, anchor, k) \in Nat
          /\ MonthOf(DateOf(anchor)) \in Nat
      BY <2>2, MonthAtType
    <2>4. MonthOf(DateOf(anchor)) < MonthAt(rule, anchor, k)
      <3>1. k * rule.interval \in Nat \ {0}
        BY <2>2, PlanTypes
      <3> QED
        BY <2>3, <3>1 DEF MonthAt
    <2> HIDE DEF day
    <2> QED
      BY <2>1, <2>2, <2>3, <2>4, DateInFacts, DateInOrder
  <1> QED
    BY <1>1, <1>2, <1>3, <1>4, <1>5

\* All walls of a rule keep the anchor's clock time.
LEMMA WallForm ==
    ASSUME rule \in Rules, anchor \in Anchors, NEW w \in AllWalls
    PROVE  /\ w \in Nat /\ anchor <= w
           /\ DateOf(w) \in Nat /\ DateOf(anchor) <= DateOf(w)
           /\ w = Combine(DateOf(w), ClockOf(anchor))
           /\ DateOf(w) = DateOf(anchor) \/ DateOf(w) \in DatesOfRule
  <1>1. CASE w = anchor
    BY <1>1, PlanTypes
  <1>2. CASE w # anchor
    <2>1. PICK d \in DatesOfRule : w = Combine(d, ClockOf(anchor))
      BY <1>2 DEF AllWalls
    <2>2. d \in Int /\ DateOf(anchor) < d
      BY DatesLater
    <2>3. DateOf(w) = d /\ w \in Int
      BY <2>1, <2>2, PlanTypes, CombineParts
    <2>4. anchor < w
      BY <2>1, <2>2, PlanTypes, CombineOrder
    <2> QED
      BY <2>1, <2>2, <2>3, <2>4, PlanTypes
  <1> QED
    BY <1>1, <1>2

\* So their order is that of their dates.
LEMMA WallsByDate ==
    ASSUME rule \in Rules, anchor \in Anchors, NEW w \in AllWalls,
           NEW d \in DatesOfRule, DateOf(w) < d,
           \A e \in DatesOfRule : DateOf(w) < e => d <= e
    PROVE  FirstAfter(w, Combine(d, ClockOf(anchor)))
  <1> DEFINE f == Combine(d, ClockOf(anchor))
  <1>1. f \in AllWalls
    BY DEF AllWalls
  <1>2. /\ DateOf(w) \in Nat /\ w \in Nat /\ anchor <= w
        /\ w = Combine(DateOf(w), ClockOf(anchor))
    BY WallForm
  <1>3. d \in Int /\ DateOf(anchor) < d
    BY DatesLater
  <1>4. w < f
    BY <1>2, <1>3, PlanTypes, CombineOrder
  <1>5. ASSUME NEW v \in AllWalls, w < v PROVE f <= v
    <2>1. v \in Nat /\ DateOf(v) \in Nat /\ v = Combine(DateOf(v), ClockOf(anchor))
          /\ (DateOf(v) = DateOf(anchor) \/ DateOf(v) \in DatesOfRule)
      BY WallForm
    <2>2. DateOf(w) < DateOf(v)
      <3>1. ~(DateOf(v) < DateOf(w))
        <4>1. DateOf(v) < DateOf(w) => v < w
          BY <1>2, <2>1, PlanTypes, CombineOrder
        <4> QED
          BY <1>2, <1>5, <2>1, <4>1
      <3>2. DateOf(v) # DateOf(w)
        BY <1>2, <1>5, <2>1
      <3> QED
        BY <1>2, <2>1, <3>1, <3>2
    <2>3. DateOf(v) \in DatesOfRule
      BY <1>2, <2>1, <2>2, WallForm, PlanTypes
    <2>4. d <= DateOf(v)
      BY <2>2, <2>3
    <2>5. d < DateOf(v) => f < v
      BY <1>3, <2>1, PlanTypes, CombineOrder
    <2>6. f \in Int
      BY <1>1, WallForm
    <2> QED
      BY <1>3, <2>1, <2>4, <2>5, <2>6
  <1> QED
    BY <1>1, <1>4, <1>5 DEF FirstAfter

\* Where in the rule a wall is: the anchor is the 0-th, and no more steps than
\* days have passed.
LEMMA DailyStep ==
    ASSUME rule \in Rules, anchor \in Anchors, rule.kind = "daily",
           NEW w \in AllWalls, DateOf(w) <= Horizon + 1
    PROVE  FirstAfter(w, Following(rule, anchor, w))
  <1> DEFINE i == rule.interval
             s == DateOf(anchor)
  <1>1. /\ i \in Nat \ {0} /\ s \in Nat /\ DateOf(w) \in Nat /\ w \in Nat
        /\ w = Combine(DateOf(w), ClockOf(anchor)) /\ DayLength \in Nat \ {0}
        /\ Horizon \in Nat /\ SearchMonths \in Nat \ {0}
    BY PlanTypes, WallForm, UnitsType
  <1>2. \E j \in Nat : DateOf(w) = s + j * i
    <2>1. CASE DateOf(w) = s
      <3>1. 0 * i = 0
        BY <1>1
      <3> QED
        BY <1>1, <2>1, <3>1
    <2>2. CASE DateOf(w) # s
      <3>1. PICK k \in Periods : DateOf(w) = s + k * i
        BY <2>2, WallForm, DatesDaily
      <3>2. k \in Nat
        BY PlanTypes
      <3> QED
        BY <3>1, <3>2
    <2> QED
      BY <2>1, <2>2
  <1>3. PICK j \in Nat : DateOf(w) = s + j * i
    BY <1>2
  <1> DEFINE d == DateOf(w) + i
  <1>4. d = s + (j + 1) * i /\ j <= j * i
    <2>1. (j + 1) * i = j * i + i /\ j * i \in Nat /\ j <= j * i
      BY <1>1
    <2> QED
      BY <1>1, <1>3, <2>1
  <1>5. d \in DatesOfRule
    <2>1. j * i \in Nat
      BY <1>1
    <2>2. j + 1 \in Periods
      BY <1>1, <1>3, <1>4, <2>1 DEF Periods
    <2> QED
      BY <1>4, <2>2, DatesDaily
  <1>6. ASSUME NEW e \in DatesOfRule, DateOf(w) < e PROVE d <= e
    <2>1. PICK k \in Periods : e = s + k * i
      BY DatesDaily
    <2>2. k \in Nat
      BY PlanTypes
    <2>3. k <= j => k * i <= j * i
      BY <1>1, <2>2
    <2>4. j < k => (j + 1) * i <= k * i
      BY <1>1, <2>2
    <2>5. k * i \in Int /\ j * i \in Int /\ (j + 1) * i \in Int
      BY <1>1, <2>2
    <2> HIDE DEF i, s, d
    <2> QED
      BY <1>1, <1>3, <1>4, <1>6, <2>1, <2>2, <2>3, <2>4, <2>5
  <1>7. Following(rule, anchor, w) = Combine(d, ClockOf(anchor))
    <2>1. Following(rule, anchor, w) = w + i * DayLength
      BY DEF Following
    <2>2. (DateOf(w) + i) * DayLength = DateOf(w) * DayLength + i * DayLength
          /\ DateOf(w) * DayLength \in Int /\ i * DayLength \in Int
      BY <1>1
    <2>3. w = DateOf(w) * DayLength + ClockOf(anchor) /\ ClockOf(anchor) \in Int
      BY <1>1, PlanTypes DEF Combine
    <2> QED
      BY <2>1, <2>2, <2>3 DEF Combine
  <1>8. DateOf(w) < d
    BY <1>1
  <1> HIDE DEF d
  <1> QED
    BY <1>5, <1>6, <1>7, <1>8, WallsByDate

LEMMA WeeklyStep ==
    ASSUME rule \in Rules, anchor \in Anchors, rule.kind = "weekly",
           NEW w \in AllWalls, DateOf(w) <= Horizon + 1
    PROVE  FirstAfter(w, Following(rule, anchor, w))
  <1> DEFINE P == WeekLength * rule.interval
             week == WeekOf(anchor)
  <1>1. /\ anchor \in Nat /\ DateOf(anchor) \in Nat /\ DateOf(w) \in Nat /\ w \in Int
        /\ DateOf(anchor) <= DateOf(w) /\ Horizon \in Nat /\ SearchMonths \in Nat \ {0}
    BY PlanTypes, WallForm, UnitsType
  <1>2. PICK d \in Int :
           /\ NextWeekly(rule, anchor, w) = Combine(d, ClockOf(anchor))
           /\ DateOf(w) < d /\ d <= DateOf(w) + P
           /\ InWeeks(rule, anchor, d)
           /\ \A e \in Int : DateOf(w) < e /\ InWeeks(rule, anchor, e) => d <= e
    BY <1>1, WeeklyFinds
  <1>3. P \in Nat \ {0}
    <2>1. WeekLength \in Nat \ {0} /\ rule.interval \in Nat \ {0}
      BY PlanTypes, UnitsType
    <2> QED
      BY <2>1
  <1>4. /\ week \in Nat /\ week <= DateOf(anchor)
        /\ DaysOf(rule, anchor) \subseteq 0..(WeekLength - 1)
    BY <1>1, WeekFacts
  <1>5. DateOf(anchor) - week <= WeekLength - 1
    <2>1. DateOf(anchor) % WeekLength \in 0..(WeekLength - 1)
      BY <1>1, UnitsType
    <2> QED
      BY <1>1, <2>1, UnitsType DEF WeekOf, WeekdayOf
  <1>6. d \in DatesOfRule
    <2>1. PICK k \in Int, day \in DaysOf(rule, anchor) : d = week + P * k + day
      BY <1>1, <1>2, InWeeksForm
    <2>2. day \in 0..(WeekLength - 1) /\ WeekLength \in Nat \ {0} /\ WeekLength <= P
      <3>1. WeekLength \in Nat \ {0} /\ rule.interval \in Nat \ {0}
        BY PlanTypes, UnitsType
      <3> QED
        BY <1>4, <3>1
    <2>3. P * k \in Int
      BY <1>3
    <2>4. k >= 0
      <3>1. k < 0 => P * k + P <= P * 0
        BY <1>3, TimesOrder
      <3>2. P * 0 = 0
        BY <1>3
      <3> HIDE DEF P, week
      <3> QED
        BY <1>1, <1>2, <1>3, <1>4, <2>1, <2>2, <2>3, <3>1, <3>2
    <2>5. k <= Horizon + 2
      <3> DEFINE h == Horizon + 2
      <3>1. h < k => P * h + P <= P * k
        BY <1>1, <1>3, TimesOrder
      <3>2. P * h >= h
        BY <1>1, <1>3
      <3>3. P * h \in Int
        BY <1>1, <1>3
      <3>4. P * k <= DateOf(w) + P - week
        <4> HIDE DEF P, week
        <4> QED
          BY <1>1, <1>2, <1>3, <1>4, <2>1, <2>2, <2>3
      <3>5. h \in Int /\ DateOf(w) <= h - 1
        BY <1>1
      <3> HIDE DEF P, week, h
      <3>6. k <= h
        BY <1>1, <1>3, <1>4, <2>3, <3>1, <3>2, <3>3, <3>4, <3>5
      <3> QED
        BY <3>6 DEF h
    <2>6. k \in {0} \cup Periods
      BY <1>1, <2>4, <2>5 DEF Periods
    <2> QED
      BY <1>1, <1>2, <2>1, <2>6, DatesWeekly
  <1>7. ASSUME NEW e \in DatesOfRule, DateOf(w) < e PROVE d <= e
    <2>1. e \in Int
      BY DatesLater
    <2>2. PICK k \in {0} \cup Periods, day \in DaysOf(rule, anchor) : e = week + P * k + day
      BY <2>1, DatesWeekly
    <2>3. k \in Int
      BY PlanTypes
    <2>4. InWeeks(rule, anchor, e)
      BY <1>1, <2>1, <2>2, <2>3, InWeeksForm
    <2> QED
      BY <1>2, <1>7, <2>1, <2>4
  <1>8. Following(rule, anchor, w) = Combine(d, ClockOf(anchor))
    BY <1>2 DEF Following
  <1> QED
    BY <1>2, <1>6, <1>7, <1>8, WallsByDate

\* The month a wall of the rule is in.
LEMMA MonthOfWall ==
    ASSUME rule \in Rules, anchor \in Anchors, rule.kind = "monthly", NEW w \in AllWalls
    PROVE  \E j \in Nat :
              /\ MonthOf(DateOf(w)) = MonthAt(rule, anchor, j) /\ j <= DateOf(w)
              /\ \/ j = 0
                 \/ DateOf(w) = DateIn(MonthAt(rule, anchor, j), DayOf(rule, anchor))
  <1> DEFINE day == DayOf(rule, anchor)
  <1>1. anchor \in Nat /\ DateOf(anchor) \in Nat /\ DateOf(w) \in Nat
    BY PlanTypes, WallForm
  <1>2. CASE DateOf(w) = DateOf(anchor)
    <2>1. 0 * rule.interval = 0
      BY PlanTypes
    <2>2. MonthOf(DateOf(anchor)) \in Nat
      BY <1>1, MonthAtType
    <2>3. MonthAt(rule, anchor, 0) = MonthOf(DateOf(anchor))
      BY <2>1, <2>2 DEF MonthAt
    <2> QED
      BY <1>1, <1>2, <2>3
  <1>3. CASE DateOf(w) \in DatesOfRule
    <2>1. PICK k \in Periods : /\ HasDay(MonthAt(rule, anchor, k), day)
                               /\ DateOf(w) = DateIn(MonthAt(rule, anchor, k), day)
      BY <1>3, DatesMonthly
    <2>2. k \in Nat
      BY PlanTypes
    <2>3. day \in Nat \ {0} /\ MonthAt(rule, anchor, k) \in Nat
      BY <1>1, <2>2, MonthAtType
    <2>4. /\ MonthOf(DateOf(w)) = MonthAt(rule, anchor, k)
          /\ DateOf(w) >= MonthAt(rule, anchor, k)
      BY <2>1, <2>3, DateInFacts
    <2>5. k <= MonthAt(rule, anchor, k)
      BY <1>1, <2>2, MonthAtOrder
    <2>6. k <= DateOf(w)
      BY <1>1, <2>2, <2>3, <2>4, <2>5
    <2> QED
      BY <2>1, <2>2, <2>4, <2>6
  <1> QED
    BY <1>2, <1>3, WallForm

LEMMA MonthlyStep ==
    ASSUME rule \in Rules, anchor \in Anchors, rule.kind = "monthly",
           NEW w \in AllWalls, DateOf(w) <= Horizon + 1, Following(rule, anchor, w) # Fails
    PROVE  FirstAfter(w, Following(rule, anchor, w))
  <1> DEFINE day == DayOf(rule, anchor)
             M(k) == MonthAt(rule, anchor, k)
  <1>1. /\ anchor \in Nat /\ DateOf(w) \in Nat /\ w \in Nat
        /\ Horizon \in Nat /\ SearchMonths \in Nat \ {0}
    BY PlanTypes, WallForm, UnitsType
  <1>2. day \in Nat \ {0} /\ \A k \in Nat : M(k) \in Nat
    BY <1>1, MonthAtType
  <1>3. PICK j \in Nat :
           /\ MonthOf(DateOf(w)) = M(j) /\ j <= DateOf(w)
           /\ j = 0 \/ DateOf(w) = DateIn(M(j), day)
    BY MonthOfWall
  <1>4. Following(rule, anchor, w) = NextMonthly(rule, anchor, w)
    BY DEF Following
  <1>5. PICK n \in 1..SearchMonths :
           /\ HasDay(M(j + n), day)
           /\ NextMonthly(rule, anchor, w) = Combine(DateIn(M(j + n), day), ClockOf(anchor))
           /\ \A k \in Nat : j < k /\ HasDay(M(k), day) => j + n <= k
    BY <1>1, <1>3, <1>4, MonthlyFinds
  <1> DEFINE d == DateIn(M(j + n), day)
  <1>6. j + n \in Periods /\ j + n \in Nat /\ j < j + n
    BY <1>1, <1>3 DEF Periods
  <1>7. d \in DatesOfRule
    BY <1>5, <1>6, DatesMonthly
  <1>8. DateOf(w) < d
    <2>1. M(j) < M(j + n)
      BY <1>1, <1>6, MonthAtOrder
    <2> HIDE DEF day, M
    <2> QED
      BY <1>1, <1>2, <1>3, <1>6, <2>1, DateInOrder
  <1>9. ASSUME NEW e \in DatesOfRule, DateOf(w) < e PROVE d <= e
    <2>1. PICK k \in Periods : HasDay(M(k), day) /\ e = DateIn(M(k), day)
      BY DatesMonthly
    <2>2. k \in Nat \ {0} /\ M(k) \in Nat /\ M(j) \in Nat /\ M(j + n) \in Nat
      BY <1>2, <1>6, PlanTypes
    <2>3. e \in Nat /\ MonthOf(e) = M(k)
      BY <1>2, <2>1, <2>2, DateInFacts
    <2>4. j < k
      <3>1. CASE j = 0
        BY <2>2, <3>1
      <3>2. CASE j # 0 /\ k = j
        BY <1>1, <1>3, <1>9, <2>1, <2>3, <3>2
      <3>3. CASE j # 0 /\ k < j
        <4>1. M(k) < M(j)
          BY <1>1, <2>2, <3>3, MonthAtOrder
        <4>2. e < DateIn(M(j), day)
          <5> HIDE DEF day, M
          <5> QED
            BY <1>2, <2>2, <2>3, <4>1, DateInOrder
        <4> QED
          BY <1>1, <1>3, <1>9, <2>3, <3>3, <4>2
      <3> QED
        BY <2>2, <3>1, <3>2, <3>3
    <2>5. j + n <= k
      BY <1>5, <2>1, <2>2, <2>4
    <2>6. CASE k = j + n
      BY <2>1, <2>3, <2>6
    <2>7. CASE j + n < k
      <3>1. M(j + n) < M(k)
        BY <1>1, <1>6, <2>2, <2>7, MonthAtOrder
      <3>2. d \in Nat /\ MonthOf(d) = M(j + n)
        BY <1>2, <1>5, <2>2, DateInFacts
      <3>3. d < DateIn(M(k), day)
        <4> HIDE DEF day, M, d
        <4> QED
          BY <1>2, <2>2, <3>1, <3>2, DateInOrder
      <3> QED
        BY <2>1, <2>3, <3>2, <3>3
    <2> QED
      BY <1>6, <2>2, <2>5, <2>6, <2>7
  <1>10. Following(rule, anchor, w) = Combine(d, ClockOf(anchor))
    BY <1>4, <1>5
  <1> HIDE DEF d
  <1> QED
    BY <1>7, <1>8, <1>9, <1>10, WallsByDate

\* One step of the rule: to its next wall, to the end of it, or nowhere.
LEMMA FollowingStep ==
    ASSUME rule \in Rules, anchor \in Anchors,
           NEW w \in AllWalls, DateOf(w) <= Horizon + 1, Following(rule, anchor, w) # Fails
    PROVE  \/ /\ Following(rule, anchor, w) = None
              /\ AllWalls = {w}
           \/ FirstAfter(w, Following(rule, anchor, w))
  <1>1. CASE rule.kind = "once"
    <2>1. Following(rule, anchor, w) = None
      BY <1>1 DEF Following
    <2>2. AllWalls = {anchor}
      BY <1>1 DEF AllWalls, DatesOfRule
    <2> QED
      BY <2>1, <2>2
  <1> QED
    BY <1>1, RuleFacts, DailyStep, WeeklyStep, MonthlyStep

LEMMA WallsType ==
    ASSUME rule \in Rules, anchor \in Anchors
    PROVE  /\ WallsOfRule = {w \in AllWalls : rule.until = None \/ w <= rule.until}
           /\ WallsOfRule \subseteq AllWalls /\ WallsOfRule \subseteq Nat
           /\ None \notin WallsOfRule /\ Fails \notin WallsOfRule
  <1>1. WallsOfRule = {w \in AllWalls : rule.until = None \/ w <= rule.until}
    BY DEF WallsOfRule, AllWalls
  <1>2. AllWalls \subseteq Nat
    BY WallForm
  <1>3. WallsOfRule \subseteq AllWalls
    BY <1>1
  <1>4. WallsOfRule \subseteq Nat
    BY <1>2, <1>3
  <1>5. None \notin WallsOfRule /\ Fails \notin WallsOfRule
    <2>1. \A w \in WallsOfRule : w \in Int
      BY <1>4
    <2> QED
      BY <2>1, ConstantFacts
  <1> QED
    BY <1>1, <1>3, <1>4, <1>5

\* The first occurrence is the anchor, the first wall of the rule.
LEMMA FirstOccurrence ==
    ASSUME rule \in Rules, anchor \in Anchors, NextOccurrence(rule, anchor, None, 0) # None
    PROVE  /\ NextOccurrence(rule, anchor, None, 0) = anchor
           /\ anchor \in WallsOfRule /\ \A w \in WallsOfRule : anchor <= w
  <1>1. anchor \in Nat /\ anchor \in AllWalls
    BY PlanTypes DEF AllWalls
  <1>2. rule.count # None => rule.count \in Nat \ {0}
    BY RuleFacts
  <1>3. NextOccurrence(rule, anchor, None, 0) = Until(rule, anchor)
    BY <1>2 DEF NextOccurrence
  <1>4. Until(rule, anchor) = anchor /\ (rule.until = None \/ ~(anchor > rule.until))
    BY <1>1, <1>3, ConstantFacts DEF Until
  <1>5. rule.until = None \/ anchor <= rule.until
    BY <1>1, <1>4, RuleFacts
  <1>6. anchor \in WallsOfRule
    BY <1>1, <1>5, WallsType
  <1>7. \A w \in WallsOfRule : anchor <= w
    BY WallsType, WallForm
  <1> QED
    BY <1>3, <1>4, <1>6, <1>7

\* Every further one is the next wall, and there is none only when the count is
\* reached or no wall is left.
LEMMA NextOccurrenceStep ==
    ASSUME rule \in Rules, anchor \in Anchors, NEW w \in WallsOfRule,
           DateOf(w) <= Horizon + 1, NEW n \in Nat,
           NextOccurrence(rule, anchor, w, n) # Fails
    PROVE  \/ /\ NextOccurrence(rule, anchor, w, n) = None
              /\ \/ rule.count # None /\ n >= rule.count
                 \/ \A v \in WallsOfRule : v <= w
           \/ /\ NextOccurrence(rule, anchor, w, n) \in WallsOfRule
              /\ w < NextOccurrence(rule, anchor, w, n)
              /\ \A v \in WallsOfRule : w < v => NextOccurrence(rule, anchor, w, n) <= v
              /\ rule.count # None => n < rule.count
  <1> DEFINE x == NextOccurrence(rule, anchor, w, n)
             f == Following(rule, anchor, w)
  <1>1. /\ w \in Nat /\ w \in AllWalls /\ w # None
        /\ WallsOfRule \subseteq Nat /\ WallsOfRule \subseteq AllWalls
        /\ rule.count # None => rule.count \in Nat
    BY WallsType, RuleFacts
  <1>2. CASE rule.count # None /\ n >= rule.count
    BY <1>2 DEF NextOccurrence
  <1>3. CASE ~(rule.count # None /\ n >= rule.count)
    <2>1. x = Until(rule, f)
      BY <1>1, <1>3 DEF NextOccurrence
    <2>2. rule.count # None => n < rule.count
      BY <1>1, <1>3
    <2>3. f # Fails
      BY <2>1 DEF Until
    <2>4. CASE f = None /\ AllWalls = {w}
      BY <1>1, <2>1, <2>4 DEF Until
    <2>5. CASE FirstAfter(w, f)
      <3>1. f \in AllWalls /\ f \in Nat /\ w < f /\ \A v \in AllWalls : w < v => f <= v
        BY <2>5, WallForm DEF FirstAfter
      <3>2. f # None
        BY <3>1, ConstantFacts
      <3>3. rule.until # None => rule.until \in Nat
        BY RuleFacts
      <3> HIDE DEF f, x
      <3>4. CASE rule.until # None /\ f > rule.until
        <4>1. x = None
          BY <2>1, <2>3, <3>2, <3>4 DEF Until
        <4>2. ASSUME NEW v \in WallsOfRule PROVE v <= w
          <5>1. v <= rule.until /\ v \in Nat /\ v \in AllWalls
            BY <1>1, <3>4, WallsType
          <5> QED
            BY <1>1, <3>1, <3>3, <3>4, <5>1
        <4> QED
          BY <4>1, <4>2 DEF x
      <3>5. CASE ~(rule.until # None /\ f > rule.until)
        <4>1. x = f
          BY <2>1, <3>5 DEF Until
        <4>2. rule.until = None \/ f <= rule.until
          BY <3>1, <3>3, <3>5
        <4>3. f \in WallsOfRule
          BY <3>1, <4>2, WallsType
        <4>4. \A v \in WallsOfRule : w < v => f <= v
          BY <1>1, <3>1
        <4> QED
          BY <2>2, <3>1, <4>1, <4>3, <4>4 DEF x
      <3> QED
        BY <3>4, <3>5
    <2> QED
      BY <1>1, <2>3, <2>4, <2>5, FollowingStep
  <1> QED
    BY <1>2, <1>3

-----------------------------------------------------------------------------
(* The inductive invariant *)

\* The wall times of the runs, and of the cursor.
RunWalls   == {ToWall(zone, r.at) : r \in runs}
CursorWall == ToWall(zone, cursor)

\* Every run is at a wall of its own.
CountedRuns ==
    /\ IsFiniteSet(runs) /\ Cardinality(runs) = emitted
    /\ IsFiniteSet(RunWalls) /\ Cardinality(RunWalls) = emitted
    /\ rule.count # None => emitted <= rule.count

\* The runs are the first walls of the rule.
InitialSegment ==
    /\ RunWalls \subseteq WallsOfRule
    /\ \A w \in WallsOfRule : (\E v \in RunWalls : w < v) => w \in RunWalls

\* The cursor is at the first wall after them, and the count lets it be one.
CursorNext ==
    status = "active" =>
        /\ CursorWall \in WallsOfRule
        /\ \A v \in RunWalls : v < CursorWall
        /\ \A w \in WallsOfRule : w < CursorWall => w \in RunWalls
        /\ rule.count # None => emitted < rule.count

ScheduleInv ==
    /\ ScheduleTypeOK
    /\ CountedRuns /\ InitialSegment /\ CursorNext
    /\ status = "awaiting_confirmation" => runs = {}
    /\ status = "completed" =>
          RunWalls = WallsOfRule \/ (rule.count # None /\ emitted = rule.count)

LEMMA StepFrame ==
    ASSUME ScheduleNext
    PROVE  /\ rule' = rule /\ anchor' = anchor /\ zone' = zone /\ quiet' = quiet
           /\ WallsOfRule' = WallsOfRule
  <1>1. rule' = rule /\ anchor' = anchor /\ zone' = zone /\ quiet' = quiet
    BY DEF ScheduleNext, ActivateJob, EmitRun, plan
  <1> QED
    BY <1>1 DEF WallsOfRule, DatesOfRule

\* What a due job's run knows of the rule, and what follows for its successor.
LEMMA DueFacts ==
    ASSUME ScheduleInv, status = "active"
    PROVE  /\ cursor \in Int /\ CursorWall \in WallsOfRule /\ CursorWall \in Nat
           /\ rule \in Rules /\ anchor \in Anchors /\ zone \in Zones /\ quiet \in QuietHours
           /\ emitted \in Nat
  BY WallsType DEF ScheduleInv, ScheduleTypeOK, CursorNext

LEMMA DueDate ==
    ASSUME ScheduleInv, status = "active", DateOf(cursor) <= Horizon
    PROVE  DateOf(CursorWall) <= Horizon + 1
  <1> DEFINE d == DateOf(cursor)
             e == DateOf(CursorWall)
  <1>1. cursor \in Int /\ CursorWall \in Int /\ zone \in Zones
    BY DueFacts
  <1>2. CursorWall < cursor + DayLength
    BY <1>1, ZoneFacts, UnitsType DEF CursorWall, ToWall
  <1>3. /\ d \in Int /\ ClockOf(cursor) \in 0..(DayLength - 1)
        /\ cursor = Combine(d, ClockOf(cursor))
        /\ e \in Int /\ ClockOf(CursorWall) \in 0..(DayLength - 1)
        /\ CursorWall = Combine(e, ClockOf(CursorWall))
    BY <1>1, PartsOf
  <1>4. Combine(d + 1, ClockOf(cursor)) = cursor + DayLength
    <2>1. (d + 1) * DayLength = d * DayLength + DayLength /\ d * DayLength \in Int
      BY <1>3, UnitsType
    <2>2. cursor = d * DayLength + ClockOf(cursor)
      BY <1>3 DEF Combine
    <2> HIDE DEF d
    <2> QED
      BY <1>3, <2>1, <2>2, UnitsType DEF Combine
  <1>5. ~(d + 1 < e)
    <2>1. d + 1 < e => Combine(d + 1, ClockOf(cursor)) < Combine(e, ClockOf(CursorWall))
      BY <1>3, CombineOrder
    <2> QED
      BY <1>1, <1>2, <1>3, <1>4, <2>1, UnitsType
  <1> QED
    BY <1>3, <1>5, UnitsType

\* The wall after the cursor's, when the run is emitted and can be delivered.
LEMMA DueNext ==
    ASSUME ScheduleInv, EmitRun, AvailableAt(zone, quiet, cursor) # None
    PROVE  \/ /\ NextWall = None
              /\ \/ rule.count # None /\ emitted + 1 >= rule.count
                 \/ \A v \in WallsOfRule : v <= CursorWall
           \/ /\ NextWall \in WallsOfRule /\ CursorWall < NextWall
              /\ \A v \in WallsOfRule : CursorWall < v => NextWall <= v
              /\ rule.count # None => emitted + 1 < rule.count
  <1>1. status = "active" /\ DateOf(cursor) <= Horizon /\ NextWall # Fails
    BY DEF EmitRun, Raises
  <1>2. /\ CursorWall \in WallsOfRule /\ rule \in Rules /\ anchor \in Anchors
        /\ emitted + 1 \in Nat
    BY <1>1, DueFacts
  <1>3. DateOf(CursorWall) <= Horizon + 1
    BY <1>1, DueDate
  <1>4. NextWall = NextOccurrence(rule, anchor, CursorWall, emitted + 1)
    BY DEF NextWall, CursorWall
  <1> QED
    BY <1>1, <1>2, <1>3, <1>4, NextOccurrenceStep

\* Where the cursor goes.
LEMMA MovesFacts ==
    ASSUME zone \in Zones, NEW wall \in Int \cup {None}, MovesTo(wall)
    PROVE  /\ cursor' \in Int \cup {None}
           /\ status' \in {"active", "completed", "needs_review"}
           /\ status' = "active" <=> cursor' # None
           /\ status' = "completed" <=> wall = None
           /\ status' = "active" => wall # None /\ ToWall(zone, cursor') = wall
  <1>1. CASE wall = None
    BY <1>1 DEF MovesTo
  <1>2. CASE wall # None
    <2>1. wall \in Int /\ cursor' = Resolve(zone, wall)
      BY <1>2 DEF MovesTo
    <2>2. cursor' \in Int \cup {None}
      BY <2>1, ResolveFacts
    <2>3. status' = IF cursor' = None THEN "needs_review" ELSE "active"
      BY <1>2, <2>1 DEF MovesTo
    <2>4. cursor' # None => ToWall(zone, cursor') = wall
      BY <2>1, ResolveBack
    <2> QED
      BY <1>2, <2>2, <2>3, <2>4
  <1> QED
    BY <1>1, <1>2

LEMMA InitInv == ScheduleInit => ScheduleInv
  <1> SUFFICES ASSUME ScheduleInit PROVE ScheduleInv
    OBVIOUS
  <1>1. ScheduleTypeOK
    BY DEF ScheduleInit, ScheduleTypeOK
  <1>2. RunWalls = {} /\ runs = {} /\ emitted = 0
    BY DEF ScheduleInit, RunWalls
  <1>3. IsFiniteSet({}) /\ Cardinality({}) = 0
    BY FS_EmptySet
  <1>4. rule.count # None => 0 <= rule.count
    BY <1>1, RuleFacts DEF ScheduleTypeOK
  <1>5. CountedRuns /\ InitialSegment
    BY <1>2, <1>3, <1>4 DEF CountedRuns, InitialSegment
  <1> QED
    BY <1>1, <1>2, <1>5 DEF ScheduleInit, ScheduleInv, CursorNext

LEMMA ActivateInv ==
    ASSUME ScheduleInv, ActivateJob
    PROVE  ScheduleInv'
  <1> DEFINE first == NextOccurrence(rule, anchor, None, 0)
  <1>1. /\ rule \in Rules /\ anchor \in Anchors /\ zone \in Zones /\ quiet \in QuietHours
        /\ runs = {} /\ emitted \in Nat /\ status = "awaiting_confirmation"
    BY DEF ScheduleInv, ScheduleTypeOK, ActivateJob
  <1>2. /\ first = anchor /\ anchor \in WallsOfRule /\ \A w \in WallsOfRule : anchor <= w
        /\ MovesTo(first) /\ runs' = runs /\ emitted' = emitted
    BY <1>1, FirstOccurrence DEF ActivateJob
  <1>3. /\ rule' = rule /\ anchor' = anchor /\ zone' = zone /\ quiet' = quiet
        /\ WallsOfRule' = WallsOfRule
    BY StepFrame DEF ScheduleNext
  <1>4. anchor \in Nat /\ WallsOfRule \subseteq Nat /\ anchor # None
    BY <1>1, PlanTypes, WallsType, ConstantFacts
  <1>5. /\ cursor' \in Int \cup {None} /\ status' \in {"active", "needs_review"}
        /\ status' = "active" <=> cursor' # None
        /\ status' = "active" => ToWall(zone, cursor') = anchor
    BY <1>1, <1>2, <1>4, MovesFacts
  <1>6. RunWalls = {} /\ RunWalls' = {}
    BY <1>1, <1>2 DEF RunWalls
  <1>7. CountedRuns' /\ InitialSegment'
    <2>1. CountedRuns /\ emitted = 0
      BY <1>1, FS_EmptySet DEF ScheduleInv, CountedRuns
    <2> QED
      BY <1>2, <1>3, <1>6, <2>1 DEF CountedRuns, InitialSegment
  <1>8. CursorNext'
    <2>1. emitted = 0
      BY <1>1, FS_EmptySet DEF ScheduleInv, CountedRuns
    <2>2. rule.count # None => 0 < rule.count
      BY <1>1, RuleFacts
    <2>3. \A w \in WallsOfRule : ~(w < anchor)
      BY <1>2, <1>4
    <2> QED
      BY <1>2, <1>3, <1>5, <1>6, <2>1, <2>2, <2>3 DEF CursorNext, CursorWall
  <1>9. ScheduleTypeOK'
    BY <1>1, <1>2, <1>3, <1>5 DEF ScheduleTypeOK
  <1> QED
    BY <1>5, <1>7, <1>8, <1>9 DEF ScheduleInv

LEMMA EmitInv ==
    ASSUME ScheduleInv, EmitRun
    PROVE  ScheduleInv'
  <1> DEFINE avail == AvailableAt(zone, quiet, cursor)
             run == [at |-> cursor, avail |-> avail]
  <1>1. /\ cursor \in Int /\ CursorWall \in WallsOfRule /\ CursorWall \in Nat
        /\ rule \in Rules /\ anchor \in Anchors /\ zone \in Zones /\ quiet \in QuietHours
        /\ emitted \in Nat /\ WallsOfRule \subseteq Nat
    BY DueFacts, WallsType DEF EmitRun
  <1>2. /\ rule' = rule /\ anchor' = anchor /\ zone' = zone /\ quiet' = quiet
        /\ WallsOfRule' = WallsOfRule
    BY StepFrame DEF ScheduleNext
  <1>3. /\ status = "active" /\ runs' = runs \cup {run} /\ emitted' = emitted + 1
    BY DEF EmitRun
  <1>4. avail \in Int \cup {None}
    BY <1>1, AvailableFacts
  <1> HIDE DEF avail
  <1>5. /\ \A v \in RunWalls : v < CursorWall
        /\ \A w \in WallsOfRule : w < CursorWall => w \in RunWalls
        /\ rule.count # None => emitted < rule.count
        /\ RunWalls \subseteq WallsOfRule
        /\ IsFiniteSet(runs) /\ Cardinality(runs) = emitted
        /\ IsFiniteSet(RunWalls) /\ Cardinality(RunWalls) = emitted
        /\ runs \subseteq [at : Int, avail : Int \cup {None}]
    BY <1>3 DEF ScheduleInv, ScheduleTypeOK, CursorNext, CountedRuns, InitialSegment
  <1>6. RunWalls' = RunWalls \cup {CursorWall}
    <2>1. RunWalls' = {ToWall(zone, r.at) : r \in runs \cup {run}}
      BY <1>2, <1>3 DEF RunWalls
    <2>2. run.at = cursor
      OBVIOUS
    <2> HIDE DEF run
    <2> QED
      BY <2>1, <2>2 DEF RunWalls, CursorWall
  <1>7. CursorWall \notin RunWalls
    BY <1>1, <1>5
  <1>8. run \notin runs
    <2>1. run.at = cursor
      OBVIOUS
    <2>2. run \in runs => ToWall(zone, run.at) \in RunWalls
      BY DEF RunWalls
    <2> QED
      BY <1>7, <2>1, <2>2 DEF CursorWall
  <1>9. CountedRuns'
    <2>1. IsFiniteSet(runs') /\ Cardinality(runs') = emitted'
      BY <1>3, <1>5, <1>8, FS_AddElement
    <2>2. IsFiniteSet(RunWalls') /\ Cardinality(RunWalls') = emitted'
      BY <1>3, <1>5, <1>6, <1>7, FS_AddElement
    <2>3. rule'.count # None => emitted' <= rule'.count
      <3>1. rule.count # None => rule.count \in Nat
        BY <1>1, RuleFacts
      <3> QED
        BY <1>1, <1>2, <1>3, <1>5, <3>1
    <2> QED
      BY <2>1, <2>2, <2>3 DEF CountedRuns
  <1>10. /\ RunWalls' \subseteq WallsOfRule'
         /\ \A w \in WallsOfRule : w <= CursorWall => w \in RunWalls'
    BY <1>1, <1>2, <1>5, <1>6
  <1>11. InitialSegment'
    <2>1. ASSUME NEW w \in WallsOfRule, NEW v \in RunWalls', w < v PROVE w \in RunWalls'
      <3>1. v <= CursorWall /\ v \in Nat /\ w \in Nat
        BY <1>1, <1>5, <1>6
      <3>2. w <= CursorWall
        BY <1>1, <2>1, <3>1
      <3> QED
        BY <1>10, <3>2
    <2> QED
      BY <1>2, <1>10, <2>1 DEF InitialSegment
  <1>12. run \in [at : Int, avail : Int \cup {None}] /\ emitted' \in Nat
    BY <1>1, <1>3, <1>4
  <1>13. CASE avail = None
    <2>1. cursor' = None /\ status' = "needs_review"
      BY <1>13 DEF EmitRun, avail
    <2>2. ScheduleTypeOK'
      BY <1>1, <1>2, <1>3, <1>5, <1>12, <2>1 DEF ScheduleTypeOK
    <2> QED
      BY <1>9, <1>11, <2>1, <2>2 DEF ScheduleInv, CursorNext
  <1>14. CASE avail # None
    <2>1. MovesTo(NextWall)
      BY <1>14 DEF EmitRun, avail
    <2>2. \/ /\ NextWall = None
             /\ \/ rule.count # None /\ emitted + 1 >= rule.count
                \/ \A v \in WallsOfRule : v <= CursorWall
          \/ /\ NextWall \in WallsOfRule /\ CursorWall < NextWall
             /\ \A v \in WallsOfRule : CursorWall < v => NextWall <= v
             /\ rule.count # None => emitted + 1 < rule.count
      BY <1>14, DueNext DEF avail
    <2>3. NextWall \in Int \cup {None}
      <3>1. NextWall \in WallsOfRule => NextWall \in Int
        BY <1>1
      <3> QED
        BY <2>2, <3>1
    <2>4. /\ cursor' \in Int \cup {None}
          /\ status' \in {"active", "completed", "needs_review"}
          /\ status' = "active" <=> cursor' # None
          /\ status' = "completed" <=> NextWall = None
          /\ status' = "active" => NextWall # None /\ ToWall(zone, cursor') = NextWall
      BY <1>1, <2>1, <2>3, MovesFacts
    <2>5. ScheduleTypeOK'
      BY <1>1, <1>2, <1>3, <1>5, <1>12, <2>4 DEF ScheduleTypeOK
    <2>6. CursorNext'
      <3> SUFFICES ASSUME status' = "active" PROVE CursorNext'
        BY DEF CursorNext
      <3>1. /\ CursorWall' = NextWall /\ NextWall \in WallsOfRule /\ CursorWall < NextWall
            /\ \A v \in WallsOfRule : CursorWall < v => NextWall <= v
            /\ rule.count # None => emitted + 1 < rule.count
        BY <1>2, <2>2, <2>4 DEF CursorWall
      <3>2. \A v \in RunWalls' : v < NextWall
        <4>1. ASSUME NEW v \in RunWalls' PROVE v < NextWall
          <5>1. v \in Nat /\ v <= CursorWall /\ NextWall \in Nat
            BY <1>1, <1>5, <1>6, <3>1
          <5> QED
            BY <1>1, <3>1, <5>1
        <4> QED
          BY <4>1
      <3>3. \A w \in WallsOfRule : w < NextWall => w \in RunWalls'
        <4>1. ASSUME NEW w \in WallsOfRule, w < NextWall PROVE w \in RunWalls'
          <5>1. w \in Nat /\ NextWall \in Nat
            BY <1>1, <3>1
          <5>2. w <= CursorWall
            BY <1>1, <3>1, <4>1, <5>1
          <5> QED
            BY <1>10, <5>2
        <4> QED
          BY <4>1
      <3> QED
        BY <1>2, <1>3, <3>1, <3>2, <3>3 DEF CursorNext
    <2>7. ASSUME status' = "completed"
          PROVE  RunWalls' = WallsOfRule' \/ (rule'.count # None /\ emitted' = rule'.count)
      <3>1. NextWall = None /\ None \notin WallsOfRule
        BY <1>1, <2>4, <2>7, WallsType
      <3>2. CASE rule.count # None /\ emitted + 1 >= rule.count
        <4>1. rule.count \in Nat
          BY <1>1, <3>2, RuleFacts
        <4> QED
          BY <1>1, <1>2, <1>3, <1>5, <3>2, <4>1
      <3>3. CASE \A v \in WallsOfRule : v <= CursorWall
        BY <1>2, <1>10, <3>3
      <3> QED
        BY <2>2, <3>1, <3>2, <3>3
    <2> QED
      BY <1>9, <1>11, <2>4, <2>5, <2>6, <2>7 DEF ScheduleInv
  <1> QED
    BY <1>13, <1>14

\* The invariant holds of every schedule: the runs are the first walls of the
\* rule, each once, the cursor is at the next one, and a completed job has come
\* to the end of the rule or of its count.
THEOREM ScheduleInvariant == ScheduleSpec => []ScheduleInv
  <1>1. ASSUME ScheduleInv, [ScheduleNext]_scheduleVars
        PROVE  ScheduleInv'
    <2>1. CASE ActivateJob
      BY <1>1, <2>1, ActivateInv
    <2>2. CASE EmitRun
      BY <1>1, <2>2, EmitInv
    <2>3. CASE UNCHANGED scheduleVars
      <3>1. /\ rule' = rule /\ anchor' = anchor /\ zone' = zone /\ quiet' = quiet
            /\ cursor' = cursor /\ status' = status /\ emitted' = emitted /\ runs' = runs
        BY <2>3 DEF scheduleVars, plan
      <3>2. WallsOfRule' = WallsOfRule
        BY <3>1 DEF WallsOfRule, DatesOfRule
      <3>3. RunWalls' = RunWalls /\ CursorWall' = CursorWall
        BY <3>1 DEF RunWalls, CursorWall
      <3>4. ScheduleTypeOK' /\ CountedRuns' /\ InitialSegment' /\ CursorNext'
        BY <1>1, <3>1, <3>2, <3>3
           DEF ScheduleInv, ScheduleTypeOK, CountedRuns, InitialSegment, CursorNext
      <3> QED
        BY <1>1, <3>1, <3>2, <3>3, <3>4 DEF ScheduleInv
    <2> QED
      BY <1>1, <2>1, <2>2, <2>3 DEF ScheduleNext
  <1> QED
    BY InitInv, <1>1, PTL DEF ScheduleSpec

\* What the cursor holds, its status and its runs are of their types: the
\* searches and the time zone give an instant, nothing, or raise.
THEOREM ScheduleTypes == ScheduleSpec => []ScheduleTypeOK
  <1>1. ScheduleInv => ScheduleTypeOK
    BY DEF ScheduleInv
  <1> QED
    BY <1>1, ScheduleInvariant, PTL

-----------------------------------------------------------------------------
(* What the runs check, for every calendar *)

LEMMA EmitsFromInv == ScheduleInv => EmitsTheRule
  <1> SUFFICES ASSUME ScheduleInv PROVE EmitsTheRule
    OBVIOUS
  <1> DEFINE walls == {ToWall(zone, r.at) : r \in runs}
                        \cup IF cursor = None THEN {} ELSE {ToWall(zone, cursor)}
  <1>1. /\ rule \in Rules /\ anchor \in Anchors /\ emitted \in Nat
        /\ status = "active" <=> cursor # None
        /\ rule.count # None => rule.count \in Nat
        /\ WallsOfRule \subseteq Nat
    BY RuleFacts, WallsType DEF ScheduleInv, ScheduleTypeOK
  <1>2. CountedRuns /\ InitialSegment /\ CursorNext
    BY DEF ScheduleInv
  <1>3. CASE cursor = None
    <2>1. walls = RunWalls
      BY <1>3 DEF RunWalls
    <2>2. status = "completed" => walls = WallsOfRule \/ Cardinality(walls) = rule.count
      BY <1>2, <2>1 DEF ScheduleInv, CountedRuns
    <2> HIDE DEF walls
    <2>3. /\ Cardinality(runs) = emitted /\ walls \subseteq WallsOfRule
          /\ \A w \in WallsOfRule : (\E v \in walls : w < v) => w \in walls
          /\ rule.count # None => Cardinality(walls) <= rule.count
      BY <1>2, <2>1 DEF CountedRuns, InitialSegment
    <2> QED
      BY <2>2, <2>3 DEF EmitsTheRule, walls
  <1>4. CASE cursor # None
    <2>1. walls = RunWalls \cup {CursorWall} /\ status = "active"
      BY <1>1, <1>4 DEF RunWalls, CursorWall
    <2>2. /\ CursorWall \in WallsOfRule
          /\ \A v \in RunWalls : v < CursorWall
          /\ \A w \in WallsOfRule : w < CursorWall => w \in RunWalls
          /\ rule.count # None => emitted < rule.count
      BY <1>2, <2>1 DEF CursorNext
    <2>3. CursorWall \notin RunWalls
      BY <1>1, <2>2
    <2> HIDE DEF walls
    <2>4. Cardinality(walls) = emitted + 1
      BY <1>2, <2>1, <2>3, FS_AddElement DEF CountedRuns
    <2>5. walls \subseteq WallsOfRule
      BY <1>2, <2>1, <2>2 DEF InitialSegment
    <2>6. ASSUME NEW w \in WallsOfRule, NEW v \in walls, w < v PROVE w \in walls
      <3>1. v \in Nat /\ w \in Nat /\ CursorWall \in Nat /\ v <= CursorWall
        BY <1>1, <2>1, <2>2, <2>5
      <3>2. w < CursorWall
        BY <2>6, <3>1
      <3> QED
        BY <2>1, <2>2, <3>2
    <2>7. rule.count # None => Cardinality(walls) <= rule.count
      BY <1>1, <2>2, <2>4
    <2>8. Cardinality(runs) = emitted /\ status # "completed"
      BY <1>2, <2>1 DEF CountedRuns
    <2> QED
      BY <2>5, <2>6, <2>7, <2>8 DEF EmitsTheRule, walls
  <1> QED
    BY <1>3, <1>4

\* Of every rule, also over changes of the clocks, months without the day and
\* weeks left out: the runs and the cursor are its first occurrences.
THEOREM RuleEmitted == ScheduleSpec => []EmitsTheRule
  BY ScheduleInvariant, EmitsFromInv, PTL

\* Nothing becomes available before its time or in quiet hours.
THEOREM QuietHoursKept == ScheduleSpec => []AvailableOutsideQuiet
  <1>1. ScheduleInit => AvailableOutsideQuiet
    BY DEF ScheduleInit, AvailableOutsideQuiet
  <1>2. ASSUME AvailableOutsideQuiet, ScheduleInv, [ScheduleNext]_scheduleVars
        PROVE  AvailableOutsideQuiet'
    <2>1. CASE ActivateJob
      BY <1>2, <2>1 DEF ActivateJob, AvailableOutsideQuiet, plan
    <2>2. CASE EmitRun
      <3> DEFINE avail == AvailableAt(zone, quiet, cursor)
      <3>1. /\ cursor \in Int /\ zone \in Zones /\ quiet \in QuietHours
        BY <1>2, <2>2, DueFacts DEF EmitRun
      <3>2. /\ runs' = runs \cup {[at |-> cursor, avail |-> avail]}
            /\ zone' = zone /\ quiet' = quiet
        BY <2>2 DEF EmitRun, plan
      <3>3. avail # None =>
              /\ avail >= cursor
              /\ quiet # None => ~Covers(quiet, ClockOf(ToWall(zone, avail)))
        BY <3>1, AvailableFacts
      <3> HIDE DEF avail
      <3>4. ASSUME NEW r \in runs', r.avail # None
            PROVE  /\ r.avail >= r.at
                   /\ quiet' # None => ~Covers(quiet', ClockOf(ToWall(zone', r.avail)))
        <4>1. CASE r \in runs
          BY <1>2, <3>2, <3>4, <4>1 DEF AvailableOutsideQuiet
        <4>2. CASE r = [at |-> cursor, avail |-> avail]
          <5>1. r.at = cursor /\ r.avail = avail
            BY <4>2
          <5> QED
            BY <3>2, <3>3, <3>4, <5>1
        <4> QED
          BY <3>2, <4>1, <4>2
      <3> QED
        BY <3>4 DEF AvailableOutsideQuiet
    <2>3. CASE UNCHANGED scheduleVars
      BY <1>2, <2>3 DEF scheduleVars, plan, AvailableOutsideQuiet
    <2> QED
      BY <1>2, <2>1, <2>2, <2>3 DEF ScheduleNext
  <1> QED
    BY <1>1, <1>2, ScheduleInvariant, PTL DEF ScheduleSpec

\* A job whose search fails is a monthly one none of whose months has the day.
LEMMA RaisesFacts == ScheduleInv => SearchFinds
  <1> SUFFICES ASSUME ScheduleInv, Raises PROVE SearchFinds
    BY DEF SearchFinds
  <1> DEFINE w == CursorWall
             f == Following(rule, anchor, w)
  <1>1. /\ status = "active" /\ NextWall = Fails
    BY DEF Raises
  <1>2. /\ w \in WallsOfRule /\ w \in AllWalls /\ w \in Nat
        /\ rule \in Rules /\ anchor \in Anchors /\ anchor \in Nat /\ w # None
    BY <1>1, DueFacts, WallsType, PlanTypes
  <1>3. f = Fails
    <2>1. NextWall = NextOccurrence(rule, anchor, w, emitted + 1)
      BY DEF NextWall, CursorWall
    <2> HIDE DEF w, f
    <2>2. NextWall = None \/ NextWall = Until(rule, f)
      BY <1>2, <2>1 DEF NextOccurrence, f
    <2>3. Until(rule, f) = None \/ Until(rule, f) = f
      BY DEF Until
    <2> QED
      BY <1>1, <2>2, <2>3, ConstantFacts
  <1>4. CASE rule.kind = "once"
    BY <1>3, <1>4, ConstantFacts DEF Following
  <1>5. CASE rule.kind = "daily"
    <2>1. f = w + rule.interval * DayLength
      BY <1>5 DEF Following
    <2>2. rule.interval * DayLength \in Int
      BY <1>2, PlanTypes, UnitsType
    <2> HIDE DEF f, w
    <2> QED
      BY <1>2, <1>3, <2>1, <2>2, ConstantFacts
  <1>6. CASE rule.kind = "weekly"
    <2>1. f = NextWeekly(rule, anchor, w)
      BY <1>6 DEF Following
    <2>2. PICK d \in Int : NextWeekly(rule, anchor, w) = Combine(d, ClockOf(anchor))
      BY <1>2, WeeklyFinds
    <2>3. f \in Int
      BY <1>2, <2>1, <2>2, PlanTypes, CombineParts
    <2> QED
      BY <1>3, <2>3, ConstantFacts
  <1>7. CASE rule.kind = "monthly"
    <2>1. f = NextMonthly(rule, anchor, w)
      BY <1>7 DEF Following
    <2>2. PICK j \in Nat : MonthOf(DateOf(w)) = MonthAt(rule, anchor, j)
      BY <1>2, <1>7, MonthOfWall
    <2>3. \A k \in Int : ~HasDay(MonthAt(rule, anchor, k), DayOf(rule, anchor))
      <3>1. ASSUME NEW n \in 1..SearchMonths
            PROVE  Combine(DateIn(MonthAt(rule, anchor, j + n), DayOf(rule, anchor)),
                           ClockOf(anchor)) # Fails
                   \/ ~HasDay(MonthAt(rule, anchor, j + n), DayOf(rule, anchor))
        <4> DEFINE m == MonthAt(rule, anchor, j + n)
                   day == DayOf(rule, anchor)
        <4>1. j + n \in Nat
          BY UnitsType
        <4>2. m \in Nat /\ day \in Nat \ {0}
          BY <1>2, <4>1, MonthAtType
        <4>3. HasDay(m, day) => DateIn(m, day) \in Nat
          BY <4>2, DateInFacts
        <4>4. HasDay(m, day) => Combine(DateIn(m, day), ClockOf(anchor)) \in Int
          BY <1>2, <4>3, PlanTypes, CombineParts
        <4> QED
          BY <4>4, ConstantFacts
      <3> HIDE DEF w
      <3> QED
        BY <1>2, <1>3, <2>1, <2>2, <3>1, MonthlyFinds DEF f
    <2>4. \A k \in 1..Len(MonthLengths) : k \in Int
      BY LengthType
    <2> QED
      BY <1>7, <2>3, <2>4 DEF SearchFinds, MonthAt, DayOf
  <1> QED
    BY <1>2, <1>4, <1>5, <1>6, <1>7, RuleFacts

\* _next_monthly gives up only where no month could do, and _next_weekly never.
THEOREM SearchesFind == ScheduleSpec => []SearchFinds
  BY ScheduleInvariant, RaisesFacts, PTL

\* The instants of a job ascend, also over a change of the clocks back: what
\* ReminderStore's PlanAssumption takes for granted of the plan of a job.
InstantsAscend == [][cursor # None /\ cursor' # None => cursor < cursor']_scheduleVars

\* The next instant is later than the last one, over any one change of the offset.
THEOREM ScheduleAscends == ScheduleSpec => InstantsAscend
  <1>1. ASSUME ScheduleInv, [ScheduleNext]_scheduleVars
        PROVE  [cursor # None /\ cursor' # None => cursor < cursor']_scheduleVars
    <2>1. CASE ActivateJob
      BY <1>1, <2>1 DEF ActivateJob, ScheduleInv, ScheduleTypeOK
    <2>2. CASE EmitRun /\ cursor' # None
      <3>1. /\ cursor \in Int /\ zone \in Zones /\ CursorWall \in Nat
            /\ WallsOfRule \subseteq Nat
        BY <1>1, <2>2, DueFacts, WallsType DEF EmitRun
      <3>2. AvailableAt(zone, quiet, cursor) # None /\ MovesTo(NextWall)
        BY <2>2 DEF EmitRun
      <3>3. NextWall # None /\ cursor' = Resolve(zone, NextWall)
        BY <2>2, <3>2 DEF MovesTo
      <3>4. NextWall \in Int /\ ToWall(zone, cursor) < NextWall
        <4>1. NextWall \in WallsOfRule /\ CursorWall < NextWall
          BY <1>1, <2>2, <3>2, <3>3, DueNext
        <4> QED
          BY <3>1, <4>1 DEF CursorWall
      <3>5. cursor < Resolve(zone, NextWall)
        BY <2>2, <3>1, <3>3, <3>4, ResolveOrder
      <3> QED
        BY <3>3, <3>5
    <2> QED
      BY <1>1, <2>1, <2>2 DEF ScheduleNext
  <1> QED
    BY <1>1, ScheduleInvariant, PTL DEF ScheduleSpec, InstantsAscend
=============================================================================
