------------------------ MODULE ReportCadence_proofs ------------------------
(***************************************************************************)
(* Proofs about ReportCadence: for every calendar, hour, time of saving    *)
(* and delay, next_run_at finds the first run time that lies ahead, and    *)
(* the periods of successive reports meet.                                 *)
(*                                                                         *)
(* What a calendar is (months in order, every day in exactly one of them)  *)
(* takes an induction over the months, here through the least element of   *)
(* a set of numbers.                                                       *)
(***************************************************************************)
EXTENDS ReportCadence, WellFoundedInduction, TLAPS

\* A set of numbers has a least element.
LEMMA Least ==
  ASSUME NEW S \in SUBSET Nat, S # {}
  PROVE  \E m \in S : \A k \in S : m <= k
<1> DEFINE R == OpToRel(<, Nat)
<1>1. IsWellFoundedOn(R, Nat)
  BY NatLessThanWellFounded, Zenon
<1>2. \A x, y \in Nat : <<y, x>> \in R <=> y < x
  BY Zenon DEF OpToRel
<1> HIDE DEF R
<1>3. PICK x \in S : \A y \in S : ~(<<y, x>> \in R)
  BY <1>1, WFMin, Zenon
<1>4. ASSUME NEW y \in S PROVE x <= y
  <2>1. x \in Nat /\ y \in Nat
    BY Zenon
  <2>2. ~(y < x)
    BY <1>2, <1>3, <2>1, Zenon
  <2> QED
    BY <2>1, <2>2
<1> QED
  BY <1>4, Zenon

\* The months begin on days, and there are at least three.
LEMMA Months ==
  /\ Len(MonthStart) \in Nat /\ Len(MonthStart) > 2
  /\ \A m \in 1..Len(MonthStart) : MonthStart[m] \in Nat
  /\ \A m \in 1..(Len(MonthStart) - 1) : MonthStart[m] < MonthStart[m + 1]
BY CalendarAssumption

\* A later month begins later.
LEMMA MonthsGrow ==
  ASSUME NEW i \in 1..Len(MonthStart), NEW j \in 1..Len(MonthStart), i < j
  PROVE  MonthStart[i] < MonthStart[j]
<1> DEFINE S == {k \in 1..Len(MonthStart) : i < k /\ ~(MonthStart[i] < MonthStart[k])}
<1> SUFFICES ASSUME S # {} PROVE FALSE
  BY Zenon
<1>1. S \in SUBSET Nat
  BY Months
<1>2. PICK k \in S : \A l \in S : k <= l
  BY <1>1, Least, Zenon
<1>3. k \in 1..Len(MonthStart) /\ i < k /\ ~(MonthStart[i] < MonthStart[k]) /\ k - 1 \in 1..(Len(MonthStart) - 1)
  BY <1>2, Months
<1>4. MonthStart[k - 1] < MonthStart[k]
  <2>1. (k - 1) + 1 = k
    BY <1>3
  <2> QED
    BY <1>3, <2>1, Months, Zenon
<1>5. CASE k - 1 = i
  BY <1>3, <1>4, <1>5, Zenon
<1>6. CASE k - 1 # i
  <2>1. k - 1 \notin S
    BY <1>2, <1>3
  <2>2. MonthStart[i] < MonthStart[k - 1]
    BY <1>3, <1>6, <2>1, Months
  <2>3. MonthStart[i] \in Nat /\ MonthStart[k - 1] \in Nat /\ MonthStart[k] \in Nat
    BY <1>3, Months
  <2> QED
    BY <1>3, <1>4, <2>2, <2>3
<1> QED
  BY <1>5, <1>6, Zenon

\* A day lies in at most one month, and MonthOf finds it.
LEMMA MonthIs ==
  ASSUME NEW day \in Nat, NEW m \in 1..(Len(MonthStart) - 1), MonthStart[m] <= day, day < MonthStart[m + 1]
  PROVE  MonthOf(day) = m
<1>1. ASSUME NEW k \in 1..(Len(MonthStart) - 1), MonthStart[k] <= day, day < MonthStart[k + 1]
      PROVE  k = m
  <2>1. /\ k + 1 \in 1..Len(MonthStart) /\ m + 1 \in 1..Len(MonthStart)
        /\ k \in 1..Len(MonthStart) /\ m \in 1..Len(MonthStart)
    BY Months
  <2>2. ~(k < m)
    <3> SUFFICES ASSUME k < m PROVE FALSE
      BY Zenon
    <3>1. k + 1 = m \/ k + 1 < m
      OBVIOUS
    <3>2. MonthStart[k + 1] <= MonthStart[m]
      BY <2>1, <3>1, MonthsGrow, Months
    <3> QED
      BY <1>1, <2>1, <3>2, Months
  <2>3. ~(m < k)
    <3> SUFFICES ASSUME m < k PROVE FALSE
      BY Zenon
    <3>1. m + 1 = k \/ m + 1 < k
      OBVIOUS
    <3>2. MonthStart[m + 1] <= MonthStart[k]
      BY <2>1, <3>1, MonthsGrow, Months
    <3> QED
      BY <1>1, <2>1, <3>2, Months
  <2> QED
    BY <2>2, <2>3
<1> QED
  BY <1>1, Zenon DEF MonthOf

\* Every day of the calendar lies in the month that MonthOf finds.
LEMMA MonthFound ==
  ASSUME NEW day \in Nat, day < MonthStart[Len(MonthStart)]
  PROVE  /\ MonthOf(day) \in 1..(Len(MonthStart) - 1)
         /\ MonthStart[MonthOf(day)] <= day /\ day < MonthStart[MonthOf(day) + 1]
<1> DEFINE S == {k \in 1..Len(MonthStart) : day < MonthStart[k]}
<1>1. S \in SUBSET Nat /\ Len(MonthStart) \in S
  BY Months
<1>2. PICK k \in S : \A l \in S : k <= l
  BY <1>1, Least, Zenon
<1>3. k \in 1..Len(MonthStart) /\ day < MonthStart[k]
  BY <1>2, Zenon
<1>4. k # 1
  BY <1>3, CalendarAssumption
<1>5. k - 1 \in 1..(Len(MonthStart) - 1) /\ k - 1 \in 1..Len(MonthStart) /\ (k - 1) + 1 = k
  BY <1>3, <1>4, Months
<1>6. k - 1 \notin S
  BY <1>2, <1>3
<1>7. MonthStart[k - 1] <= day
  BY <1>5, <1>6, Months
<1>8. MonthOf(day) = k - 1
  BY <1>3, <1>5, <1>7, MonthIs, Zenon
<1> QED
  BY <1>3, <1>5, <1>7, <1>8, Zenon

\* The day of a time.
LEMMA Days ==
  ASSUME NEW t \in Nat
  PROVE  DayOf(t) \in Nat /\ 48 * DayOf(t) <= t /\ t < 48 * DayOf(t) + 48
BY DEF DayOf

\* The time of an hour of a day.
LEMMA Hours ==
  ASSUME NEW day \in Nat, NEW hour \in 0..23
  PROVE  AtHour(day, hour) \in Nat /\ AtHour(day, hour) = 48 * day + 2 * hour /\ DayOf(AtHour(day, hour)) = day
BY DEF AtHour, DayOf

\* The next day that has a given weekday.
LEMMA Weeks ==
  ASSUME NEW day \in Nat, NEW w \in 0..6
  PROVE  LET ahead == (w - Weekday(day)) % 7
         IN  /\ ahead \in 0..6 /\ Weekday(day + ahead) = w /\ Weekday(day + ahead + 7) = w
             /\ \A d \in Nat : day <= d /\ d < day + ahead + 7 /\ Weekday(d) = w => d = day + ahead
BY DEF Weekday

\* What the weekly branch of next_run_at returns.
LEMMA WeeklyNext ==
  ASSUME NEW s \in Schedule, s.freq = "weekly", NEW after \in Nat
  PROVE  LET n == NextRunAt(s, after)
         IN  /\ n \in Nat /\ n > after /\ n = AtHour(DayOf(n), s.hour) /\ Weekday(DayOf(n)) = s.weekday
             /\ \A day \in Nat : DayOf(after) <= day /\ day <= DayOf(n) /\ Weekday(day) = s.weekday =>
                   AtHour(day, s.hour) <= after \/ AtHour(day, s.hour) >= n
             /\ Weekday(DayOf(after)) = s.weekday /\ AtHour(DayOf(after), s.hour) <= after =>
                   DayOf(n) = DayOf(after) + 7
<1>1. s.weekday \in 0..6 /\ s.hour \in 0..23
  BY CalendarAssumption, Zenon DEF Schedule
<1> DEFINE today == DayOf(after)
           ahead == (s.weekday - Weekday(today)) % 7
           n     == NextRunAt(s, after)
<1>2. today \in Nat /\ 48 * today <= after /\ after < 48 * today + 48
  BY Days, Zenon
<1>3. /\ ahead \in 0..6 /\ Weekday(today + ahead) = s.weekday /\ Weekday(today + ahead + 7) = s.weekday
      /\ \A d \in Nat : today <= d /\ d < today + ahead + 7 /\ Weekday(d) = s.weekday => d = today + ahead
  BY <1>1, <1>2, Weeks, Zenon
<1>4. n = IF AtHour(today + ahead, s.hour) <= after
          THEN AtHour(today + ahead, s.hour) + 7 * 48 ELSE AtHour(today + ahead, s.hour)
  BY Zenon DEF NextRunAt
<1> HIDE DEF today, ahead, n
<1> DEFINE first == AtHour(today + ahead, s.hour)
           later == AtHour(today + ahead + 7, s.hour)
           hour  == s.hour
<1>5. today + ahead \in Nat /\ today + ahead + 7 \in Nat /\ hour \in 0..23 /\ ahead \in Nat
  BY <1>1, <1>2, <1>3
<1>6. /\ first \in Nat /\ first = 48 * (today + ahead) + 2 * hour /\ DayOf(first) = today + ahead
      /\ later \in Nat /\ later = 48 * (today + ahead + 7) + 2 * hour /\ DayOf(later) = today + ahead + 7
  BY <1>5, Hours, Zenon
<1>7. n = IF first <= after THEN first + 7 * 48 ELSE first
  BY <1>4, Zenon
<1> HIDE DEF first, later, hour
<1>8. CASE first <= after
  <2>1. n = later
    BY <1>2, <1>5, <1>6, <1>7, <1>8
  <2>2. later > after
    BY <1>2, <1>5, <1>6
  <2>3. ahead = 0
    BY <1>2, <1>5, <1>6, <1>8
  <2>4. ASSUME NEW day \in Nat, today <= day, day <= DayOf(n), Weekday(day) = s.weekday
        PROVE  AtHour(day, s.hour) <= after \/ AtHour(day, s.hour) >= n
    <3>1. day = today + ahead \/ day = today + ahead + 7
      BY <1>2, <1>3, <1>5, <1>6, <2>1, <2>4
    <3>2. AtHour(day, s.hour) \in {first, later}
      BY <3>1, Zenon DEF first, later
    <3> QED
      BY <1>6, <1>8, <2>1, <3>2
  <2>5. n = AtHour(DayOf(n), s.hour)
    BY <1>6, <2>1, Zenon DEF later
  <2>6. DayOf(n) = today + 7
    BY <1>2, <1>5, <1>6, <2>1, <2>3
  <2>7. n \in Nat /\ Weekday(DayOf(n)) = s.weekday
    BY <1>3, <1>6, <2>1, Zenon
  <2> QED
    BY <2>2, <2>1, <2>4, <2>5, <2>6, <2>7, Zenon DEF n, today
<1>9. CASE ~(first <= after)
  <2>1. n = first /\ first > after
    BY <1>6, <1>7, <1>9
  <2>2. ASSUME NEW day \in Nat, today <= day, day <= DayOf(n), Weekday(day) = s.weekday
        PROVE  AtHour(day, s.hour) >= n
    <3>1. day = today + ahead
      BY <1>2, <1>3, <1>5, <1>6, <2>1, <2>2
    <3> QED
      BY <1>6, <2>1, <3>1 DEF first
  <2>3. ASSUME Weekday(today) = s.weekday, AtHour(today, s.hour) <= after
        PROVE  FALSE
    <3>1. today = today + ahead
      BY <1>2, <1>3, <2>3
    <3> QED
      BY <1>9, <2>3, <3>1, Zenon DEF first
  <2>4. n = AtHour(DayOf(n), s.hour)
    BY <1>6, <2>1, Zenon DEF first
  <2> QED
    BY <1>3, <1>6, <2>1, <2>2, <2>3, <2>4, Zenon DEF n, today
<1> QED
  BY <1>8, <1>9, Zenon

\* What the monthly branch of next_run_at returns.
LEMMA MonthlyNext ==
  ASSUME NEW s \in Schedule, s.freq = "monthly", NEW after \in Nat, Covers(after)
  PROVE  LET n == NextRunAt(s, after)
             m == MonthOf(DayOf(after))
         IN  /\ n \in Nat /\ n > after /\ n = AtHour(DayOf(n), s.hour)
             /\ \E k \in 1..Len(MonthStart) : DayOf(n) = MonthStart[k]
             /\ \A k \in 1..Len(MonthStart) : DayOf(after) <= MonthStart[k] /\ MonthStart[k] <= DayOf(n) =>
                   AtHour(MonthStart[k], s.hour) <= after \/ AtHour(MonthStart[k], s.hour) >= n
             /\ m \in 1..(Len(MonthStart) - 1)
             /\ AtHour(MonthStart[m], s.hour) <= after => DayOf(n) = MonthStart[m + 1]
<1>1. s.hour \in 0..23 /\ s.freq # "weekly"
  BY CalendarAssumption, Zenon DEF Schedule
<1> DEFINE today == DayOf(after)
           m == MonthOf(today)
           n == NextRunAt(s, after)
<1>2. today \in Nat /\ 48 * today <= after /\ after < 48 * today + 48 /\ today < MonthStart[Len(MonthStart)]
  BY Days, Zenon DEF Covers
<1>3. m \in 1..(Len(MonthStart) - 1) /\ MonthStart[m] <= today /\ today < MonthStart[m + 1]
  BY <1>2, MonthFound, Zenon
<1>4. n = IF AtHour(MonthStart[m], s.hour) > after
          THEN AtHour(MonthStart[m], s.hour) ELSE AtHour(MonthStart[m + 1], s.hour)
  BY <1>1, Zenon DEF NextRunAt
<1> HIDE DEF today, m, n
<1>5. m \in 1..Len(MonthStart) /\ m + 1 \in 1..Len(MonthStart) /\ MonthStart[m] \in Nat /\ MonthStart[m + 1] \in Nat
  BY <1>3, Months
<1> DEFINE first == AtHour(MonthStart[m], s.hour)
           later == AtHour(MonthStart[m + 1], s.hour)
           hour  == s.hour
           here  == MonthStart[m]
           there == MonthStart[m + 1]
<1>6. /\ first \in Nat /\ first = 48 * here + 2 * hour /\ DayOf(first) = here
      /\ later \in Nat /\ later = 48 * there + 2 * hour /\ DayOf(later) = there
      /\ hour \in 0..23 /\ here \in Nat /\ there \in Nat /\ here <= today /\ today < there
  BY <1>1, <1>3, <1>5, Hours, Zenon
<1>7. n = IF first > after THEN first ELSE later
  BY <1>4, Zenon
<1> HIDE DEF first, later, hour, here, there
<1>8. ASSUME NEW k \in 1..Len(MonthStart), today <= MonthStart[k], MonthStart[k] <= there
      PROVE  MonthStart[k] = here \/ MonthStart[k] = there
  <2>1. k \in Nat /\ m \in Nat /\ MonthStart[k] \in Nat
    BY <1>5, Months
  <2>2. ~(k < m)
    <3>1. k < m => MonthStart[k] < here
      BY <1>5, MonthsGrow, Zenon DEF here
    <3> QED
      BY <1>2, <1>6, <1>8, <2>1, <3>1
  <2>3. ~(k > m + 1)
    <3>1. m + 1 < k => there < MonthStart[k]
      BY <1>5, MonthsGrow, Zenon DEF there
    <3> QED
      BY <1>5, <1>6, <1>8, <2>1, <3>1
  <2> QED
    BY <2>1, <2>2, <2>3 DEF here, there
<1>9. CASE first > after
  <2>1. n = first /\ today = here /\ ~(first <= after)
    BY <1>2, <1>6, <1>7, <1>9
  <2>2. ASSUME NEW k \in 1..Len(MonthStart), today <= MonthStart[k], MonthStart[k] <= DayOf(n)
        PROVE  AtHour(MonthStart[k], s.hour) >= n
    <3>1. MonthStart[k] = here
      BY <1>6, <2>1, <2>2, Months
    <3> QED
      BY <1>6, <2>1, <3>1 DEF first, here
  <2>3. n = AtHour(DayOf(n), s.hour) /\ DayOf(n) = MonthStart[m]
    BY <1>6, <2>1, Zenon DEF first, here
  <2> QED
    BY <1>3, <1>5, <1>6, <1>9, <2>1, <2>2, <2>3, Zenon DEF n, m, today, first
<1>10. CASE ~(first > after)
  <2>1. n = later /\ later > after /\ first <= after
    BY <1>2, <1>6, <1>7, <1>10
  <2>2. ASSUME NEW k \in 1..Len(MonthStart), today <= MonthStart[k], MonthStart[k] <= DayOf(n)
        PROVE  AtHour(MonthStart[k], s.hour) <= after \/ AtHour(MonthStart[k], s.hour) >= n
    <3>1. MonthStart[k] = here \/ MonthStart[k] = there
      BY <1>6, <1>8, <2>1, <2>2, Zenon
    <3>2. AtHour(MonthStart[k], s.hour) \in {first, later}
      BY <3>1, Zenon DEF first, later, here, there
    <3> QED
      BY <1>6, <2>1, <3>2
  <2>3. n = AtHour(DayOf(n), s.hour) /\ DayOf(n) = MonthStart[m + 1]
    BY <1>6, <2>1, Zenon DEF later, there
  <2> QED
    BY <1>3, <1>5, <1>6, <2>1, <2>2, <2>3, Zenon DEF n, m, today, first
<1> QED
  BY <1>9, <1>10, Zenon

\* next_run_at, from any time of the calendar.
LEMMA NextIsFirst ==
  ASSUME NEW s \in Schedule, NEW after \in Nat, Covers(after)
  PROVE  LET n == NextRunAt(s, after)
         IN  /\ n \in Nat /\ n > after /\ n = AtHour(DayOf(n), s.hour) /\ RunsOn(s, DayOf(n))
             /\ \A day \in DayOf(after)..DayOf(n) :
                   RunsOn(s, day) => AtHour(day, s.hour) <= after \/ AtHour(day, s.hour) >= n
<1>0. s.freq \in {"weekly", "monthly"} /\ DayOf(after) \in Nat
  BY Days, Zenon DEF Schedule
<1> DEFINE n == NextRunAt(s, after)
<1>1. CASE s.freq = "weekly"
  <2>1. /\ n \in Nat /\ n > after /\ n = AtHour(DayOf(n), s.hour) /\ Weekday(DayOf(n)) = s.weekday
        /\ \A day \in Nat : DayOf(after) <= day /\ day <= DayOf(n) /\ Weekday(day) = s.weekday =>
              AtHour(day, s.hour) <= after \/ AtHour(day, s.hour) >= n
    BY <1>1, WeeklyNext, Zenon
  <2> HIDE DEF n
  <2>2. DayOf(n) \in Nat
    BY <2>1, Days, Zenon
  <2> QED
    BY <1>0, <1>1, <2>1, <2>2 DEF RunsOn, n
<1>2. CASE s.freq = "monthly"
  <2>1. /\ n \in Nat /\ n > after /\ n = AtHour(DayOf(n), s.hour)
        /\ \E k \in 1..Len(MonthStart) : DayOf(n) = MonthStart[k]
        /\ \A k \in 1..Len(MonthStart) : DayOf(after) <= MonthStart[k] /\ MonthStart[k] <= DayOf(n) =>
              AtHour(MonthStart[k], s.hour) <= after \/ AtHour(MonthStart[k], s.hour) >= n
    BY <1>2, MonthlyNext, Zenon
  <2> HIDE DEF n
  <2>2. DayOf(n) \in Nat
    BY <2>1, Days, Zenon
  <2> QED
    BY <1>0, <1>2, <2>1, <2>2 DEF RunsOn, n
<1> QED
  BY <1>0, <1>1, <1>2, Zenon

\* The period of a run that starts in time begins where the one before it ended, if that one also
\* started in time.
LEMMA Meets ==
  ASSUME sched \in Schedule, NEW run \in Nat, run = AtHour(DayOf(run), sched.hour), RunsOn(sched, DayOf(run)),
         NEW t \in Nat, run <= t, Covers(t), InTime(t, run),
         NEW u \in Nat, NextRunAt(sched, t) <= u, Covers(u), InTime(u, NextRunAt(sched, t))
  PROVE  ReportWindow(sched, u).from = ReportWindow(sched, t).to
<1> DEFINE n == NextRunAt(sched, t)
<1>1. /\ sched.freq \in {"weekly", "monthly"} /\ n \in Nat
      /\ DayOf(t) \in Nat /\ DayOf(u) \in Nat /\ DayOf(run) \in Nat /\ DayOf(n) \in Nat
  BY Days, NextIsFirst, Zenon DEF Schedule
<1>2. CASE sched.freq = "weekly"
  <2>1. DayOf(t) = DayOf(run) /\ DayOf(u) = DayOf(n) /\ Weekday(DayOf(t)) = sched.weekday
    BY <1>2, Zenon DEF InTime, RunsOn
  <2>2. DayOf(n) = DayOf(t) + 7
    BY <1>2, <2>1, WeeklyNext, Zenon
  <2>3. ReportWindow(sched, u).from = DayOf(u) - 7 /\ ReportWindow(sched, t).to = DayOf(t)
    BY <1>2, Zenon DEF ReportWindow
  <2> QED
    BY <1>1, <2>1, <2>2, <2>3
<1>3. CASE sched.freq = "monthly"
  <2> DEFINE m == MonthOf(DayOf(t))
  <2>1. /\ MonthOf(DayOf(t)) = MonthOf(DayOf(run)) /\ MonthOf(DayOf(u)) = MonthOf(DayOf(n))
    BY <1>3, Zenon DEF InTime
  <2>2. /\ m \in 1..(Len(MonthStart) - 1)
        /\ AtHour(MonthStart[m], sched.hour) <= t => DayOf(n) = MonthStart[m + 1]
    BY <1>3, MonthlyNext, Zenon
  <2>3. DayOf(run) <= DayOf(t) /\ DayOf(n) <= DayOf(u)
    <3>1. \A x, y \in Nat : x <= y => DayOf(x) <= DayOf(y)
      BY DEF DayOf
    <3> QED
      BY <1>1, <3>1, Zenon
  <2>4. DayOf(t) < MonthStart[Len(MonthStart)] /\ DayOf(u) < MonthStart[Len(MonthStart)]
    BY Zenon DEF Covers
  <2>5. PICK k \in 1..Len(MonthStart) : DayOf(run) = MonthStart[k]
    BY <1>3, Zenon DEF RunsOn
  <2>6. k \in 1..(Len(MonthStart) - 1) /\ MonthStart[k] < MonthStart[k + 1]
    <3>1. k # Len(MonthStart)
      BY <1>1, <2>3, <2>4, <2>5, Months
    <3> QED
      BY <3>1, Months
  <2>7. MonthOf(DayOf(run)) = k
    BY <1>1, <2>5, <2>6, MonthIs
  <2>8. DayOf(n) = MonthStart[m + 1]
    <3>1. AtHour(MonthStart[m], sched.hour) = run
      BY <2>1, <2>5, <2>7, Zenon
    <3> QED
      BY <2>2, <3>1, Zenon
  <2> HIDE DEF m
  <2>9. m + 1 \in 1..(Len(MonthStart) - 1) /\ MonthStart[m + 1] < MonthStart[(m + 1) + 1]
    <3>1. m + 1 \in 1..Len(MonthStart)
      BY <2>2, Months
    <3>2. m + 1 # Len(MonthStart)
      BY <1>1, <2>3, <2>4, <2>8, <3>1, Months
    <3>3. m + 1 \in 1..(Len(MonthStart) - 1)
      BY <3>1, <3>2, Months
    <3> QED
      BY <3>3, Months, Zenon
  <2>10. MonthOf(DayOf(n)) = m + 1
    <3>1. MonthStart[m + 1] <= DayOf(n) /\ DayOf(n) < MonthStart[(m + 1) + 1]
      BY <1>1, <2>8, <2>9
    <3> QED
      BY <1>1, <2>9, <3>1, MonthIs, Zenon
  <2>11. ReportWindow(sched, u).from = MonthStart[(m + 1) - 1] /\ ReportWindow(sched, t).to = MonthStart[m]
    BY <1>3, <2>1, <2>10, Zenon DEF ReportWindow, m
  <2>12. (m + 1) - 1 = m
    BY <2>2
  <2> QED
    BY <2>11, <2>12, Zenon
<1> QED
  BY <1>1, <1>2, <1>3, Zenon

(***************************************************************************)
(* The runs of a schedule                                                  *)
(***************************************************************************)

Report == [period : [from : Int, to : Int], inTime : BOOLEAN]

Last == windows[Len(windows)]

\* The run in time that comes after one in time reports the period that follows on from its.
LastMeets ==
    Len(windows) > 0 /\ Last.inTime =>
        \A u \in Nat : next <= u /\ Covers(u) /\ InTime(u, next) => ReportWindow(sched, u).from = Last.period.to

IInv ==
    /\ sched \in Schedule
    /\ at \in Nat /\ Covers(at)
    /\ next = NextRunAt(sched, at)
    /\ windows \in Seq(Report)
    /\ LastMeets
    /\ PeriodsTile

\* A window is a period of days.
LEMMA WindowType ==
  ASSUME sched \in Schedule, NEW t \in Nat, Covers(t)
  PROVE  ReportWindow(sched, t) \in [from : Int, to : Int]
<1> DEFINE m == MonthOf(DayOf(t))
<1>1. DayOf(t) \in Nat /\ MonthStart[2] <= DayOf(t) /\ DayOf(t) < MonthStart[Len(MonthStart)]
  BY Days, Zenon DEF Covers
<1>2. m \in 1..(Len(MonthStart) - 1) /\ DayOf(t) < MonthStart[m + 1]
  BY <1>1, MonthFound, Zenon
<1> HIDE DEF m
<1>3. m # 1
  <2> SUFFICES ASSUME m = 1 PROVE FALSE
    BY Zenon
  <2>1. DayOf(t) < MonthStart[2]
    BY <1>2
  <2>2. MonthStart[2] \in Nat
    BY Months
  <2> QED
    BY <1>1, <2>1, <2>2
<1>4. MonthStart[m - 1] \in Nat /\ MonthStart[m] \in Nat
  BY <1>2, <1>3, Months
<1> QED
  BY <1>1, <1>4 DEF ReportWindow, m

\* The schedule as it is saved.
LEMMA InitInv == Init => IInv
<1> SUFFICES ASSUME Init PROVE IInv
  BY Zenon
<1>1. at \in Nat /\ Covers(at) /\ windows = <<>>
  BY CalendarAssumption, Zenon DEF Init
<1>2. windows \in Seq(Report) /\ Len(windows) = 0
  BY <1>1
<1>3. LastMeets /\ PeriodsTile
  BY <1>2 DEF LastMeets, PeriodsTile
<1> QED
  BY <1>1, <1>2, <1>3, Zenon DEF Init, IInv

\* A run, however late.
LEMMA RunInv ==
  ASSUME IInv, NEW delay \in Delay, Run(delay)
  PROVE  IInv'
<1>1. /\ sched \in Schedule /\ sched' = sched /\ at \in Nat /\ windows \in Seq(Report) /\ delay \in Nat
      /\ at' = next + delay /\ Covers(at') /\ next' = NextRunAt(sched, at')
  BY CalendarAssumption, Zenon DEF IInv, Run
<1>2. /\ next \in Nat /\ next = AtHour(DayOf(next), sched.hour) /\ RunsOn(sched, DayOf(next))
  BY <1>1, NextIsFirst, Zenon DEF IInv
<1>3. at' \in Nat /\ next <= at'
  BY <1>1, <1>2
<1> DEFINE r == [period |-> ReportWindow(sched, at'), inTime |-> InTime(at', next)]
<1>4. windows' = Append(windows, r)
  BY Zenon DEF Run
<1>5. r \in Report /\ r.period = ReportWindow(sched, at') /\ (r.inTime <=> InTime(at', next))
  <2>1. InTime(at', next) \in BOOLEAN
    BY Zenon DEF InTime
  <2>2. ReportWindow(sched, at') \in [from : Int, to : Int]
    BY <1>1, <1>3, WindowType, Zenon
  <2>3. r \in Report
    BY <2>1, <2>2, Zenon DEF Report
  <2> QED
    BY <2>3, Zenon
<1> HIDE DEF r
<1> DEFINE n == Len(windows)
<1>6. /\ n \in Nat /\ windows' \in Seq(Report) /\ Len(windows') = n + 1 /\ windows'[n + 1] = r
      /\ \A i \in 1..n : windows'[i] = windows[i]
  BY <1>1, <1>4, <1>5
<1>7. LastMeets'
  <2> SUFFICES ASSUME r.inTime, NEW u \in Nat, next' <= u, Covers(u), InTime(u, next)'
               PROVE  ReportWindow(sched, u).from = r.period.to
    BY <1>1, <1>6, Zenon DEF LastMeets, Last
  <2>1. InTime(at', next) /\ InTime(u, NextRunAt(sched, at'))
    BY <1>1, <1>5, Zenon DEF InTime
  <2> QED
    BY <1>1, <1>2, <1>3, <1>5, <2>1, Meets, Zenon
<1>8. PeriodsTile'
  <2> SUFFICES ASSUME NEW i \in 1..n, windows'[i].inTime, windows'[i + 1].inTime
               PROVE  windows'[i + 1].period.from = windows'[i].period.to
    BY <1>6 DEF PeriodsTile
  <2>1. CASE i < n
    <3>1. windows'[i] = windows[i] /\ windows'[i + 1] = windows[i + 1] /\ i \in 1..(n - 1)
      BY <1>6, <2>1
    <3> QED
      BY <3>1, Zenon DEF IInv, PeriodsTile
  <2>2. CASE i = n
    <3>1. windows'[i] = windows[n] /\ windows'[i + 1] = r /\ n > 0
      BY <1>6, <2>2
    <3>2. InTime(at', next) /\ Last.inTime
      BY <1>5, <3>1, Zenon DEF Last
    <3>3. ReportWindow(sched, at').from = Last.period.to
      BY <1>1, <1>3, <3>1, <3>2, Zenon DEF IInv, LastMeets
    <3> QED
      BY <1>5, <3>1, <3>3, Zenon DEF Last
  <2> QED
    BY <1>6, <2>1, <2>2
<1> QED
  BY <1>1, <1>3, <1>6, <1>7, <1>8, Zenon DEF IInv

\* Every step preserves the invariant.
LEMMA NextInv == IInv /\ [Next]_vars => IInv'
<1>1. ASSUME IInv, UNCHANGED vars PROVE IInv'
  BY <1>1, Zenon DEF vars, IInv, LastMeets, Last, PeriodsTile, InTime
<1> QED
  BY <1>1, RunInv, Zenon DEF Next

\* next_run_at and its callers: for every schedule, calendar and time, next_run_at is strictly in the
\* future, a time the schedule is meant to fire at, and no such time lies before it.
THEOREM NextRunFound == Spec => []NextRunIsFirst
<1>1. IInv => NextRunIsFirst
  BY NextIsFirst, Zenon DEF IInv, NextRunIsFirst
<1> QED
  BY InitInv, NextInv, <1>1, PTL DEF Spec

\* report_window with the cadence of next_run_at: two successive runs that start in time, in their month
\* or on their day, report periods that meet without gap or overlap.
THEOREM PeriodsMeet == Spec => []PeriodsTile
<1>1. IInv => PeriodsTile
  BY Zenon DEF IInv
<1> QED
  BY InitInv, NextInv, <1>1, PTL DEF Spec

==============================================================================
