----------------------------- MODULE ReportCadence -----------------------------
(***************************************************************************)
(* The calendar of scheduled reports: next_run_at and report_window on a   *)
(* time line, and the runs of one schedule whose jobs may start late.      *)
(* Time counts half hours from the start of month 1 (so that a time can    *)
(* lie between two full hours); day 0 is a Monday.                         *)
(***************************************************************************)
EXTENDS Integers, Sequences

CONSTANTS MonthStart,   \* the days on which consecutive months begin; the calendar ends before the last
          Hour,         \* hours a schedule can have
          Created,      \* times at which the schedule can be saved, in month 2 or later
          Delay,        \* half hours a job can start after its run time
          MaxRuns       \* bound: runs of the schedule

VARIABLES sched,    \* frequency, weekday (0 = Monday) and hour
          at,       \* when next_run_at was last computed
          next,     \* next_run_at
          windows   \* the periods reported so far, in days, and whether their job started in time

vars == <<sched, at, next, windows>>

Schedule ==
    [freq : {"weekly"}, weekday : 0..6, hour : Hour] \cup [freq : {"monthly"}, weekday : {0}, hour : Hour]

DayOf(t) == t \div 48
AtHour(day, hour) == (day * 24 + hour) * 2
Weekday(day) == day % 7

MonthOf(day) == CHOOSE m \in 1..(Len(MonthStart) - 1) : MonthStart[m] <= day /\ day < MonthStart[m + 1]

\* The calendar has the month of t and the one before it.
Covers(t) == MonthStart[2] <= DayOf(t) /\ DayOf(t) < MonthStart[Len(MonthStart)]

ASSUME CalendarAssumption ==
    /\ MonthStart \in Seq(Nat) /\ Len(MonthStart) > 2 /\ MonthStart[1] = 0
    /\ \A m \in 1..(Len(MonthStart) - 1) : MonthStart[m] < MonthStart[m + 1]
    /\ Hour \subseteq 0..23
    /\ Created \subseteq Nat /\ \A t \in Created : Covers(t)
    /\ Delay \subseteq Nat /\ MaxRuns \in Nat

\* Mutant of NextRunAt: a candidate equal to the present time is kept.
NextRunAtNow(s, after) ==
    LET today     == DayOf(after)
        candidate == AtHour(today + ((s.weekday - Weekday(today)) % 7), s.hour)
        first     == AtHour(MonthStart[MonthOf(today)], s.hour)
    IN  CASE s.freq = "weekly"  -> IF candidate < after THEN candidate + 7 * 48 ELSE candidate
          [] s.freq = "monthly" -> IF first >= after THEN first ELSE AtHour(MonthStart[MonthOf(today) + 1], s.hour)

NextRunAt(s, after) ==
    LET today     == DayOf(after)
        candidate == AtHour(today + ((s.weekday - Weekday(today)) % 7), s.hour)
        first     == AtHour(MonthStart[MonthOf(today)], s.hour)
    IN  CASE s.freq = "weekly"  -> IF candidate <= after THEN candidate + 7 * 48 ELSE candidate
          [] s.freq = "monthly" -> IF first > after THEN first ELSE AtHour(MonthStart[MonthOf(today) + 1], s.hour)

\* Mutant of ReportWindow: the day of the run is reported too.
ReportWindowToday(s, runAt) ==
    LET m == MonthOf(DayOf(runAt))
    IN  IF s.freq = "monthly"
        THEN [from |-> MonthStart[m - 1], to |-> MonthStart[m]]
        ELSE [from |-> DayOf(runAt) - 7, to |-> DayOf(runAt) + 1]

ReportWindow(s, runAt) ==
    LET m == MonthOf(DayOf(runAt))
    IN  IF s.freq = "monthly"
        THEN [from |-> MonthStart[m - 1], to |-> MonthStart[m]]
        ELSE [from |-> DayOf(runAt) - 7, to |-> DayOf(runAt)]

Init ==
    /\ sched \in Schedule
    /\ at \in Created
    /\ next = NextRunAt(sched, at)
    /\ windows = <<>>

\* A job started at t serves the run time in time: in its month, or on its day.
InTime(t, run) ==
    IF sched.freq = "monthly" THEN MonthOf(DayOf(t)) = MonthOf(DayOf(run)) ELSE DayOf(t) = DayOf(run)

\* deliver_scheduled_report, by cron: window and cadence both start from the time of the job.
Run(delay) ==
    /\ Len(windows) < MaxRuns /\ Covers(next + delay)
    /\ at' = next + delay
    /\ windows' = Append(windows, [period |-> ReportWindow(sched, at'), inTime |-> InTime(at', next)])
    /\ next' = NextRunAt(sched, at')
    /\ UNCHANGED sched

Next == \E delay \in Delay : Run(delay)

Spec == Init /\ [][Next]_vars

\* The days a schedule is meant to fire on: its weekday, or the first of a month.
RunsOn(s, day) ==
    IF s.freq = "weekly" THEN Weekday(day) = s.weekday ELSE \E m \in 1..Len(MonthStart) : day = MonthStart[m]

\* next_run_at returns the first time the schedule is meant to fire at strictly after the one it is
\* given, at every weekday, month end and minute, also just before and at the hour itself.
NextRunIsFirst ==
    /\ next > at
    /\ next = AtHour(DayOf(next), sched.hour) /\ RunsOn(sched, DayOf(next))
    /\ \A day \in DayOf(at)..DayOf(next) :
          RunsOn(sched, day) => AtHour(day, sched.hour) <= at \/ AtHour(day, sched.hour) >= next

\* Periods of successive reports follow on from each other without gap or overlap when both jobs start
\* in time: months however late in its month a job starts, weeks however late on its day.
PeriodsTile ==
    \A i \in 1..(Len(windows) - 1) :
        windows[i].inTime /\ windows[i + 1].inTime => windows[i + 1].period.from = windows[i].period.to

==============================================================================
