------------------------------ MODULE MCReports ------------------------------
(***************************************************************************)
(* The scheduled reports for TLC: either the calendar of ReportCadence, on *)
(* a clock of half hours, or the delivery of ReportDelivery, on its coarse *)
(* clock, while the calendar stands still.  The calendar runs over the end *)
(* of a leap year, November to May: schedules are saved on every day of    *)
(* December at the times around the edges of the hours 0 and 23, jobs      *)
(* start on time, half an hour, two days or five weeks late.               *)
(***************************************************************************)
EXTENDS ReportCadence

CONSTANTS Worker, Never, Period, MaxSends, MaxTime, MaxReports, MaxQueued, MaxEdits, MaxManual, MaxCrashes

VARIABLES now, row, reports, queue, sends, wk, mail, over, edits, manuals, crashes   \* of ReportDelivery
VARIABLE part           \* which of the two

Delivery == INSTANCE ReportDelivery WITH sched <- row

delivery == <<now, row, reports, queue, sends, wk, mail, over, edits, manuals, crashes>>

\* Starts of the months of 30, 31, 31, 29, 31, 30 and 31 days.
Months == <<0, 30, 61, 92, 121, 152, 182, 213>>
SavedAt == {day * 48 + clock : day \in 30..60, clock \in {0, 1, 45, 46, 47}}

ReportsInit ==
    /\ Init /\ Delivery!Init
    /\ part \in {"calendar", "delivery"}
    /\ part = "delivery" => at = 30 * 48 /\ sched = [freq |-> "monthly", weekday |-> 0, hour |-> 0]

ReportsNext ==
    /\ UNCHANGED part
    /\ \/ part = "calendar" /\ Next /\ UNCHANGED delivery
       \/ part = "delivery" /\ Delivery!Next /\ UNCHANGED vars

ReportsSpec ==
    /\ ReportsInit /\ [][ReportsNext]_<<part, vars, delivery>>
    /\ Delivery!Fairness

\* deliver_scheduled_report always moves the cadence on, "so a broken build doesn't re-fire hourly": a
\* periodic schedule that is due does not stay due.
EventuallyServed == Delivery!EventuallyServed

\* A stored report is not left between generation and sending: while no worker was killed, it is
\* mailed, given up, or has nobody to go to any more.
EventuallySettled == Delivery!EventuallySettled

==============================================================================
