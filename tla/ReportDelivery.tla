---------------------------- MODULE ReportDelivery ----------------------------
(***************************************************************************)
(* Scheduled delivery of reports, for one schedule: the hourly cron that   *)
(* enqueues due schedules, the job that builds and stores a report and     *)
(* advances the cadence, the chain of jobs that mails it, and the API that *)
(* edits, deletes or triggers the schedule meanwhile.                      *)
(*                                                                         *)
(* Time counts in some unit; a periodic schedule fires at the multiples of *)
(* Period (ReportCadence has the calendar).  A job keeps the row as it     *)
(* loaded it, and its commit writes only the columns it assigned.          *)
(***************************************************************************)
EXTENDS Integers, Sequences

CONSTANTS Worker,       \* job slots of the ARQ worker
          Never,        \* next_run_at is NULL
          Period,       \* time between two runs of a periodic schedule
          MaxSends,     \* MAX_SEND_ATTEMPTS
          MaxTime,      \* bound: time
          MaxReports,   \* bound: reports stored
          MaxQueued,    \* bound: copies of the delivery job waiting
          MaxEdits,     \* bound: edits of the schedule
          MaxManual,    \* bound: uses of "send now"
          MaxCrashes    \* bound: jobs lost with their worker

ASSUME DeliveryAssumption ==
    /\ Never \notin Nat
    /\ Period \in Nat \ {0} /\ MaxSends \in Nat \ {0}
    /\ {MaxTime, MaxReports, MaxQueued, MaxEdits, MaxManual, MaxCrashes} \subseteq Nat

VARIABLES now,
          sched,    \* the report_schedule row
          reports,  \* the generated_reports, in order
          queue,    \* waiting deliver_scheduled_report jobs, manual or not
          sends,    \* waiting send_report_email_job jobs, by report and attempt
          wk,       \* the job running in each worker slot
          mail,     \* per report, the emails sent
          over,     \* reports given up after the last attempt, or not to be sent any more
          edits, manuals, crashes

vars == <<now, sched, reports, queue, sends, wk, mail, over, edits, manuals, crashes>>

Frequency == {"periodic", "on_demand"}

\* The run time loaded with the row (or Never) and whether "send now" asked for it.
Stored == [run : Nat \cup {Never}, manual : BOOLEAN]

Id == 1..MaxReports

\* A job: "build" of a report, "stored" before its first send is enqueued, "send" and "sent" of an email.
Slot == [pc : {"idle", "build", "stored", "send", "sent"}, manual : BOOLEAN, at : Nat, run : Nat \cup {Never},
         freq : Frequency, id : Id \cup {0}, attempt : 0..MaxSends]

IdleSlot == [pc |-> "idle", manual |-> FALSE, at |-> 0, run |-> Never, freq |-> "periodic", id |-> 0, attempt |-> 0]

\* next_run_at: the first run time strictly after t.
NextRun(freq, t) == IF freq = "on_demand" THEN Never ELSE (t \div Period + 1) * Period

Due == sched.exists /\ sched.enabled /\ sched.next # Never /\ sched.next <= now

Init ==
    /\ now = 0
    /\ sched \in [exists : {TRUE}, enabled : {TRUE}, freq : {"periodic"}, next : {Period}, recipients : {TRUE}]
    /\ reports = <<>>
    /\ queue = [manual \in BOOLEAN |-> 0]
    /\ sends = [j \in Id \X (1..MaxSends) |-> 0]
    /\ wk = [w \in Worker |-> IdleSlot]
    /\ mail = [id \in Id |-> 0]
    /\ over = {}
    /\ edits = 0 /\ manuals = 0 /\ crashes = 0

Tick ==
    /\ now < MaxTime
    /\ now' = now + 1
    /\ UNCHANGED <<sched, reports, queue, sends, wk, mail, over, edits, manuals, crashes>>

(***************************************************************************)
(* API: upsert_schedule, delete_schedule, send_now                         *)
(***************************************************************************)

Upsert(enabled, freq, recipients) ==
    /\ sched.exists /\ edits < MaxEdits
    /\ edits' = edits + 1
    /\ sched' = [exists |-> TRUE, enabled |-> enabled, freq |-> freq, recipients |-> recipients,
                 next |-> IF enabled THEN NextRun(freq, now) ELSE Never]
    /\ UNCHANGED <<now, reports, queue, sends, wk, mail, over, manuals, crashes>>

Delete ==
    /\ sched.exists /\ edits < MaxEdits
    /\ edits' = edits + 1
    /\ sched' = [sched EXCEPT !.exists = FALSE]
    /\ UNCHANGED <<now, reports, queue, sends, wk, mail, over, manuals, crashes>>

SendNow ==
    /\ sched.exists /\ manuals < MaxManual
    /\ manuals' = manuals + 1
    /\ queue' = [queue EXCEPT ![TRUE] = @ + 1]
    /\ UNCHANGED <<now, sched, reports, sends, wk, mail, over, edits, crashes>>

(***************************************************************************)
(* Worker: enqueue_due_reports, deliver_scheduled_report                   *)
(***************************************************************************)

\* Every tick of the cron enqueues every due schedule, also one whose job is waiting or running.
Cron ==
    /\ Due /\ queue[FALSE] < MaxQueued
    /\ queue' = [queue EXCEPT ![FALSE] = @ + 1]
    /\ UNCHANGED <<now, sched, reports, sends, wk, mail, over, edits, manuals, crashes>>

\* A cron job that finds its schedule not due any more is skipped; "send now" only needs the row.
Load(w, manual) ==
    /\ wk[w].pc = "idle" /\ queue[manual] > 0
    /\ queue' = [queue EXCEPT ![manual] = @ - 1]
    /\ wk' = IF IF manual THEN sched.exists ELSE Due
             THEN [wk EXCEPT ![w] = [IdleSlot EXCEPT !.pc = "build", !.manual = manual, !.at = now,
                                                     !.run = sched.next, !.freq = sched.freq]]
             ELSE wk
    /\ UNCHANGED <<now, sched, reports, sends, mail, over, edits, manuals, crashes>>

End(w) == wk' = [wk EXCEPT ![w] = IdleSlot]

\* _advance: a cron run of a periodic schedule moves on from the time the job began.
Advance(w, freq) ==
    sched' = IF ~wk[w].manual /\ freq # "on_demand"
             THEN [sched EXCEPT !.next = NextRun(freq, wk[w].at)]
             ELSE sched

\* The report and the advanced cadence (of the row as loaded) are committed together; the update of
\* a row deleted meanwhile fails, and the job with it.
Generated(w) ==
    /\ wk[w].pc = "build" /\ Len(reports) < MaxReports
    /\ IF sched.exists
       THEN /\ reports' = Append(reports, [run |-> wk[w].run, manual |-> wk[w].manual])
            /\ Advance(w, wk[w].freq)
            /\ wk' = [wk EXCEPT ![w].pc = "stored", ![w].id = Len(reports) + 1]
       ELSE UNCHANGED <<reports, sched>> /\ End(w)
    /\ UNCHANGED <<now, queue, sends, mail, over, edits, manuals, crashes>>

\* Mutant of GenerateFailed: the cadence stays where it was.
GenerateFailedStays(w) ==
    /\ wk[w].pc = "build"
    /\ UNCHANGED sched
    /\ End(w)
    /\ UNCHANGED <<now, reports, queue, sends, mail, over, edits, manuals, crashes>>

\* The build fails: rollback, the row is loaded again, and its cadence advanced all the same.
GenerateFailed(w) ==
    /\ wk[w].pc = "build"
    /\ IF sched.exists THEN Advance(w, sched.freq) ELSE UNCHANGED sched
    /\ End(w)
    /\ UNCHANGED <<now, reports, queue, sends, mail, over, edits, manuals, crashes>>

\* After the commit, the first send is enqueued.
EnqueueSend(w) ==
    /\ wk[w].pc = "stored"
    /\ sends' = [sends EXCEPT ![<<wk[w].id, 1>>] = @ + 1]
    /\ End(w)
    /\ UNCHANGED <<now, sched, reports, queue, mail, over, edits, manuals, crashes>>

(***************************************************************************)
(* Worker: send_report_email_job                                           *)
(***************************************************************************)

\* Without schedule or recipients there is nothing to send.
LoadSend(w, id, attempt) ==
    /\ wk[w].pc = "idle" /\ sends[<<id, attempt>>] > 0
    /\ sends' = [sends EXCEPT ![<<id, attempt>>] = @ - 1]
    /\ IF sched.exists /\ sched.recipients
       THEN wk' = [wk EXCEPT ![w] = [IdleSlot EXCEPT !.pc = "send", !.id = id, !.attempt = attempt]]
            /\ UNCHANGED over
       ELSE over' = over \cup {id} /\ UNCHANGED wk
    /\ UNCHANGED <<now, sched, reports, queue, mail, edits, manuals, crashes>>

Sent(w) ==
    /\ wk[w].pc = "send"
    /\ mail' = [mail EXCEPT ![wk[w].id] = @ + 1]
    /\ wk' = [wk EXCEPT ![w].pc = "sent"]
    /\ UNCHANGED <<now, sched, reports, queue, sends, over, edits, manuals, crashes>>

\* Mutant of Delivered: the chain of attempts goes on after a success.
DeliveredRetries(w) ==
    /\ wk[w].pc = "sent"
    /\ sends' = IF wk[w].attempt < MaxSends
                THEN [sends EXCEPT ![<<wk[w].id, wk[w].attempt + 1>>] = @ + 1] ELSE sends
    /\ End(w)
    /\ UNCHANGED <<now, sched, reports, queue, mail, over, edits, manuals, crashes>>

Delivered(w) ==
    /\ wk[w].pc = "sent"
    /\ End(w)
    /\ UNCHANGED <<now, sched, reports, queue, sends, mail, over, edits, manuals, crashes>>

\* Mutant of SendFailed: the last attempt is retried without being counted.
SendFailedForever(w) ==
    /\ wk[w].pc = "send"
    /\ sends' = [sends EXCEPT ![<<wk[w].id, IF wk[w].attempt < MaxSends THEN wk[w].attempt + 1 ELSE MaxSends>>] = @ + 1]
    /\ End(w)
    /\ UNCHANGED <<now, sched, reports, queue, mail, over, edits, manuals, crashes>>

\* _retry_or_give_up: SMTP not configured, no token, or the send failed.
SendFailed(w) ==
    /\ wk[w].pc = "send"
    /\ IF wk[w].attempt < MaxSends
       THEN sends' = [sends EXCEPT ![<<wk[w].id, wk[w].attempt + 1>>] = @ + 1] /\ UNCHANGED over
       ELSE over' = over \cup {wk[w].id} /\ UNCHANGED sends
    /\ End(w)
    /\ UNCHANGED <<now, sched, reports, queue, mail, edits, manuals, crashes>>

(***************************************************************************)
(* Environment                                                             *)
(***************************************************************************)

\* Mutant of Crash: a killed send is given up, and ARQ runs it again all the same.
CrashGivesUp(w) ==
    /\ wk[w].pc # "idle" /\ crashes < MaxCrashes
    /\ crashes' = crashes + 1
    /\ IF wk[w].pc \in {"build", "stored"}
       THEN queue' = [queue EXCEPT ![wk[w].manual] = @ + 1] /\ UNCHANGED <<sends, over>>
       ELSE /\ sends' = [sends EXCEPT ![<<wk[w].id, wk[w].attempt>>] = @ + 1]
            /\ over' = over \cup {wk[w].id}
            /\ UNCHANGED queue
    /\ End(w)
    /\ UNCHANGED <<now, sched, reports, mail, edits, manuals>>

\* The worker is killed: the transaction is rolled back and ARQ runs the job again.
Crash(w) ==
    /\ wk[w].pc # "idle" /\ crashes < MaxCrashes
    /\ crashes' = crashes + 1
    /\ IF wk[w].pc \in {"build", "stored"}
       THEN queue' = [queue EXCEPT ![wk[w].manual] = @ + 1] /\ UNCHANGED sends
       ELSE sends' = [sends EXCEPT ![<<wk[w].id, wk[w].attempt>>] = @ + 1] /\ UNCHANGED queue
    /\ End(w)
    /\ UNCHANGED <<now, sched, reports, mail, over, edits, manuals>>

(***************************************************************************)
(* Specification                                                           *)
(***************************************************************************)

Api ==
    \/ \E enabled, recipients \in BOOLEAN, freq \in Frequency : Upsert(enabled, freq, recipients)
    \/ Delete \/ SendNow

Start(w) ==
    \/ \E manual \in BOOLEAN : Load(w, manual)
    \/ \E id \in Id, attempt \in 1..MaxSends : LoadSend(w, id, attempt)

Continue(w) ==
    \/ Generated(w) \/ GenerateFailed(w) \/ EnqueueSend(w)
    \/ Sent(w) \/ Delivered(w) \/ SendFailed(w)

Next ==
    \/ Tick \/ Api \/ Cron
    \/ \E w \in Worker : Start(w) \/ Continue(w) \/ Crash(w)

Spec == Init /\ [][Next]_vars

\* The cron keeps firing, a job that runs goes on, and a job that waits is started: ARQ takes jobs in
\* the order of their scores, so later ones do not overtake it for ever.
Fairness ==
    /\ WF_vars(Cron)
    /\ \A w \in Worker : WF_vars(Continue(w))
    /\ \A manual \in BOOLEAN : SF_vars(\E w \in Worker : Load(w, manual))
    /\ \A id \in Id, attempt \in 1..MaxSends : SF_vars(\E w \in Worker : LoadSend(w, id, attempt))

FairSpec == Spec /\ Fairness

(***************************************************************************)
(* Properties                                                              *)
(***************************************************************************)

\* Every variable has its type; a job is taken from the queue only if it was put there.
TypeOK ==
    /\ now \in Nat
    /\ sched \in [exists : BOOLEAN, enabled : BOOLEAN, freq : Frequency, next : Nat \cup {Never}, recipients : BOOLEAN]
    /\ reports \in Seq(Stored)
    /\ queue \in [BOOLEAN -> Nat]
    /\ sends \in [Id \X (1..MaxSends) -> Nat]
    /\ wk \in [Worker -> Slot]
    /\ mail \in [Id -> Nat]
    /\ over \subseteq Id
    /\ {edits, manuals, crashes} \subseteq Nat

\* The chain of send attempts of a report never forks and ends with a success or by giving up: whatever
\* fails and however many jobs run, a report is mailed once or, if it is given up, not at all, and once
\* more for each worker killed after it had sent it.
MailedOnce == \A id \in Id : mail[id] <= (IF id \in over THEN 0 ELSE 1) + crashes

\* Giving up is final: no job is left that could still mail the report.
GivenUpIsFinal == [][\A id \in over : id \in over' /\ mail'[id] = mail[id]]_vars

\* deliver_scheduled_report always moves the cadence on, "so a broken build doesn't re-fire hourly": a
\* periodic schedule that is due does not stay due.  (An on-demand one can: see OnDemandNotRefired.)
EventuallyServed == (Due /\ sched.freq = "periodic") ~> ~(Due /\ sched.freq = "periodic")

\* A stored report is not left between generation and sending: while no worker was killed, it is
\* mailed, given up, or has nobody to go to any more.
EventuallySettled ==
    \A id \in Id : Len(reports) >= id /\ crashes = 0 ~> mail[id] > 0 \/ id \in over \/ crashes > 0

(***************************************************************************)
(* What the design says, and the code does not do                          *)
(***************************************************************************)

\* "Two cron fires before a job runs (dup)": the job "re-checks `next_run_at <= now` (cron path) and
\* advances idempotently" (report delivery design), so a scheduled run has one report.
OneReportPerRun ==
    crashes = 0 =>
        \A i, j \in 1..Len(reports) :
            ~reports[i].manual /\ ~reports[j].manual /\ reports[i].run = reports[j].run => i = j

\* next_run_at is "always NULL for `on_demand`" (report delivery design).
OnDemandNeverDue == sched.freq = "on_demand" => sched.next = Never

\* On demand has "no automatic cadence" (report delivery design): the cron does not find an on-demand
\* schedule due for ever.
OnDemandNotRefired == (Due /\ sched.freq = "on_demand") ~> ~(Due /\ sched.freq = "on_demand")

\* The delivery job "builds, stores, emails, and advances the schedule" (report delivery design): also after a
\* crash, a stored report is mailed, given up or has nobody to go to any more.
StoredIsSettled == \A id \in Id : Len(reports) >= id ~> mail[id] > 0 \/ id \in over

==============================================================================
