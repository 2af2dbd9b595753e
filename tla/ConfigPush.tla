----------------------------- MODULE ConfigPush -----------------------------
(***************************************************************************)
(* The config-push pipeline for one device: the API handlers that create,  *)
(* schedule, cancel and revert config changes, the ARQ jobs that apply     *)
(* them one by one or as a profile, the backup job, the sweeper cron, and  *)
(* everything else that writes to the firewall.                            *)
(*                                                                         *)
(* Every job and handler runs in one database transaction.  It works on    *)
(* the row it loaded at the start (the ORM never reloads it) and writes    *)
(* back only the columns whose value differs from the loaded one, when it  *)
(* commits; there is no version column.  The per-device lock is            *)
(* pg_try_advisory_xact_lock: it never waits, and ends with the            *)
(* transaction, also when the worker dies.                                 *)
(***************************************************************************)
EXTENDS ConfigOps, Naturals, Sequences

CONSTANTS Change,       \* ids of config_changes rows
          Worker,       \* job slots of the ARQ worker
          Request,      \* API requests in flight
          Drafts,       \* proposals operators make one by one
          Templates,    \* proposals templates materialise to
          Bodies,       \* proposals the members of a profile materialise to
          Delays,       \* scheduling choices: FALSE is at once, TRUE the picked date/time
          Profiles,     \* member lists: the rows one apply_profile call creates, in order
          None,         \* no row, no snapshot, no lock holder
          MaxAttempts,  \* max_reenqueue_attempts
          MaxRequests,  \* bound: schedule and cancel requests
          MaxToggles,   \* bound: flips of the live-push switch
          MaxEdits,     \* bound: writes to the device that do not take the device lock
          MaxCrashes,   \* bound: jobs killed before they finish
          MaxBackups,   \* bound: backup jobs waiting; a surplus one is dropped as if lost
          MaxCrons      \* bound: ticks of the daily backup cron

\* Templates of every kind materialise to operation "set" of a registered kind.
ASSUME ProposalsAssumption ==
    /\ Drafts \subseteq Proposal
    /\ Templates \cup Bodies \subseteq {p \in Proposal : Registered(p) /\ p.op = "set"}

ASSUME ProfilesAssumption ==
    /\ Profiles \subseteq Seq(Change)
    /\ \A s \in Profiles : s # <<>> /\ \A i, j \in 1..Len(s) : s[i] = s[j] => i = j

ASSUME DelaysAssumption == Delays \subseteq BOOLEAN

ASSUME NoneAssumption ==
    /\ None \notin Config
    /\ None \notin Worker
    /\ None \notin Change

ASSUME BoundsAssumption ==
    /\ MaxAttempts \in Nat
    /\ MaxRequests \in Nat
    /\ MaxToggles \in Nat
    /\ MaxEdits \in Nat
    /\ MaxCrashes \in Nat
    /\ MaxBackups \in Nat
    /\ MaxCrons \in Nat

VARIABLES config,     \* the firewall's configuration
          edits,      \* writes to the firewall made without the device lock
          pushes,     \* per change, how many of its writes the firewall took (history)
          livePush,   \* the live_push_enabled setting
          window,     \* the deferred date/time has come
          row,        \* config_changes, committed
          latest,     \* the hash of the config_snapshots row with the greatest taken_at
          queue,      \* Redis: how many copies of each job are waiting
          lock,       \* the worker holding the device's advisory lock
          wk,         \* the job running in each worker slot
          req,        \* the API requests in flight
          missed,     \* changes whose job found the device busy with another change (history)
          sw,         \* the row the sweeper is working on
          requests, toggles, crashes, crons

device == <<config, edits, pushes>>
setting == <<livePush, window>>
counter == <<requests, toggles, crashes, crons>>
vars == <<device, setting, row, latest, queue, lock, missed, wk, req, sw, counter>>

(***************************************************************************)
(* Rows, jobs and processes                                                *)
(***************************************************************************)

Status == {"none", "draft", "scheduled", "applied", "failed", "conflict", "cancelled"}

\* An apply's result column, reduced to what the write did: dry run, live write, or an error.
Result == {"none", "dry", "live", "error"}

\* The columns of config_changes; status "none" is a row not yet inserted.  "applying" is flushed
\* inside the apply transaction and never committed, so no other session sees it.
Row == [prop : Proposal, baseline : Config \cup {None}, siblings : Profiles \cup {<<>>},
        reverts : Change \cup {None}, status : Status, later : BOOLEAN, attempts : Nat,
        snap : Config \cup {None}, result : Result]

NoRow == [prop |-> CHOOSE p \in Proposal : TRUE, baseline |-> None, siblings |-> <<>>,
          reverts |-> None, status |-> "none", later |-> FALSE, attempts |-> 0,
          snap |-> None, result |-> "none"]

\* A queued job: its function, its arguments, and whether it is deferred to the picked time.
ApplyJob(c, later) == [fn |-> "apply_config_change", ids |-> <<c>>, later |-> later]

ProfileJob(s, later) == [fn |-> "apply_profile_changes", ids |-> s, later |-> later]

BackupJob == [fn |-> "backup_device_config", ids |-> <<>>, later |-> FALSE]

Job == {ApplyJob(c, b) : c \in Change, b \in BOOLEAN}
       \cup {ProfileJob(s, b) : s \in Profiles, b \in BOOLEAN}
       \cup {BackupJob}

Enqueue(j) == queue' = [queue EXCEPT ![j] = @ + 1]

\* A worker slot: where the job is, the members loaded as "scheduled", the outcome decided for the
\* first Len(out) of them, the config.xml read, the live flag read, and the number of unlocked
\* writes when config.xml was read (history).  A snapshot's taken_at is the start of the
\* transaction that stores it: "older" are the jobs that began before this one and still run, and
\* "late" says that a job that began after this one has stored a snapshot.
Step == {"idle", "loaded", "locked", "push", "commit", "refresh", "read", "store"}

Slot == [pc : Step, job : Job, batch : Seq(Change), out : Seq(Status),
         xml : Config \cup {None}, live : BOOLEAN, edits : Nat,
         older : SUBSET Worker, late : BOOLEAN]

IdleSlot == [pc |-> "idle", job |-> BackupJob, batch |-> <<>>, out |-> <<>>,
             xml |-> None, live |-> FALSE, edits |-> 0,
             older |-> {}, late |-> FALSE]

Handler == [pc : {"idle", "schedule", "cancel", "enqueue"}, change : Change \cup {None},
            seen : Status, was : BOOLEAN, later : BOOLEAN, job : Job]

IdleHandler == [pc |-> "idle", change |-> None, seen |-> "none", was |-> FALSE,
                later |-> FALSE, job |-> BackupJob]

Sweep == [pc : {"idle", "loaded", "enqueue"}, change : Change \cup {None}, attempts : Nat]

IdleSweep == [pc |-> "idle", change |-> None, attempts |-> 0]

Init ==
    /\ config \in Config
    /\ edits = 0
    /\ pushes = [c \in Change |-> 0]
    /\ livePush \in BOOLEAN
    /\ window = (TRUE \notin Delays)      \* where nothing is deferred there is nothing to wait for
    /\ row = [c \in Change |-> NoRow]
    /\ latest \in {config, None}
    /\ queue = [j \in Job |-> 0]
    /\ lock = None
    /\ missed = {}
    /\ wk = [w \in Worker |-> IdleSlot]
    /\ req = [r \in Request |-> IdleHandler]
    /\ sw = IdleSweep
    /\ requests = 0 /\ toggles = 0 /\ crashes = 0 /\ crons = 0

Members(s) == {s[i] : i \in 1..Len(s)}

\* The uncommitted UPDATE of a flush holds the row until the job ends: apply_change flushes
\* "applying" before it pushes, apply_profile_sequence flushes once, when every outcome is known.
RowLocked(c) ==
    \E w \in Worker : /\ c \in Members(wk[w].batch)
                      /\ \/ wk[w].pc = "commit"
                         \/ wk[w].pc = "push" /\ wk[w].job.fn = "apply_config_change"

(***************************************************************************)
(* API handlers                                                            *)
(***************************************************************************)

\* create_change: the row's baseline is the newest snapshot's hash, None ("") when there is none.
Created(p, status, later) ==
    [NoRow EXCEPT !.prop = p, !.baseline = latest, !.status = status, !.later = later]

Free(c) == row[c].status = "none"

\* create_config_change (and create_catalog_change): a draft, nothing enqueued.
CreateChange(c, p) ==
    /\ Free(c)
    /\ row' = [row EXCEPT ![c] = Created(p, "draft", FALSE)]
    /\ UNCHANGED <<device, setting, latest, queue, lock, wk, req, sw, counter, missed>>

\* The commit of a handler that goes on to enqueue job j: the enqueue is a separate step.
ThenEnqueue(r, j) ==
    /\ req[r].pc = "idle"
    /\ req' = [req EXCEPT ![r] = [IdleHandler EXCEPT !.pc = "enqueue", !.job = j]]

\* apply_template: materialise one change, scheduled at once.
ApplyTemplate(r, c, p, later) ==
    /\ Free(c)
    /\ row' = [row EXCEPT ![c] = Created(p, "scheduled", later)]
    /\ ThenEnqueue(r, ApplyJob(c, later))
    /\ UNCHANGED <<device, setting, latest, queue, lock, wk, sw, counter, missed>>

\* apply_profile: one scheduled change per member, all with the same baseline, and one job.
ApplyProfile(r, s, later) ==
    /\ \A c \in Members(s) : Free(c)
    /\ \E ps \in [Members(s) -> Bodies] :
          row' = [c \in Change |->
                    IF c \in Members(s)
                    THEN [Created(ps[c], "scheduled", later) EXCEPT !.siblings = s]
                    ELSE row[c]]
    /\ ThenEnqueue(r, ProfileJob(s, later))
    /\ UNCHANGED <<device, setting, latest, queue, lock, wk, sw, counter, missed>>

\* revert_config_change: a scheduled inverse of an applied or failed change, in row d.
RevertChange(r, c, d, later) ==
    /\ row[c].status \in {"applied", "failed"}
    /\ Free(d)
    /\ \E p \in Inverse(row[c].prop, {row[c].snap} \ {None}) :
          row' = [row EXCEPT ![d] = [Created(p, "scheduled", later) EXCEPT !.reverts = c]]
    /\ ThenEnqueue(r, ApplyJob(d, later))
    /\ UNCHANGED <<device, setting, latest, queue, lock, wk, sw, counter, missed>>

\* schedule_config_change and cancel_config_change load the row and refuse (409) unless it is a
\* draft or scheduled.
LoadForRequest(r, op, c, later) ==
    /\ req[r].pc = "idle"
    /\ requests < MaxRequests
    /\ row[c].status \in {"draft", "scheduled"}
    /\ req' = [req EXCEPT ![r] = [IdleHandler EXCEPT !.pc = op, !.change = c,
                                     !.seen = row[c].status, !.was = row[c].later,
                                     !.later = later]]
    /\ requests' = requests + 1
    /\ UNCHANGED <<device, setting, row, latest, queue, lock, wk, sw, toggles, crashes, crons, missed>>

\* The UPDATE of a schedule request waits for the row and overwrites it, but only the columns whose
\* value differs from the one loaded: a row loaded as "scheduled" does not get its status written.
CommitSchedule(r) ==
    /\ req[r].pc = "schedule"
    /\ ~RowLocked(req[r].change)
    /\ LET h == req[r]
           old == row[h.change]
       IN  row' = [row EXCEPT ![h.change] =
                     [old EXCEPT !.status = IF h.seen = "scheduled" THEN old.status ELSE "scheduled",
                                 !.later = IF h.was = h.later THEN old.later ELSE h.later]]
    /\ req' = [req EXCEPT ![r] = [IdleHandler EXCEPT !.pc = "enqueue",
                                     !.job = ApplyJob(req[r].change, req[r].later)]]
    /\ UNCHANGED <<device, setting, latest, queue, lock, wk, sw, counter, missed>>

CommitCancel(r) ==
    /\ req[r].pc = "cancel"
    /\ ~RowLocked(req[r].change)
    /\ row' = [row EXCEPT ![req[r].change] = [@ EXCEPT !.status = "cancelled"]]
    /\ req' = [req EXCEPT ![r] = IdleHandler]
    /\ UNCHANGED <<device, setting, latest, queue, lock, wk, sw, counter, missed>>

EnqueueRequest(r) ==
    /\ req[r].pc = "enqueue"
    /\ Enqueue(req[r].job)
    /\ req' = [req EXCEPT ![r] = IdleHandler]
    /\ UNCHANGED <<device, setting, row, latest, lock, wk, sw, counter, missed>>

\* The API process dies, or Redis refuses, between the commit and the enqueue.
LoseRequest(r) ==
    /\ req[r].pc = "enqueue"
    /\ req' = [req EXCEPT ![r] = IdleHandler]
    /\ UNCHANGED <<device, setting, row, latest, queue, lock, wk, sw, counter, missed>>

(***************************************************************************)
(* Worker: apply_config_change and apply_profile_changes                   *)
(***************************************************************************)

\* Mutant of Runnable: a job is run without having been taken from the queue.
RunnableUnqueued(j) == j.later => window

Runnable(j) == queue[j] > 0 /\ (j.later => window)

\* The pc of a job once its rows are loaded: with nothing scheduled it goes straight to its end.
AfterLoad(batch) == IF batch = <<>> THEN "refresh" ELSE "loaded"

CanBegin(w, j) == wk[w].pc = "idle" /\ Runnable(j)

Begin(w, j, batch, pc) ==
    /\ queue' = [queue EXCEPT ![j] = @ - 1]
    /\ wk' = [wk EXCEPT ![w] = [IdleSlot EXCEPT !.pc = pc, !.job = j, !.batch = batch,
                                                !.older = {u \in Worker : wk[u].pc # "idle"}]]

\* The job is over and its slot is free.
Leave(w) == [u \in Worker |-> IF u = w THEN IdleSlot ELSE [wk[u] EXCEPT !.older = @ \ {w}]]

\* session.get(ConfigChange): the status test is made on the row as it is now.
LoadChange(w, c, later) ==
    /\ CanBegin(w, ApplyJob(c, later))
    /\ LET batch == IF row[c].status = "scheduled" THEN <<c>> ELSE <<>>
       IN  Begin(w, ApplyJob(c, later), batch, AfterLoad(batch))
    /\ UNCHANGED <<device, setting, row, latest, lock, req, sw, counter, missed>>

\* The members of list s that are scheduled, in the order of s.
Scheduled(s) ==
    {t \in UNION {[1..n -> Members(s)] : n \in 0..Len(s)} :
        /\ Members(t) = {c \in Members(s) : row[c].status = "scheduled"}
        /\ \A i, j \in 1..Len(t) : i < j =>
              \E k, l \in 1..Len(s) : k < l /\ s[k] = t[i] /\ s[l] = t[j]}

LoadProfile(w, s, later) ==
    /\ CanBegin(w, ProfileJob(s, later))
    /\ \E batch \in Scheduled(s) : Begin(w, ProfileJob(s, later), batch, AfterLoad(batch))
    /\ UNCHANGED <<device, setting, row, latest, lock, req, sw, counter, missed>>

\* Mutant of TryLock: the result of the lock attempt is ignored.
TryLockIgnored(w) ==
    /\ wk[w].pc = "loaded"
    /\ lock' = w
    /\ wk' = [wk EXCEPT ![w].pc = "locked"]
    /\ UNCHANGED <<device, setting, row, latest, queue, req, sw, counter, missed>>

\* pg_try_advisory_xact_lock: on a miss the rows are left as they are.
TryLock(w) ==
    /\ wk[w].pc = "loaded"
    /\ lock' = IF lock = None THEN w ELSE lock
    /\ wk' = [wk EXCEPT ![w].pc = IF lock = None THEN "locked" ELSE "refresh"]
    /\ missed' = IF lock = None THEN missed
                 ELSE missed \cup (Members(wk[w].batch) \ Members(wk[lock].batch))
    /\ UNCHANGED <<device, setting, row, latest, queue, req, sw, counter>>

\* Every loaded member gets the same outcome and the job goes on to commit.
DecideAll(w, status) ==
    wk' = [wk EXCEPT ![w] = [@ EXCEPT !.pc = "commit",
                                      !.out = [i \in 1..Len(wk[w].batch) |-> status]]]

\* Mutant of Fresh: no staleness guard.
FreshAlways(w) == TRUE

\* The staleness guard compares with the baseline of the first member; an empty one passes.
Fresh(w) == row[wk[w].batch[1]].baseline \in {config, None}

\* get_config_backup raises, or what it returns does not parse.
ReadFails(w) ==
    /\ wk[w].pc = "locked"
    /\ DecideAll(w, "failed")
    /\ UNCHANGED <<device, setting, row, latest, queue, lock, req, sw, counter, missed>>

ReadStale(w) ==
    /\ wk[w].pc = "locked"
    /\ ~Fresh(w)
    /\ DecideAll(w, "conflict")
    /\ UNCHANGED <<device, setting, row, latest, queue, lock, req, sw, counter, missed>>

\* config.xml matches: keep it as the rollback point, and read the live-push setting.
ReadFresh(w) ==
    /\ wk[w].pc = "locked"
    /\ Fresh(w)
    /\ wk' = [wk EXCEPT ![w] = [@ EXCEPT !.pc = "push", !.xml = config, !.live = livePush,
                                         !.edits = edits]]
    /\ UNCHANGED <<device, setting, row, latest, queue, lock, req, sw, counter, missed>>

\* The member being pushed.
Current(w) == wk[w].batch[Len(wk[w].out) + 1]

\* One call of apply_for_kind for member c of worker w's job.
PushOne(w, c) ==
    \E o \in Outcomes(row[c].prop, config, wk[w].live) :
        /\ config' = o.cfg
        /\ pushes' = [pushes EXCEPT ![c] = IF o.wrote THEN @ + 1 ELSE @]
        /\ LET out == Append(wk[w].out, IF o.ok THEN "applied" ELSE "failed")
           IN  wk' = [wk EXCEPT ![w] =
                        [@ EXCEPT !.out = out,
                                  !.pc = IF Len(out) = Len(wk[w].batch) THEN "commit" ELSE "push"]]
        /\ UNCHANGED edits

\* apply_change has one member; apply_profile_sequence goes on to the next as long as none failed.
PushMember(w) ==
    /\ wk[w].pc = "push"
    /\ ~ \E i \in 1..Len(wk[w].out) : wk[w].out[i] = "failed"
    /\ PushOne(w, Current(w))
    /\ UNCHANGED <<setting, row, latest, queue, lock, req, sw, counter, missed>>

\* After a failed member the rest are marked failed without a call to the device.
AbortRest(w) ==
    /\ wk[w].pc = "push"
    /\ \E i \in 1..Len(wk[w].out) : wk[w].out[i] = "failed"
    /\ wk' = [wk EXCEPT ![w] =
                [@ EXCEPT !.pc = "commit",
                          !.out = [i \in 1..Len(wk[w].batch) |->
                                     IF i \in 1..Len(wk[w].out) THEN wk[w].out[i] ELSE "failed"]]]
    /\ UNCHANGED <<device, setting, row, latest, queue, lock, req, sw, counter, missed>>

\* A new snapshot becomes the newest one only if no later transaction has stored one.
Newest(w) == IF wk[w].late THEN latest ELSE wk[w].xml

\* Worker w stores a snapshot: for the jobs that began before it, a later taken_at now exists.
MarkLate(w, slots) == [u \in Worker |-> [slots[u] EXCEPT !.late = @ \/ u \in wk[w].older]]

\* Mutant of Written: the pre-apply snapshot is stored but not linked to the row.
WrittenUnlinked(w, i) ==
    [row[wk[w].batch[i]] EXCEPT
        !.status = wk[w].out[i],
        !.result = CASE wk[w].out[i] # "applied" -> "error"
                     [] wk[w].out[i] = "applied" /\ wk[w].live -> "live"
                     [] wk[w].out[i] = "applied" /\ ~wk[w].live -> "dry"]

\* The row of member i after the commit: status and result always differ from what was loaded.
Written(w, i) ==
    LET k == wk[w]
        r == row[k.batch[i]]
    IN  [r EXCEPT !.status = k.out[i],
                  !.result = CASE k.out[i] # "applied" -> "error"
                               [] k.out[i] = "applied" /\ k.live -> "live"
                               [] k.out[i] = "applied" /\ ~k.live -> "dry",
                  !.snap = CASE k.xml = None -> @
                             [] k.xml # None /\ k.live -> k.xml
                             [] k.xml # None /\ ~k.live ->
                                   IF k.job.fn = "apply_profile_changes" THEN None ELSE @]

\* session.commit(): rows and pre-apply snapshot become visible, and the lock is released.
CommitApply(w) ==
    /\ wk[w].pc = "commit"
    /\ row' = [c \in Change |->
                 IF c \in Members(wk[w].batch)
                 THEN Written(w, CHOOSE i \in 1..Len(wk[w].batch) : wk[w].batch[i] = c)
                 ELSE row[c]]
    /\ latest' = IF wk[w].live THEN Newest(w) ELSE latest
    /\ lock' = None
    /\ LET ended == [wk EXCEPT ![w].pc = "refresh"]
       IN  wk' = IF wk[w].live THEN MarkLate(w, ended) ELSE ended
    /\ UNCHANGED <<device, setting, queue, req, sw, counter, missed>>

\* The job ends by enqueueing a backup, whatever its outcome.
EnqueueRefresh(w) ==
    /\ wk[w].pc = "refresh"
    /\ IF queue[BackupJob] < MaxBackups THEN Enqueue(BackupJob) ELSE UNCHANGED queue
    /\ wk' = Leave(w)
    /\ UNCHANGED <<device, setting, row, latest, lock, req, sw, counter, missed>>

(***************************************************************************)
(* Worker: backup_device_config and its cron                               *)
(***************************************************************************)

EnqueueBackups ==
    /\ crons < MaxCrons
    /\ crons' = crons + 1
    /\ Enqueue(BackupJob)
    /\ UNCHANGED <<device, setting, row, latest, lock, wk, req, sw, requests, toggles, crashes, missed>>

StartBackup(w) ==
    /\ CanBegin(w, BackupJob)
    /\ Begin(w, BackupJob, <<>>, "read")
    /\ UNCHANGED <<device, setting, row, latest, lock, req, sw, counter, missed>>

BackupRead(w) ==
    /\ wk[w].pc = "read"
    /\ \/ wk' = [wk EXCEPT ![w] = [@ EXCEPT !.pc = "store", !.xml = config]]
       \/ wk' = Leave(w)      \* connector error, or malformed XML
    /\ UNCHANGED <<device, setting, row, latest, queue, lock, req, sw, counter, missed>>

\* Stored only when it differs from the newest snapshot.
BackupStore(w) ==
    /\ wk[w].pc = "store"
    /\ IF latest = wk[w].xml
       THEN UNCHANGED latest /\ wk' = Leave(w)
       ELSE latest' = Newest(w) /\ wk' = MarkLate(w, Leave(w))
    /\ UNCHANGED <<device, setting, row, queue, lock, req, sw, counter, missed>>

\* The worker is killed or the job times out: the transaction rolls back and the lock goes; what
\* was sent to the device stays.  ARQ runs a killed job again, and drops one that timed out.
CrashJob(w) ==
    /\ wk[w].pc # "idle"
    /\ crashes < MaxCrashes
    /\ crashes' = crashes + 1
    /\ Enqueue(wk[w].job) \/ UNCHANGED queue
    /\ lock' = IF lock = w THEN None ELSE lock
    /\ wk' = Leave(w)
    /\ UNCHANGED <<device, setting, row, latest, req, sw, requests, toggles, crons, missed>>

(***************************************************************************)
(* Worker: sweep_orphaned_actions                                          *)
(***************************************************************************)

Due(c) == row[c].status = "scheduled" /\ (row[c].later => window)

\* Mutant of SweepLoad: only rows without a picked time are looked at.
SweepLoadImmediate(c) ==
    /\ sw.pc = "idle"
    /\ Due(c) /\ ~row[c].later
    /\ sw' = [pc |-> "loaded", change |-> c, attempts |-> row[c].attempts]
    /\ UNCHANGED <<device, setting, row, latest, queue, lock, wk, req, counter, missed>>

\* An overdue row (past the grace period) is loaded and is still scheduled.
SweepLoad(c) ==
    /\ sw.pc = "idle"
    /\ Due(c)
    /\ sw' = [pc |-> "loaded", change |-> c, attempts |-> row[c].attempts]
    /\ UNCHANGED <<device, setting, row, latest, queue, lock, wk, req, counter, missed>>

SweepSkip ==
    /\ sw.pc = "loaded"
    /\ lock # None
    /\ sw' = IdleSweep
    /\ UNCHANGED <<device, setting, row, latest, queue, lock, wk, req, counter, missed>>

\* Mutant of SweepRetry: one attempt too many.
SweepRetryOnceMore ==
    /\ sw.pc = "loaded"
    /\ lock = None
    /\ sw.attempts <= MaxAttempts
    /\ row' = [row EXCEPT ![sw.change].attempts = sw.attempts + 1]
    /\ sw' = [sw EXCEPT !.pc = "enqueue"]
    /\ UNCHANGED <<device, setting, latest, queue, lock, wk, req, counter, missed>>

\* decide_orphan = "re-enqueue": the attempt is counted and committed, then the job is enqueued.
SweepRetry ==
    /\ sw.pc = "loaded"
    /\ lock = None
    /\ sw.attempts < MaxAttempts
    /\ row' = [row EXCEPT ![sw.change].attempts = sw.attempts + 1]
    /\ sw' = [sw EXCEPT !.pc = "enqueue"]
    /\ UNCHANGED <<device, setting, latest, queue, lock, wk, req, counter, missed>>

SweepEnqueue ==
    /\ sw.pc = "enqueue"
    /\ Enqueue(ApplyJob(sw.change, FALSE)) \/ UNCHANGED queue    \* or the worker dies in between
    /\ sw' = IdleSweep
    /\ UNCHANGED <<device, setting, row, latest, lock, wk, req, counter, missed>>

\* decide_orphan = "give-up": failed, with an alert.
SweepGiveUp ==
    /\ sw.pc = "loaded"
    /\ lock = None
    /\ sw.attempts >= MaxAttempts
    /\ row' = [row EXCEPT ![sw.change] = [@ EXCEPT !.status = "failed", !.result = "error"]]
    /\ sw' = IdleSweep
    /\ UNCHANGED <<device, setting, latest, queue, lock, wk, req, counter, missed>>

(***************************************************************************)
(* Environment                                                             *)
(***************************************************************************)

\* Someone writes to the firewall without the device lock: an administrator in the firewall's own
\* GUI, another API client, or OPNGMS's log-forwarding provisioning.
UnlockedEdit ==
    /\ edits < MaxEdits
    /\ edits' = edits + 1
    /\ config' \in Config \ {config}
    /\ UNCHANGED <<pushes, setting, row, latest, queue, lock, wk, req, sw, counter, missed>>

\* set_live_push: the superadmin flips the global switch.
SetLivePush ==
    /\ toggles < MaxToggles
    /\ toggles' = toggles + 1
    /\ livePush' = ~livePush
    /\ UNCHANGED <<device, window, row, latest, queue, lock, wk, req, sw, requests, crashes, crons, missed>>

\* The date/time picked for deferred changes comes.
OpenWindow ==
    /\ ~window
    /\ window' = TRUE
    /\ UNCHANGED <<device, livePush, row, latest, queue, lock, wk, req, sw, counter, missed>>

ApiStep(r) ==
    \/ \E c \in Change, p \in Templates, b \in Delays : ApplyTemplate(r, c, p, b)
    \/ \E s \in Profiles, b \in Delays : ApplyProfile(r, s, b)
    \/ \E c, d \in Change, b \in Delays : RevertChange(r, c, d, b)
    \/ \E c \in Change, b \in Delays : LoadForRequest(r, "schedule", c, b)
    \/ \E c \in Change : LoadForRequest(r, "cancel", c, FALSE)
    \/ LoseRequest(r)

\* What a request in flight still has to do.
FinishRequest(r) == CommitSchedule(r) \/ CommitCancel(r) \/ EnqueueRequest(r)

WorkerStep(w) ==
    \/ \E c \in Change, b \in BOOLEAN : LoadChange(w, c, b)
    \/ \E s \in Profiles, b \in BOOLEAN : LoadProfile(w, s, b)
    \/ TryLock(w) \/ ReadFails(w) \/ ReadStale(w) \/ ReadFresh(w)
    \/ PushMember(w) \/ AbortRest(w) \/ CommitApply(w) \/ EnqueueRefresh(w)
    \/ StartBackup(w) \/ BackupRead(w) \/ BackupStore(w)

SweepStep == SweepSkip \/ SweepRetry \/ SweepEnqueue \/ SweepGiveUp

Next ==
    \/ \E c \in Change, p \in Drafts : CreateChange(c, p)
    \/ \E r \in Request : ApiStep(r) \/ FinishRequest(r)
    \/ \E w \in Worker : WorkerStep(w) \/ CrashJob(w)
    \/ \E c \in Change : SweepLoad(c)
    \/ SweepStep
    \/ EnqueueBackups \/ UnlockedEdit \/ SetLivePush \/ OpenWindow

Spec == Init /\ [][Next]_vars

\* The fairness the deployment gives: a worker keeps running jobs, a request in flight is finished
\* or lost, and every tick of the sweeper cron looks at every overdue row.
FairSpec ==
    /\ Spec
    /\ \A w \in Worker : WF_vars(WorkerStep(w))
    /\ \A r \in Request : WF_vars(FinishRequest(r))
    /\ WF_vars(SweepStep)
    /\ \A c \in Change : SF_vars(SweepLoad(c))

(***************************************************************************)
(* Properties                                                              *)
(***************************************************************************)

TypeOK ==
    /\ config \in Config
    /\ edits \in Nat
    /\ pushes \in [Change -> Nat]
    /\ livePush \in BOOLEAN
    /\ window \in BOOLEAN
    /\ row \in [Change -> Row]
    /\ latest \in Config \cup {None}
    /\ queue \in [Job -> Nat]
    /\ lock \in Worker \cup {None}
    /\ missed \in SUBSET Change
    /\ wk \in [Worker -> Slot]
    /\ req \in [Request -> Handler]
    /\ sw \in Sweep
    /\ requests \in Nat
    /\ toggles \in Nat
    /\ crashes \in Nat
    /\ crons \in Nat

\* No clobber (apply_change, apply_profile_sequence): when a job is about to make its first write
\* and nobody wrote to the firewall without the lock since it read config.xml, the configuration
\* it is about to change is the one it read and kept as the rollback point, and the one its
\* baseline promised whenever the change has a baseline.
NoClobber ==
    \A w \in Worker :
        wk[w].pc = "push" /\ wk[w].out = <<>> /\ wk[w].edits = edits =>
            /\ config = wk[w].xml
            /\ row[Current(w)].baseline \in {config, None}

\* "The lock makes us the only writer" (apply_profile_sequence): between a job's read of
\* config.xml and its last member, the pipeline changes the configuration only by that job's own
\* pushes.
SoleWriter ==
    [][\A w \in Worker :
          wk[w].pc = "push" /\ config' # config /\ edits' = edits => wk'[w].out # wk[w].out]_vars

\* Duplicate jobs (a re-schedule, the sweeper, a re-run after a crash) do not apply a change twice:
\* while nothing else writes to the firewall, a change with a baseline, and an effect on it, is
\* written at most once.
AppliedOnce ==
    \A c \in Change :
        /\ edits = 0
        /\ \A d \in Change \ {c} : pushes[d] = 0
        /\ row[c].baseline # None
        /\ Effect(row[c].prop, row[c].baseline) # row[c].baseline
        => pushes[c] <= 1

\* The rollback point of a change whose last apply wrote to the firewall is the configuration the
\* operator saw when proposing it, so that reverting restores what was there (pre_apply_snapshot_id).
RollbackPoint ==
    \A c \in Change :
        row[c].result = "live" =>
            /\ row[c].snap # None
            /\ row[c].baseline \in {row[c].snap, None}

\* The inverse build_inverse makes of a change that was written to the firewall gives back the
\* rollback point when it is applied to what the change left behind.  (An upsert proposed as an
\* "add" is left to RuleAddUndone.)
RevertUndoes ==
    \A d \in Change : \A c \in {row[d].reverts} \ {None} :
        /\ row[c].result = "live"
        /\ row[c].baseline # None
        /\ Accepts(row[c].prop, row[c].snap)
        /\ row[c].prop.kind = "firewall_rule" => row[c].prop.op # "add"
        => Undoes(row[d].prop, row[c].prop, row[c].snap)

\* "It undoes only our change" (reliability design, decision 1), whatever ran since the change was
\* written: the inverse, written now, would give the object of the change the contents it had in the
\* configuration the change was proposed against, and move nothing else; and while no other change
\* was written, the firewall would take it, and the whole of that configuration would be back.
\* (Unlocked writes are left out, and so is an upsert proposed as an "add", see RuleAddUndone.)
RevertTakesBack ==
    \A c, d \in Change :
        /\ row[d].reverts = c
        /\ pushes[c] # 0 /\ row[c].baseline # None /\ edits = 0
        /\ row[c].prop.kind = "firewall_rule" => row[c].prop.op # "add"
        => LET target == row[c].prop.target
           IN  /\ Effect(row[d].prop, config) = [config EXCEPT ![target] = row[c].baseline[target]]
               /\ (\A e \in Change \ {c} : pushes[e] = 0) =>
                     Accepts(row[d].prop, config) /\ Effect(row[d].prop, config) = row[c].baseline

\* decide_orphan never lets the sweeper re-enqueue a row more than MaxAttempts times.
AttemptsBounded == \A c \in Change : row[c].attempts <= MaxAttempts

\* The sweeper exists so that no due change is left behind: whatever is lost, it is eventually
\* decided, or postponed by the operator.
EventuallyDecided == \A c \in Change : Due(c) ~> ~Due(c)

(***************************************************************************)
(* What the design documents and comments say, and the code does not do    *)
(***************************************************************************)

\* The status lifecycle of the 4D design (section 4): a change that was applied, failed, found in
\* conflict or cancelled keeps that status.
Lifecycle ==
    [][\A c \in Change : <<row[c].status, row'[c].status>> \in
          {<<s, s>> : s \in Status}
          \cup {<<"none", "draft">>, <<"none", "scheduled">>}
          \cup {<<"draft", "scheduled">>, <<"draft", "cancelled">>}
          \cup {<<"scheduled", s>> : s \in {"applied", "failed", "conflict", "cancelled"}}]_vars

\* "members are applied in order under a single device lock so a member that mutates config.xml
\* can't make its siblings falsely conflict" (apply_profile): a member in conflict means that
\* someone other than its siblings wrote to the firewall.
SiblingsNeverConflict ==
    \A c \in Change :
        row[c].siblings # <<>> /\ row[c].status = "conflict" =>
            edits > 0 \/ \E d \in Change \ Members(row[c].siblings) : pushes[d] > 0

\* "its attempts only count device-free retries" and "no false give-ups" (reliability design): the
\* sweeper does not give up on a change because the device was busy with another change when its job ran.
NoFalseGiveUp == [][SweepGiveUp => sw.change \notin missed]_vars

\* "Immediate or deferred (operator-picked date/time)" (4D design, section 2): a change whose
\* committed schedule is the picked time is not written to the firewall before it.
NotBeforeItsTime ==
    [][\A c \in Change : row[c].later /\ ~window => pushes'[c] = pushes[c]]_vars

\* A conflict means "do not apply (no clobber)" (4D design, section 5): a change reported in
\* conflict was not written to the firewall.
ConflictNotApplied == \A c \in Change : row[c].status = "conflict" => pushes[c] = 0

\* "The alias apply is idempotent (upsert by name), so reverting a partially-applied change
\* converges" (reliability design, component 2): the device takes the inverse of an alias change
\* whether or not the write of that change went through.
RevertConverges ==
    \A d \in Change : \A c \in {row[d].reverts} \ {None} :
        row[c].snap # None /\ row[c].prop.kind = "alias" =>
            \A cfg \in {row[c].snap, Effect(row[c].prop, row[c].snap)} : Accepts(row[d].prop, cfg)

\* "It undoes only our change (add <-> delete, ...)" (reliability design, decision 1), for an
\* upserted rule proposed as an "add".
RuleAddUndone ==
    \A d \in Change : \A c \in {row[d].reverts} \ {None} :
        row[c].result = "live" /\ row[c].baseline # None /\ row[c].prop.kind = "firewall_rule" =>
            Undoes(row[d].prop, row[c].prop, row[c].snap)

==============================================================================
