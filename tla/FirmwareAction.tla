---------------------------- MODULE FirmwareAction ----------------------------
(***************************************************************************)
(* Firmware actions of one device: the API handler that creates them, the  *)
(* ARQ job that issues the operation and polls the firewall until it is    *)
(* over, the sweeper cron, and the firewall, which runs its operations     *)
(* asynchronously, one at a time, and may reboot after one.                *)
(*                                                                         *)
(* As for config changes, a job is one transaction: status "running" is    *)
(* flushed, never committed, and the device lock ends with the             *)
(* transaction.  scheduled_at is left out: every action is due.            *)
(***************************************************************************)
EXTENDS Naturals

CONSTANTS Action,           \* ids of firmware_actions rows
          Kinds,            \* the kinds of action operators ask for
          Worker,           \* job slots of the ARQ worker
          None,             \* no lock holder
          MaxUpgradeSteps,  \* MAX_UPGRADE_STEPS
          MaxPolls,         \* firmware_max_status_polls
          Grace,            \* STARTUP_GRACE_POLLS
          RebootPolls,      \* REBOOT_MAX_POLLS
          MaxAttempts,      \* max_reenqueue_attempts
          StartLimit,       \* the firewall starts an operation before it has been polled this often
          MaxMinor, MaxMajor,  \* bound: update rounds and release upgrades the firewall is behind
          MaxTimeouts,      \* bound: jobs cut off by ARQ's job timeout
          MaxCrashes,       \* bound: jobs killed with their worker
          MaxLost,          \* bound: enqueues and answers that get lost
          MaxBlips,         \* bound: requests that fail although the firewall is up
          MaxChecks         \* bound: mirror checks asked for in the user interface

Kind == {"firmware_update", "firmware_upgrade", "plugin_install", "plugin_remove"}

ASSUME FirmwareAssumption ==
    /\ Kinds \subseteq Kind
    /\ None \notin Worker
    /\ {MaxUpgradeSteps, MaxPolls, Grace, RebootPolls, MaxAttempts, StartLimit, MaxMinor, MaxMajor,
        MaxTimeouts, MaxCrashes, MaxLost, MaxBlips, MaxChecks} \subseteq Nat

VARIABLES row,      \* firmware_actions, committed
          making,   \* actions enqueued by a handler that has not committed yet
          queue,    \* per action, how many of its jobs are waiting
          lock,     \* holder of the device's advisory lock
          wk,       \* the job running in each worker slot
          sw,       \* the action the sweeper has loaded, with its attempts
          dev,      \* the firewall
          issued,   \* per action, the jobs that issued its operation (history)
          timeouts, crashes, lost, blips, checks

bound == <<timeouts, crashes, lost, blips, checks>>
vars == <<row, making, queue, lock, wk, sw, dev, issued, bound>>

Row == [status : {"none", "scheduled", "done", "failed"}, kind : Kind, attempts : Nat]

\* A job: the pc, the action, the counters of poll_until_done and _wait_until_reachable, what
\* follows the poll, the operation to issue, the upgrade steps done, and the verdict.
Slot == [pc : {"idle", "loaded", "check", "post", "poll", "wait", "status", "identity", "commit"},
         act : Action \cup {None}, polls : Nat, idle : Nat, waits : Nat, seen : BOOLEAN,
         next : {"check", "status", "identity"}, op : {"update", "upgrade"},
         steps : Nat, ok : BOOLEAN]

IdleSlot == [pc |-> "idle", act |-> None, polls |-> 0, idle |-> 0, waits |-> 0, seen |-> FALSE,
             next |-> "identity", op |-> "update", steps |-> 0, ok |-> FALSE]

\* The firewall: its operation and how far it is, how often it was polled before it started,
\* the updates and major releases it is behind, what its last mirror check found of them, and
\* whether it still has to reboot.
Device == [op : {"none", "check", "update", "upgrade", "install", "remove"},
           phase : {"idle", "queued", "running", "down"}, waited : Nat,
           minor : Nat, major : Nat, updates : BOOLEAN, offered : BOOLEAN, reboot : BOOLEAN]

Init ==
    /\ row \in [Action -> [status : {"none"}, kind : Kinds, attempts : {0}]]
    /\ making = {}
    /\ queue = [a \in Action |-> 0]
    /\ lock = None
    /\ wk = [w \in Worker |-> IdleSlot]
    /\ sw = [act |-> None, attempts |-> 0]
    /\ dev \in [op : {"none"}, phase : {"idle"}, waited : {0}, minor : 0..MaxMinor,
                major : 0..MaxMajor, updates : {FALSE}, offered : {FALSE}, reboot : {FALSE}]
    /\ issued = [a \in Action |-> 0]
    /\ timeouts = 0 /\ crashes = 0 /\ lost = 0 /\ blips = 0 /\ checks = 0

Busy == dev.phase \in {"queued", "running"}

(***************************************************************************)
(* API: create_firmware_action                                             *)
(***************************************************************************)

Enqueue(a) == queue' = [queue EXCEPT ![a] = @ + 1]

\* The job is enqueued before the row is committed.
EnqueueNew(a) ==
    /\ row[a].status = "none" /\ a \notin making
    /\ Enqueue(a)
    /\ making' = making \cup {a}
    /\ UNCHANGED <<row, lock, wk, sw, dev, issued, bound>>

CommitNew(a) ==
    /\ a \in making
    /\ row' = [row EXCEPT ![a].status = "scheduled"]
    /\ making' = making \ {a}
    /\ UNCHANGED <<queue, lock, wk, sw, dev, issued, bound>>

(***************************************************************************)
(* Worker: run_firmware_action                                             *)
(***************************************************************************)

\* The job loads the row; "missing", or a status other than scheduled, ends it.
Load(w, a) ==
    /\ wk[w].pc = "idle" /\ queue[a] > 0
    /\ queue' = [queue EXCEPT ![a] = @ - 1]
    /\ wk' = IF row[a].status = "scheduled"
             THEN [wk EXCEPT ![w] = [IdleSlot EXCEPT !.pc = "loaded", !.act = a]]
             ELSE wk
    /\ UNCHANGED <<row, making, lock, sw, dev, issued, bound>>

Goto(w, pc) == wk' = [wk EXCEPT ![w].pc = pc]

KindOf(w) == row[wk[w].act].kind

\* Mutant of TryLock: the result of the lock attempt is ignored.
TryLockIgnored(w) ==
    /\ wk[w].pc = "loaded"
    /\ lock' = w
    /\ Goto(w, IF KindOf(w) \in {"plugin_install", "firmware_upgrade"} THEN "check" ELSE "post")
    /\ UNCHANGED <<row, making, queue, sw, dev, issued, bound>>

\* A job that misses the device lock ends, and its row stays scheduled.
TryLock(w) ==
    /\ wk[w].pc = "loaded"
    /\ IF lock = None
       THEN /\ lock' = w
            /\ Goto(w, IF KindOf(w) \in {"plugin_install", "firmware_upgrade"} THEN "check" ELSE "post")
       ELSE UNCHANGED lock /\ wk' = [wk EXCEPT ![w] = IdleSlot]
    /\ UNCHANGED <<row, making, queue, sw, dev, issued, bound>>

\* The job is to be committed with this verdict.
Verdict(w, ok) == wk' = [wk EXCEPT ![w].pc = "commit", ![w].ok = ok]

\* The firewall takes a new operation; it ignores one that comes while another is in progress.
Take(op) == dev' = IF Busy THEN dev ELSE [dev EXCEPT !.op = op, !.phase = "queued", !.waited = 0]

\* Before poll_until_done.
ThenPoll(w, next) ==
    wk' = [wk EXCEPT ![w].pc = "poll", ![w].next = next, ![w].polls = 0, ![w].idle = 0, ![w].seen = FALSE]

\* Each round of an upgrade, and an install, begins with a mirror check.
Check(w) ==
    /\ wk[w].pc = "check" /\ dev.phase # "down"
    /\ wk[w].steps < MaxUpgradeSteps
    /\ Take("check")
    /\ ThenPoll(w, "status")
    /\ UNCHANGED <<row, making, queue, lock, sw, issued, bound>>

\* Mutant of Status: the install is not refused while updates are pending.
StatusUnchecked(w) ==
    /\ wk[w].pc = "status" /\ dev.phase # "down"
    /\ IF KindOf(w) = "plugin_install" \/ dev.updates \/ dev.offered
       THEN wk' = [wk EXCEPT ![w].pc = "post", ![w].op = IF dev.offered THEN "upgrade" ELSE "update"]
       ELSE Goto(w, "identity")
    /\ UNCHANGED <<row, making, queue, lock, sw, dev, issued, bound>>

\* Mutant of Status: an upgrade stops when no package updates are pending.
StatusNoMajor(w) ==
    /\ wk[w].pc = "status" /\ dev.phase # "down"
    /\ IF KindOf(w) = "plugin_install"
       THEN IF dev.updates THEN Verdict(w, FALSE) ELSE Goto(w, "post")
       ELSE IF dev.updates
            THEN wk' = [wk EXCEPT ![w].pc = "post", ![w].op = IF dev.offered THEN "upgrade" ELSE "update"]
            ELSE Goto(w, "identity")
    /\ UNCHANGED <<row, making, queue, lock, sw, dev, issued, bound>>

\* firmware_status_raw shows what the last mirror check found.  An install is refused while updates
\* are pending; an upgrade goes on until there are neither updates nor a major release.
Status(w) ==
    /\ wk[w].pc = "status" /\ dev.phase # "down"
    /\ IF KindOf(w) = "plugin_install"
       THEN IF dev.updates THEN Verdict(w, FALSE) ELSE Goto(w, "post")
       ELSE IF dev.updates \/ dev.offered
            THEN wk' = [wk EXCEPT ![w].pc = "post", ![w].op = IF dev.offered THEN "upgrade" ELSE "update"]
            ELSE Goto(w, "identity")
    /\ UNCHANGED <<row, making, queue, lock, sw, dev, issued, bound>>

\* The operation the job issues: the upgrade loop has chosen it, the other kinds have one.
Operation(w) ==
    CASE KindOf(w) = "firmware_update"  -> "update"
      [] KindOf(w) = "firmware_upgrade" -> wk[w].op
      [] KindOf(w) = "plugin_install"   -> "install"
      [] KindOf(w) = "plugin_remove"    -> "remove"

\* The POST.  Its answer may be lost (a timeout is a ReachabilityError): the action has failed,
\* the operation goes on.
Post(w) ==
    /\ wk[w].pc = "post" /\ dev.phase # "down"
    /\ Take(Operation(w))
    /\ issued' = [issued EXCEPT ![wk[w].act] = IF wk[w].steps = 0 THEN @ + 1 ELSE @]
    /\ \/ /\ ThenPoll(w, IF KindOf(w) = "firmware_upgrade" THEN "check" ELSE "identity")
          /\ UNCHANGED lost
       \/ /\ lost < MaxLost
          /\ lost' = lost + 1
          /\ Verdict(w, FALSE)
    /\ UNCHANGED <<row, making, queue, lock, sw, timeouts, crashes, blips, checks>>

\* poll_until_done is over; an upgrade step is counted.
Polled(w) ==
    wk' = [wk EXCEPT ![w].pc = wk[w].next,
                     ![w].steps = IF wk[w].next = "check" THEN @ + 1 ELSE @]

\* One GET of upgradestatus.  It says "running" only while the operation runs: before it has
\* started, the answer is the stale "done" of the previous one.
Reads(w) ==
    /\ wk[w].pc = "poll" /\ wk[w].polls < MaxPolls
    /\ dev.phase # "down"
    /\ dev.phase = "queued" => dev.waited < StartLimit
    /\ dev' = IF dev.phase = "queued" THEN [dev EXCEPT !.waited = @ + 1] ELSE dev

\* Mutant of Poll: any status other than "running" is completion.
PollNaive(w) ==
    /\ Reads(w)
    /\ IF dev.phase = "running"
       THEN wk' = [wk EXCEPT ![w].seen = TRUE, ![w].idle = 0, ![w].polls = @ + 1]
       ELSE Polled(w)
    /\ UNCHANGED <<row, making, queue, lock, sw, issued, bound>>

Poll(w) ==
    /\ Reads(w)
    /\ IF dev.phase = "running"
       THEN wk' = [wk EXCEPT ![w].seen = TRUE, ![w].idle = 0, ![w].polls = @ + 1]
       ELSE IF wk[w].seen \/ wk[w].idle + 1 >= Grace
            THEN Polled(w)
            ELSE wk' = [wk EXCEPT ![w].idle = @ + 1, ![w].polls = @ + 1]
    /\ UNCHANGED <<row, making, queue, lock, sw, issued, bound>>

\* A request does not get through: the firewall is down, or the network is.
NoAnswer ==
    IF dev.phase = "down" THEN UNCHANGED blips ELSE blips < MaxBlips /\ blips' = blips + 1

\* ReachabilityError inside poll_until_done: wait until the firewall answers again.
PollUnreachable(w) ==
    /\ wk[w].pc = "poll" /\ wk[w].polls < MaxPolls
    /\ NoAnswer
    /\ wk' = [wk EXCEPT ![w].pc = "wait", ![w].waits = 0]
    /\ UNCHANGED <<row, making, queue, lock, sw, dev, issued, timeouts, crashes, lost, checks>>

\* _wait_until_reachable: one test_connection.
WaitUnreachable(w) ==
    /\ wk[w].pc = "wait" /\ wk[w].waits < RebootPolls
    /\ NoAnswer
    /\ wk' = [wk EXCEPT ![w].waits = @ + 1]
    /\ UNCHANGED <<row, making, queue, lock, sw, dev, issued, timeouts, crashes, lost, checks>>

WaitReached(w) ==
    /\ wk[w].pc = "wait" /\ wk[w].waits < RebootPolls
    /\ dev.phase # "down"
    /\ wk' = [wk EXCEPT ![w].pc = "poll", ![w].seen = TRUE, ![w].polls = @ + 1]
    /\ UNCHANGED <<row, making, queue, lock, sw, dev, issued, bound>>

\* A budget is used up: upgrade steps, status polls or reboot polls.
Exhausted(w) ==
    /\ \/ wk[w].pc = "check" /\ wk[w].steps = MaxUpgradeSteps
       \/ wk[w].pc = "poll"  /\ wk[w].polls = MaxPolls
       \/ wk[w].pc = "wait"  /\ wk[w].waits = RebootPolls
    /\ Verdict(w, FALSE)
    /\ UNCHANGED <<row, making, queue, lock, sw, dev, issued, bound>>

\* The job is about to send a request.
Requesting(w) ==
    \/ wk[w].pc \in {"post", "status", "identity"}
    \/ wk[w].pc = "check" /\ wk[w].steps < MaxUpgradeSteps
    \/ wk[w].pc = "poll"  /\ wk[w].polls < MaxPolls
    \/ wk[w].pc = "wait"  /\ wk[w].waits < RebootPolls

\* ReachabilityError from any other request.
Unreachable(w) ==
    /\ Requesting(w) /\ wk[w].pc \notin {"poll", "wait"}
    /\ NoAnswer
    /\ Verdict(w, FALSE)
    /\ UNCHANGED <<row, making, queue, lock, sw, dev, issued, timeouts, crashes, lost, checks>>

\* Any other connector error: the firewall answers with an HTTP error or something unreadable.
Refused(w) ==
    /\ Requesting(w)
    /\ dev.phase # "down"
    /\ Verdict(w, FALSE)
    /\ UNCHANGED <<row, making, queue, lock, sw, dev, issued, bound>>

Identity(w) ==
    /\ wk[w].pc = "identity" /\ dev.phase # "down"
    /\ Verdict(w, TRUE)
    /\ UNCHANGED <<row, making, queue, lock, sw, dev, issued, bound>>

\* The one commit of the job, which also releases the lock.
Commit(w) ==
    /\ wk[w].pc = "commit"
    /\ row' = [row EXCEPT ![wk[w].act].status = IF wk[w].ok THEN "done" ELSE "failed"]
    /\ lock' = None
    /\ wk' = [wk EXCEPT ![w] = IdleSlot]
    /\ UNCHANGED <<making, queue, sw, dev, issued, bound>>

Release(w) == lock' = IF lock = w THEN None ELSE lock

\* ARQ's job timeout cancels the job and drops it: the transaction is rolled back.
Timeout(w) ==
    /\ wk[w].pc # "idle" /\ timeouts < MaxTimeouts
    /\ timeouts' = timeouts + 1
    /\ Release(w)
    /\ wk' = [wk EXCEPT ![w] = IdleSlot]
    /\ UNCHANGED <<row, making, queue, sw, dev, issued, crashes, lost, blips, checks>>

\* The worker is killed: the same, but ARQ runs the job again.
Crash(w) ==
    /\ wk[w].pc # "idle" /\ crashes < MaxCrashes
    /\ crashes' = crashes + 1
    /\ Release(w)
    /\ Enqueue(wk[w].act)
    /\ wk' = [wk EXCEPT ![w] = IdleSlot]
    /\ UNCHANGED <<row, making, sw, dev, issued, timeouts, lost, blips, checks>>

(***************************************************************************)
(* Worker: sweep_orphaned_actions                                          *)
(***************************************************************************)

SweepLoad(a) ==
    /\ sw.act = None
    /\ row[a].status = "scheduled"
    /\ sw' = [act |-> a, attempts |-> row[a].attempts]
    /\ UNCHANGED <<row, making, queue, lock, wk, dev, issued, bound>>

SweepSkip ==
    /\ sw.act # None /\ lock # None
    /\ sw' = [act |-> None, attempts |-> 0]
    /\ UNCHANGED <<row, making, queue, lock, wk, dev, issued, bound>>

\* The attempt is committed, then the job enqueued, unless the worker dies in between.
SweepRetry ==
    /\ sw.act # None /\ lock = None /\ sw.attempts < MaxAttempts
    /\ row' = [row EXCEPT ![sw.act].attempts = sw.attempts + 1]
    /\ \/ Enqueue(sw.act) /\ UNCHANGED lost
       \/ lost < MaxLost /\ lost' = lost + 1 /\ UNCHANGED queue
    /\ sw' = [act |-> None, attempts |-> 0]
    /\ UNCHANGED <<making, lock, wk, dev, issued, timeouts, crashes, blips, checks>>

\* Mutant of SweepGiveUp: an orphan out of attempts is left alone.
SweepGiveUpNever ==
    /\ sw.act # None /\ lock = None /\ sw.attempts >= MaxAttempts
    /\ sw' = [act |-> None, attempts |-> 0]
    /\ UNCHANGED <<row, making, queue, lock, wk, dev, issued, bound>>

SweepGiveUp ==
    /\ sw.act # None /\ lock = None /\ sw.attempts >= MaxAttempts
    /\ row' = [row EXCEPT ![sw.act].status = "failed"]
    /\ sw' = [act |-> None, attempts |-> 0]
    /\ UNCHANGED <<making, queue, lock, wk, dev, issued, bound>>

(***************************************************************************)
(* Environment                                                             *)
(***************************************************************************)

\* The "check for updates" button (POST firmware/check) does not take the device lock.
UiCheck ==
    /\ dev.phase = "idle" /\ checks < MaxChecks
    /\ checks' = checks + 1
    /\ Take("check")
    /\ UNCHANGED <<row, making, queue, lock, wk, sw, issued, timeouts, crashes, lost, blips>>

DevStart ==
    /\ dev.phase = "queued"
    /\ dev' = [dev EXCEPT !.phase = "running"]
    /\ UNCHANGED <<row, making, queue, lock, wk, sw, issued, bound>>

MinorAfter ==
    IF dev.op = "upgrade" THEN 0..MaxMinor ELSE IF dev.op = "update" THEN {0} ELSE {dev.minor}

RebootAfter == IF dev.op \in {"update", "upgrade"} THEN BOOLEAN ELSE {dev.reboot}

\* An operation ends, also one that had nothing to do and never ran.  A check finds what there is;
\* an update installs every package of the series, a major upgrade moves to a series that may have
\* updates of its own; both may go on to reboot.
DevFinish ==
    /\ Busy
    /\ \E minor \in MinorAfter, reboot \in RebootAfter :
          dev' = [dev EXCEPT !.phase = "idle", !.op = "none", !.minor = minor, !.reboot = reboot,
                    !.major = IF dev.op = "upgrade" /\ @ > 0 THEN @ - 1 ELSE @,
                    !.updates = IF dev.op = "check" THEN dev.minor > 0 ELSE @,
                    !.offered = IF dev.op = "check" THEN dev.major > 0 ELSE @]
    /\ UNCHANGED <<row, making, queue, lock, wk, sw, issued, bound>>

\* The reboot, which an operation queued meanwhile does not survive.
DevDown ==
    /\ dev.reboot /\ dev.phase # "down"
    /\ dev' = [dev EXCEPT !.phase = "down", !.op = "none", !.reboot = FALSE]
    /\ UNCHANGED <<row, making, queue, lock, wk, sw, issued, bound>>

DevUp ==
    /\ dev.phase = "down"
    /\ dev' = [dev EXCEPT !.phase = "idle"]
    /\ UNCHANGED <<row, making, queue, lock, wk, sw, issued, bound>>

(***************************************************************************)
(* Specification                                                           *)
(***************************************************************************)

Job(w) ==
    \/ \E a \in Action : Load(w, a)
    \/ TryLock(w) \/ Check(w) \/ Status(w) \/ Post(w) \/ Poll(w) \/ Exhausted(w)
    \/ PollUnreachable(w) \/ WaitUnreachable(w) \/ WaitReached(w) \/ Unreachable(w)
    \/ Refused(w) \/ Identity(w) \/ Commit(w)

Sweep == SweepSkip \/ SweepRetry \/ SweepGiveUp

Firewall == DevStart \/ DevFinish \/ DevDown \/ DevUp

Next ==
    \/ \E a \in Action : EnqueueNew(a) \/ CommitNew(a) \/ SweepLoad(a)
    \/ \E w \in Worker : Job(w) \/ Timeout(w) \/ Crash(w)
    \/ Sweep \/ UiCheck \/ Firewall

Spec == Init /\ [][Next]_vars

\* A worker keeps running its jobs, every tick of the cron looks at every scheduled row, and
\* the firewall's operations and reboots end.
FairSpec ==
    /\ Spec
    /\ \A w \in Worker : WF_vars(Job(w))
    /\ WF_vars(Sweep)
    /\ \A a \in Action : SF_vars(SweepLoad(a))
    /\ WF_vars(Firewall)

(***************************************************************************)
(* Properties                                                              *)
(***************************************************************************)

\* The state of create_firmware_action, run_firmware_action, the sweeper and the firewall has its
\* type; in particular a job is taken from the queue only if it was put there.
TypeOK ==
    /\ row \in [Action -> Row]
    /\ making \subseteq Action
    /\ queue \in [Action -> Nat]
    /\ lock \in Worker \cup {None}
    /\ wk \in [Worker -> Slot]
    /\ sw \in [act : Action \cup {None}, attempts : Nat]
    /\ dev \in Device
    /\ issued \in [Action -> Nat]
    /\ {timeouts, crashes, lost, blips, checks} \subseteq Nat

\* poll_until_done returns normally only when the operation it waits for is over: neither the stale
\* "done" of the previous operation nor a reboot is taken for the end of one that is still to run.
PolledToTheEnd ==
    [][\A w \in Worker :
          wk[w].pc = "poll" /\ wk'[w].pc \in {"check", "status", "identity"} => ~Busy]_vars

\* Only action a, if any, has issued an operation.
Alone(a) == \A b \in Action \ {a} : issued[b] = 0

\* A major upgrade reported done leaves the firewall with nothing to update: the loop ends on what
\* a completed mirror check found, not on an older one.  This is so as long as no other action has
\* issued an operation: the firewall does not take a check while one of those still runs, and loses
\* it in the reboot one of those asked for.
UpgradedToTheEnd ==
    \A w \in Worker :
        /\ wk[w].pc \in {"identity", "commit"}
        /\ wk[w].pc = "commit" => wk[w].ok
        /\ KindOf(w) = "firmware_upgrade"
        /\ Alone(wk[w].act)
        => dev.minor = 0 /\ dev.major = 0

\* "a plugin_install action must pre-check firmware/status": a plugin is installed only on a
\* firewall that has no updates pending when the installation begins, however often the job is cut
\* off and run again.  As above, another action's operation can make the pre-check a stale one.
InstalledUpToDate ==
    dev.op = "install" /\ Busy /\ (\E a \in Action : Alone(a)) => dev.minor = 0

\* One job at a time talks to the firewall: while a job works under the device lock, no other does.
OneJobAtATime ==
    \A v, w \in Worker : wk[v].pc \notin {"idle", "loaded"} /\ wk[w].pc \notin {"idle", "loaded"} => v = w

\* Whatever is lost, a committed action is eventually decided.
EventuallyDecided == \A a \in Action : row[a].status = "scheduled" ~> row[a].status # "scheduled"

(***************************************************************************)
(* What the design and the comments say, and the code does not do          *)
(***************************************************************************)

\* "Per-device advisory lock - one firmware action at a time per device" (device actions design,
\* section 7): an operation is issued only when the firewall is not still busy with an earlier one.
OneOperationAtATime ==
    [][issued' # issued => ~Busy]_vars

\* "the box going unreachable during a reboot is expected, not a failure; only a budget overrun
\* marks failed" (device actions design, section 7).
RebootTolerated ==
    [][\A w \in Worker :
          dev.phase = "down" /\ wk[w].pc # "commit" /\ wk'[w].pc = "commit" =>
              wk[w].waits = RebootPolls \/ wk[w].polls = MaxPolls]_vars

\* "upgrade did not converge within MAX_UPGRADE_STEPS" (run_firmware_action): the error is raised
\* only when the firewall is still behind.
NotConvergedIsBehind ==
    [][\A w \in Worker : Exhausted(w) /\ wk[w].pc = "check" => dev.minor > 0 \/ dev.major > 0]_vars

\* "Idempotent: the job re-checks status=='scheduled' and re-takes the lock" (reliability design):
\* as long as no job was cut off, an action's operation is issued by one job only.
IssuedOnce == crashes = 0 /\ timeouts = 0 => \A a \in Action : issued[a] <= 1

==============================================================================
