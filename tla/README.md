# OPNGMS: a TLA+ model of the management server and its console

OPNGMS manages fleets of OPNsense firewalls for several tenants. A FastAPI backend serves a React
frontend, an ARQ worker runs jobs and crons from a Redis queue, PostgreSQL holds the state, and every
firewall is driven through its REST API. This directory holds TLA+ modules translated from the source,
the TLC configurations that check them on small instances, and proofs that TLAPS checks for every
instance.

## The system and its parts

The browser calls the API; a handler is one database transaction and may enqueue jobs. The worker runs
jobs (at least once when it is killed, not again when a job times out or raises) and crons, which scan
tables and enqueue. Jobs of one firewall exclude each other by a PostgreSQL advisory lock. `PROJECT.json`
lists the sources of every part.

The console is a single page. What it knows of the server is a cache of answers, filled by the data hooks
of each feature through react-query; what it changes goes out as mutations, whose success handlers
invalidate or overwrite parts of that cache. Around it stand the session, the active tenant and the
language, each with state of its own in React, in localStorage and in the cache.

| part | status | module, or why there is none |
|---|---|---|
| Config push pipeline | modelled | `ConfigOps`, `ConfigPush`, `ConfigPush_proofs`: Creation, scheduling, cancelling, applying (single and profile), per-device locking, staleness guard, retries. |
| Orphan sweeper | modelled | `ConfigPush`, `FirmwareAction`: The sweep over config_changes in ConfigPush, over firmware_actions in FirmwareAction. |
| Config backup | modelled | `ConfigPush`: Cron, job, dedup on change, and the taken_at order of concurrent snapshots. |
| Config revert | partly | `ConfigOps`, `ConfigPush`: Inverse of the two write disciplines (strict alias, upserted rule); the settings and grid kinds are not separate. |
| Firmware and plugin actions | partly | `FirmwareAction`, `FirmwareAction_proofs`: Creation, the job with its polling, reboot wait and upgrade loop, the sweeper over firmware_actions, and the firewall's asynchronous operations; scheduled_at and the backup enqueued after success are left out. |
| Report delivery | partly | `ReportDelivery`, `ReportDelivery_proofs`, `ReportCadence`, `ReportCadence_proofs`: Cron, delivery job, send chain, edits, deletion and send-now of one schedule, and the calendar. The device-missing and missing-tenant branches are left out (the foreign keys delete the schedule with its device or tenant), as are validation and retention limits of the upsert; creation is the initial state. |
| Console: firmware tab | modelled | `QueryCache`, `ServerView`, `FirmwareTab`, `ConsoleLists`, `ConsoleShellLists_proofs`: Check, dialog, create, list and polling of one device's tab, over the server's list of actions. |
| Console: query and mutation hooks | partly | `QueryCache`, `ConsoleHooks`, `ConsoleQueries`, `ConsoleLists`, `ConsoleShellLists_proofs`: Every query and every mutation that changes what a query shows, over the cache of react-query; previews and downloads, which change nothing, are left out, as is what setQueryData loses to a request in flight. |
| Console: pages and cards | partly | `ConsolePages`, `ConsoleLists`, `ConsoleShellLists_proofs`: When each of them says that there is nothing; what they draw, their charts, maps and trees are left out. |
| Console: forms and dialogs | partly | `ConsoleEditors`, `Editors`, `ConsoleForms`, `ConsoleForms_proofs`: How each is seeded, what it sends, when its button is free and when it closes; the validation of single fields is left out. |
| Console: catalogue editor | modelled | `CatalogEditor`, `ConsoleForms`, `ConsoleForms_proofs`: The generated form and its row dialog, in the tab and in the plugin drawer. |
| Console: template bodies | modelled | `FieldForms`, `ConsoleForms`, `ConsoleForms_proofs`: The five forms that read their fields from a device while the dialog stays usable. |
| Console: login, session and enrolment | partly | `Session`, `ConsoleTab`, `Console`, `Console_proofs`, `ConsoleShell`, `ConsoleShellLists_proofs`: The me query, the steps of the login page, logout, the enrolment gate and wizard, with one page standing for all; the menu and the WebAuthn calls of the browser are left out. |
| Console: active tenant | modelled | `ActiveTenant`, `ConsoleShell`, `ConsoleShellLists_proofs`: List, stored id, fallback and switcher. |
| Console: language | partly | `Locale`, `ConsoleShell`, `ConsoleShellLists_proofs`: Detection, choice and loading of dictionaries; the dictionaries are data, and the text direction follows the locale. |
| Console: event timelines | modelled | `Timeline`, `ConsoleRows`, `ConsoleRows_proofs`: The infinite query of both tabs over the keyset pages of the events API. |
| Console: log search | modelled | `LogSearch`, `ConsoleRows`, `ConsoleRows_proofs`: Search and load-more over points in time of the log store. |
| Console: static views | not modelled | Drawing of what they are given; they keep no state but what is folded open. |
| Console: WebAuthn client | not modelled | Encoding between the browser's credential API and JSON. |
| Log forwarding and syslog CA | not modelled | Within reach, not modelled yet: certificate lifecycle against the objects on the firewall. |
| Event ingest and perimeter | not modelled | Within reach, not modelled yet: cursor, overlap and counts. |
| Monitoring and alerting | not modelled | Within reach, not modelled yet: open and resolved alerts under concurrent polls. |
| Silent-tenant alerts | not modelled | Within reach, not modelled yet: one mail per episode. |
| Sessions, login and MFA | not modelled | Within reach, not modelled yet: login steps, session lifetime, enrolment and recovery codes. |
| Rate limiter | not modelled | Within reach, not modelled yet: sliding window and eviction against a reference definition. |
| Access control | not modelled | Within reach, not modelled yet: roles from memberships and groups as pure operators. |
| Device lifecycle | not modelled | Within reach, not modelled yet: onboarding, edit and deletion beside running jobs. |
| Retention | not modelled | Within reach, not modelled yet: clamping of overrides and the report limit; the deletions themselves are SQL. |
| Runtime and application settings | not modelled | Within reach, not modelled yet: overrides and their lost update. |
| SMTP and OAuth | not modelled | Within reach, not modelled yet: token refresh and stored secrets; the transport is I/O. |
| Secret re-keying | not modelled | Within reach, not modelled yet: re-encryption beside concurrent edits; the cipher is a library. |
| Catalog and GeoIP caches | not modelled | Within reach, not modelled yet: cache rows, in-process copies and releases. |
| Templates and profiles | not modelled | Applying them is part of ConfigPush. Within reach, not modelled yet: resolution of overrides and ordering. |
| Config diff, drift and model | not modelled | Within reach, not modelled yet: diff and drift as pure operators. |
| Setting, IDS, Monit and catalog kinds | not modelled | Within reach, not modelled yet: their write disciplines and inverses, in ConfigOps. |
| Introspection and capabilities | not modelled | Read-only translation of firewall answers. |
| OPNsense connector | not modelled | HTTP calls and parsing; the calls the modelled jobs make are represented in ConfigOps and FirmwareAction. |
| Report rendering | not modelled | Rendering, SQL aggregation and translations; stateless. |
| Log search and fleet export | not modelled | Read-only queries to OpenSearch. |
| Audit trail and events API | not modelled | Append-only rows written in the transaction of their operation, and read-only lists. |
| Database, configuration and start-up | not modelled | Wiring and one-time set-up; sessions and isolation are assumptions of every module. |
| Deployment | not modelled | Configuration of third-party services. |

## ConfigPush

One device. The database row of every change, the queue, the device lock, two kinds of processes (API
requests and worker slots), the sweeper and the firewall itself are variables.

* A job or a handler is one transaction. It reads its row once, at the start (the ORM identity map never
  reloads it), and at commit writes only the columns it changed, by primary key. The slot of a worker
  therefore keeps the members it *loaded as scheduled* (`batch`), and `CommitApply` overwrites whatever
  status the row has by then.
* `pg_try_advisory_xact_lock` never waits; `lock` is its holder, released by commit, rollback or death.
* `taken_at` of a snapshot is the start of the transaction, so a backup that began before an apply is
  older than the apply's own snapshot even if it commits later (`older`, `late`).
* `queue` counts copies of a job: nothing deduplicates them. TLC takes them in any order; Redis hands
  out due jobs in the order of their scores, so the model has more behaviours than the deployment.
* The canonical hash is taken to be injective, so a configuration is its own hash.
* Actions follow the handlers: `CreateChange`, `ApplyTemplate`, `ApplyProfile`, `RevertChange`,
  `LoadForRequest`/`CommitSchedule`/`CommitCancel`/`EnqueueRequest` (API), `LoadChange`/`LoadProfile`,
  `TryLock`, `ReadFails`/`ReadStale`/`ReadFresh`, `PushOne`/`PushMember`/`AbortRest`, `CommitApply`,
  `EnqueueRefresh` (jobs), `BackupRead`/`BackupStore` (backup), `Sweep...` (sweeper). A step ends where
  another process can get in: a database read, a lock attempt, a request to the firewall, a commit.
* `UnlockedEdit` is a write to the firewall by anyone outside the pipeline.
* `ConfigOps` has the effect of a change and its inverse for two write disciplines: the strict alias and
  the upserted rule.

## FirmwareAction

One device with any number of actions. `row` is the table, `wk` the running jobs with their polling state,
`dev` the firewall, which runs operations asynchronously and remembers the reboot an update asked for. `EnqueueNew` precedes `CommitNew`, as in the handler, so a job can look
for its row too early. `Check`, `Status`, `Post`, `Poll`, `PollUnreachable`, `WaitUnreachable`,
`WaitReached`, `Exhausted` and `Identity` are the requests of `run_firmware_action` and `poll_until_done`;
`Timeout` is ARQ's job timeout, `Crash` the death of the worker. The firewall is external and assumed to
ignore a POST while it is busy and to start an operation before it has been polled `StartLimit` times,
which the runs keep below the grace period. `scheduled_at`, and the backup enqueued after a success, are
left out.

`UpgradedToTheEnd` and `InstalledUpToDate` are about an action that nothing else on the firewall disturbs
(`Alone`). With two actions they fail without it: the operation of a job that was cut off or killed runs
on, the firewall does not take the mirror check of the next action meanwhile, or loses it in the reboot
the first one asked for, and the next job decides on the findings of an older check.

## ReportDelivery and ReportCadence

One schedule. `Cron`, `Load`, `Generated`, `GenerateFailed` and `EnqueueSend` are `enqueue_due_reports`
and `deliver_scheduled_report`; `LoadSend`, `Sent`, `Delivered` and `SendFailed` are
`send_report_email_job`; `Upsert`, `Delete` and `SendNow` the API. A delivery job keeps the frequency it
loaded; its commit writes the run time it computed over whatever the row has by then. When the build
fails the row is loaded again first. A schedule created again after a deletion has another id, so a
deleted one stays away. The cron may fire any number of times between two ticks of the clock.

`ReportCadence` is the calendar: `next_run_at` and `report_window` on a line of half hours, checked
against a reference definition, and followed through successive, possibly late, runs. A calendar is the
sequence of days on which its months begin, so it is a parameter like the hours, the times at which the
schedule is saved and the delays. `MCReports` puts the two beside each other: a behaviour is one of the
delivery or one of the calendar.

## The console

`Console` has one behaviour for each part of the console. The parts share no variable (what they have
in common is the server), so it is a choice of part at the start and the parts' own steps after that.
`ConsoleTab` declares the variables `p1` to `p13` that stand for those of the part chosen. Four modules
instantiate the parts over them and state their properties: `ConsoleShell` (session, tenant, language),
`ConsoleForms` (editors, catalogue form, template bodies), `ConsoleLists` (firmware tab, queries and
pages) and `ConsoleRows` (timelines, log search). `Console` joins the four, adds fairness and the
properties that need it, and `MCConsole` gives TLC its constants.

* `QueryCache` (external) is one entry of react-query as the console configures it, that is by its
  defaults: data is stale at once and fetched again on mount and when the window regains the focus; one
  request per key is in flight; `invalidateQueries` cancels it and asks again if the entry has data, and
  joins it otherwise; `setQueryData` does not cancel it; a failure keeps the data. A request may be
  answered with any state the server passed through since it was sent. Retries of a request are part of
  its one answer or failure.
* `FirmwareTab` is `FirmwareActions` with its three hooks. `hist` is the history of the device's list of
  actions; the page holds the number of a state. `Check`/`CheckAnswered`, `Open`, `PickTime`, `Cancel`,
  `Fire`, `Created`/`CreateFailed`, `Poll`, `Answer`, `FetchFailed` and `Focus` are its handlers and the
  cache's, `Stored` and `Work` the server's. `ServerView` is what it promises: the list is a state the
  server reached, and never an earlier one than before. `ShowsForward`, in `ConsoleLists`, is that refinement.
* `ConsoleHooks` has one record for each of 51 queries and of the 46 mutations that write what one of them reads: the parameters in the key and those
  of the request, whether it waits for them, polls, or answers errors with an empty value; what a
  mutation writes and what its `onSuccess` does. `ConsoleQueries` gives the records their behaviour: a
  page with one query and one mutation, whose parameters move, while others write too. What a mutation
  writes is what its handler on the server changes among the things shown on the same page; the queries of
  other pages are fetched again when they mount.
* `ConsolePages` has one record for each of 40 pages and cards, which show 38 of the queries: what it says while it waits and after a failure.
* `ConsoleEditors` has one record for each form, dialog and button of the pages its `Editors` lists: how it is
  seeded, what it sends, when its button is disabled, when it closes. `Editors` gives them their
  behaviour, with rows or tenants that change underneath.
* `CatalogEditor`, `FieldForms`, `Timeline` and `LogSearch` are the four places with more state than
  that: the generated catalogue form, the template bodies that are read from a device, the paged event
  lists, and the log search.
* `Session` is login, logout and enrolment: the server's session, the `["me"]` query, the router, the
  login page's steps, and the enrolment wizard in the gate or in the account panel. The MFA page stands
  for every page that shows cached data.
* `ActiveTenant` is `TenantProvider`, `Locale` the language with its dictionaries loaded as chunks.

## Runs

| run | expected | properties | what it shows |
|---|---|---|---|
| `ApplySingle` | pass | `TypeOK`, `NoClobber`, `AppliedOnce`, `AttemptsBounded` | One change (a strict alias add, an upserted rule or an unregistered kind) through every path that can queue it - schedule, re-schedule, sweeper, re-run after a crash - with two workers, one unlocked write to the firewall and one flip of the live switch. |
| `ApplyProfile` | pass | `SoleWriter` | A two-member profile applied as one job while the sweeper re-enqueues its members one by one, with one unlocked write. |
| `RevertBackup` | pass | `RollbackPoint`, `RevertTakesBack` | Every reversible operation of both write disciplines, applied, backed up concurrently and reverted. |
| `Deferred` | pass | `EventuallyDecided` | A deferred change under the fairness of the worker and the sweeper cron, with lost enqueues, a crash, a re-schedule or a cancel. |
| `DocLifecycle` | violation | `Lifecycle` | The documented status lifecycle has no edge out of a decided status; a job that loaded the row before another one decided it takes such an edge. |
| `FirmwareRuns` | pass | `UpgradedToTheEnd`, `InstalledUpToDate`, `OneJobAtATime`, `PolledToTheEnd` | Two actions, each an upgrade or an install, run by two workers against a firewall that starts late, reboots late and runs on after a job was cut off or killed. |
| `FirmwareDecided` | pass | `EventuallyDecided` | An action is decided although its job ran before the row was committed, an enqueue or an answer was lost, the worker died or the network failed. |
| `DocOneOperation` | violation | `OneOperationAtATime` | A job cut off by ARQ's timeout leaves its operation running; the action is run again and issues it a second time. |
| `ReportSafe` | pass | `MailedOnce`, `GivenUpIsFinal` | Two workers, an edit or a deletion, a send-now, a crash and failing builds and sends around one weekly or monthly schedule. |
| `ReportLive` | pass | `NextRunIsFirst`, `PeriodsTile`, `EventuallyServed`, `EventuallySettled` | next_run_at against a reference definition and the periods of successive reports, over the end of a year and a leap February; beside it, a due periodic schedule is served and a stored report settled, although builds and sends fail and the schedule is edited or deleted meanwhile. |
| `DocOnDemandRefire` | violation | `OnDemandNotRefired` | Once such a schedule falls due, every tick of the cron delivers it again, because the cadence of an on-demand schedule is not advanced. |
| `Console` | pass | `TypeOK`, `ShownIsAsked`, `WritesAreShown`, `EmptyIsTrue`, `GateFirst`, `LogoutForgets`, `PickSurvives`, `DraftIsOurs`, `AcknowledgedOnce`, `PayloadIsOfEndpoint`, `NoEventSkipped`, `HitsAreTheSearch`, `TextFollowsLocale`, `ConfirmsTheOffered`, `ReadYourWrites`, `ShowsForward`, `RefetchKeepsWizard`, `UntouchedKept`, `ProposalIsTheForm`, `ShownToTheEnd`, `AlertsCatchUp` | The web console in one browser tab: what it shows of the server, what its forms and dialogs send, and how login, tenant and language survive late, lost and failing answers, refetches and reloads. |

**Bounds.** Two worker slots are what it takes for two jobs to overlap, and one change, action or schedule
what it takes for two jobs to be about the same row; `ApplyProfile` and `RevertBackup` need two changes
(two members; a change and its inverse). One crash, one lost enqueue, one unlocked write and one edit
each hit every point at which they can happen, alone and together with the others a run admits.
`FirmwareRuns` has two actions, because one that was cut off can disturb the next, and allows two upgrade
steps for a firewall that is up to one update and one release behind, so the loop ends both normally and
at its limit; one job is cut off and one worker killed in it. It has no failed requests while the firewall is up and no mirror check from the
user interface, because `PolledToTheEnd` does not hold with them (below). `ReportLive` runs long enough
for a second run time, so that the stale on-demand schedule does fall due in it; its property is about
periodic schedules, and the on-demand case is `DocOnDemandRefire`. `ReportLive` stores one report, after
which builds fail. Its calendar covers every day of a December, the turn of the year and a leap
February. `Console` allows two logins, openings of a dialog, presses of its button, loads and firmware
actions, one proposal and one grid operation of the catalogue form, three changes of what a query reads, and
one or two faults or foreign changes elsewhere: an answer can be late for, or lost to, the next request of
its kind. Three of a kind at once are not explored. Five events or log
lines on pages of two make a full page, a full page and a rest. Each of the 51 queries is
checked with every mutation that writes what it reads, and with each of its parameters moved. Workers
are interchangeable, and symmetry is used for safety only.

**Deadlock** is not checked: with the bounds used up and nothing left to do, these systems stop.

**Fairness.** A worker slot goes on with its job (weak). The sweeper looks at every overdue row again and
again, and a waiting job is started, although others come and go (strong): the cron scans the whole
table, and ARQ takes jobs in the order of their scores. In `FirmwareDecided` the firewall's operations
and reboots end. In `Console` an
interval timer fires while its page is open and visible (weak), a request that is sent again and again is
answered some time (strong), and a scheduled firmware action is decided (weak), which is what `FirmwareDecided`
shows for the worker and the sweeper, without job timeouts. Nothing is assumed about requests, edits, crashes, or the success of any call.

## Where the code and its documents disagree

Three are kept as runs, with the quotation in `PROJECT.json`: `DocLifecycle`, `DocOneOperation`,
`DocOnDemandRefire`. TLC also refutes the following, each stated in its module with the sentence it comes
from. The constants are those of the named run with the changes given.

| property | constants | what happens |
|---|---|---|
| `SiblingsNeverConflict` | `ApplyProfile`, `MaxEdits = 0` | the sweeper enqueues profile members one by one; the first makes the others conflict |
| `NoFalseGiveUp` | `DocLifecycle`, `Change = {c1, c2}`, `Drafts = {}`, `Templates <- MCRules`, no requests, toggles, edits or crashes | the last attempt is spent on a job that misses the lock |
| `NotBeforeItsTime` | `Deferred` with `Spec`, `Delays = {TRUE, FALSE}`, no crash | the job of an earlier schedule applies a change that was put off |
| `ConflictNotApplied` | `Deferred` with `Spec`, `Delays = {FALSE}`, `MaxRequests = 0` | a job run again after a crash takes its own write for a conflict |
| `RevertConverges` | `RevertBackup`, `Value = {v1}`, `Drafts <- MCDrafts`, no backups or crons, `MaxAttempts = 1` | the inverse of a write that never reached the firewall is refused |
| `RuleAddUndone` | `RevertBackup`, `Drafts <- MCRuleAdd`, no backups or crons, `MaxAttempts = 1` | reverting an "add" deletes the rule it overwrote |
| `RebootTolerated` | `FirmwareRuns`, `Kinds = {"firmware_update"}`, one worker, no crash or timeout | a reboot after "done" fails the action |
| `PolledToTheEnd` | the same, `MaxBlips = 1` | a failed request counts as a reboot, a stale "done" as the end |
| `NotConvergedIsBehind` | the same, no blips, `Kinds = {"firmware_upgrade"}`, `MaxUpgradeSteps = 2` | the last step is not followed by a look at the status |
| `IssuedOnce` | `FirmwareRuns`, `Action = {a1}`, `Kinds = {"firmware_update"}`, no crash or timeout | two jobs that loaded the same row both issue the operation |
| `OneReportPerRun` | `ReportSafe`, no edits, manual sends or crashes | two overlapping jobs each store a report of one run |
| `OnDemandNeverDue` | `ReportSafe`, no manual sends or crashes | the commit of a delivery overwrites the NULL of an edit |
| `LogoutIsSeen` | `Session` with `FairSpec`, constants as in `MCConsole` | `qc.clear()` removes the query the provider observes without telling it, so `refresh()` finds nothing and the login page sends the user back ("wipe the whole query cache and re-evaluate auth state", `security/sessionHooks.ts:33`) |
| `CodesAreShown` | `Session`, likewise | in the account panel the refetch of the status replaces the wizard before its codes are seen ("Shows the one-time recovery codes once", `security/RecoveryCodes.tsx:10`) |
| `SeedFollowsTenant` | `Editors`, likewise | the report settings are seeded once and saved to the tenant active by then ("the seed must follow the tenant, not just run once", `retention/RetentionCard.tsx:36`) |
| `ProposalAppears` | `ConsoleQueries`, likewise | `useProposeCatalogChange` invalidates nothing, and the Changes panel, mounted in the tab beside, keeps its list ("On success the draft appears in the device's existing **Changes** panel", `docs/superpowers/specs/2026-06-13-catalog-editor-foundation-design.md:104-105`) |
| `ProposesOnlyEdits` | `CatalogEditor`, likewise | a field changed on the device since the form was opened is proposed back to its old value ("with **only** changed scalars", `docs/superpowers/specs/2026-06-13-catalog-editor-foundation-design.md:103`) |
| `SavedOverDefaults` | `FieldForms`, likewise | a load begun in one dialog puts its defaults into the next ("saved values override device defaults", `templates/OpnsenseSettingForm.tsx:41`) |
| `StoredIsSettled` | `ReportLive`, one worker, `MaxReports = 2`, `MaxTime = 2`, `MaxEdits = 0`, `MaxCrashes = 1` | a crash between commit and enqueue leaves a report unsent |

Some properties of the console name the places they do not hold at, because
the code does not have the property there. `EmptyIsTrue` excludes the pages that say "nothing" without knowing it (thirteen, among them
the device list and the template library). `DraftIsOurs` excludes the report settings, the fleet's new schedule and the SMTP form,
which can be saved before it is loaded. `AcknowledgedOnce` excludes the plugin dialog. `WritesAreShown`
leaves out five mutations that refresh less than they write, while the other list is on the same page: the
proposal of a catalogue change (`ProposalAppears`), disabling MFA and resetting one's own (trusted devices,
status), the switch for trusted devices (status), and deleting a template (the profiles it was in). It also
leaves out the four that store their answer with `setQueryData`, which an older answer in flight can
overwrite. `HitsAreTheSearch` stops when the form or the tenant is changed before "load more".

## Proofs

TLAPS checks the theorems for every value of the constants that satisfies the named assumptions of the
modules: any number of changes, actions, workers, requests, attempts, crashes, reports, events, log lines,
dialogs, loads, tenants and locales, any page size and any calendar. The assumptions say little more than
that bounds are numbers: `DomainAssumption`, `ProposalsAssumption`, `ProfilesAssumption`,
`DelaysAssumption`, `NoneAssumption`, `BoundsAssumption` (`ConfigPush`), `FirmwareAssumption`,
`DeliveryAssumption`, `CalendarAssumption` (months in order, schedules saved within the calendar),
`ShellAssumption` (tenant ids are positive, and the locales contain the three the code names),
`MaxOpensAssumption`, `FormsAssumption`, `InitialAssumption`, `MaxNowAssumption` and `RowsAssumption` (the
console). Every property the passing runs check is stated by a theorem, but for the liveness properties;
`PROJECT.json` lists which by which.

**`ConfigPush_proofs`.** `NoClobber` is not inductive: that the configuration is still the one a job read
needs that no other job writes, hence `LockInv` (the lock's holder is exactly the job past the lock
attempt), `ShapeInv` (a job decides its members in order, so "first write" means nothing was decided yet),
`LoadedInv`, `EditsInv` and `RequestInv`. Their conjunction with the property is `IInv`, from which
`TypeCorrect`, `NothingClobbered` and `OnlyWriter` follow. The properties about the history of a change
need more, in `HInv`. `JobsInv` and `SlotsInv` say that the members of a profile job have one baseline,
and that what a job has read by the time it pushes is that baseline. `RowsInv` says that a row which was
written has a rollback point, equal to its baseline, and that its attempts are bounded; with `RevertInv`
(an inverse was built from the baseline of the change it reverts) it gives `RollbackPointKept`,
`AttemptsStayBounded` and, through `InverseUndoes`, `RevertRestores`. `RevertsTakeBack` is about the
configuration there is now, and not only about the one the change left: it needs that the only change
written was accepted on its baseline and that the firewall still has its effect (`LeftInv`), and that an
alias which was added was absent from what the operator saw (`AddInv`). `QuietInv` and `OnceInv` give
`AppliedAtMostOnce`: as long as only one change has been written, the firewall has its effect, and no job
that is about to write it again has got past the staleness guard. `InverseUndoes` is about the operators of `ConfigOps`, for
every kind, operation and configuration but an upsert proposed as an add, where it is false
(`RuleAddUndone`).

**`FirmwareAction_proofs`.** `FirmwareTypes` and `FirmwareExclusion` (`OneJobAtATime`) hold without
conditions, from `LockInv` and `ActInv`. `OperationsWaitedFor`, `UpgradesComplete` and `InstallsPrechecked`
have the hypothesis `Calm`: no request fails while the firewall is up, nobody checks from the user
interface, and the firewall starts an operation within the grace polls. Without it the code does not
have the properties (`PolledToTheEnd` in the table above). `FInv` says what a job knows
of the firewall. `JobInv` bounds the idle polls of a job by those the firewall has counted while its
operation waits to start, so the job neither takes a stale "done" for the end nor has seen it running; and
what a job has read of the firewall's status is still so when it acts on it. `DeviceInv` says that the
findings of the last mirror check hide nothing, as long as only installs, or only one upgrade, were issued.

**`ReportDelivery_proofs`.** `MailedAtMostOnce`: the sending of a report is carried by one token, which is
the delivery job that stored it, one waiting send of one attempt, or one running send (`TokenInv`); as long
as it can still lead to an email the report was mailed at most once for every worker killed (`CountInv`).
The allowance for killed workers is needed: a send that is run again after a crash mails again. A report
that was given up has no token left and was mailed only by workers that were killed (`OverInv`); as jobs
and sends about a report come only from others about it (`StaysSettled`), it never gets one again. That is
`GivenUpStaysGivenUp`, and the stronger bound `MailedOnce` has for such a report.

**`ReportCadence_proofs`.** `NextRunFound`: the run time computed is one the schedule is meant to fire at,
ahead of the present, and there is none between; `PeriodsMeet`: the periods of two runs in time meet. That
later months begin later and that every day lies in exactly one month is an induction over the months,
done by taking the least counterexample of a set of numbers (`Least`).

**`ConsoleShellLists_proofs`.** Shell: `GateComesFirst`, `LoggedOutIsForgotten` and `RefetchLeavesWizard` from
`SafeInv` of `Session`: what is kept or on its way was asked after the last logout, no account that has yet
to enrol was ever heard to be "full", and the wizard is on screen exactly where a place hosts it. `ChosenTenantStays` from `PickInv`: the choice is in the state
and in localStorage, which a reload needs, and in the last list, which the fallback needs. `TextIsOfLocale`
from `TextInv`: the effect of the current locale waits for every chunk of that locale being imported, and
such a chunk is not cached. `StoredChoiceWins` is about `detectInitialLocale`.

Lists: `FirmwareForward`: the tab implements `ServerView`; the initial state maps to an
initial state, and every step to a step or a stutter, because a request in flight answers with a state no
older than the one shown (`CacheInv`). `CreatedIsShown` needs that while a create settles, the request in
flight was sent after it (`CreateInv`), and `DialogSafe` (`ConfirmsTheOffered`) needs `DialogInv`. `ShownIsOurs`, `WritesComeBack` and
`NothingIsTrue` are about any query and any mutation that writes what it reads: an entry of the cache was
asked and answered for its own key (`EntryInv`), and what the page owes the operator is there or on its way
(`OwedInv`). What they need of the single hooks and pages is checked record by record.

**`ConsoleForms_proofs`.** For the records of `ConsoleEditors` the properties come down to how an editor
is seeded, closed and disabled; `EditorsCareful` checks that for every record. `SafeInv` of `Editors` then
carries it through openings, presses and late answers (`DraftsAreOurs`, `AcknowledgedAtMostOnce`,
`UntouchedIsKept`). `ProposalsAreTheForm` is a step property of `CatalogEditor`. `PayloadSafe` and
`LoadSafe` rest on `BodyInv`: the bodies captured by loads in flight are as consistent as the one on screen.

**`ConsoleRows_proofs`.** `NothingSkipped` from `PagesInv`: every page the code has collected, shown or
not, continues the one before, and an event that is missing lies beyond the last cursor. `HitsOfTheSearch`
from `SearchInv`: the hits list the lines from one position of one point in time on, and a request in
flight continues there. Both need what a page of a finite set contains (`Newest`, `Descending`), which is
proved through least elements and the library's theorems on finite sets.

**`Console_proofs`.** Puts the parts together. The part is chosen at the start and never changes, so a
behaviour of `Console` is one of the shell, the forms, the lists or the rows (`IsSomewhere`, and one lemma for each of the four), and each
property of a part holds of the whole console: these are the theorems `ConsoleGate` to `ConsoleConfirms`, one
for each property of the run `Console` that is not liveness. `ConsoleTypes` is type correctness of all ten
parts. It is a good deal more than that variables have their sort, since the types bound what is counted and
what can be shown. For the queries a state of the server that is shown or asked for was
reached (`BoundInv` of `ConsoleQueries`); the detected locale is one the program has (by taking the
least index of a language that is known); an event or line position lies within its list. For the editors a
stored value is at most the number of presses and foreign changes, which is not inductive: a press that is
still in flight has yet to count. `CountInv` therefore subtracts the presses pending (`Counted`), and the
proof is about the cardinality of that set before and after each step.

`LoadKeepsValues`, `ChoiceSurvives` and `RevertUndoes` are proved and not run, as are the `TypeOK` of
`FirmwareAction` and `ReportDelivery`.

Only model-checked: the liveness properties `EventuallyDecided` (of both pipelines), `EventuallyServed`,
`EventuallySettled`, `ShownToTheEnd` and `AlertsCatchUp`, because fairness and ENABLED are outside the
prover's reach.

## Not modelled, and why

* Backend parts marked "within reach" in the table are state machines of their own that no module covers
  yet. The hazards seen there: certificate rotation that fails between the firewall and the database, or
  runs twice (`services/log_forwarding.py:96`, `:123`, `:136`, `services/cert_renewal.py:50`); ingest
  cursors moved back and events with equal times (`services/ingest.py:131`, `:182`), counts added twice
  (`services/perimeter.py:68`); concurrent polls that open the same alert (`services/alerting.py:29`);
  silent-tenant mails lost after the commit (`worker.py:491`); lost updates of runtime settings
  (`services/runtime_settings.py:149`) and of secrets being re-keyed (`scripts/rekey_secrets.py:33`);
  caches filled twice or never replaced (`services/catalog_provider.py:177`, `services/geoip_provider.py:115`).
* The console's dictionaries, chart, map and tree drawing, theme and generated API schema are data or
  drawing. The WebAuthn client converts encodings. Single-field validation, the previews of templates and profiles, and
  the OAuth redirect of the SMTP page change no state that a property is about.
* The parts of the console are not composed with each other: a page that outlives a logout or a tenant
  switch is seen through the parameters of its queries (`Move`) and through `Session`'s cache only.
* Several tabs of one browser, which share localStorage and the session cookie, are not modelled.
