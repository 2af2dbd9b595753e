------------------------------- MODULE Editors -------------------------------
(***************************************************************************)
(* One dialog, form or button of the console (ConsoleEditors), used by one *)
(* operator while others change the same things on the server.  The        *)
(* subjects are the rows or tenants it may be about; a subject has fields, *)
(* each with the number of times it was changed.                           *)
(***************************************************************************)
EXTENDS ConsoleEditors, FiniteSets

CONSTANTS MaxOpens,   \* how often the dialog is opened, or the form turned elsewhere
          MaxSubmits, \* how often its button is pressed
          MaxChanges  \* how many changes others make

VARIABLES editor,   \* the editor on the page
          at,       \* the subject it is about, 0: the dialog is closed
          opened,   \* number of the present opening
          seen,     \* the subjects whose data has been loaded
          draft,    \* the fields as seeded, for which subject, and those the user touched
          srv,      \* the server's fields
          requests, \* the requests in flight
          presses, changes,
          accepted  \* per opening: the requests the server acknowledged

vars == <<editor, at, opened, seen, draft, srv, requests, presses, changes, accepted>>

Editors ==
    UNION {DeviceCreateModal, DeviceActions, LogForwardingCard, ProposeAliasModal, ChangeRowActions,
           RevertButton, ApplyTemplateTab, ApplyProfileSection, PluginsTab, TemplateFormModal,
           TemplateLibraryPage, ProfileFormModal, ProfilesPanel, ReportSettingsPage, ScheduleEditor,
           ReportsPage, RetentionCard, RuntimeSettingsSection, SmtpSettingsPage, SystemSettingsPage,
           GroupsPage, GroupCard, SessionsPage, MfaManage, PasskeysSection, TrustedDeviceToggleControl,
           MfaPolicyControl, MfaUsersTable, TrustedDevicesSection}

Fields == {1, 2}
Subjects == IF editor.subject = "one" THEN {1} ELSE {1, 2}

Dialog == editor.closes # "never"
Typed(e) == e.seed \notin {"none", "live"}
Unseeded == [of |-> 0, base |-> [f \in Fields |-> 0], touched |-> {}]
Seeded(s) == [of |-> s, base |-> srv[s], touched |-> {}]

Init == /\ editor \in Editors
        /\ at = (IF Dialog THEN 0 ELSE 1) /\ opened = (IF Dialog THEN 0 ELSE 1)
        /\ seen = (IF editor.seed \in {"once", "subject", "mounted"} THEN {} ELSE Subjects)
        /\ srv = [s \in Subjects |-> [f \in Fields |-> 0]]
        /\ draft = (IF seen = {} THEN Unseeded ELSE Seeded(1))
        /\ requests = {} /\ presses = 0 /\ changes = 0 /\ accepted = [o \in 1 .. MaxOpens |-> 0]

\* A request that still counts as the mutation's (isPending).
Pending == {r \in requests : r.stage = "sent"}

\* The user opens the dialog on a row.  A form that is seeded on opening starts
\* over; a blank one still holds what was typed before.
Open(s) ==
    /\ Dialog /\ at = 0 /\ opened < MaxOpens
    /\ editor.busy = "own" => \A r \in Pending : r.to # s
    /\ at' = s /\ opened' = opened + 1
    /\ draft' = IF editor.seed = "blank" THEN draft ELSE Seeded(s)
    /\ UNCHANGED <<editor, seen, srv, requests, presses, changes, accepted>>

\* Cancel stays enabled while the request is in flight.
Close == /\ Dialog /\ at # 0 /\ at' = 0
         /\ UNCHANGED <<editor, opened, seen, draft, srv, requests, presses, changes, accepted>>

\* The user turns to another row of the page, or switches to another tenant
\* while the page stays mounted.
Turn(s) ==
    /\ ~Dialog /\ s # at /\ opened < MaxOpens
    /\ at' = s /\ opened' = opened + 1
    /\ draft' = IF editor.subject = "row" \/ (editor.seed = "subject" /\ s \in seen) THEN Seeded(s)
                ELSE IF editor.seed = "mounted" /\ s \notin seen THEN Unseeded
                ELSE draft
    /\ UNCHANGED <<editor, seen, srv, requests, presses, changes, accepted>>

\* The data arrives: the seeding effect runs.
Load == /\ at \notin seen \cup {0}
        /\ seen' = seen \cup {at}
        /\ draft' = IF draft.of = 0 \/ (editor.seed = "subject" /\ draft.of # at) THEN Seeded(at) ELSE draft
        /\ UNCHANGED <<editor, at, opened, srv, requests, presses, changes, accepted>>

OnPage == at # 0 /\ (editor.waits => at \in seen)

Edit(f) == /\ OnPage /\ Typed(editor) /\ f \notin draft.touched
           /\ draft' = [draft EXCEPT !.touched = @ \cup {f}]
           /\ UNCHANGED <<editor, at, opened, seen, srv, requests, presses, changes, accepted>>

\* The button is enabled, and the handler does not return early.
Enabled == /\ OnPage /\ presses < MaxSubmits
           /\ editor.busy = "any" => Pending = {}
           /\ editor.busy = "own" => \A r \in Pending : r.to # at
           /\ editor.needs => draft.touched # {}

\* The handler sends the draft, or the field just changed, to the subject on
\* the page; a dialog that closes first is gone before the request is.
Submit(touched) ==
    /\ Enabled
    /\ IF editor.seed = "live" THEN Cardinality(touched) = 1 ELSE touched = draft.touched
    /\ requests' = requests \cup
         {[to |-> at, of |-> IF editor.seed \in {"none", "blank", "live"} THEN at ELSE draft.of,
           base |-> draft.base, touched |-> touched, opening |-> opened, stage |-> "sent", n |-> presses]}
    /\ presses' = presses + 1
    /\ at' = IF editor.closes = "first" THEN 0 ELSE at
    /\ UNCHANGED <<editor, opened, seen, draft, srv, changes, accepted>>

\* The fields of the server after the request: an edited field is new, an
\* unedited one that was sent goes back to its seed.
Stored(r, fields) ==
    [f \in Fields |-> IF f \in r.touched THEN fields[f] + 1
                      ELSE IF editor.sends = "all" /\ Typed(editor) THEN r.base[f]
                      ELSE fields[f]]

Closed(outcomes) == IF editor.closes \in outcomes THEN 0 ELSE at

\* The server accepted: the handler empties the form and closes the dialog,
\* whichever one is open by then, unless something else is awaited before.
Done(r) ==
    /\ r.stage = "sent"
    /\ srv' = [srv EXCEPT ![r.to] = Stored(r, @)]
    /\ accepted' = [accepted EXCEPT ![r.opening] = @ + 1]
    /\ draft' = IF editor.clears THEN [draft EXCEPT !.touched = {}] ELSE draft
    /\ requests' = (requests \ {r}) \cup (IF editor.rests THEN {[r EXCEPT !.stage = "rest"]} ELSE {})
    /\ at' = IF editor.rests THEN at ELSE Closed({"success", "settled"})
    /\ UNCHANGED <<editor, opened, seen, presses, changes>>

\* The second await of the handler ends.
Rested(r) == /\ r.stage = "rest"
             /\ requests' = requests \ {r} /\ at' = Closed({"success", "settled"})
             /\ UNCHANGED <<editor, opened, seen, draft, srv, presses, changes, accepted>>

\* The request is refused, or lost; its catch clause shows a notification.
Refused(r) == /\ r.stage = "sent"
              /\ requests' = requests \ {r} /\ at' = Closed({"settled"})
              /\ UNCHANGED <<editor, opened, seen, draft, srv, presses, changes, accepted>>

\* Another operator, or the worker, changes a field.
Others(s, f) == /\ changes < MaxChanges
                /\ srv' = [srv EXCEPT ![s][f] = @ + 1] /\ changes' = changes + 1
                /\ UNCHANGED <<editor, at, opened, seen, draft, requests, presses, accepted>>

Next == \/ \E s \in Subjects : Open(s) \/ Turn(s) \/ \E f \in Fields : Others(s, f)
        \/ Close \/ Load
        \/ \E f \in Fields : Edit(f)
        \/ \E touched \in SUBSET Fields : Submit(touched)
        \/ \E r \in requests : Done(r) \/ Rested(r) \/ Refused(r)

Spec == Init /\ [][Next]_vars

TypeOK == /\ editor \in Editors /\ at \in Subjects \cup {0} /\ seen \subseteq Subjects
          /\ opened \in 0 .. MaxOpens /\ presses \in 0 .. MaxSubmits /\ changes \in 0 .. MaxChanges
          /\ draft.touched \subseteq Fields /\ draft.of \in Subjects \cup {0}
          /\ Cardinality(requests) <= presses
          /\ \A s \in Subjects, f \in Fields : srv[s][f] \in 0 .. MaxSubmits + MaxChanges

(* What is sent to a row or a tenant was filled in for that row or tenant:   *)
(* dialogs are seeded by the row they open on, and the forms that stay on    *)
(* the page are seeded anew when the tenant changes underneath them.  The    *)
(* report settings, and the new schedule of a fleet, are not; and the SMTP   *)
(* form can be saved before the settings it edits have arrived.              *)
DraftIsOurs ==
    editor \notin {reportSettings, newFleetSchedule, smtpSettings} => \A r \in requests : r.of = r.to

(* A comment of RetentionCard says of the page it shares with the report     *)
(* settings that the seed must follow the tenant, not just run once.         *)
SeedFollowsTenant == editor = reportSettings => \A r \in requests : r.of = r.to

(* One opening of a dialog gets at most one request acknowledged, however    *)
(* often it is cancelled, opened again and pressed while requests are on     *)
(* their way.  The plugin dialog's button comes back before it closes.       *)
AcknowledgedOnce ==
    Dialog /\ editor # runPlugin => \A o \in DOMAIN accepted : accepted[o] <= 1

(* Saving the runtime settings or the SMTP secrets changes only the fields   *)
(* the operator edited, and what others stored meanwhile stays.              *)
SaveStep == editor.name \in {"runtimeSettings", "smtpSecrets"} =>
              \A r \in requests : Done(r) => \A f \in Fields \ r.touched : srv'[1][f] = srv[1][f]
UntouchedKept == [][SaveStep]_vars

(***************************************************************************)
(* The inductive invariant behind them.                                    *)
(***************************************************************************)
Drafts == [of : Subjects \cup {0}, base : [Fields -> Nat], touched : SUBSET Fields]
Requests == [to : Subjects, of : Subjects \cup {0}, base : [Fields -> Nat], touched : SUBSET Fields,
             opening : Nat, stage : {"sent", "rest"}, n : Nat]

KindInv == /\ editor \in Editors /\ opened \in 0 .. MaxOpens /\ presses \in Nat
           /\ at \in Subjects \cup {0} /\ (~Dialog => at # 0) /\ seen \subseteq Subjects
           /\ draft \in Drafts /\ srv \in [Subjects -> [Fields -> Nat]] /\ requests \subseteq Requests

\* A draft that is sent as a whole is one of a subject: of the one there is, of
\* the row the dialog is opened on, or of the tenant whose data was loaded.
SeededBySubject(e) ==
    /\ e.waits
    /\ \/ e.subject \in {"one", "row"} /\ e.seed \in {"open", "overlay"}
       \/ e.subject = "one" /\ e.seed = "once"
       \/ e.seed = "subject"

\* The draft on the page is that of the subject once its data is there, and
\* what is in flight was filled in for its subject.
SeedInv ==
    /\ editor.seed \notin {"once", "subject", "mounted"} => seen = Subjects
    /\ SeededBySubject(editor) /\ at \in seen => draft.of = at
    /\ SeededBySubject(editor) \/ editor.seed \in {"none", "blank", "live"} => \A r \in requests : r.of = r.to

\* A dialog that can be pressed once: its button is off while a request is in
\* flight and the answer closes it, or it is closed before the request is sent.
PressedOnce(e) == /\ ~e.rests
                  /\ \/ e.closes = "first"
                     \/ e.busy = "any" /\ e.closes \in {"success", "settled"}

\* Then an opening has one request at most, not yet acknowledged, and the open
\* dialog has none that was.
AckInv ==
    /\ accepted \in [1 .. MaxOpens -> Nat]
    /\ PressedOnce(editor) =>
         /\ \A r \in requests : r.stage = "sent" /\ r.opening \in 1 .. opened /\ accepted[r.opening] = 0
         /\ \A r, q \in requests : r.opening = q.opening => r = q
         /\ \A o \in 1 .. MaxOpens : accepted[o] <= 1 /\ (o > opened => accepted[o] = 0)
         /\ at # 0 => opened # 0 /\ accepted[opened] = 0
         /\ editor.closes = "first" /\ at # 0 => \A r \in requests : r.opening # opened

SafeInv == KindInv /\ SeedInv /\ AckInv

\* What a field can have counted: the changes of others, and the presses whose
\* request is no longer in flight.  Values that were seeded earlier count no more.
Counted == presses + changes - Cardinality(Pending)
Upto(v) == \A f \in Fields : v[f] <= Counted
CountInv ==
    /\ IsFiniteSet(requests) /\ Cardinality(requests) <= presses
    /\ \A r \in requests : r.n < presses
    /\ presses <= MaxSubmits /\ changes \in 0 .. MaxChanges
    /\ Upto(draft.base) /\ (\A s \in Subjects : Upto(srv[s])) /\ (\A r \in requests : Upto(r.base))

===============================================================================
