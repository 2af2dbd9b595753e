-------------------------- MODULE ConsoleForms_proofs --------------------------
(***************************************************************************)
(* The console's editors for every number of openings, presses, changes by *)
(* others and loads: what is sent was filled in for the thing it is sent   *)
(* to, an opening of a dialog is acknowledged once, a save touches only    *)
(* what was edited, a proposal is the form, and the values of a template's *)
(* body belong to its endpoint.                                            *)
(* The variables of a part are p1, p2, ... in the order in which its       *)
(* module lists them (ConsoleTab); the parts define the invariants.        *)
(***************************************************************************)
EXTENDS ConsoleForms, Sequences, FiniteSetTheorems, TLAPS

(***************************************************************************)
(* Editors: p1 editor, p2 at, p3 opened, p4 seen, p5 draft, p6 srv,        *)
(* p7 requests, p8 presses, p9 changes, p10 accepted                       *)
(***************************************************************************)

\* What the properties need of one editor.
Careful(e) ==
    /\ e \in {Ed!reportSettings, Ed!newFleetSchedule, Ed!smtpSettings} \/ e.seed \in {"none", "blank", "live"} \/ Ed!SeededBySubject(e)
    /\ e.closes = "never" \/ e = Ed!runPlugin \/ Ed!PressedOnce(e)
    /\ e.name \in {"runtimeSettings", "smtpSecrets"} => e.sends = "touched"

\* The shapes that most editors have.
LEMMA EditorShapes ==
    ASSUME NEW n, NEW b
    PROVE  /\ Ed!Button(n).name = n /\ Ed!Button(n).seed = "none" /\ Ed!Button(n).closes = "never"
           /\ Ed!BlankForm(n, b).name = n /\ Ed!BlankForm(n, b).seed = "blank" /\ Ed!BlankForm(n, b).closes = "never"
           /\ Ed!BlankModal(n).name = n /\ Ed!BlankModal(n).seed = "blank" /\ Ed!PressedOnce(Ed!BlankModal(n))
           /\ Ed!Live(n, b).name = n /\ Ed!Live(n, b).seed = "live" /\ Ed!Live(n, b).closes = "never"
<1>1. Ed!Button(n).name = n /\ Ed!Button(n).seed = "none" /\ Ed!Button(n).closes = "never"
  BY Zenon DEF Ed!Button, Ed!ConfirmModal
<1>2. Ed!BlankForm(n, b).name = n /\ Ed!BlankForm(n, b).seed = "blank" /\ Ed!BlankForm(n, b).closes = "never"
  BY Zenon DEF Ed!BlankForm, Ed!Form, Ed!ConfirmModal
<1>3. Ed!BlankModal(n).name = n /\ Ed!BlankModal(n).seed = "blank" /\ Ed!BlankModal(n).closes = "success"
  BY Zenon DEF Ed!BlankModal, Ed!BlankForm, Ed!Form, Ed!ConfirmModal
<1>4. Ed!BlankModal(n).rests = FALSE /\ Ed!BlankModal(n).busy = "any"
  BY Zenon DEF Ed!BlankModal, Ed!BlankForm, Ed!Form, Ed!ConfirmModal
<1>5. Ed!Live(n, b).name = n /\ Ed!Live(n, b).seed = "live" /\ Ed!Live(n, b).closes = "never"
  BY Zenon DEF Ed!Live, Ed!Form, Ed!ConfirmModal
<1> QED BY <1>1, <1>2, <1>3, <1>4, <1>5, Zenon DEF Ed!PressedOnce

\* Every editor of the console is careful in this sense.
LEMMA EditorsCareful == \A e \in Ed!Editors : Careful(e)
<1> USE DEF Careful, Ed!SeededBySubject, Ed!PressedOnce, Ed!ConfirmModal
<1>1. \A e \in Ed!DeviceCreateModal : Careful(e)
  BY EditorShapes DEF Ed!DeviceCreateModal, Ed!createDevice, Ed!Form
<1>2. \A e \in Ed!DeviceActions : Careful(e)
  BY EditorShapes DEF Ed!DeviceActions, Ed!testDevice, Ed!removeDevice
<1>3. \A e \in Ed!LogForwardingCard : Careful(e)
  BY Zenon DEF Ed!LogForwardingCard, Ed!forwarding
<1>4. \A e \in Ed!ProposeAliasModal : Careful(e)
  BY EditorShapes DEF Ed!ProposeAliasModal, Ed!proposeAlias, Ed!Form
<1>5. \A e \in Ed!ChangeRowActions : Careful(e)
  BY EditorShapes DEF Ed!ChangeRowActions, Ed!applyNow, Ed!scheduleChange, Ed!cancelChange, Ed!Form
<1>6. \A e \in Ed!RevertButton : Careful(e)
  BY EditorShapes DEF Ed!RevertButton, Ed!revertChange
<1>7. \A e \in Ed!ApplyTemplateTab : Careful(e)
  BY DEF Ed!ApplyTemplateTab, Ed!saveOverride, Ed!applyTemplate, Ed!Form
<1>8. \A e \in Ed!ApplyProfileSection : Careful(e)
  BY DEF Ed!ApplyProfileSection, Ed!applyProfile
<1>9. \A e \in Ed!PluginsTab : Careful(e)
  BY DEF Ed!PluginsTab, Ed!runPlugin
<1>10. \A e \in Ed!TemplateFormModal : Careful(e)
  BY Zenon DEF Ed!TemplateFormModal, Ed!template, Ed!Modal
<1>11. \A e \in Ed!TemplateLibraryPage : Careful(e)
  BY DEF Ed!TemplateLibraryPage, Ed!deleteTemplate
<1>12. \A e \in Ed!ProfileFormModal : Careful(e)
  BY Zenon DEF Ed!ProfileFormModal, Ed!profile, Ed!Modal
<1>13. \A e \in Ed!ProfilesPanel : Careful(e)
  BY DEF Ed!ProfilesPanel, Ed!deleteProfile
<1>14. \A e \in Ed!ReportSettingsPage : Careful(e)
  <2>1. Careful(Ed!uploadLogo)
    <3>1. Ed!uploadLogo.name = "uploadLogo" /\ Ed!uploadLogo.seed = "blank" /\ Ed!uploadLogo.closes = "never"
      BY Zenon DEF Ed!uploadLogo, Ed!BlankForm, Ed!Form
    <3> QED BY <3>1, Zenon
  <2>2. Careful(Ed!reportSettings) /\ Careful(Ed!deleteLogo)
    BY EditorShapes DEF Ed!reportSettings, Ed!deleteLogo, Ed!Form
  <2> QED BY <2>1, <2>2, Zenon DEF Ed!ReportSettingsPage
<1>15. \A e \in Ed!ScheduleEditor : Careful(e)
  BY EditorShapes DEF Ed!ScheduleEditor, Ed!schedule, Ed!newFleetSchedule, Ed!sendScheduleNow, Ed!Form
<1>16. \A e \in Ed!ReportsPage : Careful(e)
  BY Zenon DEF Ed!ReportsPage, Ed!generateReport, Ed!downloadReport, Ed!Form
<1>17. \A e \in Ed!RetentionCard : Careful(e)
  BY DEF Ed!RetentionCard, Ed!retention, Ed!Form
<1>18. \A e \in Ed!RuntimeSettingsSection : Careful(e)
  BY Zenon DEF Ed!RuntimeSettingsSection, Ed!runtimeSettings, Ed!Form
<1>19. \A e \in Ed!SmtpSettingsPage : Careful(e)
  <2>1. Careful(Ed!smtpSettings)
    BY Zenon DEF Ed!smtpSettings, Ed!Form
  <2>2. Careful(Ed!smtpSecrets)
    BY Zenon DEF Ed!smtpSecrets, Ed!Form
  <2>3. Careful(Ed!testSmtp)
    BY Zenon DEF Ed!testSmtp, Ed!Form
  <2> QED BY <2>1, <2>2, <2>3, Zenon DEF Ed!SmtpSettingsPage
<1>20. \A e \in Ed!SystemSettingsPage : Careful(e)
  BY EditorShapes DEF Ed!SystemSettingsPage, Ed!livePush, Ed!Form
<1>21. \A e \in Ed!GroupsPage : Careful(e)
  <2>1. Careful(Ed!createGroup)
    <3>1. Ed!createGroup.name = "createGroup" /\ Ed!createGroup.seed = "blank" /\ Ed!createGroup.closes = "never"
      BY Zenon DEF Ed!createGroup, Ed!BlankForm, Ed!Form
    <3> QED BY <3>1, Zenon
  <2>2. Careful(Ed!deleteGroup)
    BY EditorShapes, Zenon DEF Ed!deleteGroup, Ed!Form
  <2> QED BY <2>1, <2>2, Zenon DEF Ed!GroupsPage
<1>22. \A e \in Ed!GroupCard : Careful(e)
  <2>1. Careful(Ed!addGrant)
    <3>1. Ed!addGrant.name = "addGrant" /\ Ed!addGrant.seed = "blank" /\ Ed!addGrant.closes = "never"
      BY Zenon DEF Ed!addGrant, Ed!BlankForm, Ed!Form
    <3> QED BY <3>1, Zenon
  <2>2. Careful(Ed!groupDetails) /\ Careful(Ed!groupMembers) /\ Careful(Ed!removeGrant)
    BY EditorShapes DEF Ed!groupDetails, Ed!groupMembers, Ed!removeGrant, Ed!Form
  <2> QED BY <2>1, <2>2, Zenon DEF Ed!GroupCard
<1>23. \A e \in Ed!SessionsPage : Careful(e)
  BY EditorShapes DEF Ed!SessionsPage, Ed!logoutAll
<1>24. \A e \in Ed!MfaManage : Careful(e)
  <2>1. Careful(Ed!regenerateCodes)
    <3>1. Ed!regenerateCodes.name = "regenerateCodes" /\ Ed!regenerateCodes.seed = "blank" /\ Ed!regenerateCodes.closes = "never"
      BY Zenon DEF Ed!regenerateCodes, Ed!BlankForm, Ed!Form
    <3> QED BY <3>1, Zenon
  <2>2. Careful(Ed!disableMfa)
    BY EditorShapes, Zenon DEF Ed!disableMfa, Ed!Form
  <2> QED BY <2>1, <2>2, Zenon DEF Ed!MfaManage
<1>25. \A e \in Ed!PasskeysSection : Careful(e)
  <2>1. Careful(Ed!addPasskey)
    <3>1. Ed!addPasskey.name = "addPasskey" /\ Ed!addPasskey.seed = "blank" /\ Ed!addPasskey.closes = "never"
      BY Zenon DEF Ed!addPasskey, Ed!BlankForm, Ed!Form
    <3> QED BY <3>1, Zenon
  <2>2. Careful(Ed!removePasskey)
    BY EditorShapes, Zenon DEF Ed!removePasskey, Ed!Form
  <2> QED BY <2>1, <2>2, Zenon DEF Ed!PasskeysSection
<1>26. \A e \in Ed!TrustedDeviceToggleControl : Careful(e)
  BY EditorShapes DEF Ed!TrustedDeviceToggleControl, Ed!trustedDeviceToggle, Ed!Form
<1>27. \A e \in Ed!MfaPolicyControl : Careful(e)
  BY EditorShapes DEF Ed!MfaPolicyControl, Ed!mfaPolicy, Ed!Form
<1>28. \A e \in Ed!MfaUsersTable : Careful(e)
  BY DEF Ed!MfaUsersTable, Ed!resetUserMfa
<1>29. \A e \in Ed!TrustedDevicesSection : Careful(e)
  BY DEF Ed!TrustedDevicesSection, Ed!revokeDevice, Ed!revokeAllDevices
<1> QED BY <1>1, <1>2, <1>3, <1>4, <1>5, <1>6, <1>7, <1>8, <1>9, <1>10, <1>11, <1>12, <1>13, <1>14, <1>15, <1>16, <1>17, <1>18, <1>19, <1>20, <1>21, <1>22, <1>23, <1>24, <1>25, <1>26, <1>27, <1>28, <1>29 DEF Ed!Editors

\* The subjects of an editor are one or two things, and do not change.
LEMMA SubjectsKnown ==
    /\ 1 \in Ed!Subjects /\ 0 \notin Ed!Subjects
    /\ p1.subject = "one" => Ed!Subjects = {1}
BY DEF Ed!Subjects

\* The editor on the page stays the one it is.
LEMMA EditorStays ==
    ASSUME [Ed!Next]_(Ed!vars)
    PROVE  p1' = p1 /\ Ed!Subjects' = Ed!Subjects /\ Ed!Drafts' = Ed!Drafts /\ Ed!Requests' = Ed!Requests
           /\ Ed!Dialog' = Ed!Dialog
<1>1. p1' = p1
  BY Zenon DEF Ed!Next, Ed!vars, Ed!Open, Ed!Turn, Ed!Others, Ed!Close, Ed!Load, Ed!Edit, Ed!Submit, Ed!Done, Ed!Rested, Ed!Refused
<1> QED BY <1>1, Zenon DEF Ed!Subjects, Ed!Drafts, Ed!Requests, Ed!Dialog

\* What the handlers make of a draft is a draft.
LEMMA DraftTypes ==
    ASSUME p6 \in [Ed!Subjects -> [Ed!Fields -> Nat]], p5 \in Ed!Drafts
    PROVE  /\ Ed!Unseeded \in Ed!Drafts
           /\ \A s \in Ed!Subjects : Ed!Seeded(s) \in Ed!Drafts /\ Ed!Seeded(s).of = s
           /\ \A t \in SUBSET Ed!Fields : [p5 EXCEPT !.touched = t] \in Ed!Drafts /\ [p5 EXCEPT !.touched = t].of = p5.of
<1>1. Ed!Unseeded \in Ed!Drafts
  BY Zenon DEF Ed!Unseeded, Ed!Drafts
<1>2. \A s \in Ed!Subjects : Ed!Seeded(s) \in Ed!Drafts /\ Ed!Seeded(s).of = s
  BY Zenon DEF Ed!Seeded, Ed!Drafts
<1>3. \A t \in SUBSET Ed!Fields : [p5 EXCEPT !.touched = t] \in Ed!Drafts /\ [p5 EXCEPT !.touched = t].of = p5.of
  BY Zenon DEF Ed!Drafts
<1> QED BY <1>1, <1>2, <1>3, Zenon

\* What the server stores for a request is a value of every field.
LEMMA StoredType ==
    ASSUME NEW r \in Ed!Requests, NEW v \in [Ed!Fields -> Nat]
    PROVE  Ed!Stored(r, v) \in [Ed!Fields -> Nat]
<1>1. r.base \in [Ed!Fields -> Nat]
  BY Zenon DEF Ed!Requests
<1> QED BY <1>1 DEF Ed!Stored

\* The request that Submit sends.
Sent(touched) ==
    [to |-> p2, of |-> IF p1.seed \in {"none", "blank", "live"} THEN p2 ELSE p5.of,
     base |-> p5.base, touched |-> touched, opening |-> p3, stage |-> "sent", n |-> p8]

\* It is a request about the subject on the page.
LEMMA SentType ==
    ASSUME Ed!KindInv, Ed!OnPage, NEW t \in SUBSET Ed!Fields
    PROVE  /\ Sent(t) \in Ed!Requests /\ Sent(t).to = p2 /\ Sent(t).opening = p3 /\ Sent(t).stage = "sent"
           /\ Sent(t).of = IF p1.seed \in {"none", "blank", "live"} THEN p2 ELSE p5.of
<1>1. p5.of \in Ed!Subjects \cup {0} /\ p5.base \in [Ed!Fields -> Nat] /\ p2 \in Ed!Subjects /\ p3 \in Nat /\ p8 \in Nat
  BY DEF Ed!KindInv, Ed!Drafts, Ed!OnPage
<1> QED BY <1>1, Zenon DEF Sent, Ed!Requests

\* Every handler keeps the shape of what the page holds.
LEMMA KindNext == Ed!KindInv /\ [Ed!Next]_(Ed!vars) => Ed!KindInv'
<1> SUFFICES ASSUME Ed!KindInv, [Ed!Next]_(Ed!vars) PROVE Ed!KindInv'
  BY Zenon
<1>0. /\ p1' = p1 /\ Ed!Subjects' = Ed!Subjects /\ Ed!Drafts' = Ed!Drafts /\ Ed!Requests' = Ed!Requests /\ Ed!Dialog' = Ed!Dialog
      /\ p1 \in Ed!Editors /\ p3 \in 0 .. MaxOpens /\ p8 \in Nat
      /\ p2 \in Ed!Subjects \cup {0} /\ (~Ed!Dialog => p2 # 0) /\ p4 \subseteq Ed!Subjects
      /\ p5 \in Ed!Drafts /\ p6 \in [Ed!Subjects -> [Ed!Fields -> Nat]] /\ p7 \subseteq Ed!Requests
  BY EditorStays, Zenon DEF Ed!KindInv
<1>1. ASSUME p3' \in 0 .. MaxOpens, p8' \in Nat,
             p2' \in Ed!Subjects \cup {0}, ~Ed!Dialog => p2' # 0, p4' \subseteq Ed!Subjects, p5' \in Ed!Drafts,
             p6' \in [Ed!Subjects -> [Ed!Fields -> Nat]], p7' \subseteq Ed!Requests
      PROVE  Ed!KindInv'
  BY <1>0, <1>1, Zenon DEF Ed!KindInv
<1>2. ASSUME NEW s \in Ed!Subjects, Ed!Open(s) PROVE Ed!KindInv'
  BY <1>0, <1>1, <1>2, MaxOpensAssumption, DraftTypes, SubjectsKnown DEF Ed!Open
<1>3. ASSUME NEW s \in Ed!Subjects, Ed!Turn(s) PROVE Ed!KindInv'
  BY <1>0, <1>1, <1>3, MaxOpensAssumption, DraftTypes, SubjectsKnown DEF Ed!Turn
<1>4. ASSUME NEW s \in Ed!Subjects, NEW f \in Ed!Fields, Ed!Others(s, f) PROVE Ed!KindInv'
  <2>1. p6' \in [Ed!Subjects -> [Ed!Fields -> Nat]]
    BY <1>0, <1>4 DEF Ed!Others
  <2> QED BY <1>0, <1>1, <1>4, <2>1, Zenon DEF Ed!Others
<1>5. CASE Ed!Close
  BY <1>0, <1>1, <1>5, Zenon DEF Ed!Close
<1>6. CASE Ed!Load
  BY <1>0, <1>1, <1>6, DraftTypes, Zenon DEF Ed!Load
<1>7. ASSUME NEW f \in Ed!Fields, Ed!Edit(f) PROVE Ed!KindInv'
  <2>1. p5.touched \cup {f} \in SUBSET Ed!Fields
    BY <1>0, Zenon DEF Ed!Drafts
  <2> QED BY <1>0, <1>1, <1>7, <2>1, DraftTypes, Zenon DEF Ed!Edit
<1>8. ASSUME NEW t \in SUBSET Ed!Fields, Ed!Submit(t) PROVE Ed!KindInv'
  <2>1. Sent(t) \in Ed!Requests
    BY <1>8, SentType, Zenon DEF Ed!Submit, Ed!Enabled
  <2>2. p7' = p7 \cup {Sent(t)}
    BY <1>8, Zenon DEF Ed!Submit, Sent
  <2>3. ~Ed!Dialog => p1.closes # "first"
    BY Zenon DEF Ed!Dialog
  <2> QED BY <1>0, <1>1, <1>8, <2>1, <2>2, <2>3 DEF Ed!Submit
<1>9. ASSUME NEW r \in p7, Ed!Done(r) \/ Ed!Rested(r) \/ Ed!Refused(r) PROVE Ed!KindInv'
  <2>0. r \in Ed!Requests
    BY <1>0, Zenon
  <2>1. p6' \in [Ed!Subjects -> [Ed!Fields -> Nat]]
    <3>1. CASE Ed!Done(r)
      <4>1. r.to \in Ed!Subjects
        BY <2>0, Zenon DEF Ed!Requests
      <4>2. Ed!Stored(r, p6[r.to]) \in [Ed!Fields -> Nat]
        BY <1>0, <2>0, <4>1, StoredType, Zenon
      <4> QED BY <1>0, <3>1, <4>1, <4>2, Zenon DEF Ed!Done
    <3>2. CASE Ed!Rested(r) \/ Ed!Refused(r)
      BY <1>0, <3>2, Zenon DEF Ed!Rested, Ed!Refused
    <3> QED BY <1>9, <3>1, <3>2, Zenon
  <2>2. [r EXCEPT !.stage = "rest"] \in Ed!Requests
    BY <2>0, Zenon DEF Ed!Requests
  <2>3. p7' \subseteq Ed!Requests
    BY <1>0, <1>9, <2>2, Zenon DEF Ed!Done, Ed!Rested, Ed!Refused
  <2>4. p5' \in Ed!Drafts
    BY <1>0, <1>9, DraftTypes, Zenon DEF Ed!Done, Ed!Rested, Ed!Refused
  <2>5. p2' \in Ed!Subjects \cup {0} /\ (~Ed!Dialog => p2' # 0)
    BY <1>0, <1>9, Zenon DEF Ed!Done, Ed!Rested, Ed!Refused, Ed!Closed, Ed!Dialog
  <2> QED BY <1>0, <1>1, <1>9, <2>1, <2>3, <2>4, <2>5, Zenon DEF Ed!Done, Ed!Rested, Ed!Refused
<1>10. CASE UNCHANGED Ed!vars
  BY <1>0, <1>1, <1>10, Zenon DEF Ed!vars
<1> QED BY <1>2, <1>3, <1>4, <1>5, <1>6, <1>7, <1>8, <1>9, <1>10, Zenon DEF Ed!Next

\* The drafts stay those of their subjects.
LEMMA SeedNext == Ed!SafeInv /\ [Ed!Next]_(Ed!vars) => Ed!SeedInv'
<1> SUFFICES ASSUME Ed!KindInv, Ed!SeedInv, [Ed!Next]_(Ed!vars) PROVE Ed!SeedInv'
  BY Zenon DEF Ed!SafeInv
<1>0. /\ p1' = p1 /\ Ed!Subjects' = Ed!Subjects
      /\ p2 \in Ed!Subjects \cup {0} /\ (~Ed!Dialog => p2 # 0) /\ 0 \notin p4
      /\ p5 \in Ed!Drafts /\ p6 \in [Ed!Subjects -> [Ed!Fields -> Nat]] /\ p7 \subseteq Ed!Requests
      /\ p5.of \in Ed!Subjects \cup {0}
  BY EditorStays, SubjectsKnown, Zenon DEF Ed!KindInv, Ed!Drafts
<1> DEFINE trivial == p1.seed \in {"none", "blank", "live"}
<1>1. ASSUME p1.seed \notin {"once", "subject", "mounted"} => p4' = p4,
             Ed!SeededBySubject(p1) /\ p2' \in p4' => p5'.of = p2',
             Ed!SeededBySubject(p1) \/ trivial => \A r \in p7' : r.of = r.to
      PROVE  Ed!SeedInv'
  BY <1>0, <1>1, Zenon DEF Ed!SeedInv, Ed!SeededBySubject
<1>2. Ed!SeededBySubject(p1) \/ trivial => \A r \in p7 : r.of = r.to
  BY Zenon DEF Ed!SeedInv
<1>3. ASSUME NEW s \in Ed!Subjects, Ed!Open(s) PROVE Ed!SeedInv'
  <2>1. Ed!SeededBySubject(p1) => p5'.of = p2'
    BY <1>0, <1>3, DraftTypes, Zenon DEF Ed!Open, Ed!SeededBySubject
  <2> QED BY <1>1, <1>2, <1>3, <2>1, Zenon DEF Ed!Open
<1>4. ASSUME NEW s \in Ed!Subjects, Ed!Turn(s) PROVE Ed!SeedInv'
  <2>1. Ed!SeededBySubject(p1) /\ s \in p4 => p5'.of = s
    <3>1. p1.subject # "one"
      BY <1>0, <1>4, SubjectsKnown, Zenon DEF Ed!Turn
    <3> QED BY <1>0, <1>4, <3>1, DraftTypes, Zenon DEF Ed!Turn, Ed!SeededBySubject
  <2> QED BY <1>1, <1>2, <1>4, <2>1, Zenon DEF Ed!Turn
<1>5. CASE Ed!Load
  <2>1. Ed!SeededBySubject(p1) => p5'.of = p2'
    <3>0. p2 \in Ed!Subjects /\ p2 \notin p4 /\ p2' = p2
      BY <1>0, <1>5, Zenon DEF Ed!Load
    <3>1. CASE p1.seed = "subject"
      BY <1>0, <1>5, <3>0, <3>1, DraftTypes, Zenon DEF Ed!Load
    <3>2. CASE p1.seed = "once" /\ p1.subject = "one"
      BY <1>0, <1>5, <3>0, <3>2, DraftTypes, SubjectsKnown, Zenon DEF Ed!Load
    <3>3. CASE p1.seed \in {"open", "overlay"}
      BY <3>0, <3>3, Zenon DEF Ed!SeedInv
    <3> QED BY <3>1, <3>2, <3>3, Zenon DEF Ed!SeededBySubject
  <2>2. p1.seed \notin {"once", "subject", "mounted"} => p4' = p4
    BY <1>0, <1>5, Zenon DEF Ed!Load, Ed!SeedInv
  <2> QED BY <1>1, <1>2, <1>5, <2>1, <2>2, Zenon DEF Ed!Load
<1>6. ASSUME NEW f \in Ed!Fields, Ed!Edit(f) PROVE Ed!SeedInv'
  <2>1. p5'.of = p5.of
    BY <1>6, <1>0, Zenon DEF Ed!Edit, Ed!Drafts
  <2> QED BY <1>1, <1>2, <1>6, <2>1, Zenon DEF Ed!Edit, Ed!SeedInv
<1>7. ASSUME NEW t \in SUBSET Ed!Fields, Ed!Submit(t) PROVE Ed!SeedInv'
  <2>1. p7' = p7 \cup {Sent(t)} /\ Ed!OnPage
    BY <1>7, Zenon DEF Ed!Submit, Sent, Ed!Enabled
  <2>2. Ed!SeededBySubject(p1) \/ trivial => Sent(t).of = Sent(t).to
    <3>1. Ed!SeededBySubject(p1) => p5.of = p2
      BY <2>1, Zenon DEF Ed!SeededBySubject, Ed!OnPage, Ed!SeedInv
    <3> QED BY <2>1, <3>1, SentType, Zenon
  <2>3. p2' \in {0, p2} /\ UNCHANGED <<p5, p4>>
    BY <1>7, Zenon DEF Ed!Submit
  <2> QED BY <1>0, <1>1, <1>2, <2>1, <2>2, <2>3, Zenon DEF Ed!SeedInv
<1>8. ASSUME NEW r \in p7, Ed!Done(r) \/ Ed!Rested(r) \/ Ed!Refused(r) PROVE Ed!SeedInv'
  <2>1. [r EXCEPT !.stage = "rest"].of = r.of /\ [r EXCEPT !.stage = "rest"].to = r.to
    BY <1>0, Zenon DEF Ed!Requests
  <2>2. \A q \in p7' : q \in p7 \/ q = [r EXCEPT !.stage = "rest"]
    BY <1>8, Zenon DEF Ed!Done, Ed!Rested, Ed!Refused
  <2>3. p5'.of = p5.of /\ p4' = p4
    <3>1. [p5 EXCEPT !.touched = {}].of = p5.of
      BY <1>0, Zenon DEF Ed!Drafts
    <3> QED BY <1>8, <3>1, Zenon DEF Ed!Done, Ed!Rested, Ed!Refused
  <2>4. p2' \in {0, p2}
    BY <1>8, Zenon DEF Ed!Done, Ed!Rested, Ed!Refused, Ed!Closed
  <2> QED BY <1>0, <1>1, <1>2, <2>1, <2>2, <2>3, <2>4, Zenon DEF Ed!SeedInv
<1>9. CASE Ed!Close
  BY <1>0, <1>1, <1>2, <1>9, Zenon DEF Ed!Close, Ed!SeedInv
<1>10. CASE UNCHANGED Ed!vars \/ \E s \in Ed!Subjects, f \in Ed!Fields : Ed!Others(s, f)
  BY <1>1, <1>2, <1>10, Zenon DEF Ed!vars, Ed!Others, Ed!SeedInv
<1> QED BY <1>3, <1>4, <1>5, <1>6, <1>7, <1>8, <1>9, <1>10, Zenon DEF Ed!Next

\* An opening keeps to one acknowledged request.
LEMMA AckNext == Ed!SafeInv /\ [Ed!Next]_(Ed!vars) => Ed!AckInv'
<1> SUFFICES ASSUME Ed!KindInv, Ed!AckInv, [Ed!Next]_(Ed!vars) PROVE Ed!AckInv'
  BY Zenon DEF Ed!SafeInv
<1> USE MaxOpensAssumption
<1>0. /\ p1' = p1 /\ p3 \in 0 .. MaxOpens /\ p10 \in [1 .. MaxOpens -> Nat]
      /\ p7 \subseteq Ed!Requests /\ Ed!PressedOnce(p1') = Ed!PressedOnce(p1)
  BY EditorStays, Zenon DEF Ed!KindInv, Ed!AckInv
<1>1. ASSUME NEW r \in p7, Ed!PressedOnce(p1)
      PROVE  r.stage = "sent" /\ r.opening \in 1 .. p3 /\ p10[r.opening] = 0
  BY <1>1, Zenon DEF Ed!AckInv
<1>2. ASSUME UNCHANGED <<p7, p10>>, p3' = p3, p2' \in {0, p2}
      PROVE  Ed!AckInv'
  BY <1>0, <1>2, Zenon DEF Ed!AckInv
<1>3. ASSUME NEW s, p3' = p3 + 1, p3 < MaxOpens, UNCHANGED <<p7, p10>>
      PROVE  Ed!AckInv'
  <2>1. \A r \in p7 : Ed!PressedOnce(p1) => r.opening # p3 + 1
    BY <1>0, <1>1
  <2> QED BY <1>0, <1>3, <2>1 DEF Ed!AckInv
<1>4. ASSUME NEW s \in Ed!Subjects, Ed!Open(s) \/ Ed!Turn(s) PROVE Ed!AckInv'
  BY <1>3, <1>4, Zenon DEF Ed!Open, Ed!Turn
<1>5. ASSUME NEW t \in SUBSET Ed!Fields, Ed!Submit(t) PROVE Ed!AckInv'
  <2>1. /\ p7' = p7 \cup {Sent(t)} /\ Sent(t).opening = p3 /\ Sent(t).stage = "sent"
        /\ p2 # 0 /\ UNCHANGED <<p10, p3>>
        /\ p2' = IF p1.closes = "first" THEN 0 ELSE p2
    BY <1>5, SentType, Zenon DEF Ed!Submit, Sent, Ed!Enabled, Ed!OnPage
  <2>2. Ed!PressedOnce(p1) => \A r \in p7 : r.opening # p3
    <3>1. CASE p1.closes = "first"
      BY <2>1, <3>1, Zenon DEF Ed!AckInv
    <3>2. CASE p1.closes # "first"
      BY <1>1, <1>5, <3>2, Zenon DEF Ed!PressedOnce, Ed!Submit, Ed!Enabled, Ed!Pending
    <3> QED BY <3>1, <3>2, Zenon
  <2> HIDE DEF Sent
  <2> QED BY <1>0, <2>1, <2>2 DEF Ed!AckInv
<1>6. ASSUME NEW r \in p7, Ed!Done(r) PROVE Ed!AckInv'
  <2>1. p10' = [p10 EXCEPT ![r.opening] = @ + 1] /\ p10' \in [1 .. MaxOpens -> Nat] /\ p3' = p3
    <3>1. p10' = [p10 EXCEPT ![r.opening] = @ + 1] /\ p3' = p3
      BY <1>6, Zenon DEF Ed!Done
    <3>2. r.opening \in 1 .. MaxOpens => p10[r.opening] + 1 \in Nat
      BY <1>0
    <3> QED BY <1>0, <3>1, <3>2, Zenon
  <2>2. ASSUME Ed!PressedOnce(p1)
        PROVE  /\ p7' = p7 \ {r}
               /\ p2' # 0 => p1.closes = "first" /\ p2 # 0
    BY <1>6, <2>2, Zenon DEF Ed!Done, Ed!PressedOnce, Ed!Closed
  <2>3. ASSUME Ed!PressedOnce(p1)
        PROVE  /\ r.opening \in 1 .. MaxOpens /\ r.opening \in 1 .. p3
               /\ p10'[r.opening] = 1 /\ \A o \in 1 .. MaxOpens : o # r.opening => p10'[o] = p10[o]
    BY <1>0, <1>1, <2>1, <2>3
  <2>4. ASSUME Ed!PressedOnce(p1), NEW q \in p7'
        PROVE  q.stage = "sent" /\ q.opening \in 1 .. p3 /\ p10'[q.opening] = 0
    BY <1>0, <1>1, <2>2, <2>3, <2>4 DEF Ed!AckInv
  <2>5. ASSUME Ed!PressedOnce(p1), NEW o \in 1 .. MaxOpens
        PROVE  p10'[o] <= 1 /\ (o > p3 => p10'[o] = 0)
    BY <1>0, <2>3, <2>5 DEF Ed!AckInv
  <2>6. ASSUME Ed!PressedOnce(p1), p2' # 0
        PROVE  p3 # 0 /\ p10'[p3] = 0 /\ \A q \in p7' : q.opening # p3
    BY <1>0, <2>2, <2>3, <2>6 DEF Ed!AckInv
  <2>7. Ed!PressedOnce(p1) => \A p, q \in p7' : p.opening = q.opening => p = q
    BY <2>2, Zenon DEF Ed!AckInv
  <2> QED BY <1>0, <2>1, <2>4, <2>5, <2>6, <2>7, Zenon DEF Ed!AckInv
<1>7. ASSUME NEW r \in p7, Ed!Rested(r) \/ Ed!Refused(r) PROVE Ed!AckInv'
  <2>1. p7' \subseteq p7 /\ UNCHANGED <<p10, p3>> /\ p2' \in {0, p2}
    BY <1>7, Zenon DEF Ed!Rested, Ed!Refused, Ed!Closed
  <2> QED BY <1>0, <2>1, Zenon DEF Ed!AckInv
<1>8. CASE Ed!Close \/ Ed!Load \/ (\E f \in Ed!Fields : Ed!Edit(f)) \/ UNCHANGED Ed!vars \/ \E s \in Ed!Subjects, f \in Ed!Fields : Ed!Others(s, f)
  BY <1>2, <1>8, Zenon DEF Ed!Close, Ed!Load, Ed!Edit, Ed!Others, Ed!vars
<1> QED BY <1>4, <1>5, <1>6, <1>7, <1>8, Zenon DEF Ed!Next

\* A page that has just been mounted satisfies all of it.
LEMMA EditorsInit == Ed!Init => Ed!SafeInv
<1> SUFFICES ASSUME Ed!Init PROVE Ed!SafeInv
  BY Zenon
<1> USE MaxOpensAssumption
<1>1. p6 \in [Ed!Subjects -> [Ed!Fields -> Nat]] /\ p5 \in Ed!Drafts
  <2>1. p6 \in [Ed!Subjects -> [Ed!Fields -> Nat]]
    BY Zenon DEF Ed!Init
  <2>2. Ed!Unseeded \in Ed!Drafts /\ Ed!Seeded(1) \in Ed!Drafts
    BY <2>1, SubjectsKnown, Zenon DEF Ed!Unseeded, Ed!Seeded, Ed!Drafts
  <2> QED BY <2>1, <2>2, Zenon DEF Ed!Init
<1>2. Ed!KindInv
  BY <1>1, SubjectsKnown DEF Ed!Init, Ed!KindInv, Ed!Dialog
<1>3. Ed!SeedInv
  BY SubjectsKnown, Zenon DEF Ed!Init, Ed!SeedInv, Ed!SeededBySubject, Ed!Seeded, Ed!Dialog
<1>4. Ed!AckInv
  BY DEF Ed!Init, Ed!AckInv, Ed!PressedOnce, Ed!Dialog
<1> QED BY <1>2, <1>3, <1>4, Zenon DEF Ed!SafeInv

\* Every step of an editor keeps its invariant.
LEMMA EditorsNext == Ed!SafeInv /\ [Ed!Next]_(Ed!vars) => Ed!SafeInv'
BY KindNext, SeedNext, AckNext, Zenon DEF Ed!SafeInv

\* The invariant gives the two safety properties.
LEMMA EditorsSafe == Ed!SafeInv => Ed!DraftIsOurs /\ Ed!AcknowledgedOnce
<1> SUFFICES ASSUME Ed!SafeInv PROVE Ed!DraftIsOurs /\ Ed!AcknowledgedOnce
  BY Zenon
<1>1. Careful(p1)
  BY EditorsCareful, Zenon DEF Ed!SafeInv, Ed!KindInv
<1>2. Ed!DraftIsOurs
  BY <1>1, Zenon DEF Careful, Ed!SafeInv, Ed!SeedInv, Ed!DraftIsOurs
<1>3. Ed!AcknowledgedOnce
  BY <1>1, Zenon DEF Careful, Ed!SafeInv, Ed!AckInv, Ed!AcknowledgedOnce, Ed!Dialog
<1> QED BY <1>2, <1>3, Zenon

\* A save of edited fields touches no other.
LEMMA SaveKeeps == Ed!SafeInv => Ed!SaveStep
<1> SUFFICES ASSUME Ed!SafeInv, p1.name \in {"runtimeSettings", "smtpSecrets"}, NEW r \in p7, Ed!Done(r),
                    NEW f \in Ed!Fields \ r.touched
             PROVE  p6'[1][f] = p6[1][f]
  BY Zenon DEF Ed!SaveStep
<1>1. Careful(p1) /\ p6 \in [Ed!Subjects -> [Ed!Fields -> Nat]] /\ 1 \in Ed!Subjects
  BY EditorsCareful, SubjectsKnown, Zenon DEF Ed!SafeInv, Ed!KindInv
<1>2. p1.sends = "touched"
  BY <1>1, Zenon DEF Careful
<1>3. Ed!Stored(r, p6[r.to])[f] = p6[r.to][f]
  BY <1>2, Zenon DEF Ed!Stored
<1> QED BY <1>1, <1>3, Zenon DEF Ed!Done

(***************************************************************************)
(* CatalogEditor: p4 live, p7 work, p11 flights                            *)
(***************************************************************************)

\* A proposal is built from what the device last said and what the form shows.
LEMMA ProposalsMatch == Ca!Next => Ca!ProposalStep
<1> SUFFICES ASSUME Ca!Next, NEW r \in p11' \ p11, NEW f \in Ca!Fields
             PROVE  f \in r.body.scalars \/ p4.values[f] = p7[f]
  BY Zenon DEF Ca!ProposalStep
<1>1. CASE Ca!Propose
  BY <1>1 DEF Ca!Propose, Ca!build, Ca!Differing
<1>2. CASE p11' \subseteq p11
  BY <1>2, Zenon
<1>3. CASE \/ Ca!Select \/ Ca!Refetch \/ Ca!Leave \/ Ca!OpenRow \/ Ca!CloseRow \/ Ca!Push \/ Ca!Others
           \/ \E g \in Ca!Fields : Ca!Type(g)
           \/ \E q \in p11 : Ca!Proposed(q) \/ Ca!Refused(q)
  BY <1>2, <1>3, Zenon DEF Ca!Select, Ca!Refetch, Ca!Leave, Ca!OpenRow, Ca!CloseRow, Ca!Push, Ca!Others, Ca!Type, Ca!Proposed, Ca!Refused
<1> QED BY <1>1, <1>3, Zenon DEF Ca!Next

(***************************************************************************)
(* FieldForms: p1 kind, p2 editing, p3 form, p4 loaded, p5 body, p6 typed, *)
(* p7 loads, p8 opens, p9 started                                          *)
(***************************************************************************)

\* A template's saved values are of its endpoint.
LEMMA SavedOwn ==
    ASSUME NEW t \in Fi!Templates
    PROVE  Fi!Saved(t) \in Fi!Bodies /\ Fi!Own(Fi!Saved(t))
<1>1. Fi!Key(t) \in 0..2
  BY DEF Fi!Key, Fi!Templates
<1>2. Fi!Saved(t) \in Fi!Bodies
  BY <1>1 DEF Fi!Saved, Fi!Bodies, Fi!Values, Fi!None
<1>3. Fi!Own(Fi!Saved(t))
  BY Zenon DEF Fi!Saved, Fi!Own
<1> QED BY <1>2, <1>3, Zenon

\* So is a body after the device's defaults were put under it,
LEMMA MergeOwn ==
    ASSUME NEW b \in Fi!Bodies, Fi!Own(b)
    PROVE  Fi!Merge(b) \in Fi!Bodies /\ Fi!Own(Fi!Merge(b))
<1> DEFINE P == [f \in Fi!Fields |-> IF b.payload[f] = Fi!None THEN [from |-> "device", key |-> b.key]
                                  ELSE b.payload[f]]
<1>1. P \in [Fi!Fields -> Fi!Values]
  BY Zenon DEF Fi!Bodies, Fi!Values
<1>2. \A f \in Fi!Fields : P[f] # Fi!None => P[f].key = b.key
  BY Zenon DEF Fi!Own
<1>3. Fi!Merge(b) = [key |-> b.key, payload |-> P]
  BY DEF Fi!Merge, Fi!Bodies
<1> HIDE DEF P
<1> QED BY <1>1, <1>2, <1>3 DEF Fi!Bodies, Fi!Own

\* and one after the operator set a field.
LEMMA SetFieldOwn ==
    ASSUME NEW b \in Fi!Bodies, Fi!Own(b), NEW g \in Fi!Fields, NEW c,
           c = [b EXCEPT !.payload[g] = [from |-> "typed", key |-> b.key]]
    PROVE  c \in Fi!Bodies /\ Fi!Own(c)
<1> DEFINE P == [b.payload EXCEPT ![g] = [from |-> "typed", key |-> b.key]]
<1>1. P \in [Fi!Fields -> Fi!Values]
  BY Zenon DEF Fi!Bodies, Fi!Values
<1>2. \A f \in Fi!Fields : P[f] # Fi!None => P[f].key = b.key
  BY Zenon DEF Fi!Own, Fi!Bodies
<1>3. c = [key |-> b.key, payload |-> P]
  BY Zenon DEF Fi!Bodies
<1> HIDE DEF P
<1> QED BY <1>1, <1>2, <1>3 DEF Fi!Bodies, Fi!Own

\* Every step of a field form keeps the invariant.
LEMMA FieldsNext == Fi!BodyInv /\ [Fi!Next]_(Fi!vars) => Fi!BodyInv'
<1> SUFFICES ASSUME Fi!BodyInv, [Fi!Next]_(Fi!vars) PROVE Fi!BodyInv'
  BY Zenon
<1> USE DEF Fi!BodyInv
<1>1. ASSUME NEW t \in Fi!Templates, Fi!Open(t) PROVE Fi!BodyInv'
  BY <1>1, SavedOwn, Zenon DEF Fi!Open
<1>2. CASE Fi!Close \/ Fi!SetKind \/ UNCHANGED Fi!vars
  BY <1>2, Zenon DEF Fi!Close, Fi!SetKind, Fi!vars
<1>3. ASSUME NEW f \in Fi!Fields, Fi!SetField(f) PROVE Fi!BodyInv'
  BY <1>3, SetFieldOwn, Zenon DEF Fi!SetField
<1>4. ASSUME NEW k \in Fi!Templates, Fi!SetEndpoint(k) PROVE Fi!BodyInv'
  <2>1. p5' \in Fi!Bodies /\ Fi!Own(p5')
    BY <1>4 DEF Fi!SetEndpoint, Fi!Bodies, Fi!Own, Fi!Values, Fi!None, Fi!Templates
  <2> QED BY <1>4, <2>1, Zenon DEF Fi!SetEndpoint
<1>5. CASE Fi!LoadFields
  BY <1>5 DEF Fi!LoadFields
<1>6. ASSUME NEW l \in p7, Fi!Loaded(l) PROVE Fi!BodyInv'
  BY <1>6, MergeOwn, Zenon DEF Fi!Loaded
<1>7. ASSUME NEW l \in p7, Fi!LoadFailed(l) PROVE Fi!BodyInv'
  BY <1>7, Zenon DEF Fi!LoadFailed
<1> QED BY <1>1, <1>2, <1>3, <1>4, <1>5, <1>6, <1>7, Zenon DEF Fi!Next

\* A template's dialog starts with saved values.
LEMMA FieldsInit == Fi!Init => Fi!BodyInv
BY SavedOwn, Zenon DEF Fi!Init, Fi!BodyInv, Fi!Templates

\* A load that finds the body as it left it changes no value.
LEMMA FieldsKeep == Fi!BodyInv /\ Fi!Next => Fi!LoadStep
<1> SUFFICES ASSUME Fi!BodyInv, Fi!Next, NEW l \in p7 \ p7', l.body = p5,
                    NEW f \in Fi!Fields, p5.payload[f] # Fi!None
             PROVE  p5'.payload[f] = p5.payload[f]
  BY Zenon DEF Fi!LoadStep
<1>1. Fi!Merge(p5).payload[f] = p5.payload[f]
  BY Zenon DEF Fi!Merge, Fi!BodyInv, Fi!Bodies
<1>2. CASE \E m \in p7 : Fi!Loaded(m)
  BY <1>1, <1>2, Zenon DEF Fi!Loaded
<1>3. CASE \E m \in p7 : Fi!LoadFailed(m)
  BY <1>3, Zenon DEF Fi!LoadFailed
<1>4. CASE p7 \subseteq p7'
  BY <1>4, Zenon
<1>5. CASE \/ \E t \in Fi!Templates : Fi!Open(t)
           \/ Fi!Close \/ Fi!SetKind \/ Fi!LoadFields
           \/ \E g \in Fi!Fields : Fi!SetField(g)
           \/ \E k \in Fi!Templates : Fi!SetEndpoint(k)
  BY <1>4, <1>5, Zenon DEF Fi!Open, Fi!Close, Fi!SetKind, Fi!LoadFields, Fi!SetField, Fi!SetEndpoint
<1> QED BY <1>2, <1>3, <1>5, Zenon DEF Fi!Next

(***************************************************************************)
(* The console's forms                                                     *)
(***************************************************************************)

\* A step of the forms is a step of the part that runs.
LEMMA FormsSteps ==
    ASSUME [FormsNext]_vars
    PROVE  /\ part' = part
           /\ part = "editors" => [Ed!Next]_(Ed!vars)
           /\ part = "catalog" => [Ca!Next]_(Ca!vars)
           /\ part = "fields" => [Fi!Next]_(Fi!vars)
BY Zenon DEF FormsNext, vars, Ed!vars, Ca!vars, Fi!vars

\* A behaviour of the forms starts in a state of its part.
LEMMA FormsStart ==
    ASSUME FormsInit
    PROVE  /\ part = "editors" => Ed!Init
           /\ part = "fields" => Fi!Init
BY Zenon DEF FormsInit

EditorsInv == part = "editors" => Ed!SafeInv
FieldsInv == part = "fields" => Fi!BodyInv

\* Both are invariants of the forms.
LEMMA FormsSafe == FormsSpec => [](EditorsInv /\ FieldsInv)
<1>1. FormsInit => EditorsInv /\ FieldsInv
  BY FormsStart, EditorsInit, FieldsInit, Zenon DEF EditorsInv, FieldsInv
<1>2. EditorsInv /\ FieldsInv /\ [FormsNext]_vars => (EditorsInv /\ FieldsInv)'
  BY FormsSteps, EditorsNext, FieldsNext, Zenon DEF EditorsInv, FieldsInv
<1> QED BY <1>1, <1>2, PTL DEF FormsSpec

\* Whatever the operator opens, turns to, types and presses while answers are late, what is sent to a
\* row or a tenant was filled in for it; only the report settings, the new fleet schedule and the SMTP
\* form are left out (the seeds of the dialogs and forms, frontend/src).
THEOREM DraftsAreOurs == FormsSpec => []DraftIsOurs
<1>1. EditorsInv => DraftIsOurs
  BY EditorsSafe, Zenon DEF EditorsInv, DraftIsOurs
<1> QED BY <1>1, FormsSafe, PTL

\* One opening of a dialog gets at most one request acknowledged, however often it is cancelled, opened
\* again and pressed; only the plugins' dialog is left out (the loading buttons, and when they close).
THEOREM AcknowledgedAtMostOnce == FormsSpec => []AcknowledgedOnce
<1>1. EditorsInv => AcknowledgedOnce
  BY EditorsSafe, Zenon DEF EditorsInv, AcknowledgedOnce
<1> QED BY <1>1, FormsSafe, PTL

\* Saving the runtime settings or the SMTP secrets changes only the edited fields, and what others
\* stored meanwhile stays (RuntimeSettingsSection, SmtpSettingsPage).
THEOREM UntouchedIsKept == FormsSpec => UntouchedKept
<1>1. EditorsInv /\ [FormsNext]_vars => [part = "editors" => Ed!SaveStep]_vars
  BY SaveKeeps, Zenon DEF EditorsInv
<1> QED BY <1>1, FormsSafe, PTL DEF FormsSpec, UntouchedKept

\* What the device last said, with the proposed fields set to the form's values, is what the form
\* shows, also after a refetch under the open form (CatalogModelForm, build).
THEOREM ProposalsAreTheForm == FormsSpec => ProposalIsTheForm
<1>1. [FormsNext]_vars => [part = "catalog" => Ca!ProposalStep]_vars
  <2> SUFFICES ASSUME FormsNext, part = "catalog" PROVE Ca!ProposalStep
    BY Zenon
  <2>1. Ca!Next
    BY Zenon DEF FormsNext
  <2> QED BY <2>1, ProposalsMatch, Zenon
<1> QED BY <1>1, PTL DEF FormsSpec, ProposalIsTheForm

\* No value of the body comes from another endpoint than the one it names, however late the fields of
\* a device arrive (OpnsenseSettingForm.tsx, loadFields; TemplateFormModal.tsx, the bodies).
THEOREM PayloadSafe == FormsSpec => []PayloadIsOfEndpoint
<1>1. FieldsInv => PayloadIsOfEndpoint
  BY Zenon DEF FieldsInv, PayloadIsOfEndpoint, Fi!BodyInv, Fi!PayloadIsOfEndpoint, Fi!Own
<1> QED BY <1>1, FormsSafe, PTL

\* A load that finds the body as it left it changes no field that has a value (the merge of
\* OpnsenseSettingForm, MonitTestForm and FirewallRuleForm; the other two forms leave the body).
THEOREM LoadSafe == FormsSpec => [][part = "fields" => Fi!LoadStep]_vars
<1>1. FieldsInv /\ [FormsNext]_vars => [part = "fields" => Fi!LoadStep]_vars
  <2> SUFFICES ASSUME FieldsInv, FormsNext, part = "fields" PROVE Fi!LoadStep
    BY Zenon
  <2>1. Fi!Next /\ Fi!BodyInv
    BY Zenon DEF FormsNext, FieldsInv
  <2> QED BY <2>1, FieldsKeep, Zenon
<1> QED BY <1>1, FormsSafe, PTL DEF FormsSpec

(***************************************************************************)
(* The types of the catalogue's form and the template's dialog             *)
(***************************************************************************)

\* The form's values are numbers, also those of a device that was not reached.
LEMMA CatalogValues ==
    /\ Ca!None.values \in Ca!Values
    /\ Ca!TypeOK => Ca!Read \in [values : Ca!Values, reachable : BOOLEAN, read : BOOLEAN]
<1>1. Ca!None.values \in Ca!Values
  BY DEF Ca!None, Ca!Values, Ca!Blank
<1> QED BY <1>1, Zenon DEF Ca!Read, Ca!TypeOK

\* What is proposed has the type of a proposal.
LEMMA CatalogBuild == ASSUME Ca!TypeOK PROVE Ca!build \in Ca!Bodies
BY Zenon DEF Ca!TypeOK, Ca!build, Ca!Bodies, Ca!Differing

\* Every step of the catalogue's form leaves the types.
LEMMA CatalogTypes == Ca!TypeOK /\ [Ca!Next]_(Ca!vars) => Ca!TypeOK'
<1> SUFFICES ASSUME Ca!TypeOK, [Ca!Next]_(Ca!vars) PROVE Ca!TypeOK'
  BY Zenon
<1>0. MaxOps \in Nat /\ MaxSends \in Nat /\ MaxDeviceChanges \in Nat /\ 0 <= MaxOps /\ Len(<<>>) <= MaxOps /\ <<>> \in Seq(Nat)
  BY FormsAssumption
<1>1. CASE Ca!Select
  <2>1. PICK a \in {Ca!Read, p4} : Ca!Mounted(a)
    BY <1>1, Zenon DEF Ca!Select
  <2>2. a \in [values : Ca!Values, reachable : BOOLEAN, read : BOOLEAN]
    BY CatalogValues, Zenon DEF Ca!TypeOK
  <2> QED BY <1>0, <1>1, <2>1, <2>2, Zenon DEF Ca!Select, Ca!Mounted, Ca!TypeOK
<1>2. CASE Ca!Refetch
  BY <1>2, CatalogValues, Zenon DEF Ca!Refetch, Ca!TypeOK
<1>3. CASE Ca!Leave
  BY <1>0, <1>3, Zenon DEF Ca!Leave, Ca!TypeOK
<1>4. CASE Ca!OpenRow \/ Ca!CloseRow
  BY <1>4, Zenon DEF Ca!OpenRow, Ca!CloseRow, Ca!TypeOK
<1>5. CASE Ca!Push
  <2>1. p10' \in Seq(Nat) /\ Len(p10') <= MaxOps
    BY <1>0, <1>5 DEF Ca!Push, Ca!TypeOK
  <2> QED BY <1>5, <2>1, Zenon DEF Ca!Push, Ca!TypeOK
<1>6. CASE Ca!Propose
  <2>1. p13 \in 0 .. MaxSends - 1 /\ p13 + 1 \in 0 .. MaxSends
    BY <1>0, <1>6 DEF Ca!Propose, Ca!TypeOK
  <2>2. [body |-> Ca!build, typed |-> p8, n |-> p13] \in [body : Ca!Bodies, typed : SUBSET Ca!Fields, n : 0 .. MaxSends - 1]
    BY <2>1, CatalogBuild, Zenon DEF Ca!TypeOK
  <2> QED BY <1>6, <2>1, <2>2, Zenon DEF Ca!Propose, Ca!TypeOK
<1>7. CASE Ca!Others
  <2>1. p12 + 1 \in 0 .. MaxDeviceChanges
    BY <1>0, <1>7 DEF Ca!Others, Ca!TypeOK
  <2>2. p2' \in Ca!Values
    <3>1. p2 \in [Ca!Fields -> Nat]
      BY Zenon DEF Ca!TypeOK, Ca!Values
    <3>2. ASSUME NEW f \in Ca!Fields PROVE [p2 EXCEPT ![f] = @ + 1] \in [Ca!Fields -> Nat]
      BY <3>1
    <3> QED BY <1>7, <3>1, <3>2, Zenon DEF Ca!Others, Ca!Values
  <2>3. p3' \in BOOLEAN
    BY <1>7, Zenon DEF Ca!Others, Ca!TypeOK
  <2> QED BY <1>7, <2>1, <2>2, <2>3, Zenon DEF Ca!Others, Ca!TypeOK
<1>8. ASSUME NEW f \in Ca!Fields, Ca!Type(f) PROVE Ca!TypeOK'
  <2>1. p7' \in Ca!Values
    BY <1>8 DEF Ca!Type, Ca!TypeOK, Ca!Values, Ca!Blank, Ca!Fields
  <2> QED BY <1>8, <2>1, Zenon DEF Ca!Type, Ca!TypeOK
<1>9. ASSUME NEW r \in p11, Ca!Proposed(r) \/ Ca!Refused(r) PROVE Ca!TypeOK'
  BY <1>0, <1>9, Zenon DEF Ca!Proposed, Ca!Refused, Ca!TypeOK
<1>10. CASE UNCHANGED Ca!vars
  BY <1>10, Zenon DEF Ca!vars, Ca!TypeOK
<1> QED BY <1>1, <1>2, <1>3, <1>4, <1>5, <1>6, <1>7, <1>8, <1>9, <1>10, Zenon DEF Ca!Next

\* Every step of a template's dialog leaves the types, given what the bodies are.
LEMMA FieldsTypes == Fi!BodyInv /\ Fi!TypeOK /\ [Fi!Next]_(Fi!vars) => Fi!TypeOK'
<1> SUFFICES ASSUME Fi!BodyInv, Fi!TypeOK, [Fi!Next]_(Fi!vars) PROVE Fi!TypeOK'
  BY Zenon
<1>0. MaxForms \in Nat /\ MaxLoads \in Nat
  BY FormsAssumption
<1>1. p5' \in Fi!Bodies
  BY FieldsNext, Zenon DEF Fi!BodyInv
<1>2. p8 \in Nat /\ p3 \in Nat /\ p3 <= p8 /\ p8 <= MaxForms /\ p4 \in BOOLEAN
      /\ p7 \subseteq [form : 1 .. p8, body : Fi!Bodies]
  BY <1>0 DEF Fi!TypeOK
<1>3. p8 < MaxForms =>
        /\ p8 + 1 \in 0 .. MaxForms /\ p8 + 1 \in 0 .. p8 + 1 /\ p8 + 1 # 0
        /\ 1 .. p8 \subseteq 1 .. p8 + 1
  BY <1>0, <1>2
<1>4. 0 \in 0 .. p8
  BY <1>2
<1>5. p8 < MaxForms => p7 \subseteq [form : 1 .. p8 + 1, body : Fi!Bodies] /\ 0 \in 0 .. p8 + 1
  <2>1. p8 < MaxForms => p7 \subseteq [form : 1 .. p8 + 1, body : Fi!Bodies]
    BY <1>2, <1>3, Zenon
  <2> QED BY <1>2, <2>1
<1>6. ASSUME NEW t \in Fi!Templates, Fi!Open(t) PROVE Fi!TypeOK'
  BY <1>1, <1>3, <1>5, <1>6, Zenon DEF Fi!Open, Fi!TypeOK
<1>7. CASE Fi!Close
  BY <1>1, <1>4, <1>7, Zenon DEF Fi!Close, Fi!TypeOK
<1>8. CASE Fi!SetKind
  BY <1>1, <1>3, <1>4, <1>5, <1>8, Zenon DEF Fi!SetKind, Fi!TypeOK
<1>9. ASSUME NEW f \in Fi!Fields, Fi!SetField(f) PROVE Fi!TypeOK'
  BY <1>1, <1>9, Zenon DEF Fi!SetField, Fi!TypeOK
<1>10. ASSUME NEW k \in Fi!Templates, Fi!SetEndpoint(k) PROVE Fi!TypeOK'
  BY <1>1, <1>10, Zenon DEF Fi!SetEndpoint, Fi!TypeOK
<1>11. CASE Fi!LoadFields
  <2>1. p3 \in 1 .. p8 /\ p9 + 1 \in 0 .. MaxLoads
    BY <1>0, <1>2, <1>11 DEF Fi!LoadFields, Fi!TypeOK
  <2>2. [form |-> p3, body |-> p5] \in [form : 1 .. p8, body : Fi!Bodies]
    BY <2>1, Zenon DEF Fi!TypeOK
  <2> QED BY <1>1, <1>11, <2>1, <2>2, Zenon DEF Fi!LoadFields, Fi!TypeOK
<1>12. ASSUME NEW l \in p7, Fi!Loaded(l) \/ Fi!LoadFailed(l) PROVE Fi!TypeOK'
  <2>1. l.form \in 1 .. p8
    BY <1>2, Zenon
  <2>2. l.form # 0
    BY <1>2, <2>1
  <2>3. UNCHANGED <<p1, p2, p3, p6, p8, p9>> /\ p7' \subseteq p7
    BY <1>12, Zenon DEF Fi!Loaded, Fi!LoadFailed
  <2>4. p4' \in BOOLEAN /\ (p4' => p3 # 0)
    <3>1. CASE Fi!Loaded(l)
      BY <1>2, <2>2, <3>1, Zenon DEF Fi!Loaded, Fi!TypeOK
    <3>2. CASE Fi!LoadFailed(l)
      BY <1>2, <3>2, Zenon DEF Fi!LoadFailed, Fi!TypeOK
    <3> QED BY <1>12, <3>1, <3>2, Zenon
  <2> QED BY <1>1, <2>3, <2>4, Zenon DEF Fi!TypeOK
<1>13. CASE UNCHANGED Fi!vars
  BY <1>13, Zenon DEF Fi!vars, Fi!TypeOK
<1> QED BY <1>6, <1>7, <1>8, <1>9, <1>10, <1>11, <1>12, <1>13, Zenon DEF Fi!Next

\* The catalogue's form and the template's dialog start with their types.
LEMMA FormsTyped ==
    /\ Ca!Init => Ca!TypeOK
    /\ Fi!Init => Fi!TypeOK
<1>1. ASSUME Ca!Init PROVE Ca!TypeOK
  <2>1. <<>> \in Seq(Nat) /\ Len(<<>>) <= MaxOps /\ 0 \in 0 .. MaxDeviceChanges /\ 0 \in 0 .. MaxSends
    BY FormsAssumption
  <2>2. [f \in Ca!Fields |-> 0] \in Ca!Values
    BY DEF Ca!Values
  <2>3. Ca!None \in [values : Ca!Values, reachable : BOOLEAN, read : BOOLEAN]
    <3>1. [f \in Ca!Fields |-> Ca!Blank] \in Ca!Values
      BY DEF Ca!Values, Ca!Blank
    <3> QED BY <3>1, Zenon DEF Ca!None
  <2> QED BY <1>1, <2>1, <2>2, <2>3, CatalogValues, Zenon DEF Ca!Init, Ca!TypeOK
<1>2. ASSUME Fi!Init PROVE Fi!TypeOK
  <2>1. 0 \in 0 .. MaxForms /\ 0 \in 0 .. 0 /\ 0 \in 0 .. MaxLoads
    BY FormsAssumption
  <2>2. p5 \in Fi!Bodies
    BY <1>2, FieldsInit, Zenon DEF Fi!BodyInv
  <2> QED BY <1>2, <2>1, <2>2, Zenon DEF Fi!Init, Fi!TypeOK
<1> QED BY <1>1, <1>2, Zenon

(***************************************************************************)
(* The types of the editors: no field counts more than what was written    *)
(***************************************************************************)

\* The editors count with the library's sizes.
LEMMA EditorSizes == \A S : Ed!Cardinality(S) = Cardinality(S) /\ Ed!IsFiniteSet(S) = IsFiniteSet(S)
<1>1. \A S : Ed!IsFiniteSet(S) = IsFiniteSet(S)
  BY Zenon DEF Ed!IsFiniteSet, IsFiniteSet
<1>2. \A S : Ed!Cardinality(S) = Cardinality(S)
  BY Zenon DEF Ed!Cardinality, Cardinality
<1> QED BY <1>1, <1>2, Zenon

\* No field counts more than the changes of others and the answered presses.
LEMMA EditorsCount == Ed!KindInv /\ Ed!CountInv /\ [Ed!Next]_(Ed!vars) => Ed!CountInv'
<1> SUFFICES ASSUME Ed!KindInv, Ed!CountInv, [Ed!Next]_(Ed!vars) PROVE Ed!CountInv'
  BY Zenon
<1> DEFINE Values == [Ed!Fields -> Nat]
           C == Cardinality(Ed!Pending)
<1>0. /\ p1' = p1 /\ Ed!Subjects' = Ed!Subjects
      /\ p5 \in Ed!Drafts /\ p6 \in [Ed!Subjects -> Values] /\ p7 \subseteq Ed!Requests
      /\ p8 \in Nat /\ p2 \in Ed!Subjects \cup {0}
  BY EditorStays, Zenon DEF Ed!KindInv
<1>1. /\ p5.base \in Values /\ Ed!Upto(p5.base)
      /\ \A s \in Ed!Subjects : p6[s] \in Values /\ Ed!Upto(p6[s])
      /\ \A r \in p7 : r.base \in Values /\ Ed!Upto(r.base)
  BY <1>0, Zenon DEF Ed!CountInv, Ed!Drafts, Ed!Requests
<1>2. /\ IsFiniteSet(p7) /\ Cardinality(p7) \in Nat /\ Cardinality(p7) <= p8
      /\ IsFiniteSet(Ed!Pending) /\ C \in Nat /\ C <= Cardinality(p7)
  <2>1. IsFiniteSet(p7) /\ Cardinality(p7) <= p8
    BY EditorSizes, Zenon DEF Ed!CountInv
  <2>2. Ed!Pending \in SUBSET p7
    BY Zenon DEF Ed!Pending
  <2>3. IsFiniteSet(Ed!Pending) /\ C <= Cardinality(p7)
    BY <2>1, <2>2, FS_Subset, Zenon
  <2> QED BY <2>1, <2>3, FS_CardinalityType, Zenon
<1>3. /\ p8 <= MaxSubmits /\ p9 \in 0 .. MaxEdits /\ \A r \in p7 : r.n < p8
      /\ MaxEdits \in Nat /\ MaxSubmits \in Nat
  BY FormsAssumption, Zenon DEF Ed!CountInv
<1>4. Ed!Counted = p8 + p9 - C /\ Ed!Counted' = p8' + p9' - C'
  BY EditorSizes, Zenon DEF Ed!Counted
<1>5. Ed!Counted \in Nat
  BY <1>0, <1>2, <1>3, <1>4
<1>6. ASSUME Ed!Counted' \in Nat, Ed!Counted <= Ed!Counted',
             NEW v \in Values, Ed!Upto(v)
      PROVE  \A f \in Ed!Fields : v[f] <= Ed!Counted'
  BY <1>5, <1>6 DEF Ed!Upto
<1>7. ASSUME IsFiniteSet(p7'), Cardinality(p7') <= p8', \A r \in p7' : r.n < p8',
             p8' <= MaxSubmits, p9' \in 0 .. MaxEdits,
             Ed!Counted' \in Nat, Ed!Counted <= Ed!Counted',
             p5'.base = p5.base \/ (\E s \in Ed!Subjects : p5'.base = p6[s]) \/ p5'.base = [f \in Ed!Fields |-> 0],
             \A s \in Ed!Subjects : p6'[s] = p6[s] \/ \A f \in Ed!Fields : p6'[s][f] <= Ed!Counted',
             \A r \in p7' : r.base = p5.base \/ \E q \in p7 : r.base = q.base
      PROVE  Ed!CountInv'
  <2>1. \A f \in Ed!Fields : p5'.base[f] <= Ed!Counted'
    <3>1. [f \in Ed!Fields |-> 0] \in Values /\ Ed!Upto([f \in Ed!Fields |-> 0])
      BY <1>5 DEF Ed!Upto
    <3> QED BY <1>1, <1>6, <1>7, <3>1, Zenon
  <2>2. \A s \in Ed!Subjects, f \in Ed!Fields : p6'[s][f] <= Ed!Counted'
    BY <1>1, <1>6, <1>7, Zenon
  <2>3. \A r \in p7', f \in Ed!Fields : r.base[f] <= Ed!Counted'
    BY <1>1, <1>6, <1>7, Zenon
  <2>4. Ed!IsFiniteSet(p7') /\ Ed!Cardinality(p7') <= p8'
    BY <1>7, EditorSizes, Zenon
  <2> QED BY <1>0, <1>7, <2>1, <2>2, <2>3, <2>4, Zenon DEF Ed!CountInv, Ed!Upto, Ed!Fields
<1>8. ASSUME p7' = p7, p8' = p8 PROVE C' = C
  BY <1>8, Zenon DEF Ed!Pending
<1>9. ASSUME UNCHANGED <<p6, p7, p8, p9>>,
             p5'.base = p5.base \/ (\E s \in Ed!Subjects : p5'.base = p6[s]) \/ p5'.base = [f \in Ed!Fields |-> 0]
      PROVE  Ed!CountInv'
  <2>1. Ed!Counted' = Ed!Counted
    BY <1>4, <1>8, <1>9, Zenon
  <2>2. Ed!Counted <= Ed!Counted
    BY <1>5
  <2> QED BY <1>2, <1>3, <1>5, <1>7, <1>9, <2>1, <2>2, Zenon
<1>10. (\A s : Ed!Seeded(s).base = p6[s]) /\ Ed!Unseeded.base = [f \in Ed!Fields |-> 0]
  BY Zenon DEF Ed!Seeded, Ed!Unseeded
<1>11. \A t : [p5 EXCEPT !.touched = t].base = p5.base
  BY <1>0, Zenon DEF Ed!Drafts
<1>12. ASSUME NEW s \in Ed!Subjects, Ed!Open(s) \/ Ed!Turn(s) PROVE Ed!CountInv'
  BY <1>9, <1>10, <1>12, Zenon DEF Ed!Open, Ed!Turn
<1>13. CASE Ed!Load
  BY <1>0, <1>9, <1>10, <1>13, Zenon DEF Ed!Load
<1>14. CASE Ed!Close \/ (\E f \in Ed!Fields : Ed!Edit(f)) \/ UNCHANGED Ed!vars
  BY <1>9, <1>11, <1>14, Zenon DEF Ed!Close, Ed!Edit, Ed!vars
<1>15. ASSUME NEW s \in Ed!Subjects, NEW f \in Ed!Fields, Ed!Others(s, f) PROVE Ed!CountInv'
  <2>1. UNCHANGED <<p5, p7, p8>> /\ p9' = p9 + 1 /\ p9 < MaxEdits /\ p6' = [p6 EXCEPT ![s][f] = @ + 1]
    BY <1>15, Zenon DEF Ed!Others
  <2>2. C' = C
    BY <1>8, <2>1, Zenon
  <2>3. Ed!Counted' = Ed!Counted + 1 /\ p9' \in 0 .. MaxEdits
    BY <1>0, <1>2, <1>3, <1>4, <2>1, <2>2
  <2>4. \A z \in Ed!Subjects : p6'[z] = p6[z] \/ \A g \in Ed!Fields : p6'[z][g] <= Ed!Counted'
    <3>1. ASSUME NEW z \in Ed!Subjects, z # s PROVE p6'[z] = p6[z]
      BY <1>0, <2>1, <3>1, Zenon
    <3>2. ASSUME NEW g \in Ed!Fields PROVE p6'[s][g] <= Ed!Counted'
      <4>1. p6'[s][g] = IF g = f THEN p6[s][f] + 1 ELSE p6[s][g]
        BY <1>0, <2>1, Zenon
      <4>2. p6[s][f] \in Nat /\ p6[s][g] \in Nat /\ p6[s][f] <= Ed!Counted /\ p6[s][g] <= Ed!Counted
        BY <1>1, Zenon DEF Ed!Upto
      <4> QED BY <1>5, <2>3, <4>1, <4>2
    <3> QED BY <3>1, <3>2, Zenon
  <2>5. Ed!Counted' \in Nat /\ Ed!Counted <= Ed!Counted'
    BY <1>5, <2>3
  <2> QED BY <1>2, <1>3, <1>7, <2>1, <2>3, <2>4, <2>5, Zenon
<1>16. ASSUME NEW t \in SUBSET Ed!Fields, Ed!Submit(t) PROVE Ed!CountInv'
  <2>1. p7' = p7 \cup {Sent(t)} /\ p8' = p8 + 1 /\ p8 < MaxSubmits /\ UNCHANGED <<p5, p6, p9>>
    BY <1>16, Zenon DEF Ed!Submit, Ed!Enabled, Sent
  <2>2. Sent(t).n = p8 /\ Sent(t).base = p5.base /\ Sent(t).stage = "sent"
    BY Zenon DEF Sent
  <2>3. Sent(t) \notin p7 /\ \A r \in p7 : r.n \in Nat
    <3>1. ~ (p8 < p8)
      BY <1>0
    <3> QED BY <1>0, <1>3, <2>2, <3>1, Zenon DEF Ed!Requests
  <2>4. Ed!Pending' = Ed!Pending \cup {Sent(t)} /\ Sent(t) \notin Ed!Pending
    BY <2>1, <2>2, <2>3, Zenon DEF Ed!Pending
  <2>5. C' = C + 1 /\ IsFiniteSet(p7') /\ Cardinality(p7') = Cardinality(p7) + 1
    BY <1>2, <2>1, <2>3, <2>4, FS_AddElement, Zenon
  <2>6. /\ Ed!Counted' = Ed!Counted /\ Cardinality(p7') <= p8' /\ p8' <= MaxSubmits
        /\ \A n \in Nat : n < p8 => n < p8'
        /\ p8 < p8' /\ Ed!Counted <= Ed!Counted
    BY <1>0, <1>2, <1>3, <1>4, <1>5, <2>1, <2>5
  <2>7. \A r \in p7' : r.n < p8'
    BY <1>3, <2>1, <2>2, <2>3, <2>6, Zenon
  <2>8. \A r \in p7' : r.base = p5.base \/ \E q \in p7 : r.base = q.base
    BY <2>1, <2>2, Zenon
  <2> QED BY <1>3, <1>5, <1>7, <2>1, <2>5, <2>6, <2>7, <2>8, Zenon
<1>17. ASSUME NEW r \in p7, Ed!Done(r) \/ Ed!Rested(r) \/ Ed!Refused(r) PROVE Ed!CountInv'
  <2> DEFINE rest == [r EXCEPT !.stage = "rest"]
  <2>1. r \in Ed!Requests /\ rest.n = r.n /\ rest.base = r.base /\ rest.stage = "rest"
    BY <1>0, Zenon DEF Ed!Requests
  <2>2. UNCHANGED <<p8, p9>> /\ (p7' = p7 \ {r} \/ p7' = (p7 \ {r}) \cup {rest})
    BY <1>17, Zenon DEF Ed!Done, Ed!Rested, Ed!Refused
  <2> HIDE DEF rest
  <2>3. IsFiniteSet(p7') /\ Cardinality(p7') <= p8'
    <3>1. IsFiniteSet(p7 \ {r}) /\ Cardinality(p7 \ {r}) = Cardinality(p7) - 1
      BY <1>2, FS_RemoveElement, Zenon
    <3>2. CASE p7' = p7 \ {r}
      BY <1>0, <1>2, <2>2, <3>1, <3>2
    <3>3. CASE p7' = (p7 \ {r}) \cup {rest}
      <4>1. IsFiniteSet(p7') /\ Cardinality(p7') \in {Cardinality(p7 \ {r}), Cardinality(p7 \ {r}) + 1}
        BY <3>1, <3>3, FS_AddElement, Zenon
      <4> QED BY <1>0, <1>2, <2>2, <3>1, <4>1
    <3> QED BY <2>2, <3>2, <3>3, Zenon
  <2>4. Ed!Pending' = Ed!Pending \ {r}
    BY <2>1, <2>2, Zenon DEF Ed!Pending
  <2>5. C' = IF r.stage = "sent" THEN C - 1 ELSE C
    <3>1. r \in Ed!Pending <=> r.stage = "sent"
      BY Zenon DEF Ed!Pending
    <3> QED BY <1>2, <2>4, <3>1, FS_RemoveElement, Zenon
  <2>6. /\ Ed!Counted' = IF r.stage = "sent" THEN Ed!Counted + 1 ELSE Ed!Counted
        /\ Ed!Counted' \in Nat /\ Ed!Counted <= Ed!Counted'
    BY <1>0, <1>2, <1>3, <1>4, <1>5, <2>2, <2>5
  <2>7. p5'.base = p5.base
    BY <1>11, <1>17, Zenon DEF Ed!Done, Ed!Rested, Ed!Refused
  <2>8. \A s \in Ed!Subjects : p6'[s] = p6[s] \/ \A f \in Ed!Fields : p6'[s][f] <= Ed!Counted'
    <3>1. CASE Ed!Rested(r) \/ Ed!Refused(r)
      BY <3>1, Zenon DEF Ed!Rested, Ed!Refused
    <3>2. CASE Ed!Done(r)
      <4>1. r.to \in Ed!Subjects /\ p6' = [p6 EXCEPT ![r.to] = Ed!Stored(r, @)] /\ r.stage = "sent"
        BY <2>1, <3>2, Zenon DEF Ed!Done, Ed!Requests
      <4>2. \A s \in Ed!Subjects : p6'[s] = IF s = r.to THEN Ed!Stored(r, p6[r.to]) ELSE p6[s]
        BY <1>0, <4>1, Zenon
      <4>3. ASSUME NEW f \in Ed!Fields PROVE Ed!Stored(r, p6[r.to])[f] <= Ed!Counted'
        <5>1. Ed!Stored(r, p6[r.to])[f] \in {p6[r.to][f] + 1, r.base[f], p6[r.to][f]}
          BY Zenon DEF Ed!Stored
        <5>2. p6[r.to][f] \in Nat /\ r.base[f] \in Nat /\ p6[r.to][f] <= Ed!Counted /\ r.base[f] <= Ed!Counted
          BY <1>1, <4>1, Zenon DEF Ed!Upto
        <5> QED BY <1>5, <2>6, <4>1, <5>1, <5>2
      <4> QED BY <4>2, <4>3, Zenon
    <3> QED BY <1>17, <3>1, <3>2, Zenon
  <2>9. \A q \in p7' : q.n < p8' /\ \E o \in p7 : q.base = o.base
    BY <1>3, <2>1, <2>2, Zenon
  <2> QED BY <1>3, <1>7, <2>2, <2>3, <2>6, <2>7, <2>8, <2>9, Zenon
<1> QED BY <1>12, <1>13, <1>14, <1>15, <1>16, <1>17, Zenon DEF Ed!Next

\* The counts give the editors' types.
LEMMA EditorsTyped == Ed!KindInv /\ Ed!CountInv => Ed!TypeOK
<1> SUFFICES ASSUME Ed!KindInv, Ed!CountInv PROVE Ed!TypeOK
  BY Zenon
<1>1. p5.touched \subseteq Ed!Fields /\ p5.of \in Ed!Subjects \cup {0} /\ p8 \in 0 .. MaxSubmits
  <2>1. p8 \in Nat /\ p8 <= MaxSubmits /\ MaxSubmits \in Nat
    BY FormsAssumption, Zenon DEF Ed!KindInv, Ed!CountInv
  <2> QED BY <2>1 DEF Ed!KindInv, Ed!Drafts
<1>2. ASSUME NEW s \in Ed!Subjects, NEW f \in Ed!Fields PROVE p6[s][f] \in 0 .. MaxSubmits + MaxEdits
  <2>1. p6[s][f] \in Nat /\ p6[s][f] <= Ed!Counted
    BY Zenon DEF Ed!KindInv, Ed!CountInv, Ed!Upto
  <2>2. Ed!Counted = p8 + p9 - Cardinality(Ed!Pending) /\ Cardinality(Ed!Pending) \in Nat
    <3>1. IsFiniteSet(Ed!Pending)
      <4>1. Ed!Pending \in SUBSET p7 /\ IsFiniteSet(p7)
        BY EditorSizes, Zenon DEF Ed!Pending, Ed!CountInv
      <4> QED BY <4>1, FS_Subset, Zenon
    <3> QED BY <3>1, EditorSizes, FS_CardinalityType, Zenon DEF Ed!Counted
  <2>3. p9 \in 0 .. MaxEdits /\ MaxEdits \in Nat /\ MaxSubmits \in Nat
    BY FormsAssumption, Zenon DEF Ed!CountInv
  <2> QED BY <1>1, <2>1, <2>2, <2>3
<1> QED BY <1>1, <1>2, Zenon DEF Ed!TypeOK, Ed!KindInv, Ed!CountInv

\* An editor starts without a request.
LEMMA EditorsCounted == Ed!Init => Ed!CountInv
<1> SUFFICES ASSUME Ed!Init PROVE Ed!CountInv
  BY Zenon
<1>1. p7 = {} /\ p8 = 0 /\ p9 = 0 /\ p6 = [s \in Ed!Subjects |-> [f \in Ed!Fields |-> 0]]
  BY Zenon DEF Ed!Init
<1>2. Ed!Counted = 0
  <2>1. Ed!Pending = {}
    BY <1>1, Zenon DEF Ed!Pending
  <2>2. Ed!Cardinality(Ed!Pending) = 0
    BY <2>1, EditorSizes, FS_EmptySet, Zenon
  <2> QED BY <1>1, <2>2 DEF Ed!Counted
<1>3. p5.base = [f \in Ed!Fields |-> 0]
  BY <1>1, SubjectsKnown, Zenon DEF Ed!Init, Ed!Unseeded, Ed!Seeded
<1>4. Ed!IsFiniteSet(p7) /\ Ed!Cardinality(p7) = 0
  BY <1>1, EditorSizes, FS_EmptySet, Zenon
<1>5. 0 \in 0 .. MaxEdits /\ 0 <= MaxSubmits /\ 0 <= 0
  BY FormsAssumption
<1> QED BY <1>1, <1>2, <1>3, <1>4, <1>5, Zenon DEF Ed!CountInv, Ed!Upto

FormsTypes ==
    /\ part = "editors" => Ed!TypeOK
    /\ part = "catalog" => Ca!TypeOK
    /\ part = "fields" => Fi!TypeOK

\* The variables of the editors, of the catalogue's form and of the template's dialog have their types:
\* among others, no field of a row counts more than the requests answered for it and the changes of
\* others.
THEOREM FormsTypesSafe == FormsSpec => []FormsTypes
<1> DEFINE Counts == part = "editors" => Ed!CountInv
           Others == FieldsInv /\ (part = "catalog" => Ca!TypeOK) /\ (part = "fields" => Fi!TypeOK)
           Inv == EditorsInv /\ Counts /\ Others
<1>1. FormsInit => Inv
  <2>1. FormsInit => (part = "catalog" => Ca!Init)
    BY Zenon DEF FormsInit
  <2>2. FormsInit => EditorsInv /\ Counts
    BY FormsStart, EditorsInit, EditorsCounted, Zenon DEF EditorsInv
  <2>3. FormsInit => Others
    BY <2>1, FormsStart, FieldsInit, FormsTyped, Zenon DEF FieldsInv
  <2> QED BY <2>2, <2>3, Zenon
<1>2. Inv /\ [FormsNext]_vars => Inv'
  <2>1. EditorsInv /\ Counts /\ [FormsNext]_vars => EditorsInv' /\ Counts'
    BY FormsSteps, EditorsNext, EditorsCount, Zenon DEF EditorsInv, Ed!SafeInv
  <2>2. Others /\ [FormsNext]_vars => Others'
    BY FormsSteps, FieldsNext, CatalogTypes, FieldsTypes, Zenon DEF FieldsInv
  <2> QED BY <2>1, <2>2, Zenon
<1>3. Inv => FormsTypes
  BY EditorsTyped, Zenon DEF EditorsInv, Ed!SafeInv, FormsTypes
<1> QED BY <1>1, <1>2, <1>3, PTL DEF FormsSpec
===============================================================================
