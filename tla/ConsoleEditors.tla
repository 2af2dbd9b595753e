---------------------------- MODULE ConsoleEditors ----------------------------
(***************************************************************************)
(* The dialogs, forms and buttons of the web console that change something *)
(* on the server (frontend/src), one record each, and the components that  *)
(* render them.  Editors gives the records their behaviour:                *)
(*   subject  what the editor may be about: "one" thing, a "row" the user  *)
(*            picks, or the active "tenant", which changes underneath it   *)
(*   seed     where its draft comes from: "blank"; "open", the row as it   *)
(*            is when the dialog opens; "once", the first answer; "subject"*)
(*            the first answer for each subject; "mounted", the answer at  *)
(*            hand when the list has to be loaded; "overlay", nothing, the *)
(*            edits are laid over what the server says; "live", no draft,  *)
(*            each change is sent at once; "none", a bare button           *)
(*   sends    "all" fields of the draft, or the "touched" ones             *)
(*   busy     "any": disabled while a request of its own is in flight;     *)
(*            "own": while one for the same subject is; "no": never        *)
(*   closes   "never"; "first", before the request; on "success"; or when  *)
(*            the request is "settled" either way                          *)
(*   waits    whether it is shown only once the data it edits is there     *)
(*   needs    whether an empty draft is not sent                           *)
(*   clears   whether a success empties the draft                          *)
(*   rests    whether the handler awaits something else between the answer *)
(*            and the closing, no longer counted as its request            *)
(***************************************************************************)
EXTENDS Naturals

\* ConfirmModal: the confirm button shows "loading", Cancel stays enabled.
ConfirmModal(name, subject, closes) ==
    [name |-> name, subject |-> subject, seed |-> "none", sends |-> "all", busy |-> "any",
     closes |-> closes, waits |-> TRUE, needs |-> FALSE, clears |-> FALSE, rests |-> FALSE]

Button(name) == ConfirmModal(name, "one", "never")
Form(name, subject, seed) == [ConfirmModal(name, subject, "never") EXCEPT !.seed = seed]
Modal(name, seed) == [ConfirmModal(name, "row", "success") EXCEPT !.seed = seed]
BlankForm(name, needs) == [Form(name, "one", "blank") EXCEPT !.clears = TRUE, !.needs = needs]
BlankModal(name) == [BlankForm(name, TRUE) EXCEPT !.closes = "success"]
Live(name, busy) == [Form(name, "one", "live") EXCEPT !.busy = busy]

\* --- devices -----------------------------------------------------------------
createDevice == BlankModal("createDevice")
DeviceCreateModal == {createDevice}

testDevice == Button("testDevice")
removeDevice == ConfirmModal("removeDevice", "one", "first")
DeviceActions == {testDevice, removeDevice}

\* Enable, disable, rotate and revoke: two dialogs without "loading"; the button
\* that opens an operation is disabled while that operation is in flight.
forwarding == [ConfirmModal("forwarding", "row", "first") EXCEPT !.busy = "own"]
LogForwardingCard == {forwarding}

\* --- configuration changes -----------------------------------------------------
proposeAlias == BlankModal("proposeAlias")
ProposeAliasModal == {proposeAlias}

\* Apply-now and schedule share one mutation; only the latter closes the popover.
applyNow == Button("applyNow")
scheduleChange == BlankModal("scheduleChange")
cancelChange == Button("cancelChange")
ChangeRowActions == {applyNow, scheduleChange, cancelChange}

revertChange == Button("revertChange")
RevertButton == {revertChange}

\* pickTemplate fills the text area from the template just picked.
saveOverride == Form("saveOverride", "row", "open")
applyTemplateUnguarded == [ConfirmModal("applyTemplate", "row", "settled") EXCEPT !.busy = "no"]
applyTemplate == ConfirmModal("applyTemplate", "row", "settled")
ApplyTemplateTab == {saveOverride, applyTemplate}

applyProfile == ConfirmModal("applyProfile", "row", "settled")
ApplyProfileSection == {applyProfile}

\* run() awaits plugins.refetch() before it closes the dialog, and the button
\* only looks at the request before it.
runPlugin == [ConfirmModal("runPlugin", "row", "settled") EXCEPT !.rests = TRUE]
PluginsTab == {runPlugin}

\* --- templates and profiles ------------------------------------------------------
template == Modal("template", "open")
TemplateFormModal == {template}

deleteTemplate == ConfirmModal("deleteTemplate", "row", "first")
TemplateLibraryPage == {deleteTemplate}

profile == Modal("profile", "open")
ProfileFormModal == {profile}

deleteProfile == ConfirmModal("deleteProfile", "row", "first")
ProfilesPanel == {deleteProfile}

\* --- reports and retention -------------------------------------------------------
reportSettings == Form("reportSettings", "tenant", "once")
uploadLogo == BlankForm("uploadLogo", TRUE)
deleteLogo == Button("deleteLogo")
ReportSettingsPage == {reportSettings, uploadLogo, deleteLogo}

\* A schedule that exists is keyed by its id; the new schedule of every tenant's
\* fleet has the same key.
schedule == Form("schedule", "tenant", "subject")
newFleetSchedule == Form("newFleetSchedule", "tenant", "mounted")
sendScheduleNow == Button("sendScheduleNow")
ScheduleEditor == {schedule, newFleetSchedule, sendScheduleNow}

generateReport == Form("generateReport", "one", "blank")
downloadReport == [ConfirmModal("downloadReport", "row", "never") EXCEPT !.busy = "own"]
ReportsPage == {generateReport, downloadReport}

retentionOnce == Form("retention", "tenant", "once")
retention == Form("retention", "tenant", "subject")
RetentionCard == {retention}

\* --- administration ----------------------------------------------------------------
runtimeSettingsAll == [Form("runtimeSettings", "one", "once") EXCEPT !.sends = "all"]
runtimeSettings ==
    [Form("runtimeSettings", "one", "overlay") EXCEPT !.sends = "touched", !.needs = TRUE, !.clears = TRUE]
RuntimeSettingsSection == {runtimeSettings}

\* The form is on the page before its data is.  The server's secrets are never
\* in it: a blank one is not sent.
smtpSettings == [Form("smtpSettings", "one", "once") EXCEPT !.waits = FALSE]
smtpSecrets == [Form("smtpSecrets", "one", "overlay") EXCEPT !.sends = "touched", !.clears = TRUE]
testSmtp == [Form("testSmtp", "one", "blank") EXCEPT !.needs = TRUE]
SmtpSettingsPage == {smtpSettings, smtpSecrets, testSmtp}

livePush == Live("livePush", "any")
SystemSettingsPage == {livePush}

createGroup == BlankForm("createGroup", TRUE)
deleteGroup == ConfirmModal("deleteGroup", "row", "first")
GroupsPage == {createGroup, deleteGroup}

groupDetails == Form("groupDetails", "one", "once")
groupMembers == Live("groupMembers", "no")
addGrant == BlankForm("addGrant", TRUE)
removeGrant == [ConfirmModal("removeGrant", "row", "never") EXCEPT !.busy = "no"]
GroupCard == {groupDetails, groupMembers, addGrant, removeGrant}

\* --- sessions and second factors ---------------------------------------------------
logoutAll == Button("logoutAll")
SessionsPage == {logoutAll}

regenerateCodes == BlankForm("regenerateCodes", FALSE)
disableMfa == ConfirmModal("disableMfa", "one", "settled")
MfaManage == {regenerateCodes, disableMfa}

addPasskey == BlankForm("addPasskey", FALSE)
removePasskey == ConfirmModal("removePasskey", "row", "settled")
PasskeysSection == {addPasskey, removePasskey}

trustedDeviceToggle == Live("trustedDeviceToggle", "any")
TrustedDeviceToggleControl == {trustedDeviceToggle}

mfaPolicy == Live("mfaPolicy", "no")
MfaPolicyControl == {mfaPolicy}

resetUserMfa == ConfirmModal("resetUserMfa", "row", "settled")
MfaUsersTable == {resetUserMfa}

revokeDevice == ConfirmModal("revokeDevice", "row", "settled")
revokeAllDevices == ConfirmModal("revokeAllDevices", "one", "settled")
TrustedDevicesSection == {revokeDevice, revokeAllDevices}

===============================================================================
