----------------------------- MODULE ConsoleHooks -----------------------------
(***************************************************************************)
(* The data hooks of the web console (frontend/src, the *Hooks.ts and      *)
(* hooks.ts files and the pages that call useQuery themselves): for a      *)
(* query, the parameters in its key, the parameters its request depends    *)
(* on, when it runs, and what of the server's state it reads; for a        *)
(* mutation, what it changes on the server and what its onSuccess does to  *)
(* the cache.  ConsoleQueries gives them their behaviour.                  *)
(***************************************************************************)
EXTENDS FiniteSets

\* A query that runs whenever it is mounted, from the parameters in its key.
Query(params, resource) ==
    [key |-> params, uses |-> params, reads |-> resource, runs |-> "always",
     lenient |-> FALSE, polls |-> FALSE]

\* enabled: the parameters have to be set before it runs.
Gated(params, resource) == [Query(params, resource) EXCEPT !.runs = "gated"]

\* queryFn answers an HTTP error with an empty value instead of throwing.
Lenient(query) == [query EXCEPT !.lenient = TRUE]

\* A mutation that changes these things on the server, and whose onSuccess
\* invalidates the queries of them, or stores the answer in their place.
Invalidates(resource, others) ==
    [writes |-> {resource} \cup others, refreshes |-> {resource} \cup others, effect |-> "invalidate"]
Stores(resource) == [writes |-> {resource}, refreshes |-> {resource}, effect |-> "store"]
\* A mutation without onSuccess.
Silent(resource) == [writes |-> {resource}, refreshes |-> {}, effect |-> "none"]
\* The handler on the server changes these as well, and onSuccess leaves them.
AlsoWrites(mutation, resources) == [mutation EXCEPT !.writes = @ \cup resources]

T == {"tenant"}
D == {"tenant", "device"}

\* --- the session and the tenants -------------------------------------------
meQuery == Lenient(Query({}, "me"))
myTenantsQuery == Lenient(Query({}, "tenants"))
useAllTenants == Query({}, "tenants")
useSessions == Query({}, "sessions")
useTrustedDevices == [Query({}, "trusted_devices") EXCEPT !.runs = "gated"]
useRevokeTrustedDevice == Invalidates("trusted_devices", {})
useRevokeAllTrustedDevices == Invalidates("trusted_devices", {})

\* --- second factors ----------------------------------------------------------
useMfaStatus == Query({}, "mfa_status")
useMfaConfirm == Invalidates("mfa_status", {})
useMfaDisable == AlsoWrites(Invalidates("mfa_status", {}), {"trusted_devices"})
useMfaRegenerate == Invalidates("mfa_status", {})
useWebAuthnCredentials == [Query({}, "passkeys") EXCEPT !.runs = "gated"]
useAddPasskey == Invalidates("passkeys", {"mfa_status"})
useRemovePasskey == Invalidates("passkeys", {"mfa_status"})
useMfaPolicy == Query({}, "mfa_policy")
useSetMfaPolicy == Stores("mfa_policy")
useTrustedDeviceToggle == Query({}, "trusted_toggle")
useSetTrustedDeviceToggle == AlsoWrites(Invalidates("trusted_toggle", {}), {"mfa_status"})
useUsers == Query({}, "users")
\* The user may be oneself.
useResetUserMfa == AlsoWrites(Invalidates("users", {}), {"mfa_status", "trusted_devices"})

\* --- administration ----------------------------------------------------------
useSmtpSettings == Query({}, "smtp")
useUpdateSmtpSettings == Stores("smtp")
useLivePush == Query({}, "live_push")
useSetLivePush == Stores("live_push")
useRuntimeSettings == Query({}, "runtime_settings")
useUpdateRuntimeSettings == Stores("runtime_settings")
useGroups == Query({}, "groups")
useCreateGroup == Invalidates("groups", {})
useUpdateGroup == Invalidates("groups", {})
useDeleteGroup == Invalidates("groups", {})
useSetGroupMembers == Invalidates("groups", {})
useAddGroupGrant == Invalidates("groups", {})
useDeleteGroupGrant == Invalidates("groups", {})
useAuditQueryPartKey == [Query({"actor", "tenant", "action", "frm", "to", "offset"}, "audit")
                           EXCEPT !.key = @ \ {"offset"}]
useAuditQuery == Query({"actor", "tenant", "action", "frm", "to", "offset"}, "audit")
useSilentTenantAlertsOnce == Query({}, "silent_alerts")
useSilentTenantAlerts == [Query({}, "silent_alerts") EXCEPT !.polls = TRUE]
useLogFleet == Query({"window"}, "log_fleet")
useLogFleetDevices == Gated({"tenant", "window"}, "log_fleet")

\* --- the fleet ---------------------------------------------------------------
devicesQuery == Lenient(Gated(T, "devices"))
useTenantDevices == Gated(T, "devices")
createDevice == Invalidates("devices", {})
deviceQuery == Gated(D, "device")
testDevice == Invalidates("device", {"devices"})
removeDevice == Invalidates("devices", {})
useTenantHealth == Gated(T, "health")
useAlerts == Gated(T \cup {"active"}, "alerts")
useDeviceMetrics == Gated(D \cup {"metric", "range"}, "metrics")
useMetricLabels == Lenient(Gated(D, "metric_labels"))
useAttackerCountries == Gated(T \cup {"frm", "to"}, "attackers")
usePerimeterAttackers == Gated(T \cup {"kind", "frm", "to", "limit"}, "attackers")
useReliabilityEvents == Gated(D, "events")
useReliabilitySummary == Gated(T \cup {"frm"}, "events")
useConfigAuditEvents == Gated(D, "events")
useConfigAuditSummary == Gated(T \cup {"frm"}, "events")

\* --- a device's configuration -------------------------------------------------
useConfigModel == Gated(D, "config")
useConfigCapabilities == Gated(D, "capabilities")
useConfigChanges == Gated(D, "config_changes")
useCreateChange == Invalidates("config_changes", {})
useScheduleChange == Invalidates("config_changes", {})
useCancelChange == Invalidates("config_changes", {})
useRevertChange == Invalidates("config_changes", {})
useApplyTemplate == Invalidates("config_changes", {})
useApplyProfile == Invalidates("config_changes", {})
useProposeCatalogChange == Silent("config_changes")
useDriftCheck == [Query(D, "drift") EXCEPT !.runs = "asked"]
usePreviewChange == Gated(D \cup {"change"}, "preview")
useDeviceCatalog == Gated(D, "catalog")
useCatalogModel == Gated(D \cup {"model"}, "config")
useCatalogDiff == Gated(D \cup {"from"}, "catalog")
useConfigMap == Gated(D, "config")
useLogForwardingStatus == Gated(D, "forwarding")
useEnableLogForwarding == Invalidates("forwarding", {})
useDisableLogForwarding == Invalidates("forwarding", {})
useRotateLogForwarding == Invalidates("forwarding", {})
useRevokeLogForwarding == Invalidates("forwarding", {})
useDevicePlugins == Gated(D, "plugins")
usePluginModels == Lenient(Gated(D, "plugins"))

\* --- templates, profiles and reports --------------------------------------------
useTemplates == Query({}, "templates")
useCreateTemplate == Invalidates("templates", {})
useUpdateTemplate == Invalidates("templates", {})
\* A profile loses the deleted template.
useDeleteTemplate == AlsoWrites(Invalidates("templates", {}), {"profiles"})
useSettingEndpoints == Query({}, "endpoints")
useProfiles == Query({}, "profiles")
useCreateProfile == Invalidates("profiles", {})
useUpdateProfile == Invalidates("profiles", {})
useDeleteProfileQuiet == Silent("profiles")
useDeleteProfile == Invalidates("profiles", {})
useGeneratedReports == Gated(T, "reports")
useGenerateReport == Invalidates("reports", {})
useReportSchedules == Gated(T, "schedules")
useUpsertReportSchedule == Invalidates("schedules", {})
useDeleteReportSchedule == Invalidates("schedules", {})
useReportSettings == Gated(T, "report_settings")
useReportLanguages == Gated(T, "languages")
useUpdateReportSettings == Invalidates("report_settings", {})
useUploadLogo == Invalidates("report_settings", {})
useDeleteLogo == Invalidates("report_settings", {})
useRetention == Gated(T, "retention")
useUpdateRetention == Invalidates("retention", {})

===============================================================================
