----------------------------- MODULE ConsolePages -----------------------------
(***************************************************************************)
(* What the pages and cards of the console show of the queries of          *)
(* ConsoleQueries: while the first answer is awaited, and after the first  *)
(* request has failed.  A page either says so, or shows what it shows for  *)
(* an empty list ("nothing here", a table without rows, a switched-off     *)
(* card).  A request that fails later leaves the last answer in the cache: *)
(* the page shows it below the error, or the error instead.                *)
(***************************************************************************)
EXTENDS ConsoleQueries

\* Loader while the first answer is awaited, Alert when it failed.
Page(name, shows) == [name |-> name, shows |-> shows, loading |-> "loader", failed |-> "error"]
\* `data ?? []`, or `data && data.length > 0 ? table : empty`, with no look at the state.
Unguarded(page) == [page EXCEPT !.loading = "nothing", !.failed = "nothing"]

OverviewPage == Page("OverviewPage", {useTenantHealth, useAlerts})
AttackerCountriesCard == Page("AttackerCountriesCard", {useAttackerCountries})
PerimeterCard == Page("PerimeterCard", {usePerimeterAttackers})
PerimeterTable == Page("PerimeterTable", {usePerimeterAttackers})
ReliabilityCard == Page("ReliabilityCard", {useReliabilitySummary})
ConfigAuditCard == Page("ConfigAuditCard", {useConfigAuditSummary})
AlertsPageUnguarded == [Page("AlertsPage", {useAlerts}) EXCEPT !.failed = "nothing"]
AlertsPage == Page("AlertsPage", {useAlerts})
DevicesPage == Page("DevicesPage", {devicesQuery})
DeviceDetailPage == Page("DeviceDetailPage", {deviceQuery})
ReliabilityTab == Page("ReliabilityTab", {useReliabilityEvents})
ConfigAuditTab == Page("ConfigAuditTab", {useConfigAuditEvents})
DeviceHealthSection == Unguarded(Page("DeviceHealthSection", {useMetricLabels}))
ChartFor == Unguarded(Page("ChartFor", {useDeviceMetrics}))
ConfigTab == Page("ConfigTab", {useConfigModel, useConfigCapabilities})
ChangesPanel == Page("ChangesPanel", {useConfigChanges})
PreviewModal == Page("PreviewModal", {usePreviewChange})
CatalogEditorTab == [Page("CatalogEditorTab", {useDeviceCatalog}) EXCEPT !.failed = "nothing"]
LogForwardingCard == [Page("LogForwardingCard", {useLogForwardingStatus}) EXCEPT !.failed = "nothing"]
PluginsTab == Page("PluginsTab", {useDevicePlugins})
ApplyTemplateTab == Unguarded(Page("ApplyTemplateTab", {useTemplates}))
ApplyProfileSection == Unguarded(Page("ApplyProfileSection", {useProfiles}))
TemplateLibraryPage == Unguarded(Page("TemplateLibraryPage", {useTemplates}))
ProfilesPanel == Unguarded(Page("ProfilesPanel", {useProfiles}))
LogFleetPage == Page("LogFleetPage", {useLogFleet})
TenantDevicesModal == Page("TenantDevicesModal", {useLogFleetDevices})
AuditPage == Page("AuditPage", {useAuditQuery})
ReportsPage == Page("ReportsPage", {useGeneratedReports})
ReportSettingsForm == Page("ReportSettingsForm", {useReportSettings})
ReportSchedulePage == Unguarded(Page("ReportSchedulePage", {useTenantDevices}))
RetentionCard == Page("RetentionCard", {useRetention})
SystemSettingsPage == Page("SystemSettingsPage", {useLivePush})
RuntimeSettingsSection == Page("RuntimeSettingsSection", {useRuntimeSettings})
SmtpSettingsPage == Unguarded(Page("SmtpSettingsPage", {useSmtpSettings}))
GroupsPage == Page("GroupsPage", {useGroups})
SessionsPage == Page("SessionsPage", {useSessions})
MfaPanel == Page("MfaPanel", {useMfaStatus})
MfaPolicyControl == Page("MfaPolicyControl", {useMfaPolicy})
MfaUsersTable == Page("MfaUsersTable", {useUsers})
PasskeysSection == Unguarded(Page("PasskeysSection", {useWebAuthnCredentials}))
TrustedDevicesSection == [Page("TrustedDevicesSection", {useTrustedDevices}) EXCEPT !.loading = "nothing"]

Pages ==
    {OverviewPage, AttackerCountriesCard, PerimeterCard, PerimeterTable, ReliabilityCard, ConfigAuditCard,
     AlertsPage, DevicesPage, DeviceDetailPage, ReliabilityTab, ConfigAuditTab, DeviceHealthSection, ChartFor,
     ConfigTab, ChangesPanel, PreviewModal, CatalogEditorTab, LogForwardingCard, PluginsTab,
     ApplyTemplateTab, ApplyProfileSection, TemplateLibraryPage, ProfilesPanel, LogFleetPage,
     TenantDevicesModal, AuditPage, ReportsPage, ReportSettingsForm, ReportSchedulePage, RetentionCard,
     SystemSettingsPage, RuntimeSettingsSection, SmtpSettingsPage, GroupsPage, SessionsPage, MfaPanel,
     MfaPolicyControl, MfaUsersTable, PasskeysSection, TrustedDevicesSection}

\* What a page shows of the query: an empty value stored in place of an error
\* cannot be told from the server's own.
Screen(p) == IF Entry.data # 0 THEN IF Entry.data > 0 THEN "answer" ELSE "nothing"
             ELSE IF Entry.sent # 0 THEN p.loading
             ELSE IF Enabled(view) THEN p.failed ELSE "not asked"

(* A page says that there is nothing only when the server said so, not while *)
(* it is still waiting or after the request failed.  The pages named here do *)
(* say it without knowing.                                                   *)
SayNothing ==
    {DevicesPage, DeviceHealthSection, ChartFor, CatalogEditorTab, LogForwardingCard,
     ApplyTemplateTab, ApplyProfileSection, TemplateLibraryPage, ProfilesPanel,
     ReportSchedulePage, SmtpSettingsPage, PasskeysSection, TrustedDevicesSection}
EmptyIsTrue == \A p \in Pages \ SayNothing : query \in p.shows => Screen(p) # "nothing"

===============================================================================
