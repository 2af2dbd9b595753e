---------------------------- MODULE ConsoleQueries ----------------------------
(***************************************************************************)
(* A page of the console that shows one query and offers one mutation of   *)
(* what it reads (ConsoleHooks), over the cache of QueryCache.  The page's *)
(* parameters (tenant, device, filter, window...) start at one value each; *)
(* the user moves one of them to another value and back, so a view is      *)
(* "base" or the parameter that was moved.  Every change of the server's   *)
(* state, by this page or by somebody else, gets the next number.          *)
(***************************************************************************)
EXTENDS ConsoleHooks, QueryCache

CONSTANTS MaxNow    \* how often the server's state changes

VARIABLES query,    \* the hook on the page
          mutation, \* the mutation the page offers
          view,     \* what the page is about: "base", a moved parameter, or "unset"
          now,      \* number of the server's present state
          cache,    \* per key: the entry, and the view its data was requested for
          writing,  \* the mutation's request in flight: the view it was made from
          owed      \* the state the page has promised to show

vars == <<query, mutation, view, now, cache, writing, owed>>

Queries ==
    {meQuery, myTenantsQuery, useAllTenants, useSessions, useTrustedDevices, useMfaStatus,
     useWebAuthnCredentials, useMfaPolicy, useTrustedDeviceToggle, useUsers, useSmtpSettings,
     useLivePush, useRuntimeSettings, useGroups, useAuditQuery, useSilentTenantAlerts, useLogFleet,
     useLogFleetDevices, devicesQuery, useTenantDevices, deviceQuery, useTenantHealth, useAlerts,
     useDeviceMetrics, useMetricLabels, useAttackerCountries, usePerimeterAttackers,
     useReliabilityEvents, useReliabilitySummary, useConfigAuditEvents, useConfigAuditSummary,
     useConfigModel, useConfigCapabilities, useConfigChanges, useDriftCheck, usePreviewChange,
     useDeviceCatalog, useCatalogModel, useCatalogDiff, useConfigMap, useLogForwardingStatus,
     useDevicePlugins, usePluginModels, useTemplates, useSettingEndpoints, useProfiles,
     useGeneratedReports, useReportSchedules, useReportSettings, useReportLanguages, useRetention}

Mutations ==
    {useRevokeTrustedDevice, useRevokeAllTrustedDevices, useMfaConfirm, useMfaDisable, useMfaRegenerate,
     useAddPasskey, useRemovePasskey, useSetMfaPolicy, useSetTrustedDeviceToggle, useResetUserMfa,
     useUpdateSmtpSettings, useSetLivePush, useUpdateRuntimeSettings, useCreateGroup, useUpdateGroup,
     useDeleteGroup, useSetGroupMembers, useAddGroupGrant, useDeleteGroupGrant, createDevice, testDevice,
     removeDevice, useCreateChange, useScheduleChange, useCancelChange, useRevertChange, useApplyTemplate,
     useApplyProfile, useProposeCatalogChange, useEnableLogForwarding, useDisableLogForwarding, useRotateLogForwarding,
     useRevokeLogForwarding, useCreateTemplate, useUpdateTemplate, useDeleteTemplate, useCreateProfile,
     useUpdateProfile, useDeleteProfile, useGenerateReport, useUpsertReportSchedule,
     useDeleteReportSchedule, useUpdateReportSettings, useUploadLogo, useDeleteLogo, useUpdateRetention}

\* A query nobody on the page writes to.
Nothing == [writes |-> {}, refreshes |-> {}, effect |-> "none"]

Offered(q) == {m \in Mutations : q.reads \in m.writes}

Views(q) == {"base"} \cup q.uses \cup (IF q.runs = "gated" THEN {"unset"} ELSE {})

\* The cache key of a view: a parameter that is not in the key does not count.
Key(v) == IF v \in query.key \cup {"unset"} THEN v ELSE "base"

Entry == cache[Key(view)]
Enabled(v) == query.runs # "asked" /\ v # "unset"

\* Sends the request of view v into its entry: "of" is what it was sent for.
Send(entry, v, at, how(_, _)) ==
    LET e == how([data |-> entry.data, sent |-> entry.sent], at)
    IN  [data |-> e.data, sent |-> e.sent, of |-> entry.of,
         for |-> IF e.sent # entry.sent \/ entry.sent = 0 THEN v ELSE entry.for]

Blank == [data |-> 0, sent |-> 0, of |-> "none", for |-> "none"]

Init == /\ query \in Queries
        /\ mutation \in (IF Offered(query) = {} THEN {Nothing} ELSE Offered(query))
        /\ view = "base" /\ now = 1 /\ writing = "none" /\ owed = 0
        /\ \E v \in Views(query) : cache = [k \in {"base", v} |->
               IF k = "base" /\ query.runs # "asked"
                 THEN [Blank EXCEPT !.sent = 1, !.for = "base"] ELSE Blank]

\* The user moves to another tenant, device, filter...: the hook mounts the
\* query of that key, and refetches it (staleTime is 0).
Move(v) == /\ v # view
           /\ view' = v /\ owed' = 0
           /\ cache' = IF Enabled(v) THEN [cache EXCEPT ![Key(v)] = Send(@, v, now, Fetch)] ELSE cache
           /\ UNCHANGED <<query, mutation, now, writing>>

\* The window regains the focus, or the interval of a polling query elapses.
Refetch == /\ Enabled(view) /\ Entry.sent = 0
           /\ cache' = [cache EXCEPT ![Key(view)] = Send(@, view, now, Fetch)]
           /\ UNCHANGED <<query, mutation, view, now, writing, owed>>

Poll == query.polls /\ Refetch

\* refetch() from a button.
Ask == /\ query.runs = "asked" /\ Entry.sent = 0
       /\ cache' = [cache EXCEPT ![Key(view)] = Send(@, view, now, Fetch)]
       /\ UNCHANGED <<query, mutation, view, now, writing, owed>>

Write == /\ writing = "none" /\ mutation # Nothing /\ view # "unset" /\ now < MaxNow
         /\ writing' = view
         /\ UNCHANGED <<query, mutation, view, now, cache, owed>>

\* The server has made the change: onSuccess runs with the parameters of the
\* page as it is rendered by then.
Written ==
    /\ writing # "none"
    /\ now' = now + 1 /\ writing' = "none"
    /\ cache' = IF query.reads \notin mutation.refreshes THEN cache
                ELSE IF mutation.effect = "store"
                  THEN [cache EXCEPT ![Key(view)].data = now + 1, ![Key(view)].of = view]
                ELSE IF mutation.effect = "invalidate" /\ view # "unset"
                  THEN [cache EXCEPT ![Key(view)] = Send(@, view, now + 1, Invalidate)]
                ELSE cache
    /\ owed' = IF mutation.effect # "store" /\ writing = view /\ Entry.data # 0 THEN now + 1 ELSE owed
    /\ UNCHANGED <<query, mutation, view>>

\* The request, or its answer, is lost: nothing is promised.
WriteFailed == /\ writing # "none" /\ writing' = "none"
               /\ now' \in {now, now + 1}
               /\ UNCHANGED <<query, mutation, view, cache, owed>>

\* Somebody else, or the worker, changes what the query reads.
Elsewhere == /\ now < MaxNow /\ writing = "none"
             /\ now' = now + 1
             /\ UNCHANGED <<query, mutation, view, cache, writing, owed>>

\* An answer arrives, for the view on the page or for one left behind.
Answer(k) ==
    \E v \in Answers(cache[k], now) :
       /\ cache' = [cache EXCEPT ![k] = [data |-> v, sent |-> 0, of |-> cache[k].for, for |-> "none"]]
       /\ UNCHANGED <<query, mutation, view, now, writing, owed>>

\* The request fails: it throws and the data stays, or a lenient queryFn
\* stores an empty value in its place.
FetchFailed(k) ==
    /\ cache[k].sent # 0
    /\ cache' = [cache EXCEPT ![k] =
                   IF query.lenient THEN [data |-> -1, sent |-> 0, of |-> cache[k].for, for |-> "none"]
                   ELSE [@ EXCEPT !.sent = 0, !.for = "none"]]
    /\ owed' = IF k = Key(view) THEN 0 ELSE owed
    /\ UNCHANGED <<query, mutation, view, now, writing>>

Next == \/ \E v \in DOMAIN cache : Move(v) \/ Answer(v) \/ FetchFailed(v)
        \/ Refetch \/ Ask \/ Write \/ Written \/ WriteFailed \/ Elsewhere

Spec == Init /\ [][Next]_vars

\* The interval timer fires, and a query that keeps asking is answered.
FairSpec == /\ Spec /\ WF_vars(Poll)
            /\ SF_vars(\E v \in DOMAIN cache : Answer(v))

TypeOK == /\ query \in Queries /\ mutation \in Mutations \cup {Nothing}
          /\ now \in 1 .. MaxNow /\ owed \in 0 .. now /\ writing \in Views(query) \cup {"none"}
          /\ view \in DOMAIN cache /\ DOMAIN cache \subseteq Views(query)
          /\ \A k \in DOMAIN cache : cache[k].data \in -1 .. now /\ cache[k].sent \in 0 .. now

(* What the page shows was requested for what the page is about: no hook's  *)
(* key leaves out a parameter its request depends on, so an answer for      *)
(* another tenant, device, filter or page is never taken for this one.      *)
ShownIsAsked == Entry.data # 0 => Entry.of = view

(* After a mutation of what the page shows, the first list that arrives     *)
(* contains it, whatever requests were in flight: onSuccess invalidates the *)
(* query of every hook that reads what the mutation wrote.  The mutations   *)
(* named here refresh less than they write.                                 *)
OwedIsShown == owed # 0 /\ writing = "none" /\ Entry.sent = 0 => Entry.data >= owed
RefreshesLess(m, resource) ==
    \/ m = useProposeCatalogChange /\ resource = "config_changes"
    \/ m = useMfaDisable /\ resource = "trusted_devices"
    \/ m = useSetTrustedDeviceToggle /\ resource = "mfa_status"
    \/ m = useResetUserMfa /\ resource \in {"mfa_status", "trusted_devices"}
    \/ m = useDeleteTemplate /\ resource = "profiles"
WritesAreShown == OwedIsShown \/ RefreshesLess(mutation, query.reads)

(* The design of the catalogue editor says of a proposal: "On success the   *)
(* draft appears in the device's existing Changes panel", which is mounted  *)
(* in the tab beside the editor's.                                          *)
ProposalAppears == mutation = useProposeCatalogChange => OwedIsShown

(* The banner of silent tenants follows the worker without the user doing   *)
(* anything: every state of the server that lasts is shown.                 *)
CaughtUp == query = useSilentTenantAlerts => Entry.data = now
AlertsCatchUp == []<>CaughtUp

\* The inductive invariant behind ShownIsAsked, WritesAreShown and EmptyIsTrue.
\* An entry of the cache was asked for, and answered, for its own key; an
\* empty value in place of an error is only stored by a lenient query.
Names == Views(query) \cup {"none"}
Entries == [data : Int, sent : Nat, of : Names, for : Names]
OwnEntry(k, e) ==
    /\ e.sent # 0 => e.for = k
    /\ e.data # 0 => e.of = k
    /\ e.data < 0 => query.lenient
EntryInv ==
    /\ query \in Queries
    /\ now \in Nat \ {0}
    /\ view \in DOMAIN cache /\ DOMAIN cache \subseteq Views(query)
    /\ cache \in [DOMAIN cache -> Entries]
    /\ \A k \in DOMAIN cache : OwnEntry(k, cache[k])

\* What the page owes is on its way, or there.
WriteInv ==
    /\ mutation \in Offered(query) \cup {Nothing}
    /\ writing # "none" => mutation # Nothing /\ writing # "unset"
Owes(e) == IF e.sent # 0 THEN e.sent >= owed ELSE e.data >= owed
OwedInv ==
    /\ owed \in Nat /\ owed <= now
    /\ owed # 0 => Owes(Entry) \/ RefreshesLess(mutation, query.reads)

SafeInv == EntryInv /\ WriteInv /\ OwedInv

\* A mutation in flight has its change of the server's state before it, and no
\* entry holds, or asks for, a state the server has not reached.
BoundInv ==
    /\ now <= MaxNow /\ writing \in Names
    /\ writing # "none" => now < MaxNow
    /\ \A k \in DOMAIN cache : cache[k].data \in -1 .. now /\ cache[k].sent \in 0 .. now

===============================================================================
