----------------------------- MODULE ConsoleShell -----------------------------
(***************************************************************************)
(* The parts of the console around its pages: signing in and out, the      *)
(* active tenant and the language.                                         *)
(***************************************************************************)
EXTENDS ConsoleTab, Naturals

CONSTANTS
    MaxLogins, MaxFaults,     \* the session
    Tenants, MaxMoves,        \* the tenant: how often its memberships change
    Locales, MaxReloads       \* the language

\* Tenants are numbered from 1, and the locales include those a browser's languages resolve to.
ASSUME ShellAssumption ==
    /\ {MaxLogins, MaxFaults, MaxMoves, MaxReloads} \subseteq Nat
    /\ Tenants \subseteq Nat \ {0}
    /\ {"en", "it", "zh-TW"} \subseteq Locales

Se == INSTANCE Session WITH
         session <- p1, logins <- p2,
         enrolled <- p3, required <- p4, faults <- p5, me <- p6, route <- p7,
         step <- p8, passkey <- p9, status <- p10, wizard <- p11,
         issued <- p12, forgotten <- p13

Te == INSTANCE ActiveTenant WITH
         MaxChanges <- MaxMoves, mine <- p1, changes <- p2,
         list <- p3, persisted <- p4, storage <- p5, storedId <- p6,
         picked <- p7

La == INSTANCE Locale WITH
         MaxLoads <- MaxReloads, locale <- p1,
         stored <- p2, cache <- p3, chunks <- p4, effect <- p5, dict <- p6,
         loads <- p7

ShellInit ==
    \/ part = "session"  /\ Se!Init
    \/ part = "tenant"   /\ Te!Init /\ Unused8
    \/ part = "language" /\ La!Init /\ Unused8

ShellNext ==
    \/ part = "session"  /\ Se!Next /\ UNCHANGED part
    \/ part = "tenant"   /\ Te!Next /\ UNCHANGED <<part, Rest8>>
    \/ part = "language" /\ La!Next /\ UNCHANGED <<part, Rest8>>

ShellSpec == ShellInit /\ [][ShellNext]_vars

(* Session: a session that still has to enrol its second factor never gets  *)
(* the console (ProtectedRoute).                                            *)
GateFirst == part = "session" => Se!GateFirst

(* Session: nothing fetched in a session that was logged out is shown again *)
(* (AppShell, logout).                                                      *)
LogoutForgets == part = "session" => Se!LogoutForgets

(* Session: a refetch that brings nothing new leaves the enrolment wizard   *)
(* where it is (ProtectedRoute, MfaPanel: only the first load spins).       *)
RefetchKeepsWizard == [][part = "session" => Se!RefetchStep]_vars

(* Tenant: the picked tenant stays active through refetches, failures and   *)
(* reloads while the user belongs to it (TenantProvider).                   *)
PickSurvives == part = "tenant" => Te!PickSurvives

(* Language: the text is that of the locale once its dictionary is in       *)
(* memory, and English until then (I18nProvider).                           *)
TextFollowsLocale == part = "language" => La!TextFollowsLocale

===============================================================================
