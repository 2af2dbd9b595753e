--------------------------- MODULE Console_proofs ---------------------------
(***************************************************************************)
(* Proofs about the console as a whole: what ConsoleShellLists_proofs,     *)
(* ConsoleForms_proofs and ConsoleRows_proofs show of a group of parts     *)
(* holds of Console's own specification.                                   *)
(*                                                                         *)
(* The part on screen never changes, so a behaviour of the console either  *)
(* is one of the group its part belongs to, or never shows a part of that  *)
(* group, and then what is said of the group holds of it trivially.        *)
(***************************************************************************)
EXTENDS Console, ConsoleShellLists_proofs, ConsoleForms_proofs, ConsoleRows_proofs

InShell == part \in {"session", "tenant", "language"}
InForms == part \in {"editors", "catalog", "fields"}
InLists == part \in {"firmware", "queries"}
InRows == part \in {"timeline", "logs"}

\* A step of the console is one of the group of its part.
LEMMA ConsoleStep ==
    ASSUME [Next]_vars
    PROVE  /\ part' = part
           /\ InShell => [ShellNext]_vars
           /\ InForms => [FormsNext]_vars
           /\ InLists => [ListsNext]_vars
           /\ InRows => [RowsNext]_vars
BY Zenon DEF Next, ShellNext, FormsNext, ListsNext, RowsNext, InShell, InForms, InLists, InRows, vars

\* The console starts as the group of its part does.
LEMMA ConsoleStart ==
    ASSUME Init
    PROVE  /\ InShell => ShellInit
           /\ InForms => FormsInit
           /\ InLists => ListsInit
           /\ InRows => RowsInit
BY Zenon DEF Init, ShellInit, FormsInit, ListsInit, RowsInit, InShell, InForms, InLists, InRows

\* The console on a part around the pages is a behaviour of that group.
LEMMA IsShell == Spec => (InShell /\ ShellSpec) \/ []~InShell
<1>1. [Next]_vars /\ InShell => [ShellNext]_vars /\ InShell'
  BY ConsoleStep, Zenon DEF InShell
<1>2. [Next]_vars /\ ~InShell => ~InShell'
  BY ConsoleStep, Zenon DEF InShell
<1>3. Init /\ InShell => ShellInit
  BY ConsoleStart, Zenon
<1> QED BY <1>1, <1>2, <1>3, PTL DEF Spec, ShellSpec

\* The console on a part that changes something is a behaviour of that group.
LEMMA IsForms == Spec => (InForms /\ FormsSpec) \/ []~InForms
<1>1. [Next]_vars /\ InForms => [FormsNext]_vars /\ InForms'
  BY ConsoleStep, Zenon DEF InForms
<1>2. [Next]_vars /\ ~InForms => ~InForms'
  BY ConsoleStep, Zenon DEF InForms
<1>3. Init /\ InForms => FormsInit
  BY ConsoleStart, Zenon
<1> QED BY <1>1, <1>2, <1>3, PTL DEF Spec, FormsSpec

\* The console on a part that shows cached queries is a behaviour of that group.
LEMMA IsLists == Spec => (InLists /\ ListsSpec) \/ []~InLists
<1>1. [Next]_vars /\ InLists => [ListsNext]_vars /\ InLists'
  BY ConsoleStep, Zenon DEF InLists
<1>2. [Next]_vars /\ ~InLists => ~InLists'
  BY ConsoleStep, Zenon DEF InLists
<1>3. Init /\ InLists => ListsInit
  BY ConsoleStart, Zenon
<1> QED BY <1>1, <1>2, <1>3, PTL DEF Spec, ListsSpec

\* The console on a part that shows pages of rows is a behaviour of that group.
LEMMA IsRows == Spec => (InRows /\ RowsSpec) \/ []~InRows
<1>1. [Next]_vars /\ InRows => [RowsNext]_vars /\ InRows'
  BY ConsoleStep, Zenon DEF InRows
<1>2. [Next]_vars /\ ~InRows => ~InRows'
  BY ConsoleStep, Zenon DEF InRows
<1>3. Init /\ InRows => RowsInit
  BY ConsoleStart, Zenon
<1> QED BY <1>1, <1>2, <1>3, PTL DEF Spec, RowsSpec

\* A session that still has to enrol its second factor never gets the console (ProtectedRoute).
THEOREM ConsoleGate == Spec => []GateFirst
<1>1. ~InShell => GateFirst
  BY Zenon DEF GateFirst, InShell
<1> QED BY <1>1, IsShell, GateComesFirst, PTL

\* Nothing fetched in a session that was logged out is shown again (AppShell, logout).
THEOREM ConsoleForgets == Spec => []LogoutForgets
<1>1. ~InShell => LogoutForgets
  BY Zenon DEF LogoutForgets, InShell
<1> QED BY <1>1, IsShell, LoggedOutIsForgotten, PTL

\* The picked tenant stays the active one while every list contains it (TenantProvider).
THEOREM ConsolePick == Spec => []PickSurvives
<1>1. ~InShell => PickSurvives
  BY Zenon DEF PickSurvives, InShell
<1> QED BY <1>1, IsShell, ChosenTenantStays, PTL

\* The text is that of the locale once its dictionary is in memory (I18nProvider).
THEOREM ConsoleText == Spec => []TextFollowsLocale
<1>1. ~InShell => TextFollowsLocale
  BY Zenon DEF TextFollowsLocale, InShell
<1> QED BY <1>1, IsShell, TextIsOfLocale, PTL

\* What is sent to a row or a tenant was filled in for it (the seeds of the dialogs and forms).
THEOREM ConsoleDrafts == Spec => []DraftIsOurs
<1>1. ~InForms => DraftIsOurs
  BY Zenon DEF DraftIsOurs, InForms
<1> QED BY <1>1, IsForms, DraftsAreOurs, PTL

\* One opening of a dialog gets at most one request acknowledged (the loading buttons).
THEOREM ConsoleAcknowledged == Spec => []AcknowledgedOnce
<1>1. ~InForms => AcknowledgedOnce
  BY Zenon DEF AcknowledgedOnce, InForms
<1> QED BY <1>1, IsForms, AcknowledgedAtMostOnce, PTL

\* Every value in a template body is of the endpoint the body names (loadFields).
THEOREM ConsolePayload == Spec => []PayloadIsOfEndpoint
<1>1. ~InForms => PayloadIsOfEndpoint
  BY Zenon DEF PayloadIsOfEndpoint, InForms
<1> QED BY <1>1, IsForms, PayloadSafe, PTL

\* What a page shows was requested for what the page is about (the query keys).
THEOREM ConsoleAsked == Spec => []ShownIsAsked
<1>1. ~InLists => ShownIsAsked
  BY Zenon DEF ShownIsAsked, InLists
<1> QED BY <1>1, IsLists, ShownIsOurs, PTL

\* The first answer shown after a mutation contains it (the onSuccess of the mutations).
THEOREM ConsoleWrites == Spec => []WritesAreShown
<1>1. ~InLists => WritesAreShown
  BY Zenon DEF WritesAreShown, InLists
<1> QED BY <1>1, IsLists, WritesComeBack, PTL

\* A page says that there is nothing only when the server said so (the early returns).
THEOREM ConsoleEmpty == Spec => []EmptyIsTrue
<1>1. ~InLists => EmptyIsTrue
  BY Zenon DEF EmptyIsTrue, InLists
<1> QED BY <1>1, IsLists, NothingIsTrue, PTL

\* No event is listed twice or skipped (useReliabilityEvents, useConfigAuditEvents).
THEOREM ConsoleEvents == Spec => []NoEventSkipped
<1>1. ~InRows => NoEventSkipped
  BY Zenon DEF NoEventSkipped, InRows
<1> QED BY <1>1, IsRows, NothingSkipped, PTL

\* The hits are an unbroken run of the lines of the last search (LogsPage).
THEOREM ConsoleHits == Spec => []HitsAreTheSearch
<1>1. ~InRows => HitsAreTheSearch
  BY Zenon DEF HitsAreTheSearch, InRows
<1> QED BY <1>1, IsRows, HitsOfTheSearch, PTL

\* A refetch that brings nothing new leaves the enrolment wizard at its step (MfaPanel).
THEOREM ConsoleWizard == Spec => RefetchKeepsWizard
<1>1. ~InShell => [part = "session" => Se!RefetchStep]_vars
  BY Zenon DEF InShell
<1> QED BY <1>1, IsShell, RefetchLeavesWizard, PTL DEF Spec, RefetchKeepsWizard

\* Saving the runtime settings or the SMTP secrets changes only the edited fields.
THEOREM ConsoleUntouched == Spec => UntouchedKept
<1>1. ~InForms => [part = "editors" => Ed!SaveStep]_vars
  BY Zenon DEF InForms
<1> QED BY <1>1, IsForms, UntouchedIsKept, PTL DEF Spec, UntouchedKept

\* A proposal turns what the device last said into what the form shows (build).
THEOREM ConsoleProposals == Spec => ProposalIsTheForm
<1>1. ~InForms => [part = "catalog" => Ca!ProposalStep]_vars
  BY Zenon DEF InForms
<1> QED BY <1>1, IsForms, ProposalsAreTheForm, PTL DEF Spec, ProposalIsTheForm

\* The list that ends the creation of a firmware action contains it (onSuccess).
THEOREM ConsoleReads == Spec => ReadYourWrites
<1>1. ~InLists => [part = "firmware" => Fw!ReadStep]_vars
  BY Zenon DEF InLists
<1> QED BY <1>1, IsLists, CreatedIsShown, PTL DEF Spec, ReadYourWrites

\* The firmware tab never goes back to an older list than one it has shown, and no other part pretends
\* to show one (useFirmwareActions).
THEOREM ConsoleForward == Spec => ShowsForward
<1>1. Init /\ ~InLists => View!Init
  BY Zenon DEF View!Init, InLists
<1>2. [Next]_vars /\ ~InLists
      => UNCHANGED <<IF part = "firmware" THEN Fw!now ELSE 1, IF part = "firmware" THEN p2.data ELSE 0>>
  BY ConsoleStep, Zenon DEF InLists
<1> QED BY <1>1, <1>2, IsLists, FirmwareForward, PTL DEF Spec, ShowsForward, View!Spec

\* What is confirmed in the firmware tab is what the last check offers, at a time set in that dialog
\* (FirmwareActions, open).
THEOREM ConsoleConfirms == Spec => []ConfirmsTheOffered
<1>1. ~InLists => ConfirmsTheOffered
  BY Zenon DEF ConfirmsTheOffered, InLists
<1> QED BY <1>1, IsLists, DialogSafe, PTL

(***************************************************************************)
(* The types of the whole console                                          *)
(***************************************************************************)

Somewhere == InShell \/ InForms \/ InLists \/ InRows

\* The console is always on one of its parts.
LEMMA IsSomewhere == Spec => []Somewhere
<1>1. Init => Somewhere
  BY Zenon DEF Init, ShellInit, FormsInit, ListsInit, RowsInit, Somewhere, InShell, InForms, InLists, InRows
<1>2. Somewhere /\ [Next]_vars => Somewhere'
  BY ConsoleStep, Zenon DEF Somewhere, InShell, InForms, InLists, InRows
<1> QED BY <1>1, <1>2, PTL DEF Spec

\* The variables of the part on screen have their types, whichever it is: among others, no counter
\* passes its bound, no cached answer is of a state the server has not reached, and no field of a row
\* counts more than what was written to it.
THEOREM ConsoleTypes == Spec => []TypeOK
<1>1. ~InShell => ShellTypes
  BY Zenon DEF ShellTypes, InShell
<1>2. ~InForms => FormsTypes
  BY Zenon DEF FormsTypes, InForms
<1>3. ~InLists => ListsTypes
  BY Zenon DEF ListsTypes, InLists
<1>4. ~InRows => RowsTypes
  BY Zenon DEF RowsTypes, InRows
<1>5. Somewhere /\ ShellTypes /\ FormsTypes /\ ListsTypes /\ RowsTypes => TypeOK
  <2> SUFFICES ASSUME Somewhere, ShellTypes, FormsTypes, ListsTypes, RowsTypes PROVE TypeOK
    BY Zenon
  <2>1. CASE InShell
    BY <2>1, Zenon DEF InShell, ShellTypes, TypeOK
  <2>2. CASE InForms
    BY <2>2, Zenon DEF InForms, FormsTypes, TypeOK
  <2>3. CASE InLists
    BY <2>3, Zenon DEF InLists, ListsTypes, TypeOK
  <2>4. CASE InRows
    BY <2>4, Zenon DEF InRows, RowsTypes, TypeOK
  <2> QED BY <2>1, <2>2, <2>3, <2>4, Zenon DEF Somewhere
<1>6. Spec => []ShellTypes
  BY <1>1, IsShell, ShellTypesSafe, PTL
<1>7. Spec => []FormsTypes
  BY <1>2, IsForms, FormsTypesSafe, PTL
<1>8. Spec => []ListsTypes
  BY <1>3, IsLists, ListsTypesSafe, PTL
<1>9. Spec => []RowsTypes
  BY <1>4, IsRows, RowsTypesSafe, PTL
<1> QED BY <1>5, <1>6, <1>7, <1>8, <1>9, IsSomewhere, PTL
===============================================================================
