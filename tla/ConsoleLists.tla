----------------------------- MODULE ConsoleLists -----------------------------
(***************************************************************************)
(* The parts of the console that show what the server has, through the     *)
(* query cache: the firmware tab and the queries of the pages.             *)
(***************************************************************************)
EXTENDS ConsoleTab, Integers, Sequences

CONSTANTS
    Initial, MaxActions,      \* the firmware tab
    MaxNow                    \* the queries

Fw == INSTANCE FirmwareTab WITH
         hist <- p1, list <- p2,
         check <- p3, pending <- p4, when <- p5, touched <- p6, create <- p7

Qu == INSTANCE ConsolePages WITH
         query <- p1, mutation <- p2, view <- p3, now <- p4,
         cache <- p5, writing <- p6, owed <- p7

\* The device's earlier actions have the statuses a reader finds.
ASSUME InitialAssumption == Initial \subseteq Seq(Fw!Statuses)
ASSUME MaxNowAssumption == MaxNow \in Nat \ {0}

ListsInit ==
    \/ part = "firmware" /\ Fw!Init /\ Unused8
    \/ part = "queries"  /\ Qu!Init /\ Unused8

ListsNext ==
    \/ part = "firmware" /\ Fw!Next /\ UNCHANGED <<part, Rest8>>
    \/ part = "queries"  /\ Qu!Next /\ UNCHANGED <<part, Rest8>>

ListsSpec == ListsInit /\ [][ListsNext]_vars

(* Firmware tab: when the request that created an action ends with a fresh  *)
(* list, the list contains the action (useCreateFirmwareAction, onSuccess). *)
ReadYourWrites == [][part = "firmware" => Fw!ReadStep]_vars

(* Firmware tab: an update or upgrade is confirmed only while the last check *)
(* on this page reports it, and is scheduled only for a time set in the      *)
(* dialog that confirms it (FirmwareActions, open).                          *)
ConfirmsTheOffered == part = "firmware" => Fw!DialogMatchesCheck /\ Fw!TimeIsTheDialogs

(* Firmware tab: the page implements ServerView; it never goes back to an   *)
(* older list than the one it has shown.                                    *)
View == INSTANCE ServerView WITH now <- IF part = "firmware" THEN Fw!now ELSE 1,
                                 shown <- IF part = "firmware" THEN p2.data ELSE 0
ShowsForward == View!Spec

(* Queries: what a page shows was requested for the tenant, device, filter  *)
(* or window the page is about (the query keys of all hooks).               *)
ShownIsAsked == part = "queries" => Qu!ShownIsAsked

(* Queries: after a mutation, the first answer the page shows contains it   *)
(* (the onSuccess of the mutations, but for the five the property names).    *)
WritesAreShown == part = "queries" => Qu!WritesAreShown

(* Queries: a page says that there is nothing only when the server said so, *)
(* not while it waits or after a failure (the early returns of the pages).  *)
EmptyIsTrue == part = "queries" => Qu!EmptyIsTrue

===============================================================================
