------------------------------ MODULE ConsoleRows ------------------------------
(***************************************************************************)
(* The parts of the console that show a long list page by page: the        *)
(* timelines of events and the log search.                                 *)
(***************************************************************************)
EXTENDS ConsoleTab, Naturals, Sequences

CONSTANTS
    MaxTime, PageSize,        \* the timelines, and the page size of both lists
    MaxLines, MaxChanges      \* the log search

\* There is a line to number, and a page holds one.
ASSUME RowsAssumption ==
    /\ MaxTime \in Nat /\ MaxLines \in Nat \ {0} /\ PageSize \in Nat \ {0} /\ MaxChanges \in Nat

Ti == INSTANCE Timeline WITH
         events <- p1, pages <- p2, base <- p3,
         job <- p4, got <- p5

Lo == INSTANCE LogSearch WITH
         lines <- p1,
         form <- p2, tenant <- p3, hits <- p4, cursor <- p5, total <- p6,
         flight <- p7, asked <- p8, mixed <- p9, changes <- p10

RowsInit ==
    \/ part = "timeline" /\ Ti!Init /\ Unused6
    \/ part = "logs"     /\ Lo!Init /\ Unused11

RowsNext ==
    \/ part = "timeline" /\ Ti!Next /\ UNCHANGED <<part, Rest6>>
    \/ part = "logs"     /\ Lo!Next /\ UNCHANGED <<part, Rest11>>

RowsSpec == RowsInit /\ [][RowsNext]_vars

(* Timeline: no event is listed twice or skipped, whatever is ingested,     *)
(* refetched, cancelled or failed (useReliabilityEvents).                   *)
NoEventSkipped == part = "timeline" => Ti!NoEventSkipped

(* Logs: the hits are an unbroken run of the lines of the last search, and  *)
(* the count is theirs (LogsPage, run and fetchPage).                       *)
HitsAreTheSearch == part = "logs" => Lo!HitsAreTheSearch

===============================================================================
