------------------------------- MODULE Console --------------------------------
(***************************************************************************)
(* The web console in one browser tab: the part of it the operator is      *)
(* using, each a module of its own with its share of the server.           *)
(***************************************************************************)
EXTENDS ConsoleShell, ConsoleForms, ConsoleLists, ConsoleRows

Init == ShellInit \/ FormsInit \/ ListsInit \/ RowsInit

Next == ShellNext \/ FormsNext \/ ListsNext \/ RowsNext

Spec == Init /\ [][Next]_vars

\* The parts' fairness: interval timers fire, the worker decides every
\* action, and a query that keeps asking is answered.
Poll == /\ UNCHANGED <<part, Rest8>>
        /\ \/ part = "firmware" /\ Fw!Poll
           \/ part = "queries" /\ Qu!Poll
Answer == /\ UNCHANGED <<part, Rest8>>
          /\ \/ part = "firmware" /\ Fw!Answer
             \/ part = "queries" /\ \E v \in DOMAIN p5 : Qu!Answer(v)
Work == /\ UNCHANGED <<part, Rest8>>
        /\ part = "firmware" /\ \E i \in DOMAIN Fw!rows : Fw!Work(i)

FairSpec == Spec /\ WF_vars(Poll) /\ SF_vars(Answer) /\ WF_vars(Work)

(* Every part's variables have their types.                                 *)
TypeOK == CASE part = "firmware" -> Fw!TypeOK
            [] part = "queries"  -> Qu!TypeOK
            [] part = "session"  -> Se!TypeOK
            [] part = "tenant"   -> Te!TypeOK
            [] part = "editors"  -> Ed!TypeOK
            [] part = "catalog"  -> Ca!TypeOK
            [] part = "fields"   -> Fi!TypeOK
            [] part = "timeline" -> Ti!TypeOK
            [] part = "logs"     -> Lo!TypeOK
            [] part = "language" -> La!TypeOK

(* Firmware tab: an action shown unfinished is eventually shown finished    *)
(* (useFirmwareActions, refetchInterval).                                   *)
ShownToTheEnd ==
    \A i \in 1 .. MaxActions : (part = "firmware" /\ Fw!Unfinished(i)) ~> (part = "firmware" /\ Fw!Finished(i))

(* Queries: the banner of silent tenants catches up with the server without *)
(* any action of the operator (useSilentTenantAlerts, refetchInterval).     *)
AlertsCatchUp == []<>(part = "queries" => Qu!CaughtUp)

===============================================================================
