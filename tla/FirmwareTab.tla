------------------------------ MODULE FirmwareTab ------------------------------
(***************************************************************************)
(* The firmware tab of a device page of the web console                    *)
(* (frontend/src/firmware): the update check, the dialog that confirms an  *)
(* action, the request that creates it, and the list of actions that polls *)
(* while one is unfinished.  The worker of FirmwareAction.tla appears as   *)
(* the server's own steps.  The states the server's list goes through are  *)
(* kept in hist; a request answers with one of them (QueryCache).          *)
(***************************************************************************)
EXTENDS QueryCache, Sequences

CONSTANTS Initial,      \* the lists of actions the server may start with
          MaxActions    \* actions the device's history may hold

VARIABLES hist,     \* the successive lists of actions: hist[Len(hist)] is the present one
          list,     \* useFirmwareActions: the cached list
          check,    \* useFirmwareCheck: its result, or "none" / "pending"
          pending,  \* the kind of action the dialog confirms, or "none"
          when,     \* a time is set in the dialog's picker
          touched,  \* the operator used the picker of this very dialog
          create    \* useCreateFirmwareAction: the request in flight

vars == <<hist, list, check, pending, when, touched, create>>

Kinds == {"firmware_update", "firmware_upgrade", "plugin_install", "plugin_remove"}
Terminal == {"done", "failed"}
\* What a reader of the table finds: "running" is flushed and never committed.
Statuses == Terminal \cup {"scheduled"}
Results == {"up_to_date", "updates", "new_major"}
Idle == [phase |-> "idle", at |-> 0]

now == Len(hist)
rows == hist[now]

\* The rows the page shows: nothing before the first answer.
Shown == IF list.data = 0 THEN <<>> ELSE hist[list.data]

Init == /\ \E old \in Initial : hist = <<old>>
        /\ list = Fetch(Empty, 1)
        /\ check = "none" /\ pending = "none" /\ when = FALSE /\ touched = FALSE
        /\ create = Idle

\* The check button; the dialog covers the page while it is open.
Check == /\ pending = "none" /\ check # "pending"
         /\ check' = "pending"
         /\ UNCHANGED <<hist, list, pending, when, touched, create>>

\* The earlier result is gone as soon as the check starts.
CheckAnswered == /\ check = "pending"
                 /\ check' \in Results \cup {"none"}
                 /\ UNCHANGED <<hist, list, pending, when, touched, create>>

\* Which buttons the check's result enables; a plugin only needs a name.
Offered(kind) == CASE kind = "firmware_update"  -> check \in {"updates", "new_major"}
                   [] kind = "firmware_upgrade" -> check = "new_major"
                   [] OTHER                     -> TRUE

\* Mutant of Open: the picker keeps the time of an earlier dialog.
OpenKeepsTime(kind) ==
    /\ pending = "none" /\ Offered(kind)
    /\ pending' = kind /\ touched' = FALSE
    /\ UNCHANGED <<hist, list, check, when, create>>

\* open(): the time of an earlier dialog is forgotten.
Open(kind) == /\ pending = "none" /\ Offered(kind)
              /\ pending' = kind /\ when' = FALSE /\ touched' = FALSE
              /\ UNCHANGED <<hist, list, check, create>>

PickTime == /\ pending # "none"
            /\ when' = ~when /\ touched' = TRUE
            /\ UNCHANGED <<hist, list, check, pending, create>>

Cancel == /\ pending # "none"
          /\ pending' = "none"
          /\ UNCHANGED <<hist, list, check, when, touched, create>>

\* fire(): both confirm buttons spin while a request is in flight; the
\* schedule button needs a time.
Fire(scheduled) == /\ pending # "none" /\ create.phase = "idle"
                   /\ scheduled => when
                   /\ create' = [phase |-> "posting", at |-> 0]
                   /\ UNCHANGED <<hist, list, check, pending, when, touched>>

\* The server's list after the action was created.
Stored == Len(rows) < MaxActions /\ hist' = Append(hist, Append(rows, "scheduled"))

CreatedRefetches ==
    /\ create.phase = "posting" /\ Stored
    /\ list' = Fetch(list, now + 1)
    /\ create' = [phase |-> "settling", at |-> now + 1]
    /\ UNCHANGED <<check, pending, when, touched>>

CreatedStores ==
    /\ create.phase = "posting" /\ Stored
    /\ list' = [list EXCEPT !.data = now + 1]
    /\ create' = Idle /\ pending' = "none"
    /\ UNCHANGED <<check, when, touched>>

\* onSuccess: the list is invalidated, and mutateAsync waits for its refetch.
Created == /\ create.phase = "posting" /\ Stored
           /\ list' = Invalidate(list, now + 1)
           /\ create' = [phase |-> "settling", at |-> now + 1]
           /\ UNCHANGED <<check, pending, when, touched>>

\* The request, or its answer, is lost or refused: fire()'s catch and finally.
CreateFailed == /\ create.phase = "posting"
                /\ Stored \/ UNCHANGED hist
                /\ create' = Idle /\ pending' = "none"
                /\ UNCHANGED <<list, check, when, touched>>

\* fire()'s finally, once the refetch that mutateAsync waits for is over: it
\* closes whatever dialog is open by then.
Settle == IF create.phase = "settling"
            THEN create' = Idle /\ pending' = "none"
            ELSE UNCHANGED <<create, pending>>

Answer == /\ \E v \in Answers(list, now) : list' = Answered(list, v)
          /\ Settle
          /\ UNCHANGED <<hist, check, when, touched>>

FetchFailed == /\ list.sent # 0
               /\ list' = Failed(list)
               /\ Settle
               /\ UNCHANGED <<hist, check, when, touched>>

PollingOff == FALSE

\* refetchInterval: some row shown is not terminal.
Polling == \E i \in DOMAIN Shown : Shown[i] \notin Terminal

Poll == /\ Polling /\ list.sent = 0
        /\ list' = Fetch(list, now)
        /\ UNCHANGED <<hist, check, pending, when, touched, create>>

\* The window regains the focus.
Focus == /\ list.sent = 0
         /\ list' = Fetch(list, now)
         /\ UNCHANGED <<hist, check, pending, when, touched, create>>

\* The worker's job commits its outcome, or the sweeper gives the action up.
Work(i) == /\ rows[i] \notin Terminal
           /\ \E s \in Terminal : hist' = Append(hist, [rows EXCEPT ![i] = s])
           /\ UNCHANGED <<list, check, pending, when, touched, create>>

Next == \/ Check \/ CheckAnswered \/ PickTime \/ Cancel \/ Created \/ CreateFailed
        \/ \E kind \in Kinds : Open(kind)
        \/ \E scheduled \in BOOLEAN : Fire(scheduled)
        \/ Answer \/ FetchFailed \/ Poll \/ Focus
        \/ \E i \in DOMAIN rows : Work(i)

Spec == Init /\ [][Next]_vars

\* The worker decides every action, the interval timer fires, and a list that
\* is asked for again and again is answered some time.
FairSpec == /\ Spec
            /\ WF_vars(Poll) /\ SF_vars(Answer)
            /\ WF_vars(\E i \in DOMAIN rows : Work(i))

TypeOK == /\ hist \in Seq(Seq(Statuses)) /\ now >= 1
          /\ list \in [data : 0 .. now, sent : 0 .. now]
          /\ check \in Results \cup {"none", "pending"}
          /\ pending \in Kinds \cup {"none"}
          /\ when \in BOOLEAN /\ touched \in BOOLEAN
          /\ create \in [phase : {"idle", "posting", "settling"}, at : 0 .. now]

(* A firmware update or upgrade is only ever confirmed while the last check *)
(* on this page reports it: no answer of a later check can change the       *)
(* picture behind an open dialog (FirmwareActions.tsx, check and open).     *)
DialogMatchesCheck == pending # "none" => Offered(pending)

(* A time set in one dialog never schedules the action of a later one       *)
(* (FirmwareActions.tsx, open and the picker).                              *)
TimeIsTheDialogs == pending # "none" /\ when => touched

(* When the request that created an action ends with a fresh list, the page *)
(* that had a list before shows that action: no older answer is taken for   *)
(* the refetch (useCreateFirmwareAction, onSuccess).                        *)
ReadStep == create.phase = "settling" /\ create'.phase = "idle" /\ list.data # 0 /\ list'.data # list.data
              => list'.data >= create.at

(* An action shown unfinished is eventually shown finished: the list polls  *)
(* until the worker's last word has arrived (useFirmwareActions).           *)
Unfinished(i) == i \in DOMAIN Shown /\ Shown[i] \notin Terminal
Finished(i) == i \in DOMAIN Shown /\ Shown[i] \in Terminal
ShownToTheEnd == \A i \in 1 .. MaxActions : Unfinished(i) ~> Finished(i)

\* The invariants behind ReadStep and the dialog.  The cached list is a state the
\* server has reached, and a request in flight will answer with one that is not
\* older; while a created action waits for its list, that request was sent after it.
CacheInv ==
    /\ hist \in Seq(Seq(Statuses)) /\ Len(hist) >= 1
    /\ list \in [data : Nat, sent : Nat]
    /\ list.data <= now /\ list.sent <= now
    /\ list.sent # 0 => list.data <= list.sent
CreateInv ==
    /\ create \in [phase : {"idle", "posting", "settling"}, at : Nat]
    /\ create.phase = "settling" /\ list.data # 0 => list.sent # 0 /\ list.sent >= create.at
    /\ create.at <= now
DialogInv ==
    /\ DialogMatchesCheck /\ TimeIsTheDialogs
    /\ pending \in Kinds \cup {"none"} /\ when \in BOOLEAN /\ touched \in BOOLEAN
TabInv == CacheInv /\ CreateInv /\ DialogInv

===============================================================================
