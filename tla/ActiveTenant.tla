----------------------------- MODULE ActiveTenant -----------------------------
(***************************************************************************)
(* Which tenant the console is about (frontend/src/tenant/                 *)
(* TenantProvider.tsx and the switcher): the id in localStorage, the id in *)
(* the component's state, the list of the user's tenants as the server     *)
(* last answered it, and what follows from them.                           *)
(* Tenant ids are numbers and the server lists tenants in their order; 0   *)
(* is no tenant.                                                           *)
(***************************************************************************)
EXTENDS FiniteSetsExt, Naturals

CONSTANTS Tenants,     \* a set of positive numbers
          MaxChanges   \* how often the user's memberships change

VARIABLES mine,      \* the server's: the tenants of the user
          changes,
          list,      \* ["my-tenants"]: [data, loaded, sent]; sent: the answer to come
          persisted, \* localStorage; 0 when empty, or when it cannot be used
          storage,   \* localStorage can be used
          storedId,
          picked     \* the tenant the user chose last, while every answer contained it

vars == <<mine, changes, list, persisted, storage, storedId, picked>>

Ids == Tenants \cup {0}
Unloaded == [data |-> {}, loaded |-> FALSE, sent |-> TRUE]

\* effectiveActive: an id that is not in a known, non-empty list is replaced
\* by the first tenant.
EffectiveActive(id, l) == IF ~l.loaded \/ l.data = {} \/ id \in l.data THEN id ELSE Min(l.data)
Active == EffectiveActive(storedId, list)

PersistId(id) == IF storage THEN id ELSE 0

\* A render with a new list or id: the fallback is written to localStorage.
Persist(id, l, kept) ==
    persisted' = IF EffectiveActive(id, l) # id THEN PersistId(EffectiveActive(id, l)) ELSE kept

Init == /\ mine \in SUBSET Tenants /\ changes = 0
        /\ storage \in BOOLEAN /\ persisted \in (IF storage THEN Ids ELSE {0})
        /\ storedId = persisted /\ list = Unloaded /\ picked = 0

Change == /\ changes < MaxChanges /\ changes' = changes + 1
          /\ \E s \in SUBSET Tenants : mine' = s
          /\ UNCHANGED <<list, persisted, storage, storedId, picked>>

Focus == /\ ~list.sent /\ list' = [list EXCEPT !.sent = TRUE]
         /\ UNCHANGED <<mine, changes, persisted, storage, storedId, picked>>

Received(l) == /\ list' = l
               /\ Persist(storedId, l, persisted)
               /\ picked' = IF picked \in l.data \/ l.data = {} THEN picked ELSE 0
               /\ UNCHANGED <<mine, changes, storage, storedId>>

Answer == list.sent /\ Received([data |-> mine, loaded |-> TRUE, sent |-> FALSE])

\* An HTTP error is answered with an empty list; without an answer the list stays.
Fail == /\ list.sent
        /\ \E data \in {{}, list.data} : Received([data |-> data, loaded |-> TRUE, sent |-> FALSE])

\* The switcher offers the tenants of the list.
SetActiveIdForgets(id) ==
    /\ id \in list.data /\ id # Active
    /\ storedId' = id /\ picked' = id
    /\ UNCHANGED <<mine, changes, list, storage, persisted>>
SetActiveId(id) == /\ id \in list.data /\ id # Active
                   /\ storedId' = id /\ picked' = id
                   /\ persisted' = PersistId(id)
                   /\ UNCHANGED <<mine, changes, list, storage>>

Reload == /\ list # Unloaded
          /\ list' = Unloaded /\ storedId' = persisted
          /\ picked' = IF storage THEN picked ELSE 0
          /\ UNCHANGED <<mine, changes, persisted, storage>>

Next == \/ Change \/ Focus \/ Answer \/ Fail \/ Reload
        \/ \E id \in Tenants : SetActiveId(id)

Spec == Init /\ [][Next]_vars

TypeOK == /\ mine \subseteq Tenants /\ changes \in 0 .. MaxChanges /\ storage \in BOOLEAN
          /\ list \in [data : SUBSET Tenants, loaded : BOOLEAN, sent : BOOLEAN]
          /\ persisted \in Ids /\ storedId \in Ids /\ picked \in Ids

(* The user's selection survives: as long as every list that arrived has     *)
(* contained the tenant the user picked, the console stays on it, through    *)
(* refetches, failed requests that answer with an empty list, and reloads.   *)
PickSurvives == picked # 0 => Active = picked

\* The inductive invariant behind it: the choice is in the component's state and,
\* where it can be, in localStorage; a list that is known and not empty contains
\* it.  The last two are what a reload and the next answer need.
PickInv ==
    picked # 0 => /\ storedId = picked
                  /\ storage => persisted = picked
                  /\ list.loaded /\ list.data # {} => picked \in list.data

===============================================================================
