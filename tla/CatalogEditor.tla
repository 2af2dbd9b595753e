---------------------------- MODULE CatalogEditor ----------------------------
(***************************************************************************)
(* The form generated for one model of a device's catalogue                *)
(* (CatalogModelForm with its CatalogGridTable), in the catalogue tab or   *)
(* in the plugin drawer.  A field's value is the number of changes made to *)
(* it; Blank stands for "", what every field shows of a device that could  *)
(* not be reached.  Operations on grid rows are numbered.                  *)
(***************************************************************************)
EXTENDS Integers, Sequences

CONSTANTS MaxChanges, \* changes others make on the device, and times it is unreachable
          MaxOps,     \* operations on grid rows
          MaxSends    \* proposals

VARIABLES host,      \* "tab" or "drawer"
          box, up,   \* the device's fields; whether it can be reached
          live,      \* useCatalogModel's answer: the values, and whether they were reached
          open,      \* whether the form is mounted
          seeded,    \* the live values the form was mounted with
          work, touched, \* the form's fields, and those the user typed into
          editing,   \* the row dialog of the grid
          ops,       \* the accumulated operations
          flights,   \* the proposals in flight
          changes, sends

vars == <<host, box, up, live, open, seeded, work, touched, editing, ops, flights, changes, sends>>

Fields == {1, 2}
Blank == 100
None == [values |-> [f \in Fields |-> Blank], reachable |-> FALSE, read |-> FALSE]

Init == /\ host \in {"tab", "drawer"}
        /\ box = [f \in Fields |-> 0] /\ up \in BOOLEAN
        /\ live = None /\ open = FALSE
        /\ seeded = None.values /\ work = None.values /\ touched = {}
        /\ editing = FALSE /\ ops = <<>> /\ flights = {} /\ changes = 0 /\ sends = 0

Read == [values |-> IF up THEN box ELSE None.values, reachable |-> up, read |-> TRUE]
editable == open /\ live.reachable

Mounted(answer) == /\ live' = answer /\ open' = TRUE
                   /\ seeded' = answer.values /\ work' = answer.values /\ touched' = {}
                   /\ editing' = FALSE /\ ops' = <<>>

\* The user selects the model, and the form seeds its state from the values
\* that arrive, or from the cached ones of an earlier visit.
Select == /\ ~open
          /\ \E answer \in {Read, live} : answer.read /\ Mounted(answer)
          /\ UNCHANGED <<host, box, up, flights, changes, sends>>

\* The query is refetched: the form keeps its state and only "live" changes.
Refetch == /\ open /\ live' = Read
           /\ UNCHANGED <<host, box, up, open, seeded, work, touched, editing, ops, flights, changes, sends>>

\* The user selects another model, or closes the drawer: the form is unmounted.
Leave == /\ open /\ open' = FALSE /\ editing' = FALSE /\ touched' = {} /\ ops' = <<>>
         /\ UNCHANGED <<host, box, up, live, seeded, work, flights, changes, sends>>

Type(f) == /\ editable /\ f \notin touched
           /\ work' = [work EXCEPT ![f] = Blank + f] /\ touched' = touched \cup {f}
           /\ UNCHANGED <<host, box, up, live, open, seeded, editing, ops, flights, changes, sends>>

\* openAdd, openEdit, and the dialog's onClose.
OpenRow == /\ editable /\ ~editing /\ editing' = TRUE
           /\ UNCHANGED <<host, box, up, live, open, seeded, work, touched, ops, flights, changes, sends>>
CloseRow == /\ editing /\ editing' = FALSE
            /\ UNCHANGED <<host, box, up, live, open, seeded, work, touched, ops, flights, changes, sends>>

\* save() of the dialog, or the delete button of a row.
Push == /\ editing \/ editable
        /\ Len(ops) < MaxOps
        /\ ops' = Append(ops, Len(ops) + 1) /\ editing' = FALSE
        /\ UNCHANGED <<host, box, up, live, open, seeded, work, touched, flights, changes, sends>>

Differing(from) == {f \in Fields : work[f] # from[f]}
buildFromSeed == [scalars |-> Differing(seeded), grids |-> ops]
build == [scalars |-> Differing(live.values), grids |-> ops]

\* onPropose: the tab sends nothing when nothing changed, the drawer does.
Propose == /\ editable /\ sends < MaxSends
           /\ host = "tab" => build.scalars # {} \/ build.grids # <<>>
           /\ flights' = flights \cup {[body |-> build, typed |-> touched, n |-> sends]}
           /\ sends' = sends + 1
           /\ UNCHANGED <<host, box, up, live, open, seeded, work, touched, editing, ops, changes>>

\* The proposal is stored as a draft change: the tab's form stays as it is, the
\* drawer closes.
Proposed(r) == /\ flights' = flights \ {r}
               /\ IF host = "drawer"
                    THEN open' = FALSE /\ editing' = FALSE /\ touched' = {} /\ ops' = <<>>
                    ELSE UNCHANGED <<open, editing, touched, ops>>
               /\ UNCHANGED <<host, box, up, live, seeded, work, changes, sends>>

Refused(r) == /\ flights' = flights \ {r}
              /\ UNCHANGED <<host, box, up, live, open, seeded, work, touched, editing, ops, changes, sends>>

\* The device's configuration changes, by this or another way; or it goes
\* away, or comes back.
Others == /\ changes < MaxChanges /\ changes' = changes + 1
          /\ \/ up /\ \E f \in Fields : box' = [box EXCEPT ![f] = @ + 1] /\ up' = up
             \/ up' = ~up /\ box' = box
          /\ UNCHANGED <<host, live, open, seeded, work, touched, editing, ops, flights, sends>>

Next == \/ Select \/ Refetch \/ Leave \/ OpenRow \/ CloseRow \/ Push \/ Propose \/ Others
        \/ \E f \in Fields : Type(f)
        \/ \E r \in flights : Proposed(r) \/ Refused(r)

Spec == Init /\ [][Next]_vars

Values == [Fields -> Nat]
Bodies == [scalars : SUBSET Fields, grids : Seq(Nat)]

TypeOK == /\ host \in {"tab", "drawer"} /\ open \in BOOLEAN /\ up \in BOOLEAN /\ editing \in BOOLEAN
          /\ box \in Values /\ live \in [values : Values, reachable : BOOLEAN, read : BOOLEAN]
          /\ seeded \in Values /\ work \in Values /\ touched \subseteq Fields
          /\ ops \in Seq(Nat) /\ Len(ops) <= MaxOps
          /\ flights \subseteq [body : Bodies, typed : SUBSET Fields, n : 0 .. MaxSends - 1]
          /\ changes \in 0 .. MaxChanges /\ sends \in 0 .. MaxSends

(* The proposal describes the form: what the device last said, with the     *)
(* proposed fields set to the form's values, is what the form shows.        *)
ProposalStep ==
    \A r \in flights' \ flights, f \in Fields :
       f \in r.body.scalars \/ live.values[f] = work[f]
ProposalIsTheForm == [][ProposalStep]_vars

(* The design says that the form builds its proposal with only the changed  *)
(* scalars: a field the user never typed into is not proposed.              *)
ProposesOnlyEdits == \A r \in flights : r.body.scalars \subseteq r.typed

===============================================================================
