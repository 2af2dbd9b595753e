------------------------------ MODULE FieldForms ------------------------------
(***************************************************************************)
(* The bodies of a template's dialog (frontend/src/templates/*Form.tsx):   *)
(* the fields of the chosen kind are read from a reference device while    *)
(* the dialog stays usable.  Three forms put the device's defaults under   *)
(* the values they held when the load STARTED; the two of the intrusion    *)
(* detection only replace the options they offer.  The body lives in the   *)
(* dialog, so a load outlives the form that began it.                      *)
(***************************************************************************)
EXTENDS Naturals, FiniteSets

CONSTANTS
    MaxOpens,     \* how often the dialog, or a form in it, is mounted
    MaxLoads      \* how many loads are started

Merging == {"opnsense_setting", "firewall_rule", "monit_test"}
RowsOnly == {"suricata_ruleset", "ids_policy"}
Fields == {"a", "b"}
Templates == {1, 2}
None == [from |-> "nothing", key |-> 0]

VARIABLES
    kind,         \* the kind of both templates
    editing,      \* the template in the dialog, 0 when it is closed
    form,         \* the number of the mounted form, 0 under another kind
    loaded,       \* the form shows the fields of the device
    body,         \* [key, payload]: the dialog's state
    typed,        \* the fields the operator set since the dialog opened
    loads,        \* the loads in flight, each with the body it captured
    opens, started

vars == <<kind, editing, form, loaded, body, typed, loads, opens, started>>

\* Only a setting has an endpoint key; the first template stores the field a
\* and the second one both.
Key(t) == IF kind = "opnsense_setting" THEN t ELSE 0
Saved(t) ==
    [key |-> Key(t),
     payload |-> [f \in Fields |->
        IF f = "a" \/ t = 2 THEN [from |-> "saved", key |-> Key(t)] ELSE None]]

Init ==
    /\ kind \in Merging \union RowsOnly
    /\ editing = 0 /\ form = 0 /\ loaded = FALSE
    /\ body = Saved(1) /\ typed = {}
    /\ loads = {} /\ opens = 0 /\ started = 0

\* The dialog opens on a template: the effect seeds every body.
Open(t) ==
    /\ editing = 0 /\ opens < MaxOpens
    /\ editing' = t /\ body' = Saved(t) /\ typed' = {}
    /\ opens' = opens + 1 /\ form' = opens + 1 /\ loaded' = FALSE
    /\ UNCHANGED <<kind, loads, started>>

\* It is cancelled, or closes after the save.
Close ==
    /\ editing # 0
    /\ editing' = 0 /\ form' = 0 /\ loaded' = FALSE
    /\ UNCHANGED <<kind, body, typed, loads, opens, started>>

\* The kind selector: away from this form, and back to a new one.
SetKind ==
    /\ editing # 0
    /\ IF form # 0 THEN form' = 0 /\ UNCHANGED opens
       ELSE opens < MaxOpens /\ opens' = opens + 1 /\ form' = opens + 1
    /\ loaded' = FALSE
    /\ UNCHANGED <<kind, editing, body, typed, loads, started>>

\* An input: the generated fields and the rulesets need a load, those of a
\* policy and the checkbox of a monit test do not.
SetField(f) ==
    /\ form # 0
    /\ loaded \/ kind = "ids_policy" \/ (kind = "monit_test" /\ f = "b")
    /\ body' = [body EXCEPT !.payload[f] = [from |-> "typed", key |-> body.key]]
    /\ typed' = typed \union {f}
    /\ UNCHANGED <<kind, editing, form, loaded, loads, opens, started>>

\* The endpoint selector of a setting empties the payload.
SetEndpoint(k) ==
    /\ kind = "opnsense_setting" /\ form # 0 /\ k # body.key
    /\ body' = [key |-> k, payload |-> [f \in Fields |-> None]]
    /\ typed' = Fields /\ loaded' = FALSE
    /\ UNCHANGED <<kind, editing, form, loads, opens, started>>

\* The button of the form, which its own pending load disables.
LoadFields ==
    /\ form # 0 /\ started < MaxLoads
    /\ \A l \in loads : l.form # form
    /\ loads' = loads \union {[form |-> form, body |-> body]}
    /\ started' = started + 1
    /\ UNCHANGED <<kind, editing, form, loaded, body, typed, opens>>

\* {...defaults, ...value.payload}, with the value the load captured.
Merge(value) ==
    [value EXCEPT !.payload = [f \in Fields |->
        IF value.payload[f] = None THEN [from |-> "device", key |-> value.key]
        ELSE value.payload[f]]]

\* The fields arrive: a form that is still mounted shows them; the body is
\* replaced as a whole, key and payload, by the merging forms.
LoadedIntoPayload(l) ==
    /\ l \in loads
    /\ loads' = loads \ {l}
    /\ loaded' = (loaded \/ form = l.form)
    /\ body' = IF kind \in Merging THEN [body EXCEPT !.payload = Merge(l.body).payload] ELSE body
    /\ UNCHANGED <<kind, editing, form, typed, opens, started>>

Loaded(l) ==
    /\ l \in loads
    /\ loads' = loads \ {l}
    /\ loaded' = (loaded \/ form = l.form)
    /\ body' = IF kind \in Merging THEN Merge(l.body) ELSE body
    /\ UNCHANGED <<kind, editing, form, typed, opens, started>>

LoadFailed(l) ==
    /\ l \in loads
    /\ loads' = loads \ {l}
    /\ loaded' = (loaded /\ form # l.form)
    /\ UNCHANGED <<kind, editing, form, body, typed, opens, started>>

Next ==
    \/ \E t \in Templates : Open(t)
    \/ Close
    \/ SetKind
    \/ \E f \in Fields : SetField(f)
    \/ \E k \in Templates : SetEndpoint(k)
    \/ LoadFields
    \/ \E l \in loads : Loaded(l)
    \/ \E l \in loads : LoadFailed(l)

Spec == Init /\ [][Next]_vars

Values == [from : {"nothing", "saved", "typed", "device"}, key : 0..2]

Bodies == [key : 0..2, payload : [Fields -> Values]]

TypeOK ==
    /\ kind \in Merging \union RowsOnly
    /\ editing \in {0} \union Templates
    /\ opens \in 0..MaxOpens /\ form \in 0..opens
    /\ loaded \in BOOLEAN /\ (loaded => form # 0)
    /\ body \in Bodies
    /\ typed \subseteq Fields
    /\ loads \subseteq [form : 1..opens, body : Bodies]
    /\ started \in 0..MaxLoads

\* Every value in the body belongs to the endpoint named in the body, even
\* when the endpoint, the kind or the template was changed while the fields
\* were on their way: a late load brings its own key along
\* (OpnsenseSettingForm.loadFields).
PayloadIsOfEndpoint ==
    \A f \in Fields : body.payload[f] # None => body.payload[f].key = body.key

\* A load that finds the body as it left it changes no field that has a
\* value ("saved values override device defaults"), and one that fails or
\* only brings options changes nothing.
LoadStep ==
    \A l \in loads \ loads' :
        l.body = body => \A f \in Fields :
            body.payload[f] # None => body'.payload[f] = body.payload[f]
LoadKeepsValues == [][LoadStep]_vars

\* A field for which the open template stores a value never holds a device's
\* default before the operator touched it ("saved values override device
\* defaults", templates/OpnsenseSettingForm.tsx).
SavedOverDefaults ==
    editing # 0 => \A f \in Fields \ typed :
        Saved(editing).payload[f] # None => body.payload[f].from # "device"

\* The inductive invariant behind PayloadIsOfEndpoint: the body on screen is as
\* good as the bodies the loads in flight will put in its place.
Own(b) == \A f \in Fields : b.payload[f] # None => b.payload[f].key = b.key
BodyInv ==
    /\ body \in Bodies /\ Own(body)
    /\ \A l \in loads : l.body \in Bodies /\ Own(l.body)

===============================================================================
