------------------------------ MODULE ConfigOps ------------------------------
(***************************************************************************)
(* What one config change does to a device, and how its inverse is built.  *)
(* A configuration maps every named object (an alias, a filter rule) to    *)
(* its contents, or to Absent.  canonical_hash is taken to be injective on *)
(* configurations, so a configuration stands for its own hash.             *)
(*                                                                         *)
(* Two registered kinds represent the two write disciplines of the         *)
(* connector: "alias" is strict (the object must be absent to be added and *)
(* present to be set or deleted), "firewall_rule" is an upsert keyed by    *)
(* identity (monit_test and ids_policy have the same shape).               *)
(* "unregistered" is any kind string without an applier.                   *)
(***************************************************************************)

CONSTANTS Target,   \* names of the objects a change can address
          Value,    \* contents an object can have
          Absent    \* the object is not in the configuration

ASSUME DomainAssumption ==
    /\ Target # {}
    /\ Value # {}
    /\ Absent \notin Value

Config == [Target -> Value \cup {Absent}]

Kind == {"alias", "firewall_rule", "unregistered"}

\* ConfigChangeIn.operation.
Operation == {"add", "set", "delete"}

Proposal == [kind : Kind, op : Operation, target : Target, value : Value]

\* CHANGE_APPLIERS has an applier for the kind; the same kinds have an inverse builder.
Registered(p) == p.kind # "unregistered"

\* The connector finds what it needs on the device and issues the write: an alias is resolved by
\* exact name for set/delete, and OPNsense refuses to add a name that exists (_raise_on_failed).
Accepts(p, cfg) ==
    \/ p.kind = "firewall_rule"
    \/ p.kind = "alias" /\ p.op = "add" /\ cfg[p.target] = Absent
    \/ p.kind = "alias" /\ p.op # "add" /\ cfg[p.target] # Absent

\* The configuration an accepted write leaves behind; deleting an absent rule is a no-op.
Effect(p, cfg) ==
    [cfg EXCEPT ![p.target] = IF p.op = "delete" THEN Absent ELSE p.value]

\* apply_for_kind: the configurations and results one call can end with.  A live write may fail
\* before the device is touched, or after it is (the mutation is posted, the reconfigure that
\* follows raises); a dry run touches nothing.
Outcomes(p, cfg, live) ==
    IF Registered(p) /\ live
    THEN {[cfg |-> cfg, wrote |-> FALSE, ok |-> FALSE]} \cup
         {[cfg |-> Effect(p, cfg), wrote |-> TRUE, ok |-> b] : b \in {x \in BOOLEAN : Accepts(p, cfg)}}
    ELSE {[cfg |-> cfg, wrote |-> FALSE, ok |-> Registered(p)]}

\* Mutant of InvertAlias: a deleted alias is set back, not added back.
InvertAliasSets(p, snaps) ==
    IF p.op = "add"
    THEN {[p EXCEPT !.op = "delete"]}
    ELSE {[p EXCEPT !.op = "set", !.value = s[p.target]] : s \in {t \in snaps : t[p.target] # Absent}}

\* _invert_alias: the inverse of a creation needs no snapshot; the rest is rebuilt from it.
InvertAlias(p, snaps) ==
    IF p.op = "add"
    THEN {[p EXCEPT !.op = "delete"]}
    ELSE {[p EXCEPT !.op = IF p.op = "delete" THEN "add" ELSE "set", !.value = s[p.target]] :
              s \in {t \in snaps : t[p.target] # Absent}}

\* _invert_firewall_rule: a rule the snapshot does not have is deleted, else set back.
InvertFirewallRule(p, snaps) ==
    IF p.op = "add"
    THEN {[p EXCEPT !.op = "delete"]}
    ELSE {[p EXCEPT !.op = "set", !.value = s[p.target]] : s \in {t \in snaps : t[p.target] # Absent}}
         \cup {[p EXCEPT !.op = "delete"] : s \in {t \in snaps : t[p.target] = Absent}}

\* build_inverse against the pre-apply configurations in snaps (a singleton, or empty when the
\* change has no readable snapshot): the inverse proposals, none when NoInverseError is raised.
Inverse(p, snaps) ==
    CASE p.kind = "alias"         -> InvertAlias(p, snaps)
      [] p.kind = "firewall_rule" -> InvertFirewallRule(p, snaps)
      [] p.kind = "unregistered"  -> {}

\* What undoing means: applied to the configuration the change left, the inverse is accepted by
\* the device and gives back the configuration the change started from.
Undoes(q, p, before) ==
    /\ Accepts(q, Effect(p, before))
    /\ Effect(q, Effect(p, before)) = before

==============================================================================
