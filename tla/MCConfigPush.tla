---------------------------- MODULE MCConfigPush ----------------------------
(* Instances of ConfigPush for TLC: one alias and one rule value domain, and *)
(* the proposals that make the interesting cases happen.                     *)
EXTENDS ConfigPush, TLC

CONSTANTS c1, c2, t1, v1, v2

\* A strict alias add, and a kind nobody registered.
MCDrafts ==
    {[kind |-> "alias", op |-> "add", target |-> t1, value |-> v1],
     [kind |-> "unregistered", op |-> "set", target |-> t1, value |-> v1]}

\* Rules the templates upsert.
MCRules ==
    {[kind |-> "firewall_rule", op |-> "set", target |-> t1, value |-> v] : v \in Value}

\* An upsert that calls itself an "add".
MCRuleAdd == {[kind |-> "firewall_rule", op |-> "add", target |-> t1, value |-> v1]}

\* Every alias operation, and every rule operation but "add".
MCReversible ==
    {[kind |-> k, op |-> op, target |-> t1, value |-> v1] :
        k \in {"alias", "firewall_rule"}, op \in Operation} \ MCRuleAdd

MCPair == {<<c1, c2>>}

WorkerSymmetry == Permutations(Worker)

=============================================================================
