------------------------------ MODULE AccessRules ------------------------------
(***************************************************************************)
(* The administration of access rules: routers/access_rules.py.  Every     *)
(* change of a rule brings all its people into line in one transaction.    *)
(***************************************************************************)
EXTENDS PeopleAndGroups

LOCAL Doing == "rules" \in may

(* The rows of access_rules with r set to row, as the handler's flush      *)
(* leaves them for its own reconcile_group.                                *)
With(r, row) == [rule EXCEPT ![r] = row]

Row(c, g, enabled) ==
    [attribute |-> c.attribute, operator |-> c.operator, value |-> c.value,
     group |-> g, enabled |-> enabled]

Clashes(c, g) ==
    \E r \in Rules : rule[r] # None /\ SameCondition(rule[r], c) /\ rule[r].group = g

CreateRule(q, r, c, g, enabled) ==
    /\ Doing /\ rule[r] = None
    /\ Valid(c) /\ group[g] # None /\ ~Clashes(c, g)
    /\ LET row == Row(c, g, enabled)
       IN  Begin(q, [op |-> "rule_create", rules |-> Only(r, row),
                     add |-> GroupAdds(With(r, row)), del |-> GroupDels(With(r, row))])

(* The fields sent replace the stored ones and the whole, as this handler  *)
(* sees it, is checked.                                                    *)
UpdateRule(q, r, c, g, enabled) ==
    /\ Doing /\ rule[r] # None
    /\ Valid(c) /\ group[g] # None
    /\ LET row == Row(c, g, enabled)
       IN  Begin(q, [op |-> "rule_update", rules |-> Only(r, Differing(row, rule[r])),
                     add |-> GroupAdds(With(r, row)), del |-> GroupDels(With(r, row))])

(* Disabled, reconciled, then deleted.                                     *)
DeleteRule(q, r) ==
    /\ Doing /\ rule[r] # None
    /\ LET off == With(r, [rule[r] EXCEPT !.enabled = FALSE])
       IN  Begin(q, [op |-> "rule_delete", rules |-> Only(r, None),
                     add |-> GroupAdds(off), del |-> GroupDels(off)])

RunRule(q, r) ==
    /\ Doing /\ rule[r] # None
    /\ Begin(q, [op |-> "rule_run", add |-> GroupAdds(rule), del |-> GroupDels(rule)])

(* preview: who a rule would put into its group.  Writes nothing.          *)
AffectedBy(c) == {p \in Existing : person[p].active /\ Matches(c, person[p])}
WouldBeAdded(c, g) == {p \in AffectedBy(c) : member[<<g, p>>] = None}

(* Bound: where requests overlap there is one rule at a time.              *)
Room ==
    "race" \in may => /\ \A r \in Rules : rule[r] = None
                      /\ \A q \in Requests : req[q].op # "rule_create"

RuleSteps(q) ==
    \E r \in Rules :
        \/ \E c \in Conditions, g \in Groups, enabled \in BOOLEAN :
              \/ Room /\ CreateRule(q, r, c, g, enabled)
              \/ UpdateRule(q, r, c, g, enabled)
        \/ DeleteRule(q, r)
        \/ RunRule(q, r)
=============================================================================
