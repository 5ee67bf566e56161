---------------------------- MODULE PeopleAndGroups ----------------------------
(***************************************************************************)
(* The directory: the tables users, groups, group_members and access_rules,*)
(* the reconciliation of access/rules.py, and how a request's transaction  *)
(* reads the tables and later writes them.                                 *)
(*                                                                         *)
(* A request is two steps: it begins, which is everything it reads, and it *)
(* commits, which is everything it writes.  Requests that reconcile after  *)
(* their first audit entry read rules and memberships under the audit      *)
(* chain's lock, so for them ("late") that reading is part of the commit.  *)
(***************************************************************************)
EXTENDS RuleMatching

CONSTANTS
    People, Groups, Rules,  \* bounds: the rows these tables may get
    Requests,               \* bound: HTTP requests served at the same time
    Names,                  \* userNames and group names
    Words,                  \* what the other attributes may hold
    Externals,              \* the provider's ids for people
    HomeName,               \* the userName of a person where names are not in play
    Conditions,             \* the conditions rules are written with
    Circumstances           \* sets of what may happen, see may

ASSUME DirectoryAssumption ==
    /\ HomeName \in [People -> Names]
    /\ \A S \in {People, Groups, Rules, Requests, Names, Words, Externals} : None \notin S
    /\ Words # {}
    /\ Conditions \subseteq [attribute : Attributes, operator : Operators,
                             value : Words \cup Names \cup {None}]
    /\ \A c \in Conditions : Valid(c)
    /\ Circumstances \subseteq
          SUBSET {"race", "identity", "department", "job_title", "email", "scim", "login",
                  "console", "rules", "groups", "members", "ungroup", "rename", "switch"}

VARIABLES
    person,     \* users: None or a row
    group,      \* groups: None or the name
    member,     \* group_members: None or the source of the row
    rule,       \* access_rules: None or a row
    req,        \* what each request has read and is about to write
    may         \* "race": requests overlap; "identity": names and external ids vary;
                \* an attribute's name: it changes; "scim", "login", "console": these
                \* flows run; "rules": rules are edited; "groups": the console puts people
                \* into groups and groups are renamed; "members": the provider sends them;
                \* "ungroup": people are taken out of groups;
                \* "rename": a PATCH may carry a userName; "switch": the console switches
                \* people off and on

Pairs == Groups \X People
Sources == {"manual", "scim", "rule", "request"}
Fields == {"user_name", "external_id", "active", "source", "department", "job_title", "email"}

(* Columns set in a row that may have others; one column.                  *)
Over(new, old) ==
    [f \in DOMAIN new \cup DOMAIN old |-> IF f \in DOMAIN new THEN new[f] ELSE old[f]]
Only(f, value) == [x \in {f} |-> value]

(* Nothing to write.  The parts of a request's writing:                    *)
(*   who, set    a person and the columns to set (all of them: a new row)  *)
(*   obj         the person as the handler holds them, late: reconcile it  *)
(*   add, del    membership rows <<group, person, source>>                 *)
(*   rules, groups  rows or columns to set, None to delete                 *)
(*   asked       what the caller asked for, in the caller's words          *)
Nothing == [op |-> "none", who |-> None, set |-> <<>>, obj |-> None, late |-> FALSE,
            add |-> {}, del |-> {}, rules |-> <<>>, groups |-> <<>>, asked |-> None]

Idle(q) == req[q].op = "none"
Alone == "race" \in may \/ \A q \in Requests : Idle(q)

Begin(q, work) ==
    /\ Alone /\ Idle(q)
    /\ req' = [req EXCEPT ![q] = Over(work, Nothing)]
    /\ UNCHANGED <<person, group, member, rule, may>>

SameName(a, b) == Fold(a) = Fold(b)
Existing == {p \in People : person[p] # None}
Named(name) == {p \in Existing : SameName(person[p].user_name, name)}
Linked(external) == {p \in Existing : person[p].external_id = external}

-----------------------------------------------------------------------------
(* access/rules.py.                                                        *)

Applicable(rows, user) ==
    {r \in Rules : rows[r] # None /\ rows[r].enabled /\ Matches(rows[r], user)}

(* reconcile: the membership rows it inserts and deletes.  Only rows whose *)
(* source is a rule are the engine's to delete.                            *)
Wanted(rows, user) ==
    IF user.active THEN {rows[r].group : r \in Applicable(rows, user)} ELSE {}

ReconcileAdds(rows, p, user) ==
    {<<g, p, "rule">> : g \in {h \in Wanted(rows, user) : member[<<h, p>>] = None}}

ReconcileDels(rows, p, user) ==
    {<<g, p, "rule">> : g \in {h \in Groups \ Wanted(rows, user) : member[<<h, p>>] = "rule"}}

(* reconcile_group: every person, whatever the rule.                       *)
GroupAdds(rows) == UNION {ReconcileAdds(rows, p, person[p]) : p \in Existing}
GroupDels(rows) == UNION {ReconcileDels(rows, p, person[p]) : p \in Existing}

(* touches_rules.                                                          *)
TouchesRules(fields) == fields \cap Attributes # {}

-----------------------------------------------------------------------------
(* The columns that differ from the row the handler read: an UPDATE names  *)
(* no other.                                                               *)
Differing(values, row) ==
    LET fields == {f \in DOMAIN values : values[f] # row[f]} IN [f \in fields |-> values[f]]

(* The commit.  A row that breaks a constraint fails the whole of it.      *)

PeopleAfter(w) ==
    IF w.who = None THEN person
    ELSE [person EXCEPT ![w.who] = IF @ = None THEN w.set ELSE Over(w.set, @)]

GroupsAfter(w) == Over(w.groups, group)

MutRulesAfter(w) ==
    [r \in Rules |-> IF r \notin DOMAIN w.rules THEN rule[r]
                     ELSE IF w.rules[r] = None \/ rule[r] = None THEN w.rules[r]
                     ELSE Over(w.rules[r], rule[r])]

(* ON DELETE CASCADE from groups to their rules and memberships.           *)
RulesAfter(w) ==
    LET rows == [r \in Rules |-> IF r \notin DOMAIN w.rules THEN rule[r]
                                ELSE IF w.rules[r] = None \/ rule[r] = None THEN w.rules[r]
                                ELSE Over(w.rules[r], rule[r])]
    IN  [r \in Rules |-> IF rows[r] # None /\ GroupsAfter(w)[rows[r].group] = None
                         THEN None ELSE rows[r]]

Adds(w) == IF w.late THEN w.add \cup ReconcileAdds(rule, w.who, w.obj) ELSE w.add
Dels(w) == IF w.late THEN w.del \cup ReconcileDels(rule, w.who, w.obj) ELSE w.del

Deleted(w) == {x \in Pairs : <<x[1], x[2], member[x]>> \in Dels(w)}

MembersAfter(w) ==
    [x \in Pairs |->
        IF GroupsAfter(w)[x[1]] = None THEN None
        ELSE IF \E s \in Sources : <<x[1], x[2], s>> \in Adds(w)
             THEN CHOOSE s \in Sources : <<x[1], x[2], s>> \in Adds(w)
        ELSE IF x \in Deleted(w) THEN None ELSE member[x]]

UniqueUsers(rows) ==
    \A p, o \in People : p # o /\ rows[p] # None /\ rows[o] # None =>
        /\ rows[p].user_name # rows[o].user_name
        /\ rows[p].external_id = rows[o].external_id => rows[p].external_id = None

UniqueGroups(rows) == \A g, h \in Groups : g # h /\ rows[g] # None => rows[g] # rows[h]

SameCondition(c, d) ==
    c.attribute = d.attribute /\ c.operator = d.operator /\ c.value = d.value

(* A null value equals no other, so it never breaks the constraint.        *)
UniqueRules(rows) ==
    \A r, s \in Rules : r # s /\ rows[r] # None /\ rows[s] # None =>
        ~(SameCondition(rows[r], rows[s]) /\ rows[r].group = rows[s].group /\ rows[r].value # None)

(* An UPDATE of a row that is gone fails, and so does a row that refers to *)
(* a group that is gone or exists already.                                 *)
Storable(w) ==
    /\ \A r \in DOMAIN w.rules :
            /\ w.op = "rule_update" => rule[r] # None
            /\ w.rules[r] # None /\ "group" \in DOMAIN w.rules[r] =>
                  GroupsAfter(w)[w.rules[r].group] # None
    /\ \A g \in DOMAIN w.groups : w.op = "group_update" => group[g] # None
    /\ UniqueUsers(PeopleAfter(w))
    /\ UniqueGroups(GroupsAfter(w))
    /\ UniqueRules(RulesAfter(w))
    /\ \A x \in Adds(w) :
            /\ GroupsAfter(w)[x[1]] # None
            /\ member[<<x[1], x[2]>>] # None => <<x[1], x[2]>> \in Deleted(w)

Write(w) ==
    /\ person' = PeopleAfter(w)
    /\ group' = GroupsAfter(w)
    /\ rule' = RulesAfter(w)
    /\ member' = MembersAfter(w)

Commit(q) ==
    /\ ~Idle(q) /\ Storable(req[q])
    /\ Write(req[q])
    /\ req' = [req EXCEPT ![q] = Nothing]
    /\ UNCHANGED may

(* get_session rolls back: a constraint, a deadlock, a lost connection.    *)
Abort(q) ==
    /\ ~Idle(q)
    /\ req' = [req EXCEPT ![q] = Nothing]
    /\ UNCHANGED <<person, group, member, rule, may>>
=============================================================================
