------------------------------- MODULE Directory -------------------------------
(***************************************************************************)
(* The directory and everything that writes to it: the provider's sync of  *)
(* people and groups, logins, the console and the access rules, whose      *)
(* requests overlap.                                                       *)
(***************************************************************************)
EXTENDS AccessRules, ScimUsers, ScimGroups

vars == <<person, group, member, rule, req, may>>

Init ==
    /\ person = [p \in People |-> None]
    /\ group = [g \in Groups |-> None]
    /\ member = [x \in Pairs |-> None]
    /\ rule = [r \in Rules |-> None]
    /\ req = [q \in Requests |-> Nothing]
    /\ may \in Circumstances

Next ==
    \E q \in Requests :
        \/ Alone /\ Idle(q) /\ (RuleSteps(q) \/ PeopleSteps(q) \/ GroupSteps(q))
        \/ Commit(q)
        \/ Abort(q)

Spec == Init /\ [][Next]_vars

Serial == "race" \notin may

-----------------------------------------------------------------------------
(* Type correctness of the five tables' contents and of what is in flight. *)
Rows == [user_name : Names, external_id : Externals \cup {None}, active : BOOLEAN,
         source : {"manual", "jit", "scim"}, department : Words \cup {None},
         job_title : Words \cup {None}, email : Words]
Texts == Words \cup Names \cup {None}
RuleRows == [attribute : Attributes, operator : Operators, value : Texts,
             group : Groups, enabled : BOOLEAN]
TypeOK ==
    /\ person \in [People -> Rows \cup {None}]
    /\ group \in [Groups -> Names \cup {None}]
    /\ member \in [Pairs -> Sources \cup {None}]
    /\ rule \in [Rules -> RuleRows \cup {None}]
    /\ \A r \in Rules : rule[r] # None => group[rule[r].group] # None
    /\ \A x \in Pairs : member[x] # None => group[x[1]] # None /\ person[x[2]] # None
    /\ \A q \in Requests : req[q].who \in People \cup {None}

(* None is no source, and no row, be it a whole one or part of one.        *)
ASSUME NoneAssumption ==
    /\ None \notin Sources /\ None \notin Rows
    /\ \A row \in RuleRows : \A fields \in SUBSET DOMAIN row :
          None # [f \in fields |-> row[f]]

(* One row per identity.  Requests one at a time never make two people (or *)
(* two groups) whose names differ in case only, whichever of the sync and  *)
(* a login came first; overlapping ones never share an external id or a    *)
(* name letter for letter.  (create_user, replace_user, find_user,         *)
(* create_group, _rename.)                                                 *)
OnePersonPerIdentity ==
    /\ UniqueUsers(person)
    /\ UniqueGroups(group)
    /\ Serial /\ "rename" \notin may =>
          \A p, o \in Existing : p # o => ~SameName(person[p].user_name, person[o].user_name)
    /\ Serial => \A g, h \in Groups :
          g # h /\ group[g] # None /\ group[h] # None => ~SameName(group[g], group[h])

(* A membership a rule gave an active person is one an enabled rule still  *)
(* gives: nobody keeps what their old department gave them.                *)
RuleRowsAreEarned ==
    \A x \in Pairs : member[x] = "rule" /\ person[x[2]].active =>
        \E r \in Applicable(rule, person[x[2]]) : rule[r].group = x[1]

(* Whom an enabled rule describes is in its group, however they got there. *)
RulesAreApplied ==
    "ungroup" \notin may =>
        \A p \in Existing : person[p].active =>
            \A r \in Applicable(rule, person[p]) : member[<<rule[r].group, p>>] # None

(* After every request, handled one at a time and without the console      *)
(* switching people on, the rules' memberships are exactly what the rules  *)
(* say of everybody, and every stored rule makes sense.  (reconcile,       *)
(* reconcile_group and each place that calls them or decides not to.)      *)
RulesHold ==
    [][Serial =>
        /\ "switch" \notin may => RuleRowsAreEarned' /\ RulesAreApplied'
        /\ \A r \in Rules : rule'[r] # None => Valid(rule'[r])]_vars

(* The engine keeps to its own rows, requests overlapping or not: one that *)
(* a person, the provider or an approved request put there goes only with  *)
(* its group or by a request about membership; and nobody who has left is  *)
(* given one.  (reconcile's two DELETE conditions; wanted is empty.)       *)
ByHand(q) == req[q].op \in {"group_update", "group_patch", "group_part"} /\ Idle(q)'
RulesKeepToTheirOwn ==
    [][\A x \in Pairs :
        /\ member[x] \notin {None, "rule"} /\ member'[x] # member[x] =>
              group'[x[1]] = None \/ \E q \in Requests : ByHand(q)
        /\ Serial /\ member[x] = None /\ member'[x] = "rule" => person'[x[2]].active]_vars

(* Creating a rule puts into its group exactly whom the preview of it      *)
(* named: the preview and the engine choose people by code of their own.   *)
PreviewForetells ==
    [][Serial /\ {"ungroup", "switch"} \cap may = {} =>
        \A r \in Rules : rule[r] = None /\ rule'[r] # None =>
            LET made == rule'[r]
                joined == {p \in People : /\ member[<<made.group, p>>] = None
                                         /\ member'[<<made.group, p>>] # None}
            IN  joined = IF made.enabled THEN WouldBeAdded(made, made.group) ELSE {}]_vars

(* The rules give what they say, and only that.                            *)
RulesDoWhatTheySay == RulesHold /\ RulesKeepToTheirOwn /\ PreviewForetells

(* A login links a person to the provider's id when they have none, and    *)
(* never changes it - one request at a time: it decides by the row it read *)
(* when it began.  (find_user, refresh_user.)                              *)
LoginsKeepTheLink ==
    [][Serial => \A q \in Requests, p \in People :
        req[q].op = "login" /\ Idle(q)' /\ person[p] # None /\ person[p].external_id # None
            => person'[p].external_id = person[p].external_id]_vars
=============================================================================
