------------------------------- MODULE ScimUsers -------------------------------
(***************************************************************************)
(* How people come into the directory, change and leave it: the provider's *)
(* sync (routers/scim_users.py with scim/mapping.py), a first login        *)
(* (saml/provisioning.py) and the console (routers/users.py).              *)
(***************************************************************************)
EXTENDS PeopleAndGroups

NameChoices(p) == IF "identity" \in may THEN Names ELSE {HomeName[p]}
ExternalChoices == IF "identity" \in may THEN Externals \cup {None} ELSE {None}

(* What a request may carry for an attribute; email has no null.           *)
Allowed(a) ==
    IF a \in may THEN IF a = "email" THEN Words ELSE Words \cup {None}
    ELSE IF a = "email" THEN {CHOOSE w \in Words : TRUE} ELSE {None}

(* WRITABLE_USER_FIELDS, of the fields modelled.                           *)
Writable == {"user_name", "email", "active", "external_id", "department"}

(* apply_user: the columns that change.                                    *)
Applied(user, values) ==
    Differing([f \in DOMAIN values \cap Writable |-> values[f]], user)

-----------------------------------------------------------------------------
(* routers/scim_users.py.                                                  *)

MutCreateUser(q, p, row) ==
    /\ "scim" \in may /\ person[p] = None
    /\ row.external_id # None => Linked(row.external_id) = {}
    /\ Begin(q, [op |-> "scim_create", who |-> p, set |-> row,
                 add |-> ReconcileAdds(rule, p, row)])

CreateUser(q, p, row) ==
    /\ "scim" \in may /\ person[p] = None
    /\ Named(row.user_name) = {}
    /\ row.external_id # None => Linked(row.external_id) = {}
    /\ Begin(q, [op |-> "scim_create", who |-> p, set |-> row,
                 add |-> ReconcileAdds(rule, p, row)])

(* _adopt: a record that began with a login becomes the provider's.        *)
Adopted(user) == IF user.source = "jit" THEN Only("source", "scim") ELSE <<>>

MutUpdate(q, op, p, values) ==
    LET user == person[p]
        changed == Applied(user, values)
        after == Over(changed, user)
    IN  Begin(q, [op |-> op, who |-> p, set |-> Over(changed, Adopted(user)),
                  obj |-> after, asked |-> values,
                  late |-> ~(user.active /\ ~after.active) /\ TouchesRules(DOMAIN changed)])

(* PUT and PATCH, once the checks have passed.  Leaving cuts access, which *)
(* touches no membership; anything else that a rule may read reconciles.   *)
Update(q, op, p, values) ==
    LET user == person[p]
        changed == Applied(user, values)
        after == Over(changed, user)
        leaves == user.active /\ ~after.active
        returns == ~user.active /\ after.active
    IN  Begin(q, [op |-> op, who |-> p, set |-> Over(changed, Adopted(user)),
                  obj |-> after, asked |-> values,
                  late |-> ~leaves /\ (TouchesRules(DOMAIN changed) \/ returns)])

(* PUT: a document always carries a userName and active.                   *)
ReplaceUser(q, p, values) ==
    /\ "scim" \in may /\ person[p] # None
    /\ SameName(values.user_name, person[p].user_name) \/ Named(values.user_name) \ {p} = {}
    /\ Update(q, "scim_put", p, values)

(* PATCH: any of the fields of _PATCHABLE, and no check of the name.       *)
Patchable == {"active", "user_name", "external_id", "email", "job_title", "department"}

PatchUser(q, p, values) ==
    /\ "scim" \in may /\ person[p] # None
    /\ DOMAIN values \subseteq Patchable
    /\ Update(q, "scim_patch", p, values)

(* DELETE only switches a person off, and is answered 204 either way.      *)
DeleteUser(q, p) ==
    /\ "scim" \in may /\ person[p] # None
    /\ Begin(q, [op |-> "scim_delete", who |-> p,
                 set |-> IF person[p].active THEN Only("active", FALSE) ELSE <<>>])

-----------------------------------------------------------------------------
(* saml/provisioning.py, from assertion_consumer_service.                  *)

(* find_user: by external id, else by userName - of whichever case.        *)
Found(external, name) ==
    IF external # None /\ Linked(external) # {} THEN Linked(external) ELSE Named(name)

NewLogin(q, p, external, name, email) ==
    /\ "login" \in may
    /\ Found(external, name) = {} /\ person[p] = None
    /\ LET row == [user_name |-> name, external_id |-> external, active |-> TRUE,
                   source |-> "jit", department |-> None, job_title |-> None, email |-> email]
       IN  Begin(q, [op |-> "login", who |-> p, set |-> row,
                     add |-> ReconcileAdds(rule, p, row)])

MutRefreshed(user, external, email) ==
    Over(IF external # None /\ user.external_id # external THEN Only("external_id", external) ELSE <<>>,
         IF user.source = "jit" /\ email # user.email THEN Only("email", email) ELSE <<>>)

(* refresh_user: an external id is set when missing; the rest changes only *)
(* on records a login made.                                                *)
Refreshed(user, external, email) ==
    Over(IF external # None /\ user.external_id = None THEN Only("external_id", external) ELSE <<>>,
         IF user.source = "jit" /\ email # user.email THEN Only("email", email) ELSE <<>>)

(* A deactivated person is refused, and what changed is still committed.   *)
Login(q, external, name, email) ==
    /\ "login" \in may
    /\ \E p \in Found(external, name) :
          LET set == Refreshed(person[p], external, email)
              user == Over(set, person[p])
              reconciles == user.active /\ TouchesRules(DOMAIN set)
          IN  Begin(q, [op |-> "login", who |-> p, set |-> set,
                        add |-> IF reconciles THEN ReconcileAdds(rule, p, user) ELSE {},
                        del |-> IF reconciles THEN ReconcileDels(rule, p, user) ELSE {}])

-----------------------------------------------------------------------------
(* routers/users.py: update_user.  Whether active may be cleared is the    *)
(* business of RoleGrants.                                                 *)

IdpOwned == {"department", "job_title"}

EditUser(q, p, values) ==
    /\ "console" \in may /\ person[p] # None
    /\ person[p].source = "scim" => DOMAIN values \cap IdpOwned = {}
    /\ LET user == Over(values, person[p])
           reconciles == TouchesRules(DOMAIN values)
       IN  Begin(q, [op |-> "console", who |-> p, set |-> Differing(values, person[p]),
                     add |-> IF reconciles THEN ReconcileAdds(rule, p, user) ELSE {},
                     del |-> IF reconciles THEN ReconcileDels(rule, p, user) ELSE {}])

-----------------------------------------------------------------------------
ScimRows(p) ==
    [user_name : NameChoices(p), external_id : ExternalChoices, active : BOOLEAN,
     source : {"scim"}, department : Allowed("department"), job_title : {None},
     email : Allowed("email")]

(* What a document may carry besides null.                                 *)
Carried(p, f) ==
    IF f = "user_name" THEN NameChoices(p)
    ELSE IF f = "active" THEN BOOLEAN
    ELSE IF f = "external_id" THEN ExternalChoices \ {None}
    ELSE Allowed(f) \ {None}

(* The fields that vary, of those a document may carry.                    *)
InPlay(fields) ==
    {f \in fields : f = "active" \/ f \in may \/ (f = "external_id" /\ "identity" \in may)}

Besides(p) ==
    {<<>>} \cup UNION {{Only(f, v) : v \in Carried(p, f)} :
                        f \in InPlay({"external_id", "department", "email"})}

PutDocuments(p) ==
    {Over([user_name |-> n, active |-> a], rest) :
        n \in NameChoices(p), a \in BOOLEAN, rest \in Besides(p)}

(* A PATCH may also carry a null, which is written; of active it is        *)
(* refused, and the columns of user_name and email would not take it, so   *)
(* that the request fails and nothing changes.                             *)
PatchCarried(p, f) ==
    Carried(p, f) \cup IF f \in {"external_id", "job_title", "department"} THEN {None} ELSE {}

PatchDocuments(p) ==
    UNION {{Only(f, v) : v \in PatchCarried(p, f)} :
            f \in InPlay(Patchable) \cup IF "rename" \in may THEN {"user_name"} ELSE {}}

ConsoleForms(p) ==
    UNION {{Only(f, v) : v \in IF f = "active" THEN BOOLEAN ELSE Allowed(f)} :
            f \in IdpOwned \cup IF "switch" \in may THEN {"active"} ELSE {}}

PeopleSteps(q) ==
    \/ \E p \in People :
          \/ \E row \in ScimRows(p) : CreateUser(q, p, row)
          \/ \E values \in PutDocuments(p) : ReplaceUser(q, p, values)
          \/ \E values \in PatchDocuments(p) : PatchUser(q, p, values)
          \/ DeleteUser(q, p)
          \/ \E values \in ConsoleForms(p) : EditUser(q, p, values)
          \/ \E external \in ExternalChoices, name \in NameChoices(p), email \in Allowed("email") :
                NewLogin(q, p, external, name, email)
    \/ \E external \in ExternalChoices, name \in UNION {NameChoices(p) : p \in People},
          email \in Allowed("email") : Login(q, external, name, email)
=============================================================================
