------------------------------- MODULE ScimGroups ------------------------------
(***************************************************************************)
(* Groups and who is in them: the provider's sync (routers/scim_groups.py) *)
(* and the console (routers/users.py).                                     *)
(*                                                                         *)
(* The session does not flush on its own: a row a handler adds is inserted *)
(* at the commit, after every row it deletes, and its own reads do not see *)
(* it before.                                                              *)
(***************************************************************************)
EXTENDS PeopleAndGroups

GroupNameTaken(name, g) ==
    \E h \in Groups \ {g} : group[h] # None /\ SameName(group[h], name)

MembersOf(g) == {p \in People : member[<<g, p>>] # None}
Join(g, ids) == {<<g, p, "scim">> : p \in ids}
Part(g, ids) == {<<g, p, member[<<g, p>>]>> : p \in ids}

(* Ids that belong to nobody are dropped: _real_users.                     *)
CreateGroup(q, g, name, ids) ==
    /\ may \cap {"rules", "groups", "members"} # {} /\ group[g] = None
    /\ ~GroupNameTaken(name, g)
    /\ Begin(q, [op |-> "group_create", groups |-> Only(g, name), add |-> Join(g, ids \cap Existing)])

(* PUT: the name, and the members made exactly the list: _replace_members. *)
ReplaceGroup(q, g, name, ids) ==
    /\ "members" \in may /\ group[g] # None
    /\ MembersOf(g) \subseteq ids \/ "ungroup" \in may
    /\ SameName(name, group[g]) \/ ~GroupNameTaken(name, g)
    /\ Begin(q, [op |-> "group_update", groups |-> Differing(Only(g, name), group),
                 add |-> Join(g, (ids \cap Existing) \ MembersOf(g)),
                 del |-> Part(g, MembersOf(g) \ ids)])

(* PATCH: one operation after another, each [op, ids].  stays is what the  *)
(* database shows this handler, joins what it has added but not inserted,  *)
(* twice whom it has added twice.                                          *)
Patched(before, o) ==
    LET wanted == IF o.op = "add" THEN before.stays \cup o.ids
                  ELSE IF o.op = "replace" THEN o.ids
                  ELSE IF o.ids = {} THEN {} ELSE before.stays \ o.ids
        new == wanted \ before.stays
    IN  [stays |-> before.stays \cap wanted,
         joins |-> before.joins \cup new,
         twice |-> before.twice \cup (before.joins \cap new)]

Outcome(g, ops) ==
    FoldLeft(Patched, [stays |-> MembersOf(g), joins |-> {}, twice |-> {}], ops)

(* A membership added twice breaks the primary key: nothing is changed.    *)
(* Every operation drops the ids of nobody before it adds.                 *)
PatchMembers(q, g, ops) ==
    LET out == Outcome(g, ops)
    IN  /\ group[g] # None
        /\ MembersOf(g) \subseteq out.stays \/ "ungroup" \in may
        /\ out.twice \cap Existing = {}
        /\ Begin(q, [op |-> "group_patch", asked |-> [g |-> g, ops |-> ops],
                     add |-> Join(g, out.joins \cap Existing),
                     del |-> Part(g, MembersOf(g) \ out.stays)])

RenameGroup(q, g, name) ==
    /\ "groups" \in may /\ group[g] # None
    /\ SameName(name, group[g]) \/ ~GroupNameTaken(name, g)
    /\ Begin(q, [op |-> "group_update", groups |-> Differing(Only(g, name), group)])

DeleteGroup(q, g) ==
    /\ may \cap {"rules", "groups", "members"} # {} /\ group[g] # None
    /\ Begin(q, [op |-> "group_delete", groups |-> Only(g, None)])

(* The console's own two.                                                  *)
AddToGroup(q, p, g) ==
    /\ "groups" \in may /\ person[p] # None /\ group[g] # None /\ member[<<g, p>>] = None
    /\ Begin(q, [op |-> "console", add |-> {<<g, p, "manual">>}])

RemoveFromGroup(q, p, g) ==
    /\ "ungroup" \in may /\ member[<<g, p>>] # None
    /\ Begin(q, [op |-> "group_part", del |-> {<<g, p, s>> : s \in Sources}])

(* Bound: a PATCH has at most this many operations.                        *)
MaxOps == 2
Operations == [op : {"add", "remove", "replace"}, ids : SUBSET People]
GroupNames == IF "identity" \in may THEN Names ELSE {HomeName[p] : p \in People}

GroupSteps(q) ==
    \E g \in Groups :
        \/ \E name \in GroupNames, ids \in SUBSET People :
              CreateGroup(q, g, name, ids) \/ ReplaceGroup(q, g, name, ids)
        \/ /\ "members" \in may
           /\ \E ops \in UNION {[1 .. n -> Operations] : n \in 1 .. MaxOps} : PatchMembers(q, g, ops)
        \/ \E name \in GroupNames : RenameGroup(q, g, name)
        \/ DeleteGroup(q, g)
        \/ \E p \in People : AddToGroup(q, p, g) \/ RemoveFromGroup(q, p, g)
=============================================================================
