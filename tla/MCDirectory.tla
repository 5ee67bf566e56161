------------------------------- MODULE MCDirectory -------------------------------
(* A directory of two people, a group or two and a rule or two.            *)
EXTENDS Directory

(* Letters: "A" is "a" in capitals.                                        *)
MCLower == "a" :> "a" @@ "A" :> "a" @@ "b" :> "b" @@ " " :> " "

MCNames == {<<"a">>, <<"A">>, <<"b">>}
MCWords == {<<"a">>, <<"b">>}

(* The first person is called a and the second b where names do not vary.  *)
MCHome == [p \in People |-> IF p = "p1" THEN <<"a">> ELSE <<"b">>]

Cond(attribute, operator, value) ==
    [attribute |-> attribute, operator |-> operator, value |-> value]
MCConditions ==
    {Cond("department", "equals", <<"A">>), Cond("email", "not_equals", <<"b">>)}

(* Nothing tells rules or requests apart.                                  *)
MCSymmetry == Permutations(Rules) \cup Permutations(Requests)

MCCircumstances ==
    {{"scim", "login", "identity"}, {"scim", "rules", "department"}, {"login", "rules", "email"},
     {"login", "console", "rules", "department"}, {"race", "login", "rules", "groups"},
     {"login", "rules", "members"}, {"login", "members", "ungroup"},
     {"race", "login", "identity"}, {"scim", "job_title"}, {"scim", "console", "switch", "rename"}}
=============================================================================
