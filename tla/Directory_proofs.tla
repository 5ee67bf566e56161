---------------------------- MODULE Directory_proofs ----------------------------
(* The directory keeps its shape whatever overlaps; and for any number of  *)
(* people, groups and rules, requests served one at a time leave exactly   *)
(* the memberships that the rules say.                                     *)
EXTENDS Directory, TLAPS

-----------------------------------------------------------------------------
(* Rows and the columns that are set in them.                              *)

LEMMA OverColumns ==
    ASSUME NEW s, NEW row
    PROVE  /\ DOMAIN Over(s, row) = DOMAIN s \cup DOMAIN row
           /\ \A f \in DOMAIN s : Over(s, row)[f] = s[f]
           /\ \A f \in DOMAIN row : f \notin DOMAIN s => Over(s, row)[f] = row[f]
BY DEF Over

LEMMA DifferingColumns ==
    ASSUME NEW s, NEW row
    PROVE  /\ DOMAIN Differing(s, row) = {f \in DOMAIN s : s[f] # row[f]}
           /\ \A f \in DOMAIN Differing(s, row) : Differing(s, row)[f] = s[f]
BY DEF Differing

(* The columns of a person.                                                *)
Column(f) ==
    CASE f = "user_name"   -> Names
      [] f = "external_id" -> Externals \cup {None}
      [] f = "active"      -> BOOLEAN
      [] f = "source"      -> {"manual", "jit", "scim"}
      [] f = "department"  -> Words \cup {None}
      [] f = "job_title"   -> Words \cup {None}
      [] f = "email"       -> Words

(* Columns that can be set in any person's row.                            *)
Columns(s) == DOMAIN s \subseteq Fields /\ \A f \in DOMAIN s : s[f] \in Column(f)

LEMMA RowOf ==
    ASSUME NEW r
    PROVE  r \in Rows => Columns(r) /\ DOMAIN r = Fields
BY DEF Rows, Columns, Column, Fields

LEMMA OverRow ==
    ASSUME NEW s, NEW row \in Rows, Columns(s)
    PROVE  Over(s, row) \in Rows
<1>1. DOMAIN Over(s, row) = Fields
    BY OverColumns, RowOf DEF Columns
<1>2. \A f \in Fields : Over(s, row)[f] \in Column(f)
    <2>1. DOMAIN row = Fields /\ \A f \in Fields : row[f] \in Column(f)
        BY RowOf DEF Columns
    <2> QED
        BY <2>1 DEF Columns, Over
<1>3. Over(s, row) = [f \in Fields |-> Over(s, row)[f]]
    BY <1>1 DEF Over
<1>4. /\ Over(s, row)["user_name"] \in Names /\ Over(s, row)["external_id"] \in Externals \cup {None}
      /\ Over(s, row)["active"] \in BOOLEAN /\ Over(s, row)["source"] \in {"manual", "jit", "scim"}
      /\ Over(s, row)["department"] \in Words \cup {None}
      /\ Over(s, row)["job_title"] \in Words \cup {None} /\ Over(s, row)["email"] \in Words
    BY <1>2 DEF Fields, Column
<1> QED
    BY <1>3, <1>4 DEF Rows, Fields

LEMMA OverColumnsOf ==
    ASSUME NEW s, NEW t, Columns(s), Columns(t)
    PROVE  Columns(Over(s, t))
BY DEF Columns, Over

LEMMA DifferingRow ==
    ASSUME NEW s, NEW row \in Rows, Columns(s)
    PROVE  /\ Columns(Differing(s, row)) /\ DOMAIN Differing(s, row) \subseteq DOMAIN s
           /\ \A f \in Fields : Over(Differing(s, row), row)[f] = Over(s, row)[f]
<1>1. Columns(Differing(s, row)) /\ DOMAIN Differing(s, row) \subseteq DOMAIN s
    BY DifferingColumns DEF Columns
<1>2. ASSUME NEW f \in Fields PROVE Over(Differing(s, row), row)[f] = Over(s, row)[f]
    <2>1. f \in DOMAIN row
        BY RowOf
    <2> QED
        BY <2>1 DEF Over, Differing
<1> QED
    BY <1>1, <1>2

(* Nothing, and one column.                                                *)
LEMMA FewColumns ==
    /\ Columns(<<>>) /\ DOMAIN <<>> = {}
    /\ \A f, v : DOMAIN Only(f, v) = {f} /\ Only(f, v)[f] = v
    /\ \A f \in Fields : \A v \in Column(f) : Columns(Only(f, v))
<1>1. DOMAIN <<>> = {}
    OBVIOUS
<1>2. \A f, v : DOMAIN Only(f, v) = {f} /\ Only(f, v)[f] = v
    BY DEF Only
<1>3. \A f \in Fields : \A v \in Column(f) : Columns(Only(f, v))
    BY DEF Only, Columns
<1>4. Columns(<<>>)
    BY <1>1 DEF Columns
<1> QED
    BY <1>1, <1>2, <1>3, <1>4

(* A rule's row.                                                           *)
RuleFields == {"attribute", "operator", "value", "group", "enabled"}
RuleColumn(f) ==
    CASE f = "attribute" -> Attributes
      [] f = "operator"  -> Operators
      [] f = "value"     -> Texts
      [] f = "group"     -> Groups
      [] f = "enabled"   -> BOOLEAN
RuleColumns(s) == DOMAIN s \subseteq RuleFields /\ \A f \in DOMAIN s : s[f] \in RuleColumn(f)

LEMMA RuleRowOf ==
    ASSUME NEW r
    PROVE  r \in RuleRows => RuleColumns(r) /\ DOMAIN r = RuleFields
BY DEF RuleRows, RuleColumns, RuleColumn, RuleFields

LEMMA OverRule ==
    ASSUME NEW s, NEW row \in RuleRows, RuleColumns(s)
    PROVE  Over(s, row) \in RuleRows
<1>1. DOMAIN Over(s, row) = RuleFields
    BY OverColumns, RuleRowOf DEF RuleColumns
<1>2. \A f \in RuleFields : Over(s, row)[f] \in RuleColumn(f)
    BY OverColumns, RuleRowOf DEF RuleColumns
<1>3. Over(s, row) = [f \in RuleFields |-> Over(s, row)[f]]
    BY <1>1 DEF Over
<1>4. /\ Over(s, row)["attribute"] \in Attributes /\ Over(s, row)["operator"] \in Operators
      /\ Over(s, row)["value"] \in Texts /\ Over(s, row)["group"] \in Groups
      /\ Over(s, row)["enabled"] \in BOOLEAN
    BY <1>2 DEF RuleFields, RuleColumn
<1> QED
    BY <1>3, <1>4 DEF RuleRows, RuleFields

(* Setting the columns that differ is setting them all.                    *)
LEMMA RuleUpdated ==
    ASSUME NEW row \in RuleRows, NEW old \in RuleRows
    PROVE  /\ RuleColumns(Differing(row, old)) /\ Differing(row, old) # None
           /\ Over(Differing(row, old), old) = row
<1> DEFINE d == Differing(row, old)
<1>1. DOMAIN d \subseteq DOMAIN row /\ \A f \in DOMAIN d : d[f] = row[f]
    BY DifferingColumns
<1>2. RuleColumns(d)
    BY <1>1, RuleRowOf DEF RuleColumns
<1>3. d # None
    <2>1. d = [f \in {g \in DOMAIN row : row[g] # old[g]} |-> row[f]]
        BY DEF Differing
    <2>2. \A fields \in SUBSET DOMAIN row : None # [f \in fields |-> row[f]]
        BY NoneAssumption
    <2> QED
        BY <2>1, <2>2
<1>4. Over(d, old) = row
    <2>1. DOMAIN row = RuleFields /\ DOMAIN old = RuleFields
        BY RuleRowOf
    <2>2. DOMAIN Over(d, old) = RuleFields
        BY <1>1, <2>1 DEF Over
    <2>3. \A f \in RuleFields : Over(d, old)[f] = row[f]
        BY <2>1 DEF Over, Differing
    <2>4. Over(d, old) = [f \in RuleFields |-> row[f]]
        BY <2>2, <2>3 DEF Over
    <2>5. row = [f \in RuleFields |-> row[f]]
        BY DEF RuleRows, RuleFields
    <2> QED
        BY <2>4, <2>5
<1> QED
    BY <1>2, <1>3, <1>4

-----------------------------------------------------------------------------
(* Types.  Requests overlap, so what one is about to write has to fit      *)
(* whatever the tables hold by then.                                       *)

ByRequest == {"group_update", "group_patch", "group_part"}

FitsIn(w, people) ==
    /\ w.who \in People \cup {None}
    /\ w.who # None => Columns(w.set) /\ (people[w.who] # None \/ w.set \in Rows)
    /\ w.late => w.who # None
    /\ \A x \in w.add : \E g \in Groups, p \in People, s \in Sources :
           x = <<g, p, s>> /\ (people[p] # None \/ p = w.who)
    /\ w.op \notin ByRequest => \A x \in w.del : x[3] = "rule"
    /\ DOMAIN w.rules \subseteq Rules
    /\ \A r \in DOMAIN w.rules :
           \/ w.rules[r] = None \/ w.rules[r] \in RuleRows
           \/ w.op = "rule_update" /\ RuleColumns(w.rules[r])
    /\ DOMAIN w.groups \subseteq Groups
    /\ \A g \in DOMAIN w.groups : w.groups[g] \in Names \cup {None}

Fits(w) == FitsIn(w, person)

TypeInv ==
    /\ TypeOK
    /\ may \in Circumstances
    /\ DOMAIN req = Requests
    /\ \A q \in Requests : Fits(req[q])

LEMMA NothingFits == Fits(Nothing)
<1>1. DOMAIN <<>> = {}
    BY FewColumns
<1> QED
    BY <1>1 DEF Fits, FitsIn, Nothing, ByRequest

LEMMA TypeInit == Init => TypeInv
<1> SUFFICES ASSUME Init PROVE TypeInv
    OBVIOUS
<1>1. \A q \in Requests : req[q] = Nothing
    BY DEF Init
<1>2. TypeOK
    BY DEF Init, TypeOK, Nothing, Pairs
<1> QED
    BY <1>1, <1>2, NothingFits DEF Init, TypeInv

(* What a request adds are memberships of people there are, or it makes.   *)
LEMMA Added ==
    ASSUME TypeInv, NEW w, Fits(w), NEW x \in Adds(w)
    PROVE  \E g \in Groups, p \in People, s \in Sources :
               x = <<g, p, s>> /\ (person[p] # None \/ p = w.who)
<1>1. CASE x \in w.add
    BY <1>1 DEF Fits, FitsIn
<1>2. CASE x \notin w.add
    <2>1. w.late /\ x \in ReconcileAdds(rule, w.who, w.obj)
        BY <1>2 DEF Adds
    <2>2. PICK g \in Wanted(rule, w.obj) : x = <<g, w.who, "rule">>
        BY <2>1 DEF ReconcileAdds
    <2>3. g \in Groups
        <3>1. \A r \in Applicable(rule, w.obj) : rule[r].group \in Groups
            BY DEF TypeInv, TypeOK, Applicable, RuleRows
        <3> QED
            BY <2>2, <3>1 DEF Wanted
    <2>4. w.who \in People
        BY <2>1 DEF Fits, FitsIn
    <2> QED
        BY <2>2, <2>3, <2>4 DEF Sources
<1> QED
    BY <1>1, <1>2

(* The tables a commit leaves behind.                                      *)
LEMMA PeopleTyped ==
    ASSUME TypeInv, NEW w, Fits(w)
    PROVE  /\ PeopleAfter(w) \in [People -> Rows \cup {None}]
           /\ \A p \in People : person[p] # None => PeopleAfter(w)[p] # None
           /\ w.who # None => PeopleAfter(w)[w.who] # None
<1>1. person \in [People -> Rows \cup {None}] /\ None \notin Rows /\ w.who \in People \cup {None}
    BY NoneAssumption DEF TypeInv, TypeOK, Fits, FitsIn
<1>2. CASE w.who = None
    BY <1>1, <1>2 DEF PeopleAfter
<1>3. CASE w.who # None
    <2> DEFINE row == IF person[w.who] = None THEN w.set ELSE Over(w.set, person[w.who])
    <2>1. row \in Rows
        <3>1. Columns(w.set) /\ (person[w.who] # None \/ w.set \in Rows)
            BY <1>3 DEF Fits, FitsIn
        <3> QED
            BY <1>1, <1>3, <3>1, OverRow
    <2>2. PeopleAfter(w) = [person EXCEPT ![w.who] = row]
        BY <1>1, <1>3 DEF PeopleAfter
    <2> HIDE DEF row
    <2> QED
        BY <1>1, <1>3, <2>1, <2>2
<1> QED
    BY <1>2, <1>3

LEMMA GroupsTyped ==
    ASSUME TypeInv, NEW w, Fits(w)
    PROVE  GroupsAfter(w) \in [Groups -> Names \cup {None}]
<1>1. group \in [Groups -> Names \cup {None}]
    BY DEF TypeInv, TypeOK
<1>2. DOMAIN w.groups \subseteq Groups /\ \A g \in DOMAIN w.groups : w.groups[g] \in Names \cup {None}
    BY DEF Fits, FitsIn
<1> QED
    BY <1>1, <1>2 DEF GroupsAfter, Over

LEMMA RulesTyped ==
    ASSUME TypeInv, NEW w, Fits(w), Storable(w)
    PROVE  /\ RulesAfter(w) \in [Rules -> RuleRows \cup {None}]
           /\ \A r \in Rules : RulesAfter(w)[r] # None =>
                  GroupsAfter(w)[RulesAfter(w)[r].group] # None
<1> DEFINE rows == [r \in Rules |-> IF r \notin DOMAIN w.rules THEN rule[r]
                                    ELSE IF w.rules[r] = None \/ rule[r] = None THEN w.rules[r]
                                    ELSE Over(w.rules[r], rule[r])]
<1>1. rule \in [Rules -> RuleRows \cup {None}]
    BY DEF TypeInv, TypeOK
<1>2. ASSUME NEW r \in Rules PROVE rows[r] \in RuleRows \cup {None}
    <2>1. CASE r \notin DOMAIN w.rules
        BY <1>1, <2>1
    <2>2. CASE r \in DOMAIN w.rules /\ (w.rules[r] = None \/ rule[r] = None)
        <3>1. w.op = "rule_update" => rule[r] # None
            BY <2>2 DEF Storable
        <3>2. w.rules[r] \in RuleRows \cup {None}
            BY <2>2, <3>1 DEF Fits, FitsIn
        <3> QED
            BY <2>2, <3>2
    <2>3. CASE r \in DOMAIN w.rules /\ w.rules[r] # None /\ rule[r] # None
        <3>1. RuleColumns(w.rules[r])
            BY <2>3, RuleRowOf DEF Fits, FitsIn
        <3>2. Over(w.rules[r], rule[r]) \in RuleRows
            BY <1>1, <2>3, <3>1, OverRule
        <3> QED
            BY <2>3, <3>2
    <2> QED
        BY <2>1, <2>2, <2>3
<1>3. RulesAfter(w) = [r \in Rules |-> IF rows[r] # None /\ GroupsAfter(w)[rows[r].group] = None
                                       THEN None ELSE rows[r]]
    BY DEF RulesAfter
<1> HIDE DEF rows
<1> QED
    BY <1>2, <1>3

LEMMA MembersTyped ==
    ASSUME TypeInv, NEW w, Fits(w), Storable(w)
    PROVE  /\ MembersAfter(w) \in [Pairs -> Sources \cup {None}]
           /\ \A x \in Pairs : MembersAfter(w)[x] # None =>
                  GroupsAfter(w)[x[1]] # None /\ PeopleAfter(w)[x[2]] # None
<1>1. member \in [Pairs -> Sources \cup {None}]
    BY DEF TypeInv, TypeOK
<1>2. ASSUME NEW x \in Pairs
      PROVE  /\ MembersAfter(w)[x] \in Sources \cup {None}
             /\ MembersAfter(w)[x] # None => GroupsAfter(w)[x[1]] # None /\ PeopleAfter(w)[x[2]] # None
    <2>1. CASE GroupsAfter(w)[x[1]] = None
        BY <2>1 DEF MembersAfter
    <2>2. CASE GroupsAfter(w)[x[1]] # None /\ \E s \in Sources : <<x[1], x[2], s>> \in Adds(w)
        <3>1. MembersAfter(w)[x] = CHOOSE s \in Sources : <<x[1], x[2], s>> \in Adds(w)
            BY <2>2 DEF MembersAfter
        <3>2. MembersAfter(w)[x] \in Sources
            BY <2>2, <3>1
        <3>3. PICK s \in Sources : <<x[1], x[2], s>> \in Adds(w)
            BY <2>2
        <3>4. PICK g \in Groups, p \in People, z \in Sources :
                  <<x[1], x[2], s>> = <<g, p, z>> /\ (person[p] # None \/ p = w.who)
            BY <3>3, Added
        <3>5. PeopleAfter(w)[x[2]] # None
            <4>1. x[2] = p /\ None \notin People
                BY <3>4, DirectoryAssumption
            <4> QED
                BY <3>4, <4>1, PeopleTyped
        <3> QED
            BY <2>2, <3>2, <3>5
    <2>3. CASE GroupsAfter(w)[x[1]] # None /\ ~\E s \in Sources : <<x[1], x[2], s>> \in Adds(w)
        <3>1. MembersAfter(w)[x] \in {None, member[x]}
            BY <2>3 DEF MembersAfter
        <3>2. member[x] # None => person[x[2]] # None /\ x[2] \in People
            BY DEF TypeInv, TypeOK, Pairs
        <3> QED
            BY <1>1, <2>3, <3>1, <3>2, PeopleTyped
    <2> QED
        BY <2>1, <2>2, <2>3
<1>3. MembersAfter(w) = [x \in Pairs |-> MembersAfter(w)[x]]
    BY DEF MembersAfter
<1> QED
    BY <1>2, <1>3

(* Requests that do not commit now still fit.                              *)
LEMMA FitsStays ==
    ASSUME NEW w, NEW before, NEW after, FitsIn(w, before),
           \A p \in People : before[p] # None => after[p] # None
    PROVE  FitsIn(w, after)
<1>1. w.who # None => Columns(w.set) /\ (after[w.who] # None \/ w.set \in Rows)
    BY DEF FitsIn
<1>2. \A x \in w.add : \E g \in Groups, p \in People, s \in Sources :
          x = <<g, p, s>> /\ (after[p] # None \/ p = w.who)
    BY DEF FitsIn
<1> QED
    BY <1>1, <1>2 DEF FitsIn

LEMMA TypeCommit ==
    ASSUME TypeInv, NEW q \in Requests, Commit(q)
    PROVE  TypeInv'
<1> DEFINE w == req[q]
<1>1. /\ Fits(w) /\ Storable(w) /\ person' = PeopleAfter(w) /\ group' = GroupsAfter(w)
      /\ rule' = RulesAfter(w) /\ member' = MembersAfter(w)
      /\ req' = [req EXCEPT ![q] = Nothing] /\ may' = may
    BY DEF TypeInv, Commit, Write
<1> HIDE DEF w
<1>2. \A p \in People : person[p] # None => person'[p] # None
    BY <1>1, PeopleTyped
<1>3. \A o \in Requests : FitsIn(req'[o], person')
    <2> SUFFICES ASSUME NEW o \in Requests PROVE FitsIn(req'[o], person')
        OBVIOUS
    <2>1. req'[o] = IF o = q THEN Nothing ELSE req[o]
        BY <1>1 DEF TypeInv
    <2>2. FitsIn(req[o], person) /\ FitsIn(Nothing, person)
        BY NothingFits DEF TypeInv, Fits
    <2> QED
        BY <1>2, <2>1, <2>2, FitsStays
<1>4. person' \in [People -> Rows \cup {None}] /\ group' \in [Groups -> Names \cup {None}]
    BY <1>1, PeopleTyped, GroupsTyped
<1>5. /\ rule' \in [Rules -> RuleRows \cup {None}]
      /\ \A r \in Rules : rule'[r] # None => group'[rule'[r].group] # None
    BY <1>1, RulesTyped
<1>6. /\ member' \in [Pairs -> Sources \cup {None}]
      /\ \A x \in Pairs : member'[x] # None => group'[x[1]] # None /\ person'[x[2]] # None
    BY <1>1, MembersTyped
<1>7. \A o \in Requests : req'[o].who \in People \cup {None}
    BY <1>3 DEF FitsIn
<1>8. DOMAIN req' = Requests /\ may' \in Circumstances
    BY <1>1 DEF TypeInv
<1> QED
    BY <1>3, <1>4, <1>5, <1>6, <1>7, <1>8 DEF TypeInv, TypeOK, Fits

-----------------------------------------------------------------------------
(* Requests one at a time.  The tables are settled: names are apart, the   *)
(* rules make sense and everybody's memberships are in line with them; and *)
(* what the one request under way is about to write leaves them settled.   *)

Apart(people) ==
    \A p, o \in People : p # o /\ people[p] # None /\ people[o] # None =>
        ~SameName(people[p].user_name, people[o].user_name)

GroupsApart(groups) ==
    \A g, h \in Groups : g # h /\ groups[g] # None /\ groups[h] # None =>
        ~SameName(groups[g], groups[h])

InLine(members, people, rules, p) ==
    people[p] # None /\ people[p].active =>
        /\ \A g \in Groups : members[<<g, p>>] = "rule" => g \in Wanted(rules, people[p])
        /\ "ungroup" \notin may =>
              \A g \in Wanted(rules, people[p]) : members[<<g, p>>] # None

SettledIn(people, groups, members, rules) ==
    /\ "rename" \notin may => Apart(people)
    /\ GroupsApart(groups)
    /\ "switch" \notin may => \A p \in People : InLine(members, people, rules, p)
    /\ \A r \in Rules : rules[r] # None => Valid(rules[r])

Settled == SettledIn(person, group, member, rule)

(* Nobody who has left is given a membership by a rule.                    *)
GivesTheActive(w) ==
    \A g \in Groups, p \in People :
        member[<<g, p>>] = None /\ MembersAfter(w)[<<g, p>>] = "rule" => PeopleAfter(w)[p].active

KeepsTheLink(w) ==
    w.op = "login" =>
        \A p \in People : person[p] # None /\ person[p].external_id # None =>
            PeopleAfter(w)[p].external_id = person[p].external_id

Joined(w, g) ==
    {p \in People : member[<<g, p>>] = None /\ MembersAfter(w)[<<g, p>>] # None}

Foretold(w) ==
    {"ungroup", "switch"} \cap may = {} =>
        \A r \in Rules : rule[r] = None /\ RulesAfter(w)[r] # None =>
            LET made == RulesAfter(w)[r]
            IN  Joined(w, made.group) = IF made.enabled THEN WouldBeAdded(made, made.group) ELSE {}

Keeps(w) ==
    /\ SettledIn(PeopleAfter(w), GroupsAfter(w), MembersAfter(w), RulesAfter(w))
    /\ GivesTheActive(w) /\ KeepsTheLink(w) /\ Foretold(w)

SerialInv ==
    Serial =>
        /\ Settled
        /\ \A q, o \in Requests : ~Idle(q) /\ ~Idle(o) => q = o
        /\ \A q \in Requests : ~Idle(q) => \E w : w = req[q] /\ Keeps(w)

(* What is wanted depends on being active and on the attributes only.      *)
LEMMA SameWanted ==
    ASSUME NEW rules, \A r \in Rules : rules[r] # None => rules[r].attribute \in Attributes,
           NEW u, NEW v, u.active = v.active, \A f \in Attributes : u[f] = v[f]
    PROVE  Wanted(rules, u) = Wanted(rules, v)
<1>1. \A r \in Rules : rules[r] # None => u[rules[r].attribute] = v[rules[r].attribute]
    OBVIOUS
<1>2. ASSUME NEW r \in Rules, rules[r] # None
      PROVE  Matches(rules[r], u) = Matches(rules[r], v)
    BY <1>1, <1>2, Zenon DEF Matches
<1>3. Applicable(rules, u) = Applicable(rules, v)
    BY <1>2 DEF Applicable
<1> QED
    BY <1>3 DEF Wanted

LEMMA WantedIs ==
    ASSUME NEW rules, NEW u, NEW g
    PROVE  g \in Wanted(rules, u) <=>
               u.active /\ \E r \in Applicable(rules, u) : rules[r].group = g
BY DEF Wanted

(* A membership a commit leaves behind.                                    *)
LEMMA MemberAfter ==
    ASSUME NEW w, NEW g \in Groups, NEW p \in People, GroupsAfter(w)[g] # None
    PROVE  /\ (\E s \in Sources : <<g, p, s>> \in Adds(w))
              => \E s \in Sources : <<g, p, s>> \in Adds(w) /\ MembersAfter(w)[<<g, p>>] = s
           /\ ~(\E s \in Sources : <<g, p, s>> \in Adds(w))
              => MembersAfter(w)[<<g, p>>] =
                     IF <<g, p, member[<<g, p>>]>> \in Dels(w) THEN None ELSE member[<<g, p>>]
<1> DEFINE x == <<g, p>>
<1>1. x \in Pairs /\ x[1] = g /\ x[2] = p
    BY DEF Pairs
<1>2. CASE \E s \in Sources : <<g, p, s>> \in Adds(w)
    <2>1. MembersAfter(w)[x] = CHOOSE s \in Sources : <<g, p, s>> \in Adds(w)
        BY <1>1, <1>2 DEF MembersAfter
    <2> QED
        BY <1>2, <2>1
<1>3. CASE ~\E s \in Sources : <<g, p, s>> \in Adds(w)
    <2>1. x \in Deleted(w) <=> <<g, p, member[x]>> \in Dels(w)
        BY <1>1 DEF Deleted
    <2> QED
        BY <1>1, <1>3, <2>1 DEF MembersAfter
<1> QED
    BY <1>2, <1>3

(* Nobody is a member of a group that is gone.                             *)
LEMMA NoMember ==
    ASSUME NEW w, NEW g \in Groups, NEW p \in People, GroupsAfter(w)[g] = None
    PROVE  MembersAfter(w)[<<g, p>>] = None
BY DEF MembersAfter, Pairs

(* Whoever is reconciled is in line.                                       *)
LEMMA Reconciled ==
    ASSUME TypeInv, NEW w, NEW p \in People, NEW wanted \in SUBSET Groups,
           GroupsAfter(w) = group, \A g \in wanted : group[g] # None,
           \A g \in Groups, s \in Sources :
               <<g, p, s>> \in Adds(w) <=> s = "rule" /\ g \in wanted /\ member[<<g, p>>] = None,
           \A g \in Groups :
               <<g, p, member[<<g, p>>]>> \in Dels(w) <=> g \notin wanted /\ member[<<g, p>>] = "rule",
           wanted = Wanted(RulesAfter(w), PeopleAfter(w)[p])
    PROVE  /\ InLine(MembersAfter(w), PeopleAfter(w), RulesAfter(w), p)
           /\ \A g \in Groups : member[<<g, p>>] = None =>
                  (MembersAfter(w)[<<g, p>>] # None <=> g \in wanted)
           /\ \A g \in Groups :
                  member[<<g, p>>] = None /\ MembersAfter(w)[<<g, p>>] = "rule"
                  => PeopleAfter(w)[p].active
<1>1. None # "rule" /\ "rule" \in Sources
    BY NoneAssumption DEF Sources
<1>2. ASSUME NEW g \in Groups
      PROVE  MembersAfter(w)[<<g, p>>] =
                 IF g \in wanted THEN IF member[<<g, p>>] = None THEN "rule" ELSE member[<<g, p>>]
                 ELSE IF member[<<g, p>>] = "rule" THEN None ELSE member[<<g, p>>]
    <2>1. CASE group[g] = None
        <3>1. member[<<g, p>>] = None
            BY <2>1 DEF TypeInv, TypeOK, Pairs
        <3> QED
            BY <1>1, <2>1, <3>1, NoMember
    <2>2. CASE group[g] # None /\ g \in wanted /\ member[<<g, p>>] = None
        <3>1. \E s \in Sources : <<g, p, s>> \in Adds(w) /\ MembersAfter(w)[<<g, p>>] = s
            BY <1>1, <2>2, MemberAfter
        <3> QED
            BY <2>2, <3>1
    <2>3. CASE group[g] # None /\ ~(g \in wanted /\ member[<<g, p>>] = None)
        <3>1. ~\E s \in Sources : <<g, p, s>> \in Adds(w)
            BY <2>3
        <3>2. MembersAfter(w)[<<g, p>>] =
                  IF <<g, p, member[<<g, p>>]>> \in Dels(w) THEN None ELSE member[<<g, p>>]
            BY <2>3, <3>1, MemberAfter
        <3> QED
            BY <1>1, <2>3, <3>2
    <2> QED
        BY <2>1, <2>2, <2>3
<1>3. wanted # {} => PeopleAfter(w)[p].active
    BY WantedIs
<1>4. InLine(MembersAfter(w), PeopleAfter(w), RulesAfter(w), p)
    BY <1>1, <1>2 DEF InLine
<1> QED
    BY <1>1, <1>2, <1>3, <1>4

(* The parts of the tables that a request does not write.                  *)
LEMMA NoRules ==
    ASSUME TypeInv, NEW w, w.rules = <<>>
    PROVE  /\ RulesAfter(w) = [r \in Rules |->
                  IF rule[r] # None /\ GroupsAfter(w)[rule[r].group] = None THEN None ELSE rule[r]]
           /\ GroupsAfter(w) = group => RulesAfter(w) = rule
<1>1. DOMAIN w.rules = {}
    BY FewColumns
<1>2. RulesAfter(w) = [r \in Rules |->
          IF rule[r] # None /\ GroupsAfter(w)[rule[r].group] = None THEN None ELSE rule[r]]
    BY <1>1 DEF RulesAfter
<1>3. rule \in [Rules -> RuleRows \cup {None}]
      /\ \A r \in Rules : rule[r] # None => group[rule[r].group] # None
    BY DEF TypeInv, TypeOK
<1> QED
    BY <1>2, <1>3

LEMMA NoGroups ==
    ASSUME TypeInv, NEW w, w.groups = <<>>
    PROVE  GroupsAfter(w) = group
<1>1. DOMAIN w.groups = {}
    BY FewColumns
<1>2. group \in [Groups -> Names \cup {None}]
    BY DEF TypeInv, TypeOK
<1> QED
    BY <1>1, <1>2 DEF GroupsAfter, Over

(* Who is neither given nor loses a membership keeps theirs.               *)
LEMMA Untouched ==
    ASSUME TypeInv, NEW w, NEW p \in People, GroupsAfter(w) = group,
           \A g \in Groups, s \in Sources : <<g, p, s>> \notin Adds(w),
           \A g \in Groups : <<g, p, member[<<g, p>>]>> \notin Dels(w)
    PROVE  \A g \in Groups : MembersAfter(w)[<<g, p>>] = member[<<g, p>>]
<1> SUFFICES ASSUME NEW g \in Groups PROVE MembersAfter(w)[<<g, p>>] = member[<<g, p>>]
    OBVIOUS
<1>1. CASE group[g] = None
    <2>1. member[<<g, p>>] = None
        BY <1>1 DEF TypeInv, TypeOK, Pairs
    <2> QED
        BY <1>1, <2>1, NoMember
<1>2. CASE group[g] # None
    BY <1>2, MemberAfter
<1> QED
    BY <1>1, <1>2

(* The groups that rules give are groups there are.                        *)
LEMMA WantedExists ==
    ASSUME NEW rules \in [Rules -> RuleRows \cup {None}], NEW groups,
           \A r \in Rules : rules[r] # None => groups[rules[r].group] # None,
           NEW user
    PROVE  /\ Wanted(rules, user) \in SUBSET Groups
           /\ \A g \in Wanted(rules, user) : groups[g] # None
<1>1. \A r \in Applicable(rules, user) : rules[r].group \in Groups /\ groups[rules[r].group] # None
    BY DEF Applicable, RuleRows
<1> QED
    BY <1>1 DEF Wanted

(* One person's row is written, and their memberships are brought into     *)
(* line or need not be.                                                    *)
LEMMA PeopleKeep ==
    ASSUME TypeInv, Settled, NEW w, Fits(w), NEW p \in People, w.who = p,
           w.rules = <<>>, w.groups = <<>>,
           "rename" \notin may => \A o \in Existing \ {p} :
               ~SameName(PeopleAfter(w)[p].user_name, person[o].user_name),
           KeepsTheLink(w),
           \/ \E user : /\ Wanted(rule, user) = Wanted(rule, PeopleAfter(w)[p])
                        /\ Adds(w) = ReconcileAdds(rule, p, user)
                        /\ Dels(w) = ReconcileDels(rule, p, user)
           \/ /\ Adds(w) = {} /\ Dels(w) = {}
              /\ "switch" \notin may /\ PeopleAfter(w)[p].active =>
                     /\ person[p] # None /\ person[p].active
                     /\ Wanted(rule, person[p]) = Wanted(rule, PeopleAfter(w)[p])
    PROVE  Keeps(w)
<1>1. GroupsAfter(w) = group
    BY NoGroups
<1>2. RulesAfter(w) = rule
    BY <1>1, NoRules
<1>3. \A o \in People \ {p} : PeopleAfter(w)[o] = person[o]
    <2>1. p # None /\ person \in [People -> Rows \cup {None}]
        BY DirectoryAssumption DEF TypeInv, TypeOK
    <2> QED
        BY <2>1 DEF PeopleAfter
<1>4. Apart(PeopleAfter(w)) \/ "rename" \in may
    <2> SUFFICES ASSUME "rename" \notin may, NEW a \in People, NEW b \in People, a # b,
                        PeopleAfter(w)[a] # None, PeopleAfter(w)[b] # None
                 PROVE  ~SameName(PeopleAfter(w)[a].user_name, PeopleAfter(w)[b].user_name)
        BY DEF Apart
    <2>1. \A x, y : SameName(x, y) <=> SameName(y, x)
        BY DEF SameName
    <2>2. CASE a # p /\ b # p
        BY <1>3, <2>2 DEF Settled, SettledIn, Apart
    <2>3. CASE a = p
        BY <1>3, <2>3 DEF Existing
    <2>4. CASE b = p
        BY <1>3, <2>1, <2>4 DEF Existing
    <2> QED
        BY <2>2, <2>3, <2>4
<1>5. /\ \A o \in People \ {p}, g \in Groups : \A s : <<g, o, s>> \notin Adds(w)
      /\ \A o \in People \ {p}, g \in Groups : \A s : <<g, o, s>> \notin Dels(w)
    BY DEF ReconcileAdds, ReconcileDels
<1>6. \A o \in People \ {p}, g \in Groups : MembersAfter(w)[<<g, o>>] = member[<<g, o>>]
    BY <1>1, <1>5, Untouched
<1>7. "switch" \notin may =>
          \A o \in People \ {p} : InLine(MembersAfter(w), PeopleAfter(w), RulesAfter(w), o)
    <2> SUFFICES ASSUME "switch" \notin may, NEW o \in People \ {p}
                 PROVE  InLine(MembersAfter(w), PeopleAfter(w), RulesAfter(w), o)
        OBVIOUS
    <2>1. InLine(member, person, rule, o)
        BY DEF Settled, SettledIn
    <2>2. Wanted(rule, person[o]) \subseteq Groups
        BY WantedExists DEF TypeInv, TypeOK
    <2> QED
        BY <1>2, <1>3, <1>6, <2>1, <2>2 DEF InLine
<1>8. /\ "switch" \notin may => InLine(MembersAfter(w), PeopleAfter(w), RulesAfter(w), p)
      /\ \A g \in Groups :
             member[<<g, p>>] = None /\ MembersAfter(w)[<<g, p>>] = "rule" => PeopleAfter(w)[p].active
    <2>1. ASSUME NEW user, Wanted(rule, user) = Wanted(rule, PeopleAfter(w)[p]),
                 Adds(w) = ReconcileAdds(rule, p, user), Dels(w) = ReconcileDels(rule, p, user)
          PROVE  /\ InLine(MembersAfter(w), PeopleAfter(w), RulesAfter(w), p)
                 /\ \A g \in Groups :
                        member[<<g, p>>] = None /\ MembersAfter(w)[<<g, p>>] = "rule"
                        => PeopleAfter(w)[p].active
        <3> DEFINE wanted == Wanted(rule, user)
        <3>1. wanted \in SUBSET Groups /\ \A g \in wanted : group[g] # None
            BY WantedExists DEF TypeInv, TypeOK
        <3>2. wanted = Wanted(RulesAfter(w), PeopleAfter(w)[p])
            BY <1>2, <2>1
        <3>3. \A g \in Groups, s \in Sources :
                  <<g, p, s>> \in Adds(w) <=> s = "rule" /\ g \in wanted /\ member[<<g, p>>] = None
            BY <2>1 DEF ReconcileAdds, ReconcileDels
        <3>4. \A g \in Groups :
                  <<g, p, member[<<g, p>>]>> \in Dels(w) <=> g \notin wanted /\ member[<<g, p>>] = "rule"
            BY <2>1 DEF ReconcileAdds, ReconcileDels
        <3> HIDE DEF wanted
        <3> QED
            BY <1>1, <3>1, <3>2, <3>3, <3>4, Reconciled
    <2>2. ASSUME Adds(w) = {}, Dels(w) = {},
                 "switch" \notin may /\ PeopleAfter(w)[p].active =>
                     /\ person[p] # None /\ person[p].active
                     /\ Wanted(rule, person[p]) = Wanted(rule, PeopleAfter(w)[p])
          PROVE  /\ "switch" \notin may => InLine(MembersAfter(w), PeopleAfter(w), RulesAfter(w), p)
                 /\ \A g \in Groups : MembersAfter(w)[<<g, p>>] = member[<<g, p>>]
        <3>1. \A g \in Groups : MembersAfter(w)[<<g, p>>] = member[<<g, p>>]
            BY <1>1, <2>2, Untouched
        <3>2. "switch" \notin may => InLine(member, person, rule, p)
            BY DEF Settled, SettledIn
        <3>3. Wanted(rule, person[p]) \subseteq Groups
            BY WantedExists DEF TypeInv, TypeOK
        <3>4. "switch" \notin may => InLine(MembersAfter(w), PeopleAfter(w), RulesAfter(w), p)
            BY <1>2, <2>2, <3>1, <3>2, <3>3 DEF InLine
        <3> QED
            BY <3>1, <3>4
    <2>3. None # "rule"
        BY NoneAssumption DEF Sources
    <2> QED
        BY <2>1, <2>2, <2>3
<1>9. SettledIn(PeopleAfter(w), GroupsAfter(w), MembersAfter(w), RulesAfter(w))
    BY <1>1, <1>2, <1>4, <1>7, <1>8 DEF Settled, SettledIn
<1>10. GivesTheActive(w)
    <2>1. None # "rule"
        BY NoneAssumption DEF Sources
    <2> QED
        BY <1>6, <1>8, <2>1 DEF GivesTheActive
<1>11. Foretold(w)
    BY <1>2 DEF Foretold
<1> QED
    BY <1>9, <1>10, <1>11 DEF Keeps

(* What reconciling everybody adds and deletes.                            *)
LEMMA GroupRows ==
    ASSUME NEW rows, NEW p, NEW g \in Groups, NEW s
    PROVE  /\ <<g, p, s>> \in GroupAdds(rows) <=>
                  /\ p \in Existing /\ s = "rule"
                  /\ g \in Wanted(rows, person[p]) /\ member[<<g, p>>] = None
           /\ <<g, p, s>> \in GroupDels(rows) <=>
                  /\ p \in Existing /\ s = "rule"
                  /\ g \notin Wanted(rows, person[p]) /\ member[<<g, p>>] = "rule"
<1>1. /\ <<g, p, s>> \in GroupAdds(rows) <=>
             \E o \in Existing : <<g, p, s>> \in ReconcileAdds(rows, o, person[o])
      /\ <<g, p, s>> \in GroupDels(rows) <=>
             \E o \in Existing : <<g, p, s>> \in ReconcileDels(rows, o, person[o])
    BY DEF GroupAdds, GroupDels
<1>2. \A o \in Existing :
          /\ <<g, p, s>> \in ReconcileAdds(rows, o, person[o]) <=>
                 o = p /\ s = "rule" /\ g \in Wanted(rows, person[o]) /\ member[<<g, o>>] = None
          /\ <<g, p, s>> \in ReconcileDels(rows, o, person[o]) <=>
                 o = p /\ s = "rule" /\ g \notin Wanted(rows, person[o]) /\ member[<<g, o>>] = "rule"
    BY DEF ReconcileAdds, ReconcileDels
<1> QED
    BY <1>1, <1>2

(* Rules are written and everybody is reconciled with rows, which say what *)
(* the rules then say.                                                     *)
LEMMA RulesKeep ==
    ASSUME TypeInv, Settled, NEW w, w.who = None, w.late = FALSE, w.op # "login", w.groups = <<>>,
           NEW rows \in [Rules -> RuleRows \cup {None}],
           \A r \in Rules : rows[r] # None => group[rows[r].group] # None,
           w.add = GroupAdds(rows), w.del = GroupDels(rows),
           \A p \in Existing : Wanted(rows, person[p]) = Wanted(RulesAfter(w), person[p]),
           \A r \in Rules : RulesAfter(w)[r] # None => Valid(RulesAfter(w)[r])
    PROVE  /\ SettledIn(PeopleAfter(w), GroupsAfter(w), MembersAfter(w), RulesAfter(w))
           /\ GivesTheActive(w) /\ KeepsTheLink(w)
           /\ \A p \in Existing, g \in Groups : member[<<g, p>>] = None =>
                  (MembersAfter(w)[<<g, p>>] # None <=> g \in Wanted(rows, person[p]))
           /\ \A g \in Groups : Joined(w, g) \subseteq Existing
<1>1. GroupsAfter(w) = group /\ PeopleAfter(w) = person
    BY NoGroups DEF PeopleAfter
<1>2. Adds(w) = GroupAdds(rows) /\ Dels(w) = GroupDels(rows)
    BY DEF Adds, Dels
<1>3. ASSUME NEW p \in Existing
      PROVE  /\ InLine(MembersAfter(w), PeopleAfter(w), RulesAfter(w), p)
             /\ \A g \in Groups : member[<<g, p>>] = None =>
                    (MembersAfter(w)[<<g, p>>] # None <=> g \in Wanted(rows, person[p]))
             /\ \A g \in Groups :
                    member[<<g, p>>] = None /\ MembersAfter(w)[<<g, p>>] = "rule"
                    => PeopleAfter(w)[p].active
    <2> DEFINE wanted == Wanted(rows, person[p])
    <2>1. wanted \in SUBSET Groups /\ \A g \in wanted : group[g] # None
        BY WantedExists
    <2>2. wanted = Wanted(RulesAfter(w), PeopleAfter(w)[p])
        BY <1>1
    <2>3. \A g \in Groups, s \in Sources :
              <<g, p, s>> \in Adds(w) <=> s = "rule" /\ g \in wanted /\ member[<<g, p>>] = None
        BY <1>2, GroupRows
    <2>4. \A g \in Groups :
              <<g, p, member[<<g, p>>]>> \in Dels(w) <=> g \notin wanted /\ member[<<g, p>>] = "rule"
        BY <1>2, GroupRows
    <2>5. p \in People
        BY DEF Existing
    <2> HIDE DEF wanted
    <2>6. /\ InLine(MembersAfter(w), PeopleAfter(w), RulesAfter(w), p)
          /\ \A g \in Groups : member[<<g, p>>] = None =>
                    (MembersAfter(w)[<<g, p>>] # None <=> g \in wanted)
          /\ \A g \in Groups :
                    member[<<g, p>>] = None /\ MembersAfter(w)[<<g, p>>] = "rule"
                    => PeopleAfter(w)[p].active
        BY <1>1, <2>1, <2>2, <2>3, <2>4, <2>5, Reconciled
    <2> QED
        BY <2>6 DEF wanted
<1>4. ASSUME NEW p \in People \ Existing
      PROVE  \A g \in Groups : MembersAfter(w)[<<g, p>>] = None
    <2>1. \A g \in Groups : \A s : <<g, p, s>> \notin Adds(w) /\ <<g, p, s>> \notin Dels(w)
        <3> SUFFICES ASSUME NEW g \in Groups, NEW s
                     PROVE  <<g, p, s>> \notin Adds(w) /\ <<g, p, s>> \notin Dels(w)
            OBVIOUS
        <3>1. <<g, p, s>> \notin GroupAdds(rows) /\ <<g, p, s>> \notin GroupDels(rows)
            BY GroupRows
        <3> QED
            BY <1>2, <3>1
    <2>2. \A g \in Groups : member[<<g, p>>] = None
        BY DEF TypeInv, TypeOK, Pairs, Existing
    <2> QED
        BY <1>1, <2>1, <2>2, Untouched
<1>5. \A p \in People \ Existing : InLine(MembersAfter(w), PeopleAfter(w), RulesAfter(w), p)
    BY <1>1 DEF InLine, Existing
<1>6. SettledIn(PeopleAfter(w), GroupsAfter(w), MembersAfter(w), RulesAfter(w))
    BY <1>1, <1>3, <1>5 DEF Settled, SettledIn
<1>7. GivesTheActive(w)
    <2>1. None # "rule"
        BY NoneAssumption DEF Sources
    <2> QED
        BY <1>3, <1>4, <2>1 DEF GivesTheActive
<1>8. KeepsTheLink(w)
    BY DEF KeepsTheLink
<1>9. \A g \in Groups : Joined(w, g) \subseteq Existing
    BY <1>4 DEF Joined
<1> QED
    BY <1>3, <1>6, <1>7, <1>8, <1>9

(* Groups and the memberships that people and the provider give.           *)
LEMMA GroupsKeep ==
    ASSUME TypeInv, Settled, NEW w, Fits(w), w.who = None, w.op # "login", w.rules = <<>>,
           \A x \in w.add : x[3] # "rule", "ungroup" \notin may => w.del = {},
           GroupsApart(GroupsAfter(w))
    PROVE  Keeps(w)
<1>1. PeopleAfter(w) = person
    BY DEF PeopleAfter
<1>2. ~w.late
    BY DEF Fits, FitsIn
<1>3. Adds(w) = w.add /\ Dels(w) = w.del
    BY <1>2 DEF Adds, Dels
<1>4. RulesAfter(w) = [r \in Rules |->
          IF rule[r] # None /\ GroupsAfter(w)[rule[r].group] = None THEN None ELSE rule[r]]
    BY NoRules
<1>5. /\ rule \in [Rules -> RuleRows \cup {None}] /\ None # "rule"
      /\ group \in [Groups -> Names \cup {None}]
    BY NoneAssumption DEF TypeInv, TypeOK, Sources
<1>6. ASSUME NEW p \in People
      PROVE  \A g \in Groups : g \in Wanted(RulesAfter(w), person[p]) <=>
                 g \in Wanted(rule, person[p]) /\ GroupsAfter(w)[g] # None
    <2>1. \A r \in Rules : r \in Applicable(RulesAfter(w), person[p]) <=>
              r \in Applicable(rule, person[p]) /\ GroupsAfter(w)[rule[r].group] # None
        BY <1>4 DEF Applicable
    <2>2. \A r \in Applicable(RulesAfter(w), person[p]) : RulesAfter(w)[r] = rule[r]
        BY <1>4 DEF Applicable
    <2>3. \A r \in Applicable(rule, person[p]) : r \in Rules
        BY DEF Applicable
    <2>4. \A r \in Applicable(RulesAfter(w), person[p]) : r \in Rules
        BY DEF Applicable
    <2> QED
        BY <2>1, <2>2, <2>3, <2>4, WantedIs
<1>7. ASSUME NEW p \in People, NEW g \in Groups
      PROVE  /\ MembersAfter(w)[<<g, p>>] = "rule" => member[<<g, p>>] = "rule" /\ GroupsAfter(w)[g] # None
             /\ "ungroup" \notin may /\ member[<<g, p>>] # None /\ GroupsAfter(w)[g] # None =>
                    MembersAfter(w)[<<g, p>>] # None
    <2>1. CASE GroupsAfter(w)[g] = None
        BY <1>5, <2>1, NoMember
    <2>2. CASE GroupsAfter(w)[g] # None
        <3>1. \A s \in Sources : <<g, p, s>> \in Adds(w) => s # "rule" /\ s # None
            BY <1>3, NoneAssumption
        <3>2. CASE \E s \in Sources : <<g, p, s>> \in Adds(w)
            <4>1. \E s \in Sources : <<g, p, s>> \in Adds(w) /\ MembersAfter(w)[<<g, p>>] = s
                BY <2>2, <3>2, MemberAfter
            <4> QED
                BY <3>1, <4>1
        <3>3. CASE ~\E s \in Sources : <<g, p, s>> \in Adds(w)
            <4>1. MembersAfter(w)[<<g, p>>] =
                      IF <<g, p, member[<<g, p>>]>> \in Dels(w) THEN None ELSE member[<<g, p>>]
                BY <2>2, <3>3, MemberAfter
            <4> QED
                BY <1>3, <1>5, <2>2, <4>1
        <3> QED
            BY <3>2, <3>3
    <2> QED
        BY <2>1, <2>2
<1>9. \A p \in People : InLine(member, person, rule, p) =>
          InLine(MembersAfter(w), PeopleAfter(w), RulesAfter(w), p)
    <2> SUFFICES ASSUME NEW p \in People, InLine(member, person, rule, p)
                 PROVE  InLine(MembersAfter(w), PeopleAfter(w), RulesAfter(w), p)
        OBVIOUS
    <2>1. Wanted(RulesAfter(w), person[p]) \subseteq Groups
        <3>1. \A r \in Rules : RulesAfter(w)[r] # None => RulesAfter(w)[r].group \in Groups
            BY <1>4, <1>5 DEF RuleRows
        <3> QED
            BY <3>1 DEF Wanted, Applicable
    <2> QED
        BY <1>1, <1>6, <1>7, <2>1 DEF InLine
<1>10. \A r \in Rules : RulesAfter(w)[r] # None => RulesAfter(w)[r] = rule[r]
    BY <1>4
<1>11. SettledIn(PeopleAfter(w), GroupsAfter(w), MembersAfter(w), RulesAfter(w))
    BY <1>1, <1>9, <1>10 DEF Settled, SettledIn
<1>12. GivesTheActive(w)
    BY <1>5, <1>7 DEF GivesTheActive
<1>13. KeepsTheLink(w) /\ Foretold(w)
    BY <1>10 DEF KeepsTheLink, Foretold
<1> QED
    BY <1>11, <1>12, <1>13 DEF Keeps

-----------------------------------------------------------------------------
(* What each operation is about to write: whatever may overlap it fits     *)
(* the tables, and by itself it leaves them settled.                       *)

Sound(w) == Fits(w) /\ (Serial /\ Settled => Keeps(w))

Begins(q) ==
    /\ Alone /\ Idle(q)
    /\ UNCHANGED <<person, group, member, rule, may>>
    /\ \E w : Sound(w) /\ req' = [req EXCEPT ![q] = w]

LEMMA ChosenFrom ==
    /\ \A p \in People : NameChoices(p) \subseteq Names
    /\ ExternalChoices \subseteq Externals \cup {None}
    /\ \A a : Allowed(a) \subseteq Words \cup {None}
    /\ Allowed("email") \subseteq Words
<1>1. HomeName \in [People -> Names] /\ (CHOOSE w \in Words : TRUE) \in Words
    BY DirectoryAssumption
<1>2. \A p \in People : NameChoices(p) \subseteq Names
    BY <1>1 DEF NameChoices
<1>3. ExternalChoices \subseteq Externals \cup {None}
    BY DEF ExternalChoices
<1>4. \A a : Allowed(a) \subseteq Words \cup {None}
    BY <1>1 DEF Allowed
<1>5. Allowed("email") \subseteq Words
    BY <1>1 DEF Allowed
<1> QED
    BY <1>2, <1>3, <1>4, <1>5

LEMMA PersonFits ==
    ASSUME TypeInv, NEW w, w.who \in People, Columns(w.set),
           person[w.who] # None \/ w.set \in Rows,
           w.rules = <<>>, w.groups = <<>>,
           w.add = {} \/ \E user : w.add = ReconcileAdds(rule, w.who, user),
           w.del = {} \/ \E user : w.del = ReconcileDels(rule, w.who, user)
    PROVE  Fits(w)
<1>1. \A x \in w.add : \E g \in Groups, p \in People, s \in Sources :
          x = <<g, p, s>> /\ (person[p] # None \/ p = w.who)
    <2> SUFFICES ASSUME NEW user, NEW x \in ReconcileAdds(rule, w.who, user)
                 PROVE  \E g \in Groups, p \in People, s \in Sources :
                            x = <<g, p, s>> /\ (person[p] # None \/ p = w.who)
        OBVIOUS
    <2>1. Wanted(rule, user) \subseteq Groups
        BY WantedExists DEF TypeInv, TypeOK
    <2> QED
        BY <2>1 DEF ReconcileAdds, Sources
<1>2. \A x \in w.del : x[3] = "rule"
    <2> SUFFICES ASSUME NEW user, NEW x \in ReconcileDels(rule, w.who, user)
                 PROVE  x[3] = "rule"
        OBVIOUS
    <2>1. PICK g \in Groups : x = <<g, w.who, "rule">>
        BY DEF ReconcileDels
    <2> QED
        BY <2>1
<1>3. DOMAIN w.rules = {} /\ DOMAIN w.groups = {} /\ None \notin People
    BY FewColumns, DirectoryAssumption
<1> QED
    BY <1>1, <1>2, <1>3 DEF Fits, FitsIn

(* A new person, reconciled on the way in.                                 *)
LEMMA NewPerson ==
    ASSUME TypeInv, NEW p \in People, person[p] = None, NEW row \in Rows,
           Named(row.user_name) = {},
           NEW w, w.who = p, w.set = row, w.late = FALSE,
           w.add = ReconcileAdds(rule, p, row), w.del = {}, w.rules = <<>>, w.groups = <<>>
    PROVE  Sound(w)
<1>1. Fits(w)
    BY PersonFits, RowOf
<1>2. PeopleAfter(w) = [person EXCEPT ![p] = row]
    <2>1. p # None
        BY DirectoryAssumption
    <2> QED
        BY <2>1 DEF PeopleAfter
<1>3. PeopleAfter(w)[p] = row /\ \A o \in People \ {p} : PeopleAfter(w)[o] = person[o]
    BY <1>2 DEF TypeInv, TypeOK
<1>4. \A o \in Existing \ {p} : ~SameName(PeopleAfter(w)[p].user_name, person[o].user_name)
    BY <1>3 DEF Named, SameName
<1>5. KeepsTheLink(w)
    BY <1>3 DEF KeepsTheLink
<1>6. Adds(w) = ReconcileAdds(rule, p, row) /\ Dels(w) = ReconcileDels(rule, p, row)
    <2>1. \A g \in Groups : member[<<g, p>>] = None
        BY DEF TypeInv, TypeOK, Pairs
    <2>2. ReconcileDels(rule, p, row) = {}
        BY <2>1, NoneAssumption DEF ReconcileDels, Sources
    <2> QED
        BY <2>2 DEF Adds, Dels
<1>7. Wanted(rule, row) = Wanted(rule, PeopleAfter(w)[p])
    BY <1>3
<1>8. Settled => Keeps(w)
    BY <1>1, <1>4, <1>5, <1>6, <1>7, PeopleKeep
<1> QED
    BY <1>1, <1>8 DEF Sound

(* Somebody is reconciled as user, now or at the commit, or as user they   *)
(* are due nothing they were not due before.                               *)
Minded(w, p, user) ==
    \/ w.late = TRUE /\ w.obj = user /\ w.add = {} /\ w.del = {}
    \/ /\ w.late = FALSE
       /\ w.add = ReconcileAdds(rule, p, user) /\ w.del = ReconcileDels(rule, p, user)
    \/ /\ w.late = FALSE /\ w.add = {} /\ w.del = {}
       /\ "switch" \notin may /\ user.active =>
              person[p].active /\ \A f \in Attributes : user[f] = person[p][f]

(* Columns of somebody's row are set, and they are brought into line with  *)
(* it or need not be.                                                      *)
LEMMA OldPerson ==
    ASSUME TypeInv, NEW p \in Existing, NEW w, w.who = p, Columns(w.set),
           w.rules = <<>>, w.groups = <<>>,
           Settled /\ "rename" \notin may /\ "user_name" \in DOMAIN w.set =>
               \A o \in Existing \ {p} : ~SameName(w.set["user_name"], person[o].user_name),
           w.op = "login" /\ person[p].external_id # None => "external_id" \notin DOMAIN w.set,
           NEW user, user.active = Over(w.set, person[p])["active"],
           \A f \in Attributes : user[f] = Over(w.set, person[p])[f],
           Minded(w, p, user)
    PROVE  Sound(w)
<1>0. p \in People /\ person[p] \in Rows /\ person[p] # None /\ p # None
    BY NoneAssumption, DirectoryAssumption DEF Existing, TypeInv, TypeOK
<1>1. Fits(w)
    BY <1>0, PersonFits DEF Minded
<1> DEFINE after == PeopleAfter(w)[p]
<1>2. PeopleAfter(w) = [person EXCEPT ![p] = Over(w.set, person[p])]
    BY <1>0 DEF PeopleAfter
<1>3. after = Over(w.set, person[p]) /\ \A o \in People \ {p} : PeopleAfter(w)[o] = person[o]
    BY <1>0, <1>2 DEF TypeInv, TypeOK
<1>4. Settled /\ "rename" \notin may =>
          \A o \in Existing \ {p} : ~SameName(after.user_name, person[o].user_name)
    <2>1. after.user_name = IF "user_name" \in DOMAIN w.set THEN w.set["user_name"]
                            ELSE person[p].user_name
        BY <1>0, <1>3, RowOf DEF Over, Fields
    <2>2. Settled /\ "rename" \notin may =>
              \A o \in Existing \ {p} : ~SameName(person[p].user_name, person[o].user_name)
        BY <1>0 DEF Settled, SettledIn, Apart, Existing
    <2> QED
        BY <2>1, <2>2
<1>5. KeepsTheLink(w)
    <2>1. w.op = "login" /\ person[p].external_id # None => after.external_id = person[p].external_id
        BY <1>0, <1>3, RowOf DEF Over, Fields
    <2> QED
        BY <1>3, <2>1 DEF KeepsTheLink
<1>6. rule \in [Rules -> RuleRows \cup {None}]
      /\ \A r \in Rules : rule[r] # None => rule[r].attribute \in Attributes
    BY DEF TypeInv, TypeOK, RuleRows
<1>7. Wanted(rule, user) = Wanted(rule, after)
    BY <1>3, <1>6, SameWanted
<1> HIDE DEF after
<1>70. \/ w.late = TRUE /\ w.obj = user /\ w.add = {} /\ w.del = {}
      \/ /\ w.late = FALSE
         /\ w.add = ReconcileAdds(rule, p, user) /\ w.del = ReconcileDels(rule, p, user)
      \/ /\ w.late = FALSE /\ w.add = {} /\ w.del = {}
         /\ "switch" \notin may /\ user.active =>
                person[p].active /\ \A f \in Attributes : user[f] = person[p][f]
    BY DEF Minded
<1>8. \/ Adds(w) = ReconcileAdds(rule, p, user) /\ Dels(w) = ReconcileDels(rule, p, user)
      \/ /\ Adds(w) = {} /\ Dels(w) = {}
         /\ "switch" \notin may /\ after.active =>
                person[p].active /\ Wanted(rule, person[p]) = Wanted(rule, after)
    <2>1. CASE \/ w.late = TRUE /\ w.obj = user /\ w.add = {} /\ w.del = {}
               \/ /\ w.late = FALSE
                  /\ w.add = ReconcileAdds(rule, p, user) /\ w.del = ReconcileDels(rule, p, user)
        BY <2>1 DEF Adds, Dels
    <2>2. CASE /\ w.late = FALSE /\ w.add = {} /\ w.del = {}
               /\ "switch" \notin may /\ user.active =>
                      person[p].active /\ \A f \in Attributes : user[f] = person[p][f]
        <3>1. Adds(w) = {} /\ Dels(w) = {}
            BY <2>2 DEF Adds, Dels
        <3>2. after.active = user.active
            BY <1>3
        <3>3. ASSUME "switch" \notin may, user.active
              PROVE  person[p].active /\ Wanted(rule, person[p]) = Wanted(rule, user)
            <4>1. person[p].active = user.active /\ \A f \in Attributes : person[p][f] = user[f]
                BY <1>0, <1>3, <2>2, <3>2, <3>3 DEF Rows
            <4>2. Wanted(rule, person[p]) = Wanted(rule, user)
                BY <1>6, <4>1, SameWanted
            <4> QED
                BY <2>2, <3>3, <4>2
        <3> QED
            BY <1>7, <3>1, <3>2, <3>3
    <2> QED
        BY <1>70, <2>1, <2>2
<1>9. ASSUME Settled PROVE Keeps(w)
    <2>1. \/ \E u : /\ Wanted(rule, u) = Wanted(rule, PeopleAfter(w)[p])
                    /\ Adds(w) = ReconcileAdds(rule, p, u)
                    /\ Dels(w) = ReconcileDels(rule, p, u)
          \/ /\ Adds(w) = {} /\ Dels(w) = {}
             /\ "switch" \notin may /\ PeopleAfter(w)[p].active =>
                    /\ person[p] # None /\ person[p].active
                    /\ Wanted(rule, person[p]) = Wanted(rule, PeopleAfter(w)[p])
        BY <1>0, <1>7, <1>8 DEF after
    <2>2. "rename" \notin may => \A o \in Existing \ {p} :
              ~SameName(PeopleAfter(w)[p].user_name, person[o].user_name)
        BY <1>4, <1>9 DEF after
    <2> QED
        BY <1>0, <1>1, <1>5, <1>9, <2>1, <2>2, PeopleKeep
<1> QED
    BY <1>1, <1>9 DEF Sound

-----------------------------------------------------------------------------
(* People: the provider's sync, a login, the console.                      *)

LEMMA CreateUserBegins ==
    ASSUME TypeInv, NEW q \in Requests, NEW p \in People, NEW row \in ScimRows(p), Alone, Idle(q),
           CreateUser(q, p, row)
    PROVE  Begins(q)
<1> DEFINE w == Over([op |-> "scim_create", who |-> p, set |-> row,
                      add |-> ReconcileAdds(rule, p, row)], Nothing)
<1>1. /\ w.who = p /\ w.set = row /\ w.late = FALSE /\ w.add = ReconcileAdds(rule, p, row)
      /\ w.del = {} /\ w.rules = <<>> /\ w.groups = <<>>
    BY DEF Over, Nothing
<1>2. /\ req' = [req EXCEPT ![q] = w] /\ UNCHANGED <<person, group, member, rule, may>>
      /\ person[p] = None /\ Named(row.user_name) = {}
    BY DEF CreateUser, Begin
<1> HIDE DEF w
<1>3. row \in Rows
    <2>1. NameChoices(p) \subseteq Names /\ ExternalChoices \subseteq Externals \cup {None}
        BY ChosenFrom
    <2>2. Allowed("department") \subseteq Words \cup {None} /\ Allowed("email") \subseteq Words
        BY ChosenFrom
    <2> QED
        BY <2>1, <2>2 DEF ScimRows, Rows
<1>4. Sound(w)
    BY <1>1, <1>2, <1>3, NewPerson
<1> QED
    BY <1>2, <1>4 DEF Begins

LEMMA NewLoginBegins ==
    ASSUME TypeInv, NEW q \in Requests, NEW p \in People, Alone, Idle(q),
           NEW external \in ExternalChoices, NEW name \in NameChoices(p),
           NEW email \in Allowed("email"), NewLogin(q, p, external, name, email)
    PROVE  Begins(q)
<1> DEFINE row == [user_name |-> name, external_id |-> external, active |-> TRUE,
                   source |-> "jit", department |-> None, job_title |-> None, email |-> email]
           w == Over([op |-> "login", who |-> p, set |-> row,
                      add |-> ReconcileAdds(rule, p, row)], Nothing)
<1>1. row \in Rows /\ row.user_name = name
    BY ChosenFrom DEF Rows
<1>2. /\ req' = [req EXCEPT ![q] = w] /\ UNCHANGED <<person, group, member, rule, may>>
      /\ person[p] = None /\ Found(external, name) = {}
    BY DEF NewLogin, Begin
<1>3. Named(name) = {}
    BY <1>2 DEF Found
<1> HIDE DEF row
<1>4. /\ w.who = p /\ w.set = row /\ w.late = FALSE /\ w.add = ReconcileAdds(rule, p, row)
      /\ w.del = {} /\ w.rules = <<>> /\ w.groups = <<>>
    BY DEF Over, Nothing
<1> HIDE DEF w
<1>5. Sound(w)
    BY <1>1, <1>2, <1>3, <1>4, NewPerson
<1> QED
    BY <1>2, <1>5 DEF Begins

(* PUT and PATCH.                                                          *)
LEMMA UpdateBegins ==
    ASSUME TypeInv, NEW q \in Requests, NEW p \in People, NEW op \in {"scim_put", "scim_patch"},
           Alone, Idle(q), person[p] # None, NEW values, Columns(values),
           Settled /\ "rename" \notin may /\ "user_name" \in DOMAIN values =>
               \A o \in Existing \ {p} : ~SameName(values["user_name"], person[o].user_name),
           Update(q, op, p, values)
    PROVE  Begins(q)
<1> DEFINE user == person[p]
           changed == Applied(user, values)
           after == Over(changed, user)
           leaves == user.active /\ ~after.active
           returns == ~user.active /\ after.active
           late == ~leaves /\ (TouchesRules(DOMAIN changed) \/ returns)
           set == Over(changed, Adopted(user))
           w == Over([op |-> op, who |-> p, set |-> set, obj |-> after, asked |-> values,
                      late |-> late], Nothing)
<1>1. req' = [req EXCEPT ![q] = w] /\ UNCHANGED <<person, group, member, rule, may>>
    BY DEF Update, Begin
<1>2. /\ w.op = op /\ w.who = p /\ w.set = set /\ w.obj = after /\ w.add = {} /\ w.del = {}
      /\ w.rules = <<>> /\ w.groups = <<>>
    BY DEF Over, Nothing
<1>3. w.late = late
    BY DEF Over, Nothing
<1>4. p \in Existing /\ user \in Rows
    BY DEF Existing, TypeInv, TypeOK
<1>5. Columns(changed) /\ DOMAIN changed \subseteq DOMAIN values
      /\ \A f \in DOMAIN changed : changed[f] = values[f]
    BY DEF Applied, Differing, Columns
<1>6. Columns(Adopted(user)) /\ DOMAIN Adopted(user) \subseteq {"source"}
    BY FewColumns DEF Adopted, Fields, Column
<1>7. Columns(set) /\ DOMAIN set \subseteq DOMAIN changed \cup {"source"}
      /\ \A f \in DOMAIN changed : set[f] = changed[f]
    BY <1>5, <1>6, OverColumnsOf DEF Over
<1>8. \A f \in Fields \ {"source"} : after[f] = Over(set, user)[f]
    BY <1>4, <1>7, RowOf DEF Over
<1>9. \A f \in Fields \ DOMAIN changed : after[f] = user[f]
    BY <1>4, RowOf DEF Over
<1> HIDE DEF w, set, changed, after
<1>10. after.active = Over(set, user)["active"]
       /\ \A f \in Attributes : after[f] = Over(set, user)[f]
    BY <1>8 DEF Fields, Attributes
<1>11. Settled /\ "rename" \notin may /\ "user_name" \in DOMAIN set =>
           \A o \in Existing \ {p} : ~SameName(set["user_name"], person[o].user_name)
    BY <1>5, <1>7
<1>12. ASSUME ~late, after.active
       PROVE  user.active /\ \A f \in Attributes : after[f] = user[f]
    <2>1. ~leaves
        BY <1>12
    <2>2. ~TouchesRules(DOMAIN changed) /\ ~returns
        BY <1>12, <2>1
    <2> QED
        BY <1>9, <1>12, <2>2 DEF TouchesRules, Attributes, Fields
<1>13. Minded(w, p, after)
    <2>1. late \in BOOLEAN
        OBVIOUS
    <2> HIDE DEF late
    <2> QED
        BY <1>2, <1>3, <1>12, <2>1 DEF Minded
<1>14. /\ Columns(w.set) /\ w.who = p /\ w.rules = <<>> /\ w.groups = <<>>
       /\ w.op = "login" /\ person[p].external_id # None => "external_id" \notin DOMAIN w.set
    BY <1>2, <1>7
<1>15. Settled /\ "rename" \notin may /\ "user_name" \in DOMAIN w.set =>
           \A o \in Existing \ {p} : ~SameName(w.set["user_name"], person[o].user_name)
    BY <1>2, <1>11
<1>16. after.active = Over(w.set, person[p])["active"]
       /\ \A f \in Attributes : after[f] = Over(w.set, person[p])[f]
    BY <1>2, <1>10
<1>17. Sound(w)
    BY <1>4, <1>13, <1>14, <1>15, <1>16, OldPerson
<1> QED
    BY <1>1, <1>17 DEF Begins

(* What a document may carry can be set in a row.                          *)
LEMMA CarriedColumns ==
    ASSUME NEW p \in People, NEW f \in {"active", "user_name", "external_id", "email",
                                        "job_title", "department"}, NEW v \in PatchCarried(p, f)
    PROVE  Columns(Only(f, v)) /\ DOMAIN Only(f, v) = {f} /\ Only(f, v)[f] = v
<1>1. f \in Fields
    BY DEF Fields
<1>2. v \in Column(f)
    <2>1. NameChoices(p) \subseteq Names /\ ExternalChoices \subseteq Externals \cup {None}
        BY ChosenFrom
    <2>2. Allowed(f) \subseteq Words \cup {None}
        BY ChosenFrom
    <2> QED
        BY <2>1, <2>2 DEF PatchCarried, Carried, Column
<1> QED
    BY <1>1, <1>2, FewColumns

LEMMA ReplaceUserBegins ==
    ASSUME TypeInv, NEW q \in Requests, NEW p \in People, Alone, Idle(q),
           NEW values \in PutDocuments(p), ReplaceUser(q, p, values)
    PROVE  Begins(q)
<1>1. PICK n \in NameChoices(p), a \in BOOLEAN, rest \in Besides(p) :
          values = Over([user_name |-> n, active |-> a], rest)
    BY DEF PutDocuments
<1>2. Columns(rest)
    <2>1. CASE rest = <<>>
        BY <2>1, FewColumns
    <2>2. CASE rest # <<>>
        <3>1. PICK f \in InPlay({"external_id", "department", "email"}) :
                  \E v \in Carried(p, f) : rest = Only(f, v)
            BY <1>1, <2>2 DEF Besides
        <3>2. f \in {"external_id", "department", "email"}
            BY DEF InPlay
        <3> QED
            BY <3>1, <3>2, CarriedColumns DEF PatchCarried
    <2> QED
        BY <2>1, <2>2
<1>3. Columns([user_name |-> n, active |-> a])
    BY ChosenFrom DEF Columns, Fields, Column
<1>4. Columns(values) /\ values["user_name"] = n
    <2>1. values["user_name"] = n
        BY <1>1 DEF Over
    <2> QED
        BY <1>1, <1>2, <1>3, <2>1, OverColumnsOf
<1>5. /\ person[p] # None
      /\ SameName(values.user_name, person[p].user_name) \/ Named(values.user_name) \ {p} = {}
      /\ Update(q, "scim_put", p, values)
    BY DEF ReplaceUser
<1>6. Settled /\ "rename" \notin may =>
          \A o \in Existing \ {p} : ~SameName(values["user_name"], person[o].user_name)
    <2> SUFFICES ASSUME Settled, "rename" \notin may, NEW o \in Existing \ {p}
                 PROVE  ~SameName(values.user_name, person[o].user_name)
        OBVIOUS
    <2>1. ~SameName(person[p].user_name, person[o].user_name)
        BY <1>5 DEF Settled, SettledIn, Apart, Existing
    <2> QED
        BY <1>5, <2>1 DEF Named, SameName
<1> QED
    BY <1>4, <1>5, <1>6, UpdateBegins

LEMMA PatchUserBegins ==
    ASSUME TypeInv, NEW q \in Requests, NEW p \in People, Alone, Idle(q),
           NEW values \in PatchDocuments(p), PatchUser(q, p, values)
    PROVE  Begins(q)
<1>1. PICK f \in InPlay(Patchable) \cup IF "rename" \in may THEN {"user_name"} ELSE {} :
          \E v \in PatchCarried(p, f) : values = Only(f, v)
    BY DEF PatchDocuments
<1>2. f \in {"active", "user_name", "external_id", "email", "job_title", "department"}
      /\ (f = "user_name" => "rename" \in may)
    <2>1. "user_name" \notin may
        BY DirectoryAssumption DEF TypeInv
    <2> QED
        BY <2>1 DEF InPlay, Patchable
<1>3. Columns(values) /\ DOMAIN values = {f}
    <2>1. PICK v \in PatchCarried(p, f) : values = Only(f, v)
        BY <1>1
    <2>2. Columns(Only(f, v)) /\ DOMAIN Only(f, v) = {f}
        BY <1>2, CarriedColumns
    <2> QED
        BY <2>1, <2>2
<1>4. person[p] # None /\ Update(q, "scim_patch", p, values)
    BY DEF PatchUser
<1> QED
    BY <1>2, <1>3, <1>4, UpdateBegins

LEMMA DeleteUserBegins ==
    ASSUME TypeInv, NEW q \in Requests, NEW p \in People, Alone, Idle(q), DeleteUser(q, p)
    PROVE  Begins(q)
<1> DEFINE set == IF person[p].active THEN Only("active", FALSE) ELSE <<>>
           w == Over([op |-> "scim_delete", who |-> p, set |-> set], Nothing)
           after == Over(set, person[p])
<1>1. req' = [req EXCEPT ![q] = w] /\ UNCHANGED <<person, group, member, rule, may>>
      /\ person[p] # None
    BY DEF DeleteUser, Begin
<1>2. p \in Existing /\ person[p] \in Rows
    BY <1>1 DEF Existing, TypeInv, TypeOK
<1>3. Columns(set) /\ DOMAIN set \subseteq {"active"} /\ after.active = FALSE
    <2>1. Columns(Only("active", FALSE)) /\ DOMAIN Only("active", FALSE) = {"active"}
          /\ Only("active", FALSE)["active"] = FALSE /\ Columns(<<>>) /\ DOMAIN <<>> = {}
        BY FewColumns DEF Fields, Column
    <2>2. CASE person[p].active
        BY <2>1, <2>2 DEF Over
    <2>3. CASE ~person[p].active
        <3>1. person[p].active = FALSE /\ "active" \in DOMAIN person[p]
            BY <1>2, <2>3 DEF Rows
        <3> QED
            BY <2>1, <2>3, <3>1 DEF Over
    <2> QED
        BY <2>2, <2>3
<1> HIDE DEF set
<1>4. /\ w.op = "scim_delete" /\ w.who = p /\ w.set = set /\ w.late = FALSE
      /\ w.add = {} /\ w.del = {} /\ w.rules = <<>> /\ w.groups = <<>>
    BY DEF Over, Nothing
<1> HIDE DEF w
<1>5. Minded(w, p, after)
    BY <1>3, <1>4 DEF Minded
<1>6. after.active = Over(w.set, person[p])["active"]
      /\ \A f \in Attributes : after[f] = Over(w.set, person[p])[f]
    BY <1>4
<1>7. /\ Columns(w.set) /\ w.who = p /\ w.rules = <<>> /\ w.groups = <<>>
      /\ w.op # "login" /\ "user_name" \notin DOMAIN w.set
    BY <1>3, <1>4
<1> HIDE DEF after
<1>8. Sound(w)
    BY <1>2, <1>5, <1>6, <1>7, OldPerson
<1> QED
    BY <1>1, <1>8 DEF Begins

LEMMA LoginBegins ==
    ASSUME TypeInv, NEW q \in Requests, Alone, Idle(q),
           NEW external \in ExternalChoices, NEW name, NEW email \in Allowed("email"),
           Login(q, external, name, email)
    PROVE  Begins(q)
<1>1. PICK p \in Found(external, name) :
          LET set == Refreshed(person[p], external, email)
              user == Over(set, person[p])
              reconciles == user.active /\ TouchesRules(DOMAIN set)
          IN  Begin(q, [op |-> "login", who |-> p, set |-> set,
                        add |-> IF reconciles THEN ReconcileAdds(rule, p, user) ELSE {},
                        del |-> IF reconciles THEN ReconcileDels(rule, p, user) ELSE {}])
    BY DEF Login
<1> DEFINE set == Refreshed(person[p], external, email)
           user == Over(set, person[p])
           reconciles == user.active /\ TouchesRules(DOMAIN set)
           w == Over([op |-> "login", who |-> p, set |-> set,
                      add |-> IF reconciles THEN ReconcileAdds(rule, p, user) ELSE {},
                      del |-> IF reconciles THEN ReconcileDels(rule, p, user) ELSE {}], Nothing)
<1>2. req' = [req EXCEPT ![q] = w] /\ UNCHANGED <<person, group, member, rule, may>>
    BY <1>1 DEF Begin
<1>3. p \in Existing /\ person[p] \in Rows
    BY DEF Found, Linked, Named, Existing, TypeInv, TypeOK
<1>4. /\ w.op = "login" /\ w.who = p /\ w.set = set /\ w.late = FALSE
      /\ w.add = (IF reconciles THEN ReconcileAdds(rule, p, user) ELSE {})
      /\ w.del = (IF reconciles THEN ReconcileDels(rule, p, user) ELSE {})
      /\ w.rules = <<>> /\ w.groups = <<>>
    BY DEF Over, Nothing
<1>5. /\ Columns(set) /\ DOMAIN set \subseteq {"external_id", "email"}
      /\ person[p].external_id # None => "external_id" \notin DOMAIN set
    <2> DEFINE linking == IF external # None /\ person[p].external_id = None
                          THEN Only("external_id", external) ELSE <<>>
               mailing == IF person[p].source = "jit" /\ email # person[p].email
                          THEN Only("email", email) ELSE <<>>
    <2>1. external \in Column("external_id") /\ email \in Column("email")
        BY ChosenFrom DEF Column
    <2>2. /\ Columns(linking) /\ DOMAIN linking \subseteq {"external_id"}
          /\ person[p].external_id # None => DOMAIN linking = {}
        BY <2>1, FewColumns DEF Fields
    <2>3. Columns(mailing) /\ DOMAIN mailing \subseteq {"email"}
        BY <2>1, FewColumns DEF Fields
    <2>4. set = Over(linking, mailing)
        BY DEF Refreshed
    <2> HIDE DEF linking, mailing, set
    <2>5. DOMAIN set = DOMAIN linking \cup DOMAIN mailing
        BY <2>4 DEF Over
    <2> QED
        BY <2>2, <2>3, <2>4, <2>5, OverColumnsOf
<1> HIDE DEF set, w
<1>6. Minded(w, p, user)
    <2>1. CASE reconciles
        BY <1>4, <2>1 DEF Minded
    <2>2. ASSUME ~reconciles, user.active
          PROVE  person[p].active /\ \A f \in Attributes : user[f] = person[p][f]
        <3>1. DOMAIN set \cap Attributes = {}
            BY <2>2 DEF TouchesRules
        <3>2. "active" \notin DOMAIN set
            BY <1>5
        <3>3. \A f \in Fields \ DOMAIN set : user[f] = person[p][f]
            BY <1>3, RowOf DEF Over
        <3> QED
            BY <2>2, <3>1, <3>2, <3>3 DEF Attributes, Fields
    <2> HIDE DEF user, reconciles
    <2> QED
        BY <1>4, <2>1, <2>2 DEF Minded
<1>7. user.active = Over(w.set, person[p])["active"]
      /\ \A f \in Attributes : user[f] = Over(w.set, person[p])[f]
    BY <1>4
<1>8. /\ Columns(w.set) /\ w.who = p /\ w.rules = <<>> /\ w.groups = <<>>
      /\ "user_name" \notin DOMAIN w.set
      /\ person[p].external_id # None => "external_id" \notin DOMAIN w.set
    BY <1>4, <1>5
<1> HIDE DEF user
<1>9. Sound(w)
    BY <1>3, <1>6, <1>7, <1>8, OldPerson
<1> QED
    BY <1>2, <1>9 DEF Begins

LEMMA EditUserBegins ==
    ASSUME TypeInv, NEW q \in Requests, NEW p \in People, Alone, Idle(q),
           NEW values \in ConsoleForms(p), EditUser(q, p, values)
    PROVE  Begins(q)
<1> DEFINE user == Over(values, person[p])
           reconciles == TouchesRules(DOMAIN values)
           set == Differing(values, person[p])
           w == Over([op |-> "console", who |-> p, set |-> set,
                      add |-> IF reconciles THEN ReconcileAdds(rule, p, user) ELSE {},
                      del |-> IF reconciles THEN ReconcileDels(rule, p, user) ELSE {}], Nothing)
<1>1. req' = [req EXCEPT ![q] = w] /\ UNCHANGED <<person, group, member, rule, may>>
      /\ person[p] # None
    BY DEF EditUser, Begin
<1>2. p \in Existing /\ person[p] \in Rows
    BY <1>1 DEF Existing, TypeInv, TypeOK
<1>3. /\ w.op = "console" /\ w.who = p /\ w.set = set /\ w.late = FALSE
      /\ w.add = (IF reconciles THEN ReconcileAdds(rule, p, user) ELSE {})
      /\ w.del = (IF reconciles THEN ReconcileDels(rule, p, user) ELSE {})
      /\ w.rules = <<>> /\ w.groups = <<>>
    BY DEF Over, Nothing
<1>4. PICK f \in IdpOwned \cup IF "switch" \in may THEN {"active"} ELSE {} :
          \E v \in IF f = "active" THEN BOOLEAN ELSE Allowed(f) : values = Only(f, v)
    BY DEF ConsoleForms
<1>5. f \in {"department", "job_title", "active"} /\ (f = "active" => "switch" \in may)
    BY DEF IdpOwned
<1>6. Columns(values) /\ DOMAIN values = {f}
    <2>1. Allowed(f) \subseteq Words \cup {None}
        BY ChosenFrom
    <2>2. f \in Fields /\ \A v \in IF f = "active" THEN BOOLEAN ELSE Allowed(f) : v \in Column(f)
        BY <1>5, <2>1 DEF Column, Fields
    <2>3. PICK v \in IF f = "active" THEN BOOLEAN ELSE Allowed(f) : values = Only(f, v)
        BY <1>4
    <2>4. Columns(Only(f, v)) /\ DOMAIN Only(f, v) = {f}
        BY <2>2, FewColumns
    <2> QED
        BY <2>3, <2>4
<1>7. /\ Columns(set) /\ DOMAIN set \subseteq DOMAIN values
      /\ \A c \in Fields : Over(set, person[p])[c] = user[c]
    BY <1>2, <1>6, DifferingRow
<1> HIDE DEF set, w
<1>8. Minded(w, p, user)
    <2>1. CASE reconciles
        BY <1>3, <2>1 DEF Minded
    <2>2. CASE ~reconciles
        <3>1. "switch" \in may
            BY <1>5, <1>6, <2>2 DEF TouchesRules, Attributes
        <3> QED
            BY <1>3, <2>2, <3>1 DEF Minded
    <2> QED
        BY <2>1, <2>2
<1>9. user.active = Over(w.set, person[p])["active"]
      /\ \A c \in Attributes : user[c] = Over(w.set, person[p])[c]
    BY <1>3, <1>7 DEF Fields, Attributes
<1>10. /\ Columns(w.set) /\ w.who = p /\ w.rules = <<>> /\ w.groups = <<>>
       /\ w.op # "login" /\ "user_name" \notin DOMAIN w.set
    BY <1>3, <1>5, <1>6, <1>7
<1> HIDE DEF user
<1>11. Sound(w)
    BY <1>2, <1>8, <1>9, <1>10, OldPerson
<1> QED
    BY <1>1, <1>11 DEF Begins

-----------------------------------------------------------------------------
(* The administration of rules.                                            *)

LEMMA RuleWorkFits ==
    ASSUME TypeInv, NEW w, w.who = None, w.late = FALSE, w.groups = <<>>,
           NEW rows \in [Rules -> RuleRows \cup {None}],
           \A r \in Rules : rows[r] # None => group[rows[r].group] # None,
           w.add = GroupAdds(rows), w.del = GroupDels(rows),
           DOMAIN w.rules \subseteq Rules,
           \A r \in DOMAIN w.rules :
               \/ w.rules[r] = None \/ w.rules[r] \in RuleRows
               \/ w.op = "rule_update" /\ RuleColumns(w.rules[r])
    PROVE  Fits(w)
<1>1. \A x \in w.add : \E g \in Groups, p \in People, s \in Sources :
          x = <<g, p, s>> /\ (person[p] # None \/ p = w.who)
    <2> SUFFICES ASSUME NEW x \in GroupAdds(rows)
                 PROVE  \E g \in Groups, p \in People, s \in Sources :
                            x = <<g, p, s>> /\ person[p] # None
        OBVIOUS
    <2>1. PICK p \in Existing : x \in ReconcileAdds(rows, p, person[p])
        BY DEF GroupAdds
    <2>2. PICK g \in Wanted(rows, person[p]) : x = <<g, p, "rule">>
        BY <2>1 DEF ReconcileAdds
    <2>3. g \in Groups
        BY <2>2, WantedExists
    <2> QED
        BY <2>2, <2>3 DEF Existing, Sources
<1>2. \A x \in w.del : x[3] = "rule"
    <2> SUFFICES ASSUME NEW x \in GroupDels(rows) PROVE x[3] = "rule"
        OBVIOUS
    <2>1. PICK p \in Existing : x \in ReconcileDels(rows, p, person[p])
        BY DEF GroupDels
    <2>2. PICK g \in Groups : x = <<g, p, "rule">>
        BY <2>1 DEF ReconcileDels
    <2> QED
        BY <2>2
<1>3. DOMAIN w.groups = {}
    BY FewColumns
<1> QED
    BY <1>1, <1>2, <1>3 DEF Fits, FitsIn

(* A change of the rules that makes none.                                  *)
LEMMA RuleWork ==
    ASSUME TypeInv, NEW w, Fits(w), w.who = None, w.late = FALSE, w.op # "login", w.groups = <<>>,
           NEW rows \in [Rules -> RuleRows \cup {None}],
           \A r \in Rules : rows[r] # None => group[rows[r].group] # None,
           w.add = GroupAdds(rows), w.del = GroupDels(rows),
           \A p \in Existing : Wanted(rows, person[p]) = Wanted(RulesAfter(w), person[p]),
           \A r \in Rules : RulesAfter(w)[r] # None =>
               rule[r] # None /\ (Settled => Valid(RulesAfter(w)[r]))
    PROVE  Sound(w)
<1>1. ASSUME Settled PROVE Keeps(w)
    <2>1. /\ SettledIn(PeopleAfter(w), GroupsAfter(w), MembersAfter(w), RulesAfter(w))
          /\ GivesTheActive(w) /\ KeepsTheLink(w)
        BY <1>1, RulesKeep
    <2>2. Foretold(w)
        BY DEF Foretold
    <2> QED
        BY <2>1, <2>2 DEF Keeps
<1> QED
    BY <1>1 DEF Sound

LEMMA RowTyped ==
    ASSUME NEW c \in Conditions, NEW g \in Groups, NEW enabled \in BOOLEAN
    PROVE  /\ Row(c, g, enabled) \in RuleRows /\ Row(c, g, enabled) # None
           /\ Row(c, g, enabled).group = g /\ Row(c, g, enabled).enabled = enabled
           /\ Valid(Row(c, g, enabled))
<1>1. c \in [attribute : Attributes, operator : Operators, value : Words \cup Names \cup {None}]
      /\ Valid(c)
    BY DirectoryAssumption
<1>2. Row(c, g, enabled) \in RuleRows
    BY <1>1 DEF Row, RuleRows, Texts
<1>3. Row(c, g, enabled) # None
    <2> DEFINE row == Row(c, g, enabled)
    <2>1. row = [f \in DOMAIN row |-> row[f]]
        BY DEF Row
    <2>2. None # [f \in DOMAIN row |-> row[f]]
        BY <1>2, NoneAssumption
    <2> QED
        BY <2>1, <2>2
<1>4. /\ Row(c, g, enabled).group = g /\ Row(c, g, enabled).enabled = enabled
      /\ Row(c, g, enabled).attribute = c.attribute /\ Row(c, g, enabled).operator = c.operator
      /\ Row(c, g, enabled).value = c.value
    BY DEF Row
<1>5. Valid(Row(c, g, enabled))
    BY <1>1, <1>4 DEF Valid
<1> QED
    BY <1>2, <1>3, <1>4, <1>5

(* The rules with one row made anew.                                       *)
LEMMA WithTyped ==
    ASSUME TypeInv, NEW r \in Rules, NEW row \in RuleRows, group[row.group] # None
    PROVE  /\ With(r, row) \in [Rules -> RuleRows \cup {None}]
           /\ With(r, row)[r] = row /\ \A s \in Rules \ {r} : With(r, row)[s] = rule[s]
           /\ \A s \in Rules : With(r, row)[s] # None => group[With(r, row)[s].group] # None
<1>1. /\ rule \in [Rules -> RuleRows \cup {None}]
      /\ \A s \in Rules : rule[s] # None => group[rule[s].group] # None
    BY DEF TypeInv, TypeOK
<1> QED
    BY <1>1 DEF With

(* What the commit makes of one rule.                                      *)
LEMMA OneRule ==
    ASSUME TypeInv, NEW w, w.groups = <<>>, NEW r \in Rules, DOMAIN w.rules = {r},
           NEW row, row = (IF w.rules[r] = None \/ rule[r] = None THEN w.rules[r]
                           ELSE Over(w.rules[r], rule[r])),
           row # None => group[row.group] # None
    PROVE  RulesAfter(w) = With(r, row)
<1> DEFINE rows == [s \in Rules |-> IF s \notin DOMAIN w.rules THEN rule[s]
                                    ELSE IF w.rules[s] = None \/ rule[s] = None THEN w.rules[s]
                                    ELSE Over(w.rules[s], rule[s])]
<1>1. /\ rule \in [Rules -> RuleRows \cup {None}]
      /\ \A s \in Rules : rule[s] # None => group[rule[s].group] # None
    BY DEF TypeInv, TypeOK
<1>2. \A s \in Rules : rows[s] = IF s = r THEN row ELSE rule[s]
    OBVIOUS
<1>3. GroupsAfter(w) = group
    BY NoGroups
<1>4. RulesAfter(w) = [s \in Rules |-> IF rows[s] # None /\ GroupsAfter(w)[rows[s].group] = None
                                       THEN None ELSE rows[s]]
    BY DEF RulesAfter
<1> HIDE DEF rows
<1>5. \A s \in Rules : (IF rows[s] # None /\ GroupsAfter(w)[rows[s].group] = None
                        THEN None ELSE rows[s]) = IF s = r THEN row ELSE rule[s]
    BY <1>1, <1>2, <1>3
<1>6. RulesAfter(w) = [s \in Rules |-> IF s = r THEN row ELSE rule[s]]
    BY <1>4, <1>5
<1>7. With(r, row) = [s \in Rules |-> IF s = r THEN row ELSE rule[s]]
    BY <1>1 DEF With
<1> QED
    BY <1>6, <1>7

LEMMA CreateRuleBegins ==
    ASSUME TypeInv, NEW q \in Requests, NEW r \in Rules, NEW c \in Conditions, NEW g \in Groups,
           NEW enabled \in BOOLEAN, Alone, Idle(q), CreateRule(q, r, c, g, enabled)
    PROVE  Begins(q)
<1> DEFINE row == Row(c, g, enabled)
           rows == With(r, row)
           w == Over([op |-> "rule_create", rules |-> Only(r, row),
                      add |-> GroupAdds(rows), del |-> GroupDels(rows)], Nothing)
<1>1. /\ req' = [req EXCEPT ![q] = w] /\ UNCHANGED <<person, group, member, rule, may>>
      /\ rule[r] = None /\ group[g] # None
    BY DEF CreateRule, Begin
<1>2. /\ w.op = "rule_create" /\ w.who = None /\ w.late = FALSE
      /\ w.rules = Only(r, row) /\ w.groups = <<>>
      /\ w.add = GroupAdds(rows) /\ w.del = GroupDels(rows)
    BY DEF Over, Nothing
<1> HIDE DEF w
<1>3. /\ row \in RuleRows /\ row # None /\ row.group = g /\ row.enabled = enabled /\ Valid(row)
    BY RowTyped
<1> HIDE DEF row
<1>4. /\ rows \in [Rules -> RuleRows \cup {None}]
      /\ rows[r] = row /\ \A s \in Rules \ {r} : rows[s] = rule[s]
      /\ \A s \in Rules : rows[s] # None => group[rows[s].group] # None
    BY <1>1, <1>3, WithTyped
<1>5. DOMAIN w.rules = {r} /\ w.rules[r] = row
    BY <1>2 DEF Only
<1>6. RulesAfter(w) = rows
    BY <1>1, <1>2, <1>3, <1>5, OneRule
<1> HIDE DEF rows
<1>7. Fits(w)
    BY <1>2, <1>3, <1>4, <1>5, RuleWorkFits
<1>8. ASSUME Settled PROVE Keeps(w)
    <2>1. \A s \in Rules : RulesAfter(w)[s] # None => Valid(RulesAfter(w)[s])
        BY <1>3, <1>4, <1>6, <1>8 DEF Settled, SettledIn
    <2>0. w.op # "login" /\ \A p \in Existing : Wanted(rows, person[p]) = Wanted(RulesAfter(w), person[p])
        BY <1>2, <1>6
    <2>2. /\ w.who = None /\ w.late = FALSE /\ w.groups = <<>>
          /\ w.add = GroupAdds(rows) /\ w.del = GroupDels(rows)
        BY <1>2
    <2>3. SettledIn(PeopleAfter(w), GroupsAfter(w), MembersAfter(w), RulesAfter(w))
          /\ GivesTheActive(w) /\ KeepsTheLink(w)
        BY <1>4, <1>8, <2>0, <2>1, <2>2, RulesKeep
    <2>4. \A p \in Existing, h \in Groups : member[<<h, p>>] = None =>
              (MembersAfter(w)[<<h, p>>] # None <=> h \in Wanted(rows, person[p]))
        BY <1>4, <1>8, <2>0, <2>1, <2>2, RulesKeep
    <2>5. \A h \in Groups : Joined(w, h) \subseteq Existing
        BY <1>4, <1>8, <2>0, <2>1, <2>2, RulesKeep
    <2>6. ASSUME {"ungroup", "switch"} \cap may = {}
          PROVE  Joined(w, g) = IF enabled THEN WouldBeAdded(row, g) ELSE {}
        <3>1. ASSUME NEW p \in Existing, member[<<g, p>>] = None
              PROVE  g \in Wanted(rows, person[p]) <=>
                         enabled /\ person[p].active /\ Matches(row, person[p])
            <4>1. g \notin Wanted(rule, person[p]) \/ ~person[p].active
                BY <1>8, <2>6, <3>1 DEF Settled, SettledIn, InLine, Existing
            <4>2. \A s \in Rules \ {r} : s \in Applicable(rows, person[p]) <=>
                      s \in Applicable(rule, person[p])
                BY <1>4 DEF Applicable
            <4>3. r \in Applicable(rows, person[p]) <=> enabled /\ Matches(row, person[p])
                BY <1>3, <1>4 DEF Applicable
            <4>4. Applicable(rows, person[p]) \subseteq Rules
                BY DEF Applicable
            <4>5. g \in Wanted(rows, person[p]) <=> person[p].active
                      /\ \E s \in Applicable(rows, person[p]) : rows[s].group = g
                BY WantedIs
            <4>6. g \in Wanted(rule, person[p]) <=> person[p].active
                      /\ \E s \in Applicable(rule, person[p]) : rule[s].group = g
                BY WantedIs
            <4> QED
                BY <1>3, <1>4, <4>1, <4>2, <4>3, <4>4, <4>5, <4>6
        <3>2. \A p \in Existing : p \in Joined(w, g) <=>
                  /\ member[<<g, p>>] = None
                  /\ enabled /\ person[p].active /\ Matches(row, person[p])
            BY <2>4, <3>1 DEF Joined, Existing
        <3>3. Joined(w, g) \subseteq Existing
            BY <2>5
        <3> QED
            BY <3>2, <3>3 DEF WouldBeAdded, AffectedBy
    <2>7. Foretold(w)
        <3> SUFFICES ASSUME {"ungroup", "switch"} \cap may = {}, NEW s \in Rules, rule[s] = None,
                            rows[s] # None
                     PROVE  Joined(w, rows[s].group) =
                                IF rows[s].enabled THEN WouldBeAdded(rows[s], rows[s].group) ELSE {}
            BY <1>6 DEF Foretold
        <3>1. s = r
            BY <1>4
        <3> QED
            BY <1>3, <1>4, <2>6, <3>1
    <2> QED
        BY <2>3, <2>7 DEF Keeps
<1> QED
    BY <1>1, <1>7, <1>8 DEF Begins, Sound

LEMMA UpdateRuleBegins ==
    ASSUME TypeInv, NEW q \in Requests, NEW r \in Rules, NEW c \in Conditions, NEW g \in Groups,
           NEW enabled \in BOOLEAN, Alone, Idle(q), UpdateRule(q, r, c, g, enabled)
    PROVE  Begins(q)
<1> DEFINE row == Row(c, g, enabled)
           rows == With(r, row)
           set == Differing(row, rule[r])
           w == Over([op |-> "rule_update", rules |-> Only(r, set),
                      add |-> GroupAdds(rows), del |-> GroupDels(rows)], Nothing)
<1>1. /\ req' = [req EXCEPT ![q] = w] /\ UNCHANGED <<person, group, member, rule, may>>
      /\ rule[r] # None /\ group[g] # None
    BY DEF UpdateRule, Begin
<1>2. /\ w.op = "rule_update" /\ w.who = None /\ w.late = FALSE
      /\ w.rules = Only(r, set) /\ w.groups = <<>>
      /\ w.add = GroupAdds(rows) /\ w.del = GroupDels(rows)
    BY DEF Over, Nothing
<1> HIDE DEF w
<1>3. /\ row \in RuleRows /\ row # None /\ row.group = g /\ Valid(row)
    BY RowTyped
<1> HIDE DEF row
<1>4. /\ rows \in [Rules -> RuleRows \cup {None}]
      /\ rows[r] = row /\ \A s \in Rules \ {r} : rows[s] = rule[s]
      /\ \A s \in Rules : rows[s] # None => group[rows[s].group] # None
    BY <1>1, <1>3, WithTyped
<1>5. RuleColumns(set) /\ set # None /\ Over(set, rule[r]) = row
    <2>1. rule[r] \in RuleRows
        BY <1>1 DEF TypeInv, TypeOK
    <2> QED
        BY <1>3, <2>1, RuleUpdated
<1> HIDE DEF set
<1>6. DOMAIN w.rules = {r} /\ w.rules[r] = set
    BY <1>2 DEF Only
<1>7. RulesAfter(w) = rows
    BY <1>1, <1>2, <1>3, <1>5, <1>6, OneRule
<1> HIDE DEF rows
<1>8. Fits(w)
    BY <1>2, <1>4, <1>5, <1>6, RuleWorkFits
<1>9. Sound(w)
    <2>1. \A s \in Rules : RulesAfter(w)[s] # None =>
              rule[s] # None /\ (Settled => Valid(RulesAfter(w)[s]))
        BY <1>1, <1>3, <1>4, <1>7 DEF Settled, SettledIn
    <2> QED
        BY <1>2, <1>4, <1>7, <1>8, <2>1, RuleWork
<1> QED
    BY <1>1, <1>9 DEF Begins

LEMMA DeleteRuleBegins ==
    ASSUME TypeInv, NEW q \in Requests, NEW r \in Rules, Alone, Idle(q), DeleteRule(q, r)
    PROVE  Begins(q)
<1> DEFINE off == [rule[r] EXCEPT !.enabled = FALSE]
           rows == With(r, off)
           w == Over([op |-> "rule_delete", rules |-> Only(r, None),
                      add |-> GroupAdds(rows), del |-> GroupDels(rows)], Nothing)
<1>1. /\ req' = [req EXCEPT ![q] = w] /\ UNCHANGED <<person, group, member, rule, may>>
      /\ rule[r] # None
    BY DEF DeleteRule, Begin
<1>2. /\ w.op = "rule_delete" /\ w.who = None /\ w.late = FALSE
      /\ w.rules = Only(r, None) /\ w.groups = <<>>
      /\ w.add = GroupAdds(rows) /\ w.del = GroupDels(rows)
    BY DEF Over, Nothing
<1> HIDE DEF w
<1>3. off \in RuleRows /\ off.group = rule[r].group /\ off.enabled = FALSE
      /\ group[rule[r].group] # None
    BY <1>1 DEF TypeInv, TypeOK, RuleRows
<1> HIDE DEF off
<1>4. /\ rows \in [Rules -> RuleRows \cup {None}]
      /\ rows[r] = off /\ \A s \in Rules \ {r} : rows[s] = rule[s]
      /\ \A s \in Rules : rows[s] # None => group[rows[s].group] # None
    BY <1>3, WithTyped
<1> HIDE DEF rows
<1>5. DOMAIN w.rules = {r} /\ w.rules[r] = None
    BY <1>2 DEF Only
<1>6. RulesAfter(w) = With(r, None)
    BY <1>2, <1>5, OneRule
<1>7. With(r, None)[r] = None /\ \A s \in Rules \ {r} : With(r, None)[s] = rule[s]
    BY DEF With, TypeInv, TypeOK
<1>8. ASSUME NEW user PROVE Wanted(rows, user) = Wanted(RulesAfter(w), user)
    <2>1. Applicable(rows, user) = Applicable(With(r, None), user) /\ r \notin Applicable(rows, user)
        BY <1>3, <1>4, <1>7 DEF Applicable
    <2>2. \A s \in Applicable(rows, user) : rows[s] = With(r, None)[s]
        BY <1>4, <1>7, <2>1 DEF Applicable
    <2> QED
        BY <1>6, <2>1, <2>2 DEF Wanted
<1>9. Fits(w)
    BY <1>2, <1>4, <1>5, RuleWorkFits
<1>10. \A s \in Rules : RulesAfter(w)[s] # None =>
           rule[s] # None /\ (Settled => Valid(RulesAfter(w)[s]))
    BY <1>6, <1>7 DEF Settled, SettledIn
<1>11. Sound(w)
    BY <1>2, <1>4, <1>8, <1>9, <1>10, RuleWork
<1> QED
    BY <1>1, <1>11 DEF Begins

LEMMA RunRuleBegins ==
    ASSUME TypeInv, NEW q \in Requests, NEW r \in Rules, Alone, Idle(q), RunRule(q, r)
    PROVE  Begins(q)
<1> DEFINE w == Over([op |-> "rule_run", add |-> GroupAdds(rule), del |-> GroupDels(rule)], Nothing)
<1>1. req' = [req EXCEPT ![q] = w] /\ UNCHANGED <<person, group, member, rule, may>>
    BY DEF RunRule, Begin
<1>2. /\ w.op = "rule_run" /\ w.who = None /\ w.late = FALSE
      /\ w.rules = <<>> /\ w.groups = <<>> /\ w.add = GroupAdds(rule) /\ w.del = GroupDels(rule)
    BY DEF Over, Nothing
<1> HIDE DEF w
<1>3. RulesAfter(w) = rule
    BY <1>2, NoRules, NoGroups
<1>4. /\ rule \in [Rules -> RuleRows \cup {None}]
      /\ \A s \in Rules : rule[s] # None => group[rule[s].group] # None
    BY DEF TypeInv, TypeOK
<1>5. Fits(w)
    BY <1>2, <1>4, FewColumns, RuleWorkFits
<1>6. \A s \in Rules : RulesAfter(w)[s] # None =>
          rule[s] # None /\ (Settled => Valid(RulesAfter(w)[s]))
    BY <1>3 DEF Settled, SettledIn
<1>7. Sound(w)
    BY <1>2, <1>3, <1>4, <1>5, <1>6, RuleWork
<1> QED
    BY <1>1, <1>7 DEF Begins

-----------------------------------------------------------------------------
(* Groups and who is put in them.                                          *)

LEMMA GroupWork ==
    ASSUME TypeInv, NEW w, w.who = None, w.late = FALSE, w.op # "login", w.rules = <<>>,
           DOMAIN w.groups \subseteq Groups,
           \A g \in DOMAIN w.groups : w.groups[g] \in Names \cup {None},
           \A x \in w.add : \E g \in Groups, p \in Existing, s \in {"manual", "scim"} : x = <<g, p, s>>,
           w.op \in ByRequest \/ w.del = {},
           "ungroup" \notin may => w.del = {},
           Settled => GroupsApart(GroupsAfter(w))
    PROVE  Sound(w)
<1>1. Fits(w)
    <2>1. \A x \in w.add : \E g \in Groups, p \in People, s \in Sources :
              x = <<g, p, s>> /\ (person[p] # None \/ p = w.who)
        BY DEF Existing, Sources
    <2>2. DOMAIN w.rules = {}
        BY FewColumns
    <2> QED
        BY <2>1, <2>2 DEF Fits, FitsIn
<1>2. \A x \in w.add : x[3] # "rule"
    <2> SUFFICES ASSUME NEW x \in w.add PROVE x[3] # "rule"
        OBVIOUS
    <2>1. PICK g \in Groups, p \in Existing, s \in {"manual", "scim"} : x = <<g, p, s>>
        OBVIOUS
    <2> QED
        BY <2>1
<1>3. Settled => Keeps(w)
    BY <1>1, <1>2, GroupsKeep
<1> QED
    BY <1>1, <1>3 DEF Sound

(* The groups with one of them called name, be it new, renamed or gone.    *)
LEMMA OneGroup ==
    ASSUME TypeInv, NEW w, NEW g \in Groups, NEW name,
           w.groups \in {Only(g, name), Differing(Only(g, name), group)}
    PROVE  /\ DOMAIN w.groups \subseteq {g} /\ \A h \in DOMAIN w.groups : w.groups[h] = name
           /\ GroupsAfter(w)[g] = name
           /\ \A h \in Groups \ {g} : GroupsAfter(w)[h] = group[h]
<1>1. group \in [Groups -> Names \cup {None}]
    BY DEF TypeInv, TypeOK
<1>2. CASE w.groups = Only(g, name)
    <2>1. DOMAIN w.groups = {g} /\ w.groups[g] = name
        BY <1>2 DEF Only
    <2> QED
        BY <1>1, <2>1 DEF GroupsAfter, Over
<1>3. CASE w.groups = Differing(Only(g, name), group)
    <2>1. DOMAIN w.groups = (IF name # group[g] THEN {g} ELSE {})
          /\ (name # group[g] => w.groups[g] = name)
        BY <1>3 DEF Differing, Only
    <2> QED
        BY <1>1, <2>1 DEF GroupsAfter, Over
<1> QED
    BY <1>2, <1>3

LEMMA NameFree ==
    ASSUME TypeInv, NEW w, NEW g \in Groups, NEW name,
           w.groups \in {Only(g, name), Differing(Only(g, name), group)},
           \/ name = None \/ ~GroupNameTaken(name, g)
           \/ group[g] # None /\ SameName(name, group[g]),
           Settled
    PROVE  GroupsApart(GroupsAfter(w))
<1>1. /\ GroupsAfter(w)[g] = name /\ \A h \in Groups \ {g} : GroupsAfter(w)[h] = group[h]
    BY OneGroup
<1>2. GroupsApart(group)
    BY DEF Settled, SettledIn
<1>3. ASSUME name # None, NEW h \in Groups \ {g}, group[h] # None PROVE ~SameName(name, group[h])
    BY <1>2, <1>3 DEF GroupNameTaken, SameName, GroupsApart
<1>4. \A a, b : SameName(a, b) <=> SameName(b, a)
    BY DEF SameName
<1> QED
    BY <1>1, <1>2, <1>3, <1>4 DEF GroupsApart

LEMMA Joiners ==
    ASSUME NEW g \in Groups, NEW ids \in SUBSET Existing, NEW x \in Join(g, ids)
    PROVE  \E h \in Groups, p \in Existing, s \in {"manual", "scim"} : x = <<h, p, s>>
BY DEF Join

LEMMA NobodyParts ==
    ASSUME NEW g, NEW ids, ids = {}
    PROVE  Part(g, ids) = {}
BY DEF Part

LEMMA CreateGroupBegins ==
    ASSUME TypeInv, NEW q \in Requests, NEW g \in Groups, NEW name \in Names, NEW ids \in SUBSET People,
           Alone, Idle(q), CreateGroup(q, g, name, ids)
    PROVE  Begins(q)
<1> DEFINE w == Over([op |-> "group_create", groups |-> Only(g, name),
                      add |-> Join(g, ids \cap Existing)], Nothing)
<1>1. /\ req' = [req EXCEPT ![q] = w] /\ UNCHANGED <<person, group, member, rule, may>>
      /\ ~GroupNameTaken(name, g)
    BY DEF CreateGroup, Begin
<1>2. /\ w.op = "group_create" /\ w.who = None /\ w.late = FALSE /\ w.rules = <<>>
      /\ w.groups = Only(g, name) /\ w.add = Join(g, ids \cap Existing) /\ w.del = {}
    BY DEF Over, Nothing
<1> HIDE DEF w
<1>3. /\ DOMAIN w.groups \subseteq Groups
      /\ \A h \in DOMAIN w.groups : w.groups[h] \in Names \cup {None}
    BY <1>2 DEF Only
<1>4. Settled => GroupsApart(GroupsAfter(w))
    BY <1>1, <1>2, NameFree
<1>5. \A x \in w.add : \E h \in Groups, p \in Existing, s \in {"manual", "scim"} : x = <<h, p, s>>
    BY <1>2, Joiners
<1>6. Sound(w)
    BY <1>2, <1>3, <1>4, <1>5, GroupWork
<1> QED
    BY <1>1, <1>6 DEF Begins

LEMMA ReplaceGroupBegins ==
    ASSUME TypeInv, NEW q \in Requests, NEW g \in Groups, NEW name \in Names, NEW ids \in SUBSET People,
           Alone, Idle(q), ReplaceGroup(q, g, name, ids)
    PROVE  Begins(q)
<1> DEFINE w == Over([op |-> "group_update", groups |-> Differing(Only(g, name), group),
                      add |-> Join(g, (ids \cap Existing) \ MembersOf(g)),
                      del |-> Part(g, MembersOf(g) \ ids)], Nothing)
<1>1. /\ req' = [req EXCEPT ![q] = w] /\ UNCHANGED <<person, group, member, rule, may>>
      /\ group[g] # None /\ (MembersOf(g) \subseteq ids \/ "ungroup" \in may)
      /\ (SameName(name, group[g]) \/ ~GroupNameTaken(name, g))
    BY DEF ReplaceGroup, Begin
<1>2. /\ w.op = "group_update" /\ w.who = None /\ w.late = FALSE /\ w.rules = <<>>
      /\ w.groups = Differing(Only(g, name), group)
      /\ w.add = Join(g, (ids \cap Existing) \ MembersOf(g))
      /\ w.del = Part(g, MembersOf(g) \ ids)
    BY DEF Over, Nothing
<1> HIDE DEF w
<1>3. /\ DOMAIN w.groups \subseteq Groups
      /\ \A h \in DOMAIN w.groups : w.groups[h] \in Names \cup {None}
    BY <1>2 DEF Only, Differing
<1>4. Settled => GroupsApart(GroupsAfter(w))
    BY <1>1, <1>2, NameFree
<1>5. \A x \in w.add : \E h \in Groups, p \in Existing, s \in {"manual", "scim"} : x = <<h, p, s>>
    BY <1>2, Joiners
<1>6. "ungroup" \notin may => w.del = {}
    BY <1>1, <1>2, NobodyParts
<1>7. Sound(w)
    BY <1>2, <1>3, <1>4, <1>5, <1>6, GroupWork DEF ByRequest
<1> QED
    BY <1>1, <1>7 DEF Begins

LEMMA PatchMembersBegins ==
    ASSUME TypeInv, NEW q \in Requests, NEW g \in Groups, NEW ops, Alone, Idle(q),
           PatchMembers(q, g, ops)
    PROVE  Begins(q)
<1> DEFINE out == Outcome(g, ops)
           w == Over([op |-> "group_patch", asked |-> [g |-> g, ops |-> ops],
                      add |-> Join(g, out.joins \cap Existing),
                      del |-> Part(g, MembersOf(g) \ out.stays)], Nothing)
<1>1. /\ req' = [req EXCEPT ![q] = w] /\ UNCHANGED <<person, group, member, rule, may>>
      /\ (MembersOf(g) \subseteq out.stays \/ "ungroup" \in may)
    BY DEF PatchMembers, Begin
<1> HIDE DEF out
<1>2. /\ w.op = "group_patch" /\ w.who = None /\ w.late = FALSE /\ w.rules = <<>>
      /\ w.groups = <<>> /\ w.add = Join(g, out.joins \cap Existing)
      /\ w.del = Part(g, MembersOf(g) \ out.stays)
    BY DEF Over, Nothing
<1> HIDE DEF w
<1>3. DOMAIN w.groups = {} /\ GroupsAfter(w) = group
    BY <1>2, FewColumns, NoGroups
<1>4. \A x \in w.add : \E h \in Groups, p \in Existing, s \in {"manual", "scim"} : x = <<h, p, s>>
    BY <1>2, Joiners
<1>5. "ungroup" \notin may => w.del = {}
    BY <1>1, <1>2, NobodyParts
<1>6. Sound(w)
    BY <1>2, <1>3, <1>4, <1>5, GroupWork DEF ByRequest, Settled, SettledIn
<1> QED
    BY <1>1, <1>6 DEF Begins

LEMMA RenameGroupBegins ==
    ASSUME TypeInv, NEW q \in Requests, NEW g \in Groups, NEW name \in Names, Alone, Idle(q),
           RenameGroup(q, g, name)
    PROVE  Begins(q)
<1> DEFINE w == Over([op |-> "group_update", groups |-> Differing(Only(g, name), group)], Nothing)
<1>1. /\ req' = [req EXCEPT ![q] = w] /\ UNCHANGED <<person, group, member, rule, may>>
      /\ group[g] # None /\ (SameName(name, group[g]) \/ ~GroupNameTaken(name, g))
    BY DEF RenameGroup, Begin
<1>2. /\ w.op = "group_update" /\ w.who = None /\ w.late = FALSE /\ w.rules = <<>>
      /\ w.groups = Differing(Only(g, name), group) /\ w.add = {} /\ w.del = {}
    BY DEF Over, Nothing
<1> HIDE DEF w
<1>3. /\ DOMAIN w.groups \subseteq Groups
      /\ \A h \in DOMAIN w.groups : w.groups[h] \in Names \cup {None}
    BY <1>2 DEF Only, Differing
<1>4. Settled => GroupsApart(GroupsAfter(w))
    BY <1>1, <1>2, NameFree
<1>5. Sound(w)
    BY <1>2, <1>3, <1>4, GroupWork
<1> QED
    BY <1>1, <1>5 DEF Begins

LEMMA DeleteGroupBegins ==
    ASSUME TypeInv, NEW q \in Requests, NEW g \in Groups, Alone, Idle(q), DeleteGroup(q, g)
    PROVE  Begins(q)
<1> DEFINE w == Over([op |-> "group_delete", groups |-> Only(g, None)], Nothing)
<1>1. req' = [req EXCEPT ![q] = w] /\ UNCHANGED <<person, group, member, rule, may>>
    BY DEF DeleteGroup, Begin
<1>2. /\ w.op = "group_delete" /\ w.who = None /\ w.late = FALSE /\ w.rules = <<>>
      /\ w.groups = Only(g, None) /\ w.add = {} /\ w.del = {}
    BY DEF Over, Nothing
<1> HIDE DEF w
<1>3. /\ DOMAIN w.groups \subseteq Groups
      /\ \A h \in DOMAIN w.groups : w.groups[h] \in Names \cup {None}
    BY <1>2 DEF Only
<1>4. Settled => GroupsApart(GroupsAfter(w))
    BY <1>2, NameFree
<1>5. Sound(w)
    BY <1>2, <1>3, <1>4, GroupWork
<1> QED
    BY <1>1, <1>5 DEF Begins

LEMMA AddToGroupBegins ==
    ASSUME TypeInv, NEW q \in Requests, NEW p \in People, NEW g \in Groups, Alone, Idle(q),
           AddToGroup(q, p, g)
    PROVE  Begins(q)
<1> DEFINE w == Over([op |-> "console", add |-> {<<g, p, "manual">>}], Nothing)
<1>1. /\ req' = [req EXCEPT ![q] = w] /\ UNCHANGED <<person, group, member, rule, may>>
      /\ person[p] # None
    BY DEF AddToGroup, Begin
<1>2. /\ w.op = "console" /\ w.who = None /\ w.late = FALSE /\ w.rules = <<>>
      /\ w.groups = <<>> /\ w.add = {<<g, p, "manual">>} /\ w.del = {}
    BY DEF Over, Nothing
<1> HIDE DEF w
<1>3. DOMAIN w.groups = {} /\ GroupsAfter(w) = group
    BY <1>2, FewColumns, NoGroups
<1>4. \A x \in w.add : \E h \in Groups, o \in Existing, s \in {"manual", "scim"} : x = <<h, o, s>>
    BY <1>1, <1>2 DEF Existing
<1>5. Sound(w)
    BY <1>2, <1>3, <1>4, GroupWork DEF Settled, SettledIn
<1> QED
    BY <1>1, <1>5 DEF Begins

LEMMA RemoveFromGroupBegins ==
    ASSUME TypeInv, NEW q \in Requests, NEW p \in People, NEW g \in Groups, Alone, Idle(q),
           RemoveFromGroup(q, p, g)
    PROVE  Begins(q)
<1> DEFINE w == Over([op |-> "group_part", del |-> {<<g, p, s>> : s \in Sources}], Nothing)
<1>1. /\ req' = [req EXCEPT ![q] = w] /\ UNCHANGED <<person, group, member, rule, may>>
      /\ "ungroup" \in may
    BY DEF RemoveFromGroup, Begin
<1>2. /\ w.op = "group_part" /\ w.who = None /\ w.late = FALSE /\ w.rules = <<>>
      /\ w.groups = <<>> /\ w.add = {}
    BY DEF Over, Nothing
<1> HIDE DEF w
<1>3. DOMAIN w.groups = {} /\ GroupsAfter(w) = group
    BY <1>2, FewColumns, NoGroups
<1>4. Sound(w)
    BY <1>1, <1>2, <1>3, GroupWork DEF ByRequest, Settled, SettledIn
<1> QED
    BY <1>1, <1>4 DEF Begins

-----------------------------------------------------------------------------
(* Every beginning.                                                        *)

LEMMA EveryoneBegins ==
    ASSUME TypeInv, NEW q \in Requests, Alone, Idle(q),
           RuleSteps(q) \/ PeopleSteps(q) \/ GroupSteps(q)
    PROVE  Begins(q)
<1>1. CASE RuleSteps(q)
    <2>1. PICK r \in Rules :
              \/ \E c \in Conditions, g \in Groups, enabled \in BOOLEAN :
                    \/ Room /\ CreateRule(q, r, c, g, enabled)
                    \/ UpdateRule(q, r, c, g, enabled)
              \/ DeleteRule(q, r)
              \/ RunRule(q, r)
        BY <1>1 DEF RuleSteps
    <2>2. ASSUME NEW c \in Conditions, NEW g \in Groups, NEW enabled \in BOOLEAN,
                 CreateRule(q, r, c, g, enabled) \/ UpdateRule(q, r, c, g, enabled)
          PROVE  Begins(q)
        BY <2>2, CreateRuleBegins, UpdateRuleBegins
    <2> QED
        BY <2>1, <2>2, DeleteRuleBegins, RunRuleBegins
<1>2. CASE PeopleSteps(q)
    <2>1. ASSUME NEW p \in People, NEW row \in ScimRows(p), CreateUser(q, p, row) PROVE Begins(q)
        BY <2>1, CreateUserBegins
    <2>2. ASSUME NEW p \in People, NEW values \in PutDocuments(p), ReplaceUser(q, p, values)
          PROVE  Begins(q)
        BY <2>2, ReplaceUserBegins
    <2>3. ASSUME NEW p \in People, NEW values \in PatchDocuments(p), PatchUser(q, p, values)
          PROVE  Begins(q)
        BY <2>3, PatchUserBegins
    <2>4. ASSUME NEW p \in People, DeleteUser(q, p) PROVE Begins(q)
        BY <2>4, DeleteUserBegins
    <2>5. ASSUME NEW p \in People, NEW values \in ConsoleForms(p), EditUser(q, p, values)
          PROVE  Begins(q)
        BY <2>5, EditUserBegins
    <2>6. ASSUME NEW p \in People, NEW external \in ExternalChoices, NEW name \in NameChoices(p),
                 NEW email \in Allowed("email"), NewLogin(q, p, external, name, email)
          PROVE  Begins(q)
        BY <2>6, NewLoginBegins
    <2>7. ASSUME NEW external \in ExternalChoices, NEW name \in UNION {NameChoices(p) : p \in People},
                 NEW email \in Allowed("email"), Login(q, external, name, email)
          PROVE  Begins(q)
        BY <2>7, LoginBegins
    <2> QED
        BY <1>2, <2>1, <2>2, <2>3, <2>4, <2>5, <2>6, <2>7 DEF PeopleSteps
<1>3. CASE GroupSteps(q)
    <2>1. GroupNames \subseteq Names
        BY DirectoryAssumption DEF GroupNames
    <2>2. ASSUME NEW g \in Groups, NEW name \in GroupNames, NEW ids \in SUBSET People,
                 CreateGroup(q, g, name, ids) \/ ReplaceGroup(q, g, name, ids)
          PROVE  Begins(q)
        BY <2>1, <2>2, CreateGroupBegins, ReplaceGroupBegins
    <2>3. ASSUME NEW g \in Groups, NEW ops, PatchMembers(q, g, ops) PROVE Begins(q)
        BY <2>3, PatchMembersBegins
    <2>4. ASSUME NEW g \in Groups, NEW name \in GroupNames, RenameGroup(q, g, name) PROVE Begins(q)
        BY <2>1, <2>4, RenameGroupBegins
    <2>5. ASSUME NEW g \in Groups, DeleteGroup(q, g) PROVE Begins(q)
        BY <2>5, DeleteGroupBegins
    <2>6. ASSUME NEW g \in Groups, NEW p \in People, AddToGroup(q, p, g) \/ RemoveFromGroup(q, p, g)
          PROVE  Begins(q)
        BY <2>6, AddToGroupBegins, RemoveFromGroupBegins
    <2> QED
        BY <1>3, <2>2, <2>3, <2>4, <2>5, <2>6 DEF GroupSteps
<1> QED
    BY <1>1, <1>2, <1>3

-----------------------------------------------------------------------------
(* Every step.                                                             *)

LEMMA TypeNext == TypeInv /\ [Next]_vars => TypeInv'
<1> SUFFICES ASSUME TypeInv, [Next]_vars PROVE TypeInv'
    OBVIOUS
<1>1. ASSUME UNCHANGED <<person, group, member, rule, may>>, DOMAIN req' = Requests,
             \A o \in Requests : FitsIn(req'[o], person)
      PROVE  TypeInv'
    <2>1. \A o \in Requests : FitsIn(req'[o], person') /\ req'[o].who \in People \cup {None}
        BY <1>1 DEF FitsIn
    <2> QED
        BY <1>1, <2>1 DEF TypeInv, TypeOK, Fits
<1>2. ASSUME NEW q \in Requests, Begins(q) PROVE TypeInv'
    <2>1. PICK w : Sound(w) /\ req' = [req EXCEPT ![q] = w]
        BY <1>2 DEF Begins
    <2>2. DOMAIN req' = Requests /\ \A o \in Requests : req'[o] = IF o = q THEN w ELSE req[o]
        BY <2>1 DEF TypeInv
    <2>3. FitsIn(w, person) /\ \A o \in Requests : FitsIn(req[o], person)
        BY <2>1 DEF Sound, TypeInv, Fits
    <2>4. UNCHANGED <<person, group, member, rule, may>>
        BY <1>2 DEF Begins
    <2> QED
        BY <1>1, <2>2, <2>3, <2>4
<1>3. ASSUME NEW q \in Requests, Abort(q) PROVE TypeInv'
    <2>1. /\ req' = [req EXCEPT ![q] = Nothing] /\ UNCHANGED <<person, group, member, rule, may>>
        BY <1>3 DEF Abort
    <2>2. DOMAIN req' = Requests /\ \A o \in Requests : req'[o] = IF o = q THEN Nothing ELSE req[o]
        BY <2>1 DEF TypeInv
    <2>3. FitsIn(Nothing, person) /\ \A o \in Requests : FitsIn(req[o], person)
        BY NothingFits DEF TypeInv, Fits
    <2> QED
        BY <1>1, <2>1, <2>2, <2>3
<1>4. CASE UNCHANGED vars
    BY <1>1, <1>4 DEF vars, TypeInv, Fits
<1>5. CASE Next
    BY <1>2, <1>3, <1>5, EveryoneBegins, TypeCommit DEF Next
<1> QED
    BY <1>4, <1>5

(* What a commit would do stays the same while the tables do.              *)
LEMMA KeepsStays ==
    ASSUME UNCHANGED <<person, group, member, rule, may>>, NEW w, Keeps(w)
    PROVE  Keeps(w)'
<1>1. PeopleAfter(w)' = PeopleAfter(w)
    BY DEF PeopleAfter
<1>2. GroupsAfter(w)' = GroupsAfter(w)
    BY DEF GroupsAfter
<1>3. RulesAfter(w)' = RulesAfter(w)
    BY <1>2 DEF RulesAfter
<1>4. Adds(w)' = Adds(w) /\ Dels(w)' = Dels(w)
    BY DEF Adds, Dels, ReconcileAdds, ReconcileDels
<1>5. Deleted(w)' = Deleted(w)
    BY <1>4 DEF Deleted
<1>6. MembersAfter(w)' = MembersAfter(w)
    BY <1>2, <1>4, <1>5 DEF MembersAfter
<1>7. SettledIn(PeopleAfter(w), GroupsAfter(w), MembersAfter(w), RulesAfter(w))'
    BY <1>1, <1>2, <1>3, <1>6 DEF Keeps, SettledIn, InLine
<1>8. GivesTheActive(w)' /\ KeepsTheLink(w)'
    BY <1>1, <1>6 DEF Keeps, GivesTheActive, KeepsTheLink
<1>9. Foretold(w)'
    <2>1. \A g : Joined(w, g)' = Joined(w, g)
        BY <1>6 DEF Joined
    <2>2. \A c, g : WouldBeAdded(c, g)' = WouldBeAdded(c, g)
        BY DEF WouldBeAdded, AffectedBy, Existing
    <2> QED
        BY <1>3, <2>1, <2>2 DEF Keeps, Foretold
<1> QED
    BY <1>7, <1>8, <1>9 DEF Keeps

LEMMA SerialInit == Init => SerialInv
<1> SUFFICES ASSUME Init PROVE SerialInv
    OBVIOUS
<1>1. /\ \A p \in People : person[p] = None
      /\ \A g \in Groups : group[g] = None
      /\ \A r \in Rules : rule[r] = None
    BY DEF Init
<1>2. Settled
    BY <1>1 DEF Settled, SettledIn, Apart, GroupsApart, InLine
<1>3. \A q \in Requests : Idle(q)
    BY DEF Init, Idle, Nothing
<1> QED
    BY <1>2, <1>3 DEF SerialInv

(* A step is a beginning, a commit or an end without one.                  *)
LEMMA Steps ==
    ASSUME TypeInv, [Next]_vars
    PROVE  \/ UNCHANGED vars
           \/ \E q \in Requests : Begins(q) \/ Commit(q) \/ Abort(q)
BY EveryoneBegins DEF Next

LEMMA SerialNext == TypeInv /\ SerialInv /\ [Next]_vars => SerialInv'
<1> SUFFICES ASSUME TypeInv, SerialInv, [Next]_vars PROVE SerialInv'
    OBVIOUS
<1>1. ASSUME UNCHANGED <<person, group, member, rule, may>> PROVE Settled' = Settled
    BY <1>1 DEF Settled, SettledIn, InLine
<1>2. ASSUME NEW q \in Requests, Begins(q) PROVE SerialInv'
    <2>1. PICK w : Sound(w) /\ req' = [req EXCEPT ![q] = w]
        BY <1>2 DEF Begins
    <2>2. UNCHANGED <<person, group, member, rule, may>> /\ Alone
        BY <1>2 DEF Begins
    <2>3. \A o \in Requests : req'[o] = IF o = q THEN w ELSE req[o]
        BY <2>1 DEF TypeInv
    <2> SUFFICES ASSUME Serial PROVE SerialInv'
        BY <2>2 DEF SerialInv, Serial
    <2>4. \A o \in Requests : req[o].op = "none"
        BY <2>2 DEF Alone, Serial, Idle
    <2>5. Settled /\ Keeps(w)
        BY <2>1 DEF SerialInv, Sound
    <2>6. Settled' /\ Keeps(w)'
        BY <1>1, <2>2, <2>5, KeepsStays
    <2>7. \A o \in Requests : req'[o].op # "none" => o = q
        BY <2>3, <2>4
    <2>8. \A o \in Requests : ~Idle(o)' => \E v : v = req'[o] /\ Keeps(v)'
        BY <2>3, <2>6, <2>7 DEF Idle
    <2> QED
        BY <2>6, <2>7, <2>8 DEF SerialInv, Idle
<1>3. ASSUME NEW q \in Requests, Commit(q) PROVE SerialInv'
    <2>1. /\ person' = PeopleAfter(req[q]) /\ group' = GroupsAfter(req[q])
          /\ rule' = RulesAfter(req[q]) /\ member' = MembersAfter(req[q])
          /\ req' = [req EXCEPT ![q] = Nothing] /\ may' = may /\ ~Idle(q)
        BY <1>3 DEF Commit, Write
    <2> SUFFICES ASSUME Serial PROVE SerialInv'
        BY <2>1 DEF SerialInv, Serial
    <2>2. Keeps(req[q])
        BY <2>1 DEF SerialInv
    <2>3. Settled'
        BY <2>1, <2>2 DEF Keeps, Settled, SettledIn, InLine
    <2>4. \A o \in Requests : req'[o].op = "none"
        <3>1. \A o \in Requests : o # q => req[o].op = "none"
            BY <2>1 DEF SerialInv, Idle
        <3> QED
            BY <2>1, <3>1 DEF TypeInv, Nothing
    <2> QED
        BY <2>3, <2>4 DEF SerialInv, Idle
<1>4. ASSUME NEW q \in Requests, Abort(q) PROVE SerialInv'
    <2>1. req' = [req EXCEPT ![q] = Nothing] /\ UNCHANGED <<person, group, member, rule, may>>
        BY <1>4 DEF Abort
    <2>2. \A o \in Requests : req'[o] = IF o = q THEN Nothing ELSE req[o]
        BY <2>1 DEF TypeInv
    <2> SUFFICES ASSUME Serial PROVE SerialInv'
        BY <2>1 DEF SerialInv, Serial
    <2>3. Settled'
        BY <1>1, <2>1 DEF SerialInv
    <2>4. Nothing.op = "none"
        BY DEF Nothing
    <2>5. \A o \in Requests : req'[o].op # "none" => req'[o] = req[o] /\ req[o].op # "none"
        BY <2>2, <2>4
    <2>6. \A o \in Requests : req'[o].op # "none" => \E v : v = req'[o] /\ Keeps(v)'
        BY <2>1, <2>5, KeepsStays DEF SerialInv, Idle
    <2>7. \A a, b \in Requests : req'[a].op # "none" /\ req'[b].op # "none" => a = b
        BY <2>5 DEF SerialInv, Idle
    <2> QED
        BY <2>3, <2>6, <2>7 DEF SerialInv, Idle
<1>5. ASSUME UNCHANGED vars PROVE SerialInv'
    <2>1. UNCHANGED <<person, group, member, rule, may>> /\ req' = req
        BY <1>5 DEF vars
    <2> SUFFICES ASSUME Serial PROVE SerialInv'
        BY <2>1 DEF SerialInv, Serial
    <2>2. Settled'
        BY <1>1, <2>1 DEF SerialInv
    <2>3. \A o \in Requests : req[o].op # "none" => \E v : v = req'[o] /\ Keeps(v)'
        BY <2>1, KeepsStays DEF SerialInv, Idle
    <2> QED
        BY <2>1, <2>2, <2>3 DEF SerialInv, Idle
<1> QED
    BY <1>2, <1>3, <1>4, <1>5, Steps

(* The database's own constraints, which hold whatever overlaps.           *)
Unique == UniqueUsers(person) /\ UniqueGroups(group)

Inv == TypeInv /\ SerialInv /\ Unique

LEMMA Inductive == Spec => []Inv
<1>1. Init => Inv
    <2>1. Init => Unique
        BY DEF Init, Unique, UniqueUsers, UniqueGroups
    <2> QED
        BY <2>1, TypeInit, SerialInit DEF Inv
<1>2. Inv /\ [Next]_vars => Inv'
    <2>1. ASSUME Inv, [Next]_vars PROVE Unique'
        <3>1. ASSUME UNCHANGED <<person, group>> PROVE Unique'
            BY <2>1, <3>1 DEF Inv, Unique, UniqueUsers, UniqueGroups
        <3>2. ASSUME NEW q \in Requests, Commit(q) PROVE Unique'
            BY <3>2 DEF Commit, Storable, Write, Unique, UniqueUsers, UniqueGroups
        <3> QED
            BY <2>1, <3>1, <3>2, Steps DEF Inv, Begins, Abort, vars
    <2> QED
        BY <2>1, TypeNext, SerialNext DEF Inv
<1> QED
    BY <1>1, <1>2, PTL DEF Spec

-----------------------------------------------------------------------------
(* The tables and what is in flight keep their types, whatever overlaps:   *)
(* no rule or membership refers to a group or a person that is gone.  (The *)
(* foreign keys with their ON DELETE CASCADE, and what handlers write.)    *)
THEOREM TypeCorrect == Spec => []TypeOK
<1>1. Inv => TypeOK
    BY DEF Inv, TypeInv
<1> QED
    BY <1>1, Inductive, PTL

(* One row per identity: requests one at a time never make two people, or  *)
(* two groups, whose names differ in case only; overlapping ones share     *)
(* neither an external id nor a name letter for letter.  (create_user,     *)
(* replace_user, find_user, create_group and _rename.)                     *)
THEOREM OnePersonPerIdentityAlways == Spec => []OnePersonPerIdentity
<1>1. Inv => OnePersonPerIdentity
    BY DEF Inv, Unique, SerialInv, Settled, SettledIn, Apart, GroupsApart, Existing,
           OnePersonPerIdentity
<1> QED
    BY <1>1, Inductive, PTL

(* A commit by which a request comes to an end.                            *)
LEMMA Ending ==
    ASSUME Inv, Serial, NEW q \in Requests, ~Idle(q), Idle(q)', [Next]_vars
    PROVE  Abort(q) \/ (Commit(q) /\ Keeps(req[q]))
<1>1. Keeps(req[q])
    BY DEF Inv, SerialInv
<1>2. req[q].op # "none" /\ req'[q].op = "none"
    BY DEF Idle
<1>3. DOMAIN req = Requests
    BY DEF Inv, TypeInv
<1>4. ~UNCHANGED vars
    BY <1>2 DEF vars
<1>5. ASSUME NEW o \in Requests, Begins(o) PROVE FALSE
    BY <1>2, <1>5 DEF Begins, Alone, Serial, Idle
<1>6. ASSUME NEW o \in Requests, Commit(o) \/ Abort(o) PROVE o = q
    <2>1. req' = [req EXCEPT ![o] = Nothing]
        BY <1>6 DEF Commit, Abort
    <2> QED
        BY <1>2, <1>3, <2>1
<1> QED
    BY <1>1, <1>4, <1>5, <1>6, Steps DEF Inv

(* A login links a person to the provider's id when they have none, and    *)
(* never changes it, requests one at a time.  (find_user, refresh_user.)   *)
THEOREM LoginsKeepTheLinkAlways == Spec => LoginsKeepTheLink
<1>1. Inv /\ [Next]_vars =>
          [Serial => \A q \in Requests, p \in People :
              req[q].op = "login" /\ Idle(q)' /\ person[p] # None /\ person[p].external_id # None
                  => person'[p].external_id = person[p].external_id]_vars
    <2> SUFFICES ASSUME Inv, [Next]_vars, Serial, NEW q \in Requests, NEW p \in People,
                        req[q].op = "login", Idle(q)', person[p] # None,
                        person[p].external_id # None
                 PROVE  person'[p].external_id = person[p].external_id
        OBVIOUS
    <2>1. Abort(q) \/ (Commit(q) /\ Keeps(req[q]))
        BY Ending DEF Idle
    <2> QED
        BY <2>1 DEF Abort, Commit, Write, Keeps, KeepsTheLink
<1> QED
    BY <1>1, Inductive, PTL DEF Spec, LoginsKeepTheLink

-----------------------------------------------------------------------------
(* What the rules do.                                                      *)

Hold ==
    Serial =>
        /\ "switch" \notin may => RuleRowsAreEarned /\ RulesAreApplied
        /\ \A r \in Rules : rule[r] # None => Valid(rule[r])

LEMMA InvHold == Inv => Hold
<1> SUFFICES ASSUME Inv, Serial PROVE Hold
    BY DEF Hold
<1>1. Settled
    BY DEF Inv, SerialInv
<1>2. ASSUME "switch" \notin may PROVE RuleRowsAreEarned
    <2> SUFFICES ASSUME NEW g \in Groups, NEW p \in People, member[<<g, p>>] = "rule", person[p].active
                 PROVE  \E r \in Applicable(rule, person[p]) : rule[r].group = g
        BY DEF RuleRowsAreEarned, Pairs
    <2>1. person[p] # None
        BY NoneAssumption DEF Inv, TypeInv, TypeOK, Pairs, Sources
    <2>2. g \in Wanted(rule, person[p])
        BY <1>1, <1>2, <2>1 DEF Settled, SettledIn, InLine
    <2> QED
        BY <2>2, WantedIs
<1>3. ASSUME "switch" \notin may PROVE RulesAreApplied
    <2> SUFFICES ASSUME "ungroup" \notin may, NEW p \in Existing, person[p].active,
                        NEW r \in Applicable(rule, person[p])
                 PROVE  member[<<rule[r].group, p>>] # None
        BY DEF RulesAreApplied
    <2>1. rule[r].group \in Wanted(rule, person[p])
        BY WantedIs
    <2> QED
        BY <1>1, <1>3, <2>1 DEF Settled, SettledIn, InLine, Existing
<1> QED
    BY <1>1, <1>2, <1>3 DEF Hold, Settled, SettledIn

(* A step that changes the tables is a commit.                             *)
LEMMA OnlyCommits ==
    ASSUME Inv, [Next]_vars
    PROVE  /\ may' = may
           /\ \/ UNCHANGED <<person, group, member, rule>>
              \/ \E q \in Requests : Commit(q) /\ Idle(q)' /\ (Serial => Keeps(req[q]))
<1>1. ASSUME NEW q \in Requests, Commit(q)
      PROVE  may' = may /\ Idle(q)' /\ (Serial => Keeps(req[q]))
    <2>1. DOMAIN req = Requests /\ req' = [req EXCEPT ![q] = Nothing] /\ may' = may /\ ~Idle(q)
        BY <1>1 DEF Inv, TypeInv, Commit
    <2>2. Idle(q)'
        BY <2>1 DEF Idle, Nothing
    <2>3. Serial => Keeps(req[q])
        BY <2>1 DEF Inv, SerialInv
    <2> QED
        BY <2>1, <2>2, <2>3
<1> QED
    BY <1>1, Steps DEF Inv, Begins, Abort, vars

LEMMA OwnRows ==
    ASSUME Inv, [Next]_vars, NEW x \in Pairs
    PROVE  /\ member[x] \notin {None, "rule"} /\ member'[x] # member[x] =>
                  group'[x[1]] = None \/ \E q \in Requests : ByHand(q)
           /\ Serial /\ member[x] = None /\ member'[x] = "rule" => person'[x[2]].active
<1>1. CASE UNCHANGED <<person, group, member, rule>>
    BY <1>1, NoneAssumption DEF Sources
<1>2. ASSUME NEW q \in Requests, Commit(q), Idle(q)', Serial => Keeps(req[q])
      PROVE  /\ member[x] \notin {None, "rule"} /\ member'[x] # member[x] =>
                    group'[x[1]] = None \/ ByHand(q)
             /\ Serial /\ member[x] = None /\ member'[x] = "rule" => person'[x[2]].active
    <2> DEFINE w == req[q]
    <2>1. /\ person' = PeopleAfter(w) /\ group' = GroupsAfter(w) /\ member' = MembersAfter(w)
          /\ Storable(w) /\ Fits(w)
        BY <1>2 DEF Commit, Write, Inv, TypeInv
    <2>2. PICK g \in Groups, p \in People : x = <<g, p>>
        BY DEF Pairs
    <2>3. ASSUME member[x] \notin {None, "rule"}, member'[x] # member[x], group'[g] # None
          PROVE  ByHand(q)
        <3>1. <<g, p, member[x]>> \in Dels(w)
            <4>1. CASE \E s \in Sources : <<g, p, s>> \in Adds(w)
                <5>1. <<g, p>> \in Deleted(w)
                    BY <2>1, <2>2, <2>3, <4>1 DEF Storable
                <5> QED
                    BY <2>2, <5>1 DEF Deleted
            <4>2. CASE ~\E s \in Sources : <<g, p, s>> \in Adds(w)
                <5>1. MembersAfter(w)[<<g, p>>] =
                          IF <<g, p, member[<<g, p>>]>> \in Dels(w) THEN None ELSE member[<<g, p>>]
                    BY <2>1, <2>3, <4>2, MemberAfter
                <5> QED
                    BY <2>1, <2>2, <2>3, <5>1
            <4> QED
                BY <4>1, <4>2
        <3>2. <<g, p, member[x]>> \in w.del
            BY <2>3, <3>1 DEF Dels, ReconcileDels
        <3>3. w.op \in ByRequest
            BY <2>1, <2>3, <3>2 DEF Fits, FitsIn
        <3> QED
            BY <1>2, <3>3 DEF ByHand, ByRequest
    <2>4. Serial /\ member[x] = None /\ member'[x] = "rule" => person'[p].active
        BY <1>2, <2>1, <2>2 DEF Keeps, GivesTheActive
    <2> QED
        BY <2>2, <2>3, <2>4
<1> QED
    BY <1>1, <1>2, OnlyCommits

LEMMA Foreseen ==
    ASSUME Inv, [Next]_vars, Serial, {"ungroup", "switch"} \cap may = {},
           NEW r \in Rules, rule[r] = None, rule'[r] # None
    PROVE  LET made == rule'[r]
               joined == {p \in People : /\ member[<<made.group, p>>] = None
                                        /\ member'[<<made.group, p>>] # None}
           IN  joined = IF made.enabled THEN WouldBeAdded(made, made.group) ELSE {}
<1>1. PICK q \in Requests : Commit(q) /\ Keeps(req[q])
    BY OnlyCommits
<1>2. rule' = RulesAfter(req[q]) /\ member' = MembersAfter(req[q])
    BY <1>1 DEF Commit, Write
<1> QED
    BY <1>1, <1>2 DEF Keeps, Foretold, Joined

(* After every request served alone, and where the console does not switch *)
(* people on, the rules' memberships are what the rules say of everybody;  *)
(* whatever overlaps, the engine takes no membership that it did not give; *)
(* and the preview of a rule names exactly whom creating it puts into the  *)
(* group.  (reconcile, reconcile_group, preview and everything that calls  *)
(* them.)                                                                  *)
THEOREM RulesDoWhatTheySayAlways == Spec => RulesDoWhatTheySay
<1>1. Inv /\ [Next]_vars /\ Hold' =>
          [Serial =>
              /\ "switch" \notin may => RuleRowsAreEarned' /\ RulesAreApplied'
              /\ \A r \in Rules : rule'[r] # None => Valid(rule'[r])]_vars
    BY OnlyCommits DEF Hold, Serial
<1>2. Inv /\ [Next]_vars =>
          [\A x \in Pairs :
              /\ member[x] \notin {None, "rule"} /\ member'[x] # member[x] =>
                    group'[x[1]] = None \/ \E q \in Requests : ByHand(q)
              /\ Serial /\ member[x] = None /\ member'[x] = "rule" => person'[x[2]].active]_vars
    BY OwnRows
<1>3. Inv /\ [Next]_vars =>
          [Serial /\ {"ungroup", "switch"} \cap may = {} =>
              \A r \in Rules : rule[r] = None /\ rule'[r] # None =>
                  LET made == rule'[r]
                      joined == {p \in People : /\ member[<<made.group, p>>] = None
                                               /\ member'[<<made.group, p>>] # None}
                  IN  joined = IF made.enabled THEN WouldBeAdded(made, made.group) ELSE {}]_vars
    BY Foreseen, Zenon
<1>4. Spec => RulesHold
    BY <1>1, InvHold, Inductive, PTL DEF Spec, RulesHold
<1>5. Spec => RulesKeepToTheirOwn
    BY <1>2, Inductive, PTL DEF Spec, RulesKeepToTheirOwn
<1>6. Spec => PreviewForetells
    BY <1>3, Inductive, PTL DEF Spec, PreviewForetells
<1> QED
    BY <1>4, <1>5, <1>6 DEF RulesDoWhatTheySay
=============================================================================
