-------------------------- MODULE RoleGrants_proofs --------------------------
(* For every set of people, rows and concurrent requests: the types of     *)
(* RoleGrants, at most one unrevoked grant per person, and that granting   *)
(* takes effect.  For requests one at a time: the cache, the leavers, the  *)
(* revocations and the last-admin check.                                   *)
EXTENDS RoleGrants, FiniteSetTheorems, TLAPS

(* The role worked out from a table of rows is a role.                     *)
LEMMA EffectiveRoleType ==
    ASSUME NEW table \in [GrantIds -> Row], NEW u, NEW t
    PROVE  EffectiveRole(table, u, t) \in Roles
<1>1. CASE LiveGrants(table, u, t) = {}
    BY <1>1 DEF EffectiveRole, Roles
<1>2. CASE LiveGrants(table, u, t) # {}
    <2> DEFINE g == CHOOSE x \in LiveGrants(table, u, t) : TRUE
    <2>1. g \in LiveGrants(table, u, t)
        BY <1>2
    <2>2. g \in GrantIds
        BY <2>1 DEF LiveGrants
    <2>3. table[g].role \in Roles
        BY <2>2 DEF Row
    <2> QED
        BY <1>2, <2>3 DEF EffectiveRole
<1> QED
    BY <1>1, <1>2

(* Revoking the row a request selected keeps the table's type.             *)
LEMMA EndedType ==
    ASSUME TypeOK, NEW r \in Requests,
           req[r].op \in {"grant", "bootstrap", "revoke", "expire", "scim_off"}
    PROVE  Ended(r) \in [GrantIds -> Row]
<1>1. CASE req[r].seen = NoGrant
    BY <1>1 DEF Ended, TypeOK
<1>2. CASE req[r].seen # NoGrant
    <2>1. req[r].seen \in GrantIds
        BY <1>2 DEF TypeOK, Request
    <2>2. EndingOf(req[r].op) \in Endings
        BY DEF EndingOf, Endings
    <2>3. [grants[req[r].seen] EXCEPT !.status = EndingOf(req[r].op)] \in Row
        BY <2>1, <2>2 DEF TypeOK, Row, Endings
    <2> QED
        BY <1>2, <2>1, <2>3 DEF Ended, TypeOK
<1> QED
    BY <1>1, <1>2

(* Caching the role of any well-typed table keeps the column's type.       *)
LEMMA RecomputeType ==
    ASSUME TypeOK, NEW r \in Requests, NEW table \in [GrantIds -> Row],
           Recompute(r, table)
    PROVE  cached' \in [Users -> Roles]
<1>1. EffectiveRole(table, req[r].user, req[r].at) \in Roles
    BY EffectiveRoleType
<1> QED
    BY <1>1 DEF Recompute, TypeOK

(* A finished or abandoned request leaves an idle slot.                    *)
LEMMA CloseType ==
    ASSUME TypeOK, NEW r \in Requests, Close(r)
    PROVE  req' \in [Requests -> Request]
<1>1. Idle \in Request
    BY DEF Idle, Request, Ops, Roles, Never
<1> QED
    BY <1>1 DEF Close, TypeOK

(* Loading a person's row starts a well-typed request.                     *)
LEMMA LoadType ==
    ASSUME TypeOK, NEW r \in Requests, NEW op \in Ops, NEW u \in Users,
           NEW role \in Roles, NEW expires \in Nat,
           NEW pc \in {"guard", "select", "write"}, Load(r, op, u, role, expires, pc)
    PROVE  TypeOK'
<1> DEFINE q == [pc |-> pc, op |-> op, user |-> u, role |-> role, expires |-> expires,
                 at |-> now, knew |-> cached[u], seen |-> NoGrant]
<1>1. cached[u] \in Roles /\ now \in Nat
    BY DEF TypeOK
<1>2. q \in Request
    BY <1>1 DEF Request
<1>3. req' = [req EXCEPT ![r] = q] /\ UNCHANGED <<active, cached, grants, now>>
    BY DEF Load
<1> HIDE DEF q
<1> QED
    BY <1>2, <1>3 DEF TypeOK

LEMMA TypeInit == Init => TypeOK
<1>1. AbsentRow \in Row
    BY DEF AbsentRow, Row, Roles, Never
<1>2. Idle \in Request
    BY DEF Idle, Request, Ops, Roles, Never
<1> QED
    BY <1>1, <1>2 DEF Init, TypeOK, Roles

LEMMA TypeStep == TypeOK /\ [Next]_vars => TypeOK'
<1> SUFFICES ASSUME TypeOK, [Next]_vars PROVE TypeOK'
    OBVIOUS
<1>0. Never \in Nat /\ "employee" \in Roles /\ "admin" \in Roles /\ Times \subseteq Nat
    BY DEF Never, Roles, Times
<1>1. CASE UNCHANGED vars
    BY <1>1 DEF vars, TypeOK
<1>2. CASE Tick
    BY <1>2 DEF Tick, TypeOK
<1>3. ASSUME NEW r \in Requests, BeginExpire(r) PROVE TypeOK'
    <2>1. PICK u \in Users : Load(r, "expire", u, "employee", Never, "select")
        BY <1>3 DEF BeginExpire
    <2> QED
        BY <1>0, <2>1, LoadType DEF Ops
<1>4. ASSUME NEW r \in Requests, BeginGrant(r) PROVE TypeOK'
    <2>1. PICK u \in Users, role \in GrantRoles, expires \in {Never} \cup Times :
              Load(r, "grant", u, role, expires, IF role = "admin" THEN "select" ELSE "guard")
        BY <1>4 DEF BeginGrant
    <2>2. role \in Roles /\ expires \in Nat
        BY <1>0, RolesAssumption
    <2> QED
        BY <2>1, <2>2, LoadType DEF Ops
<1>5. ASSUME NEW r \in Requests, BeginRevoke(r) PROVE TypeOK'
    <2>1. PICK u \in Users : Load(r, "revoke", u, "employee", Never, "guard")
        BY <1>5 DEF BeginRevoke
    <2> QED
        BY <1>0, <2>1, LoadType DEF Ops
<1>6. ASSUME NEW r \in Requests, BeginConsoleActive(r) PROVE TypeOK'
    <2>1. PICK u \in Users : \/ Load(r, "console_off", u, "employee", Never, "guard")
                             \/ Load(r, "console_on", u, "employee", Never, "write")
        BY <1>6 DEF BeginConsoleActive
    <2> QED
        BY <1>0, <2>1, LoadType DEF Ops
<1>7. ASSUME NEW r \in Requests, BeginScimActive(r) PROVE TypeOK'
    <2>1. PICK u \in Users : \/ Load(r, "scim_off", u, "employee", Never, "select")
                             \/ Load(r, "scim_on", u, "employee", Never, "write")
        BY <1>7 DEF BeginScimActive
    <2> QED
        BY <1>0, <2>1, LoadType DEF Ops
<1>8. ASSUME NEW r \in Requests, BeginBootstrap(r) PROVE TypeOK'
    <2>1. PICK u \in Users : Load(r, "bootstrap", u, "admin", Never, "select")
        BY <1>8 DEF BeginBootstrap
    <2> QED
        BY <1>0, <2>1, LoadType DEF Ops
<1>9. ASSUME NEW r \in Requests, RefuseLastAdmin(r) \/ Abort(r) PROVE TypeOK'
    <2>1. Close(r) /\ UNCHANGED <<active, cached, grants, now>>
        BY <1>9 DEF RefuseLastAdmin, Abort
    <2> QED
        BY <2>1, CloseType DEF TypeOK
<1>10. ASSUME NEW r \in Requests, PassGuard(r) PROVE TypeOK'
    BY <1>10 DEF PassGuard, TypeOK, Request
<1>11. ASSUME NEW r \in Requests, Select(r) PROVE TypeOK'
    <2>1. PICK seen \in GrantIds \cup {NoGrant} :
              \/ Close(r)
              \/ req' = [req EXCEPT ![r].pc = "write", ![r].seen = seen]
        BY <1>11 DEF Select, Wanted, Unrevoked
    <2>2. req' \in [Requests -> Request]
        BY <2>1, CloseType DEF TypeOK, Request
    <2> QED
        BY <1>11, <2>2 DEF Select, TypeOK
<1>12. ASSUME NEW r \in Requests, WriteGrant(r) PROVE TypeOK'
    <2>1. PICK g \in GrantIds : /\ grants' = [Ended(r) EXCEPT ![g] = NewRow(r)]
                                /\ Recompute(r, [Ended(r) EXCEPT ![g] = NewRow(r)])
        BY <1>12 DEF WriteGrant
    <2>2. Ended(r) \in [GrantIds -> Row]
        BY <1>12, EndedType DEF WriteGrant, Granting
    <2>3. NewRow(r) \in Row
        BY DEF NewRow, Row, TypeOK, Request
    <2>4. [Ended(r) EXCEPT ![g] = NewRow(r)] \in [GrantIds -> Row]
        BY <2>2, <2>3
    <2>5. cached' \in [Users -> Roles]
        BY <2>1, <2>4, RecomputeType
    <2>6. req' \in [Requests -> Request]
        BY <1>12, CloseType DEF WriteGrant
    <2> QED
        BY <1>12, <2>1, <2>4, <2>5, <2>6 DEF WriteGrant, TypeOK
<1>13. ASSUME NEW r \in Requests, WriteEnd(r) \/ WriteScimOff(r) PROVE TypeOK'
    <2>1. Ended(r) \in [GrantIds -> Row]
        BY <1>13, EndedType DEF WriteEnd, WriteScimOff
    <2>2. cached' \in [Users -> Roles]
        BY <1>13, <2>1, RecomputeType DEF WriteEnd, WriteScimOff
    <2>3. req' \in [Requests -> Request]
        BY <1>13, CloseType DEF WriteEnd, WriteScimOff
    <2> QED
        BY <1>13, <2>1, <2>2, <2>3 DEF WriteEnd, WriteScimOff, TypeOK
<1>14. ASSUME NEW r \in Requests, WriteActive(r) PROVE TypeOK'
    <2>1. req' \in [Requests -> Request]
        BY <1>14, CloseType DEF WriteActive
    <2> QED
        BY <1>14, <2>1 DEF WriteActive, TypeOK
<1> QED
    BY <1>1, <1>2, <1>3, <1>4, <1>5, <1>6, <1>7, <1>8, <1>9, <1>10, <1>11, <1>12,
       <1>13, <1>14 DEF Next

(* Every column and every request in flight keeps the shape the models and *)
(* the handlers give it.                                                   *)
THEOREM TypeCorrect == Spec => []TypeOK
<1> QED
    BY TypeInit, TypeStep, PTL DEF Spec

-----------------------------------------------------------------------------
(* Only the row a request selected changes, and only its status.           *)
LEMMA EndedOnlyEnds ==
    ASSUME TypeOK, NEW r \in Requests, NEW g \in GrantIds,
           req[r].op \in {"grant", "bootstrap", "revoke", "expire", "scim_off"}
    PROVE  /\ Ended(r)[g].user = grants[g].user
           /\ Ended(r)[g].role = grants[g].role
           /\ Ended(r)[g].expires = grants[g].expires
           /\ g # req[r].seen => Ended(r)[g] = grants[g]
           /\ g = req[r].seen => Ended(r)[g].status \in Endings
           /\ Ended(r)[g].status = "live" => grants[g].status = "live"
<1>1. req[r].seen \in GrantIds \cup {NoGrant} /\ grants[g] \in Row
    BY DEF TypeOK, Request
<1>2. EndingOf(req[r].op) \in Endings
    BY DEF EndingOf, Endings
<1> QED
    BY <1>1, <1>2, NoneAssumption DEF Ended, TypeOK, Row, Endings

(* What a step can do to the table of rows: nothing, end one selected row, *)
(* or end one and insert one that does not collide.                        *)
LEMMA GrantsStep ==
    ASSUME TypeOK, [Next]_vars
    PROVE  \/ UNCHANGED grants
           \/ \E r \in Requests : (WriteEnd(r) \/ WriteScimOff(r)) /\ grants' = Ended(r)
           \/ \E r \in Requests : WriteGrant(r)
BY DEF Next, vars, Tick, BeginExpire, BeginGrant, BeginRevoke, BeginConsoleActive,
       BeginScimActive, BeginBootstrap, Load, RefuseLastAdmin, PassGuard, Select,
       WriteEnd, WriteScimOff, WriteActive, Abort

LEMMA OneLiveStep == TypeOK /\ OneLiveGrant /\ [Next]_vars => OneLiveGrant'
<1> SUFFICES ASSUME TypeOK, OneLiveGrant, [Next]_vars,
                    NEW g \in GrantIds, NEW h \in GrantIds,
                    grants'[g].status = "live", grants'[h].status = "live",
                    grants'[g].user = grants'[h].user
             PROVE  g = h
    BY DEF OneLiveGrant
<1>1. CASE UNCHANGED grants
    BY <1>1 DEF OneLiveGrant
<1>2. ASSUME NEW r \in Requests, WriteEnd(r) \/ WriteScimOff(r), grants' = Ended(r)
      PROVE  g = h
    <2>1. req[r].op \in {"revoke", "expire", "scim_off"}
        BY <1>2 DEF WriteEnd, WriteScimOff
    <2> QED
        BY <1>2, <2>1, EndedOnlyEnds DEF OneLiveGrant
<1>3. ASSUME NEW r \in Requests, WriteGrant(r) PROVE g = h
    <2>1. PICK n \in GrantIds : /\ grants[n].status = "absent"
                                /\ grants' = [Ended(r) EXCEPT ![n] = NewRow(r)]
        BY <1>3 DEF WriteGrant
    <2>2. req[r].op \in {"grant", "bootstrap"} /\ Ended(r) \in [GrantIds -> Row]
        BY <1>3, EndedType DEF WriteGrant, Granting
    <2>3. \A k \in GrantIds \ {n} : grants'[k] = Ended(r)[k]
        BY <2>1, <2>2
    <2>4. grants'[n].user = req[r].user
        BY <2>1, <2>2 DEF NewRow
    <2>5. ASSUME NEW k \in GrantIds \ {n}, grants'[k].status = "live"
          PROVE  /\ grants[k].status = "live" /\ grants'[k].user = grants[k].user
                 /\ k # req[r].seen
        BY <2>2, <2>3, <2>5, EndedOnlyEnds DEF Endings
    <2>6. ASSUME NEW k \in GrantIds \ {n}, grants'[k].status = "live"
          PROVE  grants'[k].user # req[r].user
        BY <1>3, <2>5, <2>6 DEF WriteGrant, Collides, Unrevoked
    <2> QED
        BY <2>4, <2>5, <2>6 DEF OneLiveGrant
<1> QED
    BY <1>1, <1>2, <1>3, GrantsStep

(* However many requests interleave, nobody has two unrevoked grants.      *)
THEOREM OneLiveGrantAlways == Spec => []OneLiveGrant
<1>1. Init => OneLiveGrant
    BY DEF Init, OneLiveGrant, AbsentRow
<1> QED
    BY <1>1, OneLiveStep, TypeCorrect, PTL DEF Spec

-----------------------------------------------------------------------------
(* One request at a time.  The cache is then always right, because what a  *)
(* request holds in memory is what the database still says: the role it    *)
(* loaded, and the row (or the absence of one) it selected.                *)

OneAtATime == \A r, s \in Requests : r = s

FlagOps == {"console_off", "console_on", "scim_on"}

MemoryFresh(r) ==
    /\ req[r].user \in Users
    /\ req[r].knew = cached[req[r].user]
    /\ Granting(r) => /\ active[req[r].user]
                      /\ req[r].expires = Never \/ req[r].expires > req[r].at
    /\ req[r].pc = "write" /\ req[r].op \notin FlagOps =>
         Unrevoked(req[r].user) = IF req[r].seen = NoGrant THEN {} ELSE {req[r].seen}
    /\ req[r].op = "console_off" => "console" \in Channels

SerialInv ==
    /\ TypeOK
    /\ OneLiveGrant
    /\ CacheAgrees
    /\ \A r \in Requests : req[r].pc # "idle" => MemoryFresh(r)

(* A person with exactly one live row has that row's role.                 *)
LEMMA SingleLiveRole ==
    ASSUME NEW table \in [GrantIds -> Row], NEW u, NEW t, NEW g \in GrantIds,
           LiveGrants(table, u, t) = {g}
    PROVE  EffectiveRole(table, u, t) = table[g].role
BY DEF EffectiveRole

(* Steps that leave the tables alone keep the invariant when the request   *)
(* they touch is idle or fresh afterwards.                                 *)
LEMMA SerialFrame ==
    ASSUME SerialInv, TypeOK', OneAtATime, NEW r \in Requests,
           UNCHANGED <<active, cached, grants>>,
           req'[r].pc = "idle" \/ MemoryFresh(r)'
    PROVE  SerialInv'
<1>1. OneLiveGrant' /\ CacheAgrees'
    BY DEF SerialInv, OneLiveGrant, CacheAgrees, Unrevoked
<1>2. \A s \in Requests : s = r
    BY DEF OneAtATime
<1> QED
    BY <1>1, <1>2 DEF SerialInv

(* Once a write has closed the only request, nothing is held in memory.    *)
LEMMA SerialClose ==
    ASSUME TypeOK, OneAtATime, NEW r \in Requests, Close(r)
    PROVE  \A s \in Requests : req'[s].pc = "idle"
BY DEF Close, Idle, TypeOK, OneAtATime

(* A fresh load, which nothing but the write of a flag follows directly.   *)
LEMMA SerialLoad ==
    ASSUME SerialInv, TypeOK', OneAtATime, NEW r \in Requests,
           NEW op \in Ops, NEW u \in Users, NEW role \in Roles, NEW expires \in Nat,
           NEW pc \in {"guard", "select", "write"},
           Load(r, op, u, role, expires, pc),
           pc = "write" => op \in FlagOps,
           op \in {"grant", "bootstrap"} => active[u] /\ (expires = Never \/ expires > now),
           op = "console_off" => "console" \in Channels
    PROVE  SerialInv'
<1>1. /\ req'[r].pc = pc /\ req'[r].op = op /\ req'[r].user = u
      /\ req'[r].expires = expires /\ req'[r].at = now /\ req'[r].knew = cached[u]
      /\ UNCHANGED <<active, cached, grants, now>>
    BY DEF Load, SerialInv, TypeOK
<1>2. MemoryFresh(r)'
    BY <1>1 DEF MemoryFresh, Granting
<1> QED
    BY <1>1, <1>2, SerialFrame

(* After revoking what it selected, the person of a fresh request has no   *)
(* unrevoked row left, and nobody else's rows have changed.                *)
LEMMA EndedLeavesNone ==
    ASSUME SerialInv, NEW r \in Requests, req[r].pc = "write", req[r].op \in Ops \ FlagOps
    PROVE  /\ Ended(r) \in [GrantIds -> Row]
           /\ \A g \in GrantIds : Ended(r)[g].user = grants[g].user
                                  /\ Ended(r)[g].role = grants[g].role
           /\ \A g \in GrantIds : Ended(r)[g].user # req[r].user => Ended(r)[g] = grants[g]
           /\ \A g \in GrantIds : Ended(r)[g].user = req[r].user => Ended(r)[g].status # "live"
<1>1. TypeOK /\ MemoryFresh(r)
    BY DEF SerialInv
<1>2. req[r].op \in {"grant", "bootstrap", "revoke", "expire", "scim_off"}
    BY DEF Ops, FlagOps
<1>3. Ended(r) \in [GrantIds -> Row]
    BY <1>1, <1>2, EndedType
<1>4. req[r].seen \in GrantIds => grants[req[r].seen].user = req[r].user
    BY <1>1, NoneAssumption DEF MemoryFresh, Unrevoked
<1>5. ASSUME NEW g \in GrantIds, Ended(r)[g].user = req[r].user, Ended(r)[g].status = "live"
      PROVE  FALSE
    <2>1. grants[g].user = req[r].user /\ grants[g].status = "live" /\ g # req[r].seen
        BY <1>1, <1>2, <1>5, EndedOnlyEnds DEF Endings
    <2> QED
        BY <1>1, <2>1 DEF MemoryFresh, Unrevoked
<1>6. \A g \in GrantIds : /\ Ended(r)[g].user = grants[g].user
                          /\ Ended(r)[g].role = grants[g].role
                          /\ g # req[r].seen => Ended(r)[g] = grants[g]
    BY <1>1, <1>2, EndedOnlyEnds
<1>7. ASSUME NEW g \in GrantIds, Ended(r)[g].user # req[r].user
      PROVE  Ended(r)[g] = grants[g]
    BY <1>4, <1>6, <1>7
<1> QED
    BY <1>3, <1>5, <1>6, <1>7

(* Ending a fresh request's grant leaves the cache right: employee.        *)
LEMMA SerialEnd ==
    ASSUME SerialInv, TypeOK', OneLiveGrant', OneAtATime, NEW r \in Requests,
           req[r].pc = "write", req[r].op \in Ops \ FlagOps,
           grants' = Ended(r), Recompute(r, Ended(r)), Close(r)
    PROVE  SerialInv'
<1> DEFINE u == req[r].user
<1>1. TypeOK /\ MemoryFresh(r) /\ CacheAgrees
    BY DEF SerialInv
<1>2. LiveGrants(Ended(r), u, req[r].at) = {}
    BY EndedLeavesNone DEF LiveGrants, IsLive
<1>3. cached' = [cached EXCEPT ![u] = "employee"]
    BY <1>1, <1>2 DEF Recompute, EffectiveRole, MemoryFresh, TypeOK
<1>4. ASSUME NEW v \in Users
      PROVE  IF Unrevoked(v)' = {} THEN cached'[v] = "employee"
             ELSE \A g \in Unrevoked(v)' : cached'[v] = grants'[g].role
    <2>1. CASE v = u
        BY <1>1, <1>3, <2>1, EndedLeavesNone DEF Unrevoked, TypeOK
    <2>2. CASE v # u
        <3>1. Unrevoked(v)' = Unrevoked(v)
            BY <2>2, EndedLeavesNone DEF Unrevoked
        <3>2. cached'[v] = cached[v]
            BY <1>1, <1>3, <2>2 DEF TypeOK
        <3> QED
            BY <1>1, <3>1, <3>2, EndedLeavesNone DEF CacheAgrees, Unrevoked
    <2> QED
        BY <2>1, <2>2
<1>5. \A s \in Requests : req'[s].pc = "idle"
    BY <1>1, SerialClose
<1> QED
    BY <1>4, <1>5 DEF SerialInv, CacheAgrees

(* Granting leaves the cache right: the role of the inserted row.          *)
LEMMA SerialGrant ==
    ASSUME SerialInv, TypeOK', OneLiveGrant', OneAtATime, NEW r \in Requests, WriteGrant(r)
    PROVE  SerialInv'
<1> DEFINE u == req[r].user
<1>1. TypeOK /\ MemoryFresh(r) /\ CacheAgrees /\ req[r].pc = "write"
    BY DEF SerialInv, WriteGrant
<1>2. req[r].op \in Ops \ FlagOps
    BY DEF WriteGrant, Granting, Ops, FlagOps
<1>3. PICK n \in GrantIds : /\ grants[n].status = "absent"
                            /\ grants' = [Ended(r) EXCEPT ![n] = NewRow(r)]
                            /\ Recompute(r, grants')
    BY DEF WriteGrant
<1>4. grants' \in [GrantIds -> Row] /\ grants'[n] = NewRow(r)
    BY <1>1, <1>2, <1>3, EndedLeavesNone DEF TypeOK
<1>5. \A g \in GrantIds \ {n} : grants'[g] = Ended(r)[g]
    BY <1>1, <1>2, <1>3, EndedLeavesNone
<1>6. n \in LiveGrants(grants', u, req[r].at)
    BY <1>1, <1>4 DEF LiveGrants, IsLive, Expired, NewRow, MemoryFresh, WriteGrant, TypeOK,
                      Request, Never
<1>7. \A g \in GrantIds \ {n} : ~(grants'[g].user = u /\ grants'[g].status = "live")
    BY <1>1, <1>2, <1>5, EndedLeavesNone
<1>8. LiveGrants(grants', u, req[r].at) = {n}
    BY <1>6, <1>7 DEF LiveGrants, IsLive
<1>9. EffectiveRole(grants', u, req[r].at) = req[r].role
    BY <1>4, <1>8, SingleLiveRole DEF NewRow
<1>10. cached' = [cached EXCEPT ![u] = req[r].role]
    BY <1>1, <1>3, <1>9 DEF Recompute, MemoryFresh, TypeOK
<1>11. ASSUME NEW v \in Users
       PROVE  IF Unrevoked(v)' = {} THEN cached'[v] = "employee"
              ELSE \A g \in Unrevoked(v)' : cached'[v] = grants'[g].role
    <2>1. CASE v = u
        <3>1. Unrevoked(v)' = {n}
            BY <1>4, <1>7, <2>1 DEF Unrevoked, NewRow
        <3> QED
            BY <1>1, <1>4, <1>10, <2>1, <3>1 DEF NewRow, TypeOK
    <2>2. CASE v # u
        <3>1. grants[n].status # "live" /\ grants'[n].user # v
            BY <1>3, <1>4, <2>2 DEF NewRow
        <3>2. \A g \in GrantIds \ {n} : Ended(r)[g].user = v => grants'[g] = grants[g]
            BY <1>1, <1>2, <1>5, <2>2, EndedLeavesNone
        <3>3. \A g \in GrantIds \ {n} : grants'[g].user = grants[g].user
            BY <1>1, <1>2, <1>5, EndedLeavesNone
        <3>4. Unrevoked(v)' = Unrevoked(v) /\ \A g \in Unrevoked(v) : grants'[g] = grants[g]
            BY <1>5, <3>1, <3>2, <3>3 DEF Unrevoked
        <3>5. cached'[v] = cached[v]
            BY <1>1, <1>10, <2>2 DEF TypeOK
        <3> QED
            BY <1>1, <3>4, <3>5 DEF CacheAgrees
    <2> QED
        BY <2>1, <2>2
<1>12. \A s \in Requests : req'[s].pc = "idle"
    BY <1>1, SerialClose DEF WriteGrant
<1> QED
    BY <1>11, <1>12 DEF SerialInv, CacheAgrees

LEMMA SerialStep ==
    ASSUME SerialInv, OneAtATime, [Next]_vars
    PROVE  SerialInv'
<1>0. TypeOK /\ TypeOK' /\ OneLiveGrant'
    BY TypeStep, OneLiveStep DEF SerialInv
<1>1. CASE UNCHANGED vars
    BY <1>0, <1>1 DEF vars, SerialInv, TypeOK, OneLiveGrant, CacheAgrees, Unrevoked,
                      MemoryFresh, Granting
<1>2. CASE Tick
    BY <1>0, <1>2 DEF Tick, SerialInv, TypeOK, OneLiveGrant, CacheAgrees, Unrevoked,
                      MemoryFresh, Granting
<1>3. ASSUME NEW r \in Requests,
             \/ BeginExpire(r) \/ BeginGrant(r) \/ BeginRevoke(r)
             \/ BeginConsoleActive(r) \/ BeginScimActive(r) \/ BeginBootstrap(r)
      PROVE  SerialInv'
    <2>0. /\ Never \in Nat /\ Times \subseteq Nat /\ GrantRoles \subseteq Roles
          /\ "employee" \in Roles /\ "admin" \in Roles
          /\ Ops = {"grant", "revoke", "console_off", "console_on",
                    "scim_off", "scim_on", "expire", "bootstrap"}
        BY RolesAssumption DEF Never, Times, Roles, Ops
    <2>1. CASE BeginGrant(r)
        <3>1. PICK u \in Users, role \in GrantRoles, expires \in {Never} \cup Times :
                  /\ active[u] /\ (expires = Never \/ expires > now)
                  /\ Load(r, "grant", u, role, expires,
                          IF role = "admin" THEN "select" ELSE "guard")
            BY <2>1 DEF BeginGrant
        <3> QED
            BY <1>0, <2>0, <3>1, SerialLoad
    <2>2. CASE BeginBootstrap(r)
        <3>1. PICK u \in Users : active[u] /\ Load(r, "bootstrap", u, "admin", Never, "select")
            BY <2>2 DEF BeginBootstrap
        <3> QED
            BY <1>0, <2>0, <3>1, SerialLoad
    <2>3. CASE BeginConsoleActive(r)
        <3>1. PICK u \in Users : \/ Load(r, "console_off", u, "employee", Never, "guard")
                                 \/ Load(r, "console_on", u, "employee", Never, "write")
            BY <2>3 DEF BeginConsoleActive
        <3> QED
            <4>1. "console" \in Channels /\ {"console_off", "console_on"} \subseteq FlagOps
                BY <2>3 DEF BeginConsoleActive, FlagOps
            <4>2. CASE Load(r, "console_off", u, "employee", Never, "guard")
                BY <1>0, <2>0, <4>1, <4>2, SerialLoad
            <4>3. CASE Load(r, "console_on", u, "employee", Never, "write")
                BY <1>0, <2>0, <4>1, <4>3, SerialLoad
            <4> QED
                BY <3>1, <4>2, <4>3
    <2>4. CASE BeginScimActive(r)
        <3>1. PICK u \in Users : \/ Load(r, "scim_off", u, "employee", Never, "select")
                                 \/ Load(r, "scim_on", u, "employee", Never, "write")
            BY <2>4 DEF BeginScimActive
        <3> QED
            <4>1. "scim_on" \in FlagOps
                BY DEF FlagOps
            <4>2. CASE Load(r, "scim_off", u, "employee", Never, "select")
                BY <1>0, <2>0, <4>2, SerialLoad
            <4>3. CASE Load(r, "scim_on", u, "employee", Never, "write")
                BY <1>0, <2>0, <4>1, <4>3, SerialLoad
            <4> QED
                BY <3>1, <4>2, <4>3
    <2>5. CASE BeginRevoke(r) \/ BeginExpire(r)
        <3>1. PICK u \in Users : \/ Load(r, "revoke", u, "employee", Never, "guard")
                                 \/ Load(r, "expire", u, "employee", Never, "select")
            BY <2>5 DEF BeginRevoke, BeginExpire
        <3>2. CASE Load(r, "revoke", u, "employee", Never, "guard")
            BY <1>0, <2>0, <3>2, SerialLoad
        <3>3. CASE Load(r, "expire", u, "employee", Never, "select")
            BY <1>0, <2>0, <3>3, SerialLoad
        <3> QED
            BY <3>1, <3>2, <3>3
    <2> QED
        BY <1>3, <2>1, <2>2, <2>3, <2>4, <2>5
<1>4. ASSUME NEW r \in Requests, RefuseLastAdmin(r) \/ Abort(r) PROVE SerialInv'
    <2>1. Close(r) /\ UNCHANGED <<active, cached, grants>>
        BY <1>4 DEF RefuseLastAdmin, Abort
    <2>2. req'[r].pc = "idle"
        BY <1>0, <2>1, SerialClose
    <2> QED
        BY <1>0, <2>1, <2>2, SerialFrame
<1>5. ASSUME NEW r \in Requests, PassGuard(r) PROVE SerialInv'
    <2>1. MemoryFresh(r) /\ UNCHANGED <<active, cached, grants>>
        BY <1>5 DEF PassGuard, SerialInv
    <2>2. \A f \in {"user", "knew", "op", "expires", "at", "seen"} : req'[r][f] = req[r][f]
        BY <1>0, <1>5 DEF PassGuard, TypeOK, Request
    <2>3. req'[r].pc = "write" => req[r].op = "console_off"
        BY <1>0, <1>5 DEF PassGuard, TypeOK, Request
    <2>4. MemoryFresh(r)'
        BY <2>1, <2>2, <2>3 DEF MemoryFresh, Granting, FlagOps, Unrevoked
    <2> QED
        BY <1>0, <2>1, <2>4, SerialFrame
<1>6. ASSUME NEW r \in Requests, Select(r) PROVE SerialInv'
    <2>1. MemoryFresh(r) /\ OneLiveGrant /\ UNCHANGED <<active, cached, grants>>
        BY <1>6 DEF Select, SerialInv
    <2>2. PICK seen \in IF Wanted(r) = {} THEN {NoGrant} ELSE Wanted(r) :
              IF NothingToDo(r, seen) THEN Close(r)
              ELSE req' = [req EXCEPT ![r].pc = "write", ![r].seen = seen]
        BY <1>6 DEF Select
    <2>3. CASE NothingToDo(r, seen)
        BY <1>0, <2>1, <2>2, <2>3, SerialClose, SerialFrame
    <2>4. CASE ~NothingToDo(r, seen)
        <3>1. /\ req'[r].user = req[r].user /\ req'[r].knew = req[r].knew
              /\ req'[r].op = req[r].op /\ req'[r].expires = req[r].expires
              /\ req'[r].at = req[r].at /\ req'[r].seen = seen
            BY <1>0, <2>2, <2>4 DEF TypeOK, Request
        <3>2. Unrevoked(req[r].user) = IF seen = NoGrant THEN {} ELSE {seen}
            BY <2>1, <2>2, <2>4, NoneAssumption
               DEF NothingToDo, Wanted, Unrevoked, OneLiveGrant
        <3>3. MemoryFresh(r)'
            BY <2>1, <3>1, <3>2 DEF MemoryFresh, Granting, Unrevoked
        <3> QED
            BY <1>0, <2>1, <3>3, SerialFrame
    <2> QED
        BY <2>3, <2>4
<1>7. ASSUME NEW r \in Requests, WriteGrant(r) PROVE SerialInv'
    BY <1>0, <1>7, SerialGrant
<1>8. ASSUME NEW r \in Requests, WriteEnd(r) \/ WriteScimOff(r) PROVE SerialInv'
    <2>1. /\ req[r].pc = "write" /\ req[r].op \in Ops \ FlagOps
          /\ grants' = Ended(r) /\ Recompute(r, Ended(r)) /\ Close(r)
        BY <1>8 DEF WriteEnd, WriteScimOff, Ops, FlagOps
    <2> QED
        BY <1>0, <2>1, SerialEnd
<1>9. ASSUME NEW r \in Requests, WriteActive(r) PROVE SerialInv'
    <2>1. \A s \in Requests : req'[s].pc = "idle"
        BY <1>0, <1>9, SerialClose DEF WriteActive
    <2> QED
        BY <1>0, <1>9, <2>1 DEF WriteActive, SerialInv, CacheAgrees, Unrevoked
<1> QED
    BY <1>1, <1>2, <1>3, <1>4, <1>5, <1>6, <1>7, <1>8, <1>9 DEF Next

(* With requests one at a time the cached role is always the role of the   *)
(* unrevoked grant: what access/roles.py promises of the cache.  With two  *)
(* it is not: the assumption is needed.                                    *)
THEOREM CacheAgreesSerially ==
    ASSUME OneAtATime
    PROVE  Spec => []CacheAgrees
<1>1. Init => SerialInv
    <2> SUFFICES ASSUME Init PROVE SerialInv
        OBVIOUS
    <2>1. OneLiveGrant /\ CacheAgrees
        BY DEF Init, OneLiveGrant, CacheAgrees, Unrevoked, AbsentRow
    <2> QED
        BY <2>1, TypeInit DEF Init, SerialInv, Idle
<1>2. SerialInv /\ [Next]_vars => SerialInv'
    BY SerialStep
<1>3. SerialInv => CacheAgrees
    BY DEF SerialInv
<1> QED
    BY <1>1, <1>2, <1>3, PTL DEF Spec

LEMMA LeaverStep ==
    ASSUME SerialInv, SerialInv', LeaverHoldsNoRole, "console" \notin Channels, [Next]_vars
    PROVE  LeaverHoldsNoRole'
<1> SUFFICES ASSUME NEW u \in Users, ~active'[u] PROVE Unrevoked(u)' = {}
    BY DEF LeaverHoldsNoRole, SerialInv, CacheAgrees
<1>0. TypeOK
    BY DEF SerialInv
<1>1. CASE UNCHANGED <<active, grants>>
    BY <1>1 DEF LeaverHoldsNoRole, Unrevoked
<1>2. ASSUME NEW r \in Requests, WriteGrant(r) PROVE Unrevoked(u)' = {}
    <2>1. req[r].user # u /\ ~active[u] /\ req[r].op \in Ops \ FlagOps /\ req[r].pc = "write"
        BY <1>2 DEF WriteGrant, SerialInv, MemoryFresh, Granting, Ops, FlagOps
    <2>2. PICK n \in GrantIds : grants' = [Ended(r) EXCEPT ![n] = NewRow(r)]
        BY <1>2 DEF WriteGrant
    <2>3. grants'[n].user # u /\ \A g \in GrantIds \ {n} : grants'[g] = Ended(r)[g]
        BY <2>1, <2>2, EndedLeavesNone DEF NewRow
    <2>4. \A g \in GrantIds : Ended(r)[g].user = u => Ended(r)[g] = grants[g]
        BY <2>1, EndedLeavesNone
    <2> QED
        BY <2>1, <2>3, <2>4 DEF LeaverHoldsNoRole, Unrevoked
<1>3. ASSUME NEW r \in Requests, WriteEnd(r) \/ WriteScimOff(r) PROVE Unrevoked(u)' = {}
    <2>1. /\ req[r].op \in Ops \ FlagOps /\ req[r].pc = "write" /\ grants' = Ended(r)
          /\ u # req[r].user => ~active[u]
        BY <1>0, <1>3 DEF WriteEnd, WriteScimOff, Ops, FlagOps, TypeOK
    <2>2. CASE u = req[r].user
        BY <2>1, <2>2, EndedLeavesNone DEF Unrevoked
    <2>3. CASE u # req[r].user
        <3>1. \A g \in GrantIds : grants'[g].user = u => grants'[g] = grants[g]
            BY <2>1, <2>3, EndedLeavesNone
        <3> QED
            BY <2>1, <2>3, <3>1 DEF LeaverHoldsNoRole, Unrevoked
    <2> QED
        BY <2>2, <2>3
<1>4. ASSUME NEW r \in Requests, WriteActive(r) PROVE Unrevoked(u)' = {}
    <2>1. req[r].op # "console_off" /\ UNCHANGED grants
        BY <1>4 DEF WriteActive, SerialInv, MemoryFresh
    <2>2. ~active[u]
        BY <1>0, <1>4, <2>1 DEF WriteActive, TypeOK
    <2> QED
        BY <2>1, <2>2 DEF LeaverHoldsNoRole, Unrevoked
<1> QED
    BY <1>1, <1>2, <1>3, <1>4 DEF Next, vars, Tick, BeginExpire, BeginGrant, BeginRevoke,
        BeginConsoleActive, BeginScimActive, BeginBootstrap, Load, RefuseLastAdmin,
        PassGuard, Select, Abort

(* With requests one at a time and nobody switched off from the console,   *)
(* somebody who has left holds no role: the leaver flow of                 *)
(* access/lifecycle.py.  Both assumptions are needed: update_user does not *)
(* cut the access of the people it switches off.                           *)
THEOREM LeaversHoldNoRoleSerially ==
    ASSUME OneAtATime, "console" \notin Channels
    PROVE  Spec => []LeaverHoldsNoRole
<1>1. Init => SerialInv /\ LeaverHoldsNoRole
    <2> SUFFICES ASSUME Init PROVE SerialInv /\ LeaverHoldsNoRole
        OBVIOUS
    <2>1. OneLiveGrant /\ CacheAgrees /\ LeaverHoldsNoRole
        BY DEF Init, OneLiveGrant, CacheAgrees, LeaverHoldsNoRole, Unrevoked, AbsentRow
    <2> QED
        BY <2>1, TypeInit DEF Init, SerialInv, Idle
<1>2. SerialInv /\ LeaverHoldsNoRole /\ [Next]_vars => SerialInv' /\ LeaverHoldsNoRole'
    BY SerialStep, LeaverStep
<1> QED
    BY <1>1, <1>2, PTL DEF Spec

-----------------------------------------------------------------------------
(* What holds however requests interleave: rows not inserted yet are       *)
(* nobody's, a request that grants asks for something that is not over     *)
(* already, and cached roles were granted.                                 *)

Unborn == \A g \in GrantIds : grants[g].status = "absent" => grants[g].user = NoUser

Ahead(r) ==
    req[r].pc # "idle" /\ Granting(r) =>
        req[r].expires = Never \/ req[r].expires > req[r].at

GrantInv == TypeOK /\ Unborn /\ CachedRoleWasGranted /\ \A r \in Requests : Ahead(r)

(* The rows keep whose they are and which role they give, once inserted.   *)
LEMMA RowsKeep ==
    ASSUME TypeOK, Unborn, [Next]_vars, NEW g \in GrantIds
    PROVE  /\ grants[g].user # NoUser => /\ grants'[g].user = grants[g].user
                                         /\ grants'[g].role = grants[g].role
           /\ grants'[g].status = "absent" => grants'[g].user = NoUser
<1>1. CASE UNCHANGED grants
    BY <1>1 DEF Unborn
<1>2. ASSUME NEW r \in Requests, WriteEnd(r) \/ WriteScimOff(r), grants' = Ended(r)
      PROVE  /\ grants'[g].user = grants[g].user /\ grants'[g].role = grants[g].role
             /\ grants'[g].status = "absent" => grants'[g].user = NoUser
    BY <1>2, EndedOnlyEnds DEF WriteEnd, WriteScimOff, Unborn, Endings
<1>3. ASSUME NEW r \in Requests, WriteGrant(r)
      PROVE  /\ grants[g].user # NoUser => /\ grants'[g].user = grants[g].user
                                           /\ grants'[g].role = grants[g].role
             /\ grants'[g].status = "absent" => grants'[g].user = NoUser
    <2>1. PICK n \in GrantIds : /\ grants[n].status = "absent"
                                /\ grants' = [Ended(r) EXCEPT ![n] = NewRow(r)]
        BY <1>3 DEF WriteGrant
    <2>2. req[r].op \in {"grant", "bootstrap"} /\ Ended(r) \in [GrantIds -> Row]
        BY <1>3, EndedType DEF WriteGrant, Granting
    <2>3. CASE g = n
        BY <2>1, <2>2, <2>3 DEF Unborn, NewRow
    <2>4. CASE g # n
        <3>1. grants'[g] = Ended(r)[g]
            BY <2>1, <2>2, <2>4
        <3> QED
            BY <2>2, <3>1, EndedOnlyEnds DEF Unborn, Endings
    <2> QED
        BY <2>3, <2>4
<1> QED
    BY <1>1, <1>2, <1>3, GrantsStep

(* The role worked out for somebody is employee or that of a row of theirs.*)
LEMMA EffectiveRoleOfARow ==
    ASSUME NEW table \in [GrantIds -> Row], NEW u, NEW t,
           EffectiveRole(table, u, t) # "employee"
    PROVE  \E g \in GrantIds : table[g].user = u /\ table[g].role = EffectiveRole(table, u, t)
<1> DEFINE g == CHOOSE x \in LiveGrants(table, u, t) : TRUE
<1>1. LiveGrants(table, u, t) # {}
    BY DEF EffectiveRole
<1>2. g \in LiveGrants(table, u, t)
    BY <1>1
<1>3. g \in GrantIds /\ table[g].user = u /\ EffectiveRole(table, u, t) = table[g].role
    BY <1>1, <1>2 DEF LiveGrants, EffectiveRole
<1> HIDE DEF g
<1> QED
    BY <1>3

(* Working a role out of the new table gives nobody a role they have no    *)
(* row for.                                                                *)
LEMMA RecomputeFromRows ==
    ASSUME TypeOK, NEW r \in Requests, NEW u \in Users, grants' \in [GrantIds -> Row],
           Recompute(r, grants'), cached'[u] # cached[u], cached'[u] # "employee"
    PROVE  \E g \in GrantIds : grants'[g].user = u /\ grants'[g].role = cached'[u]
<1>1. u = req[r].user /\ cached'[u] = EffectiveRole(grants', req[r].user, req[r].at)
    BY DEF Recompute, TypeOK
<1> QED
    BY <1>1, EffectiveRoleOfARow

LEMMA OnlyWritesRecompute ==
    ASSUME [Next]_vars
    PROVE  \/ UNCHANGED cached
           \/ \E r \in Requests : WriteGrant(r) \/ WriteEnd(r) \/ WriteScimOff(r)
BY DEF Next, vars, Tick, BeginExpire, BeginGrant, BeginRevoke, BeginConsoleActive,
       BeginScimActive, BeginBootstrap, Load, RefuseLastAdmin, PassGuard, Select,
       WriteActive, Abort

LEMMA CachedStep ==
    ASSUME GrantInv, TypeOK', [Next]_vars
    PROVE  CachedRoleWasGranted'
<1> SUFFICES ASSUME NEW u \in Users, cached'[u] # "employee"
             PROVE  \E g \in GrantIds : grants'[g].user = u /\ grants'[g].role = cached'[u]
    BY DEF CachedRoleWasGranted
<1>1. CASE cached'[u] = cached[u]
    <2>1. PICK g \in GrantIds : grants[g].user = u /\ grants[g].role = cached[u]
        BY <1>1 DEF GrantInv, CachedRoleWasGranted
    <2>2. grants[g].user # NoUser
        BY <2>1, NoneAssumption
    <2> QED
        BY <1>1, <2>1, <2>2, RowsKeep DEF GrantInv
<1>2. CASE cached'[u] # cached[u]
    <2>1. PICK r \in Requests : WriteGrant(r) \/ WriteEnd(r) \/ WriteScimOff(r)
        BY <1>2, OnlyWritesRecompute
    <2>2. Recompute(r, grants')
        BY <2>1 DEF WriteGrant, WriteEnd, WriteScimOff
    <2> QED
        BY <1>2, <2>2, RecomputeFromRows DEF GrantInv, TypeOK
<1> QED
    BY <1>1, <1>2

LEMMA AheadStep ==
    ASSUME GrantInv, TypeOK', [Next]_vars, NEW r \in Requests
    PROVE  Ahead(r)'
<1>0. TypeOK /\ Ahead(r) /\ "grant" # "bootstrap"
    BY DEF GrantInv
<1>1. CASE UNCHANGED req[r]
    BY <1>0, <1>1 DEF Ahead, Granting
<1>2. ASSUME NEW s \in Requests, Close(s) PROVE Ahead(r)'
    BY <1>0, <1>2 DEF Close, Idle, TypeOK, Ahead, Granting
<1>3. ASSUME NEW s \in Requests, NEW op \in Ops, NEW u \in Users, NEW role, NEW expires, NEW pc,
             Load(s, op, u, role, expires, pc),
             op \in {"grant", "bootstrap"} => expires = Never \/ expires > now
      PROVE  Ahead(r)'
    <2>1. req'[s].op = op /\ req'[s].expires = expires /\ req'[s].at = now
        BY <1>0, <1>3 DEF Load, TypeOK
    <2>2. r # s => req'[r] = req[r]
        BY <1>0, <1>3 DEF Load, TypeOK
    <2> QED
        BY <1>1, <1>3, <2>1, <2>2 DEF Ahead, Granting
<1>4. ASSUME NEW s \in Requests, PassGuard(s) PROVE Ahead(r)'
    <2>1. /\ req'[r].op = req[r].op /\ req'[r].expires = req[r].expires
          /\ req'[r].at = req[r].at /\ (req'[r].pc # "idle" => req[r].pc # "idle")
        BY <1>0, <1>4 DEF PassGuard, TypeOK, Request
    <2> QED
        BY <1>0, <2>1 DEF Ahead, Granting
<1>5. ASSUME NEW s \in Requests, Select(s) PROVE Ahead(r)'
    <2>1. PICK seen : \/ Close(s)
                      \/ req' = [req EXCEPT ![s].pc = "write", ![s].seen = seen]
        BY <1>5 DEF Select
    <2>2. CASE req' = [req EXCEPT ![s].pc = "write", ![s].seen = seen]
        <3>1. /\ req'[r].op = req[r].op /\ req'[r].expires = req[r].expires
              /\ req'[r].at = req[r].at /\ (req'[r].pc # "idle" => req[r].pc # "idle")
            BY <1>0, <1>5, <2>2 DEF Select, TypeOK, Request
        <3> QED
            BY <1>0, <3>1 DEF Ahead, Granting
    <2> QED
        BY <1>2, <2>1, <2>2
<1>6. ASSUME NEW s \in Requests,
             \/ BeginExpire(s) \/ BeginGrant(s) \/ BeginRevoke(s)
             \/ BeginConsoleActive(s) \/ BeginScimActive(s) \/ BeginBootstrap(s)
      PROVE  Ahead(r)'
    <2>1. \E op \in Ops, u \in Users : \E role, expires, pc :
              /\ Load(s, op, u, role, expires, pc)
              /\ op \in {"grant", "bootstrap"} => expires = Never \/ expires > now
        <3>1. CASE BeginGrant(s)
            BY <3>1 DEF BeginGrant, Ops
        <3>2. CASE BeginBootstrap(s)
            BY <3>2 DEF BeginBootstrap, Ops
        <3>3. CASE BeginConsoleActive(s)
            BY <3>3 DEF BeginConsoleActive, Ops
        <3>4. CASE BeginScimActive(s)
            BY <3>4 DEF BeginScimActive, Ops
        <3>5. CASE BeginExpire(s) \/ BeginRevoke(s)
            BY <3>5 DEF BeginExpire, BeginRevoke, Ops
        <3> QED
            BY <1>6, <3>1, <3>2, <3>3, <3>4, <3>5
    <2> QED
        BY <1>3, <2>1
<1> QED
    BY <1>1, <1>2, <1>4, <1>5, <1>6
    DEF Next, vars, Tick, RefuseLastAdmin, WriteGrant, WriteEnd, WriteScimOff, WriteActive, Abort

LEMMA GrantInvStep == GrantInv /\ [Next]_vars => GrantInv'
<1> SUFFICES ASSUME GrantInv, [Next]_vars PROVE GrantInv'
    OBVIOUS
<1>1. TypeOK'
    BY TypeStep DEF GrantInv
<1>2. Unborn'
    BY RowsKeep DEF GrantInv, Unborn
<1> QED
    BY <1>1, <1>2, CachedStep, AheadStep DEF GrantInv

LEMMA GrantInvInit == Init => GrantInv
<1> SUFFICES ASSUME Init PROVE GrantInv
    OBVIOUS
<1>1. Unborn /\ CachedRoleWasGranted
    BY DEF Init, Unborn, CachedRoleWasGranted, AbsentRow
<1>2. \A r \in Requests : Ahead(r)
    BY DEF Init, Ahead, Idle
<1> QED
    BY <1>1, <1>2, TypeInit DEF GrantInv

(* What one write of a grant leaves: the row it asked for, and no other    *)
(* that counts.                                                            *)
LEMMA GrantLeavesOne ==
    ASSUME GrantInv, NEW r \in Requests, WriteGrant(r)
    PROVE  \E n \in GrantIds :
              /\ grants'[n].role = req[r].role /\ grants'[n].expires = req[r].expires
              /\ \A t : t = req[r].at => LiveGrants(grants', req[r].user, t) = {n}
<1>1. PICK n \in GrantIds : /\ grants[n].status = "absent"
                            /\ grants' = [Ended(r) EXCEPT ![n] = NewRow(r)]
    BY DEF WriteGrant
<1>2. req[r].op \in {"grant", "bootstrap"} /\ Ended(r) \in [GrantIds -> Row] /\ TypeOK
    BY EndedType DEF WriteGrant, Granting, GrantInv
<1>3. grants'[n] = NewRow(r) /\ \A k \in GrantIds \ {n} : grants'[k] = Ended(r)[k]
    BY <1>1, <1>2
<1>4. n \in LiveGrants(grants', req[r].user, req[r].at)
    BY <1>2, <1>3 DEF LiveGrants, IsLive, Expired, NewRow, GrantInv, Ahead, WriteGrant, TypeOK,
                      Request, Never
<1>5. ASSUME NEW k \in GrantIds \ {n}, grants'[k].user = req[r].user
      PROVE  grants'[k].status # "live"
    <2>1. grants[k].user = req[r].user /\ (k # req[r].seen => grants'[k].status = grants[k].status)
          /\ (k = req[r].seen => grants'[k].status \in Endings)
        BY <1>2, <1>3, <1>5, EndedOnlyEnds
    <2> QED
        BY <2>1 DEF WriteGrant, Collides, Unrevoked, Endings
<1>6. LiveGrants(grants', req[r].user, req[r].at) = {n}
    BY <1>4, <1>5 DEF LiveGrants, IsLive
<1> QED
    BY <1>3, <1>6 DEF NewRow

(* However requests interleave, a grant that is answered is the person's   *)
(* one live grant, and nobody's cached role is one they were never given.  *)
THEOREM RolesComeFromGrantsAlways == Spec => RolesComeFromGrants
<1> DEFINE Step ==
        \A r \in Requests : WriteGrant(r) =>
          \A t \in Times : t = req[r].at =>
            {<<grants'[g].role, grants'[g].expires>> : g \in {h \in GrantIds :
                grants'[h].user = req[r].user /\ IsLive(grants'[h], t)}}
              = {<<req[r].role, req[r].expires>>}
<1>1. GrantInv => Step
    <2> SUFFICES ASSUME GrantInv, NEW r \in Requests, WriteGrant(r), NEW t \in Times,
                        t = req[r].at
                 PROVE  {<<grants'[g].role, grants'[g].expires>> : g \in {h \in GrantIds :
                            grants'[h].user = req[r].user /\ IsLive(grants'[h], t)}}
                          = {<<req[r].role, req[r].expires>>}
        OBVIOUS
    <2>1. PICK n \in GrantIds :
              /\ grants'[n].role = req[r].role /\ grants'[n].expires = req[r].expires
              /\ LiveGrants(grants', req[r].user, t) = {n}
        BY GrantLeavesOne
    <2>2. {h \in GrantIds : grants'[h].user = req[r].user /\ IsLive(grants'[h], t)} = {n}
        BY <2>1 DEF LiveGrants
    <2> QED
        BY <2>1, <2>2
<1>2. GrantInv => CachedRoleWasGranted
    BY DEF GrantInv
<1> QED
    BY <1>1, <1>2, GrantInvInit, GrantInvStep, PTL
    DEF Spec, RolesComeFromGrants, GrantTakesEffect

-----------------------------------------------------------------------------
(* One request at a time: what was taken away, and the last admin.         *)

Sifted(r) == \/ req[r].op \in {"revoke", "console_off"}
             \/ req[r].op = "grant" /\ req[r].role # "admin"

(* A request past the check has passed it, and an expiry that writes has   *)
(* found a grant whose time is over.                                       *)
Checked(r) ==
    /\ req[r].pc \in {"select", "write"} /\ Sifted(r) => ~WouldRefuse(r)
    /\ req[r].op = "bootstrap" => req[r].role = "admin"
    /\ req[r].pc = "write" /\ req[r].op = "expire" =>
         req[r].seen \in GrantIds /\ Expired(grants[req[r].seen], req[r].at)

CheckedInv ==
    /\ SerialInv
    /\ Unborn
    /\ \A r \in Requests : req[r].pc # "idle" => Checked(r)

(* Steps that leave the tables alone.                                      *)
LEMMA CheckedLoad ==
    ASSUME TypeOK, NEW r \in Requests, NEW op \in Ops, NEW u \in Users, NEW role \in Roles,
           NEW expires \in Nat, NEW pc \in {"guard", "select", "write"},
           Load(r, op, u, role, expires, pc),
           pc # "guard" => /\ op \notin {"revoke", "console_off"}
                           /\ op = "grant" => role = "admin",
           op = "bootstrap" => role = "admin",
           pc = "write" => op # "expire"
    PROVE  Checked(r)'
<1>1. req'[r].pc = pc /\ req'[r].op = op /\ req'[r].role = role
    BY DEF Load, TypeOK
<1> QED
    BY <1>1 DEF Checked, Sifted

LEMMA CheckedBegin ==
    ASSUME TypeOK, NEW r \in Requests,
           \/ BeginExpire(r) \/ BeginGrant(r) \/ BeginRevoke(r)
           \/ BeginConsoleActive(r) \/ BeginScimActive(r) \/ BeginBootstrap(r)
    PROVE  Checked(r)'
<1>0. /\ Never \in Nat /\ Times \subseteq Nat /\ GrantRoles \subseteq Roles
      /\ "employee" \in Roles /\ "admin" \in Roles
      /\ Ops = {"grant", "revoke", "console_off", "console_on",
                "scim_off", "scim_on", "expire", "bootstrap"}
    BY RolesAssumption DEF Never, Times, Roles, Ops
<1>1. CASE BeginGrant(r)
    <2>1. PICK u \in Users, role \in GrantRoles, expires \in {Never} \cup Times :
              Load(r, "grant", u, role, expires, IF role = "admin" THEN "select" ELSE "guard")
        BY <1>1 DEF BeginGrant
    <2>2. CASE role = "admin"
        BY <1>0, <2>1, <2>2, CheckedLoad
    <2>3. CASE role # "admin"
        BY <1>0, <2>1, <2>3, CheckedLoad
    <2> QED
        BY <2>2, <2>3
<1>2. CASE BeginBootstrap(r)
    <2>1. PICK u \in Users : Load(r, "bootstrap", u, "admin", Never, "select")
        BY <1>2 DEF BeginBootstrap
    <2> QED
        BY <1>0, <2>1, CheckedLoad
<1>3. CASE BeginConsoleActive(r)
    <2>1. PICK u \in Users : \/ Load(r, "console_off", u, "employee", Never, "guard")
                             \/ Load(r, "console_on", u, "employee", Never, "write")
        BY <1>3 DEF BeginConsoleActive
    <2>2. CASE Load(r, "console_off", u, "employee", Never, "guard")
        BY <1>0, <2>2, CheckedLoad
    <2>3. CASE Load(r, "console_on", u, "employee", Never, "write")
        BY <1>0, <2>3, CheckedLoad
    <2> QED
        BY <2>1, <2>2, <2>3
<1>4. CASE BeginScimActive(r)
    <2>1. PICK u \in Users : \/ Load(r, "scim_off", u, "employee", Never, "select")
                             \/ Load(r, "scim_on", u, "employee", Never, "write")
        BY <1>4 DEF BeginScimActive
    <2>2. CASE Load(r, "scim_off", u, "employee", Never, "select")
        BY <1>0, <2>2, CheckedLoad
    <2>3. CASE Load(r, "scim_on", u, "employee", Never, "write")
        BY <1>0, <2>3, CheckedLoad
    <2> QED
        BY <2>1, <2>2, <2>3
<1>5. CASE BeginRevoke(r)
    <2>1. PICK u \in Users : Load(r, "revoke", u, "employee", Never, "guard")
        BY <1>5 DEF BeginRevoke
    <2> QED
        BY <1>0, <2>1, CheckedLoad
<1>6. CASE BeginExpire(r)
    <2>1. PICK u \in Users : Load(r, "expire", u, "employee", Never, "select")
        BY <1>6 DEF BeginExpire
    <2> QED
        BY <1>0, <2>1, CheckedLoad
<1> QED
    BY <1>1, <1>2, <1>3, <1>4, <1>5, <1>6

LEMMA RefuseFrame ==
    ASSUME NEW r \in Requests, UNCHANGED <<active, grants>>,
           req'[r].user = req[r].user, req'[r].at = req[r].at
    PROVE  WouldRefuse(r)' = WouldRefuse(r)
<1>1. LiveAdmins(req[r].at)' = LiveAdmins(req[r].at)
    BY DEF LiveAdmins
<1> QED
    BY <1>1 DEF WouldRefuse, HoldsAdmin

LEMMA CheckedStep ==
    ASSUME CheckedInv, OneAtATime, [Next]_vars
    PROVE  CheckedInv'
<1>0. TypeOK /\ TypeOK' /\ SerialInv'
    BY TypeStep, SerialStep DEF CheckedInv, SerialInv
<1>1. Unborn'
    BY <1>0, RowsKeep DEF CheckedInv, Unborn
<1> SUFFICES ASSUME NEW r \in Requests, req'[r].pc # "idle" PROVE Checked(r)'
    BY <1>0, <1>1 DEF CheckedInv
<1>2. \A s \in Requests : s = r
    BY DEF OneAtATime
<1>3. CASE UNCHANGED <<req, active, grants>>
    BY <1>3, RefuseFrame DEF CheckedInv, Checked, Sifted
<1>4. CASE \/ BeginExpire(r) \/ BeginGrant(r) \/ BeginRevoke(r)
           \/ BeginConsoleActive(r) \/ BeginScimActive(r) \/ BeginBootstrap(r)
    BY <1>0, <1>4, CheckedBegin
<1>5. ~Close(r)
    BY <1>0, SerialClose
<1>6. CASE PassGuard(r)
    <2>1. /\ req'[r].user = req[r].user /\ req'[r].at = req[r].at /\ req'[r].op = req[r].op
          /\ req'[r].role = req[r].role /\ UNCHANGED <<active, grants>>
          /\ ~WouldRefuse(r) /\ Checked(r)
          /\ req'[r].pc = "write" => req[r].op = "console_off"
        BY <1>0, <1>6 DEF PassGuard, TypeOK, Request, CheckedInv
    <2> QED
        BY <2>1, RefuseFrame DEF Checked, Sifted
<1>7. CASE Select(r)
    <2>1. PICK seen \in IF Wanted(r) = {} THEN {NoGrant} ELSE Wanted(r) :
              /\ ~NothingToDo(r, seen)
              /\ req' = [req EXCEPT ![r].pc = "write", ![r].seen = seen]
        BY <1>5, <1>7 DEF Select
    <2>2. /\ req'[r].user = req[r].user /\ req'[r].at = req[r].at /\ req'[r].op = req[r].op
          /\ req'[r].role = req[r].role /\ req'[r].seen = seen
          /\ UNCHANGED <<active, grants>> /\ Checked(r) /\ req[r].pc = "select"
        BY <1>0, <1>7, <2>1 DEF Select, TypeOK, Request, CheckedInv
    <2>3. req[r].op = "expire" => seen \in GrantIds /\ Expired(grants[seen], req[r].at)
        BY <2>1 DEF NothingToDo, Wanted, Unrevoked
    <2>4. WouldRefuse(r)' = WouldRefuse(r)
        BY <2>2, RefuseFrame
    <2>5. Sifted(r)' = Sifted(r)
        BY <2>2 DEF Sifted
    <2>6. Expired(grants[req[r].seen], req[r].at)' = Expired(grants[seen], req[r].at)
        BY <2>2 DEF Expired
    <2> QED
        BY <2>2, <2>3, <2>4, <2>5, <2>6 DEF Checked
<1> QED
    BY <1>2, <1>3, <1>4, <1>5, <1>6, <1>7
    DEF Next, vars, Tick, RefuseLastAdmin, WriteGrant, WriteEnd, WriteScimOff, WriteActive, Abort

LEMMA CheckedInit == Init => CheckedInv
<1> SUFFICES ASSUME Init PROVE CheckedInv
    OBVIOUS
<1>1. OneLiveGrant /\ CacheAgrees /\ Unborn
    BY DEF Init, OneLiveGrant, CacheAgrees, Unrevoked, AbsentRow, Unborn
<1>2. \A r \in Requests : req[r].pc = "idle"
    BY DEF Init, Idle
<1> QED
    BY <1>1, <1>2, TypeInit DEF SerialInv, CheckedInv

(* Only the person's own unrevoked row is ended, so no ending is rewritten.*)
LEMMA EndingStep ==
    ASSUME CheckedInv, [Next]_vars, NEW g \in GrantIds, grants[g].status \in Endings
    PROVE  grants'[g].status = grants[g].status
<1>0. TypeOK /\ grants[g].status # "live" /\ grants[g].status # "absent"
    BY DEF CheckedInv, SerialInv, Endings
<1>1. ASSUME NEW r \in Requests, req[r].pc = "write", req[r].op \in Ops \ FlagOps
      PROVE  Ended(r)[g] = grants[g]
    <2>1. g # req[r].seen
        BY <1>0, <1>1, NoneAssumption DEF CheckedInv, SerialInv, MemoryFresh, Unrevoked
    <2> QED
        BY <1>0, <1>1, <2>1, EndedOnlyEnds DEF Ops, FlagOps
<1>2. ASSUME NEW r \in Requests, WriteEnd(r) \/ WriteScimOff(r), grants' = Ended(r)
      PROVE  grants'[g].status = grants[g].status
    BY <1>1, <1>2 DEF WriteEnd, WriteScimOff, Ops, FlagOps
<1>3. ASSUME NEW r \in Requests, WriteGrant(r) PROVE grants'[g].status = grants[g].status
    <2>1. PICK n \in GrantIds : /\ grants[n].status = "absent"
                                /\ grants' = [Ended(r) EXCEPT ![n] = NewRow(r)]
        BY <1>3 DEF WriteGrant
    <2>2. req[r].pc = "write" /\ req[r].op \in Ops \ FlagOps
        BY <1>3 DEF WriteGrant, Granting, Ops, FlagOps
    <2>3. Ended(r) \in [GrantIds -> Row] /\ n # g
        BY <1>0, <2>1, <2>2, EndedLeavesNone DEF CheckedInv
    <2> QED
        BY <1>1, <2>1, <2>2, <2>3
<1> QED
    BY <1>0, <1>2, <1>3, GrantsStep

(* With requests one at a time, a revocation that is answered leaves the   *)
(* person without a live grant, and how a grant ended is decided once.     *)
THEOREM RevocationsHoldSerially ==
    ASSUME OneAtATime
    PROVE  Spec => RevocationsHold
<1> DEFINE Taken ==
        \A r \in Requests : WriteEnd(r) /\ req[r].op = "revoke" =>
          \A t \in Times, u \in Users : t = req[r].at /\ u = req[r].user =>
             LiveGrants(grants, u, t)' = {}
<1> DEFINE Final ==
        \A g \in GrantIds : grants[g].status \in Endings =>
          grants'[g].status = grants[g].status
<1>1. CheckedInv => Taken
    <2> SUFFICES ASSUME CheckedInv, NEW r \in Requests, WriteEnd(r), req[r].op = "revoke",
                        NEW t \in Times, NEW u \in Users, u = req[r].user
                 PROVE  LiveGrants(grants', u, t) = {}
        BY DEF LiveGrants
    <2> QED
        BY EndedLeavesNone DEF WriteEnd, LiveGrants, IsLive, CheckedInv, Ops, FlagOps
<1>2. CheckedInv /\ [Next]_vars => Final
    BY EndingStep
<1>3. CheckedInv /\ [Next]_vars => CheckedInv'
    BY CheckedStep
<1> HIDE DEF Final
<1> QED
    BY <1>1, <1>2, <1>3, CheckedInit, PTL
    DEF Spec, RevocationsHold, RevokeTakesEffect, EndingFinal, Final

(* More than one admin: somebody other than the person asked about.        *)
LEMMA AnotherAdmin ==
    ASSUME NEW r \in Requests, ~WouldRefuse(r), LiveAdmins(req[r].at) # {}
    PROVE  \E v \in LiveAdmins(req[r].at) : v # req[r].user
<1> DEFINE S == LiveAdmins(req[r].at)
<1>1. SUFFICES ASSUME S \subseteq {req[r].user} PROVE FALSE
    OBVIOUS
<1>2. S = {req[r].user}
    BY <1>1
<1>3. HoldsAdmin(req[r].user, req[r].at)
    BY <1>2 DEF LiveAdmins, HoldsAdmin
<1>4. Cardinality(S) = 1
    BY <1>2, FS_Singleton
<1> QED
    BY <1>3, <1>4 DEF WouldRefuse

(* An admin whose flag and rows a step leaves alone stays one.             *)
LEMMA StaysAdmin ==
    ASSUME NEW t, NEW v \in LiveAdmins(t), active'[v],
           \A g \in GrantIds : grants[g].user = v /\ IsLive(grants[g], t) => grants'[g] = grants[g]
    PROVE  v \in LiveAdmins(t)'
BY DEF LiveAdmins, LiveGrants

LEMMA LastAdminStep ==
    ASSUME CheckedInv, NEW r \in Requests, WriteGrant(r) \/ WriteEnd(r) \/ WriteActive(r),
           NEW t \in Times, t = req[r].at, LiveAdmins(t) # {}
    PROVE  \E v \in Users : v \in LiveAdmins(t)'
<1> DEFINE u == req[r].user
<1>0. TypeOK /\ Checked(r) /\ MemoryFresh(r) /\ req[r].pc = "write" /\ u \in Users /\ t \in Nat
    BY DEF CheckedInv, SerialInv, WriteGrant, WriteEnd, WriteActive, MemoryFresh, TypeOK, Request
<1>1. LiveAdmins(t) \subseteq Users
    BY DEF LiveAdmins
<1>2. CASE WriteGrant(r)
    <2>1. PICK n \in GrantIds : /\ grants[n].status = "absent"
                                /\ grants' = [Ended(r) EXCEPT ![n] = NewRow(r)]
        BY <1>2 DEF WriteGrant
    <2>2. req[r].op \in Ops \ FlagOps /\ active' = active
        BY <1>2 DEF WriteGrant, Granting, Ops, FlagOps
    <2>3. Ended(r) \in [GrantIds -> Row]
          /\ \A g \in GrantIds : Ended(r)[g].user # u => Ended(r)[g] = grants[g]
        BY <1>0, <2>2, EndedLeavesNone DEF CheckedInv
    <2>4. grants'[n] = NewRow(r) /\ \A g \in GrantIds \ {n} : grants'[g] = Ended(r)[g]
        BY <2>1, <2>3
    <2>5. CASE req[r].role = "admin"
        <3>1. n \in LiveGrants(grants', u, t) /\ grants'[n].role = "admin"
            BY <1>0, <1>2, <2>4, <2>5 DEF LiveGrants, IsLive, Expired, NewRow, MemoryFresh,
                WriteGrant, TypeOK, Request, Never
        <3>2. active'[u]
            BY <1>0, <1>2, <2>2 DEF MemoryFresh, WriteGrant
        <3> QED
            BY <1>0, <3>1, <3>2 DEF LiveAdmins
    <2>6. CASE req[r].role # "admin"
        <3>1. ~WouldRefuse(r)
            BY <1>0, <1>2, <2>6 DEF Checked, Sifted, WriteGrant, Granting
        <3>2. PICK v \in LiveAdmins(t) : v # u
            BY <3>1, AnotherAdmin
        <3>3. \A g \in GrantIds : Ended(r)[g].user = grants[g].user
            BY <1>0, <2>2, EndedLeavesNone DEF CheckedInv
        <3>4. ASSUME NEW g \in GrantIds, grants[g].user = v, IsLive(grants[g], t)
              PROVE  grants'[g] = grants[g]
            BY <2>1, <2>3, <2>4, <3>2, <3>3, <3>4 DEF IsLive
        <3>5. active'[v] /\ v \in Users
            BY <2>2 DEF LiveAdmins
        <3>6. v \in LiveAdmins(t)'
            BY <3>4, <3>5, StaysAdmin
        <3> QED
            BY <3>5, <3>6
    <2> QED
        BY <2>5, <2>6
<1>3. CASE WriteEnd(r)
    <2>1. req[r].op \in Ops \ FlagOps /\ active' = active /\ grants' = Ended(r)
        BY <1>3 DEF WriteEnd, Ops, FlagOps
    <2>2. /\ \A g \in GrantIds : grants'[g].user = grants[g].user
          /\ \A g \in GrantIds : grants'[g].user # u => grants'[g] = grants[g]
        BY <1>0, <2>1, EndedLeavesNone DEF CheckedInv
    <2>3. CASE req[r].op = "revoke"
        <3>1. ~WouldRefuse(r)
            BY <1>0, <2>3 DEF Checked, Sifted
        <3>2. PICK v \in LiveAdmins(t) : v # u
            BY <3>1, AnotherAdmin
        <3>3. active'[v] /\ v \in Users
            BY <2>1 DEF LiveAdmins
        <3>4. v \in LiveAdmins(t)'
            BY <2>2, <3>2, <3>3, StaysAdmin
        <3> QED
            BY <3>3, <3>4
    <2>4. CASE req[r].op = "expire"
        <3>1. req[r].seen \in GrantIds /\ Expired(grants[req[r].seen], t)
            BY <1>0, <2>4 DEF Checked
        <3>2. \A g \in GrantIds : IsLive(grants[g], t) => grants'[g] = grants[g]
            BY <1>0, <2>1, <2>4, <3>1, EndedOnlyEnds DEF IsLive
        <3>3. PICK v \in LiveAdmins(t) : TRUE
            OBVIOUS
        <3>4. active'[v] /\ v \in Users
            BY <2>1 DEF LiveAdmins
        <3>5. v \in LiveAdmins(t)'
            BY <3>2, <3>4, StaysAdmin
        <3> QED
            BY <3>4, <3>5
    <2> QED
        BY <1>3, <2>3, <2>4 DEF WriteEnd
<1>4. CASE WriteActive(r)
    <2>1. active' = [active EXCEPT ![u] = req[r].op # "console_off"] /\ grants' = grants
        BY <1>4 DEF WriteActive
    <2>2. PICK v \in LiveAdmins(t) : req[r].op = "console_off" => v # u
        BY <1>0, AnotherAdmin DEF Checked, Sifted
    <2>3. active[v] /\ v \in Users
        BY DEF LiveAdmins
    <2>4. active'[v]
        BY <1>0, <2>1, <2>2, <2>3 DEF TypeOK
    <2>5. v \in LiveAdmins(t)'
        BY <2>1, <2>4, StaysAdmin
    <2> QED
        BY <2>3, <2>5
<1> QED
    BY <1>2, <1>3, <1>4

(* Whoever is refused is the one admin there is: nobody switched off holds *)
(* a role, so the person asked about counts among those who can grant.     *)
LEMMA RefusalStep ==
    ASSUME CheckedInv, LeaverHoldsNoRole, NEW r \in Requests, RefuseLastAdmin(r)
    PROVE  LiveAdmins(req[r].at) \subseteq {req[r].user}
<1> DEFINE S == LiveAdmins(req[r].at)
<1>1. req[r].user \in Users /\ WouldRefuse(r)
    BY DEF CheckedInv, SerialInv, MemoryFresh, RefuseLastAdmin
<1>2. Unrevoked(req[r].user) # {}
    BY <1>1 DEF WouldRefuse, HoldsAdmin, LiveGrants, IsLive, Unrevoked
<1>3. req[r].user \in S
    BY <1>1, <1>2 DEF LeaverHoldsNoRole, LiveAdmins, WouldRefuse, HoldsAdmin
<1>4. IsFiniteSet(S)
    BY UsersAssumption, FS_Subset DEF LiveAdmins
<1>5. Cardinality({req[r].user}) = 1 /\ IsFiniteSet({req[r].user})
    BY FS_Singleton
<1>6. Cardinality(S) \in Nat /\ Cardinality(S) <= 1
    BY <1>1, <1>4, FS_CardinalityType DEF WouldRefuse
<1> HIDE DEF S
<1>7. {req[r].user} \subseteq S
    BY <1>3
<1>8. Cardinality({req[r].user}) <= Cardinality(S)
    BY <1>4, <1>7, FS_Subset
<1>9. Cardinality({req[r].user}) = Cardinality(S)
    BY <1>5, <1>6, <1>8
<1>10. S = {req[r].user}
    BY <1>4, <1>7, <1>9, FS_Subset
<1> QED
    BY <1>10 DEF S

(* With requests one at a time, no console request takes the last person   *)
(* who can grant anything; and, people being switched off over SCIM only,  *)
(* none is refused for a last admin that is not.  With two requests the    *)
(* first is lost (run rg_lastadmin): each counts the other's admin.        *)
THEOREM LastAdminCheckIsExactSerially ==
    ASSUME OneAtATime, "console" \notin Channels
    PROVE  Spec => LastAdminCheckIsExact
<1> DEFINE Stays ==
        \A r \in Requests :
          WriteGrant(r) \/ WriteEnd(r) \/ WriteActive(r) =>
             \A t \in Times : t = req[r].at /\ LiveAdmins(t) # {} => LiveAdmins(t)' # {}
<1> DEFINE Refused ==
        \A r \in Requests : RefuseLastAdmin(r) => LiveAdmins(req[r].at) \subseteq {req[r].user}
<1>1. CheckedInv => Stays
    <2> SUFFICES ASSUME CheckedInv, NEW r \in Requests,
                        WriteGrant(r) \/ WriteEnd(r) \/ WriteActive(r),
                        NEW t \in Times, t = req[r].at, LiveAdmins(t) # {}
                 PROVE  LiveAdmins(t)' # {}
        OBVIOUS
    <2>1. PICK v \in Users : v \in LiveAdmins(t)'
        BY LastAdminStep
    <2>2. \E g \in LiveGrants(grants', v, t) : grants'[g].role = "admin"
        BY <2>1 DEF LiveAdmins
    <2> QED
        BY <2>1, <2>2 DEF LiveAdmins
<1>2. CheckedInv /\ LeaverHoldsNoRole => Refused
    BY RefusalStep
<1>3. CheckedInv /\ LeaverHoldsNoRole /\ [Next]_vars => CheckedInv' /\ LeaverHoldsNoRole'
    BY CheckedStep, LeaverStep DEF CheckedInv
<1>4. Init => LeaverHoldsNoRole
    BY DEF Init, LeaverHoldsNoRole, Unrevoked, AbsentRow
<1> QED
    BY <1>1, <1>2, <1>3, <1>4, CheckedInit, PTL
    DEF Spec, LastAdminCheckIsExact, LastAdminStays, RefusedOnlyForTheLastAdmin
=============================================================================
