------------------------------ MODULE RoleGrants ------------------------------
(***************************************************************************)
(* Console roles: the role_grants table, the cached users.platform_role    *)
(* column, users.active, and the requests that read and write them.        *)
(*                                                                         *)
(* A request runs in one database transaction under READ COMMITTED.  It    *)
(* loads the person's row once; the ORM keeps that object, so the role it  *)
(* loaded ("knew") is what later code compares with.                       *)
(* Other requests may commit between its load, its last-admin check, its   *)
(* query for the unrevoked grant and its write.  The write is one action:  *)
(* from its first flush the request holds the locks of the rows it         *)
(* changes (and, from append_event on, the audit lock) until it commits.   *)
(***************************************************************************)
EXTENDS Naturals, FiniteSets

CONSTANTS
    Users,       \* the people in the directory
    GrantIds,    \* primary keys of role_grants; rows are never deleted
    Requests,    \* slots for requests in flight at the same time
    GrantRoles,  \* the roles a payload may name
    Channels,    \* who switches people on and off: "scim", "console"
    MaxTime,     \* bound: the clock stops here
    NoGrant,     \* no row
    NoUser       \* no person

Never == 0
Times == 1..MaxTime
Roles == {"employee", "helpdesk", "auditor", "admin"}
Endings == {"revoked", "superseded", "expired", "user_deactivated"}
Ops == {"grant", "revoke", "console_off", "console_on",
        "scim_off", "scim_on", "expire", "bootstrap"}

ASSUME UsersAssumption == IsFiniteSet(Users)
ASSUME RolesAssumption == GrantRoles \subseteq Roles \ {"employee"}
ASSUME NoneAssumption == NoGrant \notin GrantIds /\ NoUser \notin Users
ASSUME TimeAssumption == MaxTime \in Nat \ {0}

VARIABLES
    active,      \* users.active
    cached,      \* users.platform_role
    grants,      \* the rows of role_grants by id; "absent" until inserted
    now,         \* the wall clock, in steps no finer than an expiry date
    req          \* each request: how far it is and what it has in memory

vars == <<active, cached, grants, now, req>>

-----------------------------------------------------------------------------
(* Rows.  "status" is "live" while revoked_at is null, else the reason.    *)

Row == [user : Users \cup {NoUser}, role : Roles, expires : Nat,
        status : {"absent", "live"} \cup Endings]
AbsentRow == [user |-> NoUser, role |-> "employee", expires |-> Never,
              status |-> "absent"]

Unrevoked(u) == {g \in GrantIds : grants[g].user = u /\ grants[g].status = "live"}

Expired(row, t) == row.expires # Never /\ row.expires <= t

IsLive(row, t) == row.status = "live" /\ ~Expired(row, t)

(* live_grant and effective_role over a table of rows.                     *)
LiveGrants(table, u, t) ==
    {g \in GrantIds : table[g].user = u /\ IsLive(table[g], t)}
EffectiveRole(table, u, t) ==
    IF LiveGrants(table, u, t) = {} THEN "employee"
    ELSE table[CHOOSE g \in LiveGrants(table, u, t) : TRUE].role

LiveAdmins(t) ==
    {u \in Users : active[u] /\ \E g \in LiveGrants(grants, u, t) : grants[g].role = "admin"}

Due(u) == {g \in Unrevoked(u) : Expired(grants[g], now)}

-----------------------------------------------------------------------------
(* Requests.                                                               *)

Request == [pc : {"idle", "guard", "select", "write"}, op : Ops \cup {"none"},
            user : Users \cup {NoUser}, role : Roles, expires : Nat, at : Nat,
            knew : Roles, seen : GrantIds \cup {NoGrant}]
Idle == [pc |-> "idle", op |-> "none", user |-> NoUser, role |-> "employee",
         expires |-> Never, at |-> 0, knew |-> "employee", seen |-> NoGrant]

Load(r, op, u, role, expires, pc) ==
    /\ req[r].pc = "idle"
    /\ req' = [req EXCEPT ![r] =
                 [pc |-> pc, op |-> op, user |-> u, role |-> role, expires |-> expires,
                  at |-> now, knew |-> cached[u], seen |-> NoGrant]]
    /\ UNCHANGED <<active, cached, grants, now>>

Close(r) == req' = [req EXCEPT ![r] = Idle]

(* resolve_actor: whoever calls is active, and a role of theirs whose end  *)
(* date has passed was dropped (the "expire" operation) before the role on *)
(* their row is used.                                                      *)
Caller(u, roles) == active[u] /\ cached[u] \in roles /\ Due(u) = {}

MayWriteRoles(u) == Caller(u, {"admin"})
MayWriteUsers(u) == Caller(u, {"admin", "helpdesk"})

BeginExpire(r) ==
    \E u \in Users :
        /\ active[u] /\ cached[u] # "employee" /\ Due(u) # {}
        /\ Load(r, "expire", u, "employee", Never, "select")

BeginGrant(r) ==
    \E a, u \in Users, role \in GrantRoles, expires \in {Never} \cup Times :
        /\ MayWriteRoles(a)
        /\ active[u] /\ (expires = Never \/ expires > now)
        /\ Load(r, "grant", u, role, expires, IF role = "admin" THEN "select" ELSE "guard")

BeginRevoke(r) ==
    \E a, u \in Users : MayWriteRoles(a) /\ Load(r, "revoke", u, "employee", Never, "guard")

(* Assigning "active" the value in memory emits no UPDATE, and SCIM acts   *)
(* on a change only, so only requests that flip the flag matter.           *)
BeginConsoleActive(r) ==
    /\ "console" \in Channels
    /\ \E a, u \in Users :
        /\ MayWriteUsers(a)
        /\ \/ active[u] /\ a # u /\ Load(r, "console_off", u, "employee", Never, "guard")
           \/ ~active[u] /\ Load(r, "console_on", u, "employee", Never, "write")

BeginScimActive(r) ==
    /\ "scim" \in Channels
    /\ \E u \in Users :
        \/ active[u] /\ Load(r, "scim_off", u, "employee", Never, "select")
        \/ ~active[u] /\ Load(r, "scim_on", u, "employee", Never, "write")

(* scripts.grant_first_admin: refuses while an unexpired admin grant       *)
(* exists, whoever holds it.                                               *)
BeginBootstrap(r) ==
    /\ \A g \in GrantIds : ~(IsLive(grants[g], now) /\ grants[g].role = "admin")
    /\ \E u \in Users : active[u] /\ Load(r, "bootstrap", u, "admin", Never, "select")

-----------------------------------------------------------------------------
(* The last-admin check of routers/access.py and of update_user.           *)

HoldsAdmin(u, t) == \E g \in LiveGrants(grants, u, t) : grants[g].role = "admin"

\* Mutant: the comparison is off by one.
MutWouldRefuse(r) ==
    HoldsAdmin(req[r].user, req[r].at) /\ Cardinality(LiveAdmins(req[r].at)) < 1

WouldRefuse(r) ==
    /\ HoldsAdmin(req[r].user, req[r].at)
    /\ Cardinality(LiveAdmins(req[r].at)) <= 1

RefuseLastAdmin(r) ==
    /\ req[r].pc = "guard" /\ WouldRefuse(r)
    /\ Close(r)
    /\ UNCHANGED <<active, cached, grants, now>>

PassGuard(r) ==
    /\ req[r].pc = "guard" /\ ~WouldRefuse(r)
    /\ req' = [req EXCEPT ![r].pc = IF req[r].op = "console_off" THEN "write" ELSE "select"]
    /\ UNCHANGED <<active, cached, grants, now>>

-----------------------------------------------------------------------------
(* The query for the person's unrevoked grant.                             *)

\* Mutant: the query forgets "revoked_at IS NULL".
MutWanted(r) == {g \in GrantIds : grants[g].user = req[r].user}

Wanted(r) == IF req[r].op = "expire" THEN {g \in Unrevoked(req[r].user) :
                                             Expired(grants[g], req[r].at)}
             ELSE Unrevoked(req[r].user)

Granting(r) == req[r].op \in {"grant", "bootstrap"}

(* grant_role returns an existing identical live grant, and the expiry of  *)
(* one person's grant ends early when none is due.                         *)
NothingToDo(r, seen) ==
    \/ req[r].op = "expire" /\ seen = NoGrant
    \/ /\ Granting(r) /\ seen # NoGrant
       /\ grants[seen].role = req[r].role /\ grants[seen].expires = req[r].expires
       /\ IsLive(grants[seen], req[r].at)

Select(r) ==
    /\ req[r].pc = "select"
    /\ \E seen \in IF Wanted(r) = {} THEN {NoGrant} ELSE Wanted(r) :
        IF NothingToDo(r, seen) THEN Close(r)
        ELSE req' = [req EXCEPT ![r].pc = "write", ![r].seen = seen]
    /\ UNCHANGED <<active, cached, grants, now>>

-----------------------------------------------------------------------------
(* Writing and committing.                                                 *)

\* Mutant: a reason that is none of RevokedGrantReason.
MutEndingOf(op) == IF op = "scim_off" THEN "left" ELSE "revoked"

EndingOf(op) == CASE op \in {"grant", "bootstrap"} -> "superseded"
                  [] op = "revoke" -> "revoked"
                  [] op = "expire" -> "expired"
                  [] op = "scim_off" -> "user_deactivated"

\* Mutant: a new grant leaves the previous one alone.
MutEnded(r) == grants

(* The UPDATE is by primary key: it lands on a row another request has     *)
(* revoked meanwhile.                                                      *)
Ended(r) ==
    IF req[r].seen = NoGrant THEN grants
    ELSE [grants EXCEPT ![req[r].seen].status = EndingOf(req[r].op)]

\* Mutant: the cache is left for later.
MutRecompute(r, table) == UNCHANGED cached

(* _recompute assigns the column only when it differs from the role in     *)
(* memory.                                                                 *)
Recompute(r, table) ==
    LET role == EffectiveRole(table, req[r].user, req[r].at)
    IN  cached' = IF role # req[r].knew THEN [cached EXCEPT ![req[r].user] = role] ELSE cached

NewRow(r) == [user |-> req[r].user, role |-> req[r].role, expires |-> req[r].expires,
              status |-> "live"]

\* Mutant: no unique index.
MutCollides(r) == FALSE

(* The unique index one_live_role_grant_per_user.                          *)
Collides(r) == Unrevoked(req[r].user) \ {req[r].seen} # {}

WriteGrant(r) ==
    /\ req[r].pc = "write" /\ Granting(r) /\ ~Collides(r)
    /\ \E g \in GrantIds :
        /\ grants[g].status = "absent"
        /\ grants' = [Ended(r) EXCEPT ![g] = NewRow(r)]
        /\ Recompute(r, [Ended(r) EXCEPT ![g] = NewRow(r)])
    /\ Close(r)
    /\ UNCHANGED <<active, now>>

(* revoke_role and expire_due_grants_for.                                  *)
WriteEnd(r) ==
    /\ req[r].pc = "write" /\ req[r].op \in {"revoke", "expire"}
    /\ grants' = Ended(r)
    /\ Recompute(r, Ended(r))
    /\ Close(r)
    /\ UNCHANGED <<active, now>>

\* Mutant: the flag is set and the role grant forgotten.
MutWriteScimOff(r) ==
    /\ req[r].pc = "write" /\ req[r].op = "scim_off"
    /\ active' = [active EXCEPT ![req[r].user] = FALSE]
    /\ Close(r)
    /\ UNCHANGED <<cached, grants, now>>

(* A SCIM PUT, PATCH or DELETE that switches somebody off: the flag and    *)
(* cut_access in one transaction.                                          *)
WriteScimOff(r) ==
    /\ req[r].pc = "write" /\ req[r].op = "scim_off"
    /\ active' = [active EXCEPT ![req[r].user] = FALSE]
    /\ grants' = Ended(r)
    /\ Recompute(r, Ended(r))
    /\ Close(r)
    /\ UNCHANGED now

(* The other writes of the flag touch nothing else: update_user does not   *)
(* call cut_access, and a reactivation gives no role back.                 *)
WriteActive(r) ==
    /\ req[r].pc = "write" /\ req[r].op \in {"console_off", "console_on", "scim_on"}
    /\ active' = [active EXCEPT ![req[r].user] = req[r].op # "console_off"]
    /\ Close(r)
    /\ UNCHANGED <<cached, grants, now>>

(* The client goes away, the process dies, the unique index refuses the    *)
(* insert, or Postgres breaks a deadlock: everything is rolled back.       *)
Abort(r) ==
    /\ req[r].pc # "idle"
    /\ Close(r)
    /\ UNCHANGED <<active, cached, grants, now>>

Tick ==
    /\ now < MaxTime
    /\ now' = now + 1
    /\ UNCHANGED <<active, cached, grants, req>>

Init ==
    /\ active = [u \in Users |-> TRUE]
    /\ cached = [u \in Users |-> "employee"]
    /\ grants = [g \in GrantIds |-> AbsentRow]
    /\ now = 1
    /\ req = [r \in Requests |-> Idle]

Next ==
    \/ \E r \in Requests :
        \/ BeginExpire(r) \/ BeginGrant(r) \/ BeginRevoke(r)
        \/ BeginConsoleActive(r) \/ BeginScimActive(r) \/ BeginBootstrap(r)
        \/ RefuseLastAdmin(r) \/ PassGuard(r) \/ Select(r)
        \/ WriteGrant(r) \/ WriteEnd(r) \/ WriteScimOff(r) \/ WriteActive(r)
        \/ Abort(r)
    \/ Tick

Spec == Init /\ [][Next]_vars

-----------------------------------------------------------------------------
(* Type invariant: every column and every request in flight has the shape  *)
(* models/access.py and the handlers give it.                              *)
TypeOK ==
    /\ active \in [Users -> BOOLEAN]
    /\ cached \in [Users -> Roles]
    /\ grants \in [GrantIds -> Row]
    /\ now \in Nat
    /\ req \in [Requests -> Request]

(* At most one unrevoked grant per person, so a role lookup is a single-   *)
(* row lookup (models/access.py, the index one_live_role_grant_per_user),  *)
(* however grants, revocations and expiries interleave.                    *)
OneLiveGrant ==
    \A g, h \in GrantIds :
        grants[g].status = "live" /\ grants[h].status = "live"
            /\ grants[g].user = grants[h].user => g = h

(* The cached role is the role of the unrevoked grant, and employee        *)
(* without one (access/roles.py, "What keeps the cache correct").          *)
CacheAgrees ==
    \A u \in Users :
        IF Unrevoked(u) = {} THEN cached[u] = "employee"
        ELSE \A g \in Unrevoked(u) : cached[u] = grants[g].role

(* Nobody's cached role is one they were never granted.                    *)
CachedRoleWasGranted ==
    \A u \in Users :
        cached[u] # "employee" => \E g \in GrantIds : grants[g].user = u
                                                      /\ grants[g].role = cached[u]

(* A grant that is answered 201 is the person's one live grant, whatever   *)
(* was granted, revoked or swept meanwhile (grant_role, flush order).      *)
GrantTakesEffect ==
    [][\A r \in Requests : WriteGrant(r) =>
         \A t \in Times : t = req[r].at =>
            {<<grants'[g].role, grants'[g].expires>> : g \in {h \in GrantIds :
                grants'[h].user = req[r].user /\ IsLive(grants'[h], t)}}
              = {<<req[r].role, req[r].expires>>}]_vars

(* Whatever races, a grant takes effect and nothing else gives a role.     *)
RolesComeFromGrants == GrantTakesEffect /\ []CachedRoleWasGranted

(* A revocation that is answered 200 leaves the person without a live      *)
(* grant (delete_role_grant: "the end state is what was asked for").       *)
RevokeTakesEffect ==
    [][\A r \in Requests : WriteEnd(r) /\ req[r].op = "revoke" =>
         \A t \in Times, u \in Users : t = req[r].at /\ u = req[r].user =>
            LiveGrants(grants, u, t)' = {}]_vars

(* Somebody switched off holds no role (access/lifecycle.py).              *)
LeaverHoldsNoRole ==
    \A u \in Users : ~active[u] => Unrevoked(u) = {} /\ cached[u] = "employee"

(* No console request takes the set of people who can grant anything from  *)
(* somebody to nobody, as of the time that request works with.             *)
LastAdminStays ==
    [][\A r \in Requests :
         WriteGrant(r) \/ WriteEnd(r) \/ WriteActive(r) =>
            \A t \in Times : t = req[r].at /\ LiveAdmins(t) # {} => LiveAdmins(t)' # {}]_vars

(* The history reads as a sequence of decisions (grant_role): how a grant  *)
(* ended is decided once, and an ended grant never comes back.             *)
EndingFinal ==
    [][\A g \in GrantIds : grants[g].status \in Endings =>
         grants'[g].status = grants[g].status]_vars

(* What was taken away stays taken away: a revocation leaves nothing       *)
(* behind, and an ended grant stays as it ended.                           *)
RevocationsHold == RevokeTakesEffect /\ EndingFinal

(* A change is refused as "the last admin" only when making it would leave *)
(* nobody able to grant anything.                                          *)
RefusedOnlyForTheLastAdmin ==
    [][\A r \in Requests : RefuseLastAdmin(r) =>
         LiveAdmins(req[r].at) \subseteq {req[r].user}]_vars

(* The last-admin check refuses what it must and nothing else.             *)
LastAdminCheckIsExact == LastAdminStays /\ RefusedOnlyForTheLastAdmin
=============================================================================
