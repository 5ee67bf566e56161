------------------------------- MODULE AppSignOn -------------------------------
(***************************************************************************)
(* Signing people in to applications, and out again (routers/idp.py).  A   *)
(* login that was issued is a row of idp_sessions; it names the browser    *)
(* session it came from.                                                   *)
(***************************************************************************)
EXTENDS ConsoleSessions

CONSTANTS
    Apps,          \* applications registered here and switched on
    Staff,         \* a group of the directory
    Members,       \* the people in it
    Logins         \* bound: rows of idp_sessions

ASSUME StaffAssumption == Staff \notin Users /\ Members \subseteq Users

VARIABLES
    assigned,      \* app_assignments: who and what each application is given to
    issued         \* idp_sessions

appVars == <<assigned, issued>>

NoLogin == [state |-> "absent", user |-> None, app |-> None, from |-> None, browser |-> None, at |-> 0]

OpenAt(u, a) == {l \in Logins : issued[l].state = "open" /\ issued[l].user = u /\ issued[l].app = a}
Newest(rows) == {l \in rows : \A k \in rows : issued[k].at <= issued[l].at}

(* Assignments are made in one commit, of an application that exists.      *)
Assign(a, to) ==
    /\ "apps" \in may /\ Alone
    /\ assigned' = [assigned EXCEPT ![a] = to]
    /\ UNCHANGED <<active, sess, now, req, may, issued>>

(* One person at a time, and never somebody who has left; giving what is   *)
(* there and taking what is not changes nothing.                           *)
AssignUser(u, a) == active[u] /\ u \notin assigned[a] /\ Assign(a, assigned[a] \cup {u})
UnassignUser(u, a) == u \in assigned[a] /\ Assign(a, assigned[a] \ {u})

(* A whole group at a time, whoever is in it, leavers included.            *)
AssignGroup(a) == Staff \notin assigned[a] /\ Assign(a, assigned[a] \cup {Staff})
UnassignGroup(a) == Staff \in assigned[a] /\ Assign(a, assigned[a] \ {Staff})

(* cut_access deletes the assignments of somebody who leaves, and leaves   *)
(* them in their groups.                                                   *)
LeaveApps(u) ==
    /\ Leave(u)
    /\ assigned' = [a \in Apps |-> assigned[a] \ {u}]
    /\ UNCHANGED issued

-----------------------------------------------------------------------------
(* _sign_in, in both bindings: resolve_actor, then the person again, then  *)
(* their access in up to two reads, then _issue.                           *)
BeginSso(s, i, a) ==
    /\ "apps" \in may
    /\ Live(i, now)
    /\ Begin(s, [CookieRequest("sso", i) EXCEPT !.app = a])
    /\ UNCHANGED <<active, sess, now, may, appVars>>

(* _refuse: the application is told no; nothing else is written.           *)
RefuseSso(s) == End(s)

(* Directly, or through the group.                                         *)
Direct(u, a) == u \in assigned[a]
ViaGroup(u, a) == u \in Members /\ Staff \in assigned[a]
HasAccess(u, a) == Direct(u, a) \/ ViaGroup(u, a)

(* The person is read again, and refused if they left in between.          *)
SeeAgain(s) ==
    /\ req[s].pc = "access"
    /\ IF active[req[s].user] THEN GoOn(s, "direct") ELSE RefuseSso(s)
    /\ UNCHANGED <<active, sess, now, may, appVars>>

SeeDirect(s) ==
    /\ req[s].pc = "direct"
    /\ GoOn(s, IF Direct(req[s].user, req[s].app) THEN "issue" ELSE "group")
    /\ UNCHANGED <<active, sess, now, may, appVars>>

\* Mutant: being in a group is enough, whatever the group was given.
MutSeeGroup(s) ==
    /\ req[s].pc = "group"
    /\ IF req[s].user \in Members THEN GoOn(s, "issue") ELSE RefuseSso(s)
    /\ UNCHANGED <<active, sess, now, may, appVars>>

SeeGroup(s) ==
    /\ req[s].pc = "group"
    /\ IF ViaGroup(req[s].user, req[s].app) THEN GoOn(s, "issue") ELSE RefuseSso(s)
    /\ UNCHANGED <<active, sess, now, may, appVars>>

(* current_saml_session looks the cookie up again, at a time of its own:   *)
(* a session that has ended since leaves a login that names none.          *)
Issue(s, l) ==
    LET r == req[s] IN
    /\ r.pc = "issue"
    /\ issued[l].state = "absent"
    /\ issued' = [issued EXCEPT ![l] =
                    [state |-> "open", user |-> r.user, app |-> r.app, browser |-> r.sess,
                     from |-> IF Live(r.sess, now) THEN r.sess ELSE None, at |-> now]]
    /\ End(s)
    /\ UNCHANGED <<active, sess, now, may, assigned>>

-----------------------------------------------------------------------------
(* _resolve_logout_target: the login an index names, ended or not, else    *)
(* the newest one still open for that person at the application that asks. *)
ByIndex == {l \in Logins : issued[l].state # "absent"}
BySubject(u, a) == Newest(OpenAt(u, a))

(* _sign_out: the login ends, and if it names a browser session every      *)
(* session of that person does.                                            *)
SignOut(l) ==
    /\ "apps" \in may /\ Alone
    /\ issued' = [issued EXCEPT ![l].state = "ended"]
    /\ sess' = IF issued[l].from # None THEN Revoked(SessionsOf(issued[l].user), "signed_out_elsewhere")
               ELSE sess
    /\ UNCHANGED <<active, now, req, may, assigned>>
=============================================================================
