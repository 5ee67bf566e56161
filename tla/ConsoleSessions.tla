---------------------------- MODULE ConsoleSessions ----------------------------
(***************************************************************************)
(* The saml_sessions table (saml/sessions.py), whom a cookie stands for    *)
(* (security/actor.py), and how people leave and come back                 *)
(* (access/lifecycle.py, routers/users.py).                                *)
(*                                                                         *)
(* Every operation is an HTTP request that takes the time once, at its     *)
(* start, and uses it until it ends.  A step is one read of the handler or *)
(* one commit.                                                             *)
(***************************************************************************)
EXTENDS Integers

CONSTANTS
    Users,         \* people
    Sessions,      \* bound: rows of saml_sessions
    Slots,         \* bound: HTTP requests served at the same time
    MaxTime,       \* bound: the clock stops here
    Lifetime,      \* SESSION_LIFETIME
    Idle,          \* SESSION_IDLE_TIMEOUT
    TouchInterval, \* SESSION_TOUCH_INTERVAL
    None,          \* nobody, nothing
    Circumstances  \* sets of what may happen, see may

ASSUME SessionsAssumption ==
    /\ None \notin Users \cup Sessions \cup Slots
    /\ MaxTime \in Nat /\ Lifetime \in Nat /\ Idle \in Nat /\ TouchInterval \in Nat

VARIABLES
    active,        \* users.active
    sess,          \* saml_sessions
    now,           \* the clock
    req,           \* the requests being served
    may            \* "race": requests overlap; "time": time passes, "slow": while they run;
                   \* "leave": people are deactivated by the provider, "console": in the
                   \* console; "logout": they sign out, here and at the provider;
                   \* "apps": they sign in to applications and out of them

NoSession == [state |-> "absent", user |-> None, index |-> None, seen |-> 0, until |-> 0,
              request |-> None, assertion |-> None]

Open(i) == sess[i].state = "open"            \* revoked_at IS NULL

-----------------------------------------------------------------------------
(* Requests.                                                               *)

Request(op, pc, user, i, at) ==
    [op |-> op, pc |-> pc, user |-> user, sess |-> i, at |-> at,
     seen |-> 0, relay |-> None, due |-> 0, doc |-> None, app |-> None]
NoReq == Request("none", "idle", None, None, 0)

(* A request with the cookie of a session keeps the row as lookup_session  *)
(* read it: whose it is and when it was last used.                         *)
CookieRequest(op, i) ==
    [Request(op, "user", sess[i].user, i, now) EXCEPT !.seen = sess[i].seen]

Alone == "race" \in may \/ \A s \in Slots : req[s].pc = "idle"
Begin(s, r) == Alone /\ req[s].pc = "idle" /\ req' = [req EXCEPT ![s] = r]
GoOn(s, pc) == req' = [req EXCEPT ![s].pc = pc]
End(s) == req' = [req EXCEPT ![s] = NoReq]

-----------------------------------------------------------------------------
(* Sessions.                                                               *)

(* lookup_session.                                                         *)
Live(i, t) == Open(i) /\ sess[i].until > t /\ t - sess[i].seen <= Idle

(* revoke_session, revoke_all_for_user, revoke_by_name_id and              *)
(* revoke_by_session_index: UPDATE ... WHERE revoked_at IS NULL.           *)
Revoked(ended, reason) ==
    [i \in Sessions |-> IF i \in ended /\ Open(i) THEN [sess[i] EXCEPT !.state = reason]
                        ELSE sess[i]]

SessionsOf(u) == {i \in Sessions : sess[i].user = u}
SessionsNamed(index) == {i \in Sessions : sess[i].index = index}

\* Mutant: the time to live is added twice.
MutNewSession(u, index, request, assertion, at) ==
    [state |-> "open", user |-> u, index |-> index, seen |-> at, until |-> at + 2 * Lifetime + 1,
     request |-> request, assertion |-> assertion]

(* create_session.                                                         *)
NewSession(u, index, request, assertion, at) ==
    [state |-> "open", user |-> u, index |-> index, seen |-> at, until |-> at + Lifetime,
     request |-> request, assertion |-> assertion]

-----------------------------------------------------------------------------
\* Mutant: a session left idle still lets people through.
MutBeginUse(s, i) ==
    /\ "apps" \notin may
    /\ Open(i) /\ sess[i].until > now
    /\ Begin(s, CookieRequest("use", i))
    /\ UNCHANGED <<active, sess, now, may>>

(* resolve_actor: the session of the cookie, the person, and a touch.      *)
(* Where people sign in to applications, that is the use they make of it.  *)

BeginUse(s, i) ==
    /\ "apps" \notin may
    /\ Live(i, now)
    /\ Begin(s, CookieRequest("use", i))
    /\ UNCHANGED <<active, sess, now, may>>

(* Somebody switched off loses every session they have, here if not before *)
SeeUser(s) ==
    /\ req[s].pc = "user"
    /\ \/ active[req[s].user] /\ GoOn(s, "touch") /\ UNCHANGED sess
       \/ ~active[req[s].user] /\ End(s) /\ sess' = Revoked(SessionsOf(req[s].user), "user_deactivated")
    /\ UNCHANGED <<active, now, may>>

(* The row is due by what was read of it; touch_session then writes the    *)
(* time this request began, whatever was written since.                    *)
Touch(s) ==
    LET r == req[s] IN
    /\ r.pc = "touch"
    /\ sess' = IF r.at - r.seen >= TouchInterval THEN [sess EXCEPT ![r.sess].seen = r.at] ELSE sess
    /\ IF r.op = "sso" THEN GoOn(s, "access") ELSE End(s)
    /\ UNCHANGED <<active, now, may>>

-----------------------------------------------------------------------------
\* Mutant: the sessions are left to expire.
MutLeave(u) ==
    /\ "leave" \in may /\ Alone /\ active[u]
    /\ active' = [active EXCEPT ![u] = FALSE]
    /\ UNCHANGED <<sess, now, req, may>>

(* SCIM says somebody left: the flag and cut_access in one transaction.    *)
Leave(u) ==
    /\ "leave" \in may /\ Alone /\ active[u]
    /\ active' = [active EXCEPT ![u] = FALSE]
    /\ sess' = Revoked(SessionsOf(u), "user_deactivated")
    /\ UNCHANGED <<now, req, may>>

(* update_user in the console writes the flag and nothing else.            *)
SwitchOff(u) ==
    /\ "console" \in may /\ Alone /\ active[u]
    /\ active' = [active EXCEPT ![u] = FALSE]
    /\ UNCHANGED <<sess, now, req, may>>

SwitchOn(u) ==
    /\ Alone /\ ~active[u]
    /\ active' = [active EXCEPT ![u] = TRUE]
    /\ UNCHANGED <<sess, now, req, may>>

(* The client goes away or the process dies: everything is rolled back.    *)
Abort(s) == req[s].pc # "idle" /\ End(s) /\ UNCHANGED <<active, sess, now, may>>

Tick ==
    /\ now < MaxTime
    /\ "slow" \in may \/ ("time" \in may /\ \A s \in Slots : req[s].pc = "idle")
    /\ now' = now + 1
    /\ UNCHANGED <<active, sess, req, may>>
=============================================================================
