------------------------------- MODULE SamlLogin -------------------------------
(***************************************************************************)
(* Signing in through the provider, and out again (routers/saml.py).       *)
(*                                                                         *)
(* A login request is remembered in saml_request_state, keyed by the relay *)
(* state that travels with it.  The answer is a document signed by the     *)
(* provider; once accepted it is remembered in saml_assertion_seen.        *)
(***************************************************************************)
EXTENDS ConsoleSessions

INSTANCE AssertionChecks

CONSTANTS
    Relays,        \* bound: rows ever added to saml_request_state
    Assertions,    \* bound: documents the provider signs
    Indexes,       \* the provider's names for its own sessions
    RequestTtl,    \* REQUEST_TTL
    Skew,          \* DEFAULT_CLOCK_SKEW
    Validity,      \* how long the provider says its answer is good for
    Fallback       \* ASSERTION_MEMORY_FALLBACK

ASSUME LoginAssumption ==
    /\ None \notin Relays \cup Assertions \cup Indexes
    /\ RequestTtl \in Nat /\ Skew \in Nat /\ Validity \in Nat /\ Fallback \in Nat

VARIABLES
    pending,       \* saml_request_state
    doc,           \* what the provider has signed
    seen           \* saml_assertion_seen: until when, or None

loginVars == <<pending, doc, seen>>

NoPending == [state |-> "new", kind |-> "login", until |-> 0]
NoDoc == [request |-> None, user |-> None, index |-> None, until |-> None]

(* A row being answered is deleted and not yet committed.                  *)
Answering(q) == \E s \in Slots : req[s].relay = q /\ req[s].pc \in {"judge", "person", "accept"}
Locked(q) == pending[q].state = "open" /\ Answering(q)

Expired(q, t) == pending[q].state = "open" /\ pending[q].until < t

-----------------------------------------------------------------------------
(* login: old requests are cleared away, a new one is written down.        *)
StartLogin(q) ==
    /\ Alone /\ pending[q].state = "new"
    /\ \A p \in Relays : Expired(p, now) => ~Locked(p)
    /\ pending' = [p \in Relays |->
                     IF p = q THEN [state |-> "open", kind |-> "login", until |-> now + RequestTtl]
                     ELSE IF Expired(p, now) THEN [pending[p] EXCEPT !.state = "gone"]
                     ELSE pending[p]]
    /\ UNCHANGED <<active, sess, now, req, may, doc, seen>>

(* The provider knows somebody, and signs an answer to a request of ours.  *)
ProviderAnswers(x, q, u, index, until) ==
    /\ doc[x] = NoDoc
    /\ pending[q].state = "open" /\ pending[q].kind = "login"
    /\ doc' = [doc EXCEPT ![x] = [request |-> q, user |-> u, index |-> index, until |-> until]]
    /\ UNCHANGED <<active, sess, now, req, may, pending, seen>>

-----------------------------------------------------------------------------
(* assertion_consumer_service.  An answer we have no request for is turned *)
(* away without a trace.                                                   *)
BeginAcs(s, q, x) ==
    /\ pending[q].state = "open" /\ doc[x] # NoDoc
    /\ Begin(s, [Request("acs", "take", None, None, now)
                 EXCEPT !.relay = q, !.doc = x, !.due = pending[q].until])
    /\ UNCHANGED <<active, sess, now, may, loginVars>>

(* DELETE waits for whoever deletes the same row; a row that is gone by    *)
(* then is not noticed.                                                    *)
TakeRequest(s) ==
    /\ req[s].pc = "take" /\ ~Locked(req[s].relay)
    /\ GoOn(s, "judge")
    /\ UNCHANGED <<active, sess, now, may, loginVars>>

\* Mutant: the request can be answered again.
MutRequestGone(s) == pending

RequestGone(s) == [pending EXCEPT ![req[s].relay].state = "gone"]

(* _refuse_login commits, and with it the deletion.                        *)
RefuseLogin(s) == End(s) /\ pending' = RequestGone(s)

Remembered == {x \in Assertions : seen[x] # None}

Believed(s) ==
    LET r == req[s] d == doc[r.doc] IN
    /\ r.due > r.at
    /\ AllPassed(Facts(r.doc, d.request, d.until), Expectations(r.relay, Skew, TRUE),
                 r.at, Remembered)

JudgeAnswer(s) ==
    /\ req[s].pc = "judge"
    /\ \/ Believed(s) /\ GoOn(s, "person") /\ UNCHANGED pending
       \/ ~Believed(s) /\ RefuseLogin(s)
    /\ UNCHANGED <<active, sess, now, may, doc, seen>>

(* Who it is for; the provider is not asked whether they may come in.      *)
SeePerson(s) ==
    LET u == doc[req[s].doc].user IN
    /\ req[s].pc = "person"
    /\ \/ active[u] /\ GoOn(s, "accept") /\ UNCHANGED pending
       \/ ~active[u] /\ RefuseLogin(s)
    /\ UNCHANGED <<active, sess, now, may, doc, seen>>

(* Those past their time go before the new one is flushed.                 *)
Remember(x, until, at) ==
    [y \in Assertions |-> IF y = x THEN until
                          ELSE IF seen[y] # None /\ seen[y] < at THEN None ELSE seen[y]]

Accept(s, i) ==
    LET r == req[s] d == doc[r.doc] IN
    /\ r.pc = "accept"
    /\ sess[i].state = "absent"
    /\ ~(seen[r.doc] # None /\ seen[r.doc] >= r.at)         \* the primary key
    /\ seen' = Remember(r.doc, IF d.until # None THEN d.until ELSE r.at + Fallback, r.at)
    /\ sess' = [sess EXCEPT ![i] = NewSession(d.user, d.index, r.relay, r.doc, r.at)]
    /\ pending' = RequestGone(s)
    /\ End(s)
    /\ UNCHANGED <<active, now, may, doc>>

-----------------------------------------------------------------------------
(* logout: our own session ends first, in a transaction of its own.        *)
BeginLogout(s, i) ==
    /\ "logout" \in may
    /\ sess[i].state # "absent"
    /\ sess' = Revoked({i}, "signed_out")
    /\ Begin(s, Request("logout", "single", sess[i].user, i, now))
    /\ UNCHANGED <<active, now, may, loginVars>>

(* _single_logout_url: the provider is to be told, if it has an address.   *)
TellProvider(s) ==
    /\ req[s].pc = "single"
    /\ \/ UNCHANGED pending
       \/ \E q \in Relays :
            /\ pending[q].state = "new"
            /\ pending' = [pending EXCEPT ![q] = [state |-> "open", kind |-> "logout",
                                                  until |-> req[s].at + RequestTtl]]
    /\ End(s)
    /\ UNCHANGED <<active, sess, now, may, doc, seen>>

(* single_logout_service, a SAMLResponse: whatever it says, and whoever    *)
(* says it, the row it names is deleted.                                   *)
ProviderConfirms(q) ==
    /\ "logout" \in may /\ Alone
    /\ pending[q].state = "open" /\ ~Answering(q)
    /\ pending' = [pending EXCEPT ![q].state = "gone"]
    /\ UNCHANGED <<active, sess, now, req, may, doc, seen>>

(* A SAMLRequest: the provider names one of its sessions, or somebody.     *)
ProviderLogsOut(index, u) ==
    /\ "logout" \in may /\ Alone
    /\ sess' = Revoked(IF index # None THEN SessionsNamed(index) ELSE SessionsOf(u),
                       "signed_out_elsewhere")
    /\ UNCHANGED <<active, now, req, may, loginVars>>
=============================================================================
