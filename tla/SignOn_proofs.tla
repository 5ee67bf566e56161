----------------------------- MODULE SignOn_proofs -----------------------------
(* Nobody is signed in but on an answer of the provider about them, which  *)
(* is used up: for any number of people, browsers, requests and documents. *)
EXTENDS SignOn, TLAPS

Pcs == {"idle", "user", "touch", "access", "direct", "group", "issue",
        "take", "judge", "person", "accept", "single"}

LEMMA RequestType ==
    ASSUME NEW op \in {"none", "use", "sso", "acs", "logout"}, NEW pc \in Pcs,
           NEW u \in Users \cup {None}, NEW i \in Sessions \cup {None}, NEW at \in 0..MaxTime
    PROVE  Request(op, pc, u, i, at) \in ReqType
BY SessionsAssumption, LoginAssumption DEF Request, ReqType, Pcs

(* A request that comes with the cookie of a session, for an application   *)
(* or for none.                                                            *)
LEMMA CookieRequestType ==
    ASSUME TypeOK, NEW op \in {"use", "sso"}, NEW i \in Sessions, NEW a \in Apps \cup {None}
    PROVE  LET r == CookieRequest(op, i) IN
           /\ r \in ReqType /\ r.pc = "user" /\ r.sess = i /\ r.at = now
           /\ r.user = sess[i].user
           /\ [r EXCEPT !.app = a] \in ReqType /\ [r EXCEPT !.app = a].pc = "user"
           /\ [r EXCEPT !.app = a].sess = i /\ [r EXCEPT !.app = a].at = now
           /\ [r EXCEPT !.app = a].user = sess[i].user
<1> DEFINE r == Request(op, "user", sess[i].user, i, now)
<1>1. sess[i].user \in Users \cup {None} /\ sess[i].seen \in 0..MaxTime /\ now \in 0..MaxTime
    BY DEF TypeOK, SessType
<1>2. /\ r \in ReqType /\ r.pc = "user" /\ r.sess = i /\ r.at = now
      /\ r.user = sess[i].user
    <2>1. r \in ReqType
        BY <1>1, RequestType DEF Pcs
    <2> QED
        BY <2>1 DEF Request
<1>3. CookieRequest(op, i) = [r EXCEPT !.seen = sess[i].seen]
    BY DEF CookieRequest
<1> HIDE DEF r
<1> DEFINE c == CookieRequest(op, i)
<1>4. c \in ReqType /\ c.pc = "user" /\ c.sess = i /\ c.at = now /\ c.user = sess[i].user
    BY <1>1, <1>2, <1>3 DEF ReqType
<1> HIDE DEF c
<1>5. /\ [c EXCEPT !.app = a] \in ReqType /\ [c EXCEPT !.app = a].pc = "user"
      /\ [c EXCEPT !.app = a].sess = i /\ [c EXCEPT !.app = a].at = now
      /\ [c EXCEPT !.app = a].user = sess[i].user
    BY <1>4 DEF ReqType
<1> QED
    BY <1>4, <1>5 DEF c

LEMMA GoOnType ==
    ASSUME TypeOK, NEW s \in Slots, NEW pc \in Pcs, GoOn(s, pc)
    PROVE  req' \in [Slots -> ReqType]
<1>1. req[s] \in ReqType /\ req \in [Slots -> ReqType]
    BY DEF TypeOK
<1>2. [req[s] EXCEPT !.pc = pc] \in ReqType
    BY <1>1 DEF ReqType, Pcs
<1>3. req' = [req EXCEPT ![s] = [req[s] EXCEPT !.pc = pc]]
    BY DEF GoOn
<1> QED
    BY <1>1, <1>2, <1>3

LEMMA EndType ==
    ASSUME TypeOK, NEW s \in Slots, End(s)
    PROVE  req' \in [Slots -> ReqType]
<1>1. NoReq \in ReqType
    BY RequestType, SessionsAssumption DEF NoReq, Pcs
<1> QED
    BY <1>1 DEF TypeOK, End

LEMMA RevokedType ==
    ASSUME TypeOK, NEW ended,
           NEW reason \in {"signed_out", "signed_out_elsewhere", "user_deactivated"}
    PROVE  Revoked(ended, reason) \in [Sessions -> SessType]
<1>1. ASSUME NEW i \in Sessions PROVE [sess[i] EXCEPT !.state = reason] \in SessType
    <2>1. sess[i] \in SessType
        BY DEF TypeOK
    <2> QED
        BY <2>1 DEF SessType
<1> QED
    BY <1>1 DEF TypeOK, Revoked

LEMMA InitType == Init => TypeOK
<1> SUFFICES ASSUME Init PROVE TypeOK
    OBVIOUS
<1>1. NoReq \in ReqType
    BY RequestType, SessionsAssumption DEF NoReq, Pcs
<1>2. NoSession \in SessType
    BY SessionsAssumption DEF NoSession, SessType
<1>3. issued \in [Logins -> [state : {"absent", "open", "ended"}, user : Users \cup {None},
                             app : Apps \cup {None}, from : Sessions \cup {None},
                             browser : Sessions \cup {None}, at : 0..MaxTime]]
    BY SessionsAssumption DEF Init, NoLogin
<1>4. now \in 0..MaxTime
    BY SessionsAssumption DEF Init
<1>5. pending \in [Relays -> [state : {"new", "open", "gone"}, kind : {"login", "logout"},
                               until : 0..(MaxTime + RequestTtl)]]
    BY SessionsAssumption, LoginAssumption DEF Init, NoPending
<1> QED
    BY <1>1, <1>2, <1>3, <1>4, <1>5 DEF Init, TypeOK, NoDoc

-----------------------------------------------------------------------------
(* A request that is about an answer has one that the provider signed.     *)
Acs == {"take", "judge", "person", "accept"}

AcsFits ==
    \A s \in Slots : req[s].pc \in Acs =>
        req[s].relay \in Relays /\ req[s].doc \in Assertions /\ doc[req[s].doc] # NoDoc

LEMMA SessionType ==
    ASSUME TypeOK, NEW s \in Slots, SessionStep(s), UNCHANGED <<loginVars, appVars>>
    PROVE  TypeOK'
<1>1. ASSUME NEW i \in Sessions, BeginUse(s, i) PROVE TypeOK'
    <2>1. CookieRequest("use", i) \in ReqType
        BY CookieRequestType
    <2> QED
        BY <1>1, <2>1 DEF BeginUse, Begin, TypeOK, loginVars, appVars
<1>2. CASE SeeUser(s)
    BY <1>2, GoOnType, EndType, RevokedType DEF SeeUser, TypeOK, loginVars, appVars, Pcs
<1>3. CASE Touch(s)
    <2>1. sess' \in [Sessions -> SessType]
        <3> DEFINE i == req[s].sess
        <3>1. req[s].at \in 0..MaxTime /\ sess \in [Sessions -> SessType]
            BY DEF TypeOK, ReqType
        <3>2. ASSUME i \in Sessions PROVE [sess[i] EXCEPT !.seen = req[s].at] \in SessType
            <4>1. sess[i] \in SessType
                BY <3>1, <3>2
            <4> QED
                BY <3>1, <4>1 DEF SessType
        <3>3. [sess EXCEPT ![i].seen = req[s].at] \in [Sessions -> SessType]
            BY <3>1, <3>2
        <3> QED
            BY <1>3, <3>1, <3>3 DEF Touch
    <2>2. req' \in [Slots -> ReqType]
        BY <1>3, GoOnType, EndType DEF Touch, Pcs
    <2> QED
        BY <1>3, <2>1, <2>2 DEF Touch, TypeOK, loginVars, appVars
<1>4. CASE Abort(s)
    BY <1>4, EndType DEF Abort, TypeOK, loginVars, appVars
<1> QED
    BY <1>1, <1>2, <1>3, <1>4 DEF SessionStep

LEMMA LoginType ==
    ASSUME TypeOK, AcsFits, NEW s \in Slots, LoginStep(s), UNCHANGED appVars
    PROVE  TypeOK'
<1> DEFINE Pending == [Relays -> [state : {"new", "open", "gone"}, kind : {"login", "logout"},
                                  until : 0..(MaxTime + RequestTtl)]]
<1>0. RequestGone(s) \in Pending
    <2> DEFINE q == req[s].relay
    <2>1. pending \in Pending
        BY DEF TypeOK
    <2>2. ASSUME q \in Relays PROVE [pending[q] EXCEPT !.state = "gone"] \in
              [state : {"new", "open", "gone"}, kind : {"login", "logout"},
               until : 0..(MaxTime + RequestTtl)]
        BY <2>1, <2>2
    <2> QED
        BY <2>1, <2>2 DEF RequestGone
<1>1. ASSUME NEW q \in Relays, NEW x \in Assertions, BeginAcs(s, q, x) PROVE TypeOK'
    <2>1. Request("acs", "take", None, None, now) \in ReqType
        BY RequestType DEF TypeOK, Pcs
    <2>2. [Request("acs", "take", None, None, now)
           EXCEPT !.relay = q, !.doc = x, !.due = pending[q].until] \in ReqType
        BY <2>1 DEF ReqType, TypeOK
    <2> QED
        BY <1>1, <2>2 DEF BeginAcs, Begin, TypeOK, loginVars, appVars
<1>2. CASE TakeRequest(s)
    BY <1>2, GoOnType DEF TakeRequest, TypeOK, loginVars, appVars, Pcs
<1>3. CASE JudgeAnswer(s)
    BY <1>0, <1>3, GoOnType, EndType DEF JudgeAnswer, RefuseLogin, TypeOK, appVars, Pcs
<1>4. CASE SeePerson(s)
    BY <1>0, <1>4, GoOnType, EndType DEF SeePerson, RefuseLogin, TypeOK, appVars, Pcs
<1>5. ASSUME NEW i \in Sessions, Accept(s, i) PROVE TypeOK'
    <2> DEFINE r == req[s]
               d == doc[r.doc]
    <2>1. r \in ReqType /\ r.doc \in Assertions
        BY <1>5 DEF TypeOK, AcsFits, Acs, Accept
    <2>2. d.user \in Users \cup {None} /\ d.index \in Indexes \cup {None}
          /\ d.until \in Nat \cup {None} /\ r.at \in 0..MaxTime
        BY <2>1 DEF TypeOK, ReqType
    <2>3. NewSession(d.user, d.index, r.relay, r.doc, r.at) \in SessType
        BY <2>1, <2>2, SessionsAssumption DEF NewSession, SessType, ReqType
    <2>4. seen' \in [Assertions -> Nat \cup {None}]
        BY <1>5, <2>2, SessionsAssumption, LoginAssumption DEF Accept, Remember, TypeOK
    <2>5. sess' \in [Sessions -> SessType]
        BY <1>5, <2>3 DEF Accept, TypeOK
    <2> QED
        BY <1>0, <1>5, <2>4, <2>5, EndType DEF Accept, TypeOK, appVars
<1>6. ASSUME NEW i \in Sessions, BeginLogout(s, i) PROVE TypeOK'
    <2>1. Request("logout", "single", sess[i].user, i, now) \in ReqType
        BY RequestType DEF TypeOK, SessType, Pcs
    <2> QED
        BY <1>6, <2>1, RevokedType DEF BeginLogout, Begin, TypeOK, loginVars, appVars
<1>7. CASE TellProvider(s)
    <2>1. pending' \in Pending
        <3>1. CASE UNCHANGED pending
            BY <3>1 DEF TypeOK
        <3>2. ASSUME NEW q \in Relays,
                     pending' = [pending EXCEPT ![q] = [state |-> "open", kind |-> "logout",
                                                        until |-> req[s].at + RequestTtl]]
              PROVE  pending' \in Pending
            <4>1. req[s].at + RequestTtl \in 0..(MaxTime + RequestTtl)
                BY SessionsAssumption, LoginAssumption DEF TypeOK, ReqType
            <4> QED
                BY <3>2, <4>1 DEF TypeOK
        <3> QED
            BY <1>7, <3>1, <3>2 DEF TellProvider
    <2> QED
        BY <1>7, <2>1, EndType DEF TellProvider, TypeOK, appVars
<1> QED
    BY <1>1, <1>2, <1>3, <1>4, <1>5, <1>6, <1>7 DEF LoginStep

LEMMA ProviderType ==
    ASSUME TypeOK, ProviderStep, UNCHANGED appVars
    PROVE  TypeOK'
<1>1. ASSUME NEW q \in Relays, StartLogin(q) PROVE TypeOK'
    <2>1. now + RequestTtl \in 0..(MaxTime + RequestTtl)
        BY SessionsAssumption, LoginAssumption DEF TypeOK
    <2>2. pending' \in [Relays -> [state : {"new", "open", "gone"}, kind : {"login", "logout"},
                                   until : 0..(MaxTime + RequestTtl)]]
        BY <1>1, <2>1 DEF StartLogin, TypeOK
    <2> QED
        BY <1>1, <2>2 DEF StartLogin, TypeOK, appVars
<1>2. ASSUME NEW q \in Relays, ProviderConfirms(q) PROVE TypeOK'
    BY <1>2 DEF ProviderConfirms, TypeOK, appVars
<1>3. ASSUME NEW x \in Assertions, NEW q \in Relays, NEW u \in Users, NEW index \in Indexes,
             NEW until \in {None, now + Validity}, ProviderAnswers(x, q, u, index, until)
      PROVE  TypeOK'
    <2>1. until \in Nat \cup {None}
        BY SessionsAssumption, LoginAssumption DEF TypeOK
    <2> QED
        BY <1>3, <2>1 DEF ProviderAnswers, TypeOK, appVars
<1>4. ASSUME NEW u \in Users, NEW index \in Indexes \cup {None}, ProviderLogsOut(index, u)
      PROVE  TypeOK'
    BY <1>4, RevokedType DEF ProviderLogsOut, TypeOK, loginVars, appVars
<1> QED
    BY <1>1, <1>2, <1>3, <1>4 DEF ProviderStep

LEMMA AppType ==
    ASSUME TypeOK, NEW s \in Slots, AppStep(s), UNCHANGED loginVars
    PROVE  TypeOK'
<1>1. ASSUME NEW i \in Sessions, NEW a \in Apps, BeginSso(s, i, a) PROVE TypeOK'
    <2>2. [CookieRequest("sso", i) EXCEPT !.app = a] \in ReqType
        BY CookieRequestType
    <2> QED
        BY <1>1, <2>2 DEF BeginSso, Begin, TypeOK, loginVars, appVars
<1>2. CASE SeeAgain(s) \/ SeeDirect(s) \/ SeeGroup(s)
    BY <1>2, GoOnType, EndType
       DEF SeeAgain, SeeDirect, SeeGroup, RefuseSso, TypeOK, loginVars, appVars, Pcs
<1>3. ASSUME NEW l \in Logins, Issue(s, l) PROVE TypeOK'
    <2>1. issued' \in [Logins -> [state : {"absent", "open", "ended"}, user : Users \cup {None},
                                  app : Apps \cup {None}, from : Sessions \cup {None},
                                  browser : Sessions \cup {None}, at : 0..MaxTime]]
        BY <1>3 DEF Issue, TypeOK, ReqType
    <2> QED
        BY <1>3, <2>1, EndType DEF Issue, TypeOK, loginVars
<1> QED
    BY <1>1, <1>2, <1>3 DEF AppStep

LEMMA SignOutType ==
    ASSUME TypeOK, NEW l \in Logins, SignOut(l), UNCHANGED loginVars
    PROVE  TypeOK'
<1> DEFINE Row == [state : {"absent", "open", "ended"}, user : Users \cup {None},
                          app : Apps \cup {None}, from : Sessions \cup {None},
                          browser : Sessions \cup {None}, at : 0..MaxTime]
<1>1. issued \in [Logins -> Row]
    BY DEF TypeOK
<1>2. [issued[l] EXCEPT !.state = "ended"] \in Row
    BY <1>1
<1>3. issued' \in [Logins -> Row]
    BY <1>1, <1>2 DEF SignOut
<1>4. sess' \in [Sessions -> SessType]
    BY RevokedType DEF SignOut, TypeOK
<1> QED
    BY <1>3, <1>4 DEF SignOut, TypeOK, loginVars

LEMMA AppLogoutType ==
    ASSUME TypeOK, AppLogout, UNCHANGED loginVars
    PROVE  TypeOK'
BY SignOutType DEF AppLogout, ByIndex, BySubject, Newest, OpenAt

LEMMA AssignmentType ==
    ASSUME TypeOK, Assignment, UNCHANGED loginVars
    PROVE  TypeOK'
BY DEF Assignment, AssignUser, UnassignUser, AssignGroup, UnassignGroup, Assign, TypeOK, loginVars

LEMMA LeaveAppsType ==
    ASSUME TypeOK, NEW u \in Users, LeaveApps(u), UNCHANGED loginVars
    PROVE  TypeOK'
BY RevokedType DEF LeaveApps, Leave, TypeOK, loginVars

LEMMA PeopleType ==
    ASSUME TypeOK, PeopleStep, UNCHANGED <<loginVars, appVars>>
    PROVE  TypeOK'
<1>1. ASSUME NEW u \in Users, SwitchOff(u) \/ SwitchOn(u) PROVE TypeOK'
    BY <1>1 DEF SwitchOff, SwitchOn, TypeOK, loginVars, appVars
<1>2. CASE Tick
    <2>1. now' \in 0..MaxTime
        BY <1>2, SessionsAssumption DEF Tick, TypeOK
    <2> QED
        BY <1>2, <2>1 DEF Tick, TypeOK, loginVars, appVars
<1> QED
    BY <1>1, <1>2 DEF PeopleStep

LEMMA TypeStep == TypeOK /\ AcsFits /\ [Next]_vars => TypeOK'
<1> SUFFICES ASSUME TypeOK, AcsFits, [Next]_vars PROVE TypeOK'
    OBVIOUS
<1>1. CASE UNCHANGED vars
    BY <1>1 DEF vars, TypeOK
<1> QED
    BY <1>1, SessionType, LoginType, ProviderType, AppType, AppLogoutType, AssignmentType,
       LeaveAppsType, PeopleType DEF Next

-----------------------------------------------------------------------------
(* What one step leaves as it is.                                          *)

(* Whose session it is and on which answer it stands never change, and     *)
(* none is opened again.                                                   *)
SessionsKept ==
    \A i \in Sessions :
        /\ sess'[i].state = "absent" <=> sess[i].state = "absent"
        /\ sess'[i].state = "open" => sess[i].state = "open"
        /\ sess'[i].user = sess[i].user
        /\ sess'[i].request = sess[i].request /\ sess'[i].assertion = sess[i].assertion

DocsKept == \A x \in Assertions : doc[x] # NoDoc => doc'[x] = doc[x]

GonesKept == \A q \in Relays : pending[q].state = "gone" => pending'[q].state = "gone"

LEMMA SameSessions == UNCHANGED sess => SessionsKept
BY DEF SessionsKept

LEMMA RevokedKept ==
    ASSUME TypeOK, NEW ended,
           NEW reason \in {"signed_out", "signed_out_elsewhere", "user_deactivated"},
           sess' = Revoked(ended, reason)
    PROVE  SessionsKept
<1> SUFFICES ASSUME NEW i \in Sessions
             PROVE  /\ sess'[i].state = "absent" <=> sess[i].state = "absent"
                    /\ sess'[i].state = "open" => sess[i].state = "open"
                    /\ sess'[i].user = sess[i].user
                    /\ sess'[i].request = sess[i].request
                    /\ sess'[i].assertion = sess[i].assertion
    BY DEF SessionsKept
<1>1. sess[i] \in SessType
    BY DEF TypeOK
<1>2. CASE i \in ended /\ Open(i)
    <2>1. sess'[i] = [sess[i] EXCEPT !.state = reason]
        BY <1>2 DEF Revoked
    <2> QED
        BY <1>1, <1>2, <2>1 DEF SessType, Open
<1>3. CASE ~(i \in ended /\ Open(i))
    BY <1>3 DEF Revoked
<1> QED
    BY <1>2, <1>3

LEMMA TouchKept ==
    ASSUME TypeOK, NEW s \in Slots, Touch(s)
    PROVE  SessionsKept
<1> DEFINE i == req[s].sess
<1>1. CASE UNCHANGED sess
    BY <1>1, SameSessions
<1>2. CASE sess' = [sess EXCEPT ![i].seen = req[s].at]
    <2>1. sess \in [Sessions -> SessType]
        BY DEF TypeOK
    <2>2. \A j \in Sessions : sess'[j] = IF j = i THEN [sess[j] EXCEPT !.seen = req[s].at]
                                         ELSE sess[j]
        BY <1>2, <2>1
    <2> QED
        BY <2>1, <2>2 DEF SessionsKept, SessType
<1> QED
    BY <1>1, <1>2 DEF Touch

LEMMA RequestGoneKept ==
    ASSUME TypeOK, NEW s \in Slots, pending' = RequestGone(s)
    PROVE  GonesKept
<1> DEFINE q == req[s].relay
<1>1. \A p \in Relays : pending'[p] = IF p = q THEN [pending[p] EXCEPT !.state = "gone"]
                                      ELSE pending[p]
    BY DEF RequestGone, TypeOK
<1>2. \A p \in Relays : [pending[p] EXCEPT !.state = "gone"].state = "gone"
    BY DEF TypeOK
<1> QED
    BY <1>1, <1>2 DEF GonesKept

LEMMA KeptByLogins ==
    ASSUME TypeOK, NEW s \in Slots, LoginStep(s)
    PROVE  DocsKept /\ GonesKept /\ (SessionsKept \/ \E i \in Sessions : Accept(s, i))
<1>1. UNCHANGED doc
    BY DEF LoginStep, BeginAcs, TakeRequest, JudgeAnswer, SeePerson, Accept, BeginLogout,
           TellProvider, loginVars
<1>2. GonesKept
    <2>1. CASE UNCHANGED pending
        BY <2>1 DEF GonesKept
    <2>2. CASE pending' = RequestGone(s)
        BY <2>2, RequestGoneKept
    <2>3. CASE TellProvider(s)
        BY <2>3 DEF TellProvider, GonesKept, TypeOK
    <2> QED
        BY <2>1, <2>2, <2>3 DEF LoginStep, BeginAcs, TakeRequest, JudgeAnswer, SeePerson, Accept,
           RefuseLogin, BeginLogout, loginVars
<1>3. SessionsKept \/ \E i \in Sessions : Accept(s, i)
    <2>1. ASSUME NEW i \in Sessions, BeginLogout(s, i) PROVE SessionsKept
        BY <2>1, RevokedKept DEF BeginLogout
    <2> QED
        BY <2>1, SameSessions DEF LoginStep, BeginAcs, TakeRequest, JudgeAnswer, SeePerson,
           TellProvider
<1> QED
    BY <1>1, <1>2, <1>3 DEF DocsKept

LEMMA KeptByProvider ==
    ASSUME TypeOK, ProviderStep
    PROVE  DocsKept /\ GonesKept /\ SessionsKept
<1>1. ASSUME NEW q \in Relays, StartLogin(q) PROVE DocsKept /\ GonesKept /\ SessionsKept
    BY <1>1, SameSessions DEF StartLogin, DocsKept, GonesKept, Expired, TypeOK
<1>2. ASSUME NEW q \in Relays, ProviderConfirms(q) PROVE DocsKept /\ GonesKept /\ SessionsKept
    BY <1>2, SameSessions DEF ProviderConfirms, DocsKept, GonesKept, TypeOK
<1>3. ASSUME NEW x \in Assertions, NEW q \in Relays, NEW u \in Users, NEW index \in Indexes,
             NEW until, ProviderAnswers(x, q, u, index, until)
      PROVE  DocsKept /\ GonesKept /\ SessionsKept
    BY <1>3, SameSessions DEF ProviderAnswers, DocsKept, GonesKept, TypeOK
<1>4. ASSUME NEW u \in Users, NEW index \in Indexes \cup {None}, ProviderLogsOut(index, u)
      PROVE  DocsKept /\ GonesKept /\ SessionsKept
    BY <1>4, RevokedKept DEF ProviderLogsOut, loginVars, DocsKept, GonesKept
<1> QED
    BY <1>1, <1>2, <1>3, <1>4 DEF ProviderStep

LEMMA Kept ==
    ASSUME TypeOK, [Next]_vars
    PROVE  /\ DocsKept /\ GonesKept /\ UNCHANGED may
           /\ SessionsKept \/ \E s \in Slots, i \in Sessions : Accept(s, i)
<1>1. UNCHANGED may
    BY DEF Next, vars, SessionStep, BeginUse, SeeUser, Touch, Abort, LoginStep, BeginAcs,
       TakeRequest, JudgeAnswer, SeePerson, Accept, BeginLogout, TellProvider, ProviderStep,
       StartLogin, ProviderConfirms, ProviderAnswers, ProviderLogsOut, AppStep, BeginSso,
       SeeAgain, SeeDirect, SeeGroup, Issue, AppLogout, SignOut, LeaveApps, Leave, Assignment,
       AssignUser, UnassignUser, AssignGroup, UnassignGroup, Assign, PeopleStep, SwitchOff,
       SwitchOn, Tick
<1>2. CASE UNCHANGED <<doc, pending>> /\ SessionsKept
    BY <1>1, <1>2 DEF DocsKept, GonesKept
<1>3. ASSUME NEW s \in Slots, SessionStep(s) PROVE SessionsKept
    BY <1>3, SameSessions, RevokedKept, TouchKept
       DEF SessionStep, BeginUse, SeeUser, Abort
<1>4. ASSUME NEW s \in Slots, AppStep(s) PROVE SessionsKept
    BY <1>4, SameSessions DEF AppStep, BeginSso, SeeAgain, SeeDirect, SeeGroup, Issue
<1>5. ASSUME NEW l \in Logins, SignOut(l) PROVE SessionsKept
    BY <1>5, SameSessions, RevokedKept DEF SignOut
<1>6. ASSUME NEW u \in Users, LeaveApps(u) PROVE SessionsKept
    BY <1>6, RevokedKept DEF LeaveApps, Leave
<1>7. ASSUME Assignment \/ PeopleStep \/ UNCHANGED vars PROVE SessionsKept
    <2>1. UNCHANGED sess
        BY <1>7 DEF Assignment, AssignUser, UnassignUser, AssignGroup, UnassignGroup,
           Assign, PeopleStep, SwitchOff, SwitchOn, Tick, vars
    <2> QED
        BY <2>1, SameSessions
<1>8. AppLogout => SessionsKept
    BY <1>5 DEF AppLogout, ByIndex, BySubject, Newest, OpenAt
<1> QED
    BY <1>1, <1>2, <1>3, <1>4, <1>6, <1>7, <1>8, KeptByLogins, KeptByProvider
       DEF Next, loginVars, vars

-----------------------------------------------------------------------------
(* How the requests being served move.                                     *)

(* A request that somebody makes with their cookie.                        *)
Using == {"user", "touch", "access", "direct", "group", "issue"}

Moves ==
    \/ UNCHANGED req
    \/ \E s \in Slots :
        \/ End(s)
        \/ req[s].pc = "user" /\ GoOn(s, "touch") /\ UNCHANGED sess
        \/ req[s].pc \in Using /\ \E pc \in Using \ {"user", "touch"} : GoOn(s, pc)
        \/ \E r \in ReqType : r.pc = "single" /\ Begin(s, r)
        \/ \E r \in ReqType :
               /\ r.pc = "user" /\ Begin(s, r) /\ UNCHANGED <<sess, now>>
               /\ r.sess \in Sessions /\ Live(r.sess, now) /\ r.at = now
               /\ r.user = sess[r.sess].user
        \/ \E q \in Relays, x \in Assertions : BeginAcs(s, q, x)
        \/ TakeRequest(s)
        \/ req[s].pc = "judge" /\ Believed(s) /\ GoOn(s, "person") /\ UNCHANGED pending
        \/ req[s].pc = "person" /\ GoOn(s, "accept") /\ UNCHANGED pending

LEMMA ReqMoves ==
    ASSUME TypeOK, [Next]_vars
    PROVE  Moves
<1>1. ASSUME NEW s \in Slots, SessionStep(s) PROVE Moves
    <2>1. ASSUME NEW i \in Sessions, BeginUse(s, i) PROVE Moves
        <3> DEFINE r == CookieRequest("use", i)
        <3>1. /\ r \in ReqType /\ r.pc = "user" /\ r.sess = i /\ r.at = now
              /\ r.user = sess[i].user
            BY CookieRequestType
        <3>2. Begin(s, r) /\ Live(i, now) /\ UNCHANGED <<sess, now>>
            BY <2>1 DEF BeginUse
        <3> HIDE DEF r
        <3> QED
            BY <3>1, <3>2 DEF Moves
    <2> QED
        BY <1>1, <2>1 DEF SessionStep, SeeUser, Touch, Abort, Moves, Using
<1>2. ASSUME NEW s \in Slots, LoginStep(s) PROVE Moves
    <2>1. ASSUME NEW i \in Sessions, BeginLogout(s, i) PROVE Moves
        <3>1. Request("logout", "single", sess[i].user, i, now) \in ReqType
            BY RequestType DEF TypeOK, SessType, Pcs
        <3> QED
            BY <2>1, <3>1 DEF BeginLogout, Moves, Request
    <2>2. CASE JudgeAnswer(s) \/ SeePerson(s)
        BY <2>2 DEF JudgeAnswer, SeePerson, RefuseLogin, Moves
    <2> QED
        BY <1>2, <2>1, <2>2 DEF LoginStep, Accept, TellProvider, Moves
<1>3. ASSUME NEW s \in Slots, AppStep(s) PROVE Moves
    <2>1. ASSUME NEW i \in Sessions, NEW a \in Apps, BeginSso(s, i, a) PROVE Moves
        <3> DEFINE r == CookieRequest("sso", i)
        <3>2. /\ [r EXCEPT !.app = a] \in ReqType /\ [r EXCEPT !.app = a].pc = "user"
              /\ [r EXCEPT !.app = a].sess = i /\ [r EXCEPT !.app = a].at = now
              /\ [r EXCEPT !.app = a].user = sess[i].user
            BY CookieRequestType
        <3> HIDE DEF r
        <3>3. Begin(s, [r EXCEPT !.app = a]) /\ Live(i, now) /\ UNCHANGED <<sess, now>>
            BY <2>1 DEF BeginSso, r
        <3> QED
            BY <3>2, <3>3 DEF Moves
    <2> QED
        BY <1>3, <2>1 DEF AppStep, SeeAgain, SeeDirect, SeeGroup, RefuseSso, Issue, Moves, Using
<1>4. CASE ProviderStep \/ AppLogout \/ Assignment \/ PeopleStep \/ UNCHANGED vars
           \/ \E u \in Users : LeaveApps(u)
    <2>1. UNCHANGED req
        BY <1>4 DEF ProviderStep, StartLogin, ProviderConfirms, ProviderAnswers, ProviderLogsOut,
           AppLogout, SignOut, Assignment, AssignUser, UnassignUser, AssignGroup, UnassignGroup,
           Assign, PeopleStep, SwitchOff, SwitchOn, Tick, LeaveApps, Leave, vars
    <2> QED
        BY <2>1 DEF Moves
<1> QED
    BY <1>1, <1>2, <1>3, <1>4 DEF Next

-----------------------------------------------------------------------------
(* An answer that is believed is an answer to the very request it came     *)
(* back with, and stays one.                                               *)
BelievedFits ==
    \A s \in Slots : req[s].pc \in {"person", "accept"} => doc[req[s].doc].request = req[s].relay

LEMMA BelievedAnswers ==
    ASSUME TypeOK, AcsFits, NEW s \in Slots, req[s].pc = "judge", Believed(s)
    PROVE  doc[req[s].doc].request = req[s].relay
<1> DEFINE d == doc[req[s].doc]
           f == Facts(req[s].doc, d.request, d.until)
           e == Expectations(req[s].relay, Skew, TRUE)
<1>1. FailedChecks(f, e, req[s].at, Remembered) = {}
    BY DEF Believed, AllPassed
<1>2. "in_response_to" \in Checks
    BY DEF Checks
<1>3. CheckInResponseTo(f, e)
    BY <1>1, <1>2 DEF FailedChecks
<1>4. Quoted(f) = req[s].relay /\ req[s].relay # None
    BY <1>3, LoginAssumption DEF CheckInResponseTo, Expectations, AcsFits, Acs
<1> QED
    BY <1>4 DEF Quoted, Facts

(* What is being answered goes on being what it was.                       *)
LEMMA AnswersStep ==
    ASSUME TypeOK, AcsFits, BelievedFits, [Next]_vars
    PROVE  AcsFits' /\ BelievedFits'
<1> DEFINE Fit(s) ==
        /\ req[s].pc \in Acs =>
               req[s].relay \in Relays /\ req[s].doc \in Assertions /\ doc[req[s].doc] # NoDoc
        /\ req[s].pc \in {"person", "accept"} => doc[req[s].doc].request = req[s].relay
<1>0. Moves /\ DocsKept /\ req \in [Slots -> ReqType]
    BY ReqMoves, Kept DEF TypeOK
<1>1. ASSUME NEW t \in Slots, req'[t] = req[t] PROVE Fit(t)'
    BY <1>0, <1>1 DEF AcsFits, BelievedFits, DocsKept, Acs
<1>2. ASSUME NEW t \in Slots, req'[t].pc \notin Acs PROVE Fit(t)'
    BY <1>2 DEF Acs
<1>3. ASSUME NEW t \in Slots, req[t].pc \in Acs, req'[t].relay = req[t].relay,
             req'[t].doc = req[t].doc,
             req'[t].pc \in {"person", "accept"} => doc[req[t].doc].request = req[t].relay
      PROVE  Fit(t)'
    BY <1>0, <1>3 DEF AcsFits, DocsKept, Acs
<1>4. ASSUME NEW s \in Slots, NEW t \in Slots, t # s, \E r : req' = [req EXCEPT ![s] = r]
      PROVE  Fit(t)'
    BY <1>0, <1>1, <1>4
<1>5. ASSUME NEW s \in Slots, NEW pc, GoOn(s, pc)
      PROVE  /\ req' = [req EXCEPT ![s] = [req[s] EXCEPT !.pc = pc]]
             /\ req'[s].pc = pc /\ req'[s].relay = req[s].relay /\ req'[s].doc = req[s].doc
    BY <1>0, <1>5 DEF GoOn, ReqType
<1>6. ASSUME NEW s \in Slots, End(s) PROVE \A t \in Slots : Fit(t)'
    <2>1. req'[s].pc = "idle"
        BY <1>0, <1>6 DEF End, NoReq, Request
    <2> QED
        BY <1>2, <1>4, <1>6, <2>1 DEF End, Acs
<1>7. ASSUME NEW s \in Slots, NEW pc \in Using \ {"user"}, GoOn(s, pc)
      PROVE  \A t \in Slots : Fit(t)'
    BY <1>2, <1>4, <1>5, <1>7 DEF Acs, Using
<1>8. ASSUME NEW s \in Slots, NEW r \in ReqType, r.pc \in {"user", "single"}, Begin(s, r)
      PROVE  \A t \in Slots : Fit(t)'
    <2>1. req'[s] = r
        BY <1>0, <1>8 DEF Begin
    <2> QED
        BY <1>2, <1>4, <1>8, <2>1 DEF Begin, Acs
<1>9. ASSUME NEW s \in Slots, NEW q \in Relays, NEW x \in Assertions, BeginAcs(s, q, x)
      PROVE  \A t \in Slots : Fit(t)'
    <2> DEFINE r == [Request("acs", "take", None, None, now)
                     EXCEPT !.relay = q, !.doc = x, !.due = pending[q].until]
    <2>1. r.pc = "take" /\ r.relay = q /\ r.doc = x
        BY DEF Request
    <2>2. req' = [req EXCEPT ![s] = r] /\ doc[x] # NoDoc /\ UNCHANGED doc
        BY <1>9 DEF BeginAcs, Begin, loginVars
    <2> HIDE DEF r
    <2>3. req'[s] = r
        BY <1>0, <2>2
    <2>4. Fit(s)'
        BY <2>1, <2>2, <2>3
    <2> QED
        BY <1>4, <2>2, <2>4
<1>10. ASSUME NEW s \in Slots,
              \/ TakeRequest(s)
              \/ req[s].pc = "judge" /\ Believed(s) /\ GoOn(s, "person")
              \/ req[s].pc = "person" /\ GoOn(s, "accept")
       PROVE  \A t \in Slots : Fit(t)'
    <2>1. PICK pc \in {"judge", "person", "accept"} :
              /\ GoOn(s, pc) /\ req[s].pc \in Acs
              /\ pc \in {"person", "accept"} => doc[req[s].doc].request = req[s].relay
        BY <1>10, BelievedAnswers DEF TakeRequest, BelievedFits, Acs
    <2>2. Fit(s)'
        BY <1>3, <1>5, <2>1
    <2> QED
        BY <1>4, <1>5, <2>1, <2>2
<1>11. \A t \in Slots : Fit(t)'
    BY <1>0, <1>1, <1>6, <1>7, <1>8, <1>9, <1>10 DEF Moves, Using
<1> QED
    BY <1>11 DEF AcsFits, BelievedFits

-----------------------------------------------------------------------------
(* Every session stands on an answer about that person to a request of     *)
(* ours that is gone.                                                      *)
Earned ==
    \A i \in Sessions : sess[i].state # "absent" =>
        /\ sess[i].request \in Relays /\ sess[i].assertion \in Assertions
        /\ doc[sess[i].assertion] # NoDoc
        /\ doc[sess[i].assertion].request = sess[i].request
        /\ doc[sess[i].assertion].user = sess[i].user
        /\ pending[sess[i].request].state = "gone"

LEMMA AcceptedRow ==
    ASSUME TypeOK, AcsFits, NEW s \in Slots, NEW i \in Sessions, Accept(s, i)
    PROVE  /\ sess'[i].request = req[s].relay /\ sess'[i].assertion = req[s].doc
           /\ sess'[i].user = doc[req[s].doc].user
           /\ \A j \in Sessions \ {i} : sess'[j] = sess[j]
           /\ pending'[req[s].relay].state = "gone"
           /\ UNCHANGED doc
<1>1. req[s].relay \in Relays
    BY DEF AcsFits, Acs, Accept
<1>2. pending'[req[s].relay] = [pending[req[s].relay] EXCEPT !.state = "gone"]
    BY <1>1 DEF Accept, RequestGone, TypeOK
<1>3. sess' = [sess EXCEPT ![i] = NewSession(doc[req[s].doc].user, doc[req[s].doc].index,
                                             req[s].relay, req[s].doc, req[s].at)]
    BY DEF Accept
<1> QED
    BY <1>1, <1>2, <1>3 DEF Accept, NewSession, TypeOK

LEMMA EarnedStep ==
    ASSUME TypeOK, AcsFits, BelievedFits, Earned, [Next]_vars
    PROVE  Earned'
<1>1. DocsKept /\ GonesKept
    BY Kept
<1>2. ASSUME NEW i \in Sessions, sess'[i].state # "absent", sess[i].state # "absent",
             sess'[i].user = sess[i].user, sess'[i].request = sess[i].request,
             sess'[i].assertion = sess[i].assertion
      PROVE  /\ sess'[i].request \in Relays /\ sess'[i].assertion \in Assertions
             /\ doc'[sess'[i].assertion] # NoDoc
             /\ doc'[sess'[i].assertion].request = sess'[i].request
             /\ doc'[sess'[i].assertion].user = sess'[i].user
             /\ pending'[sess'[i].request].state = "gone"
    BY <1>1, <1>2 DEF Earned, DocsKept, GonesKept
<1>3. CASE SessionsKept
    BY <1>2, <1>3 DEF SessionsKept, Earned
<1>4. ASSUME NEW s \in Slots, NEW i \in Sessions, Accept(s, i) PROVE Earned'
    <2>1. /\ req[s].relay \in Relays /\ req[s].doc \in Assertions /\ doc[req[s].doc] # NoDoc
          /\ doc[req[s].doc].request = req[s].relay
        BY <1>4 DEF Accept, AcsFits, BelievedFits, Acs
    <2> QED
        BY <1>2, <1>4, <2>1, AcceptedRow DEF Earned
<1> QED
    BY <1>3, <1>4, Kept

-----------------------------------------------------------------------------
(* One request at a time: a login that is being answered has its request   *)
(* still open, so that no two sessions stand on the same one.              *)
OneAtATime ==
    Serial =>
        /\ \A s, t \in Slots : req[s].pc # "idle" /\ req[t].pc # "idle" => s = t
        /\ \A s \in Slots : req[s].pc \in Acs => pending[req[s].relay].state = "open"
        /\ \A i, j \in Sessions :
               sess[i].state # "absent" /\ sess[j].state # "absent" /\ i # j =>
                   sess[i].request # sess[j].request

(* An open request stays open, unless nothing is being served afterwards.  *)
LEMMA OpenKept ==
    ASSUME TypeOK, OneAtATime, Serial, [Next]_vars
    PROVE  \/ \A q \in Relays : pending[q].state = "open" => pending'[q].state = "open"
           \/ \A s \in Slots : req'[s].pc = "idle"
<1> DEFINE Goal == \/ \A q \in Relays : pending[q].state = "open" => pending'[q].state = "open"
                   \/ \A s \in Slots : req'[s].pc = "idle"
<1>1. CASE UNCHANGED pending
    BY <1>1
<1>2. ASSUME NEW s \in Slots, req[s].pc # "idle", End(s) PROVE Goal
    <2>1. \A t \in Slots : req'[t] = IF t = s THEN NoReq ELSE req[t]
        BY <1>2 DEF End, TypeOK
    <2>2. \A t \in Slots : t # s => req[t].pc = "idle"
        BY <1>2 DEF OneAtATime
    <2> QED
        BY <2>1, <2>2 DEF NoReq, Request
<1>3. ASSUME Alone, UNCHANGED req PROVE Goal
    BY <1>3 DEF Alone, Serial
<1>4. ASSUME NEW s \in Slots, LoginStep(s) PROVE Goal
    <2>1. CASE TellProvider(s)
        BY <1>2, <2>1 DEF TellProvider
    <2>2. CASE \E i \in Sessions : Accept(s, i)
        BY <1>2, <2>2 DEF Accept
    <2>3. CASE JudgeAnswer(s) \/ SeePerson(s)
        BY <1>1, <1>2, <2>3 DEF JudgeAnswer, SeePerson, RefuseLogin
    <2> QED
        BY <1>1, <1>4, <2>1, <2>2, <2>3 DEF LoginStep, BeginAcs, TakeRequest, BeginLogout, loginVars
<1>5. ASSUME ProviderStep PROVE Goal
    BY <1>1, <1>3, <1>5 DEF ProviderStep, StartLogin, ProviderConfirms, ProviderAnswers,
       ProviderLogsOut, loginVars
<1> QED
    BY <1>1, <1>4, <1>5 DEF Next, loginVars, vars

LEMMA OneAtATimeStep ==
    ASSUME TypeOK, AcsFits, BelievedFits, Earned, OneAtATime, [Next]_vars
    PROVE  OneAtATime'
<1> SUFFICES ASSUME Serial PROVE OneAtATime'
    BY Kept DEF OneAtATime, Serial
<1>0. /\ req \in [Slots -> ReqType] /\ Moves
      /\ \A s, t \in Slots : req[s].pc # "idle" /\ req[t].pc # "idle" => s = t
      /\ \A s \in Slots : req[s].pc \in Acs => pending[req[s].relay].state = "open"
      /\ \A s \in Slots : req[s].pc \in Acs => req[s].relay \in Relays
    BY ReqMoves DEF TypeOK, OneAtATime, AcsFits
<1>1. \/ UNCHANGED req
      \/ \E s \in Slots : /\ \A t \in Slots \ {s} : req'[t] = req[t]
                          /\ \/ req[s].pc # "idle"
                             \/ \A t \in Slots : req[t].pc = "idle"
                             \/ req'[s].pc = "idle"
                          /\ \/ req'[s].pc \notin Acs
                             \/ req[s].pc \in Acs /\ req'[s].relay = req[s].relay
                             \/ /\ req'[s].relay \in Relays /\ UNCHANGED pending
                                /\ pending[req'[s].relay].state = "open"
    <2>1. ASSUME NEW s \in Slots, End(s)
          PROVE  req'[s].pc = "idle" /\ \A t \in Slots \ {s} : req'[t] = req[t]
        BY <1>0, <2>1 DEF End, NoReq, Request
    <2>2. ASSUME NEW s \in Slots, NEW pc, GoOn(s, pc)
          PROVE  /\ req'[s].pc = pc /\ req'[s].relay = req[s].relay
                 /\ \A t \in Slots \ {s} : req'[t] = req[t]
        BY <1>0, <2>2 DEF GoOn, ReqType
    <2>3. ASSUME NEW s \in Slots, NEW r \in ReqType, r.pc \in {"user", "single"}, Begin(s, r)
          PROVE  /\ req'[s].pc \notin Acs /\ \A t \in Slots : req[t].pc = "idle"
                 /\ \A t \in Slots \ {s} : req'[t] = req[t]
        BY <1>0, <2>3 DEF Begin, Alone, Serial, Acs
    <2>4. ASSUME NEW s \in Slots, NEW q \in Relays, NEW x \in Assertions, BeginAcs(s, q, x)
          PROVE  /\ req'[s].relay = q /\ UNCHANGED pending /\ pending[q].state = "open"
                 /\ \A t \in Slots : req[t].pc = "idle"
                 /\ \A t \in Slots \ {s} : req'[t] = req[t]
        <3> DEFINE r == [Request("acs", "take", None, None, now)
                         EXCEPT !.relay = q, !.doc = x, !.due = pending[q].until]
        <3>1. r.relay = q
            BY DEF Request
        <3>2. Begin(s, r) /\ UNCHANGED pending /\ pending[q].state = "open"
            BY <2>4 DEF BeginAcs, loginVars
        <3> HIDE DEF r
        <3> QED
            BY <1>0, <3>1, <3>2 DEF Begin, Alone, Serial
    <2> QED
        BY <1>0, <2>1, <2>2, <2>3, <2>4 DEF Moves, TakeRequest, Acs, Using
<1>2. \A s, t \in Slots : req'[s].pc # "idle" /\ req'[t].pc # "idle" => s = t
    BY <1>0, <1>1
<1>3. \A s \in Slots : req'[s].pc \in Acs => pending'[req'[s].relay].state = "open"
    <2>1. CASE \A s \in Slots : req'[s].pc = "idle"
        BY <2>1 DEF Acs
    <2>2. CASE \A q \in Relays : pending[q].state = "open" => pending'[q].state = "open"
        BY <1>0, <1>1, <2>2
    <2> QED
        BY <2>1, <2>2, OpenKept
<1>4. \A i, j \in Sessions :
          sess'[i].state # "absent" /\ sess'[j].state # "absent" /\ i # j =>
              sess'[i].request # sess'[j].request
    <2>1. CASE SessionsKept
        BY <2>1 DEF SessionsKept, OneAtATime
    <2>2. ASSUME NEW s \in Slots, NEW k \in Sessions, Accept(s, k),
                 NEW i \in Sessions, NEW j \in Sessions, i # j,
                 sess'[i].state # "absent", sess'[j].state # "absent"
          PROVE  sess'[i].request # sess'[j].request
        <3>1. pending[req[s].relay].state = "open"
            BY <1>0, <2>2 DEF Accept, Acs
        <3>2. \A l \in Sessions \ {k} : sess'[l].state # "absent" =>
                  sess'[l].request = sess[l].request /\ sess[l].request # req[s].relay
            BY <2>2, <3>1, AcceptedRow DEF Earned
        <3>3. sess'[k].request = req[s].relay
            BY <2>2, AcceptedRow
        <3>4. i # k /\ j # k => sess[i].request # sess[j].request
            BY <2>2, AcceptedRow DEF OneAtATime
        <3> QED
            BY <2>2, <3>2, <3>3, <3>4
    <2> QED
        BY <2>1, <2>2, Kept
<1> QED
    BY <1>2, <1>3, <1>4 DEF OneAtATime

-----------------------------------------------------------------------------
(* While no time passes during a request, whoever is being let through     *)
(* still could be, but for a sign-out meanwhile.                           *)
Punctual ==
    "slow" \notin may => \A s \in Slots : req[s].pc \in {"user", "touch"} =>
        /\ req[s].sess \in Sessions /\ req[s].at = now
        /\ sess[req[s].sess].state # "absent"
        /\ sess[req[s].sess].until > now /\ now - sess[req[s].sess].seen <= Idle

(* What a step does to the row of somebody who is or was signed in.        *)
Aged(i) ==
    /\ sess'[i].state # "absent" /\ (sess'[i].state = "open" => sess[i].state = "open")
    /\ sess'[i].until = sess[i].until
    /\ \/ sess'[i].seen = sess[i].seen
       \/ sess'[i].seen = now /\ sess[i].until > now /\ now - sess[i].seen <= Idle

LEMMA RevokedAged ==
    ASSUME TypeOK, NEW ended,
           NEW reason \in {"signed_out", "signed_out_elsewhere", "user_deactivated"},
           sess' = Revoked(ended, reason), NEW i \in SignedIn
    PROVE  Aged(i)
<1>1. sess[i] \in SessType /\ i \in Sessions /\ sess[i].state # "absent"
    BY DEF TypeOK, SignedIn
<1>2. CASE i \in ended /\ Open(i)
    <2>1. sess'[i] = [sess[i] EXCEPT !.state = reason]
        BY <1>1, <1>2 DEF Revoked
    <2> QED
        BY <1>1, <1>2, <2>1 DEF SessType, Open, Aged
<1>3. CASE ~(i \in ended /\ Open(i))
    BY <1>1, <1>3 DEF Revoked, Aged
<1> QED
    BY <1>2, <1>3

LEMMA SameAged == ASSUME UNCHANGED sess, NEW i \in SignedIn PROVE Aged(i)
BY DEF Aged, SignedIn

LEMMA TouchAged ==
    ASSUME TypeOK, Punctual, "slow" \notin may, NEW s \in Slots, Touch(s), NEW i \in SignedIn
    PROVE  Aged(i)
<1>1. CASE UNCHANGED sess
    BY <1>1, SameAged
<1>2. CASE sess' = [sess EXCEPT ![req[s].sess].seen = req[s].at]
    <2>1. sess \in [Sessions -> SessType] /\ i \in Sessions /\ sess[i].state # "absent"
        BY DEF TypeOK, SignedIn
    <2>2. sess'[i] = IF i = req[s].sess THEN [sess[i] EXCEPT !.seen = req[s].at] ELSE sess[i]
        BY <1>2, <2>1
    <2>3. /\ req[s].at = now
          /\ sess[req[s].sess].until > now /\ now - sess[req[s].sess].seen <= Idle
        BY DEF Punctual, Touch
    <2> QED
        BY <2>1, <2>2, <2>3 DEF Aged, SessType
<1> QED
    BY <1>1, <1>2 DEF Touch

LEMMA AcceptAged ==
    ASSUME TypeOK, NEW s \in Slots, NEW k \in Sessions, Accept(s, k), NEW i \in SignedIn
    PROVE  Aged(i)
<1>1. i # k /\ i \in Sessions
    BY DEF Accept, SignedIn
<1>2. sess'[i] = sess[i]
    BY <1>1 DEF Accept, TypeOK
<1> QED
    BY <1>2 DEF Aged, SignedIn

LEMMA AllAge ==
    ASSUME TypeOK, Punctual, "slow" \notin may, [Next]_vars, NEW i \in SignedIn
    PROVE  Aged(i)
<1>1. ASSUME NEW s \in Slots, SessionStep(s) PROVE Aged(i)
    BY <1>1, SameAged, RevokedAged, TouchAged DEF SessionStep, BeginUse, SeeUser, Abort
<1>2. ASSUME NEW s \in Slots, LoginStep(s) PROVE Aged(i)
    BY <1>2, SameAged, RevokedAged, AcceptAged
       DEF LoginStep, BeginAcs, TakeRequest, JudgeAnswer, SeePerson, BeginLogout, TellProvider
<1>3. ProviderStep => Aged(i)
    BY SameAged, RevokedAged
       DEF ProviderStep, StartLogin, ProviderConfirms, ProviderAnswers, ProviderLogsOut
<1>4. ASSUME NEW s \in Slots, AppStep(s) PROVE Aged(i)
    BY <1>4, SameAged DEF AppStep, BeginSso, SeeAgain, SeeDirect, SeeGroup, Issue
<1>5. ASSUME NEW l \in Logins, SignOut(l) PROVE Aged(i)
    BY <1>5, SameAged, RevokedAged DEF SignOut
<1>6. ASSUME NEW u \in Users, LeaveApps(u) PROVE Aged(i)
    BY <1>6, RevokedAged DEF LeaveApps, Leave
<1>7. ASSUME Assignment \/ PeopleStep \/ UNCHANGED vars PROVE Aged(i)
    <2>1. UNCHANGED sess
        BY <1>7 DEF Assignment, AssignUser, UnassignUser, AssignGroup, UnassignGroup,
           Assign, PeopleStep, SwitchOff, SwitchOn, Tick, vars
    <2> QED
        BY <2>1, SameAged
<1>8. AppLogout => Aged(i)
    BY <1>5 DEF AppLogout, ByIndex, BySubject, Newest, OpenAt
<1> QED
    BY <1>1, <1>2, <1>3, <1>4, <1>6, <1>7, <1>8 DEF Next

LEMMA ClockStep ==
    ASSUME TypeOK, "slow" \notin may, [Next]_vars
    PROVE  \/ now' = now
           \/ now' = now + 1 /\ UNCHANGED <<sess, req>> /\ \A s \in Slots : req[s].pc = "idle"
BY DEF Next, vars, SessionStep, BeginUse, SeeUser, Touch, Abort, LoginStep, BeginAcs,
   TakeRequest, JudgeAnswer, SeePerson, Accept, BeginLogout, TellProvider, ProviderStep,
   StartLogin, ProviderConfirms, ProviderAnswers, ProviderLogsOut, AppStep, BeginSso,
   SeeAgain, SeeDirect, SeeGroup, Issue, AppLogout, SignOut, LeaveApps, Leave, Assignment,
   AssignUser, UnassignUser, AssignGroup, UnassignGroup, Assign, PeopleStep, SwitchOff,
   SwitchOn, Tick

LEMMA PunctualStep ==
    ASSUME TypeOK, Punctual, [Next]_vars
    PROVE  Punctual'
<1> SUFFICES ASSUME "slow" \notin may, NEW t \in Slots, req'[t].pc \in {"user", "touch"}
             PROVE  /\ req'[t].sess \in Sessions /\ req'[t].at = now'
                    /\ sess'[req'[t].sess].state # "absent"
                    /\ sess'[req'[t].sess].until > now'
                    /\ now' - sess'[req'[t].sess].seen <= Idle
    BY Kept DEF Punctual
<1>0. req \in [Slots -> ReqType] /\ Moves /\ Idle \in Nat /\ now \in Nat
    BY ReqMoves, SessionsAssumption DEF TypeOK
<1>1. ASSUME req[t].pc \in {"user", "touch"}, req'[t].sess = req[t].sess, req'[t].at = req[t].at
      PROVE  /\ req'[t].sess \in Sessions /\ req'[t].at = now'
             /\ sess'[req'[t].sess].state # "absent"
             /\ sess'[req'[t].sess].until > now'
             /\ now' - sess'[req'[t].sess].seen <= Idle
    <2>1. /\ req[t].sess \in Sessions /\ req[t].at = now /\ req[t].sess \in SignedIn
          /\ sess[req[t].sess].until > now /\ now - sess[req[t].sess].seen <= Idle
        BY <1>1 DEF Punctual, SignedIn
    <2>2. Aged(req[t].sess)
        BY <2>1, AllAge
    <2>3. now' = now
        BY <1>1, ClockStep
    <2> QED
        BY <1>0, <1>1, <2>1, <2>2, <2>3 DEF Aged
<1>2. ASSUME NEW s \in Slots, NEW pc, GoOn(s, pc)
      PROVE  /\ s = t => req'[t].pc = pc
             /\ req'[t].sess = req[t].sess /\ req'[t].at = req[t].at
             /\ s # t => req'[t] = req[t]
    BY <1>0, <1>2 DEF GoOn, ReqType
<1>3. ASSUME NEW s \in Slots, End(s) PROVE s # t /\ req'[t] = req[t]
    BY <1>0, <1>3 DEF End, NoReq, Request
<1>4. ASSUME NEW s \in Slots, NEW r, Begin(s, r)
      PROVE  req'[t] = IF t = s THEN r ELSE req[t]
    BY <1>0, <1>4 DEF Begin
<1>5. ASSUME NEW s \in Slots, NEW r \in ReqType, r.pc = "user", Begin(s, r),
             UNCHANGED <<sess, now>>, r.sess \in Sessions, Live(r.sess, now), r.at = now, s = t
      PROVE  /\ req'[t].sess \in Sessions /\ req'[t].at = now'
             /\ sess'[req'[t].sess].state # "absent"
             /\ sess'[req'[t].sess].until > now'
             /\ now' - sess'[req'[t].sess].seen <= Idle
    <2>1. req'[t] = r
        BY <1>4, <1>5
    <2> QED
        BY <1>5, <2>1 DEF Live, Open
<1>6. ASSUME NEW s \in Slots, NEW q \in Relays, NEW x \in Assertions, BeginAcs(s, q, x)
      PROVE  s # t /\ req'[t] = req[t]
    <2> DEFINE r == [Request("acs", "take", None, None, now)
                     EXCEPT !.relay = q, !.doc = x, !.due = pending[q].until]
    <2>1. r.pc = "take"
        BY DEF Request
    <2>2. Begin(s, r)
        BY <1>6 DEF BeginAcs
    <2> HIDE DEF r
    <2> QED
        BY <1>4, <2>1, <2>2
<1> QED
    BY <1>0, <1>1, <1>2, <1>3, <1>4, <1>5, <1>6 DEF Moves, TakeRequest

(* Whoever could not be let through before a step cannot be after it.      *)
LEMMA EndedStep ==
    ASSUME TypeOK, Punctual, [Next]_vars, "slow" \notin may, NEW i \in SignedIn, ~Live(i, now)
    PROVE  ~Live(i, now)'
<1>1. /\ sess[i].until \in Int /\ sess[i].seen \in Int /\ now \in Int /\ Idle \in Int
      /\ Aged(i)
    BY AllAge, SessionsAssumption DEF TypeOK, SessType, SignedIn
<1>2. CASE now' = now
    BY <1>1, <1>2 DEF Aged, Live, Open
<1>3. CASE now' = now + 1 /\ UNCHANGED sess
    BY <1>1, <1>3 DEF Live, Open
<1> QED
    BY <1>2, <1>3, ClockStep

-----------------------------------------------------------------------------
(* Whoever uses a cookie is the person it was given to.                    *)
InUse ==
    \A s \in Slots : req[s].pc \in Using =>
        /\ req[s].sess \in SignedIn
        /\ req[s].user = sess[req[s].sess].user

LEMMA InUseStep ==
    ASSUME TypeOK, InUse, [Next]_vars
    PROVE  InUse'
<1> SUFFICES ASSUME NEW t \in Slots, req'[t].pc \in Using
             PROVE  /\ req'[t].sess \in Sessions
                    /\ sess'[req'[t].sess].state # "absent"
                    /\ req'[t].user = sess'[req'[t].sess].user
    BY DEF InUse, SignedIn
<1>0. req \in [Slots -> ReqType] /\ Moves
    BY ReqMoves DEF TypeOK
<1>1. ASSUME req[t].pc \in Using, req'[t].sess = req[t].sess, req'[t].user = req[t].user
      PROVE  /\ req'[t].sess \in Sessions
             /\ sess'[req'[t].sess].state # "absent"
             /\ req'[t].user = sess'[req'[t].sess].user
    <2>1. /\ req[t].sess \in Sessions /\ sess[req[t].sess].state # "absent"
          /\ req[t].user = sess[req[t].sess].user
        BY <1>1 DEF InUse, SignedIn
    <2>2. CASE SessionsKept
        BY <1>1, <2>1, <2>2 DEF SessionsKept
    <2>3. ASSUME NEW s \in Slots, NEW k \in Sessions, Accept(s, k)
          PROVE  sess'[req[t].sess] = sess[req[t].sess]
        BY <2>1, <2>3 DEF Accept, TypeOK
    <2> QED
        BY <1>1, <2>1, <2>2, <2>3, Kept
<1>2. ASSUME NEW s \in Slots, NEW pc, GoOn(s, pc)
      PROVE  /\ s = t => req'[t].pc = pc
             /\ req'[t].sess = req[t].sess /\ req'[t].user = req[t].user
             /\ s # t => req'[t] = req[t]
    BY <1>0, <1>2 DEF GoOn, ReqType
<1>3. ASSUME NEW s \in Slots, End(s) PROVE s # t /\ req'[t] = req[t]
    BY <1>0, <1>3 DEF End, NoReq, Request, Using
<1>4. ASSUME NEW s \in Slots, NEW r, Begin(s, r)
      PROVE  req'[t] = IF t = s THEN r ELSE req[t]
    BY <1>0, <1>4 DEF Begin
<1>5. ASSUME NEW s \in Slots, NEW q \in Relays, NEW x \in Assertions, BeginAcs(s, q, x)
      PROVE  s # t /\ req'[t] = req[t]
    <2> DEFINE r == [Request("acs", "take", None, None, now)
                     EXCEPT !.relay = q, !.doc = x, !.due = pending[q].until]
    <2>1. r.pc = "take"
        BY DEF Request
    <2>2. Begin(s, r)
        BY <1>5 DEF BeginAcs
    <2> HIDE DEF r
    <2> QED
        BY <1>4, <2>1, <2>2 DEF Using
<1> QED
    BY <1>0, <1>1, <1>2, <1>3, <1>4, <1>5 DEF Moves, TakeRequest, Using, Live, Open

(* One request at a time: while one is served, a step is one of its own,   *)
(* or the provider's or the clock's.                                       *)
LEMMA OwnSteps ==
    ASSUME TypeOK, OneAtATime, Serial, [Next]_vars, NEW t \in Slots, req[t].pc # "idle"
    PROVE  \/ SessionStep(t) /\ UNCHANGED <<loginVars, appVars>>
           \/ LoginStep(t) /\ UNCHANGED appVars
           \/ AppStep(t) /\ UNCHANGED loginVars
           \/ UNCHANGED <<active, sess, req, assigned, issued>>
<1>1. ~Alone /\ \A s \in Slots : req[s].pc # "idle" => s = t
    BY DEF Alone, Serial, OneAtATime
<1>2. ASSUME NEW s \in Slots, SessionStep(s) PROVE s = t
    BY <1>1, <1>2 DEF SessionStep, BeginUse, Begin, SeeUser, Touch, Abort
<1>3. ASSUME NEW s \in Slots, LoginStep(s) PROVE s = t
    BY <1>1, <1>3 DEF LoginStep, BeginAcs, BeginLogout, Begin, TakeRequest, JudgeAnswer,
       SeePerson, Accept, TellProvider
<1>4. ASSUME NEW s \in Slots, AppStep(s) PROVE s = t
    BY <1>1, <1>4 DEF AppStep, BeginSso, Begin, SeeAgain, SeeDirect, SeeGroup, Issue
<1>5. ProviderStep /\ UNCHANGED appVars => UNCHANGED <<active, sess, req, assigned, issued>>
    BY <1>1 DEF ProviderStep, StartLogin, ProviderConfirms, ProviderAnswers, ProviderLogsOut,
       appVars
<1>6. ~AppLogout /\ ~Assignment /\ \A u \in Users : ~LeaveApps(u)
    BY <1>1 DEF AppLogout, SignOut, Assignment, AssignUser, UnassignUser, AssignGroup,
       UnassignGroup, Assign, LeaveApps, Leave
<1>7. PeopleStep /\ UNCHANGED appVars => UNCHANGED <<active, sess, req, assigned, issued>>
    BY <1>1 DEF PeopleStep, SwitchOff, SwitchOn, Tick, appVars
<1>8. UNCHANGED vars => UNCHANGED <<active, sess, req, assigned, issued>>
    BY DEF vars
<1> QED
    BY <1>2, <1>3, <1>4, <1>5, <1>6, <1>7, <1>8 DEF Next

(* One request at a time: what a request has found out is still so when it *)
(* acts on it.                                                             *)
Undisturbed ==
    Serial => \A s \in Slots :
        /\ req[s].pc = "accept" => active[doc[req[s].doc].user]
        /\ req[s].pc \in {"direct", "group", "issue"} => active[req[s].user]
        /\ req[s].pc = "issue" => HasAccess(req[s].user, req[s].app)
        /\ req[s].pc \in Using /\ "slow" \notin may =>
               Live(req[s].sess, now) /\ req[s].at = now

(* How a request begins.                                                   *)
LEMMA Started ==
    ASSUME TypeOK, [Next]_vars, NEW t \in Slots, req[t].pc = "idle"
    PROVE  \/ req'[t].pc \in {"idle", "take", "single"}
           \/ /\ req'[t].pc = "user" /\ req'[t].at = now' /\ UNCHANGED <<sess, now>>
              /\ Live(req[t].sess, now)'
<1>0. req \in [Slots -> ReqType] /\ Moves
    BY ReqMoves DEF TypeOK
<1>1. ASSUME NEW s \in Slots, NEW r, Begin(s, r)
      PROVE  req'[t] = IF s = t THEN r ELSE req[t]
    BY <1>0, <1>1 DEF Begin
<1>2. ASSUME NEW s \in Slots, NEW q \in Relays, NEW x \in Assertions, BeginAcs(s, q, x)
      PROVE  req'[t].pc \in {"idle", "take"}
    <2> DEFINE r == [Request("acs", "take", None, None, now)
                     EXCEPT !.relay = q, !.doc = x, !.due = pending[q].until]
    <2>1. r.pc = "take"
        BY DEF Request
    <2>2. Begin(s, r)
        BY <1>2 DEF BeginAcs
    <2> HIDE DEF r
    <2> QED
        BY <1>1, <2>1, <2>2
<1>3. ASSUME NEW s \in Slots, NEW pc, GoOn(s, pc), req[s].pc # "idle" PROVE req'[t] = req[t]
    BY <1>0, <1>3 DEF GoOn
<1>4. ASSUME NEW s \in Slots, End(s) PROVE req'[t].pc = "idle"
    BY <1>0, <1>4 DEF End, NoReq, Request
<1>5. ASSUME NEW s \in Slots, NEW r \in ReqType, r.pc = "user", Begin(s, r),
             UNCHANGED <<sess, now>>, Live(r.sess, now), r.at = now
      PROVE  \/ req'[t].pc = "idle"
             \/ /\ req'[t].pc = "user" /\ req'[t].at = now' /\ UNCHANGED <<sess, now>>
                /\ Live(req[t].sess, now)'
    BY <1>1, <1>5 DEF Live, Open
<1> QED
    BY <1>0, <1>1, <1>2, <1>3, <1>4, <1>5 DEF Moves, TakeRequest, Using

LEMMA AcceptUndisturbed ==
    ASSUME TypeOK, AcsFits, OneAtATime, Undisturbed, Serial, [Next]_vars,
           NEW t \in Slots, req'[t].pc = "accept"
    PROVE  active'[doc'[req'[t].doc].user]
<1>0. req \in [Slots -> ReqType] /\ Moves /\ DocsKept
    BY ReqMoves, Kept DEF TypeOK
<1>1. CASE req[t].pc = "accept" /\ UNCHANGED <<active, sess, req, assigned, issued>>
    BY <1>0, <1>1 DEF AcsFits, Acs, DocsKept, Undisturbed
<1>2. CASE SeePerson(t)
    <2>1. ~End(t)
        BY <1>0 DEF End, NoReq, Request
    <2>2. GoOn(t, "accept") /\ active[doc[req[t].doc].user] /\ UNCHANGED <<active, doc>>
        BY <1>2, <2>1 DEF SeePerson, RefuseLogin
    <2>3. req'[t].doc = req[t].doc
        BY <1>0, <2>2 DEF GoOn, ReqType
    <2> QED
        BY <2>2, <2>3
<1>3. ASSUME NEW pc, GoOn(t, pc) PROVE req'[t].pc = pc
    BY <1>0, <1>3 DEF GoOn, ReqType
<1>4. ~End(t)
    BY <1>0 DEF End, NoReq, Request
<1>5. ASSUME SessionStep(t) \/ AppStep(t) PROVE req[t].pc = "idle"
    BY <1>3, <1>4, <1>5 DEF SessionStep, BeginUse, Begin, SeeUser, Touch, Abort,
       AppStep, BeginSso, SeeAgain, SeeDirect, SeeGroup, RefuseSso, Issue
<1>6. ASSUME LoginStep(t) PROVE req[t].pc = "idle" \/ SeePerson(t)
    BY <1>3, <1>4, <1>6 DEF LoginStep, BeginAcs, BeginLogout, Begin, TakeRequest, JudgeAnswer,
       RefuseLogin, Accept, TellProvider
<1>7. req[t].pc # "idle"
    BY Started
<1>8. ASSUME UNCHANGED <<active, sess, req, assigned, issued>> PROVE req[t].pc = "accept"
    BY <1>8
<1> QED
    BY <1>1, <1>2, <1>5, <1>6, <1>7, <1>8, OwnSteps

LEMMA UseUndisturbed ==
    ASSUME TypeOK, InUse, OneAtATime, Undisturbed, Serial, "slow" \notin may, [Next]_vars,
           NEW t \in Slots, req'[t].pc \in Using
    PROVE  Live(req[t].sess, now)' /\ req'[t].at = now'
<1> DEFINE Goal == Live(req[t].sess, now)' /\ req'[t].at = now'
<1>0. /\ req \in [Slots -> ReqType] /\ sess \in [Sessions -> SessType] /\ now \in Int
      /\ Idle \in Nat
    BY SessionsAssumption DEF TypeOK
<1>1. CASE req[t].pc = "idle"
    BY <1>1, Started DEF Using
<1>2. CASE req[t].pc # "idle"
    <2>1. now' = now
        BY <1>2, ClockStep
    <2>2. ~End(t)
        BY <1>0 DEF End, NoReq, Request, Using
    <2>3. ASSUME NEW pc, GoOn(t, pc)
          PROVE  req'[t].pc = pc /\ req'[t].sess = req[t].sess /\ req'[t].at = req[t].at
        BY <1>0, <2>3 DEF GoOn, ReqType
    <2>4. ASSUME req[t].pc \in Using, UNCHANGED sess,
                 req'[t].sess = req[t].sess, req'[t].at = req[t].at
          PROVE  Goal
        BY <2>1, <2>4 DEF Undisturbed, Live, Open
    <2>5. CASE SeeUser(t)
        <3>1. GoOn(t, "touch") /\ UNCHANGED sess /\ req[t].pc = "user"
            BY <2>2, <2>5 DEF SeeUser
        <3> QED
            BY <2>3, <2>4, <3>1 DEF Using
    <2>6. CASE Touch(t)
        <3> DEFINE i == req[t].sess
        <3>1. /\ GoOn(t, "access") /\ req[t].pc = "touch" /\ req[t].at = now
              /\ i \in Sessions /\ Live(i, now)
            BY <2>2, <2>6 DEF Touch, InUse, Undisturbed, Using, SignedIn
        <3>2. CASE UNCHANGED sess
            BY <2>3, <2>4, <3>1, <3>2 DEF Using
        <3>3. CASE sess' = [sess EXCEPT ![i].seen = req[t].at]
            <4>1. sess'[i] = [sess[i] EXCEPT !.seen = now]
                BY <1>0, <3>1, <3>3
            <4>2. sess'[i].state = sess[i].state /\ sess'[i].until = sess[i].until
                  /\ sess'[i].seen = now
                BY <1>0, <3>1, <4>1 DEF SessType
            <4> QED
                BY <1>0, <2>1, <2>3, <3>1, <4>2 DEF Live, Open
        <3> QED
            BY <2>6, <3>2, <3>3 DEF Touch
    <2>7. CASE SeeAgain(t) \/ SeeDirect(t) \/ SeeGroup(t)
        BY <2>2, <2>3, <2>4, <2>7 DEF SeeAgain, SeeDirect, SeeGroup, RefuseSso, Using
    <2>8. CASE UNCHANGED <<active, sess, req, assigned, issued>>
        BY <2>4, <2>8
    <2>9. SessionStep(t) => SeeUser(t) \/ Touch(t)
        BY <1>2, <2>2 DEF SessionStep, BeginUse, Begin, Abort
    <2>10. ~LoginStep(t)
        <3>1. \A pc \in Pcs \ Using : ~GoOn(t, pc)
            BY <2>3
        <3>2. ~TakeRequest(t) /\ ~JudgeAnswer(t) /\ ~SeePerson(t)
            BY <2>2, <3>1 DEF TakeRequest, JudgeAnswer, SeePerson, RefuseLogin, Pcs, Using
        <3> QED
            BY <1>2, <2>2, <3>2 DEF LoginStep, BeginAcs, BeginLogout, Begin, Accept, TellProvider
    <2>11. AppStep(t) => SeeAgain(t) \/ SeeDirect(t) \/ SeeGroup(t)
        BY <1>2, <2>2 DEF AppStep, BeginSso, Begin, Issue
    <2> QED
        BY <1>2, <2>5, <2>6, <2>7, <2>8, <2>9, <2>10, <2>11, OwnSteps
<1> QED
    BY <1>1, <1>2

LEMMA IssueUndisturbed ==
    ASSUME TypeOK, OneAtATime, Undisturbed, Serial, [Next]_vars,
           NEW t \in Slots, req'[t].pc \in {"direct", "group", "issue"}
    PROVE  /\ active'[req'[t].user]
           /\ req'[t].pc = "issue" => HasAccess(req[t].user, req[t].app)'
<1>0. req \in [Slots -> ReqType] /\ Moves
    BY ReqMoves DEF TypeOK
<1>1. CASE UNCHANGED <<active, sess, req, assigned, issued>>
    BY <1>1 DEF Undisturbed, HasAccess, Direct, ViaGroup
<1>2. ~End(t)
    BY <1>0 DEF End, NoReq, Request
<1>3. CASE SeeAgain(t) \/ SeeDirect(t) \/ SeeGroup(t)
    <2>1. PICK pc \in {"direct", "group", "issue"} :
              /\ GoOn(t, pc) /\ UNCHANGED <<active, assigned>>
              /\ active[req[t].user]
              /\ pc = "issue" => HasAccess(req[t].user, req[t].app)
        BY <1>2, <1>3 DEF SeeAgain, SeeDirect, SeeGroup, RefuseSso, appVars, Undisturbed, HasAccess
    <2>2. req'[t].pc = pc /\ req'[t].user = req[t].user /\ req'[t].app = req[t].app
        BY <1>0, <2>1 DEF GoOn, ReqType
    <2> QED
        BY <2>1, <2>2 DEF HasAccess, Direct, ViaGroup
<1>4. ASSUME NEW pc, GoOn(t, pc) PROVE req'[t].pc = pc
    BY <1>0, <1>4 DEF GoOn, ReqType
<1>5. ASSUME SessionStep(t) \/ LoginStep(t) PROVE req[t].pc = "idle"
    BY <1>2, <1>4, <1>5 DEF SessionStep, BeginUse, Begin, SeeUser, Touch, Abort,
       LoginStep, BeginAcs, BeginLogout, TakeRequest, JudgeAnswer, SeePerson,
       RefuseLogin, Accept, TellProvider
<1>6. ASSUME AppStep(t)
      PROVE  req[t].pc = "idle" \/ SeeAgain(t) \/ SeeDirect(t) \/ SeeGroup(t)
    BY <1>2, <1>6 DEF AppStep, BeginSso, Begin, Issue
<1>7. req[t].pc # "idle"
    BY Started
<1> QED
    BY <1>1, <1>3, <1>5, <1>6, <1>7, OwnSteps

LEMMA UndisturbedStep ==
    ASSUME TypeOK, AcsFits, InUse, OneAtATime, Undisturbed, [Next]_vars
    PROVE  Undisturbed'
<1> SUFFICES ASSUME Serial, NEW t \in Slots
             PROVE  /\ req'[t].pc = "accept" => active'[doc'[req'[t].doc].user]
                    /\ req'[t].pc \in {"direct", "group", "issue"} => active'[req'[t].user]
                    /\ req'[t].pc = "issue" => HasAccess(req[t].user, req[t].app)'
                    /\ req'[t].pc \in Using /\ "slow" \notin may =>
                           Live(req[t].sess, now)' /\ req'[t].at = now'
    BY Kept DEF Undisturbed, Serial
<1> QED
    BY AcceptUndisturbed, IssueUndisturbed, UseUndisturbed

-----------------------------------------------------------------------------
(* The answers are about people of the directory.                          *)
DocsArePeople == \A x \in Assertions : doc[x] # NoDoc => doc[x].user \in Users

LEMMA DocsArePeopleStep ==
    ASSUME TypeOK, DocsArePeople, [Next]_vars
    PROVE  DocsArePeople'
<1>1. CASE UNCHANGED doc
    BY <1>1 DEF DocsArePeople
<1>2. ASSUME NEW x \in Assertions, NEW q \in Relays, NEW u \in Users, NEW index \in Indexes,
             NEW until, ProviderAnswers(x, q, u, index, until)
      PROVE  DocsArePeople'
    BY <1>2 DEF ProviderAnswers, DocsArePeople, TypeOK
<1>3. UNCHANGED doc \/ ProviderStep
    BY DEF Next, vars, loginVars, LoginStep, BeginAcs, TakeRequest, JudgeAnswer, SeePerson,
       Accept, BeginLogout, TellProvider
<1> QED
    BY <1>1, <1>2, <1>3 DEF ProviderStep, StartLogin, ProviderConfirms, ProviderLogsOut, loginVars

(* What a step does to who is signed in and who is active: people leave    *)
(* and lose their sessions, or come back, or sign in.                      *)
LEMMA LeaverStep ==
    ASSUME TypeOK, AcsFits, Earned, DocsArePeople, Undisturbed, LeaverIsSignedOut, [Next]_vars
    PROVE  LeaverIsSignedOut'
<1> SUFFICES ASSUME Serial, "console" \notin may, NEW i \in Sessions,
                    sess'[i].state = "open"
             PROVE  active'[sess'[i].user]
    BY Kept DEF LeaverIsSignedOut, Serial, Open, SignedIn
<1>1. \/ UNCHANGED active
      \/ \E u \in Users : SwitchOn(u) \/ LeaveApps(u)
    BY DEF Next, vars, SessionStep, BeginUse, SeeUser, Touch, Abort, LoginStep, BeginAcs,
       TakeRequest, JudgeAnswer, SeePerson, Accept, BeginLogout, TellProvider, ProviderStep,
       StartLogin, ProviderConfirms, ProviderAnswers, ProviderLogsOut, AppStep, BeginSso,
       SeeAgain, SeeDirect, SeeGroup, Issue, AppLogout, SignOut, Assignment, AssignUser,
       UnassignUser,
       AssignGroup, UnassignGroup, Assign, PeopleStep, SwitchOff, Tick
<1>2. sess[i].state = "open" => active[sess[i].user] /\ sess[i].user \in Users
    BY DEF LeaverIsSignedOut, Open, SignedIn, Earned, DocsArePeople
<1>3. CASE SessionsKept /\ sess[i].state = "open"
    <2>1. sess'[i].user = sess[i].user
        BY <1>3 DEF SessionsKept
    <2>2. ASSUME NEW u \in Users, SwitchOn(u) PROVE active'[sess[i].user]
        BY <1>2, <1>3, <2>2 DEF SwitchOn, TypeOK
    <2>3. ASSUME NEW u \in Users, LeaveApps(u) PROVE active'[sess[i].user]
        <3>1. /\ active' = [active EXCEPT ![u] = FALSE]
              /\ sess' = Revoked(SessionsOf(u), "user_deactivated")
            BY <2>3 DEF LeaveApps, Leave
        <3>2. sess[i].user # u
            BY <1>3, <3>1 DEF Revoked, SessionsOf, Open, TypeOK, SessType
        <3> QED
            BY <1>2, <1>3, <3>1, <3>2 DEF TypeOK
    <2> QED
        BY <1>1, <1>2, <1>3, <2>1, <2>2, <2>3
<1>4. ASSUME NEW s \in Slots, NEW k \in Sessions, Accept(s, k) PROVE active'[sess'[i].user]
    <2>1. UNCHANGED active /\ req[s].pc = "accept"
        BY <1>4 DEF Accept
    <2>2. active[doc[req[s].doc].user]
        BY <2>1 DEF Undisturbed
    <2>3. /\ sess'[k].user = doc[req[s].doc].user
          /\ i # k => sess'[i] = sess[i]
        BY <1>4, AcceptedRow
    <2> QED
        BY <1>2, <2>1, <2>2, <2>3
<1>5. SessionsKept => sess[i].state = "open"
    BY DEF SessionsKept
<1> QED
    BY <1>3, <1>4, <1>5, Kept

-----------------------------------------------------------------------------
(* A login names whose browser it came from; the session there no longer   *)
(* lets anybody through once the login has ended, or if it did not then.   *)
LoginsFit ==
    \A l \in Logins : issued[l].state # "absent" =>
        /\ issued[l].browser \in SignedIn
        /\ issued[l].user = sess[issued[l].browser].user
        /\ issued[l].from \in {None, issued[l].browser}
        /\ "slow" \notin may /\ (issued[l].from = None \/ issued[l].state = "ended") =>
               ~Live(issued[l].browser, now)

LEMMA IssuedMoves ==
    ASSUME [Next]_vars
    PROVE  \/ UNCHANGED issued
           \/ \E s \in Slots, l \in Logins : Issue(s, l)
           \/ \E l \in Logins : issued[l].state # "absent" /\ SignOut(l)
BY DEF Next, vars, appVars, AppStep, BeginSso, SeeAgain, SeeDirect, SeeGroup, AppLogout,
       ByIndex, BySubject,
       Newest, OpenAt, LeaveApps, Assignment, AssignUser, UnassignUser, AssignGroup,
       UnassignGroup, Assign

LEMMA StillSignedIn ==
    ASSUME TypeOK, [Next]_vars, NEW i \in SignedIn
    PROVE  i \in SignedIn' /\ sess'[i].user = sess[i].user
<1>1. CASE SessionsKept
    BY <1>1 DEF SessionsKept, SignedIn
<1>2. ASSUME NEW s \in Slots, NEW k \in Sessions, Accept(s, k) PROVE sess'[i] = sess[i]
    BY <1>2 DEF Accept, SignedIn, TypeOK
<1> QED
    BY <1>1, <1>2, Kept DEF SignedIn

LEMMA LoginsFitStep ==
    ASSUME TypeOK, InUse, Punctual, LoginsFit, [Next]_vars
    PROVE  LoginsFit'
<1> DEFINE Fit(l) ==
        issued[l].state # "absent" =>
            /\ issued[l].browser \in SignedIn
            /\ issued[l].user = sess[issued[l].browser].user
            /\ issued[l].from \in {None, issued[l].browser}
            /\ "slow" \notin may /\ (issued[l].from = None \/ issued[l].state = "ended") =>
                   ~Live(issued[l].browser, now)
<1>0. may' = may
    BY Kept
<1>1. ASSUME NEW l \in Logins, issued'[l] = issued[l] PROVE Fit(l)'
    <2> SUFFICES ASSUME issued[l].state # "absent" PROVE Fit(l)'
        BY <1>1
    <2>0. PICK b \in SignedIn : b = issued[l].browser
        BY DEF LoginsFit
    <2>1. b \in SignedIn' /\ sess'[b].user = sess[b].user
        BY StillSignedIn
    <2>2. ~Live(b, now) /\ "slow" \notin may => ~Live(b, now)'
        BY EndedStep
    <2> QED
        BY <1>0, <1>1, <2>0, <2>1, <2>2 DEF LoginsFit
<1>2. CASE UNCHANGED issued
    BY <1>1, <1>2 DEF LoginsFit
<1>3. ASSUME NEW s \in Slots, NEW k \in Logins, Issue(s, k) PROVE LoginsFit'
    <2>1. /\ req[s].sess \in SignedIn /\ req[s].user = sess[req[s].sess].user
          /\ UNCHANGED <<sess, now, may>>
        BY <1>3 DEF Issue, InUse, Using
    <2>2. issued' = [issued EXCEPT ![k] =
              [state |-> "open", user |-> req[s].user, app |-> req[s].app,
               browser |-> req[s].sess,
               from |-> IF Live(req[s].sess, now) THEN req[s].sess ELSE None, at |-> now]]
        BY <1>3 DEF Issue
    <2>3. /\ issued'[k].browser = req[s].sess /\ issued'[k].user = req[s].user
          /\ issued'[k].from = IF Live(req[s].sess, now) THEN req[s].sess ELSE None
          /\ issued'[k].state = "open"
        BY <2>2 DEF TypeOK
    <2>4. \A i : Live(i, now)' <=> Live(i, now)
        BY <2>1 DEF Live, Open
    <2>5. req[s].sess \in SignedIn' /\ req[s].sess # None
        BY <2>1, SessionsAssumption DEF SignedIn
    <2>6. Fit(k)'
        BY <2>1, <2>3, <2>4, <2>5
    <2>7. \A l \in Logins \ {k} : issued'[l] = issued[l]
        BY <2>2 DEF TypeOK
    <2> QED
        BY <1>1, <2>6, <2>7 DEF LoginsFit
<1>4. ASSUME NEW k \in Logins, issued[k].state # "absent", SignOut(k) PROVE LoginsFit'
    <2>1. PICK b \in SignedIn :
              /\ b = issued[k].browser /\ issued[k].user = sess[b].user
              /\ issued[k].from \in {None, b}
              /\ "slow" \notin may /\ issued[k].from = None => ~Live(b, now)
        BY <1>4 DEF LoginsFit
    <2>2. issued'[k] = [issued[k] EXCEPT !.state = "ended"]
        BY <1>4 DEF SignOut, TypeOK
    <2>3. /\ issued'[k].browser = b /\ issued'[k].user = issued[k].user
          /\ issued'[k].from = issued[k].from
        BY <2>1, <2>2 DEF TypeOK
    <2>4. b \in SignedIn' /\ sess'[b].user = sess[b].user
        BY <2>1, StillSignedIn
    <2>5. ASSUME issued[k].from # None PROVE ~Live(b, now)'
        <3>1. sess' = Revoked(SessionsOf(issued[k].user), "signed_out_elsewhere")
            BY <1>4, <2>5 DEF SignOut
        <3>2. sess'[b].state # "open"
            BY <2>1, <3>1 DEF Revoked, SessionsOf, SignedIn, Open, TypeOK, SessType
        <3> QED
            BY <3>2 DEF Live, Open
    <2>6. ASSUME "slow" \notin may, issued[k].from = None PROVE ~Live(b, now)'
        BY <2>1, <2>6, EndedStep
    <2>7. Fit(k)'
        BY <1>0, <2>1, <2>3, <2>4, <2>5, <2>6
    <2>8. \A l \in Logins \ {k} : issued'[l] = issued[l]
        BY <1>4 DEF SignOut, TypeOK
    <2> QED
        BY <1>1, <2>7, <2>8 DEF LoginsFit
<1> QED
    BY <1>2, <1>3, <1>4, IssuedMoves

-----------------------------------------------------------------------------
IInv ==
    /\ TypeOK /\ AcsFits /\ BelievedFits /\ Earned /\ OneAtATime /\ Punctual
    /\ InUse /\ Undisturbed /\ DocsArePeople /\ LeaverIsSignedOut /\ LoginsFit

LEMMA IInvInit == Init => IInv
<1> SUFFICES ASSUME Init PROVE IInv
    OBVIOUS
<1>1. \A s \in Slots : req[s].pc = "idle"
    BY DEF Init, NoReq, Request
<1>2. \A i \in Sessions : sess[i].state = "absent"
    BY DEF Init, NoSession
<1>3. \A l \in Logins : issued[l].state = "absent"
    BY DEF Init, NoLogin
<1>4. \A x \in Assertions : doc[x] = NoDoc
    BY DEF Init
<1> QED
    BY <1>1, <1>2, <1>3, <1>4, InitType
       DEF IInv, AcsFits, BelievedFits, Earned, OneAtATime, Punctual, Acs, InUse, Undisturbed,
           DocsArePeople, LeaverIsSignedOut, LoginsFit, Using, SignedIn

LEMMA IInvStep == IInv /\ [Next]_vars => IInv'
BY TypeStep, AnswersStep, EarnedStep, OneAtATimeStep, PunctualStep, InUseStep, UndisturbedStep,
   DocsArePeopleStep, LeaverStep, LoginsFitStep DEF IInv

(* Rows and requests keep their shape, for any number of people, browsers, *)
(* requests, documents and applications.                                   *)
THEOREM TypeCorrect == Spec => []TypeOK
<1>1. IInv => TypeOK
    BY DEF IInv
<1> QED
    BY <1>1, IInvInit, IInvStep, PTL DEF Spec

(* Every session stands on an answer the provider gave to a request of     *)
(* ours about that very person, which cannot be answered again; and while  *)
(* requests come one at a time, nothing signs anybody in twice.            *)
THEOREM SignInsAreAlwaysEarned == Spec => []SignInsAreEarned
<1>1. IInv => SignInsAreEarned
    <2> SUFFICES ASSUME IInv PROVE SignInsAreEarned
        OBVIOUS
    <2>1. ASSUME Serial, NEW i \in SignedIn, NEW j \in SignedIn, i # j
          PROVE  sess[i].request # sess[j].request /\ sess[i].assertion # sess[j].assertion
        BY <2>1 DEF IInv, OneAtATime, Earned, SignedIn
    <2> QED
        BY <2>1 DEF IInv, Earned, SignedIn, SignInsAreEarned
<1> QED
    BY <1>1, IInvInit, IInvStep, PTL DEF Spec

(* A session that has ended, has run out or was left idle never lets       *)
(* anybody through again, unless a request was still running meanwhile.    *)
THEOREM EndedStaysEndedAlways == Spec => EndedStaysEnded
<1>1. IInv /\ [Next]_vars =>
          ["slow" \notin may => \A i \in SignedIn : ~Live(i, now) => ~Live(i, now)']_vars
    BY EndedStep DEF IInv
<1> QED
    BY <1>1, IInvInit, IInvStep, PTL DEF Spec, EndedStaysEnded

(* While requests come one at a time, nobody the provider has removed is   *)
(* signed in anywhere; and who signs out of an application is signed out   *)
(* of the browser they opened it from, if no request outlasts a session.   *)
THEOREM SignedOutMeansOutAlways == Spec => []SignedOutMeansOut
<1>1. IInv => SignedOutMeansOut
    BY DEF IInv, LoginsFit, AppLogoutSignsOut, SignedOutMeansOut
<1> QED
    BY <1>1, IInvInit, IInvStep, PTL DEF Spec

(* While requests come one at a time and none outlasts a session, a login  *)
(* is issued only to somebody active and entitled to the application, from *)
(* a session of theirs that still lets them through.                       *)
THEOREM OnlyTheEntitledSignOnAlways == Spec => OnlyTheEntitledSignOn
<1> DEFINE Step ==
        Serial /\ "slow" \notin may => \A l \in Logins :
            issued'[l] # issued[l] /\ issued[l].state = "absent" =>
                LET k == issued'[l] IN
                /\ active[k.user] /\ HasAccess(k.user, k.app)
                /\ Live(k.browser, now) /\ sess[k.browser].user = k.user /\ k.from = k.browser
<1>1. IInv /\ [Next]_vars => Step
    <2> SUFFICES ASSUME IInv, [Next]_vars, Serial, "slow" \notin may, NEW l \in Logins,
                        issued'[l] # issued[l], issued[l].state = "absent"
                 PROVE  LET k == issued'[l] IN
                        /\ active[k.user] /\ HasAccess(k.user, k.app)
                        /\ Live(k.browser, now) /\ sess[k.browser].user = k.user
                        /\ k.from = k.browser
        OBVIOUS
    <2>0. \A k \in Logins : l # k => ~SignOut(k) \/ issued[k].state = "absent"
        BY DEF IInv, TypeOK, SignOut
    <2>1. PICK s \in Slots : Issue(s, l)
        BY <2>0, IssuedMoves DEF IInv, TypeOK, Issue
    <2>2. /\ req[s].pc = "issue" /\ req[s].pc \in Using
          /\ issued'[l].user = req[s].user /\ issued'[l].app = req[s].app
          /\ issued'[l].browser = req[s].sess
          /\ issued'[l].from = IF Live(req[s].sess, now) THEN req[s].sess ELSE None
        BY <2>1 DEF IInv, TypeOK, Issue, Using
    <2>3. /\ active[req[s].user] /\ HasAccess(req[s].user, req[s].app)
          /\ Live(req[s].sess, now) /\ req[s].user = sess[req[s].sess].user
        BY <2>2 DEF IInv, Undisturbed, InUse
    <2> QED
        BY <2>2, <2>3
<1> QED
    BY <1>1, IInvInit, IInvStep, PTL DEF Spec, OnlyTheEntitledSignOn
=============================================================================
