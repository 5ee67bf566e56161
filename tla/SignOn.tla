--------------------------------- MODULE SignOn ---------------------------------
(***************************************************************************)
(* The whole of single sign-on: people sign in here through their          *)
(* provider, and from here to applications.                                *)
(***************************************************************************)
EXTENDS SamlLogin, AppSignOn, FiniteSets

vars == <<active, sess, now, req, may, pending, doc, seen, assigned, issued>>

Init ==
    /\ active = [u \in Users |-> TRUE]
    /\ sess = [i \in Sessions |-> NoSession]
    /\ now = 0
    /\ req = [s \in Slots |-> NoReq]
    /\ may \in Circumstances
    /\ pending = [q \in Relays |-> NoPending]
    /\ doc = [x \in Assertions |-> NoDoc]
    /\ seen = [x \in Assertions |-> None]
    /\ assigned = [a \in Apps |-> {Staff}]
    /\ issued = [l \in Logins |-> NoLogin]

SessionStep(s) ==
    \/ (\E i \in Sessions : BeginUse(s, i)) \/ SeeUser(s) \/ Touch(s) \/ Abort(s)

LoginStep(s) ==
    \/ \E q \in Relays, x \in Assertions : BeginAcs(s, q, x)
    \/ TakeRequest(s) \/ JudgeAnswer(s) \/ SeePerson(s)
    \/ \E i \in Sessions : Accept(s, i) \/ BeginLogout(s, i)
    \/ TellProvider(s)

ProviderStep ==
    \/ \E q \in Relays : StartLogin(q) \/ ProviderConfirms(q)
    \/ \E x \in Assertions, q \in Relays, u \in Users, index \in Indexes,
         until \in {None, now + Validity} : ProviderAnswers(x, q, u, index, until)
    \/ \E u \in Users, index \in Indexes \cup {None} : ProviderLogsOut(index, u)

AppStep(s) ==
    \/ \E i \in Sessions, a \in Apps : BeginSso(s, i, a)
    \/ SeeAgain(s) \/ SeeDirect(s) \/ SeeGroup(s)
    \/ \E l \in Logins : Issue(s, l)

PeopleStep == (\E u \in Users : SwitchOff(u) \/ SwitchOn(u)) \/ Tick

AppLogout ==
    \/ \E l \in ByIndex : SignOut(l)
    \/ \E u \in Users, a \in Apps : \E l \in BySubject(u, a) : SignOut(l)

Assignment ==
    \E a \in Apps :
        \/ \E u \in Users : AssignUser(u, a) \/ UnassignUser(u, a)
        \/ AssignGroup(a) \/ UnassignGroup(a)

Next ==
    \/ \E s \in Slots : SessionStep(s) /\ UNCHANGED <<loginVars, appVars>>
    \/ \E s \in Slots : LoginStep(s) /\ UNCHANGED appVars
    \/ ProviderStep /\ UNCHANGED appVars
    \/ \E s \in Slots : AppStep(s) /\ UNCHANGED loginVars
    \/ AppLogout /\ UNCHANGED loginVars
    \/ \E u \in Users : LeaveApps(u) /\ UNCHANGED loginVars
    \/ Assignment /\ UNCHANGED loginVars
    \/ PeopleStep /\ UNCHANGED <<loginVars, appVars>>

Spec == Init /\ [][Next]_vars

-----------------------------------------------------------------------------
(* Properties.                                                             *)

ReqType ==
    [op : {"none", "use", "sso", "acs", "logout"},
     pc : {"idle", "user", "touch", "access", "direct", "group", "issue",
           "take", "judge", "person", "accept", "single"},
     user : Users \cup {None}, sess : Sessions \cup {None}, at : 0..MaxTime, seen : 0..MaxTime,
     relay : Relays \cup {None}, due : 0..(MaxTime + RequestTtl),
     doc : Assertions \cup {None}, app : Apps \cup {None}]

SessType ==
    [state : {"absent", "open", "signed_out", "signed_out_elsewhere", "user_deactivated"},
     user : Users \cup {None}, index : Indexes \cup {None}, seen : 0..MaxTime,
     until : 0..(MaxTime + Lifetime), request : Relays \cup {None},
     assertion : Assertions \cup {None}]

(* Every variable stays within the columns and the local state it models.  *)
TypeOK ==
    /\ active \in [Users -> BOOLEAN]
    /\ sess \in [Sessions -> SessType]
    /\ now \in 0..MaxTime
    /\ req \in [Slots -> ReqType]
    /\ may \in Circumstances
    /\ pending \in [Relays -> [state : {"new", "open", "gone"}, kind : {"login", "logout"},
                               until : 0..(MaxTime + RequestTtl)]]
    /\ doc \in [Assertions -> [request : Relays \cup {None}, user : Users \cup {None},
                               index : Indexes \cup {None}, until : Nat \cup {None}]]
    /\ seen \in [Assertions -> Nat \cup {None}]
    /\ assigned \in [Apps -> SUBSET (Users \cup {Staff})]
    /\ issued \in [Logins -> [state : {"absent", "open", "ended"}, user : Users \cup {None},
                              app : Apps \cup {None}, from : Sessions \cup {None},
                              browser : Sessions \cup {None}, at : 0..MaxTime]]

Serial == "race" \notin may
SignedIn == {i \in Sessions : sess[i].state # "absent"}

(* A session that has ended, has run out or was left idle never lets       *)
(* anybody through again, whatever else happens to its row: no sign-in,    *)
(* touch or second sign-out brings it back.  Only a request that was still *)
(* running when the session went idle does, with the touch it owes.        *)
EndedStaysEnded ==
    []["slow" \notin may => \A i \in SignedIn : ~Live(i, now) => ~Live(i, now)']_vars

(* Every session stands on an answer the provider gave to a request of     *)
(* ours, about that very person, and the request cannot be answered again; *)
(* while requests are served one at a time no request and no assertion     *)
(* ever signs anybody in twice.                                            *)
SignInsAreEarned ==
    /\ \A i \in SignedIn :
         LET d == doc[sess[i].assertion] IN
         d.request = sess[i].request /\ d.user = sess[i].user /\ pending[d.request].state = "gone"
    /\ Serial => \A i, j \in SignedIn :
         i # j => sess[i].request # sess[j].request /\ sess[i].assertion # sess[j].assertion

(* Somebody the provider has removed is not signed in, in any browser: the *)
(* flag and the sessions go together, and no login is accepted afterwards. *)
LeaverIsSignedOut ==
    Serial /\ "console" \notin may =>
        \A i \in SignedIn : Open(i) => active[sess[i].user]

(* Signing out of an application signs the person out of the browser       *)
(* session it was opened from, even when that session had ended and was    *)
(* not written down (iam/routers/idp.py, _sign_out).  A request that is    *)
(* still running when the session goes idle may touch it back.             *)
AppLogoutSignsOut ==
    "slow" \notin may =>
        \A l \in Logins : issued[l].state = "ended" => ~Live(issued[l].browser, now)

(* Whoever was to be signed out is.                                        *)
SignedOutMeansOut == LeaverIsSignedOut /\ AppLogoutSignsOut

(* A login is issued only to somebody who is active and entitled to the    *)
(* application at the moment it is signed, and from a session of theirs    *)
(* that still lets them through.                                           *)
OnlyTheEntitledSignOn ==
    [][Serial /\ "slow" \notin may => \A l \in Logins :
         issued'[l] # issued[l] /\ issued[l].state = "absent" =>
            LET k == issued'[l] IN
            /\ active[k.user] /\ HasAccess(k.user, k.app)
            /\ Live(k.browser, now) /\ sess[k.browser].user = k.user /\ k.from = k.browser]_vars

=============================================================================
