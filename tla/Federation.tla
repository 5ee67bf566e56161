------------------------------- MODULE Federation -------------------------------
(***************************************************************************)
(* Messages on their way between us, a provider elsewhere and an           *)
(* application elsewhere.  We are a provider and an application ourselves, *)
(* and may be registered with ourselves.  What an accepted answer does to  *)
(* people and sessions is in SamlLogin; here it is about the papers.       *)
(***************************************************************************)
EXTENDS Registrations

INSTANCE AssertionChecks

CONSTANTS
    Trips,            \* bound: conversations
    MaxTime,          \* bound: how far the clock goes
    ReaderSkew,       \* DEFAULT_CLOCK_SKEW of the checks
    DeflatedLength,   \* characters a deflated request takes in a URL
    PlainLength,      \* and one that was posted
    RelayLength,      \* characters its relay state adds
    Circumstances     \* which of the events outside happen together

ASSUME FederationAssumption ==
    {ClockSkew, AssertionLifetime, ReaderSkew, MaxTime, DeflatedLength, PlainLength, RelayLength}
        \subseteq Nat

\* None is no conversation, slug, word, address or assertion.
Words == {OurSp.entity, OurIdp.entity, "app", "partner", "encryption", "unreadable"}
Addresses ==
    {OurSp.acs, OurSp.slo, OurIdp.slo, "partner_sso", "partner_slo", "app_slo"} \cup AppAddresses
Assertions ==
    [id : Trips, issuer : {OurIdp.entity}, audiences : {{OurSp.entity}, {"app"}},
     recipient : {OurSp.acs} \cup AppAddresses, answers : Trips \cup {None},
     notBefore : Int, notOnOrAfter : Int, subjectUntil : Int]
ASSUME NoneAssumption ==
    None \notin Trips \cup Providers \cup Clients \cup Words \cup Addresses \cup Assertions

VARIABLES
    now,
    trip      \* trip[t]: the message under way, and what became of it

vars == <<regVars, now, trip>>

(* idp and relay are also the row of saml_request_state; app is the slug   *)
(* in a link of the console; quote and asked are the id and relay state    *)
(* the sender expects back.                                                *)
NoTrip == [pc |-> "new", wire |-> None, to |-> None, via |-> "redirect", relay |-> None,
           idp |-> None, app |-> None, quote |-> None, asked |-> None, outcome |-> None]

At(t, place, kind) ==
    /\ Up
    /\ trip[t].pc = "sent" /\ trip[t].to = place
    /\ trip[t].wire # None /\ trip[t].wire.doc.kind = kind

Sent(wire, to, via, relay, idp, app, quote) ==
    [pc |-> "sent", wire |-> wire, to |-> to, via |-> via, relay |-> relay, idp |-> idp,
     app |-> app, quote |-> quote, asked |-> relay, outcome |-> None]

Send(t, row) ==
    /\ Up /\ trip[t].pc = "new"
    /\ trip' = [trip EXCEPT ![t] = row]
    /\ UNCHANGED <<regVars, now>>

Reply(t, wire, to) ==
    /\ trip' = [trip EXCEPT ![t].wire = wire, ![t].to = to, ![t].via = "redirect"]
    /\ UNCHANGED <<regVars, now>>

End(t, outcome) ==
    /\ trip' = [trip EXCEPT ![t].pc = "ended", ![t].outcome = outcome]
    /\ UNCHANGED <<regVars, now>>

-----------------------------------------------------------------------------
(* /saml/login, and what an application elsewhere and the console ask.     *)
StartLogin(t, s) ==
    /\ s \in Enabled(providers)
    /\ Send(t, Sent(Deflated(AuthnRequest(t, providers[s].sso)), providers[s].sso, "redirect",
                    t, s, None, t))

(* Of either binding, with or without a relay state; an application that   *)
(* has moved asks for the answer at its new address.                       *)
AppAsks(t, acs, via, relay) ==
    LET doc == [kind |-> "authn", id |-> t, issuer |-> "app", acs |-> acs, destination |-> OurIdp.sso,
                signed |-> Unsigned]
    IN /\ "apps" \in may
       /\ Send(t, Sent(IF via = "post" THEN Plain(doc) ELSE Deflated(doc), OurIdp.sso, via,
                       relay, None, None, t))

(* sso_for_app                                                             *)
OpenApp(t, c) == Send(t, Sent(None, OurIdp.sso, "redirect", None, None, c, None))

-----------------------------------------------------------------------------
(* _sign_in, for whoever sits at the browser.  The application is looked   *)
(* up, and the address is the one registered for it.                       *)
AtSso(t) == Up /\ trip[t].pc = "sent" /\ trip[t].to = OurIdp.sso

Asked(t) == ReadAuthnRequest(trip[t].wire, trip[t].via = "redirect")

ApplicationFor(t) ==
    IF trip[t].app # None THEN {trip[t].app} \cap Enabled(applications)
    ELSE {c \in Enabled(applications) : applications[c].entity = Asked(t).issuer}

RequestId(t) == IF trip[t].app # None THEN None ELSE Asked(t).id

Readable(t) == trip[t].app = None => Asked(t) # Unreadable

SsoUnreadable(t) == AtSso(t) /\ ~Readable(t) /\ End(t, "unreadable")

SsoUnknown(t) == AtSso(t) /\ Readable(t) /\ ApplicationFor(t) = {} /\ End(t, "unknown")

(* _login_url_returning_here: nobody is signed in, so the request travels  *)
(* on as the place to return to, which saml_request_state has to hold.     *)
ReturnToMax == 500
ReturnToLength(t) ==
    IF trip[t].app # None THEN 0
    ELSE (IF trip[t].wire.form = "deflated" THEN DeflatedLength ELSE PlainLength)
         + (IF trip[t].relay # None THEN RelayLength ELSE 0)

\* Mutant: the ampersand before the relay state ends the parameter.
MutReturning(r) == [r EXCEPT !.pc = "logging_in", !.relay = None]

Returning(r) == [r EXCEPT !.pc = "logging_in"]

SsoAsksToLogIn(t) ==
    /\ AtSso(t) /\ Readable(t) /\ ApplicationFor(t) # {}
    /\ IF ReturnToLength(t) > ReturnToMax THEN End(t, "lost")
       ELSE /\ trip' = [trip EXCEPT ![t] = Returning(@)]
            /\ UNCHANGED <<regVars, now>>

(* The login succeeds, and the browser follows return_to.                  *)
LoggedIn(t) ==
    /\ Up /\ trip[t].pc = "logging_in"
    /\ trip' = [trip EXCEPT ![t].pc = "sent"]
    /\ UNCHANGED <<regVars, now>>

(* _refuse                                                                 *)
SsoRefuses(t) ==
    /\ AtSso(t) /\ Readable(t)
    /\ \E c \in ApplicationFor(t) :
         Reply(t, Plain(BuildFailureResponse(applications[c].acs, RequestId(t))), applications[c].acs)

(* _issue                                                                  *)
\* Mutant: the answer goes where the request asks for it.
MutAcsFor(t, c) == IF trip[t].app # None THEN applications[c].acs ELSE Asked(t).acs

AcsFor(t, c) == applications[c].acs

SsoIssues(t) ==
    /\ AtSso(t) /\ Readable(t)
    /\ \E c \in ApplicationFor(t) :
         LET acs == AcsFor(t, c)
             unsigned == BuildResponse(t, applications[c].entity, acs, RequestId(t), now)
         IN Reply(t, Plain(SignAssertion(unsigned, process)), acs)

-----------------------------------------------------------------------------
(* The provider elsewhere answers: as ours would, or with its own habits.  *)
PartnerPair == [key |-> partner, cert |-> partner]
PartnerSignature == Signature(PartnerPair)

PartnerResponse(t) ==
    [BuildResponse(t, OurSp.entity, OurSp.acs, t, now) EXCEPT
       !.issuer = "partner", !.assertion.issuer = "partner", !.signed.assertion = PartnerSignature]

PartnerAnswers(t, habit) ==
    LET usual == PartnerResponse(t)
    IN /\ At(t, "partner_sso", "authn")
       /\ Reply(t, Plain(CASE habit = "usual"   -> usual
                           [] habit = "wrapper" -> [usual EXCEPT !.signed = [root |-> PartnerSignature, assertion |-> None]]
                           [] habit = "neither" -> [usual EXCEPT !.signed = Unsigned]
                           [] habit = "refusal" -> [usual EXCEPT !.status = "responder", !.assertion = None, !.signed = Unsigned]
                           [] habit = "early"   -> [usual EXCEPT !.assertion.notBefore = now + ReaderSkew + 1]),
                OurSp.acs)

Habits == {"usual", "wrapper", "neither", "refusal", "early"}

(* An application elsewhere gets its answer.                               *)
AppReceives(t) ==
    /\ trip[t].pc = "sent" /\ trip[t].to \in AppAddresses \cup {"app_slo"}
    /\ End(t, "delivered")

-----------------------------------------------------------------------------
(* assertion_consumer_service: which provider's answer it should be, and   *)
(* what reading it shows.  Without a request of ours there is no answer.   *)
Expected(row, t) ==
    [us |-> OurSp.entity, acs |-> OurSp.acs, idp |-> row.entity, request |-> t,
     skew |-> ReaderSkew, requireSigned |-> row.signedOnly]

Acceptable(t) ==
    LET row == providers[trip[t].idp]
        doc == trip[t].wire.doc
    IN /\ trip[t].relay # None /\ trip[t].idp \in Enabled(providers)
       /\ doc.assertion # None
       /\ AllPassed(ReadResponse(doc, row.cert), Expected(row, t), now, {})

JudgeAnswer(t) ==
    /\ At(t, OurSp.acs, "response")
    /\ End(t, IF trip[t].idp # None /\ Acceptable(t) THEN "accepted" ELSE "refused")

-----------------------------------------------------------------------------
(* Signing out.  _single_logout_url: the provider is told, over the        *)
(* redirect binding, signed in the query string.                           *)
TellProvider(t, s) ==
    /\ "logout" \in may
    /\ s \in Enabled(providers) /\ providers[s].slo # None
    /\ Send(t, Sent(RedirectBindingUrl(LogoutRequest(t, OurSp.entity, providers[s].slo), process),
                    providers[s].slo, "redirect", t, s, None, t))

AppLogsOut(t, via) ==
    LET doc == LogoutRequest(t, "app", OurIdp.slo)
    IN /\ {"logout", "apps"} \subseteq may
       /\ Send(t, Sent(IF via = "post" THEN Plain(doc) ELSE Deflated(doc), OurIdp.slo, via,
                       t, None, None, t))

(* _sign_out as our provider's answer: to the address registered for the   *)
(* application that asks, signed at the root.  No key is looked at.        *)
SignOut(t) ==
    LET request == Decode(trip[t].wire, trip[t].via = "redirect")
        asking == {c \in Enabled(applications) : applications[c].entity = request.issuer}
    IN /\ At(t, OurIdp.slo, "logout")
       /\ IF asking = {} THEN End(t, "unknown")
          ELSE \E c \in asking :
                 LET slo == applications[c].slo
                 IN Reply(t, Deflated(SignDocument(LogoutResponse(OurIdp.entity, slo, request.id), process)), slo)

(* The provider elsewhere confirms ours, or sends one of its own, signed   *)
(* in the document or the way the redirect binding has it.                 *)
PartnerConfirms(t) ==
    /\ At(t, "partner_slo", "logout")
    /\ Reply(t, Deflated(SignDocument(LogoutResponse("partner", OurSp.slo, t), PartnerPair)), OurSp.slo)

PartnerLogsOut(t, how) ==
    LET doc == LogoutRequest(t, "partner", OurSp.slo)
    IN /\ {"logout", "partner"} \subseteq may
       /\ Send(t, Sent(IF how = "document" THEN Deflated(SignDocument(doc, PartnerPair))
                                           ELSE RedirectBindingUrl(doc, PartnerPair),
                       OurSp.slo, "redirect", None, None, None, t))

(* single_logout_service: a confirmation, of the provider that was asked.  *)
ProviderConfirms(t) ==
    /\ At(t, OurSp.slo, "loggedout")
    /\ End(t, IF ReadLogoutResponse(trip[t].wire, providers[trip[t].idp].cert).verified
              THEN "confirmed" ELSE "not_confirmed")

(* _identify_logout_sender: whoever's key verifies.                        *)
Senders(t) ==
    {s \in Enabled(providers) : ReadLogoutRequest(trip[t].wire, providers[s].cert).verified}

ProviderLogsOut(t) ==
    /\ At(t, OurSp.slo, "logout")
    /\ IF Senders(t) = {} THEN End(t, "refused")
       ELSE \E s \in Senders(t) :
              /\ trip' = [trip EXCEPT ![t].pc = "ended", ![t].outcome = "signed_out", ![t].idp = s]
              /\ UNCHANGED <<regVars, now>>

-----------------------------------------------------------------------------
(* Bound: the clock matters only while something is under way.             *)
Tick ==
    /\ now < MaxTime /\ \E t \in Trips : trip[t].pc = "sent"
    /\ now' = now + 1
    /\ UNCHANGED <<regVars, trip>>

Init ==
    /\ may \in Circumstances
    /\ \E k \in OurKeys : config = [key |-> k, cert |-> k] /\ made = {k}
    /\ process = config
    /\ partner \in PartnerKeys
    /\ providers = [s \in Providers |-> Absent]
    /\ applications = [c \in Clients |-> Absent]
    /\ now = 0
    /\ trip = [t \in Trips |-> NoTrip]

Administration ==
    /\ \/ Stop
       \/ \E k \in OurKeys : Boot(k)
       \/ \E k, c \in OurKeys \cup {None, NotPem} : Configure(k, c)
       \/ \E k \in PartnerKeys : PartnerRotates(k)
       \/ Up /\ \E doc \in Documents :
             \/ \E s \in Providers, enabled, signedOnly \in BOOLEAN : RegisterProvider(s, doc, enabled, signedOnly)
             \/ \E c \in Clients, enabled \in BOOLEAN : RegisterApplication(c, doc, enabled)
    /\ UNCHANGED <<now, trip>>

Starts(t) ==
    /\ trip[t].pc = "new"
    /\ \/ \E s \in Providers : StartLogin(t, s) \/ TellProvider(t, s)
       \/ \E acs \in AppAddresses, via \in {"redirect", "post"}, relay \in {t, None} : AppAsks(t, acs, via, relay)
       \/ \E c \in Registered(applications) : OpenApp(t, c)
       \/ \E via \in {"redirect", "post"} : AppLogsOut(t, via)
       \/ \E how \in {"document", "query"} : PartnerLogsOut(t, how)

Moves(t) ==
    /\ trip[t].pc \in {"sent", "logging_in"}
    /\ \/ SsoUnreadable(t) \/ SsoUnknown(t) \/ SsoAsksToLogIn(t) \/ LoggedIn(t)
       \/ SsoRefuses(t) \/ SsoIssues(t)
       \/ \E habit \in Habits : PartnerAnswers(t, habit)
       \/ AppReceives(t) \/ JudgeAnswer(t)
       \/ SignOut(t) \/ PartnerConfirms(t) \/ ProviderConfirms(t) \/ ProviderLogsOut(t)

Next == Administration \/ Tick \/ \E t \in Trips : Starts(t) \/ Moves(t)

Spec == Init /\ [][Next]_vars

-----------------------------------------------------------------------------
(* The certificate we publish is always that of the key we sign with; what *)
(* is registered came whole out of a document.                             *)
TypeOK ==
    /\ process \in {None} \cup {[key |-> k, cert |-> k] : k \in OurKeys}
    /\ made \subseteq OurKeys /\ partner \in PartnerKeys
    /\ now \in 0..MaxTime
    /\ \A s \in Registered(providers) : providers[s].cert \in OurKeys \cup PartnerKeys
    /\ \A c \in Registered(applications) : applications[c].acs \in {OurSp.acs} \cup AppAddresses
    /\ \A t \in Trips : trip[t].pc \in {"new", "sent", "logging_in", "ended"}

Shown(doc) == {doc.signed[e].shows : e \in {"root", "assertion"} \cap {x \in DOMAIN doc.signed : doc.signed[x] # None}}

Judged(t) == trip[t].pc # "ended" /\ trip'[t].pc = "ended"

(* A login our provider issued for a request of our own passes every check *)
(* of our own reader, and so does its confirmation of a logout, as long as *)
(* the certificate it shows is the one registered and it is not late: the  *)
(* two halves of the system agree about the papers.                        *)
OwnPapersAreBelieved ==
    [][\A t \in Trips :
         LET r == trip[t] IN
         (/\ Judged(t) /\ r.to \in {OurSp.acs, OurSp.slo} /\ r.idp # None
          /\ r.wire.doc.issuer = OurIdp.entity /\ Shown(r.wire.doc) = {providers[r.idp].cert}
          /\ providers[r.idp].enabled
          /\ r.to = OurSp.acs => now < r.wire.doc.assertion.notOnOrAfter)
           => trip'[t].outcome \in {"accepted", "confirmed"}]_vars

(* Whoever is signed in or out by an answer: the key registered for their  *)
(* provider made a signature over what was read, and the provider says it  *)
(* is the one registered under that name.                                  *)
BelievedIsVouchedFor ==
    [][\A t \in Trips :
         LET doc == trip[t].wire.doc
             row == providers[trip'[t].idp]
             over == IF trip'[t].outcome = "accepted" /\ row.signedOnly THEN {"assertion"}
                     ELSE {"assertion", "root"} \cap DOMAIN doc.signed
         IN Judged(t) /\ trip'[t].outcome \in {"accepted", "confirmed", "signed_out"}
              => /\ \E e \in over : doc.signed[e] # None /\ doc.signed[e].by = row.cert
                 /\ doc.issuer = row.entity]_vars

(* An answer of ours, yes or no, only ever goes to the address registered  *)
(* for an application that is switched on, and a login in it is made out   *)
(* to that application.                                                    *)
AnswersGoWhereRegistered ==
    [][\A t \in Trips :
         LET doc == trip'[t].wire.doc IN
         (trip'[t].wire # trip[t].wire /\ trip'[t].wire # None /\ doc.kind = "response" /\ doc.issuer = OurIdp.entity)
           => \E c \in Enabled(applications) :
                /\ trip'[t].to = applications[c].acs
                /\ doc.assertion # None => doc.assertion.audiences = {applications[c].entity}]_vars

(* An answer quotes the request it answers, and carries the relay state    *)
(* that came with it, also when a login came in between; nothing readable  *)
(* becomes unreadable on the way.                                          *)
AnswersFollowTheRequest ==
    \A t \in Trips :
        /\ trip[t].outcome # "unreadable"
        /\ (trip[t].wire # None /\ trip[t].wire.doc.kind = "response") => trip[t].wire.doc.answers = trip[t].quote
        /\ trip[t].wire # None => trip[t].relay = trip[t].asked

-----------------------------------------------------------------------------
(* A request that came by POST comes back from the login it has to wait    *)
(* for (_login_url_returning_here).                                        *)
PostedRequestsComeBack == \A t \in Trips : trip[t].outcome # "lost"
=============================================================================
