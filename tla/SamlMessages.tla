------------------------------ MODULE SamlMessages ------------------------------
(***************************************************************************)
(* What goes over the wire: the messages saml/sp.py and saml/idp.py build, *)
(* the signatures saml/signer.py puts on them, their encodings, and what   *)
(* saml/reader.py reads back.  A certificate is named by the key it        *)
(* belongs to.  A message is a record; `signed' maps each signed element   *)
(* ("root", "assertion") to the signature on it.                           *)
(***************************************************************************)
EXTENDS SamlMetadata, FiniteSets

CONSTANTS
    ClockSkew,           \* CLOCK_SKEW: how far back NotBefore is set
    AssertionLifetime    \* ASSERTION_LIFETIME

(* ServiceProvider and Issuer: who we are, in both directions.             *)
OurSp == [entity |-> "our_sp", acs |-> "our_acs", slo |-> "our_sls"]
OurIdp == [entity |-> "our_idp", sso |-> "our_sso", slo |-> "our_slo"]

(* metadata_xml of both; ours as an application has no key descriptor      *)
(* when no key is configured.                                              *)
SpRole(cert) ==
    [keys |-> IF cert = None THEN <<>> ELSE <<KeyDescriptor("signing", cert)>>,
     services |-> <<Service("slo", "redirect", OurSp.slo), Service("acs", "post", OurSp.acs)>>]
SpMetadataXml(cert) ==
    [wellFormed |-> TRUE, parties |-> <<Party(OurSp.entity, None, SpRole(cert))>>]

IdpRole(cert) ==
    [keys |-> <<KeyDescriptor("signing", cert)>>,
     services |-> <<Service("slo", "redirect", OurIdp.slo), Service("sso", "redirect", OurIdp.sso),
                    Service("sso", "post", OurIdp.sso)>>]
IdpMetadataXml(cert) ==
    [wellFormed |-> TRUE, parties |-> <<Party(OurIdp.entity, IdpRole(cert), None)>>]

-----------------------------------------------------------------------------
(* Signatures.  add_sign embeds the certificate it is given; whoever holds *)
(* a certificate can tell whether the key that signed is the one in it.    *)
Unsigned == [root |-> None, assertion |-> None]
Signature(pair) == [by |-> pair.key, shows |-> pair.cert]

(* sign_assertion refuses a response without one: None is SigningFailed.   *)
SignAssertion(doc, pair) ==
    IF doc.assertion = None THEN None ELSE [doc EXCEPT !.signed.assertion = Signature(pair)]

SignDocument(doc, pair) == [doc EXCEPT !.signed.root = Signature(pair)]

\* Mutant: the certificate the signature shows is believed.
MutVerify(sig, cert) == sig # None /\ sig.shows = sig.by

Verify(sig, cert) == sig # None /\ sig.by = cert

-----------------------------------------------------------------------------
(* Envelopes.  The redirect binding deflates, the POST binding does not;   *)
(* a signature over the query string is beside the message, not in it.     *)
Deflated(doc) == [form |-> "deflated", doc |-> doc, query |-> None]
Plain(doc) == [form |-> "plain", doc |-> doc, query |-> None]

(* redirect_binding_url: with a key, the query string is signed.           *)
RedirectBindingUrl(doc, pair) == [Deflated(doc) EXCEPT !.query = Signature(pair)]

(* inflate_and_decode tries all the forms providers send, decode_response  *)
(* only the one; Unreadable is MalformedResponse.                          *)
Unreadable == [kind |-> "malformed"]
Decode(wire, deflated) == IF deflated \/ wire.form = "plain" THEN wire.doc ELSE Unreadable

-----------------------------------------------------------------------------
(* build_authn_request                                                     *)
AuthnRequest(id, sso) ==
    [kind |-> "authn", id |-> id, issuer |-> OurSp.entity, acs |-> OurSp.acs,
     destination |-> sso, signed |-> Unsigned]

(* build_logout_request, and ours to an application or a provider.         *)
LogoutRequest(id, issuer, destination) ==
    [kind |-> "logout", id |-> id, issuer |-> issuer, destination |-> destination,
     signed |-> Unsigned]

LogoutResponse(issuer, destination, answers) ==
    [kind |-> "loggedout", issuer |-> issuer, destination |-> destination, answers |-> answers,
     signed |-> Unsigned]

(* LoginToIssue: good from a little before its issue, for its lifetime.    *)
\* Mutant: the answer is addressed to us rather than to who asked.
MutBuildAssertion(id, audience, acs, answers, now) ==
    [id |-> id, issuer |-> OurIdp.entity, audiences |-> {OurIdp.entity}, recipient |-> acs,
     answers |-> answers, notBefore |-> now - ClockSkew, notOnOrAfter |-> now + AssertionLifetime,
     subjectUntil |-> now + AssertionLifetime]

BuildAssertion(id, audience, acs, answers, now) ==
    [id |-> id, issuer |-> OurIdp.entity, audiences |-> {audience}, recipient |-> acs,
     answers |-> answers, notBefore |-> now - ClockSkew, notOnOrAfter |-> now + AssertionLifetime,
     subjectUntil |-> now + AssertionLifetime]

BuildResponse(id, audience, acs, answers, now) ==
    [kind |-> "response", issuer |-> OurIdp.entity, status |-> "success", destination |-> acs,
     answers |-> answers, signed |-> Unsigned,
     assertion |-> BuildAssertion(id, audience, acs, answers, now)]

(* build_failure_response: a no has no assertion in it, and no signature.  *)
BuildFailureResponse(acs, answers) ==
    [kind |-> "response", issuer |-> OurIdp.entity, status |-> "responder", destination |-> acs,
     answers |-> answers, signed |-> Unsigned, assertion |-> None]

-----------------------------------------------------------------------------
(* read_authn_request, read_logout_request, read_logout_response.  Without *)
(* an id, or a request without an issuer, there is nothing to go by.       *)
ReadAuthnRequest(wire, deflated) ==
    LET doc == Decode(wire, deflated) IN
    IF doc.kind # "authn" \/ None \in {doc.id, doc.issuer} THEN Unreadable ELSE doc

ReadLogoutRequest(wire, cert) ==
    LET doc == Decode(wire, TRUE) IN
    IF doc.kind # "logout" THEN Unreadable
    ELSE [kind |-> "logout", id |-> doc.id, issuer |-> doc.issuer, verified |-> Verify(doc.signed.root, cert)]

ReadLogoutResponse(wire, cert) ==
    LET doc == Decode(wire, TRUE) IN
    IF doc.kind # "loggedout" THEN Unreadable
    ELSE [kind |-> "loggedout", answers |-> doc.answers, verified |-> Verify(doc.signed.root, cert)]

(* read_response: the facts of AssertionChecks.  The signature looked at   *)
(* is the assertion's, or the response's when the assertion has none.      *)
ReadResponse(doc, cert) ==
    LET a == doc.assertion
        over == IF doc.signed.assertion # None THEN "assertion" ELSE "root"
    IN [id |-> a.id, status |-> doc.status, issuer |-> a.issuer, audiences |-> a.audiences,
        destination |-> doc.destination, notBefore |-> a.notBefore, notOnOrAfter |-> a.notOnOrAfter,
        subjectUntil |-> a.subjectUntil, recipient |-> a.recipient,
        answers |-> doc.answers, subjectAnswers |-> a.answers,
        signed |-> over = "assertion", verified |-> Verify(doc.signed[over], cert)]
=============================================================================
