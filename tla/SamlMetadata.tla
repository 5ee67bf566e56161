------------------------------ MODULE SamlMetadata ------------------------------
(***************************************************************************)
(* Reading a metadata document (saml/metadata.py).  A document is a        *)
(* sequence of parties; a bundle, which federations hand out, holds        *)
(* several.  A party has a role as a provider (idp), as an application     *)
(* (sp), both, or neither.  None is whatever a document leaves out, and    *)
(* what a reader returns when it refuses.                                  *)
(***************************************************************************)
EXTENDS Integers, Sequences

CONSTANT None

Bindings == {"redirect", "post", "other"}

Service(name, binding, at) == [name |-> name, binding |-> binding, at |-> at]
KeyDescriptor(use, cert) == [use |-> use, cert |-> cert]
Party(entity, idp, sp) ==
    [entity |-> entity, as |-> [role \in {"idp", "sp"} |-> IF role = "idp" THEN idp ELSE sp]]

(* _parse: nothing, too much, a DOCTYPE, or not XML at all.                *)
Sound(doc) == doc.wellFormed /\ Len(doc.parties) > 0

-----------------------------------------------------------------------------
(* The first of the entries of a sequence that are numbered in S.          *)
First(seq, S) == seq[CHOOSE i \in S : \A j \in S : i <= j]

(* _descriptor and _sp_descriptor: the first party with the role asked for.*)
Playing(doc, role) == {i \in DOMAIN doc.parties : doc.parties[i].as[role] # None}

Descriptor(doc, role) ==
    IF Playing(doc, role) = {} THEN None ELSE First(doc.parties, Playing(doc, role)).as[role]

(* _entity_id: of the document, else of the first party in the bundle.     *)
EntityId(doc) == doc.parties[1].entity

(* _service_url: in the order of preference, else any that has an address. *)
Offered(d, name) ==
    {i \in DOMAIN d.services : d.services[i].name = name /\ d.services[i].at # None}

ByBinding(d, S, binding) == {i \in S : d.services[i].binding = binding}

Preferred(d, offers, prefer) ==
    IF ByBinding(d, offers, prefer[1]) # {} THEN ByBinding(d, offers, prefer[1])
    ELSE IF ByBinding(d, offers, prefer[2]) # {} THEN ByBinding(d, offers, prefer[2]) ELSE offers

ServiceUrl(d, name, prefer) ==
    IF Offered(d, name) = {} THEN None
    ELSE First(d.services, Preferred(d, Offered(d, name), prefer)).at

(* _signing_cert: one marked for signing, else the first without a mark.   *)
MarkedFor(d, use) == {i \in DOMAIN d.keys : d.keys[i].use = use /\ d.keys[i].cert # None}

Usable(d) == IF MarkedFor(d, "signing") # {} THEN MarkedFor(d, "signing") ELSE MarkedFor(d, None)

SigningCert(d) == IF Usable(d) = {} THEN None ELSE First(d.keys, Usable(d)).cert

-----------------------------------------------------------------------------
RedirectFirst == <<"redirect", "post">>
PostFirst == <<"post", "redirect">>

(* IdpMetadata; everything but the logout address has to be there.         *)
ReadIdpMetadata(doc) ==
    LET d == Descriptor(doc, "idp") IN
    IF ~Sound(doc) \/ d = None THEN None
    ELSE LET read == [entity |-> EntityId(doc), sso |-> ServiceUrl(d, "sso", RedirectFirst),
                      slo |-> ServiceUrl(d, "slo", RedirectFirst), cert |-> SigningCert(d)]
         IN IF None \in {read.entity, read.sso, read.cert} THEN None ELSE read

(* SpMetadata; the certificate is optional on this side.                   *)
ReadSpMetadata(doc) ==
    LET d == Descriptor(doc, "sp") IN
    IF ~Sound(doc) \/ d = None THEN None
    ELSE LET read == [entity |-> EntityId(doc), acs |-> ServiceUrl(d, "acs", PostFirst),
                      slo |-> ServiceUrl(d, "slo", RedirectFirst), cert |-> SigningCert(d)]
         IN IF None \in {read.entity, read.acs} THEN None ELSE read
=============================================================================
