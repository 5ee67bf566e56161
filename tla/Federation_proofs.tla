---------------------------- MODULE Federation_proofs ----------------------------
(* For any number of conversations, slugs and keys: what is registered is  *)
(* what somebody published, our own papers are believed by our own reader, *)
(* nothing is believed without the registered key, and answers go where    *)
(* they are registered and follow their request.                           *)
EXTENDS Federation, TLAPS

-----------------------------------------------------------------------------
(* What is registered: what one of the three parties publishes, whole.     *)

OurRow == [entity : {OurIdp.entity}, sso : {OurIdp.sso}, slo : {OurIdp.slo}, cert : OurKeys,
           enabled : BOOLEAN, signedOnly : BOOLEAN]

PartnerRow(m) ==
    [entity : {"partner"} \cup (IF "bundle" \in m THEN {"app"} ELSE {}), sso : {"partner_sso"},
     slo : {"partner_slo"}, cert : PartnerKeys, enabled : BOOLEAN, signedOnly : BOOLEAN]

OurAppRow == [entity : {OurSp.entity}, acs : {OurSp.acs}, slo : {OurSp.slo}, enabled : BOOLEAN]

AppRow == [entity : {"app"}, acs : AppAddresses, slo : {"app_slo"}, enabled : BOOLEAN]

Pairs == {[key |-> k, cert |-> k] : k \in OurKeys}

Settings == [key : OurKeys \cup {None, NotPem}, cert : OurKeys \cup {None, NotPem}]

RowsFit ==
    /\ config \in Settings /\ process \in {None} \cup Pairs
    /\ made \subseteq OurKeys /\ partner \in PartnerKeys
    /\ providers \in [Providers -> {Absent} \cup OurRow \cup PartnerRow(may)]
    /\ applications \in [Clients -> {Absent} \cup OurAppRow \cup AppRow]

-----------------------------------------------------------------------------
(* What is under way: r is a conversation, t its number, n the time.       *)

Sigs(keys) == {[by |-> k, shows |-> k] : k \in keys}

Unread(r, form, docs, queries) ==
    /\ r.wire = [form |-> r.wire.form, doc |-> r.wire.doc, query |-> r.wire.query]
    /\ r.wire.form = form /\ r.wire.query \in queries
    /\ r.wire.doc \in docs

FormOf(r) == IF r.via = "post" THEN "plain" ELSE "deflated"

AcsUrls == {OurSp.acs} \cup AppAddresses

AuthnDocs(t) ==
    [kind : {"authn"}, id : {t}, issuer : {OurSp.entity, "app"}, acs : AcsUrls,
     destination : {OurIdp.sso, "partner_sso"}, signed : {Unsigned}]

LogoutDocs(t) ==
    [kind : {"logout"}, id : {t}, issuer : {OurSp.entity, "app", "partner"},
     destination : {OurIdp.slo, "partner_slo", OurSp.slo},
     signed : [root : {None} \cup Sigs(PartnerKeys), assertion : {None}]]

LoggedOutDocs(issuer, keys, answers) ==
    [kind : {"loggedout"}, issuer : {issuer}, destination : {OurSp.slo, "app_slo"},
     answers : answers, signed : [root : Sigs(keys), assertion : {None}]]

(* An application of ours is being opened from the console.                *)
Opening(r) ==
    /\ r.wire = None /\ r.to = OurIdp.sso /\ r.app \in Clients
    /\ r.quote = None /\ r.idp = None

(* Somebody asks for a login.                                              *)
Asking(r, t) ==
    /\ Unread(r, FormOf(r), AuthnDocs(t), {None})
    /\ r.to \in {OurIdp.sso, "partner_sso"} /\ r.app = None /\ r.quote = t

(* Our provider has answered: yes, at some time up to now, or no.          *)
Login(t, audience, to, quote, then, k) ==
    [kind |-> "response", issuer |-> OurIdp.entity, status |-> "success", destination |-> to,
     answers |-> quote, signed |-> [root |-> None, assertion |-> [by |-> k, shows |-> k]],
     assertion |-> BuildAssertion(t, audience, to, quote, then)]

OurAnswer(doc, to, quote, t, n) ==
    \/ doc = BuildFailureResponse(to, quote)
    \/ \E then \in 0..n, k \in OurKeys, audience \in {OurSp.entity, "app"} :
          /\ doc = Login(t, audience, to, quote, then, k)
          /\ to = OurSp.acs => audience = OurSp.entity

Answered(r, t, n) ==
    /\ r.wire = Plain(r.wire.doc) /\ OurAnswer(r.wire.doc, r.to, r.quote, t, n)
    /\ r.to \in AcsUrls /\ r.quote \in {t, None}

(* The provider elsewhere has answered.                                    *)
PartnerAnswered(r, t) ==
    /\ r.wire = Plain(r.wire.doc)
    /\ r.wire.doc.kind = "response" /\ r.wire.doc.issuer = "partner" /\ r.wire.doc.answers = t
    /\ r.wire.doc.assertion # None => r.wire.doc.assertion.issuer = "partner"
    /\ r.wire.doc.signed \in [root : {None} \cup Sigs(PartnerKeys),
                              assertion : {None} \cup Sigs(PartnerKeys)]
    /\ r.to = OurSp.acs /\ r.quote = t

(* Somebody asks to be signed out.                                         *)
LoggingOut(r, t) ==
    /\ Unread(r, FormOf(r), LogoutDocs(t), {None} \cup Sigs(OurKeys \cup PartnerKeys))
    /\ r.to \in {OurIdp.slo, "partner_slo", OurSp.slo}
    /\ r.to = OurSp.slo => r.wire.doc.issuer = "partner"
    /\ r.to = "partner_slo" \/ r.wire.doc.issuer = OurSp.entity => r.idp # None

(* A provider has confirmed it.                                            *)
LoggedOut(r, t) ==
    /\ Unread(r, "deflated", LoggedOutDocs(OurIdp.entity, OurKeys, {t})
                               \cup LoggedOutDocs("partner", PartnerKeys, {t}), {None})
    /\ r.to \in {OurSp.slo, "app_slo"}
    /\ r.to = OurSp.slo => r.idp # None

UnderWay(r, t, n) ==
    \/ Opening(r) \/ Asking(r, t) \/ Answered(r, t, n) \/ PartnerAnswered(r, t)
    \/ LoggingOut(r, t) \/ LoggedOut(r, t)

TripFits(r, t, n, rows, m) ==
    /\ r = [pc |-> r.pc, wire |-> r.wire, to |-> r.to, via |-> r.via, relay |-> r.relay,
            idp |-> r.idp, app |-> r.app, quote |-> r.quote, asked |-> r.asked,
            outcome |-> r.outcome]
    /\ r.pc \in {"new", "sent", "logging_in", "ended"} /\ r.via \in {"redirect", "post"}
    /\ r.pc = "new" => r = NoTrip
    /\ r.pc # "new" => UnderWay(r, t, n)
    /\ r.idp # None => r.idp \in Providers /\ rows[r.idp] # Absent
    /\ r.pc # "ended" /\ r.idp # None => r.relay = t /\ r.quote = t
    /\ r.relay = r.asked /\ r.outcome # "unreadable"
    /\ r.wire # None /\ r.wire.doc.kind \in {"logout", "loggedout"} => "logout" \in m

TripsFit ==
    /\ trip = [t \in Trips |-> trip[t]]
    /\ \A t \in Trips : TripFits(trip[t], t, now, providers, may)

IInv == may \in Circumstances /\ now \in 0..MaxTime /\ RowsFit /\ TripsFit

-----------------------------------------------------------------------------
(* Reading metadata.                                                       *)

(* The first entry is one of the entries.                                  *)
LEMMA FirstIsOne ==
    ASSUME NEW seq, NEW S, S \subseteq 1..3, S # {}
    PROVE  \E i \in S : First(seq, S) = seq[i]
<1>1. \E i \in S : \A j \in S : i <= j
    <2>0. \A i \in S : i = 1 \/ i = 2 \/ i = 3
        OBVIOUS
    <2>1. CASE 1 \in S
        BY <2>1
    <2>2. CASE 1 \notin S /\ 2 \in S
        BY <2>2
    <2>3. CASE 1 \notin S /\ 2 \notin S
        <3>1. \A j \in S : j = 3
            BY <2>0, <2>3
        <3>2. 3 \in S
            BY <3>1
        <3>3. \A j \in S : 3 <= j
            BY <3>1
        <3> QED
            BY <3>2, <3>3
    <2> QED
        BY <2>1, <2>2, <2>3
<1> QED
    BY <1>1 DEF First

(* Whoever publishes themselves as one party: the role they play is the    *)
(* one that is found, or none is.                                          *)
LEMMA OneParty ==
    ASSUME NEW doc, NEW p, NEW role, doc.parties = <<p>>
    PROVE  /\ Descriptor(doc, role) \in {None, p.as[role]}
           /\ EntityId(doc) = p.entity
<1>1. DOMAIN doc.parties = 1..1 /\ doc.parties[1] = p
    OBVIOUS
<1>2. Playing(doc, role) \subseteq 1..3
    BY <1>1 DEF Playing
<1>3. CASE Playing(doc, role) = {}
    BY <1>1, <1>3 DEF Descriptor, EntityId
<1>4. CASE Playing(doc, role) # {}
    <2>1. PICK i \in Playing(doc, role) : First(doc.parties, Playing(doc, role)) = doc.parties[i]
        BY <1>2, <1>4, FirstIsOne
    <2>2. i = 1
        BY <1>1 DEF Playing
    <2> QED
        BY <1>1, <1>4, <2>1, <2>2 DEF Descriptor, EntityId
<1> QED
    BY <1>3, <1>4

LEMMA BundleParties ==
    /\ Descriptor(Bundle, "idp") \in {None, PartnerIdp}
    /\ Descriptor(Bundle, "sp") \in {None, AppSp("app_acs")}
    /\ EntityId(Bundle) = "app"
<1>1. DOMAIN Bundle.parties = 1..2 /\ Bundle.parties[1] = AppParty("app_acs")
      /\ Bundle.parties[2] = PartnerParty
    BY DEF Bundle
<1>2. \A role : Playing(Bundle, role) \subseteq 1..3
    BY <1>1 DEF Playing
<1>3. ASSUME NEW role, Playing(Bundle, role) # {}
      PROVE  \E i \in DOMAIN Bundle.parties :
                /\ Bundle.parties[i].as[role] # None
                /\ Descriptor(Bundle, role) = Bundle.parties[i].as[role]
    <2>1. \E i \in Playing(Bundle, role) :
              Descriptor(Bundle, role) = Bundle.parties[i].as[role]
        BY <1>2, <1>3, FirstIsOne DEF Descriptor
    <2> QED
        BY <2>1 DEF Playing
<1>4. AppParty("app_acs").as["idp"] = None /\ PartnerParty.as["idp"] = PartnerIdp
      /\ AppParty("app_acs").as["sp"] = AppSp("app_acs") /\ PartnerParty.as["sp"] = None
      /\ AppParty("app_acs").entity = "app"
    BY DEF AppParty, PartnerParty, Party
<1>5. Descriptor(Bundle, "idp") \in {None, PartnerIdp}
    <2>1. CASE Playing(Bundle, "idp") = {}
        BY <2>1 DEF Descriptor
    <2>2. CASE Playing(Bundle, "idp") # {}
        BY <1>1, <1>3, <1>4, <2>2
    <2> QED
        BY <2>1, <2>2
<1>6. Descriptor(Bundle, "sp") \in {None, AppSp("app_acs")}
    <2>1. CASE Playing(Bundle, "sp") = {}
        BY <2>1 DEF Descriptor
    <2>2. CASE Playing(Bundle, "sp") # {}
        BY <1>1, <1>3, <1>4, <2>2
    <2> QED
        BY <2>1, <2>2
<1> QED
    BY <1>1, <1>4, <1>5, <1>6 DEF EntityId

(* Of the services that are offered, those over a preferred binding are    *)
(* taken if there are any.                                                 *)
LEMMA PreferredBinding ==
    ASSUME NEW d, NEW S, NEW prefer
    PROVE  /\ Preferred(d, S, prefer) \subseteq S
           /\ S # {} => Preferred(d, S, prefer) # {}
           /\ ByBinding(d, S, prefer[1]) # {} \/ ByBinding(d, S, prefer[2]) # {} =>
                \A i \in Preferred(d, S, prefer) : d.services[i].binding \in {prefer[1], prefer[2]}
           /\ ByBinding(d, S, prefer[1]) # {} =>
                \A i \in Preferred(d, S, prefer) : d.services[i].binding = prefer[1]
<1>1. \A b : ByBinding(d, S, b) \subseteq S /\ \A i \in ByBinding(d, S, b) : d.services[i].binding = b
    BY DEF ByBinding
<1> QED
    BY <1>1 DEF Preferred

(* The address of a service is one that was offered for it.                *)
LEMMA UrlIsOne ==
    ASSUME NEW d, NEW name, NEW prefer, DOMAIN d.services \subseteq 1..3, Offered(d, name) # {}
    PROVE  \E i \in Preferred(d, Offered(d, name), prefer) :
              /\ i \in DOMAIN d.services /\ d.services[i].name = name
              /\ ServiceUrl(d, name, prefer) = d.services[i].at /\ d.services[i].at # None
<1> DEFINE best == Preferred(d, Offered(d, name), prefer)
<1>1. Offered(d, name) \subseteq 1..3
    BY DEF Offered
<1>2. best \subseteq Offered(d, name) /\ best # {}
    BY PreferredBinding
<1>3. ServiceUrl(d, name, prefer) = First(d.services, best).at
    BY DEF ServiceUrl
<1> HIDE DEF best
<1>4. PICK i \in best : First(d.services, best) = d.services[i]
    BY <1>1, <1>2, FirstIsOne
<1>5. \A j \in Offered(d, name) :
          j \in DOMAIN d.services /\ d.services[j].name = name /\ d.services[j].at # None
    BY DEF Offered
<1> QED
    BY <1>2, <1>3, <1>4, <1>5 DEF best

LEMMA UrlIsOffered ==
    ASSUME NEW d, NEW name, NEW prefer, DOMAIN d.services \subseteq 1..3,
           ServiceUrl(d, name, prefer) # None
    PROVE  \E i \in Preferred(d, Offered(d, name), prefer) :
              /\ i \in DOMAIN d.services /\ d.services[i].name = name
              /\ ServiceUrl(d, name, prefer) = d.services[i].at
<1>1. Offered(d, name) # {}
    BY DEF ServiceUrl
<1> QED
    BY <1>1, UrlIsOne

(* The certificate is one marked for signing, or not marked at all.        *)
LEMMA CertIsMarked ==
    ASSUME NEW d, DOMAIN d.keys \subseteq 1..3, SigningCert(d) # None
    PROVE  \E i \in DOMAIN d.keys : d.keys[i].use \in {"signing", None}
                                    /\ SigningCert(d) = d.keys[i].cert
<1>1. Usable(d) \subseteq 1..3 /\ Usable(d) # {}
    BY DEF Usable, MarkedFor, SigningCert
<1>2. PICK i \in Usable(d) : First(d.keys, Usable(d)) = d.keys[i]
    BY <1>1, FirstIsOne
<1>3. SigningCert(d) = d.keys[i].cert
    BY <1>1, <1>2 DEF SigningCert
<1>4. \A j \in Usable(d) : j \in DOMAIN d.keys /\ d.keys[j].use \in {"signing", None}
    <2>1. Usable(d) \in {MarkedFor(d, "signing"), MarkedFor(d, None)}
        BY DEF Usable
    <2> QED
        BY <2>1 DEF MarkedFor
<1> QED
    BY <1>2, <1>3, <1>4

(* A document somebody publishes here, read as a provider's: it is ours or *)
(* that of the provider elsewhere.                                         *)
LEMMA IdpRead ==
    ASSUME RowsFit, Up, NEW doc \in Documents, NEW md, md = ReadIdpMetadata(doc), md # None,
           NEW enabled \in BOOLEAN, NEW signedOnly \in BOOLEAN
    PROVE  [entity |-> md.entity, sso |-> md.sso, slo |-> md.slo, cert |-> md.cert,
            enabled |-> enabled, signedOnly |-> signedOnly] \in OurRow \cup PartnerRow(may)
<1> DEFINE d == Descriptor(doc, "idp")
           read == [entity |-> EntityId(doc), sso |-> ServiceUrl(d, "sso", RedirectFirst),
                    slo |-> ServiceUrl(d, "slo", RedirectFirst), cert |-> SigningCert(d)]
<1>1. d # None /\ md = read /\ None \notin {read.entity, read.sso, read.cert}
    BY DEF ReadIdpMetadata
<1>2. /\ md.entity = EntityId(doc) /\ md.sso = ServiceUrl(d, "sso", RedirectFirst)
      /\ md.slo = ServiceUrl(d, "slo", RedirectFirst) /\ md.cert = SigningCert(d)
      /\ md.sso # None /\ md.cert # None
    BY <1>1
<1> HIDE DEF d, read
<1>3. process.cert \in OurKeys /\ partner \in PartnerKeys
    BY DEF RowsFit, Up, Pairs
<1>4. \/ d = IdpRole(process.cert) /\ EntityId(doc) = OurIdp.entity
      \/ d = PartnerIdp /\ EntityId(doc) \in {"partner"} \cup (IF "bundle" \in may THEN {"app"} ELSE {})
    <2>1. CASE doc = SpMetadataXml(process.cert)
        <3>1. d \in {None, Party(OurSp.entity, None, SpRole(process.cert)).as["idp"]}
            BY <2>1, OneParty DEF d, SpMetadataXml
        <3> QED
            BY <1>1, <3>1 DEF Party
    <2>2. CASE doc = IdpMetadataXml(process.cert)
        <3>1. /\ d \in {None, Party(OurIdp.entity, IdpRole(process.cert), None).as["idp"]}
              /\ EntityId(doc) = Party(OurIdp.entity, IdpRole(process.cert), None).entity
            BY <2>2, OneParty DEF d, IdpMetadataXml
        <3> QED
            BY <1>1, <3>1 DEF Party
    <2>3. CASE doc = PartnerMetadata
        <3>1. /\ d \in {None, PartnerParty.as["idp"]}
              /\ EntityId(doc) = PartnerParty.entity
            BY <2>3, OneParty DEF d, PartnerMetadata
        <3> QED
            BY <1>1, <3>1 DEF Party, PartnerParty
    <2>4. ASSUME NEW a, doc = AppMetadata(a) PROVE FALSE
        <3>1. d \in {None, AppParty(a).as["idp"]}
            BY <2>4, OneParty DEF d, AppMetadata
        <3> QED
            BY <1>1, <3>1 DEF Party, AppParty
    <2>5. CASE "bundle" \in may /\ doc = Bundle
        BY <1>1, <2>5, BundleParties DEF d
    <2> QED
        BY <2>1, <2>2, <2>3, <2>4, <2>5 DEF Documents
<1>5. CASE d = IdpRole(process.cert) /\ EntityId(doc) = OurIdp.entity
    <2>1. /\ DOMAIN d.services = 1..3 /\ DOMAIN d.keys = 1..1
          /\ d.services[1] = Service("slo", "redirect", OurIdp.slo)
          /\ d.services[2] = Service("sso", "redirect", OurIdp.sso)
          /\ d.services[3] = Service("sso", "post", OurIdp.sso)
          /\ d.keys[1] = KeyDescriptor("signing", process.cert)
        BY <1>5 DEF IdpRole
    <2>2. md.cert = process.cert
        BY <1>2, <2>1, CertIsMarked DEF KeyDescriptor
    <2>3. md.sso = OurIdp.sso
        BY <1>2, <2>1, UrlIsOffered DEF Service
    <2>4. md.slo = OurIdp.slo
        <3>1. 1 \in Offered(d, "slo")
            BY <2>1, NoneAssumption DEF Offered, Service, Addresses
        <3>2. md.slo # None
            BY <1>2, <2>1, <3>1, UrlIsOne
        <3>3. PICK i \in 1..3 : d.services[i].name = "slo" /\ md.slo = d.services[i].at
            BY <1>2, <2>1, <3>2, UrlIsOffered
        <3> QED
            BY <2>1, <3>3 DEF Service
    <2> QED
        BY <1>2, <1>3, <1>5, <2>2, <2>3, <2>4 DEF OurRow
<1>6. CASE d = PartnerIdp
           /\ EntityId(doc) \in {"partner"} \cup (IF "bundle" \in may THEN {"app"} ELSE {})
    <2>1. /\ DOMAIN d.services = 1..3 /\ DOMAIN d.keys = 1..2
          /\ d.services[1] = Service("sso", "other", "artifact")
          /\ d.services[2] = Service("sso", "post", "partner_sso")
          /\ d.services[3] = Service("slo", "redirect", "partner_slo")
          /\ d.keys[1] = KeyDescriptor("encryption", "for_encrypting")
          /\ d.keys[2] = KeyDescriptor(None, partner)
        BY <1>6 DEF PartnerIdp
    <2>2. md.cert = partner
        <3>1. PICK i \in 1..2 : d.keys[i].use \in {"signing", None} /\ md.cert = d.keys[i].cert
            BY <1>2, <2>1, CertIsMarked
        <3> QED
            BY <2>1, <3>1, NoneAssumption DEF KeyDescriptor, Words
    <2>3. md.sso = "partner_sso"
        <3>1. PICK i \in 1..3 :
                  /\ d.services[i].name = "sso" /\ md.sso = d.services[i].at
                  /\ i \in Preferred(d, Offered(d, "sso"), RedirectFirst)
            BY <1>2, <2>1, UrlIsOffered
        <3>2. 2 \in Offered(d, "sso")
            BY <2>1, NoneAssumption DEF Offered, Service, Addresses
        <3>3. i # 1
            <4>1. ByBinding(d, Offered(d, "sso"), "post") # {}
                BY <2>1, <3>2 DEF ByBinding, Service
            <4>2. \A j \in Preferred(d, Offered(d, "sso"), RedirectFirst) :
                      d.services[j].binding \in {"redirect", "post"}
                BY <4>1, PreferredBinding DEF RedirectFirst
            <4> QED
                BY <2>1, <3>1, <4>2 DEF Service
        <3> QED
            BY <2>1, <3>1, <3>3 DEF Service
    <2>4. md.slo = "partner_slo"
        <3>1. 3 \in Offered(d, "slo")
            BY <2>1, NoneAssumption DEF Offered, Service, Addresses
        <3>2. md.slo # None
            BY <1>2, <2>1, <3>1, UrlIsOne
        <3>3. PICK i \in 1..3 : d.services[i].name = "slo" /\ md.slo = d.services[i].at
            BY <1>2, <2>1, <3>2, UrlIsOffered
        <3> QED
            BY <2>1, <3>3 DEF Service
    <2> QED
        BY <1>2, <1>3, <1>6, <2>2, <2>3, <2>4 DEF PartnerRow
<1> QED
    BY <1>4, <1>5, <1>6

(* Read as an application's: it is ours or that of the one elsewhere.      *)
LEMMA SpRead ==
    ASSUME NEW doc \in Documents, NEW md, md = ReadSpMetadata(doc), md # None,
           NEW enabled \in BOOLEAN
    PROVE  [entity |-> md.entity, acs |-> md.acs, slo |-> md.slo, enabled |-> enabled]
             \in OurAppRow \cup AppRow
<1> DEFINE d == Descriptor(doc, "sp")
           read == [entity |-> EntityId(doc), acs |-> ServiceUrl(d, "acs", PostFirst),
                    slo |-> ServiceUrl(d, "slo", RedirectFirst), cert |-> SigningCert(d)]
<1>1. d # None /\ md = read /\ None \notin {read.entity, read.acs}
    BY DEF ReadSpMetadata
<1>2. /\ md.entity = EntityId(doc) /\ md.acs = ServiceUrl(d, "acs", PostFirst)
      /\ md.slo = ServiceUrl(d, "slo", RedirectFirst) /\ md.acs # None
    BY <1>1
<1> HIDE DEF d, read
<1>3. \/ d = SpRole(process.cert) /\ EntityId(doc) = OurSp.entity
      \/ \E a \in AppAddresses : d = AppSp(a) /\ EntityId(doc) = "app"
    <2>1. CASE doc = SpMetadataXml(process.cert)
        <3>1. /\ d \in {None, Party(OurSp.entity, None, SpRole(process.cert)).as["sp"]}
              /\ EntityId(doc) = Party(OurSp.entity, None, SpRole(process.cert)).entity
            BY <2>1, OneParty DEF d, SpMetadataXml
        <3> QED
            BY <1>1, <3>1 DEF Party
    <2>2. CASE doc = IdpMetadataXml(process.cert)
        <3>1. d \in {None, Party(OurIdp.entity, IdpRole(process.cert), None).as["sp"]}
            BY <2>2, OneParty DEF d, IdpMetadataXml
        <3> QED
            BY <1>1, <3>1 DEF Party
    <2>3. CASE doc = PartnerMetadata
        <3>1. d \in {None, PartnerParty.as["sp"]}
            BY <2>3, OneParty DEF d, PartnerMetadata
        <3> QED
            BY <1>1, <3>1 DEF Party, PartnerParty
    <2>4. ASSUME NEW a \in AppAddresses, doc = AppMetadata(a)
          PROVE  d = AppSp(a) /\ EntityId(doc) = "app"
        <3>1. d \in {None, AppParty(a).as["sp"]} /\ EntityId(doc) = AppParty(a).entity
            BY <2>4, OneParty DEF d, AppMetadata
        <3> QED
            BY <1>1, <3>1 DEF Party, AppParty
    <2>5. CASE doc = Bundle
        <3>1. "app_acs" \in AppAddresses
            BY DEF AppAddresses
        <3> QED
            BY <1>1, <2>5, <3>1, BundleParties DEF d
    <2> QED
        BY <2>1, <2>2, <2>3, <2>4, <2>5 DEF Documents
<1>4. CASE d = SpRole(process.cert) /\ EntityId(doc) = OurSp.entity
    <2>1. /\ DOMAIN d.services = 1..2
          /\ d.services[1] = Service("slo", "redirect", OurSp.slo)
          /\ d.services[2] = Service("acs", "post", OurSp.acs)
        BY <1>4 DEF SpRole
    <2>2. md.acs = OurSp.acs
        <3>1. PICK i \in 1..2 : d.services[i].name = "acs" /\ md.acs = d.services[i].at
            BY <1>2, <2>1, UrlIsOffered
        <3> QED
            BY <2>1, <3>1 DEF Service
    <2>3. md.slo = OurSp.slo
        <3>1. 1 \in Offered(d, "slo")
            BY <2>1, NoneAssumption DEF Offered, Service, Addresses
        <3>2. PICK i \in 1..2 : d.services[i].name = "slo" /\ md.slo = d.services[i].at
            BY <1>2, <2>1, <3>1, UrlIsOne
        <3> QED
            BY <2>1, <3>2 DEF Service
    <2> QED
        BY <1>2, <1>4, <2>2, <2>3 DEF OurAppRow
<1>5. ASSUME NEW a \in AppAddresses, d = AppSp(a), EntityId(doc) = "app"
      PROVE  [entity |-> md.entity, acs |-> md.acs, slo |-> md.slo, enabled |-> enabled] \in AppRow
    <2>1. /\ DOMAIN d.services = 1..3
          /\ d.services[1] = Service("acs", "redirect", "app_home")
          /\ d.services[2] = Service("acs", "post", a)
          /\ d.services[3] = Service("slo", "redirect", "app_slo")
        BY <1>5 DEF AppSp
    <2>2. md.acs = a
        <3>1. PICK i \in 1..3 : /\ d.services[i].name = "acs" /\ md.acs = d.services[i].at
                                /\ i \in Preferred(d, Offered(d, "acs"), PostFirst)
            BY <1>2, <2>1, UrlIsOffered
        <3>2. 2 \in Offered(d, "acs")
            BY <2>1, NoneAssumption DEF Offered, Service, Addresses
        <3>3. ByBinding(d, Offered(d, "acs"), "post") # {}
            BY <2>1, <3>2 DEF ByBinding, Service
        <3>4. \A j \in Preferred(d, Offered(d, "acs"), PostFirst) : d.services[j].binding = "post"
            BY <3>3, PreferredBinding DEF PostFirst
        <3> QED
            BY <2>1, <3>1, <3>4 DEF Service
    <2>3. md.slo = "app_slo"
        <3>1. 3 \in Offered(d, "slo")
            BY <2>1, NoneAssumption DEF Offered, Service, Addresses
        <3>2. PICK i \in 1..3 : d.services[i].name = "slo" /\ md.slo = d.services[i].at
            BY <1>2, <2>1, <3>1, UrlIsOne
        <3> QED
            BY <2>1, <3>2 DEF Service
    <2> QED
        BY <1>2, <1>5, <2>2, <2>3 DEF AppRow
<1> QED
    BY <1>3, <1>4, <1>5

-----------------------------------------------------------------------------
(* What is registered, and the key of the process.                         *)

(* Conversations leave the tables and the clock alone, and the tables the  *)
(* conversations.                                                          *)
LEMMA Frames ==
    ASSUME NEW t, NEW wire, NEW to, NEW row, NEW outcome,
           Send(t, row) \/ Reply(t, wire, to) \/ End(t, outcome)
    PROVE  UNCHANGED <<regVars, now>>
BY DEF Send, Reply, End

LEMMA TripsOnly ==
    ASSUME NEW t \in Trips, Starts(t) \/ Moves(t)
    PROVE  UNCHANGED <<regVars, now>>
<1>1. CASE Starts(t)
    <2>1. PICK row : Send(t, row)
        <3>1. ASSUME NEW s \in Providers, StartLogin(t, s) PROVE \E r : Send(t, r)
            BY <3>1 DEF StartLogin
        <3>2. ASSUME NEW s \in Providers, TellProvider(t, s) PROVE \E r : Send(t, r)
            BY <3>2 DEF TellProvider
        <3>3. ASSUME NEW acs, NEW via, NEW relay, AppAsks(t, acs, via, relay)
              PROVE  \E r : Send(t, r)
            BY <3>3 DEF AppAsks
        <3>4. ASSUME NEW c, OpenApp(t, c) PROVE \E r : Send(t, r)
            BY <3>4 DEF OpenApp
        <3>5. ASSUME NEW via, AppLogsOut(t, via) PROVE \E r : Send(t, r)
            BY <3>5 DEF AppLogsOut
        <3>6. ASSUME NEW how, PartnerLogsOut(t, how) PROVE \E r : Send(t, r)
            BY <3>6 DEF PartnerLogsOut
        <3> QED
            BY <1>1, <3>1, <3>2, <3>3, <3>4, <3>5, <3>6 DEF Starts
    <2> QED
        BY <2>1, Frames
<1>2. CASE Moves(t)
    <2>1. CASE SsoUnreadable(t) \/ SsoUnknown(t)
        BY <2>1, Frames DEF SsoUnreadable, SsoUnknown
    <2>2. CASE SsoAsksToLogIn(t) \/ LoggedIn(t)
        BY <2>2, Frames DEF SsoAsksToLogIn, LoggedIn
    <2>3. CASE SsoRefuses(t)
        BY <2>3, Frames DEF SsoRefuses
    <2>4. CASE SsoIssues(t)
        BY <2>4, Frames DEF SsoIssues
    <2>5. ASSUME NEW habit \in Habits, PartnerAnswers(t, habit) PROVE UNCHANGED <<regVars, now>>
        <3>1. PICK wire : Reply(t, wire, OurSp.acs)
            BY <2>5 DEF PartnerAnswers
        <3> QED
            BY <3>1, Frames
    <2>6. CASE AppReceives(t)
        BY <2>6, Frames DEF AppReceives
    <2>7. CASE JudgeAnswer(t)
        BY <2>7, Frames DEF JudgeAnswer
    <2>8. CASE SignOut(t)
        <3>1. \/ End(t, "unknown")
              \/ \E wire, to : Reply(t, wire, to)
            BY <2>8 DEF SignOut
        <3> QED
            BY <3>1, Frames
    <2>9. CASE PartnerConfirms(t)
        BY <2>9, Frames DEF PartnerConfirms
    <2>10. CASE ProviderConfirms(t)
        BY <2>10, Frames DEF ProviderConfirms
    <2>11. CASE ProviderLogsOut(t)
        BY <2>11, Frames DEF ProviderLogsOut
    <2> QED
        BY <1>2, <2>1, <2>2, <2>3, <2>4, <2>5, <2>6, <2>7, <2>8, <2>9, <2>10, <2>11 DEF Moves
<1> QED
    BY <1>1, <1>2

LEMMA Steps ==
    ASSUME [Next]_vars
    PROVE  \/ UNCHANGED vars
           \/ Administration /\ UNCHANGED <<now, trip>>
           \/ Tick /\ UNCHANGED <<regVars, trip>>
           \/ \E t \in Trips : (Starts(t) \/ Moves(t)) /\ UNCHANGED <<regVars, now>>
BY TripsOnly DEF Next, Administration, Tick

(* One row is replaced by what was read; the others stay.                  *)
LEMMA ProviderRegistered ==
    ASSUME RowsFit, NEW s \in Providers, NEW doc \in Documents,
           NEW enabled \in BOOLEAN, NEW signedOnly \in BOOLEAN,
           RegisterProvider(s, doc, enabled, signedOnly)
    PROVE  \E row \in OurRow \cup PartnerRow(may) : providers' = [providers EXCEPT ![s] = row]
<1> DEFINE md == ReadIdpMetadata(doc)
           row == [entity |-> md.entity, sso |-> md.sso, slo |-> md.slo, cert |-> md.cert,
                   enabled |-> enabled, signedOnly |-> signedOnly]
<1>1. Up /\ md # None /\ providers' = [providers EXCEPT ![s] = row]
    BY DEF RegisterProvider, Registrable
<1> HIDE DEF md
<1>2. row \in OurRow \cup PartnerRow(may)
    BY <1>1, IdpRead DEF md
<1> QED
    BY <1>1, <1>2

LEMMA ApplicationRegistered ==
    ASSUME NEW c \in Clients, NEW doc \in Documents, NEW enabled \in BOOLEAN,
           RegisterApplication(c, doc, enabled)
    PROVE  \E row \in OurAppRow \cup AppRow : applications' = [applications EXCEPT ![c] = row]
<1> DEFINE md == ReadSpMetadata(doc)
           row == [entity |-> md.entity, acs |-> md.acs, slo |-> md.slo, enabled |-> enabled]
<1>1. md = ReadSpMetadata(doc) /\ md # None /\ applications' = [applications EXCEPT ![c] = row]
    BY DEF RegisterApplication, Registrable
<1> HIDE DEF md
<1>2. row \in OurAppRow \cup AppRow
    BY <1>1, SpRead
<1> QED
    BY <1>1, <1>2

LEMMA LoadType ==
    ASSUME NEW c \in Settings, NEW fresh \in OurKeys
    PROVE  Load(c, fresh) \in {None} \cup Pairs
<1>1. Load(c, fresh) = None \/ \E k \in OurKeys : Load(c, fresh) = [key |-> k, cert |-> k]
    BY DEF Load, BelongTogether
<1> QED
    BY <1>1 DEF Pairs

(* Nobody who is registered is nobody.                                     *)
LEMMA RowsAreThere ==
    ASSUME NEW row \in OurRow \cup PartnerRow(may)
    PROVE  row # Absent /\ row.entity # None
BY NoneAssumption DEF OurRow, PartnerRow, Absent, Words, OurIdp

LEMMA RowsStep ==
    ASSUME RowsFit, [Next]_vars
    PROVE  /\ RowsFit' /\ may' = may
           /\ \A s \in Providers : providers[s] # Absent => providers'[s] # Absent
<1>1. CASE UNCHANGED regVars
    BY <1>1 DEF RowsFit, regVars
<1>2. CASE Stop
    BY <1>2 DEF Stop, RowsFit
<1>3. ASSUME NEW k \in OurKeys, Boot(k)
      PROVE  /\ RowsFit' /\ may' = may /\ providers' = providers
    <2>1. process' \in {None} \cup Pairs
        BY <1>3, LoadType DEF Boot, RowsFit
    <2>2. made' \subseteq OurKeys
        BY <1>3, <2>1 DEF Boot, RowsFit, Pairs
    <2> QED
        BY <1>3, <2>1, <2>2 DEF Boot, RowsFit
<1>4. ASSUME NEW k \in OurKeys \cup {None, NotPem}, NEW c \in OurKeys \cup {None, NotPem},
             Configure(k, c)
      PROVE  /\ RowsFit' /\ may' = may /\ providers' = providers
    <2>1. [key |-> k, cert |-> c] \in Settings
        BY DEF Settings
    <2> QED
        BY <1>4, <2>1 DEF Configure, RowsFit
<1>5. ASSUME NEW k \in PartnerKeys, PartnerRotates(k)
      PROVE  /\ RowsFit' /\ may' = may /\ providers' = providers
    BY <1>5 DEF PartnerRotates, RowsFit
<1>6. ASSUME NEW s \in Providers, NEW doc \in Documents,
             NEW enabled \in BOOLEAN, NEW signedOnly \in BOOLEAN,
             RegisterProvider(s, doc, enabled, signedOnly)
      PROVE  /\ RowsFit' /\ may' = may
             /\ \A p \in Providers : providers[p] # Absent => providers'[p] # Absent
    <2>1. PICK row \in OurRow \cup PartnerRow(may) : providers' = [providers EXCEPT ![s] = row]
        BY <1>6, ProviderRegistered
    <2>2. UNCHANGED <<may, config, process, made, partner, applications>>
        BY <1>6 DEF RegisterProvider
    <2>3. row # Absent
        BY RowsAreThere
    <2>4. PartnerRow(may)' = PartnerRow(may)
        BY <2>2 DEF PartnerRow
    <2> QED
        BY <2>1, <2>2, <2>3, <2>4 DEF RowsFit
<1>7. ASSUME NEW c \in Clients, NEW doc \in Documents, NEW enabled \in BOOLEAN,
             RegisterApplication(c, doc, enabled)
      PROVE  /\ RowsFit' /\ may' = may /\ providers' = providers
    <2>1. PICK row \in OurAppRow \cup AppRow : applications' = [applications EXCEPT ![c] = row]
        BY <1>7, ApplicationRegistered
    <2>2. UNCHANGED <<may, config, process, made, partner, providers>>
        BY <1>7 DEF RegisterApplication
    <2>3. PartnerRow(may)' = PartnerRow(may)
        BY <2>2 DEF PartnerRow
    <2> QED
        BY <2>1, <2>2, <2>3 DEF RowsFit
<1>8. CASE Administration
    <2>1. CASE \E doc \in Documents, s \in Providers, enabled, signedOnly \in BOOLEAN :
                   RegisterProvider(s, doc, enabled, signedOnly)
        BY <1>6, <2>1
    <2>2. CASE \E doc \in Documents, c \in Clients, enabled \in BOOLEAN :
                   RegisterApplication(c, doc, enabled)
        BY <1>7, <2>2
    <2>3. CASE \/ Stop
               \/ \E k \in OurKeys : Boot(k)
               \/ \E k, c \in OurKeys \cup {None, NotPem} : Configure(k, c)
               \/ \E k \in PartnerKeys : PartnerRotates(k)
        <3>1. Stop => RowsFit' /\ may' = may /\ providers' = providers
            BY <1>2 DEF Stop
        <3> QED
            BY <1>3, <1>4, <1>5, <2>3, <3>1
    <2> QED
        BY <1>8, <2>1, <2>2, <2>3 DEF Administration
<1> QED
    BY <1>1, <1>8, Steps DEF vars

-----------------------------------------------------------------------------
(* Starting a conversation.                                                *)

LEMMA SentFits ==
    ASSUME NEW t, NEW n, NEW rows, NEW m, NEW w, NEW to, NEW via \in {"redirect", "post"},
           NEW relay, NEW idp, NEW app, NEW quote,
           UnderWay(Sent(w, to, via, relay, idp, app, quote), t, n),
           idp # None => idp \in Providers /\ rows[idp] # Absent /\ relay = t /\ quote = t,
           w # None /\ w.doc.kind \in {"logout", "loggedout"} => "logout" \in m
    PROVE  TripFits(Sent(w, to, via, relay, idp, app, quote), t, n, rows, m)
<1> DEFINE r == Sent(w, to, via, relay, idp, app, quote)
<1>1. /\ r.pc = "sent" /\ r.wire = w /\ r.via = via /\ r.relay = relay /\ r.idp = idp
      /\ r.quote = quote /\ r.asked = relay /\ r.outcome = None
      /\ r = [pc |-> r.pc, wire |-> r.wire, to |-> r.to, via |-> r.via, relay |-> r.relay,
              idp |-> r.idp, app |-> r.app, quote |-> r.quote, asked |-> r.asked,
              outcome |-> r.outcome]
    BY DEF Sent
<1>2. UnderWay(r, t, n)
    OBVIOUS
<1> HIDE DEF r
<1>3. r.outcome # "unreadable"
    BY <1>1, NoneAssumption DEF Words
<1>4. TripFits(r, t, n, rows, m)
    BY <1>1, <1>2, <1>3 DEF TripFits
<1> QED
    BY <1>4 DEF r

(* A name, an address or a paper is something.                             *)
LEMMA OfferedRow ==
    ASSUME RowsFit, NEW s \in Enabled(providers)
    PROVE  /\ s \in Providers /\ s # None /\ providers[s] \in OurRow \cup PartnerRow(may)
           /\ providers[s] # Absent /\ providers[s].entity # None /\ providers[s].enabled
<1>1. s \in Providers /\ providers[s].entity # None /\ providers[s].enabled
    BY DEF Enabled, Registered, RowsFit
<1>2. providers[s] # Absent
    BY <1>1 DEF Absent
<1> QED
    BY <1>1, <1>2, NoneAssumption DEF RowsFit

LEMMA OfferedApplication ==
    ASSUME RowsFit, NEW c \in Enabled(applications)
    PROVE  /\ c \in Clients /\ c # None /\ applications[c] \in OurAppRow \cup AppRow
<1>1. c \in Clients /\ applications[c].entity # None
    BY DEF Enabled, Registered, RowsFit
<1>2. applications[c] # Absent
    BY <1>1 DEF Absent
<1> QED
    BY <1>1, <1>2, NoneAssumption DEF RowsFit

LEMMA StartLoginFits ==
    ASSUME RowsFit, TripsFit, NEW t \in Trips, NEW s, StartLogin(t, s)
    PROVE  \E r : /\ trip' = [trip EXCEPT ![t] = r] /\ TripFits(r, t, now, providers, may)
<1> DEFINE sso == providers[s].sso
           w == Deflated(AuthnRequest(t, sso))
           r == Sent(w, sso, "redirect", t, s, None, t)
<1>1. s \in Enabled(providers) /\ Send(t, r)
    BY DEF StartLogin
<1>2. s \in Providers /\ s # None /\ providers[s] # Absent /\ sso \in {OurIdp.sso, "partner_sso"}
    BY <1>1, OfferedRow DEF OurRow, PartnerRow
<1>3. trip' = [trip EXCEPT ![t] = r]
    BY <1>1 DEF Send
<1>4. AuthnRequest(t, sso) \in AuthnDocs(t) /\ AuthnRequest(t, sso).kind = "authn"
    BY <1>2 DEF AuthnRequest, AuthnDocs, AcsUrls
<1>5. Unread(r, "deflated", AuthnDocs(t), {None})
    BY <1>4 DEF Unread, Sent, Deflated
<1>6. Asking(r, t)
    BY <1>2, <1>5 DEF Asking, FormOf, Sent
<1>7. UnderWay(r, t, now)
    BY <1>6 DEF UnderWay
<1>8. w.doc.kind = "authn"
    BY <1>4 DEF Deflated
<1>9. TripFits(r, t, now, providers, may)
    BY <1>2, <1>7, <1>8, SentFits
<1> HIDE DEF r
<1> QED
    BY <1>3, <1>9

LEMMA TellProviderFits ==
    ASSUME RowsFit, TripsFit, NEW t \in Trips, NEW s, TellProvider(t, s)
    PROVE  \E r : /\ trip' = [trip EXCEPT ![t] = r] /\ TripFits(r, t, now, providers, may)
<1> DEFINE slo == providers[s].slo
           doc == LogoutRequest(t, OurSp.entity, slo)
           w == RedirectBindingUrl(doc, process)
           r == Sent(w, slo, "redirect", t, s, None, t)
<1>1. /\ s \in Enabled(providers) /\ "logout" \in may /\ process # None
      /\ Send(t, r)
    BY DEF TellProvider, Send, Up
<1>2. s \in Providers /\ s # None /\ providers[s] # Absent /\ slo \in {OurIdp.slo, "partner_slo"}
    BY <1>1, OfferedRow DEF OurRow, PartnerRow
<1>3. trip' = [trip EXCEPT ![t] = r]
    BY <1>1 DEF Send
<1>4. PICK k \in OurKeys : process = [key |-> k, cert |-> k]
    BY <1>1 DEF RowsFit, Pairs
<1>5. Signature(process) \in Sigs(OurKeys \cup PartnerKeys)
    BY <1>4 DEF Sigs, Signature
<1>6. doc \in LogoutDocs(t) /\ doc.issuer = OurSp.entity
    BY <1>2 DEF LogoutRequest, LogoutDocs, Unsigned
<1>7. w = [form |-> "deflated", doc |-> doc, query |-> Signature(process)]
    BY DEF RedirectBindingUrl, Deflated
<1> HIDE DEF doc, w
<1>8. Unread(r, "deflated", LogoutDocs(t), {None} \cup Sigs(OurKeys \cup PartnerKeys))
    BY <1>5, <1>6, <1>7 DEF Unread, Sent
<1>9. LoggingOut(r, t)
    BY <1>2, <1>6, <1>7, <1>8 DEF LoggingOut, FormOf, Sent, OurIdp, OurSp
<1>10. UnderWay(r, t, now)
    BY <1>9 DEF UnderWay
<1>11. TripFits(r, t, now, providers, may)
    BY <1>1, <1>2, <1>10, SentFits
<1> QED
    BY <1>3, <1>11

LEMMA AppAsksFits ==
    ASSUME TripsFit, NEW t \in Trips, NEW acs \in AppAddresses, NEW via \in {"redirect", "post"},
           NEW relay, AppAsks(t, acs, via, relay)
    PROVE  \E r : /\ trip' = [trip EXCEPT ![t] = r] /\ TripFits(r, t, now, providers, may)
<1> DEFINE doc == [kind |-> "authn", id |-> t, issuer |-> "app", acs |-> acs,
                   destination |-> OurIdp.sso, signed |-> Unsigned]
           w == IF via = "post" THEN Plain(doc) ELSE Deflated(doc)
           r == Sent(w, OurIdp.sso, via, relay, None, None, t)
<1>1. Send(t, r)
    BY DEF AppAsks
<1>2. trip' = [trip EXCEPT ![t] = r]
    BY <1>1 DEF Send
<1>3. doc \in AuthnDocs(t) /\ doc.kind = "authn"
    BY DEF AuthnDocs, AcsUrls
<1> HIDE DEF doc
<1>4. w = [form |-> IF via = "post" THEN "plain" ELSE "deflated", doc |-> doc, query |-> None]
    BY DEF Plain, Deflated
<1> HIDE DEF w
<1>5. Unread(r, FormOf(r), AuthnDocs(t), {None})
    BY <1>3, <1>4 DEF Unread, Sent, FormOf
<1>6. Asking(r, t)
    BY <1>5 DEF Asking, Sent
<1>7. UnderWay(r, t, now)
    BY <1>6 DEF UnderWay
<1>8. w.doc.kind = "authn"
    BY <1>3, <1>4
<1>9. TripFits(r, t, now, providers, may)
    BY <1>7, <1>8, SentFits
<1> QED
    BY <1>2, <1>9

LEMMA OpenAppFits ==
    ASSUME TripsFit, NEW t \in Trips, NEW c \in Clients, OpenApp(t, c)
    PROVE  \E r : /\ trip' = [trip EXCEPT ![t] = r] /\ TripFits(r, t, now, providers, may)
<1> DEFINE r == Sent(None, OurIdp.sso, "redirect", None, None, c, None)
<1>1. trip' = [trip EXCEPT ![t] = r]
    BY DEF OpenApp, Send
<1>2. Opening(r)
    BY DEF Opening, Sent
<1>3. UnderWay(r, t, now)
    BY <1>2 DEF UnderWay
<1>4. TripFits(r, t, now, providers, may)
    BY <1>3, SentFits
<1> QED
    BY <1>1, <1>4

LEMMA AppLogsOutFits ==
    ASSUME TripsFit, NEW t \in Trips, NEW via \in {"redirect", "post"}, AppLogsOut(t, via)
    PROVE  \E r : /\ trip' = [trip EXCEPT ![t] = r] /\ TripFits(r, t, now, providers, may)
<1> DEFINE doc == LogoutRequest(t, "app", OurIdp.slo)
           w == IF via = "post" THEN Plain(doc) ELSE Deflated(doc)
           r == Sent(w, OurIdp.slo, via, t, None, None, t)
<1>1. /\ "logout" \in may
      /\ Send(t, r)
    BY DEF AppLogsOut
<1>2. trip' = [trip EXCEPT ![t] = r]
    BY <1>1 DEF Send
<1>3. doc \in LogoutDocs(t) /\ doc.issuer = "app"
    BY DEF LogoutRequest, LogoutDocs, Unsigned
<1> HIDE DEF doc
<1>4. w = [form |-> IF via = "post" THEN "plain" ELSE "deflated", doc |-> doc, query |-> None]
    BY DEF Plain, Deflated
<1> HIDE DEF w
<1>5. Unread(r, FormOf(r), LogoutDocs(t), {None} \cup Sigs(OurKeys \cup PartnerKeys))
    BY <1>3, <1>4 DEF Unread, Sent, FormOf
<1>6. LoggingOut(r, t)
    BY <1>3, <1>4, <1>5 DEF LoggingOut, Sent, OurIdp, OurSp
<1>7. UnderWay(r, t, now)
    BY <1>6 DEF UnderWay
<1>8. TripFits(r, t, now, providers, may)
    BY <1>1, <1>7, SentFits
<1> QED
    BY <1>2, <1>8

LEMMA PartnerLogsOutFits ==
    ASSUME RowsFit, TripsFit, NEW t \in Trips, NEW how, PartnerLogsOut(t, how)
    PROVE  \E r : /\ trip' = [trip EXCEPT ![t] = r] /\ TripFits(r, t, now, providers, may)
<1> DEFINE doc == LogoutRequest(t, "partner", OurSp.slo)
           w == IF how = "document" THEN Deflated(SignDocument(doc, PartnerPair))
                                    ELSE RedirectBindingUrl(doc, PartnerPair)
           r == Sent(w, OurSp.slo, "redirect", None, None, None, t)
<1>1. "logout" \in may /\ Send(t, r)
    BY DEF PartnerLogsOut
<1>2. trip' = [trip EXCEPT ![t] = r]
    BY <1>1 DEF Send
<1>3. partner \in PartnerKeys
    BY DEF RowsFit
<1>4. Signature(PartnerPair) \in Sigs(PartnerKeys) /\ Signature(PartnerPair) \in Sigs(OurKeys \cup PartnerKeys)
    BY <1>3 DEF Sigs, Signature, PartnerPair
<1>5. doc \in LogoutDocs(t) /\ doc.issuer = "partner"
    BY DEF LogoutRequest, LogoutDocs, Unsigned
<1>6. SignDocument(doc, PartnerPair) \in LogoutDocs(t) /\ SignDocument(doc, PartnerPair).issuer = "partner"
    BY <1>4 DEF SignDocument, LogoutRequest, LogoutDocs, Unsigned
<1> HIDE DEF doc
<1>7. \E d \in LogoutDocs(t), q \in {None} \cup Sigs(OurKeys \cup PartnerKeys) :
          w = [form |-> "deflated", doc |-> d, query |-> q] /\ d.issuer = "partner"
    BY <1>4, <1>5, <1>6 DEF RedirectBindingUrl, Deflated
<1> HIDE DEF w
<1>8. Unread(r, "deflated", LogoutDocs(t), {None} \cup Sigs(OurKeys \cup PartnerKeys))
    BY <1>7 DEF Unread, Sent
<1>9. LoggingOut(r, t)
    BY <1>7, <1>8 DEF LoggingOut, FormOf, Sent, OurSp
<1>10. UnderWay(r, t, now)
    BY <1>9 DEF UnderWay
<1>11. TripFits(r, t, now, providers, may)
    BY <1>1, <1>10, SentFits
<1> QED
    BY <1>2, <1>11

-----------------------------------------------------------------------------
(* Going on with a conversation.                                           *)

Revised(r, pc, wire, to, via, idp, outcome) ==
    [pc |-> pc, wire |-> wire, to |-> to, via |-> via, relay |-> r.relay, idp |-> idp,
     app |-> r.app, quote |-> r.quote, asked |-> r.asked, outcome |-> outcome]

Whole(r) ==
    r = [pc |-> r.pc, wire |-> r.wire, to |-> r.to, via |-> r.via, relay |-> r.relay,
         idp |-> r.idp, app |-> r.app, quote |-> r.quote, asked |-> r.asked,
         outcome |-> r.outcome]

LEMMA Replied ==
    ASSUME TripsFit, NEW t \in Trips, NEW w, NEW to, Reply(t, w, to), NEW r, r = trip[t]
    PROVE  trip' = [trip EXCEPT ![t] = Revised(r, r.pc, w, to, "redirect", r.idp, r.outcome)]
<1> DEFINE a == [r EXCEPT !.wire = w]
           b == [a EXCEPT !.to = to]
           c == [b EXCEPT !.via = "redirect"]
<1>1. Whole(r)
    BY DEF TripsFit, TripFits, Whole
<1>2. a = [pc |-> r.pc, wire |-> w, to |-> r.to, via |-> r.via, relay |-> r.relay, idp |-> r.idp,
           app |-> r.app, quote |-> r.quote, asked |-> r.asked, outcome |-> r.outcome]
    BY <1>1 DEF Whole
<1>3. b = [pc |-> r.pc, wire |-> w, to |-> to, via |-> r.via, relay |-> r.relay, idp |-> r.idp,
           app |-> r.app, quote |-> r.quote, asked |-> r.asked, outcome |-> r.outcome]
    <2> HIDE DEF a
    <2> QED BY <1>2
<1>4. c = Revised(r, r.pc, w, to, "redirect", r.idp, r.outcome)
    <2> HIDE DEF a, b
    <2> QED BY <1>3 DEF Revised
<1>5. trip' = [trip EXCEPT ![t] = c]
    BY Zenon DEF Reply
<1> QED
    BY <1>4, <1>5

LEMMA Ended ==
    ASSUME TripsFit, NEW t \in Trips, NEW outcome, End(t, outcome), NEW r, r = trip[t]
    PROVE  trip' = [trip EXCEPT ![t] = Revised(r, "ended", r.wire, r.to, r.via, r.idp, outcome)]
<1> DEFINE a == [r EXCEPT !.pc = "ended"]
           b == [a EXCEPT !.outcome = outcome]
<1>1. Whole(r)
    BY DEF TripsFit, TripFits, Whole
<1>2. a = [pc |-> "ended", wire |-> r.wire, to |-> r.to, via |-> r.via, relay |-> r.relay, idp |-> r.idp,
           app |-> r.app, quote |-> r.quote, asked |-> r.asked, outcome |-> r.outcome]
    BY <1>1 DEF Whole
<1>3. b = Revised(r, "ended", r.wire, r.to, r.via, r.idp, outcome)
    <2> HIDE DEF a
    <2> QED BY <1>2 DEF Revised
<1>4. trip' = [trip EXCEPT ![t] = b]
    BY Zenon DEF End
<1> QED
    BY <1>3, <1>4

(* What is under way does not depend on how far it has come.               *)
LEMMA SameWay ==
    ASSUME NEW r, NEW t, NEW n, UnderWay(r, t, n), NEW pc, NEW outcome
    PROVE  UnderWay(Revised(r, pc, r.wire, r.to, r.via, r.idp, outcome), t, n)
<1> DEFINE q == Revised(r, pc, r.wire, r.to, r.via, r.idp, outcome)
<1>1. /\ q.wire = r.wire /\ q.to = r.to /\ q.via = r.via /\ q.idp = r.idp /\ q.app = r.app
      /\ q.quote = r.quote
    BY DEF Revised
<1> HIDE DEF q
<1>2. Opening(r) => Opening(q)
    BY <1>1 DEF Opening
<1>3. Asking(r, t) => Asking(q, t)
    BY <1>1 DEF Asking, Unread, FormOf
<1>4. Answered(r, t, n) => Answered(q, t, n)
    BY <1>1 DEF Answered
<1>5. PartnerAnswered(r, t) => PartnerAnswered(q, t)
    BY <1>1 DEF PartnerAnswered
<1>6. LoggingOut(r, t) => LoggingOut(q, t)
    BY <1>1 DEF LoggingOut, Unread, FormOf
<1>7. LoggedOut(r, t) => LoggedOut(q, t)
    BY <1>1 DEF LoggedOut, Unread
<1>8. UnderWay(q, t, n)
    BY <1>2, <1>3, <1>4, <1>5, <1>6, <1>7 DEF UnderWay
<1> QED
    BY <1>8 DEF q

(* A revised conversation fits when its message does.                      *)
LEMMA RevisedFits ==
    ASSUME NEW r, NEW t, NEW n, NEW rows, NEW m, TripFits(r, t, n, rows, m),
           NEW pc \in {"sent", "logging_in", "ended"}, NEW w, NEW to, NEW via \in {"redirect", "post"},
           NEW idp, NEW outcome,
           UnderWay(Revised(r, pc, w, to, via, idp, outcome), t, n),
           pc = "ended" \/ (r.pc # "ended" /\ idp = r.idp),
           idp # None => idp \in Providers /\ rows[idp] # Absent,
           outcome # "unreadable",
           w # None /\ w.doc.kind \in {"logout", "loggedout"} => "logout" \in m
    PROVE  TripFits(Revised(r, pc, w, to, via, idp, outcome), t, n, rows, m)
<1> DEFINE q == Revised(r, pc, w, to, via, idp, outcome)
<1>1. /\ q.pc = pc /\ q.wire = w /\ q.to = to /\ q.via = via /\ q.relay = r.relay /\ q.idp = idp
      /\ q.quote = r.quote /\ q.asked = r.asked /\ q.outcome = outcome
      /\ q = [pc |-> q.pc, wire |-> q.wire, to |-> q.to, via |-> q.via, relay |-> q.relay,
              idp |-> q.idp, app |-> q.app, quote |-> q.quote, asked |-> q.asked,
              outcome |-> q.outcome]
    BY DEF Revised
<1>2. UnderWay(q, t, n)
    OBVIOUS
<1> HIDE DEF q
<1>3. /\ r.pc # "ended" /\ r.idp # None => r.relay = t /\ r.quote = t
      /\ r.relay = r.asked
    BY DEF TripFits
<1>4. TripFits(q, t, n, rows, m)
    BY <1>1, <1>2, <1>3 DEF TripFits
<1> QED
    BY <1>4 DEF q

(* What fits a conversation that has begun.                                *)
LEMMA Begun ==
    ASSUME TripsFit, NEW t \in Trips, trip[t].pc \in {"sent", "logging_in"}, NEW r, r = trip[t]
    PROVE  /\ TripFits(r, t, now, providers, may) /\ UnderWay(r, t, now)
           /\ r.via \in {"redirect", "post"} /\ r.outcome # "unreadable"
           /\ r.idp # None => r.idp \in Providers /\ providers[r.idp] # Absent
           /\ r.wire # None /\ r.wire.doc.kind \in {"logout", "loggedout"} => "logout" \in may
<1>1. TripFits(r, t, now, providers, may)
    BY DEF TripsFit
<1> QED
    BY <1>1 DEF TripFits

LEMMA EndFits ==
    ASSUME TripsFit, NEW t \in Trips, trip[t].pc \in {"sent", "logging_in"}, NEW outcome,
           outcome # "unreadable", End(t, outcome)
    PROVE  \E r : /\ trip' = [trip EXCEPT ![t] = r] /\ TripFits(r, t, now, providers, may)
<1>0. PICK r : r = trip[t]
    OBVIOUS
<1>1. trip' = [trip EXCEPT ![t] = Revised(r, "ended", r.wire, r.to, r.via, r.idp, outcome)]
    BY <1>0, Ended
<1>2. UnderWay(Revised(r, "ended", r.wire, r.to, r.via, r.idp, outcome), t, now)
    BY <1>0, Begun, SameWay
<1>3. /\ TripFits(r, t, now, providers, may) /\ r.via \in {"redirect", "post"}
      /\ r.idp # None => r.idp \in Providers /\ providers[r.idp] # Absent
      /\ r.wire # None /\ r.wire.doc.kind \in {"logout", "loggedout"} => "logout" \in may
    BY <1>0, Begun
<1>4. TripFits(Revised(r, "ended", r.wire, r.to, r.via, r.idp, outcome), t, now, providers, may)
    BY <1>2, <1>3, RevisedFits
<1> QED
    BY <1>1, <1>4

(* A conversation that waits at our sign-on address: an application is     *)
(* being opened, or a request has come that can be read.                   *)
LEMMA AtSsoIs ==
    ASSUME TripsFit, NEW t \in Trips, AtSso(t), NEW r, r = trip[t]
    PROVE  /\ Readable(t)
           /\ \/ Opening(r) /\ r.app # None /\ r.quote = None
              \/ Asking(r, t) /\ r.app = None /\ r.quote = t /\ Asked(t) = r.wire.doc
                   /\ r.wire.doc \in AuthnDocs(t)
<1>1. r.to = OurIdp.sso /\ UnderWay(r, t, now)
    BY Begun DEF AtSso
<1>2. Opening(r) \/ Asking(r, t)
    BY <1>1 DEF UnderWay, Answered, PartnerAnswered, LoggingOut, LoggedOut, AcsUrls, AppAddresses,
                OurSp, OurIdp
<1>3. CASE Opening(r)
    <2>1. r.app # None /\ r.quote = None
        BY <1>3, NoneAssumption DEF Opening
    <2> QED
        BY <1>3, <2>1 DEF Readable
<1>4. CASE Asking(r, t)
    <2>1. /\ r.app = None /\ r.quote = t /\ r.wire.doc \in AuthnDocs(t) /\ r.wire.form = FormOf(r)
          /\ r.via \in {"redirect", "post"}
        BY <1>4, Begun DEF Asking, Unread, AtSso
    <2>2. Decode(r.wire, r.via = "redirect") = r.wire.doc
        BY <2>1 DEF Decode, FormOf
    <2>3. r.wire.doc.kind = "authn" /\ r.wire.doc.id = t /\ r.wire.doc.issuer \in {OurSp.entity, "app"}
        BY <2>1 DEF AuthnDocs
    <2>4. r.wire.doc.id # None /\ r.wire.doc.issuer # None
        BY <2>3, NoneAssumption DEF Words
    <2>5. Asked(t) = r.wire.doc
        BY <2>2, <2>3, <2>4 DEF Asked, ReadAuthnRequest
    <2>6. Asked(t) # Unreadable
        BY <2>3, <2>5 DEF Unreadable
    <2> QED
        BY <1>4, <2>1, <2>5, <2>6 DEF Readable
<1> QED
    BY <1>2, <1>3, <1>4

(* The row, with one of the replies in it.                                 *)
LEMMA ReplyFits ==
    ASSUME TripsFit, NEW t \in Trips, trip[t].pc = "sent", NEW w, NEW to, Reply(t, w, to),
           NEW r, r = trip[t],
           UnderWay(Revised(r, "sent", w, to, "redirect", r.idp, r.outcome), t, now),
           w # None /\ w.doc.kind \in {"logout", "loggedout"} => "logout" \in may
    PROVE  \E q : /\ trip' = [trip EXCEPT ![t] = q] /\ TripFits(q, t, now, providers, may)
<1>1. trip' = [trip EXCEPT ![t] = Revised(r, "sent", w, to, "redirect", r.idp, r.outcome)]
    BY Replied
<1>2. /\ TripFits(r, t, now, providers, may) /\ r.outcome # "unreadable" /\ r.pc # "ended"
      /\ r.idp # None => r.idp \in Providers /\ providers[r.idp] # Absent
    BY Begun
<1>3. TripFits(Revised(r, "sent", w, to, "redirect", r.idp, r.outcome), t, now, providers, may)
    BY <1>2, RevisedFits
<1> QED
    BY <1>1, <1>3

(* Waiting for the login, and coming back from it.                         *)
LEMMA LoginFits ==
    ASSUME TripsFit, NEW t \in Trips, (AtSso(t) /\ SsoAsksToLogIn(t)) \/ LoggedIn(t)
    PROVE  \E q : /\ trip' = [trip EXCEPT ![t] = q] /\ TripFits(q, t, now, providers, may)
<1>0. PICK r : r = trip[t]
    OBVIOUS
<1>1. CASE End(t, "lost") /\ AtSso(t)
    BY <1>1, EndFits DEF AtSso
<1>2. ASSUME NEW pc \in {"sent", "logging_in"}, r.pc \in {"sent", "logging_in"},
             trip' = [trip EXCEPT ![t] = [r EXCEPT !.pc = pc]]
      PROVE  \E q : /\ trip' = [trip EXCEPT ![t] = q] /\ TripFits(q, t, now, providers, may)
    <2>1. Whole(r)
        BY <1>0 DEF TripsFit, TripFits, Whole
    <2>2. [r EXCEPT !.pc = pc] = Revised(r, pc, r.wire, r.to, r.via, r.idp, r.outcome)
        BY <2>1 DEF Whole, Revised
    <2>3. UnderWay(Revised(r, pc, r.wire, r.to, r.via, r.idp, r.outcome), t, now)
        BY <1>0, <1>2, Begun, SameWay
    <2>4. /\ TripFits(r, t, now, providers, may) /\ r.via \in {"redirect", "post"}
          /\ r.outcome # "unreadable" /\ r.pc # "ended"
          /\ r.idp # None => r.idp \in Providers /\ providers[r.idp] # Absent
          /\ r.wire # None /\ r.wire.doc.kind \in {"logout", "loggedout"} => "logout" \in may
        BY <1>0, <1>2, Begun
    <2>5. TripFits(Revised(r, pc, r.wire, r.to, r.via, r.idp, r.outcome), t, now, providers, may)
        BY <2>3, <2>4, RevisedFits
    <2> QED
        BY <1>2, <2>2, <2>5
<1>3. CASE AtSso(t) /\ trip' = [trip EXCEPT ![t] = Returning(@)]
    BY <1>0, <1>2, <1>3 DEF AtSso, Returning
<1>4. CASE LoggedIn(t)
    BY <1>0, <1>2, <1>4 DEF LoggedIn
<1> QED
    BY <1>1, <1>3, <1>4 DEF SsoAsksToLogIn

(* The application that is found for a request, and the number of the      *)
(* request.                                                                *)
LEMMA FoundFor ==
    ASSUME RowsFit, TripsFit, NEW t \in Trips, AtSso(t), NEW c \in ApplicationFor(t)
    PROVE  /\ c \in Enabled(applications) /\ applications[c] \in OurAppRow \cup AppRow
           /\ RequestId(t) = trip[t].quote /\ trip[t].quote \in {t, None}
<1>0. PICK r : r = trip[t]
    OBVIOUS
<1>1. c \in Enabled(applications)
    BY DEF ApplicationFor
<1>2. CASE r.app # None /\ r.quote = None
    BY <1>0, <1>1, <1>2, OfferedApplication DEF RequestId
<1>3. CASE r.app = None /\ r.quote = t /\ Asked(t) = r.wire.doc /\ r.wire.doc \in AuthnDocs(t)
    BY <1>0, <1>1, <1>3, OfferedApplication DEF RequestId, AuthnDocs
<1> QED
    BY <1>0, <1>2, <1>3, AtSsoIs

LEMMA SsoRefusesFits ==
    ASSUME RowsFit, TripsFit, NEW t \in Trips, SsoRefuses(t)
    PROVE  \E q : /\ trip' = [trip EXCEPT ![t] = q] /\ TripFits(q, t, now, providers, may)
<1>0. PICK r : r = trip[t]
    OBVIOUS
<1>1. PICK c \in ApplicationFor(t) :
          Reply(t, Plain(BuildFailureResponse(applications[c].acs, RequestId(t))), applications[c].acs)
    BY DEF SsoRefuses
<1>2. AtSso(t) /\ r.pc = "sent"
    BY <1>0 DEF SsoRefuses, AtSso
<1> DEFINE acs == applications[c].acs
           doc == BuildFailureResponse(acs, r.quote)
           q == Revised(r, "sent", Plain(doc), acs, "redirect", r.idp, r.outcome)
<1>3. RequestId(t) = r.quote /\ r.quote \in {t, None} /\ acs \in AcsUrls
    BY <1>0, <1>2, FoundFor DEF OurAppRow, AppRow, AcsUrls
<1>4. q.wire = Plain(doc) /\ q.to = acs /\ q.quote = r.quote /\ Plain(doc).doc = doc
    BY DEF Revised, Plain
<1>5. doc.kind = "response"
    BY DEF BuildFailureResponse
<1>6. OurAnswer(doc, acs, r.quote, t, now)
    BY DEF OurAnswer
<1>7. Reply(t, Plain(doc), acs)
    BY <1>1, <1>3
<1> HIDE DEF doc
<1>8. Answered(q, t, now)
    <2> HIDE DEF q
    <2> QED BY <1>3, <1>4, <1>6 DEF Answered
<1>9. UnderWay(q, t, now)
    BY <1>8 DEF UnderWay
<1> QED
    BY <1>0, <1>2, <1>4, <1>5, <1>7, <1>9, ReplyFits

(* What the signer makes of a login: it shows the certificate of the key.  *)
LEMMA LoginSigned ==
    ASSUME NEW t \in Trips, NEW audience \in {OurSp.entity, "app"}, NEW to \in AcsUrls, NEW quote \in Trips \cup {None},
           NEW then \in Nat, NEW k
    PROVE  SignAssertion(BuildResponse(t, audience, to, quote, then), [key |-> k, cert |-> k])
             = Login(t, audience, to, quote, then, k)
<1> DEFINE a == BuildAssertion(t, audience, to, quote, then)
           u == BuildResponse(t, audience, to, quote, then)
<1>1. a # None
    <2>1. a \in Assertions
        BY FederationAssumption DEF Assertions, BuildAssertion, AcsUrls
    <2> QED
        BY <2>1, NoneAssumption
<1>2. u = [kind |-> "response", issuer |-> OurIdp.entity, status |-> "success", destination |-> to,
           answers |-> quote, signed |-> [root |-> None, assertion |-> None], assertion |-> a]
    BY DEF BuildResponse, Unsigned
<1> HIDE DEF a, u
<1>3. u.assertion = a /\ u.signed = [root |-> None, assertion |-> None]
    BY <1>2
<1>4. [u EXCEPT !.signed = [root |-> None, assertion |-> [by |-> k, shows |-> k]]]
        = Login(t, audience, to, quote, then, k)
    BY <1>2 DEF Login, a
<1>5. [u EXCEPT !.signed.assertion = Signature([key |-> k, cert |-> k])]
        = [u EXCEPT !.signed = [root |-> None, assertion |-> [by |-> k, shows |-> k]]]
    BY <1>2, <1>3 DEF Signature
<1> QED
    BY <1>1, <1>3, <1>4, <1>5 DEF SignAssertion, u

LEMMA LoginIsOurs ==
    ASSUME NEW t, NEW n \in Nat, NEW audience \in {OurSp.entity, "app"}, NEW to, NEW quote,
           NEW k \in OurKeys, to = OurSp.acs => audience = OurSp.entity
    PROVE  OurAnswer(Login(t, audience, to, quote, n, k), to, quote, t, n)
<1>1. n \in 0..n
    OBVIOUS
<1> QED
    BY <1>1 DEF OurAnswer

LEMMA SsoIssuesFits ==
    ASSUME RowsFit, TripsFit, now \in Nat, NEW t \in Trips, SsoIssues(t)
    PROVE  \E q : /\ trip' = [trip EXCEPT ![t] = q] /\ TripFits(q, t, now, providers, may)
<1>0. PICK r : r = trip[t]
    OBVIOUS
<1>1. PICK c \in ApplicationFor(t) :
          Reply(t, Plain(SignAssertion(BuildResponse(t, applications[c].entity, applications[c].acs,
                                                     RequestId(t), now), process)),
                applications[c].acs)
    BY DEF SsoIssues, AcsFor
<1>2. AtSso(t) /\ r.pc = "sent" /\ process # None
    BY <1>0 DEF SsoIssues, AtSso, Up
<1>3. PICK k \in OurKeys : process = [key |-> k, cert |-> k]
    BY <1>2 DEF RowsFit, Pairs
<1> DEFINE acs == applications[c].acs
           audience == applications[c].entity
           doc == Login(t, audience, acs, r.quote, now, k)
           q == Revised(r, "sent", Plain(doc), acs, "redirect", r.idp, r.outcome)
<1>4. /\ RequestId(t) = r.quote /\ r.quote \in {t, None} /\ acs \in AcsUrls
      /\ audience \in {OurSp.entity, "app"}
      /\ acs = OurSp.acs => audience = OurSp.entity
    BY <1>0, <1>2, FoundFor DEF OurAppRow, AppRow, AcsUrls, AppAddresses, OurSp
<1> HIDE DEF acs, audience
<1>5. SignAssertion(BuildResponse(t, audience, acs, r.quote, now), process) = doc
    <2>1. r.quote \in Trips \cup {None}
        BY <1>4
    <2>2. SignAssertion(BuildResponse(t, audience, acs, r.quote, now), [key |-> k, cert |-> k])
            = Login(t, audience, acs, r.quote, now, k)
        BY <1>4, <2>1, LoginSigned
    <2> QED
        BY <1>3, <2>2, Zenon
<1>6. q.wire = Plain(doc) /\ q.to = acs /\ q.quote = r.quote /\ Plain(doc).doc = doc
    BY DEF Revised, Plain
<1>7. doc.kind = "response"
    BY DEF Login
<1>8. OurAnswer(doc, acs, r.quote, t, now)
    BY <1>4, LoginIsOurs
<1>9. Reply(t, Plain(doc), acs)
    BY <1>1, <1>4, <1>5 DEF acs, audience
<1> HIDE DEF doc
<1>10. Answered(q, t, now)
    <2> HIDE DEF q
    <2> QED BY <1>4, <1>6, <1>8 DEF Answered
<1>11. UnderWay(q, t, now)
    BY <1>10 DEF UnderWay
<1> QED
    BY <1>0, <1>2, <1>6, <1>7, <1>9, <1>11, ReplyFits

(* The documents of the provider elsewhere.                                *)
PartnerDoc(status, signed, assertion, t) ==
    [kind |-> "response", issuer |-> "partner", status |-> status, destination |-> OurSp.acs,
     answers |-> t, signed |-> signed, assertion |-> assertion]

LEMMA UsualDoc ==
    ASSUME NEW t
    PROVE  \E a : /\ a.issuer = "partner"
                  /\ PartnerResponse(t)
                       = PartnerDoc("success", [root |-> None, assertion |-> PartnerSignature], a, t)
<1> DEFINE sig == PartnerSignature
           a0 == BuildAssertion(t, OurSp.entity, OurSp.acs, t, now)
           a == [a0 EXCEPT !.issuer = "partner"]
           b0 == BuildResponse(t, OurSp.entity, OurSp.acs, t, now)
           b1 == [b0 EXCEPT !.issuer = "partner"]
           b2 == [b1 EXCEPT !.assertion.issuer = "partner"]
           b3 == [b2 EXCEPT !.signed.assertion = sig]
<1>1. a.issuer = "partner"
    BY DEF BuildAssertion
<1>2. b0 = [kind |-> "response", issuer |-> OurIdp.entity, status |-> "success",
            destination |-> OurSp.acs, answers |-> t, signed |-> [root |-> None, assertion |-> None],
            assertion |-> a0]
    BY DEF BuildResponse, Unsigned
<1> HIDE DEF a0, a
<1>3. b1 = PartnerDoc("success", [root |-> None, assertion |-> None], a0, t)
    <2> HIDE DEF b0
    <2> QED BY <1>2 DEF PartnerDoc
<1>4. b2 = PartnerDoc("success", [root |-> None, assertion |-> None], a, t)
    <2> HIDE DEF b0, b1
    <2>1. b1.assertion = a0
        BY <1>3 DEF PartnerDoc
    <2>2. [b1 EXCEPT !.assertion = a] = PartnerDoc("success", [root |-> None, assertion |-> None], a, t)
        BY <1>3 DEF PartnerDoc
    <2> QED
        BY <2>1, <2>2 DEF a
<1>5. b3 = PartnerDoc("success", [root |-> None, assertion |-> sig], a, t)
    <2> HIDE DEF b0, b1, b2
    <2>1. b2.signed = [root |-> None, assertion |-> None]
        BY <1>4 DEF PartnerDoc
    <2>2. [b2.signed EXCEPT !.assertion = sig] = [root |-> None, assertion |-> sig]
        BY <2>1
    <2>3. [b2 EXCEPT !.signed = [root |-> None, assertion |-> sig]]
            = PartnerDoc("success", [root |-> None, assertion |-> sig], a, t)
        BY <1>4 DEF PartnerDoc
    <2> QED
        BY <2>2, <2>3
<1>6. PartnerResponse(t) = b3
    BY Zenon DEF PartnerResponse
<1> HIDE DEF b3
<1> QED
    BY <1>1, <1>5, <1>6, Zenon

(* Whatever its habit, it says who it is, answers what was asked, and only *)
(* its own key has signed.                                                 *)
LEMMA PartnerDocs ==
    ASSUME RowsFit, NEW t \in Trips, NEW habit \in Habits, PartnerAnswers(t, habit)
    PROVE  \E status, a :
             \E signed \in [root : {None} \cup Sigs(PartnerKeys), assertion : {None} \cup Sigs(PartnerKeys)] :
               /\ Reply(t, Plain(PartnerDoc(status, signed, a, t)), OurSp.acs)
               /\ a # None => a.issuer = "partner"
<1> DEFINE sig == PartnerSignature
           usual == PartnerResponse(t)
           late == [usual.assertion EXCEPT !.notBefore = now + ReaderSkew + 1]
           r1 == [usual EXCEPT !.status = "responder"]
           r2 == [r1 EXCEPT !.assertion = None]
           Signed == [root : {None} \cup Sigs(PartnerKeys), assertion : {None} \cup Sigs(PartnerKeys)]
<1>1. PICK a : a.issuer = "partner" /\ usual = PartnerDoc("success", [root |-> None, assertion |-> sig], a, t)
    BY UsualDoc
<1>2. sig \in Sigs(PartnerKeys)
    BY DEF PartnerSignature, PartnerPair, Signature, Sigs, RowsFit
<1>3. /\ habit = "usual" => Reply(t, Plain(usual), OurSp.acs)
      /\ habit = "wrapper" =>
           Reply(t, Plain([usual EXCEPT !.signed = [root |-> sig, assertion |-> None]]), OurSp.acs)
      /\ habit = "neither" => Reply(t, Plain([usual EXCEPT !.signed = Unsigned]), OurSp.acs)
      /\ habit = "refusal" => Reply(t, Plain([r2 EXCEPT !.signed = Unsigned]), OurSp.acs)
      /\ habit = "early" =>
           Reply(t, Plain([usual EXCEPT !.assertion = late]), OurSp.acs)
    BY Zenon DEF PartnerAnswers
<1> HIDE DEF usual, sig
<1>4. /\ [root |-> None, assertion |-> sig] \in Signed /\ [root |-> sig, assertion |-> None] \in Signed
      /\ Unsigned \in Signed
    BY <1>2 DEF Unsigned
<1>5. [usual EXCEPT !.signed = [root |-> sig, assertion |-> None]]
        = PartnerDoc("success", [root |-> sig, assertion |-> None], a, t)
    BY <1>1 DEF PartnerDoc
<1>6. [usual EXCEPT !.signed = Unsigned] = PartnerDoc("success", Unsigned, a, t)
    BY <1>1 DEF PartnerDoc, Unsigned
<1>7. [r2 EXCEPT !.signed = Unsigned] = PartnerDoc("responder", Unsigned, None, t)
    <2>1. r1 = PartnerDoc("responder", [root |-> None, assertion |-> sig], a, t)
        BY <1>1 DEF PartnerDoc
    <2> HIDE DEF r1
    <2>2. r2 = PartnerDoc("responder", [root |-> None, assertion |-> sig], None, t)
        BY <2>1 DEF PartnerDoc
    <2> HIDE DEF r2
    <2> QED
        BY <2>2 DEF PartnerDoc, Unsigned
<1>9. usual.assertion = a /\ late.issuer = "partner"
    <2>1. usual.assertion = a
        BY <1>1 DEF PartnerDoc
    <2> QED
        BY <1>1, <2>1
<1> HIDE DEF late
<1>10. [usual EXCEPT !.assertion = late]
         = PartnerDoc("success", [root |-> None, assertion |-> sig], late, t)
    BY <1>1 DEF PartnerDoc
<1> HIDE DEF r1, r2, Signed
<1>11. CASE habit = "usual"
    BY <1>1, <1>3, <1>4, <1>11 DEF Signed
<1>12. CASE habit = "wrapper"
    BY <1>1, <1>3, <1>4, <1>5, <1>12 DEF Signed
<1>13. CASE habit = "neither"
    BY <1>1, <1>3, <1>4, <1>6, <1>13 DEF Signed
<1>14. CASE habit = "refusal"
    BY <1>3, <1>4, <1>7, <1>14 DEF Signed
<1>15. CASE habit = "early"
    BY <1>3, <1>4, <1>9, <1>10, <1>15 DEF Signed
<1> QED
    BY <1>11, <1>12, <1>13, <1>14, <1>15 DEF Habits

LEMMA PartnerAnswersFits ==
    ASSUME RowsFit, TripsFit, NEW t \in Trips, NEW habit \in Habits, PartnerAnswers(t, habit)
    PROVE  \E q : /\ trip' = [trip EXCEPT ![t] = q] /\ TripFits(q, t, now, providers, may)
<1>0. PICK r : r = trip[t]
    OBVIOUS
<1>1. r.pc = "sent" /\ r.to = "partner_sso"
    BY <1>0 DEF PartnerAnswers, At
<1>2. r.quote = t
    <2>1. UnderWay(r, t, now)
        BY <1>0, <1>1, Begun
    <2> QED
        BY <1>1, <2>1 DEF UnderWay, Opening, Asking, Answered, PartnerAnswered, LoggingOut, LoggedOut,
                          AcsUrls, AppAddresses, OurSp, OurIdp
<1>3. PICK status, a :
         \E signed \in [root : {None} \cup Sigs(PartnerKeys), assertion : {None} \cup Sigs(PartnerKeys)] :
           /\ Reply(t, Plain(PartnerDoc(status, signed, a, t)), OurSp.acs)
           /\ a # None => a.issuer = "partner"
    BY PartnerDocs
<1>4. PICK signed \in [root : {None} \cup Sigs(PartnerKeys), assertion : {None} \cup Sigs(PartnerKeys)] :
           /\ Reply(t, Plain(PartnerDoc(status, signed, a, t)), OurSp.acs)
           /\ a # None => a.issuer = "partner"
    BY <1>3
<1> DEFINE doc == PartnerDoc(status, signed, a, t)
           q == Revised(r, "sent", Plain(doc), OurSp.acs, "redirect", r.idp, r.outcome)
<1>5. /\ doc.kind = "response" /\ doc.issuer = "partner" /\ doc.answers = t
      /\ doc.assertion = a /\ doc.signed = signed
    BY DEF PartnerDoc
<1>6. q.wire = Plain(doc) /\ q.to = OurSp.acs /\ q.quote = r.quote /\ Plain(doc).doc = doc
    BY DEF Revised, Plain
<1> HIDE DEF doc
<1>7. PartnerAnswered(q, t)
    <2> HIDE DEF q
    <2> QED BY <1>2, <1>4, <1>5, <1>6 DEF PartnerAnswered
<1>8. UnderWay(q, t, now)
    BY <1>7 DEF UnderWay
<1>9. Reply(t, Plain(doc), OurSp.acs)
    BY <1>4 DEF doc
<1> QED
    BY <1>0, <1>1, <1>5, <1>6, <1>8, <1>9, ReplyFits

(* What an answer of ours says, whichever it is.                           *)
LEMMA AnswersAreOurs ==
    ASSUME NEW doc, NEW to, NEW quote, NEW t, NEW n, OurAnswer(doc, to, quote, t, n)
    PROVE  /\ doc.kind = "response" /\ doc.issuer = OurIdp.entity /\ doc.answers = quote
           /\ doc.destination = to
<1>1. CASE doc = BuildFailureResponse(to, quote)
    BY <1>1 DEF BuildFailureResponse
<1>2. ASSUME NEW then, NEW k, NEW audience, doc = Login(t, audience, to, quote, then, k)
      PROVE  /\ doc.kind = "response" /\ doc.issuer = OurIdp.entity /\ doc.answers = quote
             /\ doc.destination = to
    BY <1>2 DEF Login
<1> QED
    BY <1>1, <1>2 DEF OurAnswer

(* A request to be signed out that has arrived, or an answer to one.       *)
LEMMA AtLogout ==
    ASSUME TripsFit, NEW t \in Trips, trip[t].pc = "sent", trip[t].wire # None,
           trip[t].wire.doc.kind = "logout", NEW r, r = trip[t]
    PROVE  LoggingOut(r, t) /\ r.wire.doc \in LogoutDocs(t) /\ r.wire.doc.id = t /\ "logout" \in may
<1>1. UnderWay(r, t, now) /\ "logout" \in may
    BY Begun
<1>2. ~Opening(r)
    BY DEF Opening
<1>3. ~Asking(r, t)
    BY DEF Asking, Unread, AuthnDocs
<1>4. ~Answered(r, t, now)
    BY AnswersAreOurs DEF Answered
<1>5. ~PartnerAnswered(r, t)
    BY DEF PartnerAnswered
<1>6. ~LoggedOut(r, t)
    BY DEF LoggedOut, Unread, LoggedOutDocs
<1>7. LoggingOut(r, t)
    BY <1>1, <1>2, <1>3, <1>4, <1>5, <1>6 DEF UnderWay
<1>8. r.wire.doc \in LogoutDocs(t) /\ r.wire.doc.id = t
    BY <1>7 DEF LoggingOut, Unread, LogoutDocs
<1> QED
    BY <1>1, <1>7, <1>8

(* What goes back over the redirect binding, signed at the root.           *)
LoggedOutDoc(issuer, to, t, k) ==
    [kind |-> "loggedout", issuer |-> issuer, destination |-> to, answers |-> t,
     signed |-> [root |-> [by |-> k, shows |-> k], assertion |-> None]]

LEMMA Confirmation ==
    ASSUME NEW issuer, NEW to, NEW t, NEW k
    PROVE  SignDocument(LogoutResponse(issuer, to, t), [key |-> k, cert |-> k])
             = LoggedOutDoc(issuer, to, t, k)
<1> DEFINE doc == LogoutResponse(issuer, to, t)
           sig == Signature([key |-> k, cert |-> k])
<1>1. doc = [kind |-> "loggedout", issuer |-> issuer, destination |-> to, answers |-> t,
             signed |-> [root |-> None, assertion |-> None]]
    BY DEF LogoutResponse, Unsigned
<1>2. sig = [by |-> k, shows |-> k]
    BY DEF Signature
<1> HIDE DEF doc, sig
<1>3. doc.signed = [root |-> None, assertion |-> None]
    BY <1>1
<1>4. [doc.signed EXCEPT !.root = sig] = [root |-> sig, assertion |-> None]
    BY <1>3
<1>5. [doc EXCEPT !.signed = [root |-> sig, assertion |-> None]] = LoggedOutDoc(issuer, to, t, k)
    BY <1>1, <1>2 DEF LoggedOutDoc
<1> QED
    BY <1>4, <1>5 DEF doc, sig, SignDocument

KeyOf(issuer, k) ==
    \/ issuer = OurIdp.entity /\ k \in OurKeys
    \/ issuer = "partner" /\ k \in PartnerKeys

LEMMA ConfirmingFits ==
    ASSUME TripsFit, NEW t \in Trips, trip[t].pc = "sent", NEW issuer, NEW k, KeyOf(issuer, k),
           NEW to \in {OurSp.slo, "app_slo"}, to = OurSp.slo => trip[t].idp # None, "logout" \in may,
           Reply(t, Deflated(LoggedOutDoc(issuer, to, t, k)), to)
    PROVE  \E q : /\ trip' = [trip EXCEPT ![t] = q] /\ TripFits(q, t, now, providers, may)
<1>0. PICK r : r = trip[t]
    OBVIOUS
<1> DEFINE doc == LoggedOutDoc(issuer, to, t, k)
           q == Revised(r, "sent", Deflated(doc), to, "redirect", r.idp, r.outcome)
<1>1. ASSUME NEW keys, k \in keys PROVE doc \in LoggedOutDocs(issuer, keys, {t})
    <2>1. [by |-> k, shows |-> k] \in Sigs(keys)
        BY <1>1 DEF Sigs
    <2> QED
        BY <2>1 DEF LoggedOutDocs, LoggedOutDoc
<1>2. doc \in LoggedOutDocs(OurIdp.entity, OurKeys, {t}) \cup LoggedOutDocs("partner", PartnerKeys, {t})
    BY <1>1 DEF KeyOf
<1>3. q.wire = [form |-> "deflated", doc |-> doc, query |-> None] /\ q.to = to /\ q.idp = r.idp
    BY DEF Revised, Deflated
<1> HIDE DEF q, doc
<1>4. Unread(q, "deflated", LoggedOutDocs(OurIdp.entity, OurKeys, {t})
                              \cup LoggedOutDocs("partner", PartnerKeys, {t}), {None})
    BY <1>2, <1>3 DEF Unread
<1>5. LoggedOut(q, t)
    BY <1>0, <1>3, <1>4 DEF LoggedOut
<1>6. UnderWay(q, t, now)
    BY <1>5 DEF UnderWay
<1>7. UnderWay(Revised(r, "sent", Deflated(doc), to, "redirect", r.idp, r.outcome), t, now)
    BY <1>6 DEF q
<1>8. Reply(t, Deflated(doc), to)
    BY DEF doc
<1> QED
    BY <1>0, <1>7, <1>8, ReplyFits

LEMMA SignOutFits ==
    ASSUME RowsFit, TripsFit, NEW t \in Trips, SignOut(t)
    PROVE  \E q : /\ trip' = [trip EXCEPT ![t] = q] /\ TripFits(q, t, now, providers, may)
<1> DEFINE request == Decode(trip[t].wire, trip[t].via = "redirect")
           asking == {c \in Enabled(applications) : applications[c].entity = request.issuer}
<1>0. PICK r : r = trip[t]
    OBVIOUS
<1>1. /\ r.pc = "sent" /\ r.to = OurIdp.slo /\ r.wire # None /\ r.wire.doc.kind = "logout"
      /\ process # None
    BY <1>0 DEF SignOut, At, Up
<1>2. LoggingOut(r, t) /\ r.wire.doc \in LogoutDocs(t) /\ r.wire.doc.id = t /\ "logout" \in may
    BY <1>0, <1>1, AtLogout
<1>3. request = r.wire.doc
    <2>1. r.wire.form = FormOf(r) /\ r.via \in {"redirect", "post"}
        BY <1>0, <1>1, <1>2, Begun DEF LoggingOut, Unread
    <2> QED
        BY <1>0, <2>1 DEF FormOf, Decode
<1>4. CASE End(t, "unknown")
    BY <1>0, <1>1, <1>4, EndFits
<1>5. ASSUME NEW c \in asking, NEW slo, slo = applications[c].slo,
             Reply(t, Deflated(SignDocument(LogoutResponse(OurIdp.entity, slo, request.id), process)), slo)
      PROVE  \E q : /\ trip' = [trip EXCEPT ![t] = q] /\ TripFits(q, t, now, providers, may)
    <2>1. PICK k \in OurKeys : process = [key |-> k, cert |-> k]
        BY <1>1 DEF RowsFit, Pairs
    <2>2. applications[c] \in OurAppRow \cup AppRow /\ applications[c].entity = r.wire.doc.issuer
        BY <1>3, <1>5, OfferedApplication
    <2>3. slo \in {OurSp.slo, "app_slo"} /\ (slo = OurSp.slo => r.wire.doc.issuer = OurSp.entity)
        BY <1>5, <2>2 DEF OurAppRow, AppRow, OurSp
    <2>4. slo = OurSp.slo => r.idp # None
        BY <1>2, <2>3 DEF LoggingOut
    <2>5. SignDocument(LogoutResponse(OurIdp.entity, slo, t), process) = LoggedOutDoc(OurIdp.entity, slo, t, k)
        BY <2>1, Confirmation
    <2>6. Reply(t, Deflated(SignDocument(LogoutResponse(OurIdp.entity, slo, t), process)), slo)
        BY <1>2, <1>3, <1>5
    <2> QED
        <3>1. Reply(t, Deflated(LoggedOutDoc(OurIdp.entity, slo, t, k)), slo)
            BY <2>5, <2>6
        <3>2. KeyOf(OurIdp.entity, k)
            BY DEF KeyOf
        <3> QED
            BY <1>0, <1>1, <1>2, <2>3, <2>4, <3>1, <3>2, ConfirmingFits
<1> QED
    BY <1>4, <1>5, Zenon DEF SignOut

LEMMA PartnerConfirmsFits ==
    ASSUME RowsFit, TripsFit, NEW t \in Trips, PartnerConfirms(t)
    PROVE  \E q : /\ trip' = [trip EXCEPT ![t] = q] /\ TripFits(q, t, now, providers, may)
<1>0. PICK r : r = trip[t]
    OBVIOUS
<1>1. /\ r.pc = "sent" /\ r.to = "partner_slo" /\ r.wire # None /\ r.wire.doc.kind = "logout"
    BY <1>0 DEF PartnerConfirms, At
<1>2. LoggingOut(r, t) /\ "logout" \in may
    BY <1>0, <1>1, AtLogout
<1>3. r.idp # None
    BY <1>1, <1>2 DEF LoggingOut
<1>4. partner \in PartnerKeys
    BY DEF RowsFit
<1>5. SignDocument(LogoutResponse("partner", OurSp.slo, t), PartnerPair)
        = LoggedOutDoc("partner", OurSp.slo, t, partner)
    BY Confirmation DEF PartnerPair
<1>6. Reply(t, Deflated(SignDocument(LogoutResponse("partner", OurSp.slo, t), PartnerPair)), OurSp.slo)
    BY DEF PartnerConfirms
<1>7. Reply(t, Deflated(LoggedOutDoc("partner", OurSp.slo, t, partner)), OurSp.slo)
    BY <1>5, <1>6
<1>8. KeyOf("partner", partner)
    BY <1>4 DEF KeyOf
<1> QED
    BY <1>0, <1>1, <1>2, <1>3, <1>7, <1>8, ConfirmingFits

LEMMA ProviderLogsOutFits ==
    ASSUME RowsFit, TripsFit, NEW t \in Trips, ProviderLogsOut(t)
    PROVE  \E q : /\ trip' = [trip EXCEPT ![t] = q] /\ TripFits(q, t, now, providers, may)
<1>0. PICK r : r = trip[t]
    OBVIOUS
<1>1. /\ r.pc = "sent" /\ r.to = OurSp.slo /\ r.wire # None /\ r.wire.doc.kind = "logout"
    BY <1>0 DEF ProviderLogsOut, At
<1>2. LoggingOut(r, t) /\ "logout" \in may
    BY <1>0, <1>1, AtLogout
<1>3. CASE End(t, "refused")
    BY <1>0, <1>1, <1>3, EndFits
<1>4. ASSUME NEW s \in Senders(t),
             trip' = [trip EXCEPT ![t].pc = "ended", ![t].outcome = "signed_out", ![t].idp = s]
      PROVE  \E q : /\ trip' = [trip EXCEPT ![t] = q] /\ TripFits(q, t, now, providers, may)
    <2> DEFINE a == [r EXCEPT !.pc = "ended"]
               b == [a EXCEPT !.outcome = "signed_out"]
               c == [b EXCEPT !.idp = s]
               q == Revised(r, "ended", r.wire, r.to, r.via, s, "signed_out")
    <2>1. Whole(r)
        BY <1>0 DEF TripsFit, TripFits, Whole
    <2>2. a = [pc |-> "ended", wire |-> r.wire, to |-> r.to, via |-> r.via, relay |-> r.relay, idp |-> r.idp,
               app |-> r.app, quote |-> r.quote, asked |-> r.asked, outcome |-> r.outcome]
        BY <2>1 DEF Whole
    <2>3. b = [pc |-> "ended", wire |-> r.wire, to |-> r.to, via |-> r.via, relay |-> r.relay, idp |-> r.idp,
               app |-> r.app, quote |-> r.quote, asked |-> r.asked, outcome |-> "signed_out"]
        <3> HIDE DEF a
        <3> QED BY <2>2
    <2>4. c = q
        <3> HIDE DEF a, b
        <3> QED BY <2>3 DEF Revised
    <2>5. trip' = [trip EXCEPT ![t] = c]
        BY <1>0, <1>4, Zenon
    <2>6. s \in Providers /\ s # None /\ providers[s] # Absent
        BY OfferedRow DEF Senders
    <2>7. /\ q.wire = r.wire /\ q.to = r.to /\ q.via = r.via /\ q.idp = s
        BY DEF Revised
    <2> HIDE DEF q, c
    <2>8. LoggingOut(q, t)
        BY <1>2, <2>6, <2>7 DEF LoggingOut, Unread, FormOf
    <2>9. UnderWay(q, t, now)
        BY <2>8 DEF UnderWay
    <2>10. TripFits(r, t, now, providers, may) /\ r.via \in {"redirect", "post"}
        BY <1>0, <1>1, Begun
    <2>11. UnderWay(Revised(r, "ended", r.wire, r.to, r.via, s, "signed_out"), t, now)
        BY <2>9 DEF q
    <2>12. TripFits(Revised(r, "ended", r.wire, r.to, r.via, s, "signed_out"), t, now, providers, may)
        BY <1>2, <2>6, <2>10, <2>11, RevisedFits
    <2> QED
        BY <2>4, <2>5, <2>12 DEF q
<1> QED
    BY <1>3, <1>4, Zenon DEF ProviderLogsOut

LEMMA MovesFits ==
    ASSUME RowsFit, TripsFit, now \in Nat, NEW t \in Trips, Moves(t)
    PROVE  \E q : /\ trip' = [trip EXCEPT ![t] = q] /\ TripFits(q, t, now, providers, may)
<1>0. trip[t].pc \in {"sent", "logging_in"}
    BY DEF Moves
<1>1. CASE SsoUnreadable(t)
    BY <1>1, AtSsoIs DEF SsoUnreadable
<1>2. CASE SsoUnknown(t)
    BY <1>0, <1>2, EndFits DEF SsoUnknown
<1>3. CASE SsoAsksToLogIn(t) \/ LoggedIn(t)
    BY <1>3, LoginFits DEF SsoAsksToLogIn
<1>4. CASE SsoRefuses(t) \/ SsoIssues(t)
    BY <1>4, SsoRefusesFits, SsoIssuesFits
<1>5. ASSUME NEW habit \in Habits, PartnerAnswers(t, habit)
      PROVE  \E q : /\ trip' = [trip EXCEPT ![t] = q] /\ TripFits(q, t, now, providers, may)
    BY <1>5, PartnerAnswersFits
<1>6. CASE AppReceives(t)
    BY <1>0, <1>6, EndFits DEF AppReceives
<1>7. CASE JudgeAnswer(t)
    <2>1. End(t, "accepted") \/ End(t, "refused")
        BY <1>7, Zenon DEF JudgeAnswer
    <2> QED
        BY <1>0, <2>1, EndFits
<1>8. CASE SignOut(t) \/ PartnerConfirms(t) \/ ProviderLogsOut(t)
    BY <1>8, SignOutFits, PartnerConfirmsFits, ProviderLogsOutFits
<1>9. CASE ProviderConfirms(t)
    <2>1. End(t, "confirmed") \/ End(t, "not_confirmed")
        BY <1>9, Zenon DEF ProviderConfirms
    <2> QED
        BY <1>0, <2>1, EndFits
<1> QED
    BY <1>1, <1>2, <1>3, <1>4, <1>5, <1>6, <1>7, <1>8, <1>9 DEF Moves

LEMMA StartsFits ==
    ASSUME RowsFit, TripsFit, NEW t \in Trips, Starts(t)
    PROVE  \E q : /\ trip' = [trip EXCEPT ![t] = q] /\ TripFits(q, t, now, providers, may)
<1>1. ASSUME NEW s, StartLogin(t, s) \/ TellProvider(t, s)
      PROVE  \E q : /\ trip' = [trip EXCEPT ![t] = q] /\ TripFits(q, t, now, providers, may)
    BY <1>1, StartLoginFits, TellProviderFits
<1>2. ASSUME NEW acs \in AppAddresses, NEW via \in {"redirect", "post"}, NEW relay,
             AppAsks(t, acs, via, relay)
      PROVE  \E q : /\ trip' = [trip EXCEPT ![t] = q] /\ TripFits(q, t, now, providers, may)
    BY <1>2, AppAsksFits
<1>3. ASSUME NEW c \in Registered(applications), OpenApp(t, c)
      PROVE  \E q : /\ trip' = [trip EXCEPT ![t] = q] /\ TripFits(q, t, now, providers, may)
    <2>1. c \in Clients
        BY DEF Registered, RowsFit
    <2> QED
        BY <1>3, <2>1, OpenAppFits
<1>4. ASSUME NEW via \in {"redirect", "post"}, AppLogsOut(t, via)
      PROVE  \E q : /\ trip' = [trip EXCEPT ![t] = q] /\ TripFits(q, t, now, providers, may)
    BY <1>4, AppLogsOutFits
<1>5. ASSUME NEW how, PartnerLogsOut(t, how)
      PROVE  \E q : /\ trip' = [trip EXCEPT ![t] = q] /\ TripFits(q, t, now, providers, may)
    BY <1>5, PartnerLogsOutFits
<1> QED
    BY <1>1, <1>2, <1>3, <1>4, <1>5 DEF Starts

-----------------------------------------------------------------------------
(* The invariant.                                                          *)

LEMMA InvInit ==
    ASSUME Init
    PROVE  IInv
<1>1. PICK k \in OurKeys : config = [key |-> k, cert |-> k] /\ made = {k}
    BY DEF Init
<1>2. config \in Settings /\ process \in Pairs
    BY <1>1 DEF Init, Settings, Pairs
<1>3. RowsFit
    BY <1>1, <1>2 DEF Init, RowsFit
<1>4. ASSUME NEW t PROVE TripFits(NoTrip, t, now, providers, may)
    <2>1. NoTrip.outcome # "unreadable"
        BY NoneAssumption DEF NoTrip, Words
    <2> QED
        BY <2>1 DEF TripFits, NoTrip
<1>5. trip = [t \in Trips |-> NoTrip]
    BY DEF Init
<1>6. TripsFit
    <2> HIDE DEF NoTrip
    <2> QED BY <1>4, <1>5 DEF TripsFit
<1>7. now \in 0..MaxTime
    BY FederationAssumption DEF Init
<1> QED
    BY <1>3, <1>6, <1>7 DEF IInv, Init

(* Time passes, and rows are replaced but never removed.                   *)
LEMMA FitsLater ==
    ASSUME NEW n \in Nat, NEW later \in Nat, n <= later, NEW rows, NEW rows2, NEW m, NEW r, NEW t,
           \A s \in Providers : rows[s] # Absent => rows2[s] # Absent,
           TripFits(r, t, n, rows, m)
    PROVE  TripFits(r, t, later, rows2, m)
<1>1. ASSUME NEW doc, NEW to, NEW quote, OurAnswer(doc, to, quote, t, n)
      PROVE  OurAnswer(doc, to, quote, t, later)
    <2>1. \A then \in 0..n : then \in 0..later
        OBVIOUS
    <2>2. ASSUME NEW then \in 0..n, NEW k \in OurKeys, NEW audience \in {OurSp.entity, "app"},
                 doc = Login(t, audience, to, quote, then, k), to = OurSp.acs => audience = OurSp.entity
          PROVE  OurAnswer(doc, to, quote, t, later)
        BY <2>1, <2>2, Zenon DEF OurAnswer
    <2>3. CASE doc = BuildFailureResponse(to, quote)
        BY <2>3 DEF OurAnswer
    <2> QED
        BY <1>1, <2>2, <2>3, Zenon DEF OurAnswer
<1>2. Answered(r, t, n) => Answered(r, t, later)
    BY <1>1 DEF Answered
<1>3. UnderWay(r, t, n) => UnderWay(r, t, later)
    BY <1>2 DEF UnderWay
<1> QED
    BY <1>3 DEF TripFits

LEMMA TripsStep ==
    ASSUME IInv, [Next]_vars
    PROVE  TripsFit'
<1>1. /\ RowsFit /\ TripsFit /\ now \in Nat
      /\ may' = may
      /\ \A s \in Providers : providers[s] # Absent => providers'[s] # Absent
    BY RowsStep DEF IInv
<1>2. ASSUME NEW later \in Nat, now <= later, NEW t \in Trips
      PROVE  TripFits(trip[t], t, later, providers', may)
    BY <1>1, <1>2, FitsLater DEF TripsFit
<1>3. CASE UNCHANGED trip /\ (UNCHANGED now \/ Tick)
    <2>1. now' \in Nat /\ now <= now'
        BY <1>1, <1>3 DEF Tick
    <2>2. \A t \in Trips : TripFits(trip[t], t, now', providers', may)
        BY <1>2, <2>1
    <2> QED
        BY <1>1, <1>3, <2>2 DEF TripsFit
<1>4. ASSUME NEW t \in Trips, Starts(t) \/ Moves(t), UNCHANGED <<regVars, now>>
      PROVE  TripsFit'
    <2>1. PICK q : /\ trip' = [trip EXCEPT ![t] = q] /\ TripFits(q, t, now, providers, may)
        BY <1>1, <1>4, StartsFits, MovesFits
    <2>2. \A u \in Trips : trip'[u] = IF u = t THEN q ELSE trip[u]
        BY <1>1, <2>1 DEF TripsFit
    <2>3. \A u \in Trips : TripFits(trip'[u], u, now, providers, may)
        BY <1>1, <2>1, <2>2 DEF TripsFit
    <2>4. trip' = [u \in Trips |-> trip'[u]]
        BY <1>1, <2>1 DEF TripsFit
    <2> QED
        BY <1>4, <2>3, <2>4 DEF TripsFit, regVars
<1> QED
    BY <1>3, <1>4, Steps DEF vars

LEMMA InvStep ==
    ASSUME IInv, [Next]_vars
    PROVE  IInv'
<1>1. RowsFit' /\ may' = may
    BY RowsStep DEF IInv
<1>2. now' \in 0..MaxTime
    <2>1. UNCHANGED now \/ Tick
        BY Steps DEF vars
    <2> QED
        BY <2>1, FederationAssumption DEF IInv, Tick
<1> QED
    BY <1>1, <1>2, TripsStep DEF IInv

LEMMA InvAlways == Spec => []IInv
BY InvInit, InvStep, PTL DEF Spec

(* The types, on the way to the rest: the certificate we show is that of   *)
(* the key we sign with, and every row was read whole out of a document.   *)
THEOREM TypeCorrect == Spec => []TypeOK
<1>1. ASSUME IInv PROVE TypeOK
    <2>1. RowsFit /\ TripsFit /\ now \in 0..MaxTime
        BY <1>1 DEF IInv
    <2>2. ASSUME NEW s \in Registered(providers) PROVE providers[s].cert \in OurKeys \cup PartnerKeys
        <3>1. s \in Providers /\ providers[s] # Absent
            BY <2>1 DEF Registered, RowsFit, Absent
        <3> QED
            BY <2>1, <3>1 DEF RowsFit, OurRow, PartnerRow
    <2>3. ASSUME NEW c \in Registered(applications)
          PROVE  applications[c].acs \in {OurSp.acs} \cup AppAddresses
        <3>1. c \in Clients /\ applications[c] # Absent
            BY <2>1 DEF Registered, RowsFit, Absent
        <3> QED
            BY <2>1, <3>1 DEF RowsFit, OurAppRow, AppRow
    <2>4. \A t \in Trips : trip[t].pc \in {"new", "sent", "logging_in", "ended"}
        BY <2>1 DEF TripsFit, TripFits
    <2> QED
        BY <2>1, <2>2, <2>3, <2>4 DEF TypeOK, RowsFit, Pairs
<1> QED
    BY <1>1, InvAlways, PTL

(* An answer quotes the request it answers and carries its relay state,    *)
(* and nothing that could be read becomes unreadable on the way            *)
(* (_login_url_returning_here, _issue, _refuse).                           *)
THEOREM AnswersFollowTheRequestAlways == Spec => []AnswersFollowTheRequest
<1>1. ASSUME IInv, NEW t \in Trips, NEW r, r = trip[t]
      PROVE  /\ r.outcome # "unreadable" /\ r.relay = r.asked
             /\ r.wire # None /\ r.wire.doc.kind = "response" => r.wire.doc.answers = r.quote
    <2>1. TripFits(r, t, now, providers, may)
        BY <1>1 DEF IInv, TripsFit
    <2>2. r.pc = "new" => r.wire = None
        BY <2>1 DEF TripFits, NoTrip
    <2>3. ASSUME r.wire # None, r.wire.doc.kind = "response"
          PROVE  r.wire.doc.answers = r.quote
        <3>1. UnderWay(r, t, now)
            BY <2>1, <2>2, <2>3 DEF TripFits
        <3>2. ~Opening(r)
            BY <2>3 DEF Opening
        <3>3. ~Asking(r, t)
            BY <2>3 DEF Asking, Unread, AuthnDocs
        <3>4. Answered(r, t, now) => r.wire.doc.answers = r.quote
            BY AnswersAreOurs DEF Answered
        <3>5. PartnerAnswered(r, t) => r.wire.doc.answers = r.quote
            BY DEF PartnerAnswered
        <3>6. ~LoggingOut(r, t)
            BY <2>3 DEF LoggingOut, Unread, LogoutDocs
        <3>7. ~LoggedOut(r, t)
            BY <2>3 DEF LoggedOut, Unread, LoggedOutDocs
        <3> QED
            BY <3>1, <3>2, <3>3, <3>4, <3>5, <3>6, <3>7 DEF UnderWay
    <2> QED
        BY <2>1, <2>3 DEF TripFits
<1>2. IInv => AnswersFollowTheRequest
    BY <1>1 DEF AnswersFollowTheRequest
<1> QED
    BY <1>2, InvAlways, PTL

-----------------------------------------------------------------------------
(* What a step does to one conversation.                                   *)

LEMMA OneMoves ==
    ASSUME IInv, [Next]_vars, NEW t \in Trips, trip'[t] # trip[t]
    PROVE  (Starts(t) \/ Moves(t)) /\ UNCHANGED <<regVars, now>>
<1>1. PICK u \in Trips : (Starts(u) \/ Moves(u)) /\ UNCHANGED <<regVars, now>>
    BY Steps DEF vars
<1>2. RowsFit /\ TripsFit /\ now \in Nat
    BY DEF IInv
<1>3. PICK q : trip' = [trip EXCEPT ![u] = q]
    BY <1>1, <1>2, StartsFits, MovesFits
<1>4. u = t
    BY <1>2, <1>3 DEF TripsFit
<1> QED
    BY <1>1, <1>4

(* The row after a message is sent, answered or closed.                    *)
LEMMA RowAfter ==
    ASSUME TripsFit, NEW t \in Trips
    PROVE  /\ \A row : Send(t, row) => trip'[t] = row
           /\ \A w, to : Reply(t, w, to) =>
                trip'[t].wire = w /\ trip'[t].to = to /\ trip'[t].pc = trip[t].pc
           /\ \A outcome : End(t, outcome) =>
                /\ trip'[t].outcome = outcome /\ trip'[t].wire = trip[t].wire
                /\ trip'[t].idp = trip[t].idp
<1>1. t \in DOMAIN trip
    BY DEF TripsFit
<1>2. ASSUME NEW row, Send(t, row) PROVE trip'[t] = row
    BY <1>1, <1>2 DEF Send
<1>3. PICK r : r = trip[t]
    OBVIOUS
<1>4. ASSUME NEW w, NEW to, Reply(t, w, to)
      PROVE  trip'[t].wire = w /\ trip'[t].to = to /\ trip'[t].pc = trip[t].pc
    <2>1. trip' = [trip EXCEPT ![t] = Revised(r, r.pc, w, to, "redirect", r.idp, r.outcome)]
        BY <1>3, <1>4, Replied
    <2>2. trip'[t] = Revised(r, r.pc, w, to, "redirect", r.idp, r.outcome)
        BY <1>1, <2>1
    <2> QED
        BY <1>3, <2>2 DEF Revised
<1>5. ASSUME NEW outcome, End(t, outcome)
      PROVE  /\ trip'[t].outcome = outcome /\ trip'[t].wire = trip[t].wire
             /\ trip'[t].idp = trip[t].idp
    <2>1. trip' = [trip EXCEPT ![t] = Revised(r, "ended", r.wire, r.to, r.via, r.idp, outcome)]
        BY <1>3, <1>5, Ended
    <2>2. trip'[t] = Revised(r, "ended", r.wire, r.to, r.via, r.idp, outcome)
        BY <1>1, <2>1
    <2> QED
        BY <1>3, <2>2 DEF Revised
<1> QED
    BY <1>2, <1>4, <1>5

(* Whoever begins a conversation asks for something.                       *)
LEMMA StartsAsk ==
    ASSUME TripsFit, NEW t \in Trips, Starts(t)
    PROVE  /\ trip'[t].wire = None \/ trip'[t].wire.doc.kind \in {"authn", "logout"}
           /\ trip'[t].pc = "sent"
<1>1. ASSUME NEW w, NEW to, NEW via, NEW relay, NEW idp, NEW app, NEW quote,
             Send(t, Sent(w, to, via, relay, idp, app, quote)),
             w = None \/ w.doc.kind \in {"authn", "logout"}
      PROVE  /\ trip'[t].wire = None \/ trip'[t].wire.doc.kind \in {"authn", "logout"}
             /\ trip'[t].pc = "sent"
    <2>1. trip'[t] = Sent(w, to, via, relay, idp, app, quote)
        BY <1>1, RowAfter
    <2> QED
        BY <1>1, <2>1 DEF Sent
<1>2. ASSUME NEW doc, doc.kind \in {"authn", "logout"}, NEW pair
      PROVE  /\ Plain(doc).doc.kind \in {"authn", "logout"} /\ Deflated(doc).doc.kind \in {"authn", "logout"}
             /\ RedirectBindingUrl(doc, pair).doc.kind \in {"authn", "logout"}
    BY <1>2 DEF Plain, Deflated, RedirectBindingUrl
<1>3. ASSUME NEW s, StartLogin(t, s)
      PROVE  /\ trip'[t].wire = None \/ trip'[t].wire.doc.kind \in {"authn", "logout"}
             /\ trip'[t].pc = "sent"
    <2> DEFINE doc == AuthnRequest(t, providers[s].sso)
               w == Deflated(doc)
    <2>1. Send(t, Sent(w, providers[s].sso, "redirect", t, s, None, t))
        BY <1>3 DEF StartLogin
    <2>2. doc.kind = "authn"
        BY DEF AuthnRequest
    <2> HIDE DEF doc
    <2>3. w.doc.kind \in {"authn", "logout"}
        BY <1>2, <2>2
    <2> HIDE DEF w
    <2> QED
        BY <1>1, <2>1, <2>3
<1>8. ASSUME NEW s, TellProvider(t, s)
      PROVE  /\ trip'[t].wire = None \/ trip'[t].wire.doc.kind \in {"authn", "logout"}
             /\ trip'[t].pc = "sent"
    <2> DEFINE doc == LogoutRequest(t, OurSp.entity, providers[s].slo)
               w == RedirectBindingUrl(doc, process)
    <2>1. Send(t, Sent(w, providers[s].slo, "redirect", t, s, None, t))
        BY <1>8 DEF TellProvider
    <2>2. doc.kind = "logout"
        BY DEF LogoutRequest
    <2> HIDE DEF doc
    <2>3. w.doc.kind \in {"authn", "logout"}
        BY <1>2, <2>2
    <2> HIDE DEF w
    <2> QED
        BY <1>1, <2>1, <2>3
<1>4. ASSUME NEW acs, NEW via, NEW relay, AppAsks(t, acs, via, relay)
      PROVE  /\ trip'[t].wire = None \/ trip'[t].wire.doc.kind \in {"authn", "logout"}
             /\ trip'[t].pc = "sent"
    <2> DEFINE doc == [kind |-> "authn", id |-> t, issuer |-> "app", acs |-> acs,
                       destination |-> OurIdp.sso, signed |-> Unsigned]
               w == IF via = "post" THEN Plain(doc) ELSE Deflated(doc)
    <2>1. Send(t, Sent(w, OurIdp.sso, via, relay, None, None, t))
        BY <1>4 DEF AppAsks
    <2>2. doc.kind = "authn"
        OBVIOUS
    <2> HIDE DEF doc
    <2>3. w.doc.kind \in {"authn", "logout"}
        BY <1>2, <2>2
    <2> HIDE DEF w
    <2> QED
        BY <1>1, <2>1, <2>3
<1>5. ASSUME NEW c, OpenApp(t, c)
      PROVE  /\ trip'[t].wire = None \/ trip'[t].wire.doc.kind \in {"authn", "logout"}
             /\ trip'[t].pc = "sent"
    BY <1>1, <1>5 DEF OpenApp
<1>6. ASSUME NEW via, AppLogsOut(t, via)
      PROVE  /\ trip'[t].wire = None \/ trip'[t].wire.doc.kind \in {"authn", "logout"}
             /\ trip'[t].pc = "sent"
    <2> DEFINE doc == LogoutRequest(t, "app", OurIdp.slo)
               w == IF via = "post" THEN Plain(doc) ELSE Deflated(doc)
    <2>1. Send(t, Sent(w, OurIdp.slo, via, t, None, None, t))
        BY <1>6 DEF AppLogsOut
    <2>2. doc.kind = "logout"
        BY DEF LogoutRequest
    <2> HIDE DEF doc
    <2>3. w.doc.kind \in {"authn", "logout"}
        BY <1>2, <2>2
    <2> HIDE DEF w
    <2> QED
        BY <1>1, <2>1, <2>3
<1>7. ASSUME NEW how, PartnerLogsOut(t, how)
      PROVE  /\ trip'[t].wire = None \/ trip'[t].wire.doc.kind \in {"authn", "logout"}
             /\ trip'[t].pc = "sent"
    <2> DEFINE doc == LogoutRequest(t, "partner", OurSp.slo)
               w == IF how = "document" THEN Deflated(SignDocument(doc, PartnerPair))
                                        ELSE RedirectBindingUrl(doc, PartnerPair)
    <2>1. Send(t, Sent(w, OurSp.slo, "redirect", None, None, None, t))
        BY <1>7 DEF PartnerLogsOut
    <2>2. doc.kind = "logout" /\ SignDocument(doc, PartnerPair).kind = "logout"
        BY DEF LogoutRequest, SignDocument
    <2> HIDE DEF doc
    <2>3. w.doc.kind \in {"authn", "logout"}
        BY <1>2, <2>2
    <2> HIDE DEF w
    <2> QED
        BY <1>1, <2>1, <2>3
<1> QED
    BY <1>3, <1>4, <1>5, <1>6, <1>7, <1>8 DEF Starts

(* The only answers that are sent in our name are those of SsoRefuses and  *)
(* SsoIssues.                                                              *)
LEMMA AnswersInOurName ==
    ASSUME RowsFit, TripsFit, NEW t \in Trips, Moves(t), trip'[t].wire # trip[t].wire,
           trip'[t].wire.doc.kind = "response", trip'[t].wire.doc.issuer = OurIdp.entity
    PROVE  SsoRefuses(t) \/ SsoIssues(t)
<1>1. ASSUME NEW outcome, End(t, outcome) PROVE FALSE
    BY <1>1, RowAfter
<1>2. ASSUME NEW doc, NEW to, Reply(t, Plain(doc), to) \/ Reply(t, Deflated(doc), to)
      PROVE  doc.kind = "response" /\ doc.issuer = OurIdp.entity
    <2>1. trip'[t].wire = Plain(doc) \/ trip'[t].wire = Deflated(doc)
        BY <1>2, RowAfter
    <2> QED
        BY <2>1 DEF Plain, Deflated
<1>3. ~SsoUnreadable(t) /\ ~SsoUnknown(t) /\ ~AppReceives(t) /\ ~JudgeAnswer(t) /\ ~ProviderConfirms(t)
    BY <1>1, Zenon DEF SsoUnreadable, SsoUnknown, AppReceives, JudgeAnswer, ProviderConfirms
<1>4. ASSUME NEW pc, trip' = [trip EXCEPT ![t] = [trip[t] EXCEPT !.pc = pc]] PROVE FALSE
    BY <1>4 DEF TripsFit, TripFits
<1>5. ~SsoAsksToLogIn(t) /\ ~LoggedIn(t)
    BY <1>1, <1>4 DEF SsoAsksToLogIn, Returning, LoggedIn
<1>6. ASSUME NEW habit \in Habits, PartnerAnswers(t, habit) PROVE FALSE
    <2>1. PICK status, a :
           \E signed \in [root : {None} \cup Sigs(PartnerKeys), assertion : {None} \cup Sigs(PartnerKeys)] :
             /\ Reply(t, Plain(PartnerDoc(status, signed, a, t)), OurSp.acs)
             /\ a # None => a.issuer = "partner"
        BY <1>6, PartnerDocs
    <2>2. PICK signed : Reply(t, Plain(PartnerDoc(status, signed, a, t)), OurSp.acs)
        BY <2>1
    <2>3. PartnerDoc(status, signed, a, t).issuer = "partner"
        BY DEF PartnerDoc
    <2> QED
        BY <1>2, <2>2, <2>3 DEF OurIdp
<1>7. \A issuer, to, answers, pair :
          SignDocument(LogoutResponse(issuer, to, answers), pair).kind = "loggedout"
    BY DEF SignDocument, LogoutResponse
<1>8. ~SignOut(t)
    <2>1. SignOut(t) => \/ End(t, "unknown")
                        \/ \E slo, id : Reply(t, Deflated(SignDocument(LogoutResponse(OurIdp.entity, slo, id),
                                                                       process)), slo)
        BY Zenon DEF SignOut
    <2> QED
        BY <1>1, <1>2, <1>7, <2>1
<1>9. ~PartnerConfirms(t)
    BY <1>2, <1>7 DEF PartnerConfirms
<1>10. ~ProviderLogsOut(t)
    <2>1. ASSUME NEW s, trip' = [trip EXCEPT ![t].pc = "ended", ![t].outcome = "signed_out", ![t].idp = s]
          PROVE  FALSE
        BY <2>1 DEF TripsFit, TripFits
    <2> QED
        BY <1>1, <2>1, Zenon DEF ProviderLogsOut
<1> QED
    BY <1>3, <1>5, <1>6, <1>8, <1>9, <1>10 DEF Moves

(* An answer in our name goes to the address registered for an application *)
(* that is switched on, and a login in it is made out to that application  *)
(* (_sign_in, _issue, _refuse).                                            *)
THEOREM AnswersGoWhereRegisteredAlways == Spec => AnswersGoWhereRegistered
<1> DEFINE Right(t) ==
      LET doc == trip'[t].wire.doc IN
      (trip'[t].wire # trip[t].wire /\ trip'[t].wire # None /\ doc.kind = "response" /\ doc.issuer = OurIdp.entity)
         => \E c \in Enabled(applications) :
              /\ trip'[t].to = applications[c].acs
              /\ doc.assertion # None => doc.assertion.audiences = {applications[c].entity}
<1>1. ASSUME IInv, [Next]_vars, NEW t \in Trips, trip'[t].wire # trip[t].wire, trip'[t].wire # None,
             trip'[t].wire.doc.kind = "response", trip'[t].wire.doc.issuer = OurIdp.entity
      PROVE  \E c \in Enabled(applications) :
                /\ trip'[t].to = applications[c].acs
                /\ trip'[t].wire.doc.assertion # None =>
                     trip'[t].wire.doc.assertion.audiences = {applications[c].entity}
    <2>1. RowsFit /\ TripsFit /\ now \in Nat
        BY <1>1 DEF IInv
    <2>2. Starts(t) \/ Moves(t)
        BY <1>1, OneMoves
    <2>3. ~Starts(t)
        BY <1>1, <2>1, StartsAsk
    <2>4. CASE SsoRefuses(t)
        <3>1. PICK c \in ApplicationFor(t) :
                 Reply(t, Plain(BuildFailureResponse(applications[c].acs, RequestId(t))), applications[c].acs)
            BY <2>4 DEF SsoRefuses
        <3>2. c \in Enabled(applications)
            BY <3>1 DEF ApplicationFor
        <3>3. /\ trip'[t].wire = Plain(BuildFailureResponse(applications[c].acs, RequestId(t)))
              /\ trip'[t].to = applications[c].acs
            BY <2>1, <3>1, RowAfter
        <3>4. trip'[t].wire.doc.assertion = None
            BY <3>3 DEF Plain, BuildFailureResponse
        <3> QED
            BY <3>2, <3>3, <3>4
    <2>5. CASE SsoIssues(t)
        <3>1. PICK c \in ApplicationFor(t) :
                 Reply(t, Plain(SignAssertion(BuildResponse(t, applications[c].entity, applications[c].acs,
                                                            RequestId(t), now), process)),
                       applications[c].acs)
            BY <2>5 DEF SsoIssues, AcsFor
        <3>2. c \in Enabled(applications) /\ AtSso(t)
            BY <2>5, <3>1 DEF ApplicationFor, SsoIssues
        <3>3. PICK k \in OurKeys : process = [key |-> k, cert |-> k]
            BY <2>1, <3>2 DEF AtSso, Up, RowsFit, Pairs
        <3> DEFINE acs == applications[c].acs
                   audience == applications[c].entity
                   id == RequestId(t)
        <3>4. acs \in AcsUrls /\ audience \in {OurSp.entity, "app"} /\ id \in Trips \cup {None}
            BY <2>1, <3>1, <3>2, FoundFor DEF OurAppRow, AppRow, AcsUrls
        <3>5. Reply(t, Plain(SignAssertion(BuildResponse(t, audience, acs, id, now), process)), acs)
            BY <3>1
        <3> HIDE DEF acs, audience, id
        <3>6. SignAssertion(BuildResponse(t, audience, acs, id, now), process) = Login(t, audience, acs, id, now, k)
            <4>1. SignAssertion(BuildResponse(t, audience, acs, id, now), [key |-> k, cert |-> k])
                    = Login(t, audience, acs, id, now, k)
                BY <2>1, <3>4, LoginSigned
            <4> QED
                BY <3>3, <4>1, Zenon
        <3>7. Reply(t, Plain(Login(t, audience, acs, id, now, k)), acs)
            BY <3>5, <3>6
        <3>8. trip'[t].wire = Plain(Login(t, audience, acs, id, now, k)) /\ trip'[t].to = acs
            BY <2>1, <3>7, RowAfter
        <3>9. trip'[t].wire.doc.assertion.audiences = {audience}
            BY <3>8 DEF Plain, Login, BuildAssertion
        <3> QED
            BY <3>2, <3>8, <3>9 DEF acs, audience
    <2> QED
        BY <1>1, <2>1, <2>2, <2>3, <2>4, <2>5, AnswersInOurName
<1>2. IInv /\ [Next]_vars => \A t \in Trips : Right(t)
    BY <1>1, Zenon
<1>3. IInv /\ [Next]_vars => [\A t \in Trips : Right(t)]_vars
    BY <1>2
<1> QED
    BY <1>3, InvAlways, PTL DEF Spec, AnswersGoWhereRegistered

-----------------------------------------------------------------------------
(* Judging what has arrived.                                               *)

(* A conversation ends where an answer is judged, or in one of the ways    *)
(* that believe nothing.                                                   *)
LEMMA Judging ==
    ASSUME IInv, [Next]_vars, NEW t \in Trips, Judged(t)
    PROVE  /\ trip[t].pc = "sent" /\ UNCHANGED <<regVars, now>>
           /\ \/ JudgeAnswer(t) \/ ProviderConfirms(t) \/ ProviderLogsOut(t)
              \/ /\ trip'[t].outcome \in {"unreadable", "unknown", "lost", "delivered"}
                 /\ trip[t].to \notin {OurSp.acs, OurSp.slo}
<1>1. RowsFit /\ TripsFit /\ now \in Nat
    BY DEF IInv
<1>2. (Starts(t) \/ Moves(t)) /\ UNCHANGED <<regVars, now>>
    BY OneMoves DEF Judged
<1>3. ~Starts(t)
    BY <1>1, StartsAsk DEF Judged
<1>4. ASSUME NEW w, NEW to, Reply(t, w, to) PROVE FALSE
    BY <1>1, <1>4, RowAfter DEF Judged
<1>5. ASSUME NEW pc \in {"sent", "logging_in"}, trip' = [trip EXCEPT ![t] = [trip[t] EXCEPT !.pc = pc]]
      PROVE  FALSE
    <2>1. Whole(trip[t]) /\ t \in DOMAIN trip
        BY <1>1 DEF TripsFit, TripFits, Whole
    <2>2. PICK r : r = trip[t]
        OBVIOUS
    <2>3. [r EXCEPT !.pc = pc].pc = pc
        BY <2>1, <2>2 DEF Whole
    <2> QED
        BY <1>5, <2>1, <2>2, <2>3 DEF Judged
<1>6. ~SsoRefuses(t) /\ ~SsoIssues(t) /\ ~PartnerConfirms(t)
    BY <1>4, Zenon DEF SsoRefuses, SsoIssues, PartnerConfirms
<1>7. ASSUME NEW habit \in Habits, PartnerAnswers(t, habit) PROVE FALSE
    BY <1>1, <1>4, <1>7, PartnerDocs
<1>8. SignOut(t) => End(t, "unknown") /\ trip[t].to = OurIdp.slo /\ trip[t].pc = "sent"
    BY <1>4, Zenon DEF SignOut, At
<1>9. SsoAsksToLogIn(t) => End(t, "lost") /\ trip[t].to = OurIdp.sso /\ trip[t].pc = "sent"
    BY <1>5 DEF SsoAsksToLogIn, Returning, AtSso
<1>10. ~LoggedIn(t)
    BY <1>5 DEF LoggedIn
<1>11. SsoUnreadable(t) \/ SsoUnknown(t) =>
         /\ End(t, "unreadable") \/ End(t, "unknown")
         /\ trip[t].to = OurIdp.sso /\ trip[t].pc = "sent"
    BY DEF SsoUnreadable, SsoUnknown, AtSso
<1>12. AppReceives(t) =>
         End(t, "delivered") /\ trip[t].to \in AppAddresses \cup {"app_slo"} /\ trip[t].pc = "sent"
    BY DEF AppReceives
<1>13. JudgeAnswer(t) \/ ProviderConfirms(t) \/ ProviderLogsOut(t) => trip[t].pc = "sent"
    BY DEF JudgeAnswer, ProviderConfirms, ProviderLogsOut, At
<1>14. OurIdp.slo \notin {OurSp.acs, OurSp.slo} /\ OurIdp.sso \notin {OurSp.acs, OurSp.slo}
       /\ \A a \in AppAddresses \cup {"app_slo"} : a \notin {OurSp.acs, OurSp.slo}
    BY DEF OurIdp, OurSp, AppAddresses
<1>15. \A o : End(t, o) => trip'[t].outcome = o
    BY <1>1, RowAfter
<1>16. \/ JudgeAnswer(t) \/ ProviderConfirms(t) \/ ProviderLogsOut(t)
       \/ SignOut(t) \/ SsoAsksToLogIn(t) \/ SsoUnreadable(t) \/ SsoUnknown(t) \/ AppReceives(t)
    BY <1>2, <1>3, <1>6, <1>7, <1>10 DEF Moves
<1> QED
    BY <1>2, <1>8, <1>9, <1>11, <1>12, <1>13, <1>14, <1>15, <1>16

(* What has arrived, by its kind.                                          *)
LEMMA ArrivedIs ==
    ASSUME TripsFit, NEW t \in Trips, trip[t].pc = "sent", trip[t].wire # None, NEW r, r = trip[t]
    PROVE  /\ r.wire.doc.kind = "response" => Answered(r, t, now) \/ PartnerAnswered(r, t)
           /\ r.wire.doc.kind = "loggedout" => LoggedOut(r, t)
           /\ r.wire.doc.kind = "logout" => LoggingOut(r, t)
<1>1. UnderWay(r, t, now)
    BY Begun
<1>2. ~Opening(r)
    BY DEF Opening
<1>3. Asking(r, t) => r.wire.doc.kind = "authn"
    BY DEF Asking, Unread, AuthnDocs
<1>4. Answered(r, t, now) => r.wire.doc.kind = "response"
    BY AnswersAreOurs DEF Answered
<1>5. PartnerAnswered(r, t) => r.wire.doc.kind = "response"
    BY DEF PartnerAnswered
<1>6. LoggingOut(r, t) => r.wire.doc.kind = "logout"
    BY DEF LoggingOut, Unread, LogoutDocs
<1>7. LoggedOut(r, t) => r.wire.doc.kind = "loggedout"
    BY DEF LoggedOut, Unread, LoggedOutDocs
<1> QED
    BY <1>1, <1>2, <1>3, <1>4, <1>5, <1>6, <1>7 DEF UnderWay

(* All of the checks pass when each of them does.                          *)
LEMMA EachCheck ==
    ASSUME NEW f, NEW e, NEW n, NEW seen
    PROVE  AllPassed(f, e, n, seen) <=>
             /\ CheckStatus(f) /\ CheckSignature(f) /\ CheckAssertionSigned(f, e)
             /\ CheckIssuer(f, e) /\ CheckAudience(f, e) /\ CheckDestination(f, e)
             /\ CheckTiming(f, e, n) /\ CheckSubjectConfirmation(f, e, n)
             /\ CheckInResponseTo(f, e) /\ CheckNotReplayed(f, seen)
<1>1. /\ "status" \in FailedChecks(f, e, n, seen) <=> ~CheckStatus(f)
      /\ "signature" \in FailedChecks(f, e, n, seen) <=> ~CheckSignature(f)
      /\ "assertion_signed" \in FailedChecks(f, e, n, seen) <=> ~CheckAssertionSigned(f, e)
      /\ "issuer" \in FailedChecks(f, e, n, seen) <=> ~CheckIssuer(f, e)
      /\ "audience" \in FailedChecks(f, e, n, seen) <=> ~CheckAudience(f, e)
      /\ "destination" \in FailedChecks(f, e, n, seen) <=> ~CheckDestination(f, e)
      /\ "timing" \in FailedChecks(f, e, n, seen) <=> ~CheckTiming(f, e, n)
      /\ "subject_confirmation" \in FailedChecks(f, e, n, seen) <=> ~CheckSubjectConfirmation(f, e, n)
      /\ "in_response_to" \in FailedChecks(f, e, n, seen) <=> ~CheckInResponseTo(f, e)
      /\ "not_replayed" \in FailedChecks(f, e, n, seen) <=> ~CheckNotReplayed(f, seen)
    BY DEF FailedChecks, Checks
<1>2. FailedChecks(f, e, n, seen) \subseteq Checks
    BY DEF FailedChecks
<1> QED
    BY <1>1, <1>2 DEF AllPassed, Checks

(* Whose certificate is registered decides whose row it is.                *)
LEMMA RowOfKey ==
    ASSUME RowsFit, NEW s \in Providers, providers[s] # Absent, NEW k, providers[s].cert = k
    PROVE  /\ k \in OurKeys => providers[s].entity = OurIdp.entity
           /\ k \in PartnerKeys => providers[s].entity \in {"partner"} \cup (IF "bundle" \in may THEN {"app"} ELSE {})
<1>1. providers[s] \in OurRow \/ providers[s] \in PartnerRow(may)
    BY DEF RowsFit
<1>2. providers[s] \in OurRow => providers[s].cert \in OurKeys /\ providers[s].entity = OurIdp.entity
    BY DEF OurRow
<1>3. providers[s] \in PartnerRow(may) =>
         /\ providers[s].cert \in PartnerKeys
         /\ providers[s].entity \in {"partner"} \cup (IF "bundle" \in may THEN {"app"} ELSE {})
    BY DEF PartnerRow
<1> QED
    BY <1>1, <1>2, <1>3, KeysAssumption

(* What a signed login of ours shows, and that a no shows nothing.         *)
LEMMA LoginShows ==
    ASSUME NEW t, NEW audience, NEW to, NEW quote, NEW then, NEW k \in OurKeys
    PROVE  /\ Shown(Login(t, audience, to, quote, then, k)) \subseteq {k}
           /\ Shown(Login(t, audience, to, quote, then, k)) # {} => [by |-> k, shows |-> k] # None
           /\ Shown(BuildFailureResponse(to, quote)) = {}
<1> DEFINE doc == Login(t, audience, to, quote, then, k)
           no == BuildFailureResponse(to, quote)
<1>1. doc.signed = [root |-> None, assertion |-> [by |-> k, shows |-> k]]
    BY DEF Login
<1>2. DOMAIN doc.signed = {"root", "assertion"} /\ doc.signed["root"] = None
      /\ doc.signed["assertion"] = [by |-> k, shows |-> k]
    BY <1>1
<1>3. no.signed = [root |-> None, assertion |-> None]
    BY DEF BuildFailureResponse, Unsigned
<1>4. no.signed["root"] = None /\ no.signed["assertion"] = None
    BY <1>3
<1> HIDE DEF doc, no
<1>5. Shown(doc) \subseteq {k} /\ (Shown(doc) # {} => [by |-> k, shows |-> k] # None)
    BY <1>2 DEF Shown
<1>6. Shown(no) = {}
    BY <1>4 DEF Shown
<1> QED
    BY <1>5, <1>6 DEF doc, no

(* Our own login, read back by our own reader.                             *)
LEMMA OwnLoginPasses ==
    ASSUME NEW t, NEW k, NEW then \in Nat, NEW n \in Nat, then <= n, NEW signedOnly,
           n < then + AssertionLifetime,
           NEW row, row.entity = OurIdp.entity, row.cert = k, row.signedOnly = signedOnly,
           NEW doc, doc = Login(t, OurSp.entity, OurSp.acs, t, then, k),
           [by |-> k, shows |-> k] # None
    PROVE  AllPassed(ReadResponse(doc, k), Expected(row, t), n, {})
<1> DEFINE f == ReadResponse(doc, k)
           e == Expected(row, t)
           sig == [by |-> k, shows |-> k]
<1>1. /\ doc.assertion = BuildAssertion(t, OurSp.entity, OurSp.acs, t, then)
      /\ doc.status = "success" /\ doc.destination = OurSp.acs /\ doc.answers = t
      /\ doc.signed.assertion = sig /\ doc.signed["assertion"] = sig
    BY DEF Login
<1>2. f = [id |-> t, status |-> "success", issuer |-> OurIdp.entity, audiences |-> {OurSp.entity},
           destination |-> OurSp.acs, notBefore |-> then - ClockSkew,
           notOnOrAfter |-> then + AssertionLifetime, subjectUntil |-> then + AssertionLifetime,
           recipient |-> OurSp.acs, answers |-> t, subjectAnswers |-> t, signed |-> TRUE, verified |-> TRUE]
    <2>1. Verify(sig, k) = TRUE
        BY DEF Verify
    <2>2. /\ doc.assertion.id = t /\ doc.assertion.issuer = OurIdp.entity
          /\ doc.assertion.audiences = {OurSp.entity} /\ doc.assertion.notBefore = then - ClockSkew
          /\ doc.assertion.notOnOrAfter = then + AssertionLifetime
          /\ doc.assertion.subjectUntil = then + AssertionLifetime
          /\ doc.assertion.recipient = OurSp.acs /\ doc.assertion.answers = t
        BY <1>1 DEF BuildAssertion
    <2> HIDE DEF sig
    <2>3. (IF doc.signed.assertion # None THEN "assertion" ELSE "root") = "assertion"
        BY <1>1 DEF sig
    <2> QED
        BY <1>1, <2>1, <2>2, <2>3 DEF ReadResponse
<1>3. e = [us |-> OurSp.entity, acs |-> OurSp.acs, idp |-> OurIdp.entity, request |-> t,
           skew |-> ReaderSkew, requireSigned |-> signedOnly]
    BY DEF Expected
<1> HIDE DEF f, e
<1>4. CheckStatus(f) /\ CheckSignature(f) /\ CheckAssertionSigned(f, e)
    BY <1>2 DEF CheckStatus, CheckSignature, CheckAssertionSigned
<1>5. CheckIssuer(f, e) /\ CheckAudience(f, e) /\ CheckDestination(f, e)
    BY <1>2, <1>3 DEF CheckIssuer, CheckAudience, CheckDestination
<1>6. ClockSkew \in Nat /\ ReaderSkew \in Nat /\ AssertionLifetime \in Nat
    BY FederationAssumption
<1>7. ~Over(then + AssertionLifetime, n, ReaderSkew)
    BY <1>6 DEF Over
<1>8. CheckTiming(f, e, n) /\ CheckSubjectConfirmation(f, e, n)
    BY <1>2, <1>3, <1>6, <1>7 DEF CheckTiming, CheckSubjectConfirmation
<1>9. CheckInResponseTo(f, e) /\ CheckNotReplayed(f, {})
    BY <1>2, <1>3 DEF CheckInResponseTo, Quoted, CheckNotReplayed
<1> QED
    BY <1>4, <1>5, <1>8, <1>9, EachCheck DEF f, e

(* A login our provider issued for a request of our own, and its           *)
(* confirmation of a logout, are believed by our own reader, as long as    *)
(* the certificate shown is the one registered and the login is not late   *)
(* (_issue against run_all_checks, _sign_out against                       *)
(* read_logout_response).                                                  *)
THEOREM OwnPapersAreBelievedAlways == Spec => OwnPapersAreBelieved
<1> DEFINE Believed(t) ==
      LET r == trip[t] IN
      (/\ Judged(t) /\ r.to \in {OurSp.acs, OurSp.slo} /\ r.idp # None
       /\ r.wire.doc.issuer = OurIdp.entity /\ Shown(r.wire.doc) = {providers[r.idp].cert}
       /\ providers[r.idp].enabled
       /\ r.to = OurSp.acs => now < r.wire.doc.assertion.notOnOrAfter)
        => trip'[t].outcome \in {"accepted", "confirmed"}
<1>1. ASSUME IInv, [Next]_vars, NEW t \in Trips, NEW r, r = trip[t],
             Judged(t), r.to \in {OurSp.acs, OurSp.slo}, r.idp # None,
             r.wire.doc.issuer = OurIdp.entity, Shown(r.wire.doc) = {providers[r.idp].cert},
             providers[r.idp].enabled, r.to = OurSp.acs => now < r.wire.doc.assertion.notOnOrAfter
      PROVE  trip'[t].outcome \in {"accepted", "confirmed"}
    <2>1. /\ r.pc = "sent"
          /\ JudgeAnswer(t) \/ ProviderConfirms(t) \/ ProviderLogsOut(t)
        BY <1>1, Judging
    <2>2. RowsFit /\ TripsFit /\ now \in Nat
        BY <1>1 DEF IInv
    <2>3. TripFits(r, t, now, providers, may)
        BY <1>1, <2>2 DEF TripsFit
    <2>4. /\ r.idp \in Providers /\ providers[r.idp] # Absent
          /\ r.relay = t /\ r.quote = t /\ r.relay # None
        BY <1>1, <2>1, <2>3, NoneAssumption DEF TripFits
    <2> DEFINE row == providers[r.idp]
    <2>5. row.cert \in OurKeys => row.entity = OurIdp.entity
        BY <2>2, <2>4, RowOfKey
    <2>6. CASE JudgeAnswer(t)
        <3>1. /\ r.to = OurSp.acs /\ r.wire # None /\ r.wire.doc.kind = "response"
              /\ End(t, IF r.idp # None /\ Acceptable(t) THEN "accepted" ELSE "refused")
            BY <1>1, <2>6 DEF JudgeAnswer, At
        <3>2. Answered(r, t, now) \/ PartnerAnswered(r, t)
            BY <1>1, <2>1, <2>2, <3>1, ArrivedIs
        <3>3. OurAnswer(r.wire.doc, OurSp.acs, t, t, now)
            BY <1>1, <2>4, <3>1, <3>2 DEF Answered, PartnerAnswered, OurIdp
        <3>4. PICK doc : doc = r.wire.doc
            OBVIOUS
        <3>5. doc # BuildFailureResponse(OurSp.acs, t)
            <4>1. ASSUME NEW k \in OurKeys PROVE Shown(BuildFailureResponse(OurSp.acs, t)) = {}
                BY LoginShows
            <4>2. doc = BuildFailureResponse(OurSp.acs, t) => OurKeys = {}
                BY <1>1, <3>4, <4>1
            <4>3. OurKeys # {}
                BY <2>6, <2>2 DEF JudgeAnswer, At, Up, RowsFit, Pairs
            <4> QED
                BY <4>2, <4>3
        <3>6. PICK then \in 0..now, k \in OurKeys, audience \in {OurSp.entity, "app"} :
                  /\ doc = Login(t, audience, OurSp.acs, t, then, k)
                  /\ OurSp.acs = OurSp.acs => audience = OurSp.entity
            BY <3>3, <3>4, <3>5 DEF OurAnswer
        <3>7. doc = Login(t, OurSp.entity, OurSp.acs, t, then, k)
            BY <3>6
        <3>8. row.cert = k /\ [by |-> k, shows |-> k] # None
            BY <1>1, <3>4, <3>7, LoginShows
        <3>9. row.entity = OurIdp.entity
            BY <2>5, <3>8
        <3>10. doc.assertion = BuildAssertion(t, OurSp.entity, OurSp.acs, t, then)
            BY <3>7 DEF Login
        <3>11. doc.assertion # None
            <4>1. BuildAssertion(t, OurSp.entity, OurSp.acs, t, then) \in Assertions
                BY FederationAssumption DEF Assertions, BuildAssertion
            <4> QED
                BY <3>10, <4>1, NoneAssumption
        <3>12. now < then + AssertionLifetime
            BY <1>1, <3>1, <3>4, <3>10 DEF BuildAssertion
        <3>13. AllPassed(ReadResponse(doc, k), Expected(row, t), now, {})
            <4>1. then \in Nat /\ then <= now
                BY <2>2, <3>6
            <4> QED
                BY <2>2, <3>7, <3>8, <3>9, <3>12, <4>1, OwnLoginPasses
        <3>14. r.idp \in Enabled(providers)
            BY <1>1, <2>2, <2>4, <3>9, NoneAssumption DEF Enabled, Registered, RowsFit, Words
        <3>15. Acceptable(t)
            BY <1>1, <2>4, <3>4, <3>8, <3>11, <3>13, <3>14 DEF Acceptable
        <3>16. End(t, "accepted")
            BY <1>1, <3>1, <3>15
        <3> QED
            BY <2>2, <3>16, RowAfter
    <2>7. CASE ProviderConfirms(t)
        <3>1. /\ r.to = OurSp.slo /\ r.wire # None /\ r.wire.doc.kind = "loggedout"
              /\ End(t, IF ReadLogoutResponse(r.wire, row.cert).verified THEN "confirmed" ELSE "not_confirmed")
            BY <1>1, <2>7 DEF ProviderConfirms, At
        <3>2. LoggedOut(r, t)
            BY <1>1, <2>1, <2>2, <3>1, ArrivedIs
        <3>3. PICK doc : doc = r.wire.doc
            OBVIOUS
        <3>4. doc \in LoggedOutDocs(OurIdp.entity, OurKeys, {t})
            BY <1>1, <3>2, <3>3 DEF LoggedOut, Unread, LoggedOutDocs, OurIdp
        <3>5. PICK k \in OurKeys : doc.signed = [root |-> [by |-> k, shows |-> k], assertion |-> None]
            BY <3>4 DEF LoggedOutDocs, Sigs
        <3>6. /\ DOMAIN doc.signed = {"root", "assertion"} /\ doc.signed["assertion"] = None
              /\ doc.signed["root"] = [by |-> k, shows |-> k] /\ doc.signed.root = [by |-> k, shows |-> k]
            BY <3>5
        <3>7. Shown(doc) \subseteq {k} /\ (Shown(doc) # {} => [by |-> k, shows |-> k] # None)
            BY <3>6 DEF Shown
        <3>8. row.cert = k /\ [by |-> k, shows |-> k] # None
            BY <1>1, <3>3, <3>7
        <3>9. Verify(doc.signed.root, row.cert)
            BY <3>6, <3>8 DEF Verify
        <3>10. ReadLogoutResponse(r.wire, row.cert).verified
            BY <3>1, <3>3, <3>9 DEF ReadLogoutResponse, Decode
        <3>11. End(t, "confirmed")
            BY <3>1, <3>10
        <3> QED
            BY <2>2, <3>11, RowAfter
    <2>8. CASE ProviderLogsOut(t)
        <3>1. r.to = OurSp.slo /\ r.wire # None /\ r.wire.doc.kind = "logout"
            BY <1>1, <2>8 DEF ProviderLogsOut, At
        <3>2. LoggingOut(r, t)
            BY <1>1, <2>1, <2>2, <3>1, ArrivedIs
        <3>3. r.wire.doc.issuer = "partner"
            BY <3>1, <3>2 DEF LoggingOut
        <3> QED
            BY <1>1, <3>3 DEF OurIdp
    <2> QED
        BY <2>1, <2>6, <2>7, <2>8
<1>2. IInv /\ [Next]_vars => \A t \in Trips : Believed(t)
    <2>1. ASSUME IInv, [Next]_vars, NEW t \in Trips PROVE Believed(t)
        BY <1>1, <2>1
    <2> QED
        BY <2>1
<1>3. IInv /\ [Next]_vars => [\A t \in Trips : Believed(t)]_vars
    BY <1>2
<1> QED
    BY <1>3, InvAlways, PTL DEF Spec, OwnPapersAreBelieved

(* What is in a confirmation or a request to be signed out that is read:   *)
(* a signature at the root, by one of the keys of the party it names.      *)
LEMMA ConfirmationRead ==
    ASSUME NEW doc, NEW issuer, NEW keys, NEW t, doc \in LoggedOutDocs(issuer, keys, {t})
    PROVE  /\ doc.issuer = issuer /\ doc.signed["root"] = doc.signed.root
           /\ doc.signed.root.by \in keys /\ DOMAIN doc.signed = {"root", "assertion"}
<1>1. doc.issuer = issuer /\ doc.signed \in [root : Sigs(keys), assertion : {None}]
    BY DEF LoggedOutDocs
<1>2. doc.signed.root \in Sigs(keys) /\ DOMAIN doc.signed = {"root", "assertion"}
    BY <1>1
<1>3. doc.signed.root.by \in keys
    BY <1>2 DEF Sigs
<1> QED
    BY <1>1, <1>2, <1>3

LEMMA LogoutRead ==
    ASSUME NEW doc, NEW t, doc \in LogoutDocs(t), doc.signed.root # None
    PROVE  /\ doc.signed["root"] = doc.signed.root
           /\ doc.signed.root.by \in PartnerKeys /\ DOMAIN doc.signed = {"root", "assertion"}
<1>1. doc.signed \in [root : {None} \cup Sigs(PartnerKeys), assertion : {None}]
    BY DEF LogoutDocs
<1>2. doc.signed.root \in Sigs(PartnerKeys) /\ DOMAIN doc.signed = {"root", "assertion"}
    BY <1>1
<1>3. doc.signed.root.by \in PartnerKeys
    BY <1>2 DEF Sigs
<1> QED
    BY <1>2, <1>3

(* Whoever is signed in or out by an answer: the key registered for their  *)
(* provider made a signature over what was read, and the provider says it  *)
(* is the one registered under that name (read_response, run_all_checks,   *)
(* _identify_logout_sender).  A bundle registers the key of the provider   *)
(* elsewhere under the name of the party that comes first, and a logout is *)
(* told apart by the key alone: the two together are left out.             *)
THEOREM BelievedIsVouchedForAlways ==
    ASSUME \A m \in Circumstances : ~({"bundle", "logout"} \subseteq m)
    PROVE  Spec => BelievedIsVouchedFor
<1> DEFINE Backed(t, doc, row) ==
      /\ \E e \in (IF trip'[t].outcome = "accepted" /\ row.signedOnly THEN {"assertion"}
                   ELSE {"assertion", "root"} \cap DOMAIN doc.signed) :
           doc.signed[e] # None /\ doc.signed[e].by = row.cert
      /\ doc.issuer = row.entity
           Vouched(t) ==
      Judged(t) /\ trip'[t].outcome \in {"accepted", "confirmed", "signed_out"}
        => Backed(t, trip[t].wire.doc, providers[trip'[t].idp])
<1>1. ASSUME IInv, [Next]_vars, NEW t \in Trips, Judged(t),
             trip'[t].outcome \in {"accepted", "confirmed", "signed_out"},
             NEW doc, doc = trip[t].wire.doc, NEW row, row = providers[trip'[t].idp]
      PROVE  Backed(t, doc, row)
    <2>0. PICK r : r = trip[t]
        OBVIOUS
    <2>1. /\ r.pc = "sent"
          /\ JudgeAnswer(t) \/ ProviderConfirms(t) \/ ProviderLogsOut(t)
        BY <1>1, <2>0, Judging
    <2>2. RowsFit /\ TripsFit /\ now \in Nat /\ may \in Circumstances
        BY <1>1 DEF IInv
    <2>3. TripFits(r, t, now, providers, may)
        BY <2>0, <2>2 DEF TripsFit
    <2>4. CASE JudgeAnswer(t)
        <3>1. /\ r.to = OurSp.acs /\ r.wire # None /\ r.wire.doc.kind = "response"
              /\ End(t, IF r.idp # None /\ Acceptable(t) THEN "accepted" ELSE "refused")
            BY <2>0, <2>4 DEF JudgeAnswer, At
        <3>2. r.idp # None /\ Acceptable(t) /\ trip'[t].idp = r.idp /\ trip'[t].outcome = "accepted"
            BY <1>1, <2>0, <2>2, <3>1, RowAfter
        <3>3. /\ row = providers[r.idp] /\ doc.assertion # None
              /\ AllPassed(ReadResponse(doc, row.cert), Expected(row, t), now, {})
            BY <1>1, <2>0, <3>2 DEF Acceptable
        <3> DEFINE over == IF doc.signed.assertion # None THEN "assertion" ELSE "root"
        <3>4. /\ CheckSignature(ReadResponse(doc, row.cert)) /\ CheckIssuer(ReadResponse(doc, row.cert), Expected(row, t))
              /\ CheckAssertionSigned(ReadResponse(doc, row.cert), Expected(row, t))
            BY <3>3, EachCheck
        <3>5. /\ Verify(doc.signed[over], row.cert) /\ doc.assertion.issuer = row.entity
              /\ row.signedOnly => over = "assertion"
            BY <3>4 DEF CheckSignature, CheckIssuer, CheckAssertionSigned, ReadResponse, Expected
        <3>6. Answered(r, t, now) \/ PartnerAnswered(r, t)
            BY <2>0, <2>1, <2>2, <3>1, ArrivedIs
        <3>7. doc.issuer = doc.assertion.issuer /\ DOMAIN doc.signed = {"root", "assertion"}
            <4>1. CASE PartnerAnswered(r, t)
                BY <1>1, <2>0, <3>3, <4>1 DEF PartnerAnswered
            <4>2. ASSUME NEW then, NEW k, NEW audience, doc = Login(t, audience, r.to, r.quote, then, k)
                  PROVE  doc.issuer = doc.assertion.issuer /\ DOMAIN doc.signed = {"root", "assertion"}
                BY <4>2 DEF Login, BuildAssertion
            <4>3. CASE Answered(r, t, now)
                <5>1. OurAnswer(doc, r.to, r.quote, t, now)
                    BY <1>1, <2>0, <4>3 DEF Answered
                <5>2. doc # BuildFailureResponse(r.to, r.quote)
                    BY <3>3 DEF BuildFailureResponse
                <5> QED
                    BY <4>2, <5>1, <5>2 DEF OurAnswer
            <4> QED
                BY <3>6, <4>1, <4>3
        <3> HIDE DEF over
        <3>8. doc.signed[over] # None /\ doc.signed[over].by = row.cert
            BY <3>5 DEF Verify
        <3>9. over \in (IF row.signedOnly THEN {"assertion"} ELSE {"assertion", "root"} \cap DOMAIN doc.signed)
            BY <3>5, <3>7 DEF over
        <3> QED
            BY <3>2, <3>5, <3>7, <3>8, <3>9
    <2>5. ASSUME trip'[t].outcome # "accepted", doc.signed["root"] # None, doc.signed["root"].by = row.cert,
                 DOMAIN doc.signed = {"root", "assertion"}, doc.issuer = row.entity
          PROVE  Backed(t, doc, row)
        BY <2>5
    <2>6. CASE ProviderConfirms(t)
        <3>1. /\ r.to = OurSp.slo /\ r.wire # None /\ r.wire.doc.kind = "loggedout"
              /\ End(t, IF ReadLogoutResponse(r.wire, providers[r.idp].cert).verified
                        THEN "confirmed" ELSE "not_confirmed")
            BY <2>0, <2>6 DEF ProviderConfirms, At
        <3>2. /\ ReadLogoutResponse(r.wire, providers[r.idp].cert).verified /\ trip'[t].idp = r.idp
              /\ trip'[t].outcome = "confirmed"
            BY <1>1, <2>0, <2>2, <3>1, RowAfter
        <3>3. LoggedOut(r, t) /\ r.idp # None
            BY <2>0, <2>1, <2>2, <3>1, ArrivedIs DEF LoggedOut
        <3>4. row = providers[r.idp] /\ r.idp \in Providers /\ row # Absent
            BY <1>1, <2>3, <3>2, <3>3 DEF TripFits
        <3>5. "bundle" \notin may
            BY <2>2, <2>3, <3>1 DEF TripFits
        <3>6. Verify(doc.signed.root, row.cert)
            BY <1>1, <2>0, <3>1, <3>2, <3>4 DEF ReadLogoutResponse, Decode
        <3>7. \/ doc \in LoggedOutDocs(OurIdp.entity, OurKeys, {t})
              \/ doc \in LoggedOutDocs("partner", PartnerKeys, {t})
            BY <1>1, <2>0, <3>3 DEF LoggedOut, Unread
        <3>8. \/ doc.issuer = OurIdp.entity /\ doc.signed.root.by \in OurKeys
              \/ doc.issuer = "partner" /\ doc.signed.root.by \in PartnerKeys
            BY <3>7, ConfirmationRead
        <3>9. doc.signed["root"] = doc.signed.root /\ DOMAIN doc.signed = {"root", "assertion"}
            BY <3>7, ConfirmationRead
        <3>10. doc.signed.root # None /\ row.cert = doc.signed.root.by
            BY <3>6 DEF Verify
        <3>11. doc.issuer = row.entity
            BY <2>2, <3>4, <3>5, <3>8, <3>10, RowOfKey
        <3> QED
            BY <2>5, <3>2, <3>9, <3>10, <3>11
    <2>7. CASE ProviderLogsOut(t)
        <3>1. r.to = OurSp.slo /\ r.wire # None /\ r.wire.doc.kind = "logout"
            BY <2>0, <2>7 DEF ProviderLogsOut, At
        <3>2. ~End(t, "refused")
            BY <1>1, <2>2, RowAfter
        <3>3. PICK s \in Senders(t) :
                 trip' = [trip EXCEPT ![t].pc = "ended", ![t].outcome = "signed_out", ![t].idp = s]
            BY <2>7, <3>2, Zenon DEF ProviderLogsOut
        <3>4. trip'[t].idp = s /\ trip'[t].outcome = "signed_out"
            BY <2>2, <3>3 DEF TripsFit, TripFits
        <3>5. /\ s \in Providers /\ providers[s] # Absent
              /\ ReadLogoutRequest(r.wire, providers[s].cert).verified
            BY <2>0, <2>2, OfferedRow DEF Senders
        <3>6. LoggingOut(r, t)
            BY <2>0, <2>1, <2>2, <3>1, ArrivedIs
        <3>7. /\ doc.issuer = "partner" /\ doc \in LogoutDocs(t) /\ row = providers[s]
              /\ Verify(doc.signed.root, row.cert)
            BY <1>1, <2>0, <3>1, <3>4, <3>5, <3>6 DEF LoggingOut, Unread, ReadLogoutRequest, Decode
        <3>8. "bundle" \notin may
            BY <2>2, <2>3, <3>1 DEF TripFits
        <3>9. doc.signed.root # None /\ row.cert = doc.signed.root.by
            BY <3>7 DEF Verify
        <3>10. /\ doc.signed["root"] = doc.signed.root /\ row.cert \in PartnerKeys
               /\ DOMAIN doc.signed = {"root", "assertion"}
            BY <3>7, <3>9, LogoutRead
        <3>11. doc.issuer = row.entity
            BY <2>2, <3>5, <3>7, <3>8, <3>10, RowOfKey
        <3> QED
            BY <2>5, <3>4, <3>9, <3>10, <3>11
    <2> QED
        BY <2>1, <2>4, <2>6, <2>7
<1>2. IInv /\ [Next]_vars => \A t \in Trips : Vouched(t)
    <2>1. ASSUME IInv, [Next]_vars, NEW t \in Trips PROVE Vouched(t)
        <3> HIDE DEF Backed
        <3> QED
            BY <1>1, <2>1, Zenon
    <2> QED
        BY <2>1
<1>3. IInv /\ [Next]_vars => [\A t \in Trips : Vouched(t)]_vars
    BY <1>2
<1> QED
    BY <1>3, InvAlways, PTL DEF Spec, BelievedIsVouchedFor
=============================================================================
