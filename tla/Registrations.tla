------------------------------ MODULE Registrations ------------------------------
(***************************************************************************)
(* Who is trusted here: the key this process signs with (saml/keys.py),    *)
(* the providers (routers/identity_providers.py) and the applications      *)
(* (routers/applications.py), registered from the metadata they publish.   *)
(***************************************************************************)
EXTENDS SamlMessages

CONSTANTS
    Providers,      \* slugs of identity providers
    Clients,        \* slugs of applications
    OurKeys,        \* keys made for this deployment
    PartnerKeys,    \* keys of the provider elsewhere
    Production      \* settings.is_production

ASSUME KeysAssumption == OurKeys \cap PartnerKeys = {}

VARIABLES
    config,         \* SAML_IDP_PRIVATE_KEY and SAML_IDP_CERTIFICATE
    process,        \* the keypair of the running process, None while it is down
    made,           \* the keys in use or used before
    partner,        \* the key the provider elsewhere signs with
    providers,      \* identity_providers
    applications,   \* applications
    may             \* the events outside that happen in this behaviour

regVars == <<config, process, made, partner, providers, applications, may>>

\* A path to a file where the PEM should be.
NotPem == "not_pem"

-----------------------------------------------------------------------------
(* _check_they_belong_together                                             *)
\* Mutant: the two are not compared.
MutBelongTogether(key, cert) == key \in OurKeys /\ cert \in OurKeys

BelongTogether(key, cert) == key \in OurKeys /\ cert = key

(* load: nothing configured is refused in production and made up           *)
(* elsewhere; one of the two, or two that do not match, is refused.        *)
Load(c, fresh) ==
    IF c.key = None /\ c.cert = None
    THEN IF Production THEN None ELSE [key |-> fresh, cert |-> fresh]
    ELSE IF BelongTogether(c.key, c.cert) THEN [key |-> c.key, cert |-> c.cert] ELSE None

Up == process # None

(* create_app: for_settings is asked once, at boot.  A process that cannot *)
(* sign does not start.                                                    *)
Boot(fresh) ==
    /\ ~Up
    /\ (config.key = None /\ config.cert = None) => fresh \notin made
    /\ process' = Load(config, fresh)
    /\ made' = made \cup (IF process' = None THEN {} ELSE {process'.key})
    /\ UNCHANGED <<may, config, partner, providers, applications>>

(* The process stops; a key made up in memory goes with it.                *)
Stop ==
    /\ "keys" \in may
    /\ Up
    /\ process' = None
    /\ UNCHANGED <<may, config, made, partner, providers, applications>>

(* Somebody edits the environment, one variable at a time or both.         *)
Configure(key, cert) ==
    /\ "keys" \in may
    /\ config' = [key |-> key, cert |-> cert]
    /\ config' # config
    /\ made' = made \cup ({key, cert} \cap OurKeys)
    /\ UNCHANGED <<may, process, partner, providers, applications>>

(* The provider elsewhere rotates its key.                                 *)
PartnerRotates(key) ==
    /\ "partner" \in may
    /\ key # partner
    /\ partner' = key
    /\ UNCHANGED <<may, config, process, made, providers, applications>>

-----------------------------------------------------------------------------
(* The document of the provider elsewhere: it also lists the certificate   *)
(* others encrypt to, and takes requests by POST.                          *)
PartnerIdp ==
    [keys |-> <<KeyDescriptor("encryption", "for_encrypting"), KeyDescriptor(None, partner)>>,
     services |-> <<Service("sso", "other", "artifact"), Service("sso", "post", "partner_sso"),
                    Service("slo", "redirect", "partner_slo")>>]
PartnerParty == Party("partner", PartnerIdp, None)
PartnerMetadata == [wellFormed |-> TRUE, parties |-> <<PartnerParty>>]

(* An application elsewhere, at one address or, once it has moved, another.*)
AppSp(acs) ==
    [keys |-> <<>>, services |-> <<Service("acs", "redirect", "app_home"), Service("acs", "post", acs),
                                   Service("slo", "redirect", "app_slo")>>]
AppParty(acs) == Party("app", None, AppSp(acs))
AppMetadata(acs) == [wellFormed |-> TRUE, parties |-> <<AppParty(acs)>>]
AppAddresses == {"app_acs", "moved_acs"}

(* A federation's file: a member that is only an application comes first.  *)
Bundle == [wellFormed |-> TRUE, parties |-> <<AppParty("app_acs"), PartnerParty>>]

Documents ==
    (IF "self" \in may THEN {SpMetadataXml(process.cert), IdpMetadataXml(process.cert)} ELSE {})
      \cup (IF "partner" \in may THEN {PartnerMetadata} ELSE {})
      \cup (IF "apps" \in may THEN {AppMetadata(a) : a \in AppAddresses} ELSE {})
      \cup (IF "bundle" \in may THEN {Bundle} ELSE {})

Absent == [entity |-> None]

(* register_identity_provider: a slug registered again is replaced; an     *)
(* entity id another slug holds, or a document that is not usable, is      *)
(* refused and changes nothing.                                            *)
Registrable(rows, slug, metadata) ==
    metadata # None /\ \A s \in DOMAIN rows \ {slug} : rows[s].entity # metadata.entity

RegisterProvider(s, doc, enabled, signedOnly) ==
    LET md == ReadIdpMetadata(doc) IN
    /\ Up
    /\ Registrable(providers, s, md)
    /\ providers' = [providers EXCEPT ![s] =
                       [entity |-> md.entity, sso |-> md.sso, slo |-> md.slo, cert |-> md.cert,
                        enabled |-> enabled, signedOnly |-> signedOnly]]
    /\ UNCHANGED <<may, config, process, made, partner, applications>>

(* register_application, by the same rules.                                *)
RegisterApplication(c, doc, enabled) ==
    LET md == ReadSpMetadata(doc) IN
    /\ Up
    /\ Registrable(applications, c, md)
    /\ applications' = [applications EXCEPT ![c] =
                          [entity |-> md.entity, acs |-> md.acs, slo |-> md.slo, enabled |-> enabled]]
    /\ UNCHANGED <<may, config, process, made, partner, providers>>

Registered(rows) == {s \in DOMAIN rows : rows[s].entity # None}
Enabled(rows) == {s \in Registered(rows) : rows[s].enabled}
=============================================================================
