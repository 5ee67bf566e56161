------------------------------- MODULE MCFederation -------------------------------
(* Two slugs each for providers and applications, one conversation.        *)
EXTENDS Federation, TLC

MCSymmetry == UNION {Permutations(S) : S \in {Providers, Clients, OurKeys, PartnerKeys}}

MCCircumstances ==
    {{"bundle", "partner"}, {"self", "keys"}, {"self", "logout"}, {"partner", "self"}, {"partner", "logout"}, {"apps"}, {"apps", "logout"}}
=============================================================================
