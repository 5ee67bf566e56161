-------------------------------- MODULE MCSignOn --------------------------------
(* Single sign-on with two people and a clock of a few ticks.              *)
EXTENDS SignOn, TLC

(* Nothing tells the members of these sets apart.                          *)
MCSymmetry ==
    UNION {Permutations(S) : S \in {Users, Sessions, Slots, Relays, Assertions, Logins}}

MCCircumstances ==
    {{"time", "logout"}, {"race", "logout"}, {"slow"}, {"apps", "leave"}, {"apps", "race"}, {"console"}}
=============================================================================
