---------------------------- MODULE MCRoleGrants ----------------------------
(* Instances of RoleGrants for TLC.  People, rows and request slots are    *)
(* interchangeable, so the models are checked up to their permutation.     *)
EXTENDS RoleGrants, TLC

Symmetry == Permutations(Users) \cup Permutations(GrantIds) \cup Permutations(Requests)
=============================================================================
