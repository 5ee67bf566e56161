------------------------- MODULE MCProvisioningSync -------------------------
(* Instances of ProvisioningSync for TLC.  People are interchangeable.     *)
EXTENDS ProvisioningSync, TLC

Symmetry == Permutations(People)
=============================================================================
