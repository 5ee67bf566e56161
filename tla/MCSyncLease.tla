---------------------------- MODULE MCSyncLease ----------------------------
(* Instances of SyncLease for TLC.  Safety runs are checked up to          *)
(* permutations of the processes and of the targets.                       *)
EXTENDS SyncLease, TLC

Symmetry == Permutations(Workers) \cup Permutations(Manuals) \cup Permutations(Targets)
=============================================================================
