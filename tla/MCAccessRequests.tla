-------------------------- MODULE MCAccessRequests --------------------------
(* Instances of AccessRequests for TLC.                                    *)
EXTENDS AccessRequests, TLC

Interchangeable == Permutations(Slots) \cup Permutations(Asks)
=============================================================================
