------------------------------ MODULE TargetLock ------------------------------
(* What worker.py promises of the lease: a lock per provisioning target,   *)
(* held by at most one sync at a time.                                     *)
CONSTANTS Syncs, Targets

VARIABLE holders   \* the syncs at work on each target

Init == holders = [t \in Targets |-> {}]

Acquire(p, t) ==
    /\ holders[t] = {}
    /\ holders' = [holders EXCEPT ![t] = {p}]

Release(p, t) ==
    /\ holders[t] = {p}
    /\ holders' = [holders EXCEPT ![t] = {}]

Next == \E p \in Syncs, t \in Targets : Acquire(p, t) \/ Release(p, t)

Spec == Init /\ [][Next]_holders
=============================================================================
