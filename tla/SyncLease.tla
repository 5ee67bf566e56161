------------------------------ MODULE SyncLease ------------------------------
(***************************************************************************)
(* Who may sync a provisioning target: the lease of provisioning/sync.py,  *)
(* taken by the worker's sweeps (worker.py) and by "sync now" in the       *)
(* console (routers/provisioning.py).                                      *)
(*                                                                         *)
(* Time is relative: lease[t] is how long the lease of t still runs, so    *)
(* the clock itself need not be bounded.  A sweep captures "now" once and  *)
(* uses it for every target it visits; age is how old that value is.       *)
(***************************************************************************)
EXTENDS Integers

CONSTANTS
    Workers,     \* processes running run_forever
    Manuals,     \* "sync now" requests in the console
    Targets,     \* enabled provisioning targets
    Lease,       \* SWEEP_LEASE, in ticks
    MaxSync,     \* assumption on the environment: longest sync of one target
    MaxAge,      \* the same for a whole sweep, from its captured "now"
    NoTarget

ASSUME TimesAssumption == Lease \in Nat \ {0} /\ MaxSync \in Nat /\ MaxAge \in Nat
ASSUME DisjointAssumption == Workers \cap Manuals = {} /\ NoTarget \notin Targets

Syncs == Workers \cup Manuals

VARIABLES
    lease,       \* sweep_lease_until minus the time, per target
    pc,          \* "idle", "sweeping" (between targets), "working", "dead"
    on,          \* the target a sync works on
    left,        \* the targets a sweep has still to visit
    age,         \* time since a sync's "now" was captured
    worked       \* time since a sync took its lease

vars == <<lease, pc, on, left, age, worked>>

(* No lease, or one so long gone that every "now" in use is later.         *)
Lapsed == -(MaxAge + 1)

Working(p, t) == pc[p] = "working" /\ on[p] = t

-----------------------------------------------------------------------------
\* Mutant: "<=" for "<".
MutAvailable(p, t) == lease[t] <= -age[p]

(* take_lease: sweep_lease_until IS NULL OR sweep_lease_until < now, with  *)
(* the sync's own now; the UPDATE sets now + SWEEP_LEASE.                  *)
Available(p, t) == lease[t] < -age[p]

\* Mutant: the lease starts where the previous one could have ended.
MutTake(p, t) ==
    /\ lease' = [lease EXCEPT ![t] = 2 * Lease - age[p]]
    /\ pc' = [pc EXCEPT ![p] = "working"]
    /\ on' = [on EXCEPT ![p] = t]
    /\ worked' = [worked EXCEPT ![p] = 0]

Take(p, t) ==
    /\ lease' = [lease EXCEPT ![t] = Lease - age[p]]
    /\ pc' = [pc EXCEPT ![p] = "working"]
    /\ on' = [on EXCEPT ![p] = t]
    /\ worked' = [worked EXCEPT ![p] = 0]

StartSweep(w) ==
    /\ pc[w] = "idle"
    /\ pc' = [pc EXCEPT ![w] = "sweeping"]
    /\ left' = [left EXCEPT ![w] = Targets]
    /\ age' = [age EXCEPT ![w] = 0]
    /\ UNCHANGED <<lease, on, worked>>

SweepTarget(w, t) ==
    /\ pc[w] = "sweeping" /\ t \in left[w] /\ Available(w, t)
    /\ Take(w, t)
    /\ left' = [left EXCEPT ![w] = @ \ {t}]
    /\ UNCHANGED age

(* AlreadyRunning: skip it, the next sweep will catch up.                  *)
SkipBusy(w, t) ==
    /\ pc[w] = "sweeping" /\ t \in left[w] /\ ~Available(w, t)
    /\ left' = [left EXCEPT ![w] = @ \ {t}]
    /\ UNCHANGED <<lease, pc, on, age, worked>>

EndSweep(w) ==
    /\ pc[w] = "sweeping" /\ left[w] = {}
    /\ pc' = [pc EXCEPT ![w] = "idle"]
    /\ age' = [age EXCEPT ![w] = 0]
    /\ UNCHANGED <<lease, on, left, worked>>

(* "Sync now" captures its own now; a busy target is answered 409.         *)
ManualSync(m, t) ==
    /\ pc[m] = "idle" /\ Available(m, t)
    /\ Take(m, t)
    /\ UNCHANGED <<left, age>>

(* release_lease runs however the work ended, and asks nobody whose lease  *)
(* it clears.                                                              *)
Release(p) ==
    /\ pc[p] = "working"
    /\ lease' = [lease EXCEPT ![on[p]] = Lapsed]
    /\ pc' = [pc EXCEPT ![p] = IF p \in Workers THEN "sweeping" ELSE "idle"]
    /\ on' = [on EXCEPT ![p] = NoTarget]
    /\ age' = IF p \in Workers THEN age ELSE [age EXCEPT ![p] = 0]
    /\ worked' = [worked EXCEPT ![p] = 0]
    /\ UNCHANGED left

(* The process is killed: whatever lease it holds is left to lapse.        *)
Crash(p) ==
    /\ pc[p] \in {"sweeping", "working"}
    /\ pc' = [pc EXCEPT ![p] = "dead"]
    /\ on' = [on EXCEPT ![p] = NoTarget]
    /\ left' = [left EXCEPT ![p] = {}]
    /\ age' = [age EXCEPT ![p] = 0]
    /\ worked' = [worked EXCEPT ![p] = 0]
    /\ UNCHANGED lease

Restart(p) ==
    /\ pc[p] = "dead"
    /\ pc' = [pc EXCEPT ![p] = "idle"]
    /\ UNCHANGED <<lease, on, left, age, worked>>

Busy(p) == pc[p] \in {"sweeping", "working"}

MayWait(p) ==
    /\ Busy(p) => age[p] < MaxAge
    /\ pc[p] = "working" => worked[p] < MaxSync

\* Mutant: a flag instead of a lease.
MutTick ==
    /\ \A p \in Syncs : MayWait(p)
    /\ age' = [p \in Syncs |-> IF Busy(p) THEN age[p] + 1 ELSE 0]
    /\ worked' = [p \in Syncs |-> IF pc[p] = "working" THEN worked[p] + 1 ELSE 0]
    /\ UNCHANGED <<lease, pc, on, left>>

Tick ==
    /\ \A p \in Syncs : MayWait(p)
    /\ lease' = [t \in Targets |-> IF lease[t] > Lapsed THEN lease[t] - 1 ELSE Lapsed]
    /\ age' = [p \in Syncs |-> IF Busy(p) THEN age[p] + 1 ELSE 0]
    /\ worked' = [p \in Syncs |-> IF pc[p] = "working" THEN worked[p] + 1 ELSE 0]
    /\ UNCHANGED <<pc, on, left>>

Init ==
    /\ lease = [t \in Targets |-> Lapsed]
    /\ pc = [p \in Syncs |-> "idle"]
    /\ on = [p \in Syncs |-> NoTarget]
    /\ left = [p \in Syncs |-> {}]
    /\ age = [p \in Syncs |-> 0]
    /\ worked = [p \in Syncs |-> 0]

WorkerStep(w) ==
    \/ StartSweep(w) \/ EndSweep(w)
    \/ \E t \in Targets : SweepTarget(w, t) \/ SkipBusy(w, t)

Next ==
    \/ \E w \in Workers : WorkerStep(w)
    \/ \E m \in Manuals, t \in Targets : ManualSync(m, t)
    \/ \E p \in Syncs : Release(p) \/ Crash(p) \/ Restart(p)
    \/ Tick

Spec == Init /\ [][Next]_vars

(* run_forever always goes on to the next target and the next sweep, every *)
(* sync ends, a killed machine is started again, and time passes.  Nothing *)
(* is assumed of "sync now", nor of crashes.                               *)
Fairness ==
    /\ \A w \in Workers : WF_vars(WorkerStep(w)) /\ WF_vars(Release(w)) /\ WF_vars(Restart(w))
    /\ \A m \in Manuals : WF_vars(Release(m)) /\ WF_vars(Restart(m))
    /\ WF_vars(Tick)

FairSpec == Spec /\ Fairness

-----------------------------------------------------------------------------
(* Type invariant: the lease column, the worker's loop and its clock.      *)
TypeOK ==
    /\ lease \in [Targets -> Lapsed..Lease]
    /\ pc \in [Syncs -> {"idle", "sweeping", "working", "dead"}]
    /\ on \in [Syncs -> Targets \cup {NoTarget}]
    /\ left \in [Syncs -> SUBSET Targets]
    /\ age \in [Syncs -> 0..MaxAge]
    /\ worked \in [Syncs -> 0..MaxSync]
    /\ \A p \in Syncs : pc[p] = "working" <=> on[p] # NoTarget

(* Two syncs never work on the same target at once (worker.py:18).         *)
MutualExclusion ==
    \A p, q \in Syncs, t \in Targets : Working(p, t) /\ Working(q, t) => p = q

atWork == [t \in Targets |-> {p \in Syncs : Working(p, t)}]

(* The lease implements the lock: what module TargetLock calls the holders *)
(* of a target are the syncs at work on it.                                *)
Lock == INSTANCE TargetLock WITH holders <- atWork, Syncs <- Syncs, Targets <- Targets
ImplementsLock == Lock!Spec

(* A killed sync does not wedge its target: some sync works on every       *)
(* target again and again, unless workers keep being killed.               *)
Wedged(t) == \A p \in Syncs : ~Working(p, t)
TargetsKeepBeingSwept ==
    \A t \in Targets :
        (\A w \in Workers : <>[](pc[w] # "dead")) => []<>~Wedged(t)
=============================================================================
