--------------------------- MODULE SyncLease_proofs ---------------------------
(* When every sweep and every manual sync ends within the lease counted    *)
(* from the "now" it captured, the lease is a lock: for any number of      *)
(* workers, manual syncs and targets.                                      *)
EXTENDS SyncLease, TLAPS

Timely == MaxAge <= Lease

(* A sync at work holds an unexpired lease, and holds it alone.            *)
LeaseInv ==
    /\ TypeOK
    /\ MutualExclusion
    /\ \A p \in Syncs, t \in Targets : Working(p, t) => lease[t] = Lease - age[p]

LEMMA LeaseInit == Init => LeaseInv
BY TimesAssumption, DisjointAssumption
   DEF Init, LeaseInv, TypeOK, MutualExclusion, Working, Lapsed

(* A target somebody works on is not available to anybody.                 *)
LEMMA BusyNotAvailable ==
    ASSUME LeaseInv, Timely, NEW p \in Syncs, NEW q \in Syncs, NEW t \in Targets,
           Working(p, t)
    PROVE  ~Available(q, t)
BY TimesAssumption DEF LeaseInv, TypeOK, Timely, Available

LEMMA TakeStep ==
    ASSUME LeaseInv, Timely, NEW p \in Syncs, NEW t \in Targets,
           pc[p] \in {"idle", "sweeping"}, Available(p, t), Take(p, t), UNCHANGED age,
           left' \in [Syncs -> SUBSET Targets]
    PROVE  LeaseInv'
<1>1. \A q \in Syncs : ~Working(q, t)
    BY BusyNotAvailable
<1>2. /\ age[p] \in 0..MaxAge
      /\ Lease - age[p] <= Lease /\ Lease - age[p] >= 0 /\ Lease - age[p] \in Int
      /\ Lapsed \in Int /\ Lapsed < 0
    BY TimesAssumption DEF LeaseInv, TypeOK, Timely, Lapsed
<1>3. TypeOK'
    <2>1. lease' \in [Targets -> Lapsed..Lease]
        BY <1>2, TimesAssumption DEF Take, LeaseInv, TypeOK
    <2>2. 0 \in 0..MaxSync
        BY TimesAssumption
    <2> QED
        BY <2>1, <2>2, DisjointAssumption DEF Take, LeaseInv, TypeOK
<1>4. \A q \in Syncs, u \in Targets :
          Working(q, u)' <=> (q = p /\ u = t) \/ (q # p /\ Working(q, u))
    BY DisjointAssumption DEF Take, LeaseInv, TypeOK, Working
<1>5. lease'[t] = Lease - age[p] /\ \A u \in Targets \ {t} : lease'[u] = lease[u]
    BY DEF Take, LeaseInv, TypeOK
<1>6. MutualExclusion'
    BY <1>1, <1>4 DEF LeaseInv, MutualExclusion
<1>7. ASSUME NEW q \in Syncs, NEW u \in Targets, Working(q, u)'
      PROVE  lease'[u] = Lease - age'[q]
    <2>1. CASE u = t
        BY <1>1, <1>4, <1>5, <1>7, <2>1
    <2>2. CASE u # t
        BY <1>4, <1>5, <1>7, <2>2 DEF LeaseInv
    <2> QED
        BY <2>1, <2>2
<1> QED
    BY <1>3, <1>6, <1>7 DEF LeaseInv

LEMMA LeaseStep ==
    ASSUME LeaseInv, Timely, [Next]_vars
    PROVE  LeaseInv'
<1>0. TypeOK /\ Workers \subseteq Syncs /\ Manuals \subseteq Syncs
    BY DEF LeaseInv, Syncs
<1>1. CASE UNCHANGED vars
    BY <1>1 DEF vars, LeaseInv, TypeOK, MutualExclusion, Working
<1>2. CASE Tick
    <2>1. \A p \in Syncs : /\ pc[p] = "working" => age'[p] = age[p] + 1
                           /\ age'[p] \in 0..MaxAge /\ worked'[p] \in 0..MaxSync
        BY <1>0, <1>2, TimesAssumption DEF Tick, MayWait, Busy, TypeOK
    <2>2. \A t \in Targets : /\ lease'[t] \in Lapsed..Lease
                             /\ lease[t] > Lapsed => lease'[t] = lease[t] - 1
        BY <1>0, <1>2, TimesAssumption DEF Tick, TypeOK, Lapsed
    <2>3. TypeOK'
        BY <1>0, <1>2, <2>1, <2>2 DEF Tick, TypeOK
    <2>4. ASSUME NEW p \in Syncs, NEW t \in Targets, Working(p, t)
          PROVE  lease'[t] = Lease - age'[p]
        <3>1. lease[t] = Lease - age[p] /\ age[p] \in 0..MaxAge /\ pc[p] = "working"
            BY <1>0, <2>4 DEF LeaseInv, TypeOK, Working
        <3>2. lease[t] > Lapsed
            BY <3>1, TimesAssumption DEF Timely, Lapsed
        <3> QED
            BY <2>1, <2>2, <3>1, <3>2, TimesAssumption
    <2> QED
        BY <1>2, <2>3, <2>4 DEF Tick, LeaseInv, MutualExclusion, Working
<1>3. ASSUME NEW w \in Workers, NEW t \in Targets, SweepTarget(w, t) PROVE LeaseInv'
    <2>1. left' \in [Syncs -> SUBSET Targets]
        BY <1>0, <1>3 DEF SweepTarget, TypeOK
    <2> QED
        BY <1>0, <1>3, <2>1, TakeStep DEF SweepTarget
<1>4. ASSUME NEW m \in Manuals, NEW t \in Targets, ManualSync(m, t) PROVE LeaseInv'
    BY <1>0, <1>4, TakeStep DEF ManualSync, TypeOK
<1>5. ASSUME NEW w \in Workers, StartSweep(w) \/ EndSweep(w) PROVE LeaseInv'
    <2>1. pc[w] # "working" /\ pc'[w] # "working"
        BY <1>0, <1>5 DEF StartSweep, EndSweep, TypeOK
    <2>2. \A p \in Syncs, t \in Targets :
              (Working(p, t)' <=> Working(p, t)) /\ (Working(p, t) => age'[p] = age[p])
        BY <1>0, <1>5, <2>1 DEF StartSweep, EndSweep, TypeOK, Working
    <2>3. TypeOK'
        BY <1>0, <1>5, TimesAssumption DEF StartSweep, EndSweep, TypeOK
    <2> QED
        BY <1>5, <2>2, <2>3 DEF StartSweep, EndSweep, LeaseInv, MutualExclusion
<1>6. ASSUME NEW w \in Workers, NEW t \in Targets, SkipBusy(w, t) PROVE LeaseInv'
    BY <1>0, <1>6 DEF SkipBusy, LeaseInv, TypeOK, MutualExclusion, Working
<1>7. ASSUME NEW p \in Syncs, Release(p) PROVE LeaseInv'
    <2>1. \A q \in Syncs, t \in Targets : Working(q, t)' <=> (q # p /\ Working(q, t))
        BY <1>0, <1>7, DisjointAssumption DEF Release, TypeOK, Working
    <2>2. on[p] \in Targets /\ Working(p, on[p])
        BY <1>0, <1>7 DEF Release, TypeOK, Working
    <2>3. \A q \in Syncs, t \in Targets : Working(q, t)' => lease'[t] = lease[t] /\ age'[q] = age[q]
        BY <1>0, <1>7, <2>1, <2>2 DEF Release, LeaseInv, MutualExclusion, TypeOK
    <2>4. TypeOK'
        BY <1>0, <1>7, <2>2, TimesAssumption DEF Release, TypeOK, Lapsed
    <2> QED
        BY <2>1, <2>3, <2>4 DEF LeaseInv, MutualExclusion
<1>8. ASSUME NEW p \in Syncs, Crash(p) \/ Restart(p) PROVE LeaseInv'
    <2>1. \A q \in Syncs, t \in Targets : Working(q, t)' <=> (q # p /\ Working(q, t))
        BY <1>0, <1>8, DisjointAssumption DEF Crash, Restart, TypeOK, Working
    <2>2. UNCHANGED lease /\ \A q \in Syncs : q # p => age'[q] = age[q]
        BY <1>0, <1>8 DEF Crash, Restart, TypeOK
    <2>3. TypeOK'
        BY <1>0, <1>8, TimesAssumption DEF Crash, Restart, TypeOK
    <2> QED
        BY <2>1, <2>2, <2>3 DEF LeaseInv, MutualExclusion
<1> QED
    BY <1>1, <1>2, <1>3, <1>4, <1>5, <1>6, <1>7, <1>8 DEF Next, WorkerStep

(* Leases, clocks and processes keep their shape.                          *)
THEOREM TimelyTypeCorrect ==
    ASSUME Timely
    PROVE  Spec => []TypeOK
<1>1. LeaseInv /\ [Next]_vars => LeaseInv'
    BY LeaseStep
<1>2. LeaseInv => TypeOK
    BY DEF LeaseInv
<1> QED
    BY <1>1, <1>2, LeaseInit, PTL DEF Spec

(* The worker never runs two sweeps against the same target at once, as    *)
(* long as every sweep ends within the lease: the now a sweep captures     *)
(* dates every lease it takes, so the assumption is about whole sweeps,    *)
(* not about the sync of one target.                                       *)
THEOREM TimelySyncsExclude ==
    ASSUME Timely
    PROVE  Spec => []MutualExclusion
<1>1. LeaseInv /\ [Next]_vars => LeaseInv'
    BY LeaseStep
<1>2. LeaseInv => MutualExclusion
    BY DEF LeaseInv
<1> QED
    BY <1>1, <1>2, LeaseInit, PTL DEF Spec

-----------------------------------------------------------------------------
(* Only taking, releasing and crashing change who works on what.           *)
LEMMA LockStep ==
    ASSUME LeaseInv, Timely, [Next]_vars
    PROVE  [Lock!Next]_atWork
<1>0. TypeOK /\ Workers \subseteq Syncs /\ Manuals \subseteq Syncs
    BY DEF LeaseInv, Syncs
<1>1. CASE \A p \in Syncs, t \in Targets : Working(p, t)' <=> Working(p, t)
    BY <1>1 DEF atWork
<1>2. ASSUME NEW p \in Syncs, NEW t \in Targets, Available(p, t), Take(p, t),
             pc[p] # "working"
      PROVE  Lock!Acquire(p, t)
    <2>1. \A q \in Syncs : ~Working(q, t)
        BY <1>2, BusyNotAvailable
    <2>2. \A q \in Syncs, u \in Targets :
              Working(q, u)' <=> (q = p /\ u = t) \/ Working(q, u)
        BY <1>0, <1>2 DEF Take, TypeOK, Working
    <2>3. atWork[t] = {} /\ atWork' = [atWork EXCEPT ![t] = {p}]
        BY <2>1, <2>2 DEF atWork
    <2> QED
        BY <2>3 DEF Lock!Acquire
<1>3. ASSUME NEW p \in Syncs, pc[p] = "working", Release(p) \/ Crash(p)
      PROVE  Lock!Release(p, on[p])
    <2>1. on[p] \in Targets /\ Working(p, on[p])
        BY <1>0, <1>3 DEF TypeOK, Working
    <2>2. \A q \in Syncs, u \in Targets : Working(q, u)' <=> (q # p /\ Working(q, u))
        BY <1>0, <1>3, DisjointAssumption DEF Release, Crash, TypeOK, Working
    <2>3. \A q \in Syncs : Working(q, on[p]) <=> q = p
        BY <2>1 DEF LeaseInv, MutualExclusion
    <2>4. \A u \in Targets : Working(p, u) <=> u = on[p]
        BY <1>0, <1>3 DEF Working
    <2>5. atWork[on[p]] = {p} /\ atWork' = [atWork EXCEPT ![on[p]] = {}]
        BY <2>1, <2>2, <2>3, <2>4 DEF atWork
    <2> QED
        BY <2>5 DEF Lock!Release
<1>4. ASSUME NEW w \in Workers, NEW t \in Targets, SweepTarget(w, t) PROVE [Lock!Next]_atWork
    BY <1>0, <1>2, <1>4 DEF SweepTarget, Lock!Next
<1>5. ASSUME NEW m \in Manuals, NEW t \in Targets, ManualSync(m, t) PROVE [Lock!Next]_atWork
    BY <1>0, <1>2, <1>5 DEF ManualSync, Lock!Next
<1>6. ASSUME NEW p \in Syncs, Release(p) \/ Crash(p) PROVE [Lock!Next]_atWork
    <2>1. CASE pc[p] = "working"
        BY <1>0, <1>3, <1>6, <2>1 DEF Lock!Next, TypeOK
    <2>2. CASE pc[p] # "working"
        BY <1>0, <1>1, <1>6, <2>2, DisjointAssumption DEF Release, Crash, Working, TypeOK
    <2> QED
        BY <2>1, <2>2
<1>7. ASSUME NEW p \in Syncs, Restart(p) PROVE [Lock!Next]_atWork
    BY <1>0, <1>1, <1>7 DEF Restart, Working, TypeOK
<1>8. ASSUME NEW w \in Workers, StartSweep(w) \/ EndSweep(w) \/ \E t \in Targets : SkipBusy(w, t)
      PROVE  [Lock!Next]_atWork
    BY <1>0, <1>1, <1>8 DEF StartSweep, EndSweep, SkipBusy, Working, TypeOK
<1>9. CASE Tick \/ UNCHANGED vars
    BY <1>1, <1>9 DEF Tick, vars, Working
<1> QED
    BY <1>4, <1>5, <1>6, <1>7, <1>8, <1>9 DEF Next, WorkerStep

(* The lease implements the abstract lock.                                 *)
THEOREM TimelyLeaseIsALock ==
    ASSUME Timely
    PROVE  Spec => ImplementsLock
<1>1. Init => Lock!Init
    BY DisjointAssumption DEF Init, Lock!Init, atWork, Working
<1>2. LeaseInv /\ [Next]_vars => LeaseInv'
    BY LeaseStep
<1>3. LeaseInv /\ [Next]_vars => [Lock!Next]_atWork
    BY LockStep
<1> QED
    BY <1>1, <1>2, <1>3, LeaseInit, PTL DEF Spec, ImplementsLock, Lock!Spec
=============================================================================
