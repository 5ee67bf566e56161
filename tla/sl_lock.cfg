SPECIFICATION FairSpec
CONSTANTS
    Workers = {w1, w2}
    Manuals = {m1}
    Targets = {a, b}
    Lease = 2
    MaxSync = 2
    MaxAge = 2
    NoTarget = NoTarget
INVARIANT TypeOK
INVARIANT MutualExclusion
PROPERTY ImplementsLock
PROPERTY TargetsKeepBeingSwept
