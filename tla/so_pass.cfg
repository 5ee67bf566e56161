SPECIFICATION Spec
CONSTANTS
    None = None
    Users = {u1, u2}
    Sessions = {i1, i2}
    Slots = {s1, s2}
    MaxTime = 3
    Lifetime = 3
    Idle = 1
    TouchInterval = 1
    Relays = {q1, q2}
    Assertions = {x1, x2}
    Indexes = {n1}
    RequestTtl = 1
    Skew = 1
    Validity = 1
    Fallback = 1
    Apps = {a1}
    Staff = staff
    Members = {u1, u2}
    Logins = {l1, l2}
    Circumstances <- MCCircumstances
CHECK_DEADLOCK FALSE
SYMMETRY MCSymmetry
INVARIANTS TypeOK SignInsAreEarned SignedOutMeansOut
PROPERTIES EndedStaysEnded OnlyTheEntitledSignOn
