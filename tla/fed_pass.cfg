SPECIFICATION Spec
CONSTANTS
    None = None
    Providers = {s1, s2}
    Clients = {c1, c2}
    OurKeys = {k1, k2}
    PartnerKeys = {p1, p2}
    Trips = {t1}
    Production = FALSE
    ClockSkew = 1
    AssertionLifetime = 1
    ReaderSkew = 1
    MaxTime = 2
    DeflatedLength = 400
    PlainLength = 800
    RelayLength = 55
    Circumstances <- MCCircumstances
SYMMETRY MCSymmetry
INVARIANTS TypeOK AnswersFollowTheRequest
PROPERTIES OwnPapersAreBelieved BelievedIsVouchedFor AnswersGoWhereRegistered
CHECK_DEADLOCK FALSE
