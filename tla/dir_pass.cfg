SPECIFICATION Spec
CONSTANTS
    None = None
    Space = " "
    LowerOf <- MCLower
    People = {"p1", "p2"}
    Groups = {g1}
    Rules = {r1, r2}
    Requests = {q1, q2}
    Names <- MCNames
    Words <- MCWords
    Externals = {e1, e2}
    HomeName <- MCHome
    Conditions <- MCConditions
    Circumstances <- MCCircumstances
SYMMETRY MCSymmetry
INVARIANTS TypeOK OnePersonPerIdentity
PROPERTIES RulesDoWhatTheySay LoginsKeepTheLink
