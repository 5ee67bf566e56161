SPECIFICATION Spec
CONSTANTS
    Users = {ann, bob}
    Admins = {bob}
    Groups = {staff}
    Asks = {a1, a2}
    Slots = {s1, s2}
    None = None
    Circumstances = {{"console", "removal"}, {"race", "console"}, {"race", "removal"}, {}}
SYMMETRY Interchangeable
INVARIANTS TypeOK OneOpenAsk ApprovedHasAccess AccessFollowsDecisions
PROPERTIES DecisionsStand
