SPECIFICATION Spec
CONSTANTS
    People = {p1, p2}
    Nobody = Nobody
    MaxName = 2
    MaxAccounts = 3
    MaxAttempts = 3
    Onboarded = {}
    Circumstances = {{"assign", "leave", "lost"}}
    MaxChanges = 4
    MaxFailures = 2
SYMMETRY Symmetry
INVARIANT DeprovisionedIsOff
