SPECIFICATION FairSpec
CONSTANTS
    People = {p1, p2}
    Nobody = Nobody
    MaxName = 3
    MaxAccounts = 4
    MaxAttempts = 3
    Onboarded = {1}
    Circumstances = {{"assign", "leave", "rename", "reuse", "slow", "vanish", "lost", "down"},
        {"assign", "rehire", "leave", "reuse", "down"},
        {"assign", "leave", "rename", "vanish", "lost", "crash"},
        {"assign", "rehire", "leave", "rename", "slow", "lost", "down"},
        {"assign", "rehire", "rename", "lost", "down", "auth", "crash"},
        {"assign", "rehire", "leave", "lost", "down", "crash"},
        {"assign", "rehire", "leave", "down", "auth"},
        {"assign", "leave", "rename", "down", "switch", "forget"}}
    MaxChanges = 4
    MaxFailures = 2
INVARIANTS TypeOK LinksTellTheTruth AccountsAreTheirOwn QuietSummaryMeansInStep
PROPERTIES Converges
