SPECIFICATION FairSpec
CONSTANTS
    Txs = {t1, t2}
    Rows = {row}
    Contents = {1}
    Forgeries = {1, 2}
    AuditLock = AuditLock
    None = None
    MaxId = 3
    MaxEntries = 2
    Batch = 2
    Limits = {0, 1}
    Circumstances = {{"update"}, {"verify"}, {"verify", "tamper"}}
INVARIANTS TypeOK OneChain NoFalseAlarm TamperingIsFoundAndNamed
PROPERTIES TransactionsEnd
