CONSTANTS
    Deliveries = {d1, d2}
    t1 = t1
    t2 = t2
    Payments <- MCPayments
    LastLedger <- MCLastLedger
    Lifetime = 2
    LedgerWindow = 3
    LedgerSlack = 1
    ValidationTimeout = 1
    ClockSkew = 0
    PendingTTL = 1
    ProcessedTTL = 1
    RejectionIsFinal = FALSE
    MaxFaults = 0
    MaxTime = 3
    None = None

SPECIFICATION Spec
CHECK_DEADLOCK FALSE

PROPERTIES
    RefusalIsDefinitive
