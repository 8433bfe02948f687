CONSTANTS
    Deliveries = {d1, d2, d3}
    t1 = t1
    t2 = t2
    Payments <- MCPayments
    LastLedger <- MCLastLedger
    Lifetime = 2
    LedgerWindow = 3
    LedgerSlack = 1
    ValidationTimeout = 1
    ClockSkew = 0
    PendingTTL = 1
    ProcessedTTL = 1
    RejectionIsFinal = TRUE
    MaxFaults = 1
    MaxTime = 3
    None = None

SPECIFICATION Spec
SYMMETRY Symmetry
CHECK_DEADLOCK FALSE

INVARIANTS
    TypeOK
    SoldOnce
    PaidOnce
PROPERTIES
    MarkerKept
    RefusalIsDefinitive
