SPECIFICATION FairSpec

CONSTANTS
    MaxWallets = 2
    MaxEpochs = 1
    MaxFaults = 2

INVARIANTS
    TypeOK
    Tracked
    DeletedIsGone
    CooldownKept

PROPERTIES
    EventuallyCollected
    EventuallyDeleted
