SPECIFICATION FairSpec

CONSTANTS
    None = None
    small = small
    large = large
    Runs = {small, large}
    MaxTxs = 2
    Target <- MCTarget
    Cap <- MCCap
    Quotes = {1, 2}
    SlippageBps = 500
    Window = 1
    FaucetDelay = 2
    MaxLedger = 2
    MaxUses = 1
    MaxFaults = 2

INVARIANTS
    TypeOK
    LiveIsJournaled
    NothingForgotten
    FaucetSpared

PROPERTIES
    NeverBoughtTwice
    EventuallyResolved

CHECK_DEADLOCK FALSE
