CONSTANTS
    Requests = {r1, r2}
    Workers = {w1}
    o1 = o1
    v1 = v1
    v2 = v2
    Challenges <- MCClaimChallenges
    OpenChallenges = {}
    Price <- MCClaimPrice
    Amounts = {1, 2}
    PriorBalances = {0}
    OpenFunding = 2
    MaxFunding = 2
    HasSettler = TRUE
    LeaseOutlivesSettlement = FALSE
    MaxFaults = 1
    None = None

SPECIFICATION Spec
SYMMETRY Symmetry
CHECK_DEADLOCK FALSE

INVARIANTS
    FinalizedIsRedeemed
PROPERTIES
    OnlyForward
    ImplementsMetered
