CONSTANTS
    Requests = {r1}
    Workers = {w1, w2}
    o1 = o1
    v1 = v1
    v2 = v2
    Challenges <- MCClaimChallenges
    OpenChallenges = {}
    Price <- MCClaimPrice
    Amounts = {1, 2}
    PriorBalances = {0}
    OpenFunding = 2
    MaxFunding = 2
    HasSettler = TRUE
    LeaseOutlivesSettlement = FALSE
    MaxFaults = 0
    None = None

SPECIFICATION FairSpec
CHECK_DEADLOCK FALSE

PROPERTIES
    EventuallyRedeemed
