CONSTANTS
    Requests = {r1, r2, r3}
    Workers = {}
    o1 = o1
    v1 = v1
    v2 = v2
    Challenges <- MCChallenges
    OpenChallenges <- MCOpenChallenges
    Price <- MCPrice
    Amounts = {0, 1, 2}
    PriorBalances = {0, 1}
    OpenFunding = 2
    MaxFunding = 2
    HasSettler = FALSE
    LeaseOutlivesSettlement = FALSE
    MaxFaults = 0
    None = None

SPECIFICATION Spec
SYMMETRY Symmetry
CHECK_DEADLOCK FALSE

INVARIANTS
    TypeOK
    ServedIsPaid
    OneGrantPerChallenge
    OutstandingIsSigned
