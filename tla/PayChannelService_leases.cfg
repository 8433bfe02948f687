CONSTANTS
    Requests = {r1}
    Workers = {w1, w2}
    o1 = o1
    v1 = v1
    v2 = v2
    Challenges <- MCClaimChallenges
    OpenChallenges = {}
    Price <- MCUnequalPrice
    Amounts = {0, 1, 2}
    PriorBalances = {0, 1}
    OpenFunding = 2
    MaxFunding = 3
    HasSettler = TRUE
    LeaseOutlivesSettlement = TRUE
    MaxFaults = 1
    None = None

SPECIFICATION Spec
SYMMETRY WorkerSymmetry
CHECK_DEADLOCK FALSE

INVARIANTS
    OneClaimInFlight
    BooksMatchLedger
    ServedIsPaid
