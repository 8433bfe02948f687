SPECIFICATION Spec

CONSTANTS
    None = None
    a = a
    b = b
    tick = tick
    chunk = chunk
    item = item
    Calls = {a, b}
    Keys = {tick, chunk, item}
    Users = {"transport", "payer"}
    Intent <- MCIntent
    Price <- MCPrice
    Currency <- MCCurrency
    Cap <- MCCap
    Funding = 3
    OpenRoutes = {tick}
    CallerHints = TRUE
    Window = 2
    MaxChallenges = 2
    MaxFaults = 2
    MaxRepeats = 1
    Routes <- MCRoutes

INVARIANTS
    TypeOK
    GrantsAddUp
    ServedOnce
    RefusedIsDecided
    NeverAhead
    ExposureBounded
    BudgetTrue

SYMMETRY Symmetry

CHECK_DEADLOCK FALSE
