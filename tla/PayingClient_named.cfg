SPECIFICATION Spec

CONSTANTS
    None = None
    a = a
    b = b
    tick = tick
    chunk = chunk
    item = item
    Calls = {a, b}
    Keys = {tick, chunk, item}
    Users = {"payer"}
    Intent <- MCIntent
    Price <- MCPrice
    Currency <- MCCurrency
    Cap <- MCCap
    Funding = 3
    OpenRoutes = {tick}
    CallerHints = FALSE
    Window = 2
    MaxChallenges = 2
    MaxFaults = 1
    MaxRepeats = 0
    Routes <- MCRoutes

PROPERTIES
    NamedChannelPays

CHECK_DEADLOCK FALSE
