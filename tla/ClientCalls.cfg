SPECIFICATION Calling
CONSTANTS
    MaxRetries = 1
    MaxRequests = 2
    p1 = p1
    p2 = p2
    c1 = c1
    c2 = c2
    Processes = {p1, p2}
    Legacy = {legacy}
    Created = {created}
    Calls = {c1, c2}
    MaxAttempts = 2
    Ttl = 1
    MaxTransactions = 5
    PageSizes = {0, 1, 2, 3}
    Whole = {0, 1, 10, 12}
    Fractions <- MCFractions
    Assets = {"XLM", "USDC", "BTC", "ETH", "EURC"}
    Paths = {"a", "b", "z"}
    Known = {"a", "b"}
    Matchers = {{"a"}, {"a", "b"}}
    Outcomes = {"o1", "o2"}
    MaxRoutes = 2
    Offers <- MCOffers
    Window = 2
    MaxFlagged = 2
    MaxClock = 4
    MaxOpen = 2
SYMMETRY MCSymmetry
INVARIANTS
    WithdrawalsAreOwn
    ReportsAreTrue
    AmountsAreTold
    RoutesAreFair
PROPERTY RevokedStaysOut
CHECK_DEADLOCK FALSE
