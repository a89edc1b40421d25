SPECIFICATION FundsFlow
CONSTANTS
    Funders = {user}
    Wallets = {wallet, bridge}
    GAccounts = {}
    Recipients = {treasury}
    Bridge = bridge
    Tokens = {A, B}
    Amounts = {9, 25}
    MinAmount = 10
    MaxAmount = 25
    MaxFeeBps = 1000
    FeeChoices = {500, 1000, 2000}
    RateChoices = {10000}
    TierChoices <- MCTiers
    MaxTiers = 2
    WithdrawChoices = {0}
    ArchiveChoices = {2}
    Endowment = 60
    MaxFundings = 2
    MaxArchives = 2
    user = user
    A = A
    B = B
    ConfigFeeBps = 1000
    Providers = 2
    MaxRetries = 1
    MaxRequests = 2
    Params = {"p1", "p2"}
    CacheKey <- MCCacheKey
    NoParams = "none"
    MaxRefetches = 1
    MaxPrepares = 3
    MaxCalls = 3
SYMMETRY MCSymmetry
INVARIANTS CountersExact FeesExact SubmissionsAreTrue HooksAreSound
PROPERTIES FeesWithinQuote
CHECK_DEADLOCK FALSE
