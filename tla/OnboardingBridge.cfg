SPECIFICATION Spec
CONSTANTS
    a = a
    b = b
    Accounts = {a, b}
    BridgeAddress = bridge
    AdminVecs <- MCAdminVecs
    NewThresholds = {2}
    MinExpiry = 1
    MaxExpiry = 1
    MinExecDelay = 1
    Windows = {1}
    MaxScan = 1
    OtherActions <- FeeActions
    MaxProposals = 2
    MaxLedger = 2
    NoProposal = NoProposal
    Funders = {user}
    Wallets = {bridge, user}
    GAccounts = {}
    Recipients = {user}
    Tokens = {A}
    Amounts = {20}
    MinAmount = 10
    MaxAmount = 25
    MaxFeeBps = 1000
    FeeChoices = {1000, 2000}
    RateChoices = {5000}
    TierChoices <- MCTiers
    MaxTiers = 1
    WithdrawChoices = {0}
    ArchiveChoices = {1}
    Endowment = 20
    MaxFundings = 2
    MaxArchives = 1
INVARIANTS BookkeepingExact
PROPERTIES MoneyIsGoverned ExecutionAuthorised SettledIsFinal
CHECK_DEADLOCK FALSE
