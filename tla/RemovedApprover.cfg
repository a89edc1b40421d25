SPECIFICATION Spec
CONSTANTS
    a = a
    b = b
    c = c
    Accounts <- MCAccounts
    BridgeAddress = bridge
    AdminVecs <- MCAdminVecs
    NewThresholds = {0, 1, 3}
    OtherActions <- MCOther
    MinExpiry = 1
    MaxExpiry = 2
    MinExecDelay = 1
    Windows = {1, 2}
    MaxScan = 2
    MaxProposals = 2
    MaxLedger = 3
    NoProposal = NoProposal

PROPERTY CurrentAdminsDecide
CHECK_DEADLOCK FALSE
