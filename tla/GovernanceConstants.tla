------------------------- MODULE GovernanceConstants --------------------------
\* The constants of the multisig, what is assumed of them, and the shape of what a
\* proposal asks for: shared by Governance and by the contract as a whole.
EXTENDS Integers, Sequences, FiniteSets

CONSTANTS
    Accounts,       \* addresses that can appear in an admin vector
    BridgeAddress,  \* the contract's own address, never a valid admin
    AdminVecs,      \* admin vectors used at initialize and by RotateAdmins
    NewThresholds,  \* arguments of SetThreshold, valid ones and others
    OtherActions,   \* the proposal actions whose effect is not governance
    MinExpiry,      \* 10 in the code (l. 1125)
    MaxExpiry,      \* 100 000 in the code (l. 1128)
    MinExecDelay,   \* MIN_EXEC_DELAY, 10 in the code (l. 70)
    Windows,        \* the expiry_blocks arguments that are tried
    MaxScan,        \* bound on prune_proposals' max_scan argument
    MaxProposals,   \* bound on the u32 nonce
    MaxLedger,      \* bound on the ledger sequence
    NoProposal      \* what reading an absent Proposal(id) key gives

RotateActions    == [kind : {"RotateAdmins"}, admins : AdminVecs]
ThresholdActions == [kind : {"SetThreshold"}, n : NewThresholds]
Action           == RotateActions \cup ThresholdActions \cup OtherActions

Ids == 1..MaxProposals

Proposal == [action        : Action,
             proposer      : Accounts,
             approvalCount : Nat,
             executed      : BOOLEAN,
             expiry        : Nat,
             proposedAt    : Nat]

ASSUME AccountsFinite == IsFiniteSet(Accounts)
ASSUME VecsAssumption == AdminVecs \subseteq Seq(Accounts \cup {BridgeAddress})
ASSUME ThresholdsAssumption == NewThresholds \subseteq Nat
ASSUME OtherAssumption ==
    \A x \in OtherActions : x.kind \notin {"RotateAdmins", "SetThreshold"}
ASSUME BoundsAssumption ==
    /\ MinExpiry \in Nat \ {0} /\ MaxExpiry \in Nat /\ MinExecDelay \in Nat
    /\ Windows \subseteq Nat /\ MaxScan \in Nat
    /\ MaxProposals \in Nat /\ MaxLedger \in Nat
ASSUME NoProposalAssumption == NoProposal \notin Proposal
===============================================================================
