--------------------------- MODULE OnboardingBridge ---------------------------
(***************************************************************************)
(* The whole contract: Governance decides when an action executes,         *)
(* BridgeFunds says what it does to money and fees.  Both read and write   *)
(* the same transaction, so an execution is one step of each, and it does  *)
(* not happen at all when the arm's own checks fail.                       *)
(***************************************************************************)
EXTENDS GovernanceConstants, FiniteSetsExt

CONSTANTS
    Funders, Wallets, GAccounts, Recipients, Tokens, Amounts, MinAmount, MaxAmount,
    MaxFeeBps, FeeChoices, RateChoices, TierChoices, MaxTiers, WithdrawChoices,
    ArchiveChoices, Endowment, MaxFundings, MaxArchives

\* The arms of ProposalAction that do not concern governance itself.
FeeActions ==
         [kind : {"SetFee"}, fee : FeeChoices]
    \cup [kind : {"SetFeeTokenWhitelist"}, token : Tokens, enabled : BOOLEAN]
    \cup [kind : {"SetFeeTokenRate"}, token : Tokens, rate : RateChoices]
    \cup [kind : {"WithdrawFees"}, to : Recipients, token : Tokens, amount : WithdrawChoices]
    \cup [kind : {"Pause", "Unpause"}]
    \cup [kind : {"ArchiveOldEntries"}, count : ArchiveChoices]
    \cup [kind : {"SetRebateTier"}, tier : TierChoices]

VARIABLES ledger, admins, threshold, nonce, proposals, approvals, activeIds,
          nextPrune, store, balance

ASSUME FeeActionsAssumption == OtherActions = FeeActions
\* What BridgeFunds assumes of its numbers.
ASSUME NumbersAssumption ==
    /\ Amounts \subseteq Nat /\ WithdrawChoices \subseteq Nat
    /\ MaxFeeBps \in 0..10000 /\ Endowment \in Nat
    /\ FeeChoices \subseteq Nat /\ MaxTiers \in Nat
    /\ TierChoices \subseteq [index : Nat, threshold : Nat, discount : Nat]

G == INSTANCE Governance
F == INSTANCE BridgeFunds WITH Bridge <- BridgeAddress

govVars   == <<ledger, admins, threshold, nonce, proposals, approvals, activeIds,
               nextPrune>>
moneyVars == <<store, balance>>
vars == <<govVars, moneyVars>>

Init == G!Init /\ F!Init

\* The match of execute.
Effect(x) ==
    \/ x.kind = "SetFee"               /\ F!SetFee(x.fee)
    \/ x.kind = "SetFeeTokenWhitelist" /\ F!SetFeeTokenWhitelist(x.token, x.enabled)
    \/ x.kind = "SetFeeTokenRate"      /\ F!SetFeeTokenRate(x.token, x.rate)
    \/ x.kind = "WithdrawFees"         /\ F!WithdrawFees(x.to, x.token, x.amount)
    \/ x.kind = "Pause"                /\ F!SetPaused(TRUE)
    \/ x.kind = "Unpause"              /\ F!SetPaused(FALSE)
    \/ x.kind = "ArchiveOldEntries"    /\ F!ArchiveOldEntries(x.count)
    \/ x.kind = "SetRebateTier"        /\ F!SetRebateTier(x.tier)

\* Faulty variant of ExecuteFeeAction: the effect runs for any live proposal.
ExecuteUnapproved(id) ==
    /\ G!Live(id)
    /\ proposals[id].action \in FeeActions
    /\ G!MarkExecuted(id)
    /\ Effect(proposals[id].action)
    /\ UNCHANGED <<ledger, admins, threshold, nonce, approvals, nextPrune>>

ExecuteFeeAction(id) == G!ExecuteOther(id) /\ Effect(proposals[id].action)

Next ==
    \/ UNCHANGED moneyVars /\
       \/ G!CloseLedger
       \/ \E p \in Accounts, action \in G!Action, w \in Windows : G!Propose(p, action, w)
       \/ \E a \in Accounts, id \in G!Ids : G!Approve(a, id)
       \/ \E id \in G!Ids : G!ExecuteRotateAdmins(id) \/ G!ExecuteSetThreshold(id)
       \/ G!GetActiveProposals
       \/ \E n \in 0..MaxScan : G!PruneProposals(n)
    \/ \E id \in G!Ids : ExecuteFeeAction(id)
    \/ F!Funding /\ UNCHANGED govVars

Spec == Init /\ [][Next]_vars

-------------------------------------------------------------------------------
\* What Governance promises, with the arms of execute that fail and those that pay.
BookkeepingExact == G!BookkeepingExact
ExecutionAuthorised == G!ExecutionAuthorised
SettledIsFinal == G!SettledIsFinal

Config(s) == <<s.feeBps, s.paused, s.whitelist, s.rate, s.tiers, s.tierCount>>

\* Nobody's balance falls but that of the source of a new funding, and the contract's also
\* when it pays out fees.  Fees are paid out, to the one account and in the one token that
\* were proposed, and the counter of fees falls, and the fee, rebate and pause configuration
\* changes, only in the step that executes, for the only time, a proposal for that effect
\* which threshold distinct accounts approved.  A funding may name the contract as its
\* source, whoever calls: that, and no other way, its money leaves without a proposal.
GovernedStep ==
    LET executed(actions) == \E id \in G!Ids :
            /\ G!Executes(id)
            /\ proposals[id].action \in actions
            /\ Cardinality(approvals[id]) >= threshold
        withdrawals(to, tokens) ==
            [kind : {"WithdrawFees"}, to : to, token : tokens, amount : WithdrawChoices]
        funding(h, t) == \E i \in DOMAIN store'.records \ DOMAIN store.records :
            store'.records[i].source = h /\ store'.records[i].token = t
    IN  /\ \A h \in F!Holders, t \in Tokens :
              /\ balance'[<<h, t>>] < balance[<<h, t>>] =>
                    \/ funding(h, t)
                    \/ h = BridgeAddress /\ executed(withdrawals(Recipients, {t}))
              /\ store'.paidOut[<<h, t>>] # store.paidOut[<<h, t>>] =>
                    executed(withdrawals({h}, {t}))
        /\ store'.accFees < store.accFees => executed(withdrawals(Recipients, Tokens))
        /\ Config(store') # Config(store) =>
               executed({x \in FeeActions : x.kind \notin {"WithdrawFees", "ArchiveOldEntries"}})
MoneyIsGoverned == [][GovernedStep]_vars
===============================================================================
