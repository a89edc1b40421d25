------------------------------ MODULE Governance ------------------------------
(***************************************************************************)
(* The multisig governance of the OnboardingBridge contract: propose,      *)
(* approve, execute, get_active_proposals and prune_proposals of           *)
(* contracts/onboarding-bridge/src/lib.rs, and the two actions that change *)
(* who governs, RotateAdmins and SetThreshold.  A contract call is one     *)
(* ledger transaction: it runs to its end or the host reverts everything   *)
(* it wrote, so each call is one action whose guard is the conjunction of  *)
(* the call's checks.                                                      *)
(***************************************************************************)
EXTENDS GovernanceConstants

VARIABLES
    ledger,      \* env.ledger().sequence()
    admins,      \* Admins: a vector, duplicates are not rejected
    threshold,   \* Threshold
    nonce,       \* ProposalNonce
    proposals,   \* Proposal(id), NoProposal once pruned or not yet made
    approvals,   \* approvals[id]: the accounts with a ProposalApproval flag
    activeIds,   \* ActiveProposalIds: pushed in increasing order, so a set
    nextPrune    \* NextPruneId

vars == <<ledger, admins, threshold, nonce, proposals, approvals, activeIds,
          nextPrune>>

AdminSet == {admins[i] : i \in DOMAIN admins}
Stored(id) == proposals[id] # NoProposal

\* Neither executed nor expired: what keeps a proposal in the active list and
\* stops a prune sweep.
Live(id) == /\ Stored(id)
            /\ ~proposals[id].executed
            /\ ledger <= proposals[id].expiry

\* validate_admins and the emptiness and threshold checks that go with it.
ValidAdmins(v) == /\ v # <<>>
                  /\ \A i \in DOMAIN v : v[i] # BridgeAddress
                  /\ threshold <= Len(v)

\* The contract right after a successful initialize.
Init == /\ ledger = 0
        /\ admins \in AdminVecs
        /\ threshold \in 1..Len(admins)
        /\ ValidAdmins(admins)
        /\ nonce = 0
        /\ proposals = [id \in Ids |-> NoProposal]
        /\ approvals = [id \in Ids |-> {}]
        /\ activeIds = {}
        /\ nextPrune = 1

\* The network closes a ledger; any number of calls share a sequence number.
CloseLedger == /\ ledger < MaxLedger
               /\ ledger' = ledger + 1
               /\ UNCHANGED <<admins, threshold, nonce, proposals, approvals,
                              activeIds, nextPrune>>

Propose(p, action, window) ==
    LET id == nonce + 1 IN
    /\ p \in AdminSet
    /\ window >= MinExpiry
    /\ window <= MaxExpiry
    /\ nonce < MaxProposals
    /\ nonce' = id
    /\ proposals' = [proposals EXCEPT ![id] =
                        [action |-> action, proposer |-> p, approvalCount |-> 1,
                         executed |-> FALSE, expiry |-> ledger + window,
                         proposedAt |-> ledger]]
    /\ approvals' = [approvals EXCEPT ![id] = @ \cup {p}]
    /\ activeIds' = activeIds \cup {id}
    /\ UNCHANGED <<ledger, admins, threshold, nextPrune>>

\* Faulty variant of Approve: the check of the approval flag is missing.
ApproveTwice(a, id) ==
    /\ a \in AdminSet
    /\ Live(id)
    /\ approvals' = [approvals EXCEPT ![id] = @ \cup {a}]
    /\ proposals' = [proposals EXCEPT ![id].approvalCount = @ + 1]
    /\ UNCHANGED <<ledger, admins, threshold, nonce, activeIds, nextPrune>>

Approve(a, id) ==
    /\ a \in AdminSet
    /\ Live(id)
    /\ a \notin approvals[id]
    /\ approvals' = [approvals EXCEPT ![id] = @ \cup {a}]
    /\ proposals' = [proposals EXCEPT ![id].approvalCount = @ + 1]
    /\ UNCHANGED <<ledger, admins, threshold, nonce, activeIds, nextPrune>>

Sensitive(action) == action.kind \in {"WithdrawFees", "SetFee", "Pause",
                                      "Unpause", "RotateAdmins", "SetThreshold"}

\* Faulty variants of Executable: one approval too few is enough; expiry and
\* the execution delay are not looked at.
ExecutableOneShort(id) == /\ Live(id)
                          /\ proposals[id].approvalCount + 1 >= threshold
ExecutableForever(id) == /\ Stored(id)
                         /\ ~proposals[id].executed
                         /\ proposals[id].approvalCount >= threshold

\* The checks of execute, in the state the call reads.
Executable(id) ==
    /\ Live(id)
    /\ proposals[id].approvalCount >= threshold
    /\ Sensitive(proposals[id].action) =>
            ledger >= proposals[id].proposedAt + MinExecDelay

\* What execute writes before it dispatches on the action.
MarkExecuted(id) ==
    /\ proposals' = [proposals EXCEPT ![id].executed = TRUE]
    /\ activeIds' = activeIds \ {id}

ExecuteRotateAdmins(id) ==
    /\ Executable(id)
    /\ proposals[id].action \in RotateActions
    /\ ValidAdmins(proposals[id].action.admins)
    /\ MarkExecuted(id)
    /\ admins' = proposals[id].action.admins
    /\ UNCHANGED <<ledger, threshold, nonce, approvals, nextPrune>>

ExecuteSetThreshold(id) ==
    /\ Executable(id)
    /\ proposals[id].action \in ThresholdActions
    /\ proposals[id].action.n \in 1..Len(admins)
    /\ MarkExecuted(id)
    /\ threshold' = proposals[id].action.n
    /\ UNCHANGED <<ledger, admins, nonce, approvals, nextPrune>>

\* Any other action leaves governance alone; its own checks can still refuse.
ExecuteOther(id) ==
    /\ Executable(id)
    /\ proposals[id].action \in OtherActions
    /\ MarkExecuted(id)
    /\ UNCHANGED <<ledger, admins, threshold, nonce, approvals, nextPrune>>

\* get_active_proposals writes the filtered list back.
GetActiveProposals ==
    /\ activeIds' = {id \in activeIds : Live(id)}
    /\ UNCHANGED <<ledger, admins, threshold, nonce, proposals, approvals,
                   nextPrune>>

\* The first id the loop does not look at.
PruneLimit(maxScan) == IF nextPrune + maxScan > nonce + 1
                       THEN nonce + 1 ELSE nextPrune + maxScan

\* Where the sweep stops: the scan budget, the nonce, or a live proposal.
SweepEndsAt(cursor, maxScan) ==
    /\ \A id \in nextPrune..(cursor - 1) : ~Live(id)
    /\ cursor < PruneLimit(maxScan) => Live(cursor)

PruneProposals(maxScan) ==
    \E cursor \in nextPrune..PruneLimit(maxScan) :
        LET gone == {id \in nextPrune..(cursor - 1) : Stored(id) /\ ~Live(id)} IN
        /\ SweepEndsAt(cursor, maxScan)
        /\ proposals' = [id \in Ids |->
                            IF id \in gone THEN NoProposal ELSE proposals[id]]
        /\ approvals' = [id \in Ids |->
                            IF id \in gone
                            THEN approvals[id] \ (AdminSet \cup {proposals[id].proposer})
                            ELSE approvals[id]]
        /\ nextPrune' = cursor
        /\ UNCHANGED <<ledger, admins, threshold, nonce, activeIds>>

Next == \/ CloseLedger
        \/ \E p \in Accounts, action \in Action, w \in Windows : Propose(p, action, w)
        \/ \E a \in Accounts, id \in Ids : Approve(a, id)
        \/ \E id \in Ids : ExecuteRotateAdmins(id)
        \/ \E id \in Ids : ExecuteSetThreshold(id)
        \/ \E id \in Ids : ExecuteOther(id)
        \/ GetActiveProposals
        \/ \E n \in 0..MaxScan : PruneProposals(n)

Spec == Init /\ [][Next]_vars

-------------------------------------------------------------------------------
\* Type correctness of the governance keys in contract storage.
TypeOK == /\ ledger \in Nat
          /\ admins \in AdminVecs
          /\ threshold \in Nat
          /\ nonce \in 0..MaxProposals
          /\ proposals \in [Ids -> Proposal \cup {NoProposal}]
          /\ approvals \in [Ids -> SUBSET Accounts]
          /\ activeIds \subseteq Ids
          /\ nextPrune \in 1..(MaxProposals + 1)

\* The stored approval_count, which is all execute looks at, is the number of
\* distinct accounts that hold an approval flag for the proposal, across
\* rotations and prunes that remove other flags.
ApprovalsCounted ==
    \A id \in Ids : Stored(id) => proposals[id].approvalCount = Cardinality(approvals[id])

\* The threshold never exceeds the admin count nor falls to 0, whichever order
\* pending RotateAdmins and SetThreshold proposals are executed in (the check
\* of each is made at execution, against what the other has written).
ThresholdSatisfiable == threshold \in 1..Len(admins)

\* No live proposal is missing from the active list that get_active_proposals
\* reports, and no executed one is still on it, although three calls edit it.
ActiveListExact ==
    \A id \in Ids : /\ Live(id) => id \in activeIds
                    /\ Stored(id) /\ id \in activeIds => ~proposals[id].executed

\* The prune cursor neither skips a proposal nor runs ahead of the nonce: below
\* it everything is gone, from it to the nonce everything is still stored.
PruneCursorExact ==
    /\ nextPrune <= nonce + 1
    /\ \A id \in Ids : Stored(id) <=> id \in nextPrune..nonce

\* What the multisig stores of its proposals is exact: the counts, the list and the
\* cursor that approve, execute and prune rely on instead of looking again.
BookkeepingExact ==
    /\ TypeOK
    /\ ApprovalsCounted /\ ThresholdSatisfiable
    /\ ActiveListExact /\ PruneCursorExact

\* Whether a step executes proposal id.
Executes(id) == /\ Stored(id)
                /\ ~proposals[id].executed
                /\ proposals'[id] # NoProposal
                /\ proposals'[id].executed

\* execute only ever takes effect with at least threshold distinct approvers,
\* before expiry and, for sensitive actions, after the delay; and the admin
\* vector and the threshold change only through such an execution.
AuthorisedStep ==
    /\ \A id \in Ids : Executes(id) =>
          /\ Cardinality(approvals[id]) >= threshold
          /\ ledger <= proposals[id].expiry
          /\ Sensitive(proposals[id].action) =>
                ledger >= proposals[id].proposedAt + MinExecDelay
    /\ admins' # admins => \E id \in Ids :
          Executes(id) /\ proposals[id].action = [kind |-> "RotateAdmins", admins |-> admins']
    /\ threshold' # threshold => \E id \in Ids :
          Executes(id) /\ proposals[id].action = [kind |-> "SetThreshold", n |-> threshold']
ExecutionAuthorised == [][AuthorisedStep]_vars

\* A proposal that was executed, expired or pruned never comes back to life:
\* its id is not reused and no later approval or execution can reach it.
Settled(id) == id <= nonce /\ ~Live(id)
SettledStep == \A id \in Ids : Settled(id) => Settled(id)' /\ ~Executes(id)
SettledIsFinal == [][SettledStep]_vars

\* What the test test_removed_admin_approval_does_not_count_for_pending_proposal
\* states: an approval given by an account that has since been rotated out does
\* not count towards the threshold of a pending proposal.
CurrentQuorumStep ==
    \A id \in Ids : Executes(id) => Cardinality(approvals[id] \cap AdminSet) >= threshold
CurrentAdminsDecide == [][CurrentQuorumStep]_vars
===============================================================================
