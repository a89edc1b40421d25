--------------------------- MODULE GovernanceProofs ---------------------------
(***************************************************************************)
(* What holds of the multisig for every set of accounts, every bound and   *)
(* every delay: its types, the approval counts, the satisfiable threshold, *)
(* the active list, the prune cursor, and that executions are authorised   *)
(* and final.                                                              *)
(***************************************************************************)
EXTENDS Governance, FiniteSetTheorems, TLAPS

\* No flag exists for an id that has not been given out yet: what makes the
\* count of a new proposal start from the proposer's flag alone.
FreshIdsUnflagged == \A id \in Ids : id > nonce => approvals[id] = {}

\* Type correctness of the initial states.
LEMMA InitTypeOK == Init => TypeOK
  <1> SUFFICES ASSUME Init PROVE TypeOK
    OBVIOUS
  <1>1. Len(admins) \in Nat
    BY VecsAssumption DEF Init
  <1> QED
    BY <1>1, BoundsAssumption DEF Init, TypeOK, Ids

\* Every step keeps the types: propose and approve write well formed proposals,
\* prune only removes them.
LEMMA StepTypeOK == TypeOK /\ [Next]_vars => TypeOK'
  <1> SUFFICES ASSUME TypeOK, [Next]_vars PROVE TypeOK'
    OBVIOUS
  <1> USE DEF TypeOK, Ids
  <1>1. CASE CloseLedger
    BY <1>1 DEF CloseLedger
  <1>2. ASSUME NEW p \in Accounts, NEW action \in Action, NEW w \in Windows,
               Propose(p, action, w)
        PROVE  TypeOK'
    <2>1. w \in Nat /\ MaxProposals \in Nat
      BY BoundsAssumption
    <2>2. [action |-> action, proposer |-> p, approvalCount |-> 1, executed |-> FALSE,
           expiry |-> ledger + w, proposedAt |-> ledger] \in Proposal
      BY <2>1 DEF Proposal
    <2> QED
      BY <1>2, <2>1, <2>2 DEF Propose
  <1>3. ASSUME NEW a \in Accounts, NEW id \in Ids, Approve(a, id)
        PROVE  TypeOK'
    <2>1. proposals[id] \in Proposal
      BY <1>3 DEF Approve, Live, Stored
    <2>2. [proposals[id] EXCEPT !.approvalCount = @ + 1] \in Proposal
      BY <2>1 DEF Proposal
    <2> QED
      BY <1>3, <2>2 DEF Approve
  <1>4. ASSUME NEW id \in Ids, Executable(id), MarkExecuted(id)
        PROVE  /\ proposals' \in [Ids -> Proposal \cup {NoProposal}]
               /\ activeIds' \subseteq Ids
    <2>1. proposals[id] \in Proposal
      BY <1>4 DEF Executable, Live, Stored
    <2>2. [proposals[id] EXCEPT !.executed = TRUE] \in Proposal
      BY <2>1 DEF Proposal
    <2> QED
      BY <1>4, <2>2 DEF MarkExecuted
  <1>5. ASSUME NEW id \in Ids, ExecuteRotateAdmins(id) PROVE TypeOK'
    BY <1>4, <1>5 DEF ExecuteRotateAdmins, RotateActions
  <1>6. ASSUME NEW id \in Ids, ExecuteSetThreshold(id) PROVE TypeOK'
    BY <1>4, <1>6, ThresholdsAssumption DEF ExecuteSetThreshold, ThresholdActions
  <1>7. ASSUME NEW id \in Ids, ExecuteOther(id) PROVE TypeOK'
    BY <1>4, <1>7 DEF ExecuteOther
  <1>8. CASE GetActiveProposals
    BY <1>8 DEF GetActiveProposals
  <1>9. ASSUME NEW n \in 0..MaxScan, PruneProposals(n) PROVE TypeOK'
    <2>1. MaxProposals \in Nat /\ n \in Nat
      BY BoundsAssumption
    <2>2. PICK cursor \in nextPrune..PruneLimit(n) : nextPrune' = cursor
      BY <1>9 DEF PruneProposals
    <2>3. nextPrune' \in 1..(MaxProposals + 1)
      BY <2>1, <2>2 DEF PruneLimit
    <2> QED
      BY <1>9, <2>3 DEF PruneProposals
  <1>10. CASE UNCHANGED vars
    BY <1>10 DEF vars
  <1> QED
    BY <1>1, <1>2, <1>3, <1>5, <1>6, <1>7, <1>8, <1>9, <1>10 DEF Next

\* The governance keys are well typed in every reachable state.
THEOREM TypeCorrect == Spec => []TypeOK
  BY InitTypeOK, StepTypeOK, PTL DEF Spec

-------------------------------------------------------------------------------
\* propose gives out the next id, and the cursor only ever moves past proposals
\* it removes: both ends of the stored interval stay exact.
LEMMA StepPruneCursor ==
    TypeOK /\ PruneCursorExact /\ [Next]_vars => PruneCursorExact'
  <1> SUFFICES ASSUME TypeOK, PruneCursorExact, [Next]_vars PROVE PruneCursorExact'
    OBVIOUS
  <1> USE DEF TypeOK, PruneCursorExact, Stored, Ids
  <1>1. CASE CloseLedger
    BY <1>1 DEF CloseLedger
  <1>2. ASSUME NEW p \in Accounts, NEW action \in Action, NEW w \in Windows,
               Propose(p, action, w)
        PROVE  PruneCursorExact'
    <2> DEFINE new == [action |-> action, proposer |-> p, approvalCount |-> 1,
                       executed |-> FALSE, expiry |-> ledger + w,
                       proposedAt |-> ledger]
    <2>1. w \in Nat /\ MaxProposals \in Nat
      BY BoundsAssumption
    <2>2. new \in Proposal
      BY <2>1 DEF Proposal
    <2>3. new # NoProposal
      BY <2>2, NoProposalAssumption
    <2> HIDE DEF new
    <2> QED
      BY <1>2, <2>1, <2>3 DEF Propose, new
  <1>3. ASSUME NEW id \in Ids, proposals[id] # NoProposal,
               NEW q \in Proposal, proposals' = [proposals EXCEPT ![id] = q],
               UNCHANGED <<nonce, nextPrune>>
        PROVE  PruneCursorExact'
    BY <1>3, NoProposalAssumption
  <1>4. ASSUME NEW a \in Accounts, NEW id \in Ids, Approve(a, id)
        PROVE  PruneCursorExact'
    <2>1. proposals[id] \in Proposal /\ proposals[id] # NoProposal
      BY <1>4 DEF Approve, Live
    <2>2. [proposals[id] EXCEPT !.approvalCount = @ + 1] \in Proposal
      BY <2>1 DEF Proposal
    <2> QED
      BY <1>3, <1>4, <2>1, <2>2 DEF Approve
  <1>5. ASSUME NEW id \in Ids, Executable(id), MarkExecuted(id),
               UNCHANGED <<nonce, nextPrune>>
        PROVE  PruneCursorExact'
    <2>1. proposals[id] \in Proposal /\ proposals[id] # NoProposal
      BY <1>5 DEF Executable, Live
    <2>2. [proposals[id] EXCEPT !.executed = TRUE] \in Proposal
      BY <2>1 DEF Proposal
    <2> QED
      BY <1>3, <1>5, <2>1, <2>2 DEF MarkExecuted
  <1>6. ASSUME NEW id \in Ids, ExecuteRotateAdmins(id) PROVE PruneCursorExact'
    BY <1>5, <1>6 DEF ExecuteRotateAdmins
  <1>7. ASSUME NEW id \in Ids, ExecuteSetThreshold(id) PROVE PruneCursorExact'
    BY <1>5, <1>7 DEF ExecuteSetThreshold
  <1>8. ASSUME NEW id \in Ids, ExecuteOther(id) PROVE PruneCursorExact'
    BY <1>5, <1>8 DEF ExecuteOther
  <1>9. CASE GetActiveProposals
    BY <1>9 DEF GetActiveProposals
  <1>10. ASSUME NEW n \in 0..MaxScan, PruneProposals(n) PROVE PruneCursorExact'
    <2>1. MaxProposals \in Nat /\ n \in Nat
      BY BoundsAssumption
    <2>2. PICK cursor \in nextPrune..PruneLimit(n) :
             LET gone == {id \in nextPrune..(cursor - 1) : Stored(id) /\ ~Live(id)} IN
             /\ SweepEndsAt(cursor, n)
             /\ proposals' = [id \in Ids |->
                                 IF id \in gone THEN NoProposal ELSE proposals[id]]
             /\ nextPrune' = cursor
             /\ nonce' = nonce
      BY <1>10 DEF PruneProposals
    <2>3. cursor \in Nat /\ cursor <= nonce + 1 /\ nextPrune <= cursor
      BY <2>1, <2>2 DEF PruneLimit
    <2>4. \A id \in Ids : proposals'[id] # NoProposal <=>
                             Stored(id) /\ ~(id \in nextPrune..(cursor - 1))
      BY <2>1, <2>2, <2>3 DEF SweepEndsAt
    <2> QED
      BY <2>1, <2>2, <2>3, <2>4
  <1>11. CASE UNCHANGED vars
    BY <1>11 DEF vars
  <1> QED
    BY <1>1, <1>2, <1>4, <1>6, <1>7, <1>8, <1>9, <1>10, <1>11 DEF Next

\* The prune cursor skips nothing and never runs ahead, for any scan budget.
THEOREM PruneCursorCorrect == Spec => []PruneCursorExact
  <1>1. Init => PruneCursorExact
    BY BoundsAssumption DEF Init, PruneCursorExact, Stored, Ids
  <1> QED
    BY <1>1, TypeCorrect, StepPruneCursor, PTL DEF Spec
-------------------------------------------------------------------------------
\* A flag is added exactly when the count is raised, and flags are removed only
\* together with the proposal they count for.
LEMMA StepApprovals ==
    TypeOK /\ PruneCursorExact /\ ApprovalsCounted /\ FreshIdsUnflagged /\ [Next]_vars
        => ApprovalsCounted' /\ FreshIdsUnflagged'
  <1> SUFFICES ASSUME TypeOK, PruneCursorExact, ApprovalsCounted, FreshIdsUnflagged,
                      [Next]_vars
               PROVE  ApprovalsCounted' /\ FreshIdsUnflagged'
    OBVIOUS
  <1> USE DEF TypeOK, ApprovalsCounted, FreshIdsUnflagged, Stored, Ids
  <1>0. /\ MaxProposals \in Nat
        /\ \A id \in Ids : IsFiniteSet(approvals[id]) /\ Cardinality(approvals[id]) \in Nat
    BY AccountsFinite, BoundsAssumption, FS_Subset, FS_CardinalityType
  <1>1. CASE CloseLedger
    BY <1>1 DEF CloseLedger
  <1>2. ASSUME NEW p \in Accounts, NEW action \in Action, NEW w \in Windows,
               Propose(p, action, w)
        PROVE  ApprovalsCounted' /\ FreshIdsUnflagged'
    <2>1. /\ nonce + 1 \in Ids
          /\ approvals[nonce + 1] = {}
      BY <1>0, <1>2 DEF Propose
    <2>2. /\ approvals'[nonce + 1] = {p}
          /\ proposals'[nonce + 1].approvalCount = 1
      BY <1>2, <2>1 DEF Propose
    <2>3. Cardinality({p}) = 1
      BY FS_Singleton
    <2>4. \A id \in Ids : id # nonce + 1 =>
              approvals'[id] = approvals[id] /\ proposals'[id] = proposals[id]
      BY <1>2, <2>1 DEF Propose
    <2> QED
      BY <1>0, <1>2, <2>1, <2>2, <2>3, <2>4 DEF Propose
  <1>3. ASSUME NEW a \in Accounts, NEW id \in Ids, Approve(a, id)
        PROVE  ApprovalsCounted' /\ FreshIdsUnflagged'
    <2>1. /\ proposals[id] \in Proposal /\ proposals[id] # NoProposal
          /\ a \notin approvals[id]
      BY <1>3 DEF Approve, Live
    <2>2. /\ approvals'[id] = approvals[id] \cup {a}
          /\ proposals'[id].approvalCount = proposals[id].approvalCount + 1
      BY <1>3, <2>1 DEF Approve, Proposal
    <2>3. Cardinality(approvals[id] \cup {a}) = Cardinality(approvals[id]) + 1
      BY <1>0, <2>1, FS_AddElement
    <2>4. \A i \in Ids : i # id =>
              approvals'[i] = approvals[i] /\ proposals'[i] = proposals[i]
      BY <1>3 DEF Approve
    <2>5. id <= nonce /\ nonce' = nonce
      BY <1>3, <2>1 DEF PruneCursorExact, Approve
    <2>6. ApprovalsCounted'
      <3>1. proposals'[id].approvalCount = Cardinality(approvals'[id])
        BY <2>1, <2>2, <2>3
      <3> QED
        BY <2>4, <3>1
    <2>7. FreshIdsUnflagged'
      <3>1. nonce \in Nat /\ \A i \in Ids : i > nonce => i # id
        BY <1>0, <2>5
      <3> QED
        BY <2>4, <2>5, <3>1
    <2> QED
      BY <2>6, <2>7
  <1>4. ASSUME NEW id \in Ids, Executable(id), MarkExecuted(id),
               UNCHANGED <<nonce, approvals>>
        PROVE  ApprovalsCounted' /\ FreshIdsUnflagged'
    <2>1. proposals[id] \in Proposal /\ proposals[id] # NoProposal
      BY <1>4 DEF Executable, Live
    <2>2. proposals'[id].approvalCount = proposals[id].approvalCount
      BY <1>4, <2>1 DEF MarkExecuted, Proposal
    <2>3. \A i \in Ids : i # id => proposals'[i] = proposals[i]
      BY <1>4 DEF MarkExecuted
    <2> QED
      BY <1>4, <2>1, <2>2, <2>3
  <1>5. ASSUME NEW id \in Ids, ExecuteRotateAdmins(id)
        PROVE  ApprovalsCounted' /\ FreshIdsUnflagged'
    BY <1>4, <1>5 DEF ExecuteRotateAdmins
  <1>6. ASSUME NEW id \in Ids, ExecuteSetThreshold(id)
        PROVE  ApprovalsCounted' /\ FreshIdsUnflagged'
    BY <1>4, <1>6 DEF ExecuteSetThreshold
  <1>7. ASSUME NEW id \in Ids, ExecuteOther(id)
        PROVE  ApprovalsCounted' /\ FreshIdsUnflagged'
    BY <1>4, <1>7 DEF ExecuteOther
  <1>8. CASE GetActiveProposals
    BY <1>8 DEF GetActiveProposals
  <1>9. ASSUME NEW n \in 0..MaxScan, PruneProposals(n)
        PROVE  ApprovalsCounted' /\ FreshIdsUnflagged'
    <2>1. /\ nonce' = nonce
          /\ \A id \in Ids : proposals'[id] # NoProposal =>
                 proposals'[id] = proposals[id] /\ approvals'[id] = approvals[id]
          /\ \A id \in Ids : approvals'[id] \subseteq approvals[id]
      BY <1>9 DEF PruneProposals
    <2> QED
      BY <2>1
  <1>10. CASE UNCHANGED vars
    BY <1>10 DEF vars
  <1> QED
    BY <1>1, <1>2, <1>3, <1>5, <1>6, <1>7, <1>8, <1>9, <1>10 DEF Next

\* The count execute relies on is the number of distinct approvers, always.
THEOREM ApprovalsCountedCorrect == Spec => []ApprovalsCounted
  <1>1. Init => ApprovalsCounted /\ FreshIdsUnflagged
    BY BoundsAssumption DEF Init, ApprovalsCounted, FreshIdsUnflagged, Stored, Ids
  <1> QED
    BY <1>1, TypeCorrect, PruneCursorCorrect, StepApprovals, PTL DEF Spec

-------------------------------------------------------------------------------
\* Each of the two proposals that could break the relation checks it against
\* what the other may have written since the proposal was made.
THEOREM ThresholdCorrect == Spec => []ThresholdSatisfiable
  <1>1. Init => ThresholdSatisfiable
    BY DEF Init, ThresholdSatisfiable
  <1>2. TypeOK /\ ThresholdSatisfiable /\ [Next]_vars => ThresholdSatisfiable'
    <2> SUFFICES ASSUME TypeOK, ThresholdSatisfiable, [Next]_vars
                 PROVE  ThresholdSatisfiable'
      OBVIOUS
    <2>1. ASSUME UNCHANGED <<admins, threshold>> PROVE ThresholdSatisfiable'
      BY <2>1 DEF ThresholdSatisfiable
    <2>2. ASSUME NEW id \in Ids, ExecuteRotateAdmins(id) PROVE ThresholdSatisfiable'
      <3>1. /\ admins' = proposals[id].action.admins
            /\ admins' \in AdminVecs
            /\ threshold <= Len(admins') /\ threshold' = threshold
        BY <2>2 DEF ExecuteRotateAdmins, RotateActions, ValidAdmins
      <3>2. Len(admins') \in Nat /\ Len(admins) \in Nat
        BY <3>1, VecsAssumption DEF TypeOK
      <3> QED
        BY <3>1, <3>2 DEF ThresholdSatisfiable, TypeOK
    <2>3. ASSUME NEW id \in Ids, ExecuteSetThreshold(id) PROVE ThresholdSatisfiable'
      BY <2>3 DEF ExecuteSetThreshold, ThresholdSatisfiable
    <2> QED
      BY <2>1, <2>2, <2>3 DEF Next, vars, CloseLedger, Propose, Approve, ExecuteOther,
                              GetActiveProposals, PruneProposals
  <1> QED
    BY <1>1, <1>2, TypeCorrect, PTL DEF Spec

-------------------------------------------------------------------------------
\* Only an execute that passed its checks sets an executed flag, and only the two
\* governance arms write the admins and the threshold.
LEMMA StepAuthorised ==
    TypeOK /\ ApprovalsCounted /\ PruneCursorExact /\ [Next]_vars => [AuthorisedStep]_vars
  <1> SUFFICES ASSUME TypeOK, ApprovalsCounted, PruneCursorExact, Next
               PROVE  AuthorisedStep
    OBVIOUS
  <1> USE DEF TypeOK, Stored, Executes
  <1>1. ASSUME UNCHANGED <<admins, threshold>>, \A id \in Ids : ~Executes(id)
        PROVE  AuthorisedStep
    BY <1>1 DEF AuthorisedStep
  <1>2. ASSUME \A id \in Ids : proposals'[id] = proposals[id] \/ proposals'[id] = NoProposal
        PROVE  \A id \in Ids : ~Executes(id)
    BY <1>2
  <1>3. CASE CloseLedger
    BY <1>1, <1>2, <1>3 DEF CloseLedger
  <1>4. ASSUME NEW p \in Accounts, NEW action \in Action, NEW w \in Windows,
               Propose(p, action, w)
        PROVE  AuthorisedStep
    <2>1. \A id \in Ids : Stored(id) => proposals'[id] = proposals[id]
      BY <1>4, BoundsAssumption DEF Propose, PruneCursorExact, Ids
    <2> QED
      BY <1>1, <1>4, <2>1 DEF Propose
  <1>5. ASSUME NEW a \in Accounts, NEW id \in Ids, Approve(a, id)
        PROVE  AuthorisedStep
    <2>1. proposals[id] \in Proposal /\ ~proposals[id].executed
      BY <1>5 DEF Approve, Live
    <2>2. \A i \in Ids : i # id => proposals'[i] = proposals[i]
      BY <1>5 DEF Approve
    <2>3. ~proposals'[id].executed
      BY <1>5, <2>1 DEF Approve, Proposal
    <2> QED
      BY <1>1, <1>5, <2>2, <2>3 DEF Approve
  <1>6. ASSUME NEW id \in Ids, Executable(id), MarkExecuted(id)
        PROVE  /\ \A i \in Ids : Executes(i) => i = id
               /\ Executes(id)
               /\ Cardinality(approvals[id]) >= threshold
               /\ ledger <= proposals[id].expiry
               /\ Sensitive(proposals[id].action) =>
                      ledger >= proposals[id].proposedAt + MinExecDelay
    <2>1. /\ proposals[id] \in Proposal /\ proposals[id] # NoProposal
          /\ ~proposals[id].executed
      BY <1>6 DEF Executable, Live
    <2>2. proposals'[id] = [proposals[id] EXCEPT !.executed = TRUE]
      BY <1>6 DEF MarkExecuted
    <2>3. proposals'[id] \in Proposal /\ proposals'[id].executed
      BY <2>1, <2>2 DEF Proposal
    <2>4. \A i \in Ids : i # id => proposals'[i] = proposals[i]
      BY <1>6 DEF MarkExecuted
    <2>5. Executes(id) /\ \A i \in Ids : Executes(i) => i = id
      BY <2>1, <2>3, <2>4, NoProposalAssumption
    <2> QED
      BY <1>6, <2>1, <2>5 DEF Executable, Live, ApprovalsCounted
  <1>7. ASSUME NEW id \in Ids, ExecuteRotateAdmins(id) PROVE AuthorisedStep
    <2>1. Executable(id) /\ MarkExecuted(id) /\ threshold' = threshold
      BY <1>7 DEF ExecuteRotateAdmins
    <2>2. proposals[id].action = [kind |-> "RotateAdmins", admins |-> admins']
      BY <1>7 DEF ExecuteRotateAdmins, RotateActions
    <2> QED
      BY <1>6, <2>1, <2>2 DEF AuthorisedStep
  <1>8. ASSUME NEW id \in Ids, ExecuteSetThreshold(id) PROVE AuthorisedStep
    <2>1. Executable(id) /\ MarkExecuted(id) /\ admins' = admins
      BY <1>8 DEF ExecuteSetThreshold
    <2>2. proposals[id].action = [kind |-> "SetThreshold", n |-> threshold']
      BY <1>8 DEF ExecuteSetThreshold, ThresholdActions
    <2> QED
      BY <1>6, <2>1, <2>2 DEF AuthorisedStep
  <1>9. ASSUME NEW id \in Ids, ExecuteOther(id) PROVE AuthorisedStep
    <2>1. Executable(id) /\ MarkExecuted(id) /\ UNCHANGED <<admins, threshold>>
      BY <1>9 DEF ExecuteOther
    <2> QED
      BY <1>6, <2>1 DEF AuthorisedStep
  <1>10. CASE GetActiveProposals
    BY <1>1, <1>2, <1>10 DEF GetActiveProposals
  <1>11. ASSUME NEW n \in 0..MaxScan, PruneProposals(n) PROVE AuthorisedStep
    BY <1>1, <1>2, <1>11 DEF PruneProposals
  <1> QED
    BY <1>3, <1>4, <1>5, <1>7, <1>8, <1>9, <1>10, <1>11 DEF Next

\* No execution takes effect without threshold distinct approvers, after expiry
\* or before its delay, and nothing else changes who governs.
THEOREM ExecutionIsAuthorised == Spec => ExecutionAuthorised
  BY StepAuthorised, TypeCorrect, ApprovalsCountedCorrect, PruneCursorCorrect, PTL
     DEF Spec, ExecutionAuthorised

-------------------------------------------------------------------------------
\* Nothing brings a settled proposal back: the ledger only grows, ids are never
\* given out twice, and approve and execute both refuse what is not live.
THEOREM SettledStaysSettled == Spec => SettledIsFinal
  <1>1. TypeOK /\ [Next]_vars => [SettledStep]_vars
    <2> SUFFICES ASSUME TypeOK, Next,
                        NEW id \in Ids, Settled(id)
                 PROVE  Settled(id)' /\ ~Executes(id)
      BY DEF SettledStep
    <2> USE DEF TypeOK, Ids
    <2>0. id \in Nat /\ nonce \in Nat /\ id <= nonce /\ ~Live(id)
      BY BoundsAssumption DEF Settled
    <2>1. ASSUME nonce' >= nonce, ledger' \in Nat, ledger' >= ledger,
                 proposals'[id] = proposals[id] \/ proposals'[id] = NoProposal
          PROVE  Settled(id)' /\ ~Executes(id)
      <3>1. ~Executes(id)
        BY <2>1 DEF Executes
      <3>2. ~Live(id)'
        <4>1. CASE proposals'[id] = NoProposal
          BY <4>1 DEF Live, Stored
        <4>2. CASE proposals'[id] = proposals[id] /\ proposals[id] # NoProposal
          <5>1. proposals[id].expiry \in Nat
            BY <4>2 DEF Proposal
          <5> QED
            BY <2>0, <2>1, <4>2, <5>1 DEF Live, Stored
        <4> QED
          BY <2>1, <4>1, <4>2
      <3> QED
        BY <2>0, <2>1, <3>1, <3>2, StepTypeOK DEF Settled
    <2>2. CASE CloseLedger
      BY <2>1, <2>2 DEF CloseLedger
    <2>3. ASSUME NEW p \in Accounts, NEW action \in Action, NEW w \in Windows,
                 Propose(p, action, w)
          PROVE  Settled(id)' /\ ~Executes(id)
      BY <2>0, <2>1, <2>3 DEF Propose
    <2>4. ASSUME NEW a \in Accounts, NEW i \in Ids, Approve(a, i)
          PROVE  Settled(id)' /\ ~Executes(id)
      BY <2>0, <2>1, <2>4 DEF Approve
    <2>5. ASSUME NEW i \in Ids, Executable(i), MarkExecuted(i),
                 UNCHANGED <<ledger, nonce>>
          PROVE  Settled(id)' /\ ~Executes(id)
      BY <2>0, <2>1, <2>5 DEF Executable, MarkExecuted
    <2>6. ASSUME NEW i \in Ids, ExecuteRotateAdmins(i)
          PROVE  Settled(id)' /\ ~Executes(id)
      BY <2>5, <2>6 DEF ExecuteRotateAdmins
    <2>7. ASSUME NEW i \in Ids, ExecuteSetThreshold(i)
          PROVE  Settled(id)' /\ ~Executes(id)
      BY <2>5, <2>7 DEF ExecuteSetThreshold
    <2>8. ASSUME NEW i \in Ids, ExecuteOther(i)
          PROVE  Settled(id)' /\ ~Executes(id)
      BY <2>5, <2>8 DEF ExecuteOther
    <2>9. CASE GetActiveProposals
      BY <2>1, <2>9 DEF GetActiveProposals
    <2>10. ASSUME NEW n \in 0..MaxScan, PruneProposals(n)
           PROVE  Settled(id)' /\ ~Executes(id)
      BY <2>1, <2>10 DEF PruneProposals
    <2> QED
      BY <2>2, <2>3, <2>4, <2>6, <2>7, <2>8, <2>9, <2>10 DEF Next
  <1> QED
    BY <1>1, TypeCorrect, PTL DEF Spec, SettledIsFinal

-------------------------------------------------------------------------------
\* A proposal enters the list when it is made and leaves it when it is executed
\* or found dead; no call takes a live one off or puts an executed one back.
LEMMA StepActiveList == TypeOK /\ ActiveListExact /\ [Next]_vars => ActiveListExact'
  <1> SUFFICES ASSUME TypeOK, ActiveListExact, [Next]_vars PROVE ActiveListExact'
    OBVIOUS
  <1> USE DEF TypeOK, ActiveListExact, Stored, Live, Ids
  <1>1. ASSUME UNCHANGED activeIds, ledger' >= ledger, ledger' \in Nat,
               \A id \in Ids : proposals'[id] = proposals[id] \/ proposals'[id] = NoProposal
        PROVE  ActiveListExact'
    <2> SUFFICES ASSUME NEW id \in Ids, proposals'[id] # NoProposal
                 PROVE  /\ ~proposals'[id].executed /\ ledger' <= proposals'[id].expiry
                               => id \in activeIds'
                        /\ id \in activeIds' => ~proposals'[id].executed
      OBVIOUS
    <2>1. proposals[id] = proposals'[id] /\ proposals[id].expiry \in Nat
      BY <1>1 DEF Proposal
    <2> QED BY <1>1, <2>1
  <1>2. CASE CloseLedger
    BY <1>1, <1>2 DEF CloseLedger
  <1>3. ASSUME NEW p \in Accounts, NEW action \in Action, NEW w \in Windows,
               Propose(p, action, w)
        PROVE  ActiveListExact'
    <2>1. nonce + 1 \in Ids
      BY <1>3, BoundsAssumption DEF Propose
    <2>2. ~proposals'[nonce + 1].executed /\ activeIds' = activeIds \cup {nonce + 1}
      BY <1>3, <2>1 DEF Propose
    <2>3. \A id \in Ids : id # nonce + 1 => proposals'[id] = proposals[id]
      BY <1>3, <2>1 DEF Propose
    <2> QED BY <1>3, <2>1, <2>2, <2>3 DEF Propose
  <1>4. ASSUME NEW a \in Accounts, NEW id \in Ids, Approve(a, id) PROVE ActiveListExact'
    <2>1. /\ proposals'[id].executed = proposals[id].executed
          /\ proposals'[id].expiry = proposals[id].expiry
          /\ proposals[id] # NoProposal
      BY <1>4 DEF Approve, Proposal
    <2>2. \A i \in Ids : i # id => proposals'[i] = proposals[i]
      BY <1>4 DEF Approve
    <2> QED BY <1>4, <2>1, <2>2 DEF Approve
  <1>5. ASSUME NEW id \in Ids, Executable(id), MarkExecuted(id), UNCHANGED ledger
        PROVE  ActiveListExact'
    <2>1. proposals'[id].executed /\ id \notin activeIds'
      BY <1>5 DEF Executable, MarkExecuted, Proposal
    <2>2. \A i \in Ids : i # id => proposals'[i] = proposals[i]
                                    /\ (i \in activeIds' <=> i \in activeIds)
      BY <1>5 DEF MarkExecuted
    <2> QED BY <1>5, <2>1, <2>2
  <1>6. ASSUME NEW id \in Ids, ExecuteRotateAdmins(id) PROVE ActiveListExact'
    BY <1>5, <1>6 DEF ExecuteRotateAdmins
  <1>7. ASSUME NEW id \in Ids, ExecuteSetThreshold(id) PROVE ActiveListExact'
    BY <1>5, <1>7 DEF ExecuteSetThreshold
  <1>8. ASSUME NEW id \in Ids, ExecuteOther(id) PROVE ActiveListExact'
    BY <1>5, <1>8 DEF ExecuteOther
  <1>9. CASE GetActiveProposals
    BY <1>9 DEF GetActiveProposals
  <1>10. ASSUME NEW n \in 0..MaxScan, PruneProposals(n) PROVE ActiveListExact'
    BY <1>1, <1>10 DEF PruneProposals
  <1>11. CASE UNCHANGED vars
    BY <1>11 DEF vars
  <1> QED
    BY <1>2, <1>3, <1>4, <1>6, <1>7, <1>8, <1>9, <1>10, <1>11 DEF Next

\* get_active_proposals misses no live proposal and names no executed one.
THEOREM ActiveListCorrect == Spec => []ActiveListExact
  <1>1. Init => ActiveListExact
    BY DEF Init, ActiveListExact, Stored, Live
  <1> QED
    BY <1>1, TypeCorrect, StepActiveList, PTL DEF Spec

-------------------------------------------------------------------------------
\* Everything the multisig stores instead of looking again is exact.
THEOREM BookkeepingCorrect == Spec => []BookkeepingExact
  BY TypeCorrect, ApprovalsCountedCorrect, ThresholdCorrect, ActiveListCorrect,
     PruneCursorCorrect, PTL DEF BookkeepingExact
===============================================================================
