------------------------ MODULE OnboardingBridgeProofs ------------------------
(***************************************************************************)
(* Proofs about the composed contract: its steps are steps of Governance,  *)
(* so what GovernanceProofs proves holds of the contract with its real     *)
(* actions, and fees, configuration and everybody's money change by        *)
(* fundings and approved proposals only.                                   *)
(***************************************************************************)
EXTENDS OnboardingBridge, SequenceTheorems, FiniteSetTheorems, WellFoundedInduction,
        NaturalsInduction, TLAPS

LEMMA GovernanceStep == [Next]_vars => [G!Next]_G!vars
  <1> SUFFICES ASSUME [Next]_vars PROVE G!Next \/ UNCHANGED govVars
    BY DEF govVars, G!vars
  <1>1. ASSUME NEW id \in G!Ids, ExecuteFeeAction(id) PROVE G!Next
    BY <1>1 DEF ExecuteFeeAction, G!Next
  <1>2. ASSUME NEW p \in Accounts, NEW action \in G!Action, NEW w \in Windows,
               G!Propose(p, action, w)
        PROVE  G!Next
    BY <1>2 DEF G!Next
  <1>3. ASSUME NEW a \in Accounts, NEW id \in G!Ids, G!Approve(a, id) PROVE G!Next
    BY <1>3 DEF G!Next
  <1>4. ASSUME NEW id \in G!Ids, G!ExecuteRotateAdmins(id) \/ G!ExecuteSetThreshold(id)
        PROVE  G!Next
    BY <1>4 DEF G!Next
  <1>5. ASSUME NEW n \in 0..MaxScan, G!PruneProposals(n) PROVE G!Next
    BY <1>5 DEF G!Next
  <1>6. CASE G!CloseLedger \/ G!GetActiveProposals
    BY <1>6 DEF G!Next
  <1>7. CASE UNCHANGED vars
    BY <1>7 DEF vars
  <1> QED
    BY <1>1, <1>2, <1>3, <1>4, <1>5, <1>6, <1>7 DEF Next

\* The contract is a behaviour of the governance module, whatever its arms do to
\* money and whichever of them fail.
LEMMA ImplementsGovernance == Spec => G!Spec
  <1>1. Init => G!Init
    BY DEF Init
  <1> QED
    BY <1>1, GovernanceStep, PTL DEF Spec, G!Spec

-------------------------------------------------------------------------------
P == INSTANCE GovernanceProofs

LEMMA SameHelpers ==
    /\ G!Ids = P!Ids /\ G!Action = P!Action
    /\ G!RotateActions = P!RotateActions /\ G!ThresholdActions = P!ThresholdActions
    /\ G!AdminSet = P!AdminSet
    /\ \A id : G!Live(id) <=> P!Live(id)
    /\ \A id : G!Stored(id) <=> P!Stored(id)
    /\ \A v : G!ValidAdmins(v) <=> P!ValidAdmins(v)
    /\ \A x : G!Sensitive(x) <=> P!Sensitive(x)
    /\ \A n : G!PruneLimit(n) = P!PruneLimit(n)
  BY DEF G!Ids, P!Ids, G!Action, P!Action, G!RotateActions, P!RotateActions,
         G!ThresholdActions, P!ThresholdActions, G!AdminSet, P!AdminSet,
         G!Live, P!Live, G!Stored, P!Stored, G!ValidAdmins, P!ValidAdmins,
         G!Sensitive, P!Sensitive, G!PruneLimit, P!PruneLimit

LEMMA SameChecks ==
    /\ \A id : G!Executable(id) <=> P!Executable(id)
    /\ \A id : G!MarkExecuted(id) <=> P!MarkExecuted(id)
    /\ \A cursor, n : G!SweepEndsAt(cursor, n) <=> P!SweepEndsAt(cursor, n)
  BY SameHelpers DEF G!Executable, P!Executable, G!MarkExecuted, P!MarkExecuted,
                     G!SweepEndsAt, P!SweepEndsAt

LEMMA GovernanceIsProved == G!Spec => P!Spec
  <1>1. G!Init => P!Init
    BY SameHelpers DEF G!Init, P!Init
  <1>2. [G!Next]_G!vars => [P!Next]_P!vars
    <2> SUFFICES ASSUME G!Next PROVE P!Next
      BY DEF G!vars, P!vars
    <2>1. CASE G!CloseLedger
      BY <2>1 DEF G!CloseLedger, P!CloseLedger, P!Next
    <2>2. ASSUME NEW p \in Accounts, NEW x \in P!Action, NEW w \in Windows, G!Propose(p, x, w)
          PROVE  P!Next
      <3>1. P!Propose(p, x, w)
        BY <2>2, SameHelpers, Zenon DEF G!Propose, P!Propose
      <3> QED BY <3>1 DEF P!Next
    <2>3. ASSUME NEW a \in Accounts, NEW id \in P!Ids, G!Approve(a, id) PROVE P!Next
      <3>1. P!Approve(a, id)
        BY <2>3, SameHelpers, Zenon DEF G!Approve, P!Approve
      <3> QED BY <3>1 DEF P!Next
    <2>4. ASSUME NEW id \in P!Ids, G!ExecuteRotateAdmins(id) PROVE P!Next
      BY <2>4, SameHelpers, SameChecks DEF G!ExecuteRotateAdmins, P!ExecuteRotateAdmins, P!Next
    <2>5. ASSUME NEW id \in P!Ids, G!ExecuteSetThreshold(id) PROVE P!Next
      BY <2>5, SameHelpers, SameChecks DEF G!ExecuteSetThreshold, P!ExecuteSetThreshold, P!Next
    <2>6. ASSUME NEW id \in P!Ids, G!ExecuteOther(id) PROVE P!Next
      BY <2>6, SameHelpers, SameChecks DEF G!ExecuteOther, P!ExecuteOther, P!Next
    <2>7. CASE G!GetActiveProposals
      BY <2>7, SameHelpers DEF G!GetActiveProposals, P!GetActiveProposals, P!Next
    <2>8. ASSUME NEW n \in 0..MaxScan, G!PruneProposals(n) PROVE P!Next
      <3>1. P!PruneProposals(n)
        BY <2>8, SameHelpers, SameChecks DEF G!PruneProposals, P!PruneProposals
      <3> QED BY <3>1 DEF P!Next
    <2> QED
      BY <2>1, <2>2, <2>3, <2>4, <2>5, <2>6, <2>7, <2>8, SameHelpers DEF G!Next
  <1> QED BY <1>1, <1>2, PTL DEF G!Spec, P!Spec

\* The assumptions of Governance, in the words of the instance.
LEMMA GovernanceAssumptions ==
    /\ P!IsFiniteSet(Accounts)
    /\ AdminVecs \subseteq Seq(Accounts \cup {BridgeAddress})
    /\ NewThresholds \subseteq Nat
    /\ \A x \in OtherActions : x.kind \notin {"RotateAdmins", "SetThreshold"}
    /\ /\ MinExpiry \in Nat \ {0} /\ MaxExpiry \in Nat /\ MinExecDelay \in Nat
       /\ Windows \subseteq Nat /\ MaxScan \in Nat
       /\ MaxProposals \in Nat /\ MaxLedger \in Nat
    /\ NoProposal \notin P!Proposal
  <1>1. P!Proposal = Proposal
    BY DEF P!Proposal, Proposal, P!Action, Action, P!RotateActions, RotateActions,
           P!ThresholdActions, ThresholdActions
  <1>2. P!IsFiniteSet(Accounts)
    BY AccountsFinite DEF IsFiniteSet, P!IsFiniteSet
  <1> QED
    BY <1>1, <1>2, VecsAssumption, ThresholdsAssumption, OtherAssumption,
       BoundsAssumption, NoProposalAssumption

LEMMA SameCardinality == ASSUME NEW S PROVE P!Cardinality(S) = Cardinality(S)
  BY DEF P!Cardinality, Cardinality

LEMMA GovernanceInvariants == Spec => [](P!TypeOK /\ P!ApprovalsCounted)
  <1>1. P!Spec => []P!TypeOK
    BY P!TypeCorrect, GovernanceAssumptions
  <1>2. P!Spec => []P!ApprovalsCounted
    BY P!ApprovalsCountedCorrect, GovernanceAssumptions
  <1> QED BY <1>1, <1>2, GovernanceIsProved, ImplementsGovernance, PTL

-------------------------------------------------------------------------------
\* What is proved of the governance module in the words of the contract.
LEMMA SameShapes ==
    /\ G!Proposal = P!Proposal
    /\ \A S : G!Cardinality(S) = P!Cardinality(S)
    /\ \A id : G!Executes(id) <=> P!Executes(id)
  BY SameHelpers DEF G!Proposal, P!Proposal, G!Cardinality, P!Cardinality,
                     G!Executes, P!Executes

LEMMA SameBooks == P!BookkeepingExact => G!BookkeepingExact
  <1> SUFFICES ASSUME P!BookkeepingExact PROVE G!BookkeepingExact
    OBVIOUS
  <1>1. G!TypeOK
    BY SameHelpers, SameShapes DEF P!BookkeepingExact, P!TypeOK, G!TypeOK
  <1>2. G!ApprovalsCounted
    BY SameHelpers, SameShapes DEF P!BookkeepingExact, P!ApprovalsCounted, G!ApprovalsCounted
  <1>3. G!ThresholdSatisfiable
    BY DEF P!BookkeepingExact, P!ThresholdSatisfiable, G!ThresholdSatisfiable
  <1>4. G!ActiveListExact
    BY SameHelpers DEF P!BookkeepingExact, P!ActiveListExact, G!ActiveListExact
  <1>5. G!PruneCursorExact
    BY SameHelpers DEF P!BookkeepingExact, P!PruneCursorExact, G!PruneCursorExact
  <1> QED
    BY <1>1, <1>2, <1>3, <1>4, <1>5 DEF G!BookkeepingExact

\* The multisig's books are exact in the contract as a whole, whatever its arms do
\* and however its fundings interleave.
THEOREM BooksAreExact == Spec => []BookkeepingExact
  <1>1. P!Spec => []P!BookkeepingExact
    BY P!BookkeepingCorrect, GovernanceAssumptions
  <1>2. P!BookkeepingExact => BookkeepingExact
    BY SameBooks DEF BookkeepingExact
  <1> QED
    BY <1>1, <1>2, GovernanceIsProved, ImplementsGovernance, PTL

\* No arm executes without threshold distinct approvals, late or early, and only
\* those that say so change who governs.
THEOREM ArmsAreAuthorised == Spec => ExecutionAuthorised
  <1>1. P!Spec => P!ExecutionAuthorised
    BY P!ExecutionIsAuthorised, GovernanceAssumptions
  <1>2. [P!AuthorisedStep]_P!vars => [G!AuthorisedStep]_G!vars
    BY SameHelpers, SameShapes DEF P!AuthorisedStep, G!AuthorisedStep, P!vars, G!vars
  <1> QED
    BY <1>1, <1>2, GovernanceIsProved, ImplementsGovernance, PTL
       DEF ExecutionAuthorised, P!ExecutionAuthorised, G!ExecutionAuthorised

\* A proposal the contract has executed, let expire or pruned stays that.
THEOREM SettledForGood == Spec => SettledIsFinal
  <1>1. P!Spec => P!SettledIsFinal
    BY P!SettledStaysSettled, GovernanceAssumptions
  <1>2. [P!SettledStep]_P!vars => [G!SettledStep]_G!vars
    BY SameHelpers, SameShapes
       DEF P!SettledStep, G!SettledStep, P!Settled, G!Settled, P!vars, G!vars,
           P!Live, G!Live, P!Stored, G!Stored
  <1> QED
    BY <1>1, <1>2, GovernanceIsProved, ImplementsGovernance, PTL
       DEF SettledIsFinal, P!SettledIsFinal, G!SettledIsFinal

-------------------------------------------------------------------------------
\* What fees, rebates and balances must be for the sums to come out. 
Shaped(s) ==
    s = [feeBps |-> s.feeBps, paused |-> s.paused, whitelist |-> s.whitelist,
         rate |-> s.rate, tiers |-> s.tiers, tierCount |-> s.tierCount,
         accFees |-> s.accFees, accByToken |-> s.accByToken,
         userVolume |-> s.userVolume, records |-> s.records, hotCount |-> s.hotCount,
         totalVolume |-> s.totalVolume, volumeByToken |-> s.volumeByToken,
         funders |-> s.funders, funderCount |-> s.funderCount,
         nextRecord |-> s.nextRecord, archives |-> s.archives, paidOut |-> s.paidOut]
D == F!Holders \X Tokens
Typed(s, bal) ==
    /\ Shaped(s)
    /\ s.feeBps \in Nat /\ s.feeBps <= MaxFeeBps
    /\ s.tiers \in [0..(MaxTiers - 1) -> F!Tier]
    /\ \A i \in 0..(MaxTiers - 1) : s.tiers[i].discount <= 5000
    /\ s.records \in Seq(F!FundingRecord)
    /\ s.accFees \in Nat
    /\ s.paidOut \in [D -> Nat]
    /\ bal \in [D -> Nat]

LEMMA LeastNumber == ASSUME NEW Nums \in SUBSET Nat, Nums # {}
                     PROVE  \E m \in Nums : \A n \in Nums : m <= n
  <1>1. IsWellFoundedOn(OpToRel(<, Nat), Nat)
    BY NatLessThanWellFounded, Zenon
  <1>2. PICK m \in Nums : \A n \in Nums : ~(<<n, m>> \in OpToRel(<, Nat))
    BY <1>1, WFMin, Zenon
  <1>3. ASSUME NEW n \in Nums PROVE m <= n
    <2>1. ~(<<n, m>> \in OpToRel(<, Nat))
      BY <1>2, Zenon
    <2>2. ~(n < m)
      BY <2>1, Zenon DEF OpToRel
    <2> QED BY <2>2
  <1> QED BY <1>3

Discounts == 0..5000

\* A rebate is one of the tiers' discounts, or none.
LEMMA RebateIsCapped ==
  ASSUME NEW s, NEW bal, Typed(s, bal), NEW src, NEW tok
  PROVE  F!RebateBps(s, src, tok) \in 0..5000
  <1> DEFINE E == F!Earned(s, src, tok) \cup {0}
             N == {5000 - e : e \in E}
  <1>1. /\ s.tiers \in [0..(MaxTiers - 1) -> F!Tier]
        /\ \A i \in 0..(MaxTiers - 1) : s.tiers[i].discount <= 5000
    BY Zenon DEF Typed
  <1>2. \A i \in 0..(MaxTiers - 1) : s.tiers[i].discount \in Discounts
    <2>1. \A t \in F!Tier : t.discount \in Nat
      BY DEF F!Tier
    <2>2. ASSUME NEW i \in 0..(MaxTiers - 1) PROVE s.tiers[i].discount \in Discounts
      <3> DEFINE x == s.tiers[i].discount
      <3>1. x \in Nat /\ x <= 5000
        BY <1>1, <2>1, NumbersAssumption
      <3> HIDE DEF x
      <3>2. x \in Discounts
        BY <3>1 DEF Discounts
      <3> QED BY <3>2 DEF x
    <2> QED BY <2>2
  <1>3. E \subseteq Discounts
    <2>1. \A e \in F!Earned(s, src, tok) : \E i \in 0..(MaxTiers - 1) : e = s.tiers[i].discount
      BY Zenon DEF F!Earned
    <2>2. ASSUME NEW e \in F!Earned(s, src, tok) PROVE e \in Discounts
      <3>1. PICK i \in 0..(MaxTiers - 1) : e = s.tiers[i].discount
        BY <2>1, Zenon
      <3>2. s.tiers[i].discount \in Discounts
        BY <1>2, Zenon
      <3> QED BY <3>1, <3>2, Zenon
    <2>3. 0 \in Discounts
      BY DEF Discounts
    <2> QED BY <2>2, <2>3, Zenon
  <1>4. N \in SUBSET Nat /\ N # {}
    <2> HIDE DEF E
    <2>1. \A e \in E : 5000 - e \in Nat
      BY <1>3 DEF Discounts
    <2>2. 0 \in E
      BY DEF E
    <2> QED BY <2>1, <2>2
  <1>5. PICK d \in N : \A x \in N : d <= x
    <2> HIDE DEF N
    <2> QED BY <1>4, LeastNumber
  <1>6. PICK m \in E : \A e \in E : 5000 - m <= 5000 - e
    <2> HIDE DEF E
    <2> QED BY <1>5
  <1>7. \A e \in E : e <= m
    <2> HIDE DEF E
    <2> QED BY <1>3, <1>6 DEF Discounts
  <1>8. \A e \in F!Earned(s, src, tok) : e <= m
    BY <1>7
  <1>9. F!RebateBps(s, src, tok) \in E
    BY <1>8 DEF F!RebateBps
  <1> QED BY <1>3, <1>9 DEF Discounts

LEMMA Rounding == ASSUME NEW n \in Nat PROVE n \div 10000 \in Nat /\ (n \div 10000) * 10000 <= n
  OBVIOUS

LEMMA Product == ASSUME NEW x \in Nat, NEW y \in Nat, NEW z \in Nat, y <= z
                 PROVE  x * y \in Nat /\ x * y <= x * z
  OBVIOUS

\* A fee is a part of the amount.
LEMMA FeeIsPart ==
  ASSUME NEW s, NEW bal, Typed(s, bal), NEW it \in F!Item
  PROVE  F!Fee(s, it) \in Nat /\ F!Fee(s, it) <= it.amount /\ it.amount \in Nat
  <1> DEFINE f == s.feeBps
             d == F!RebateBps(s, it.source, it.token)
             cut == (f * d) \div 10000
             bps == f - cut
             n == it.amount
             fee == (n * bps) \div 10000
  <1>1. f \in Nat /\ f <= 10000 /\ d \in 0..5000 /\ n \in Nat
    <2>1. f \in Nat /\ f <= MaxFeeBps /\ MaxFeeBps \in 0..10000
      <3>1. f \in Nat /\ f <= MaxFeeBps
        BY Zenon DEF Typed
      <3>2. MaxFeeBps \in 0..10000
        BY NumbersAssumption
      <3> QED BY <3>1, <3>2
    <2>2. n \in Nat
      <3>1. it.amount \in Amounts
        BY DEF F!Item
      <3>2. Amounts \subseteq Nat
        BY NumbersAssumption
      <3> QED BY <3>1, <3>2
    <2>3. d \in 0..5000
      BY RebateIsCapped
    <2> HIDE DEF f, n, d
    <2>4. f <= 10000
      <3>1. MaxFeeBps \in Nat /\ MaxFeeBps <= 10000
        BY <2>1
      <3> QED BY <2>1, <3>1
    <2> QED BY <2>1, <2>2, <2>3, <2>4
  <1>2. F!Fee(s, it) = fee
    BY DEF F!Fee
  <1> HIDE DEF f, d, n
  <1>3. f * d \in Nat /\ f * d <= f * 5000
    BY <1>1, Product
  <1>4. cut \in Nat /\ cut <= f
    <2> DEFINE p == f * d
    <2>1. p \in Nat /\ p <= f * 5000
      BY <1>3
    <2> HIDE DEF p
    <2>2. p \div 10000 \in Nat /\ (p \div 10000) * 10000 <= p
      BY <2>1, Rounding
    <2>3. p \div 10000 <= f
      BY <1>1, <2>1, <2>2
    <2> QED BY <2>2, <2>3 DEF p
  <1> HIDE DEF cut
  <1>5. bps \in Nat /\ bps <= 10000
    BY <1>1, <1>4
  <1> HIDE DEF bps
  <1>6. n * bps \in Nat /\ n * bps <= n * 10000
    BY <1>1, <1>5, Product
  <1>7. fee \in Nat /\ fee <= n
    <2> DEFINE p == n * bps
    <2>1. p \in Nat /\ p <= n * 10000
      BY <1>6
    <2> HIDE DEF p
    <2>2. p \div 10000 \in Nat /\ (p \div 10000) * 10000 <= p
      BY <2>1, Rounding
    <2>3. p \div 10000 <= n
      BY <1>1, <2>1, <2>2
    <2> QED BY <2>2, <2>3 DEF p
  <1> QED BY <1>1, <1>2, <1>7 DEF n

\* A transfer takes nothing from anybody but the sender.
LEMMA MovedKeeps ==
  ASSUME NEW bal \in [D -> Nat], NEW tok \in Tokens, NEW from \in F!Holders, NEW to \in F!Holders,
         NEW amount \in Nat, amount <= bal[<<from, tok>>],
         NEW r, r = F!Moved(bal, tok, from, to, amount)
  PROVE  /\ r \in [D -> Nat]
         /\ \A x \in D : r[x] = bal[x] - (IF x = <<from, tok>> THEN amount ELSE 0)
                                       + (IF x = <<to, tok>> THEN amount ELSE 0)
  <1> DEFINE a == <<from, tok>>
             b == <<to, tok>>
             debited == [bal EXCEPT ![a] = @ - amount]
  <1>1. a \in D /\ b \in D /\ amount <= bal[a]
    BY DEF D
  <1>2. r = [debited EXCEPT ![b] = @ + amount]
    BY DEF F!Moved
  <1> HIDE DEF a, b
  <1>3. /\ debited \in [D -> Nat]
        /\ \A x \in D : debited[x] = IF x = a THEN bal[x] - amount ELSE bal[x]
    <2>1. bal[a] - amount \in Nat
      BY <1>1
    <2> QED BY <1>1, <2>1
  <1> HIDE DEF debited
  <1>4. /\ r \in [D -> Nat]
        /\ \A x \in D : r[x] = IF x = b THEN debited[x] + amount ELSE debited[x]
    <2>1. debited[b] + amount \in Nat
      BY <1>1, <1>3
    <2> QED BY <1>1, <1>2, <1>3, <2>1
  <1>5. ASSUME NEW x \in D
        PROVE  r[x] = bal[x] - (IF x = a THEN amount ELSE 0) + (IF x = b THEN amount ELSE 0)
    <2>1. bal[x] \in Nat
      OBVIOUS
    <2> QED BY <1>3, <1>4, <2>1
  <1> QED BY <1>4, <1>5 DEF a, b

\* What one funding does: its record is new, and only its source has less than before.
FundedAs(s, bal, it, r, new) ==
    /\ Typed(r, new) /\ Config(r) = Config(s)
    /\ r.paidOut = s.paidOut /\ s.accFees <= r.accFees
    /\ DOMAIN s.records \subseteq DOMAIN r.records
    /\ \A i \in DOMAIN s.records : r.records[i] = s.records[i]
    /\ \E i \in DOMAIN r.records \ DOMAIN s.records :
           r.records[i].source = it.source /\ r.records[i].token = it.token
    /\ \A x \in D : new[x] < bal[x] => x = <<it.source, it.token>>

LEMMA PaidKeeps ==
  ASSUME NEW s, NEW bal, Typed(s, bal), NEW it \in F!Item, it.target \in Wallets,
         F!Accepts(bal, it), NEW new, new = F!Paid(s, bal, it)
  PROVE  /\ new \in [D -> Nat]
         /\ \A x \in D : new[x] < bal[x] => x = <<it.source, it.token>>
  <1> DEFINE fee == F!Fee(s, it)
             n == it.amount
             tok == it.token
             src == it.source
             tgt == it.target
             net == n - fee
             mid == F!Moved(bal, tok, src, BridgeAddress, n)
             a == <<src, tok>>
             b == <<BridgeAddress, tok>>
             c == <<tgt, tok>>
  <1>1. fee \in Nat /\ fee <= n /\ n \in Nat
    BY FeeIsPart
  <1>2. /\ tok \in Tokens /\ src \in F!Holders /\ tgt \in F!Holders
        /\ BridgeAddress \in F!Holders /\ n <= bal[a] /\ bal \in [D -> Nat]
    BY DEF F!Item, F!Holders, F!Payers, F!Accepts, Typed
  <1>3. new = F!Moved(mid, tok, BridgeAddress, tgt, net)
    BY DEF F!Paid
  <1>4. a \in D /\ b \in D /\ c \in D
    BY <1>2 DEF D
  <1> HIDE DEF mid, fee, n, tok, src, tgt
  <1>5. /\ mid \in [D -> Nat]
        /\ \A x \in D : mid[x] = bal[x] - (IF x = a THEN n ELSE 0) + (IF x = b THEN n ELSE 0)
    BY <1>1, <1>2, MovedKeeps DEF mid
  <1>6. net \in Nat /\ net <= n
    BY <1>1
  <1> HIDE DEF net
  <1>7. net <= mid[b]
    <2>1. bal[a] \in Nat /\ bal[b] \in Nat
      BY <1>2, <1>4
    <2>2. CASE a = b
      <3>1. mid[b] = bal[b] - n + n
        BY <1>4, <1>5, <2>2
      <3> QED BY <1>1, <1>2, <1>6, <2>1, <2>2, <3>1
    <2>3. CASE a # b
      <3>1. mid[b] = bal[b] - 0 + n
        BY <1>4, <1>5, <2>3
      <3> QED BY <1>1, <1>6, <2>1, <3>1
    <2> QED BY <2>2, <2>3
  <1>8. /\ new \in [D -> Nat]
        /\ \A x \in D : new[x] = mid[x] - (IF x = b THEN net ELSE 0) + (IF x = c THEN net ELSE 0)
    BY <1>2, <1>3, <1>5, <1>6, <1>7, MovedKeeps
  <1>9. ASSUME NEW x \in D, x # a PROVE ~(new[x] < bal[x])
    <2>1. bal[x] \in Nat /\ mid[x] \in Nat
      BY <1>2, <1>5
    <2>2. mid[x] = bal[x] - 0 + (IF x = b THEN n ELSE 0)
      BY <1>5, <1>9
    <2>3. new[x] = mid[x] - (IF x = b THEN net ELSE 0) + (IF x = c THEN net ELSE 0)
      BY <1>8
    <2> HIDE DEF a, b, c
    <2> QED BY <1>1, <1>6, <2>1, <2>2, <2>3
  <1> QED BY <1>8, <1>9 DEF a, src, tok

LEMMA FundedKeeps ==
  ASSUME NEW s, NEW bal, Typed(s, bal), NEW it \in F!Item, it.target \in Wallets,
         F!Accepts(bal, it), NEW r, r = F!Funded(s, it), NEW new, new = F!Paid(s, bal, it)
  PROVE  FundedAs(s, bal, it, r, new)
  <1> DEFINE fee == F!Fee(s, it)
             rec == [source |-> it.source, target |-> it.target, token |-> it.token,
                     amount |-> it.amount, fee |-> fee, archived |-> FALSE]
  <1>1. fee \in Nat /\ it.amount \in Nat
    BY FeeIsPart
  <1>2. /\ new \in [D -> Nat]
        /\ \A x \in D : new[x] < bal[x] => x = <<it.source, it.token>>
    BY PaidKeeps
  <1>3. /\ Shaped(r) /\ r.records = Append(s.records, rec)
        /\ r.accFees = s.accFees + fee /\ r.paidOut = s.paidOut
        /\ r.feeBps = s.feeBps /\ r.tiers = s.tiers /\ r.tierCount = s.tierCount
        /\ r.paused = s.paused /\ r.whitelist = s.whitelist /\ r.rate = s.rate
    <2>1. Shaped(s)
      BY Zenon DEF Typed
    <2> HIDE DEF fee
    <2> QED BY <2>1 DEF Shaped, F!Funded, fee
  <1>4. rec \in F!FundingRecord
    BY <1>1 DEF F!FundingRecord, F!Item
  <1>5. rec.source = it.source /\ rec.token = it.token
    OBVIOUS
  <1> HIDE DEF rec, fee
  <1>6. s.records \in Seq(F!FundingRecord) /\ s.accFees \in Nat
    BY DEF Typed
  <1>7. /\ r.records \in Seq(F!FundingRecord)
        /\ DOMAIN r.records = DOMAIN s.records \cup {Len(s.records) + 1}
        /\ Len(s.records) + 1 \notin DOMAIN s.records
        /\ r.records[Len(s.records) + 1] = rec
        /\ \A i \in DOMAIN s.records : r.records[i] = s.records[i]
    <2> DEFINE old == s.records
               all == r.records
    <2>1. old \in Seq(F!FundingRecord) /\ all = Append(old, rec)
      BY <1>3, <1>6
    <2> HIDE DEF old, all
    <2>2. /\ all \in Seq(F!FundingRecord) /\ DOMAIN all = DOMAIN old \cup {Len(old) + 1}
          /\ Len(old) + 1 \notin DOMAIN old /\ all[Len(old) + 1] = rec
          /\ \A i \in DOMAIN old : all[i] = old[i]
      BY <1>4, <2>1
    <2> QED BY <2>2 DEF old, all
  <1>8. Typed(r, new)
    <2>1. r.accFees \in Nat
      BY <1>1, <1>3, <1>6
    <2> QED BY <1>2, <1>3, <1>7, <2>1 DEF Typed
  <1>9. Config(r) = Config(s)
    BY <1>3 DEF Config
  <1>10. s.accFees <= r.accFees
    BY <1>1, <1>3, <1>6
  <1>11. \E i \in DOMAIN r.records \ DOMAIN s.records :
           r.records[i].source = it.source /\ r.records[i].token = it.token
    BY <1>5, <1>7
  <1> QED BY <1>2, <1>3, <1>7, <1>8, <1>9, <1>10, <1>11 DEF FundedAs

NewFunding(h, t) == \E i \in DOMAIN store'.records \ DOMAIN store.records :
                        store'.records[i].source = h /\ store'.records[i].token = t

\* A funding configures and pays out nothing and takes from its source.
Untouched == /\ Typed(store', balance') /\ Config(store') = Config(store)
             /\ store'.paidOut = store.paidOut /\ store.accFees <= store'.accFees
             /\ \A h \in F!Holders, t \in Tokens :
                   balance'[<<h, t>>] < balance[<<h, t>>] => NewFunding(h, t)

LEMMA Pairs == /\ \A h \in F!Holders, t \in Tokens : <<h, t>> \in D
               /\ \A h, t, k, u : <<h, t>> = <<k, u>> => h = k /\ t = u
  BY DEF D

LEMMA FundingStep == ASSUME Typed(store, balance), F!Funding PROVE Untouched
  <1>1. ASSUME NEW it \in F!Item, FundedAs(store, balance, it, store', balance')
        PROVE  Untouched
    <2>1. ASSUME NEW h \in F!Holders, NEW t \in Tokens, balance'[<<h, t>>] < balance[<<h, t>>]
          PROVE  NewFunding(h, t)
      <3>1. h = it.source /\ t = it.token
        BY <1>1, <2>1, Pairs, Zenon DEF FundedAs
      <3> QED BY <1>1, <3>1, Zenon DEF FundedAs, NewFunding
    <2> QED BY <1>1, <2>1, Zenon DEF FundedAs, Untouched
  <1>2. ASSUME NEW it \in F!Item, F!FundCAddress(it) \/ F!BatchFundOne(it) PROVE Untouched
    <2>1. /\ it.target \in Wallets /\ F!Accepts(balance, it)
          /\ store' = F!Funded(store, it) /\ balance' = F!Paid(store, balance, it)
      BY <1>2 DEF F!FundCAddress, F!BatchFundOne
    <2> QED BY <1>1, <2>1, FundedKeeps, Zenon
  <1>3. ASSUME NEW it1 \in F!Item, NEW it2 \in F!Item, F!BatchFundCAddress(it1, it2)
        PROVE  Untouched
    <2> DEFINE store1 == F!Funded(store, it1)
               balance1 == F!Paid(store, balance, it1)
    <2>1. /\ it1.target \in Wallets /\ it2.target \in Wallets /\ it1.source = it2.source
          /\ F!Accepts(balance, it1) /\ F!Accepts(balance1, it2)
          /\ store' = F!Funded(store1, it2) /\ balance' = F!Paid(store1, balance1, it2)
      BY <1>3 DEF F!BatchFundCAddress
    <2>2. FundedAs(store, balance, it1, store1, balance1)
      BY <2>1, FundedKeeps, Zenon
    <2> HIDE DEF store1, balance1
    <2>3. FundedAs(store1, balance1, it2, store', balance')
      <3>1. Typed(store1, balance1)
        BY <2>2, Zenon DEF FundedAs
      <3> QED BY <2>1, <3>1, FundedKeeps, Zenon
    <2>4. Config(store') = Config(store) /\ store'.paidOut = store.paidOut /\ Typed(store', balance')
      BY <2>2, <2>3 DEF FundedAs
    <2>5. store.accFees <= store'.accFees
      <3>1. store.accFees \in Nat /\ store1.accFees \in Nat /\ store'.accFees \in Nat
        BY <2>2, <2>4, Zenon DEF FundedAs, Typed
      <3>2. store.accFees <= store1.accFees /\ store1.accFees <= store'.accFees
        BY <2>2, <2>3, Zenon DEF FundedAs
      <3> QED BY <3>1, <3>2
    <2>6. ASSUME NEW h \in F!Holders, NEW t \in Tokens, balance'[<<h, t>>] < balance[<<h, t>>]
          PROVE  NewFunding(h, t)
      <3> DEFINE x == <<h, t>>
      <3>1. x \in D
        BY Pairs, Zenon
      <3>2. balance[x] \in Nat /\ balance1[x] \in Nat /\ balance'[x] \in Nat
        BY <2>2, <2>4, <3>1 DEF FundedAs, Typed
      <3>3. balance1[x] < balance[x] \/ balance'[x] < balance1[x]
        BY <2>6, <3>2
      <3>4. CASE balance1[x] < balance[x]
        <4>1. h = it1.source /\ t = it1.token
          BY <2>2, <3>1, <3>4, Pairs, Zenon DEF FundedAs
        <4>2. PICK i \in DOMAIN store1.records \ DOMAIN store.records :
                 store1.records[i].source = h /\ store1.records[i].token = t
          BY <2>2, <4>1, Zenon DEF FundedAs
        <4>3. i \in DOMAIN store'.records /\ store'.records[i] = store1.records[i]
          BY <2>3, <4>2 DEF FundedAs
        <4> QED BY <4>2, <4>3 DEF NewFunding
      <3>5. CASE balance'[x] < balance1[x]
        <4>1. h = it2.source /\ t = it2.token
          BY <2>3, <3>1, <3>5, Pairs, Zenon DEF FundedAs
        <4>2. PICK i \in DOMAIN store'.records \ DOMAIN store1.records :
                 store'.records[i].source = h /\ store'.records[i].token = t
          BY <2>3, <4>1, Zenon DEF FundedAs
        <4>3. i \notin DOMAIN store.records
          BY <2>2, <4>2 DEF FundedAs
        <4> QED BY <4>2, <4>3 DEF NewFunding
      <3> QED BY <3>3, <3>4, <3>5
    <2> QED BY <2>4, <2>5, <2>6 DEF Untouched
  <1> QED BY <1>2, <1>3 DEF F!Funding

ConfigArms == {"SetFee", "Pause", "Unpause", "SetFeeTokenWhitelist",
               "SetFeeTokenRate", "SetRebateTier"}

\* The step that executes a withdrawal of tok to a recipient.
Withdrawn(x) ==
    /\ Typed(store', balance') /\ Config(store') = Config(store)
    /\ \A h \in F!Holders, t \in Tokens :
          /\ balance'[<<h, t>>] < balance[<<h, t>>] => h = BridgeAddress /\ t = x.token
          /\ store'.paidOut[<<h, t>>] # store.paidOut[<<h, t>>] => h = x.to /\ t = x.token

LEMMA WithdrawFeesPays ==
  ASSUME NEW x, x.to \in Recipients, x.token \in Tokens, x.amount \in WithdrawChoices,
         Typed(store, balance), F!WithdrawFees(x.to, x.token, x.amount)
  PROVE  Withdrawn(x)
  <1> DEFINE paid == IF x.amount = 0 THEN store.accFees ELSE x.amount
             to == x.to
             tok == x.token
             k == <<to, tok>>
             was == store.paidOut
             out == [was EXCEPT ![k] = @ + paid]
  <1>1. store.accFees \in Nat /\ x.amount \in Nat
    <2>1. WithdrawChoices \subseteq Nat
      BY NumbersAssumption
    <2>2. store.accFees \in Nat
      BY Zenon DEF Typed
    <2> QED BY <2>1, <2>2
  <1>2. /\ paid \in Nat /\ paid <= store.accFees /\ paid <= balance[<<BridgeAddress, tok>>]
        /\ balance' = F!Moved(balance, tok, BridgeAddress, to, paid)
    BY <1>1 DEF F!WithdrawFees
  <1>3. /\ Shaped(store') /\ store'.records = store.records
        /\ store'.accFees = store.accFees - paid /\ store'.paidOut = out
        /\ store'.feeBps = store.feeBps /\ store'.tiers = store.tiers
        /\ store'.tierCount = store.tierCount /\ store'.paused = store.paused
        /\ store'.whitelist = store.whitelist /\ store'.rate = store.rate
    <2>1. Shaped(store)
      BY Zenon DEF Typed
    <2> QED BY <2>1 DEF F!WithdrawFees, Shaped
  <1>4. /\ to \in F!Holders /\ BridgeAddress \in F!Holders /\ tok \in Tokens
        /\ balance \in [D -> Nat] /\ was \in [D -> Nat] /\ k \in D
    BY DEF F!Holders, F!Payers, Typed, D
  <1> HIDE DEF paid, to, tok, was, k
  <1>5. /\ balance' \in [D -> Nat]
        /\ \A y \in D : balance'[y] = balance[y] - (IF y = <<BridgeAddress, tok>> THEN paid ELSE 0)
                                                 + (IF y = <<to, tok>> THEN paid ELSE 0)
    BY <1>2, <1>4, MovedKeeps
  <1>6. out \in [D -> Nat] /\ \A y \in D : y # k => out[y] = was[y]
    <2>1. was[k] + paid \in Nat
      BY <1>2, <1>4
    <2> QED BY <1>4, <2>1
  <1>7. Typed(store', balance')
    <2>1. store'.accFees \in Nat
      BY <1>1, <1>2, <1>3
    <2> HIDE DEF out
    <2> QED BY <1>3, <1>5, <1>6, <2>1 DEF Typed
  <1>8. Config(store') = Config(store)
    BY <1>3 DEF Config
  <1>9. ASSUME NEW h \in F!Holders, NEW t \in Tokens
        PROVE  /\ balance'[<<h, t>>] < balance[<<h, t>>] => h = BridgeAddress /\ t = tok
               /\ store'.paidOut[<<h, t>>] # was[<<h, t>>] => h = to /\ t = tok
    <2> DEFINE y == <<h, t>>
               z == <<BridgeAddress, tok>>
               w == <<to, tok>>
    <2>1. y \in D /\ (y = z => h = BridgeAddress /\ t = tok) /\ (y = k => h = to /\ t = tok)
      BY Pairs, Zenon DEF k
    <2>2. balance'[y] = balance[y] - (IF y = z THEN paid ELSE 0) + (IF y = w THEN paid ELSE 0)
      BY <1>5, <2>1
    <2>3. balance[y] \in Nat
      BY <1>4, <2>1
    <2>4. balance'[y] < balance[y] => y = z
      <3> HIDE DEF y, z, w
      <3> QED BY <1>2, <2>2, <2>3
    <2>5. store'.paidOut[y] # was[y] => y = k
      <3> HIDE DEF out, y
      <3> QED BY <1>3, <1>6, <2>1
    <2> QED BY <2>1, <2>4, <2>5
  <1> QED BY <1>7, <1>8, <1>9 DEF Withdrawn, to, tok, was

\* What an arm other than that one does: at most it configures.
Configured(x) ==
    /\ Typed(store', balance') /\ balance' = balance
    /\ store'.paidOut = store.paidOut /\ store'.accFees = store.accFees
    /\ x.kind \notin ConfigArms => Config(store') = Config(store)

LEMMA StillTyped ==
  ASSUME Typed(store, balance), balance' = balance, Shaped(store'),
         store'.paidOut = store.paidOut, store'.accFees = store.accFees,
         store'.feeBps \in Nat, store'.feeBps <= MaxFeeBps,
         store'.tiers \in [0..(MaxTiers - 1) -> F!Tier],
         \A i \in 0..(MaxTiers - 1) : store'.tiers[i].discount <= 5000,
         store'.records \in Seq(F!FundingRecord)
  PROVE  Typed(store', balance')
  <1>1. store.accFees \in Nat /\ store.paidOut \in [D -> Nat] /\ balance \in [D -> Nat]
    BY Zenon DEF Typed
  <1>2. store'.accFees \in Nat /\ store'.paidOut \in [D -> Nat] /\ balance' \in [D -> Nat]
    BY <1>1
  <1> QED BY <1>2, Zenon DEF Typed

LEMMA FieldsKept ==
  ASSUME Typed(store, balance)
  PROVE  /\ store.feeBps \in Nat /\ store.feeBps <= MaxFeeBps
         /\ store.tiers \in [0..(MaxTiers - 1) -> F!Tier]
         /\ \A i \in 0..(MaxTiers - 1) : store.tiers[i].discount <= 5000
         /\ store.records \in Seq(F!FundingRecord)
  BY Zenon DEF Typed

LEMMA SetFeeConfigures ==
  ASSUME NEW x, x.kind = "SetFee", x.fee \in FeeChoices, Typed(store, balance), F!SetFee(x.fee)
  PROVE  Configured(x)
  <1>1. Shaped(store)
    BY Zenon DEF Typed
  <1>2. /\ Shaped(store') /\ store'.feeBps = x.fee /\ store'.tiers = store.tiers
        /\ store'.records = store.records /\ store'.paidOut = store.paidOut
        /\ store'.accFees = store.accFees /\ balance' = balance
    BY <1>1 DEF F!SetFee, Shaped
  <1>3. x.fee \in Nat /\ x.fee <= MaxFeeBps
    <2>1. FeeChoices \subseteq Nat
      BY NumbersAssumption
    <2> QED BY <2>1 DEF F!SetFee
  <1>4. Typed(store', balance')
    BY <1>2, <1>3, StillTyped, FieldsKept
  <1> QED BY <1>2, <1>4, Zenon DEF Configured, ConfigArms

\* The arms that touch neither the fee nor the tiers.
LEMMA OthersConfigure ==
  ASSUME NEW x, x.kind \in ConfigArms, Typed(store, balance),
         \/ F!SetFeeTokenWhitelist(x.token, x.enabled)
         \/ F!SetFeeTokenRate(x.token, x.rate)
         \/ F!SetPaused(TRUE) \/ F!SetPaused(FALSE)
  PROVE  Configured(x)
  <1>1. Shaped(store)
    BY Zenon DEF Typed
  <1>2. /\ Shaped(store') /\ store'.feeBps = store.feeBps /\ store'.tiers = store.tiers
        /\ store'.records = store.records /\ store'.paidOut = store.paidOut
        /\ store'.accFees = store.accFees /\ balance' = balance
    <2>1. CASE F!SetFeeTokenWhitelist(x.token, x.enabled)
      BY <1>1, <2>1 DEF F!SetFeeTokenWhitelist, Shaped
    <2>2. CASE F!SetFeeTokenRate(x.token, x.rate)
      BY <1>1, <2>2 DEF F!SetFeeTokenRate, Shaped
    <2>3. CASE F!SetPaused(TRUE) \/ F!SetPaused(FALSE)
      BY <1>1, <2>3 DEF F!SetPaused, Shaped
    <2> QED BY <2>1, <2>2, <2>3
  <1>3. Typed(store', balance')
    BY <1>2, StillTyped, FieldsKept
  <1> QED BY <1>2, <1>3, Zenon DEF Configured

LEMMA ArchivingConfiguresNothing ==
  ASSUME NEW x, Typed(store, balance), F!ArchiveOldEntries(x.count)
  PROVE  Configured(x)
  <1> DEFINE V == F!Visited(x.count)
             old == store.records
             new == [i \in DOMAIN old |-> IF i \in V THEN [old[i] EXCEPT !.archived = TRUE]
                                          ELSE old[i]]
  <1>1. Shaped(store) /\ old \in Seq(F!FundingRecord)
    BY Zenon DEF Typed
  <1>2. /\ Shaped(store') /\ store'.records = new /\ Config(store') = Config(store)
        /\ store'.feeBps = store.feeBps /\ store'.tiers = store.tiers
        /\ store'.accFees = store.accFees /\ store'.paidOut = store.paidOut
        /\ balance' = balance
    BY <1>1 DEF F!ArchiveOldEntries, Shaped, Config
  <1> HIDE DEF V, old
  <1>3. new \in Seq(F!FundingRecord)
    <2>1. Len(old) \in Nat /\ DOMAIN old = 1..Len(old)
      BY <1>1
    <2>2. \A i \in DOMAIN old : old[i] \in F!FundingRecord
      BY <1>1
    <2>3. ASSUME NEW r \in F!FundingRecord
          PROVE  [r EXCEPT !.archived = TRUE] \in F!FundingRecord
      BY Zenon DEF F!FundingRecord
    <2>4. \A i \in DOMAIN old : new[i] \in F!FundingRecord
      BY <2>2, <2>3
    <2>5. new \in [1..Len(old) -> F!FundingRecord]
      BY <2>1, <2>4
    <2> QED BY <2>1, <2>5, SeqDef
  <1> HIDE DEF new
  <1>4. Typed(store', balance')
    BY <1>2, <1>3, StillTyped, FieldsKept
  <1> QED BY <1>2, <1>4, Zenon DEF Configured

LEMMA Replaced ==
  ASSUME NEW S, NEW T, NEW old \in [S -> T], NEW k, NEW v \in T,
         NEW r, r = [old EXCEPT ![k] = v]
  PROVE  /\ r \in [S -> T]
         /\ \A i \in S : r[i] = IF i = k THEN v ELSE old[i]
  OBVIOUS

LEMMA SetRebateTierConfigures ==
  ASSUME NEW x, x.kind = "SetRebateTier", x.tier \in TierChoices, Typed(store, balance),
         F!SetRebateTier(x.tier)
  PROVE  Configured(x)
  <1> DEFINE t == x.tier
             tier == [threshold |-> t.threshold, discount |-> t.discount]
             tiers == [store.tiers EXCEPT ![t.index] = tier]
             count == IF t.index >= store.tierCount THEN t.index + 1 ELSE store.tierCount
  <1>1. Shaped(store)
    BY Zenon DEF Typed
  <1>0. store' = [store EXCEPT !.tiers = tiers, !.tierCount = count] /\ balance' = balance
    BY <1>1 DEF F!SetRebateTier, Shaped
  <1> HIDE DEF tier, tiers, count
  <1>2. /\ Shaped(store') /\ store'.feeBps = store.feeBps /\ store'.tiers = tiers
        /\ store'.records = store.records /\ store'.paidOut = store.paidOut
        /\ store'.accFees = store.accFees /\ balance' = balance
    BY <1>0, <1>1 DEF Shaped
  <1>3. /\ store.tiers \in [0..(MaxTiers - 1) -> F!Tier]
        /\ \A i \in 0..(MaxTiers - 1) : store.tiers[i].discount <= 5000
    BY Zenon DEF Typed
  <1>4. t.discount \in Nat /\ t.threshold \in Nat /\ t.discount <= 5000
    <2>1. t \in [index : Nat, threshold : Nat, discount : Nat]
      BY NumbersAssumption
    <2> QED BY <2>1 DEF F!SetRebateTier
  <1>5. tier \in F!Tier /\ tier.discount <= 5000
    BY <1>4 DEF F!Tier, tier
  <1>6. /\ tiers \in [0..(MaxTiers - 1) -> F!Tier]
        /\ \A i \in 0..(MaxTiers - 1) : tiers[i].discount <= 5000
    <2> DEFINE S == 0..(MaxTiers - 1)
               old == store.tiers
               k == t.index
    <2>1. old \in [S -> F!Tier] /\ \A i \in S : old[i].discount <= 5000
      BY <1>3, Zenon
    <2>2. tiers = [old EXCEPT ![k] = tier]
      BY DEF tiers
    <2> HIDE DEF S, old, k
    <2>3. /\ tiers \in [S -> F!Tier]
          /\ \A i \in S : tiers[i] = IF i = k THEN tier ELSE old[i]
      <3>1. tier \in F!Tier /\ old \in [S -> F!Tier]
        BY <1>5, <2>1
      <3> QED BY <2>2, <3>1, Replaced
    <2>4. ASSUME NEW i \in S PROVE tiers[i].discount <= 5000
      <3>1. CASE i = k
        BY <1>5, <2>3, <3>1
      <3>2. CASE i # k
        BY <2>1, <2>3, <3>2
      <3> QED BY <3>1, <3>2
    <2> QED BY <2>3, <2>4 DEF S
  <1>7. Typed(store', balance')
    BY <1>2, <1>6, StillTyped, FieldsKept
  <1> QED BY <1>2, <1>7, Zenon DEF Configured, ConfigArms

\* Of the arms of execute, one pays and six configure.
LEMMA EffectStep ==
    ASSUME NEW x \in FeeActions, Typed(store, balance), Effect(x)
    PROVE  \/ /\ x \in [kind : {"WithdrawFees"}, to : Recipients, token : Tokens,
                         amount : WithdrawChoices]
              /\ Withdrawn(x)
           \/ Configured(x)
  <1>1. CASE x.kind = "SetFee" /\ F!SetFee(x.fee)
    <2>1. x.fee \in FeeChoices
      BY <1>1 DEF FeeActions
    <2> QED BY <1>1, <2>1, SetFeeConfigures, Zenon
  <1>2. CASE x.kind = "SetFeeTokenWhitelist" /\ F!SetFeeTokenWhitelist(x.token, x.enabled)
    <2>1. x.kind \in ConfigArms
      BY <1>2 DEF ConfigArms
    <2> QED BY <1>2, <2>1, OthersConfigure, Zenon
  <1>3. CASE x.kind = "SetFeeTokenRate" /\ F!SetFeeTokenRate(x.token, x.rate)
    <2>1. x.kind \in ConfigArms
      BY <1>3 DEF ConfigArms
    <2> QED BY <1>3, <2>1, OthersConfigure, Zenon
  <1>4. CASE x.kind = "WithdrawFees" /\ F!WithdrawFees(x.to, x.token, x.amount)
    <2>1. /\ x \in [kind : {"WithdrawFees"}, to : Recipients, token : Tokens,
                    amount : WithdrawChoices]
          /\ x.to \in Recipients /\ x.token \in Tokens /\ x.amount \in WithdrawChoices
      BY <1>4 DEF FeeActions
    <2>2. Withdrawn(x)
      BY <1>4, <2>1, WithdrawFeesPays
    <2> QED BY <2>1, <2>2
  <1>5. CASE x.kind = "Pause" /\ F!SetPaused(TRUE)
    <2>1. x.kind \in ConfigArms
      BY <1>5 DEF ConfigArms
    <2> QED BY <1>5, <2>1, OthersConfigure, Zenon
  <1>6. CASE x.kind = "ArchiveOldEntries" /\ F!ArchiveOldEntries(x.count)
    BY <1>6, ArchivingConfiguresNothing, Zenon
  <1>7. CASE x.kind = "SetRebateTier" /\ F!SetRebateTier(x.tier)
    <2>1. x.tier \in TierChoices
      BY <1>7 DEF FeeActions
    <2> QED BY <1>7, <2>1, SetRebateTierConfigures, Zenon
  <1>8. CASE x.kind = "Unpause" /\ F!SetPaused(FALSE)
    <2>1. x.kind \in ConfigArms
      BY <1>8 DEF ConfigArms
    <2> QED BY <1>8, <2>1, OthersConfigure, Zenon
  <1> QED
    BY <1>1, <1>2, <1>3, <1>4, <1>5, <1>6, <1>7, <1>8, Zenon DEF Effect

Sound == Typed(store, balance)

LEMMA InitSound == Init => Sound
  <1> SUFFICES ASSUME F!Init PROVE Typed(store, balance)
    BY DEF Init, Sound
  <1>1. /\ store.feeBps \in FeeChoices /\ store.feeBps <= MaxFeeBps
        /\ store.tiers = [i \in 0..(MaxTiers - 1) |-> [threshold |-> 0, discount |-> 0]]
        /\ store.records = <<>> /\ store.accFees = 0
        /\ store.paidOut = [x \in F!Holders \X Tokens |-> 0]
        /\ balance = [x \in F!Holders \X Tokens |-> IF x[1] \in Funders THEN Endowment ELSE 0]
    BY DEF F!Init
  <1>2. Shaped(store)
    BY DEF F!Init, Shaped
  <1>3. store.feeBps \in Nat /\ Endowment \in Nat
    <2>1. FeeChoices \subseteq Nat /\ Endowment \in Nat
      BY NumbersAssumption
    <2> QED BY <1>1, <2>1
  <1>4. /\ store.tiers \in [0..(MaxTiers - 1) -> F!Tier]
        /\ \A i \in 0..(MaxTiers - 1) : store.tiers[i].discount <= 5000
    <2>1. [threshold |-> 0, discount |-> 0] \in F!Tier
      BY DEF F!Tier
    <2>2. \A i \in 0..(MaxTiers - 1) : store.tiers[i].discount = 0
      BY <1>1
    <2> QED BY <1>1, <2>1, <2>2
  <1>5. balance \in [D -> Nat] /\ store.paidOut \in [D -> Nat]
    BY <1>1, <1>3 DEF D
  <1>6. store.records \in Seq(F!FundingRecord) /\ store.accFees \in Nat
    BY <1>1
  <1> QED BY <1>1, <1>2, <1>3, <1>4, <1>5, <1>6, Zenon DEF Typed

LEMMA SoundStep == Sound /\ [Next]_vars => Sound'
  <1> SUFFICES ASSUME Typed(store, balance), [Next]_vars PROVE Typed(store', balance')
    BY DEF Sound
  <1>1. CASE UNCHANGED moneyVars
    BY <1>1 DEF moneyVars
  <1>2. ASSUME NEW id \in G!Ids, ExecuteFeeAction(id) PROVE Typed(store', balance')
    <2>1. proposals[id].action \in FeeActions /\ Effect(proposals[id].action)
      BY <1>2, FeeActionsAssumption DEF ExecuteFeeAction, G!ExecuteOther
    <2> QED BY <2>1, EffectStep, Zenon DEF Withdrawn, Configured
  <1>3. CASE F!Funding
    BY <1>3, FundingStep DEF Untouched
  <1> QED
    BY <1>1, <1>2, <1>3 DEF Next, vars

\* GovernedStep with its local definitions given names.
Executed(actions) == \E id \in G!Ids : /\ G!Executes(id)
                                       /\ proposals[id].action \in actions
                                       /\ Cardinality(approvals[id]) >= threshold
Withdrawals(to, tokens) ==
    [kind : {"WithdrawFees"}, to : to, token : tokens, amount : WithdrawChoices]
Governed ==
    /\ \A h \in F!Holders, t \in Tokens :
          /\ balance'[<<h, t>>] < balance[<<h, t>>] =>
                NewFunding(h, t) \/ (h = BridgeAddress /\ Executed(Withdrawals(Recipients, {t})))
          /\ store'.paidOut[<<h, t>>] # store.paidOut[<<h, t>>] => Executed(Withdrawals({h}, {t}))
    /\ store'.accFees < store.accFees => Executed(Withdrawals(Recipients, Tokens))
    /\ Config(store') # Config(store) =>
          Executed({x \in FeeActions : x.kind \notin {"WithdrawFees", "ArchiveOldEntries"}})

LEMMA SameGoverned == Governed => GovernedStep
  BY Zenon DEF Governed, GovernedStep, Executed, Withdrawals, NewFunding

LEMMA NothingIsLess == ASSUME Typed(store, balance)
                       PROVE  /\ ~(store.accFees < store.accFees)
                              /\ \A h \in F!Holders, t \in Tokens :
                                    ~(balance[<<h, t>>] < balance[<<h, t>>])
  <1>1. store.accFees \in Nat /\ balance \in [D -> Nat]
    BY DEF Typed
  <1>2. \A h \in F!Holders, t \in Tokens : balance[<<h, t>>] \in Nat
    BY <1>1 DEF D
  <1> QED BY <1>1, <1>2

LEMMA GovernedStepHolds ==
    ASSUME P!TypeOK, P!ApprovalsCounted, Sound, [Next]_vars
    PROVE  [GovernedStep]_vars
  <1>0. Typed(store, balance)
    BY DEF Sound
  <1>1. CASE UNCHANGED moneyVars
    <2>1. store' = store /\ balance' = balance
      BY <1>1 DEF moneyVars
    <2>2. Governed
      BY <1>0, <2>1, NothingIsLess DEF Governed
    <2> QED BY <2>2, SameGoverned
  <1>2. ASSUME NEW id \in G!Ids, ExecuteFeeAction(id) PROVE Governed
    <2> DEFINE x == proposals[id].action
    <2>1. x \in FeeActions /\ Effect(x) /\ G!Executable(id) /\ G!MarkExecuted(id)
      BY <1>2, FeeActionsAssumption DEF ExecuteFeeAction, G!ExecuteOther
    <2>2. proposals[id] \in P!Proposal /\ proposals[id] # NoProposal
      BY <2>1, SameHelpers DEF P!TypeOK, G!Executable, G!Live, G!Stored
    <2>3. G!Executes(id)
      <3>1. proposals' = [proposals EXCEPT ![id] = [proposals[id] EXCEPT !.executed = TRUE]]
        BY <2>1 DEF G!MarkExecuted
      <3>2. proposals'[id] = [proposals[id] EXCEPT !.executed = TRUE]
        BY <3>1, SameHelpers DEF P!TypeOK
      <3>3. proposals'[id] \in P!Proposal /\ proposals'[id].executed
        BY <2>2, <3>2 DEF P!Proposal
      <3> QED
        BY <2>1, <2>2, <3>3, GovernanceAssumptions DEF G!Executes, G!Executable, G!Live, G!Stored
    <2>4. Cardinality(approvals[id]) >= threshold
      BY <2>1, <2>2, SameHelpers, SameCardinality
         DEF P!ApprovalsCounted, G!Executable, G!Live, P!Stored
    <2>5. \A actions : x \in actions => Executed(actions)
      BY <2>3, <2>4 DEF Executed
    <2> HIDE DEF x
    <2>6. CASE /\ x \in [kind : {"WithdrawFees"}, to : Recipients, token : Tokens,
                         amount : WithdrawChoices]
               /\ Withdrawn(x)
      <3>1. /\ x \in Withdrawals(Recipients, Tokens)
            /\ x \in Withdrawals(Recipients, {x.token})
            /\ x \in Withdrawals({x.to}, {x.token})
        BY <2>6 DEF Withdrawals
      <3> QED BY <2>5, <2>6, <3>1, Zenon DEF Withdrawn, Governed
    <2>7. CASE Configured(x)
      <3>1. Config(store') # Config(store) =>
               x \in {y \in FeeActions : y.kind \notin {"WithdrawFees", "ArchiveOldEntries"}}
        BY <2>1, <2>7 DEF Configured, ConfigArms
      <3>2. /\ balance' = balance /\ store'.paidOut = store.paidOut
            /\ store'.accFees = store.accFees
        BY <2>7 DEF Configured
      <3> QED BY <1>0, <2>5, <3>1, <3>2, NothingIsLess, Zenon DEF Governed
    <2> QED BY <1>0, <2>1, <2>6, <2>7, EffectStep, Zenon
  <1>3. ASSUME F!Funding PROVE Governed
    <2>1. Untouched
      BY <1>0, <1>3, FundingStep
    <2>2. ~(store'.accFees < store.accFees)
      <3>1. store.accFees \in Nat /\ store'.accFees \in Nat /\ store.accFees <= store'.accFees
        BY <1>0, <2>1, Zenon DEF Typed, Untouched
      <3> QED BY <3>1
    <2> QED BY <2>1, <2>2 DEF Untouched, Governed
  <1> QED
    BY <1>1, <1>2, <1>3, SameGoverned DEF Next, vars

\* Money is taken from nobody but the sources of fundings, fees are paid out to whom, and in
\* the token that, a proposal said, and fees and configuration change by executing, for the
\* only time, a proposal for just that with threshold distinct approvers.
THEOREM MoneyNeedsApproval == Spec => MoneyIsGoverned
  <1>1. Spec => []Sound
    BY InitSound, SoundStep, PTL DEF Spec
  <1> QED
    BY <1>1, GovernanceInvariants, GovernedStepHolds, PTL DEF Spec, MoneyIsGoverned
===============================================================================
