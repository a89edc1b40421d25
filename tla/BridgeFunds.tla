----------------------------- MODULE BridgeFunds ------------------------------
(***************************************************************************)
(* The money side of the OnboardingBridge contract: fund_c_address,        *)
(* batch_fund_c_address and route_from_exchange with the internal transfer *)
(* they share, and what the fee, rebate, pause, withdrawal and archive     *)
(* arms of execute do.  Who may make execute do it is Governance's         *)
(* business; here every arm may run at any time.                           *)
(*                                                                         *)
(* The contract's storage is the record "store" and the token contracts'   *)
(* balances are "balance".  A call that returns an error or panics is      *)
(* reverted by the host, so its checks are its guard.                      *)
(***************************************************************************)
EXTENDS Integers, Sequences, FiniteSets, FiniteSetsExt

CONSTANTS
    Funders,      \* sources that can sign: G-accounts, exchanges, smart wallets
    Wallets,      \* C-addresses, which the contract's own address is too
    GAccounts,    \* addresses that are not C-addresses, as targets
    Recipients,   \* to whom proposals withdraw fees: any address
    Bridge,       \* the contract itself
    Tokens,
    Amounts,      \* amounts that callers try
    MinAmount, MaxAmount, MaxFeeBps,    \* fixed at initialize
    FeeChoices,   \* arguments of SetFee
    RateChoices,  \* arguments of SetFeeTokenRate
    TierChoices,  \* arguments of SetRebateTier: [index, threshold, discount]
    MaxTiers,     \* MAX_TIERS, 50 in the code (l. 79)
    WithdrawChoices,    \* amounts of WithdrawFees, 0 standing for "all"
    ArchiveChoices,     \* arguments of ArchiveOldEntries
    Endowment,    \* what a funder owns of each token at first
    MaxFundings,  \* bound on the number of funding records
    MaxArchives   \* bound on the number of archive calls

\* The source of a funding is whoever signs for the transfer, or the contract itself: for
\* its own money the token contract asks for no signature.
Payers  == Funders \cup {Bridge}
Holders == Payers \cup Wallets \cup Recipients
FundingRecord == [source : Payers, target : Wallets, token : Tokens,
                  amount : Nat, fee : Nat, archived : BOOLEAN]
Tier == [threshold : Nat, discount : Nat]

\* Nobody signs for the contract; otherwise the parties may be anybody, and one
\* account may be several of them.
ASSUME PartiesAssumption ==
    /\ IsFiniteSet(Tokens)
    /\ IsFiniteSet(Funders) /\ IsFiniteSet(Wallets) /\ IsFiniteSet(Recipients)
    /\ Bridge \notin Funders
ASSUME NumbersAssumption ==
    /\ Amounts \subseteq Nat /\ WithdrawChoices \subseteq Nat
    /\ MinAmount \in Nat \ {0} /\ MaxAmount \in Nat
    /\ MaxFeeBps \in 0..10000 /\ Endowment \in Nat
    /\ FeeChoices \subseteq Nat /\ RateChoices \subseteq Nat
    /\ ArchiveChoices \subseteq Nat /\ MaxFundings \in Nat /\ MaxArchives \in Nat
    /\ MaxTiers \in Nat
    /\ TierChoices \subseteq [index : Nat, threshold : Nat, discount : Nat]

VARIABLES store, balance

vars == <<store, balance>>

Store == [feeBps        : Nat,
          paused        : BOOLEAN,
          whitelist     : SUBSET Tokens,
          rate          : [Tokens -> Nat],
          tiers         : [0..(MaxTiers - 1) -> Tier],
          tierCount     : Nat,
          accFees       : Nat,
          accByToken    : [Tokens -> Nat],
          userVolume    : [Payers \X Tokens -> Nat],
          records       : Seq(FundingRecord),
          hotCount      : Nat,
          totalVolume   : Nat,
          volumeByToken : [Tokens -> Nat],
          funders       : SUBSET Payers,
          funderCount   : Nat,
          nextRecord    : Nat,
          archives      : Nat,
          paidOut       : [Holders \X Tokens -> Nat]]   \* history: withdrawn, by whom

\* The contract right after a successful initialize, nothing funded yet.
Init == /\ \E fee \in FeeChoices :
             /\ fee <= MaxFeeBps
             /\ store =
                  [feeBps |-> fee, paused |-> FALSE, whitelist |-> {},
                   rate |-> [t \in Tokens |-> 10000],
                   tiers |-> [i \in 0..(MaxTiers - 1) |-> [threshold |-> 0, discount |-> 0]],
                   tierCount |-> 0, accFees |-> 0,
                   accByToken |-> [t \in Tokens |-> 0],
                   userVolume |-> [x \in Payers \X Tokens |-> 0],
                   records |-> <<>>, hotCount |-> 0, totalVolume |-> 0,
                   volumeByToken |-> [t \in Tokens |-> 0],
                   funders |-> {}, funderCount |-> 0,
                   nextRecord |-> 1, archives |-> 0,
                   paidOut |-> [x \in Holders \X Tokens |-> 0]]
        /\ balance = [x \in Holders \X Tokens |->
                         IF x[1] \in Funders THEN Endowment ELSE 0]

-------------------------------------------------------------------------------
(* fund_c_address_internal as a function from one contract state to the next.
   An item is what one call, or one entry of a batch, asks for. *)

Item == [source : Payers, target : Wallets \cup GAccounts, token : Tokens,
         amount : Amounts]

\* Discounts of the tiers whose volume threshold the funder has reached.
Earned(s, src, tok) ==
    {s.tiers[i].discount : i \in {j \in 0..(MaxTiers - 1) :
        j < s.tierCount /\ s.userVolume[<<src, tok>>] >= s.tiers[j].threshold}}

\* rebate_bps: the largest of them, 0 when there is none.
RebateBps(s, src, tok) ==
    CHOOSE d \in Earned(s, src, tok) \cup {0} : \A e \in Earned(s, src, tok) : e <= d

\* Faulty variant of Fee: the division by 10 000 rounds up.
FeeRoundedUp(s, it) ==
    LET bps == s.feeBps - (s.feeBps * RebateBps(s, it.source, it.token)) \div 10000
    IN  (it.amount * bps + 9999) \div 10000

Fee(s, it) ==
    LET bps == s.feeBps - (s.feeBps * RebateBps(s, it.source, it.token)) \div 10000
    IN  (it.amount * bps) \div 10000

\* The checks; the source's own balance is checked by the token contract.
Accepts(bal, it) == /\ MinAmount <= it.amount
                    /\ it.amount <= MaxAmount
                    /\ it.amount <= bal[<<it.source, it.token>>]

\* token transfer: what the token contract does to the balances.
Moved(bal, tok, from, to, amount) ==
    LET debited == [bal EXCEPT ![<<from, tok>>] = @ - amount]
    IN  [debited EXCEPT ![<<to, tok>>] = @ + amount]

\* The two token transfers: the whole amount in, the amount less the fee out.
Paid(s, bal, it) ==
    LET received == Moved(bal, it.token, it.source, Bridge, it.amount)
    IN  Moved(received, it.token, Bridge, it.target, it.amount - Fee(s, it))

\* What the call adds to AccumulatedFeesByToken.
TokenFee(s, it) == IF it.token \in s.whitelist
                   THEN (Fee(s, it) * s.rate[it.token]) \div 10000 ELSE 0

\* Faulty variant of Funded: every funding counts a unique funder, and the
\* record is not counted as hot.
FundedMiscounted(s, it) ==
    [s EXCEPT !.accFees = @ + Fee(s, it),
              !.accByToken[it.token] = @ + TokenFee(s, it),
              !.userVolume[<<it.source, it.token>>] = @ + it.amount,
              !.records = Append(@, [source |-> it.source, target |-> it.target,
                                     token |-> it.token, amount |-> it.amount,
                                     fee |-> Fee(s, it), archived |-> FALSE]),
              !.totalVolume = @ + it.amount,
              !.volumeByToken[it.token] = @ + it.amount,
              !.funders = @ \cup {it.source},
              !.funderCount = @ + 1]

Funded(s, it) ==
    [s EXCEPT !.accFees = @ + Fee(s, it),
              !.accByToken[it.token] = @ + TokenFee(s, it),
              !.userVolume[<<it.source, it.token>>] = @ + it.amount,
              !.records = Append(@, [source |-> it.source, target |-> it.target,
                                     token |-> it.token, amount |-> it.amount,
                                     fee |-> Fee(s, it), archived |-> FALSE]),
              !.hotCount = @ + 1,
              !.totalVolume = @ + it.amount,
              !.volumeByToken[it.token] = @ + it.amount,
              !.funders = @ \cup {it.source},
              !.funderCount = IF it.source \in s.funders THEN @ ELSE @ + 1]

\* fund_c_address, and route_from_exchange for an exchange: the same checks.  The first
\* does not ask the source for authorisation and does not exclude the contract itself.
FundCAddress(it) ==
    /\ it.target \in Wallets
    /\ ~store.paused
    /\ Accepts(balance, it)
    /\ Len(store.records) < MaxFundings
    /\ store' = Funded(store, it)
    /\ balance' = Paid(store, balance, it)

\* batch_fund_c_address for a batch of two; a batch of one is a batch of two
\* cut short.  The second entry sees the state the first one left.  The source
\* must authorise the call, which the contract cannot.
BatchFundCAddress(it1, it2) ==
    LET store1   == Funded(store, it1)
        balance1 == Paid(store, balance, it1)
    IN  /\ it1.source \in Funders
        /\ it1.source = it2.source
        /\ it1.target \in Wallets /\ it2.target \in Wallets
        /\ Accepts(balance, it1)
        /\ Accepts(balance1, it2)
        /\ Len(store1.records) < MaxFundings
        /\ store' = Funded(store1, it2)
        /\ balance' = Paid(store1, balance1, it2)

BatchFundOne(it) == /\ it.source \in Funders
                    /\ it.target \in Wallets
                    /\ Accepts(balance, it)
                    /\ Len(store.records) < MaxFundings
                    /\ store' = Funded(store, it)
                    /\ balance' = Paid(store, balance, it)

-------------------------------------------------------------------------------
(* The arms of execute that touch money or fee configuration. *)

SetFee(fee) == /\ fee <= MaxFeeBps
               /\ store' = [store EXCEPT !.feeBps = fee]
               /\ UNCHANGED balance

SetFeeTokenWhitelist(tok, enabled) ==
    /\ store' = [store EXCEPT !.whitelist = IF enabled THEN @ \cup {tok} ELSE @ \ {tok}]
    /\ UNCHANGED balance

SetFeeTokenRate(tok, rate) ==
    /\ rate >= 1000
    /\ rate <= 20000
    /\ store' = [store EXCEPT !.rate[tok] = rate]
    /\ UNCHANGED balance

SetPaused(value) == /\ store' = [store EXCEPT !.paused = value]
                    /\ UNCHANGED balance

SetRebateTier(t) ==
    /\ t.discount <= 5000
    /\ t.index < MaxTiers
    /\ store' = [store EXCEPT
                    !.tiers[t.index] = [threshold |-> t.threshold, discount |-> t.discount],
                    !.tierCount = IF t.index >= @ THEN t.index + 1 ELSE @]
    /\ UNCHANGED balance

\* Faulty variant of WithdrawFees: what is paid out is not taken off the total.
WithdrawFeesTwice(to, tok, amount) ==
    LET paid == IF amount = 0 THEN store.accFees ELSE amount
    IN  /\ paid <= store.accFees
        /\ paid <= balance[<<Bridge, tok>>]
        /\ store' = [store EXCEPT !.accByToken[tok] = 0,
                                  !.paidOut[<<to, tok>>] = @ + paid]
        /\ balance' = Moved(balance, tok, Bridge, to, paid)

\* amount 0 means everything, but of two different counters: the token's own
\* counter is emptied, the sum over all tokens is what is paid out.  The money may
\* be less than the counters say, see FundCAddress: then the transfer fails.
WithdrawFees(to, tok, amount) ==
    LET ofToken == IF amount = 0 THEN store.accByToken[tok] ELSE amount
        paid    == IF amount = 0 THEN store.accFees ELSE amount
    IN  /\ ofToken <= store.accByToken[tok]
        /\ paid <= store.accFees
        /\ paid <= balance[<<Bridge, tok>>]
        /\ store' = [store EXCEPT !.accByToken[tok] = @ - ofToken,
                                  !.accFees = @ - paid,
                                  !.paidOut[<<to, tok>>] = @ + paid]
        /\ balance' = Moved(balance, tok, Bridge, to, paid)

\* The records one archive call visits: it starts where the last one ended and
\* may run past the newest record.
ArchiveEnd(count) == store.nextRecord - 1 +
    (IF count > Len(store.records) THEN Len(store.records) ELSE count)
Visited(count) == {i \in DOMAIN store.records :
                      store.nextRecord <= i /\ i <= ArchiveEnd(count)}

ArchiveOldEntries(count) ==
    LET hot == {i \in Visited(count) : ~store.records[i].archived} IN
    /\ count > 0
    /\ store.records # <<>>
    /\ store.archives < MaxArchives
    /\ store' = [store EXCEPT
                    !.records = [i \in DOMAIN @ |->
                        IF i \in Visited(count) THEN [@[i] EXCEPT !.archived = TRUE]
                                                ELSE @[i]],
                    !.hotCount = IF @ < Cardinality(hot) THEN 0 ELSE @ - Cardinality(hot),
                    !.archives = @ + 1,
                    !.nextRecord = ArchiveEnd(count) + 1]
    /\ UNCHANGED balance

Funding == \/ \E it \in Item : FundCAddress(it)
           \/ \E it1, it2 \in Item : BatchFundCAddress(it1, it2)
           \/ \E it \in Item : BatchFundOne(it)

FeeGovernance ==
    \/ \E fee \in FeeChoices : SetFee(fee)
    \/ \E tok \in Tokens, enabled \in BOOLEAN : SetFeeTokenWhitelist(tok, enabled)
    \/ \E tok \in Tokens, rate \in RateChoices : SetFeeTokenRate(tok, rate)
    \/ \E value \in BOOLEAN : SetPaused(value)
    \/ \E t \in TierChoices : SetRebateTier(t)
    \/ \E to \in Recipients, tok \in Tokens, amount \in WithdrawChoices :
          WithdrawFees(to, tok, amount)
    \/ \E count \in ArchiveChoices : ArchiveOldEntries(count)

Next == Funding \/ FeeGovernance

Spec == Init /\ [][Next]_vars
-------------------------------------------------------------------------------
\* Type correctness: every counter of the contract's storage stays natural.
TypeOK == /\ store \in Store
          /\ balance \in [Holders \X Tokens -> Nat]

Hot == {i \in DOMAIN store.records : ~store.records[i].archived}

\* hot_count, which storage_usage reports, is the number of records that are
\* not archived, although fundings and archive calls that overlap or overrun
\* the newest record all adjust it.
HotCountExact == store.hotCount = Cardinality(Hot)

RecordsOf(P(_)) == {i \in DOMAIN store.records : P(store.records[i])}
SumAmount(ids) == SumFunctionOnSet([i \in DOMAIN store.records |-> store.records[i].amount], ids)
SumFee(ids)    == SumFunctionOnSet([i \in DOMAIN store.records |-> store.records[i].fee], ids)

\* The analytics counters, each kept by its own read and write in the internal
\* funding function, agree with the funding records, batches included.
CountersMatchRecords ==
    /\ \A f \in Payers, t \in Tokens :
          store.userVolume[<<f, t>>] = SumAmount(RecordsOf(LAMBDA r : r.source = f /\ r.token = t))
    /\ \A t \in Tokens : store.volumeByToken[t] = SumAmount(RecordsOf(LAMBDA r : r.token = t))
    /\ store.totalVolume = SumAmount(DOMAIN store.records)
    /\ store.funderCount = Cardinality({store.records[i].source : i \in DOMAIN store.records})

HeldBy(h) == SumFunction([t \in Tokens |-> balance[<<h, t>>]])
PaidOutTo(h) == SumFunction([t \in Tokens |-> store.paidOut[<<h, t>>]])

\* AccumulatedFees is the fees of all records less what was withdrawn (the fuzz
\* target's invariant I4). The contract's money is that, plus what was sent to it
\* and stayed, less what it was named as the source of: a funding from the contract
\* is the one way in which it comes to hold less than its counter of fees.
FeesAccountedFor ==
    LET toSelf   == RecordsOf(LAMBDA r : r.target = Bridge)
        fromSelf == RecordsOf(LAMBDA r : r.source = Bridge)
    IN  /\ store.accFees + SumFunction(store.paidOut) = SumFee(DOMAIN store.records)
        /\ HeldBy(Bridge) = store.accFees + PaidOutTo(Bridge)
               + SumAmount(toSelf) - SumFee(toSelf) - SumAmount(fromSelf)

\* Everybody else has what they started with, less what they were the source of, plus what
\* was sent to them net of the fee and what proposals paid them, whoever plays which part.
BalanceMatches(h, t) ==
    LET sent     == RecordsOf(LAMBDA r : r.source = h /\ r.token = t)
        received == RecordsOf(LAMBDA r : r.target = h /\ r.token = t)
    IN  balance[<<h, t>>] + SumAmount(sent) =
            (IF h \in Funders THEN Endowment ELSE 0) + store.paidOut[<<h, t>>]
            + SumAmount(received) - SumFee(received)
BalancesMatchRecords == \A h \in Holders \ {Bridge}, t \in Tokens : BalanceMatches(h, t)

\* No funding ever paid more than the fee cap fixed at initialize, whatever the
\* rate and rebate proposals executed before it.
FeeWithinCap ==
    \A i \in DOMAIN store.records :
        store.records[i].fee * 10000 <= store.records[i].amount * MaxFeeBps

\* Every fee stays within the cap and the contract's counter of fees is honest.
FeesExact == FeesAccountedFor /\ FeeWithinCap

\* What the contract counts is what its records and the tokens' balances say.
CountersExact == TypeOK /\ HotCountExact /\ CountersMatchRecords /\ BalancesMatchRecords

\* Every new record's fee lies between the current rate and, rounding aside,
\* half of it: rebates are capped at 50%, for each entry of a batch, the second
\* of which already counts the first one's volume.
FeeBoundsStep ==
    \A i \in DOMAIN store'.records \ DOMAIN store.records :
        LET r == store'.records[i] IN
        /\ r.fee * 10000 <= r.amount * store.feeBps
        /\ (r.fee + 1) * 20000 > r.amount * store.feeBps
FeeBounds == [][FeeBoundsStep]_vars

\* What test_batch_fund_blocked_when_paused states: nothing is funded while the
\* contract is paused.
PauseStep == store.paused => Len(store'.records) = Len(store.records)
PauseStopsFunding == [][PauseStep]_vars

\* What test_funding_with_whitelisted_fee_token_accrues_token_fees and its
\* sequel state: the counter of a token is the fee amount the bridge holds in
\* that token, whatever its whitelist flag and display rate.
TokenCounterIsHeld ==
    \A t \in Tokens : store.accByToken[t] =
        SumFee(RecordsOf(LAMBDA r : r.token = t))
        - SumFunctionOnSet(store.paidOut, Holders \X {t})
===============================================================================
