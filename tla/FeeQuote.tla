------------------------------- MODULE FeeQuote -------------------------------
\* The fee that GET /quote tells a funder, beside the fee the contract charges if they fund
\* right after. The instance for TLC is here too: one funder, two tokens,
\* and amounts for which a rebate and the rounding of the fee both make a difference.
EXTENDS BridgeFunds, TLC

CONSTANTS user, A, B,
          ConfigFeeBps     \* config.soroban.feeBps, from BRIDGE_FEE_BPS

ASSUME ConfigAssumption == ConfigFeeBps \in Nat

MCTiers == {[index |-> 1, threshold |-> 20, discount |-> 5000],
            [index |-> 0, threshold |-> 0, discount |-> 6000]}

MCSymmetry == Permutations(Funders) \cup Permutations(Tokens)

-------------------------------------------------------------------------------
\* getContractFeeBps reads fee_bps and rebate_for with a placeholder account that is not a
\* valid address, so both reads throw before they reach the network: the configured rate
\* stands in for the contract's, no rebate is known, and nothing is ever put in feeBpsCache.
QuotedBps == ConfigFeeBps

\* getQuote: the same for every asset and address, and for ever, so a quote that comes from a
\* cache is the one that would be computed.
QuotedFee(amount) == (amount * QuotedBps) \div 10000

New == (Len(store.records) + 1)..Len(store'.records)

\* What a quote is worth although it knows neither the contract's rate nor its rebates: nobody
\* is charged more than quoted as long as governance has not raised the rate above the
\* configured one, nor less than half of it, rounding aside, unless it has lowered the rate;
\* and exactly what was quoted while the rates are equal and no tier is set. Entries of a batch
\* whose first one earns the rebate of the second are included.
QuoteBounds(r) ==
    /\ store.feeBps <= ConfigFeeBps => r.fee <= QuotedFee(r.amount)
    /\ store.feeBps >= ConfigFeeBps => 2 * (r.fee + 1) > QuotedFee(r.amount)
    /\ store.feeBps = ConfigFeeBps /\ store.tierCount = 0 => r.fee = QuotedFee(r.amount)
FeesWithinQuote == [][FeeBoundsStep /\ \A i \in New : QuoteBounds(store'.records[i])]_vars

\* A funder is charged what a quote promised the moment before: services/soroban.ts says
\* of getQuote that it "always reflects current governance settings and per-user rebates".
QuoteIsCharged ==
    [][\A i \in New : store'.records[i].fee = QuotedFee(store'.records[i].amount)]_vars
===============================================================================
