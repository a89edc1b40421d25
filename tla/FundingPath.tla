----------------------------- MODULE FundingPath ------------------------------
\* A funding from the page to the contract: the React hooks that quote and fund step by
\* step, the submission through SDK and API to the network, and the contract's books. No
\* envelope that a prepared funding yields passes the API's rules, see Envelope, so what
\* they have in common is the user and not the state: an execution runs one of them.
EXTENDS FeeQuote

CONSTANTS
    Providers, MaxRetries, MaxRequests,                \* of Submission
    Params, CacheKey, NoParams, MaxRefetches,          \* of QuoteHook
    MaxPrepares, MaxCalls                              \* of FundHook

ASSUME CountsAssumption ==
    /\ Providers \in Nat \ {0} /\ MaxRetries \in Nat /\ MaxRequests \in Nat \ {0}
    /\ MaxRefetches \in Nat /\ MaxPrepares \in Nat /\ MaxCalls \in Nat

MCCacheKey == "p1" :> "k1" @@ "p2" :> "k2"

VARIABLES
    part,       \* the component of this execution
    chain, elapsed, tracked, lagging, envelope, call, keyGiven, key, replaying, retries,
    requests, stored, locked, server, active, expired,
    params, enabled, due, data, failed, loading, quoteRequests, cache, epoch, overtaken,
    attempt, step, prepared, result, fundFailed, fundKey, made, calls, sent

S == INSTANCE Submission
Q == INSTANCE QuoteHook WITH requests <- quoteRequests
F == INSTANCE FundHook WITH failed <- fundFailed, key <- fundKey, MaxAttempts <- MaxPrepares

submissionVars == <<chain, elapsed, tracked, lagging, envelope, call, keyGiven, key, replaying,
                    retries, requests, stored, locked, server, active, expired>>
quoteVars == <<params, enabled, due, data, failed, loading, quoteRequests, cache, epoch, overtaken>>
fundVars  == <<attempt, step, prepared, result, fundFailed, fundKey, made, calls, sent>>

-------------------------------------------------------------------------------
\* A component that does not run stays in one initial state.
Starts ==
    /\ part \in {"contract", "submission", "quote", "fund"}
    /\ Init   /\ (part = "contract" \/ store.feeBps = MaxFeeBps)
    /\ S!Init /\ (part = "submission" \/ (envelope = "sound" /\ keyGiven))
    /\ Q!Init /\ (part = "quote" \/ (params = NoParams /\ enabled))
    /\ F!Init

Step ==
    /\ UNCHANGED part
    /\ \/ part = "contract"   /\ Next        /\ UNCHANGED <<submissionVars, quoteVars, fundVars>>
       \/ part = "submission" /\ S!Next      /\ UNCHANGED <<vars, quoteVars, fundVars>>
       \/ part = "quote"      /\ Q!QuoteNext /\ UNCHANGED <<vars, submissionVars, fundVars>>
       \/ part = "fund"       /\ F!FundNext  /\ UNCHANGED <<vars, submissionVars, quoteVars>>

FundsFlow == Starts /\ [][Step]_<<part, vars, submissionVars, quoteVars, fundVars>>

-------------------------------------------------------------------------------
\* The promises of Submission: the application is told what is so, and a drain cuts off
\* no request whose client is on the line.
SubmissionsAreTrue == (part = "submission" => S!OutcomesAreTrue) /\ S!DrainedClean

\* Those of the hooks: quotes are shown against their params and refetch bypasses the
\* cache; answers of abandoned attempts are not shown, and each attempt has its own key.
HooksAreSound == (part = "quote" => Q!QuoteHookSound) /\ (part = "fund" => F!FundHookSound)
===============================================================================
