------------------------------ MODULE ClientCalls ------------------------------
\* What applications do besides funding: withdraw from an exchange, list transactions, turn
\* what a user typed into an amount, diagnose the connection, compare onramp quotes, be
\* throttled, or test against the mock server. Each is a component of its own; they share
\* no state, so an execution runs one of them.
EXTENDS Withdrawals, Integers, TLC

CONSTANTS
    Ttl,                                                        \* of Diagnostics
    MaxTransactions, PageSizes,                                 \* of Pagination
    Whole, Fractions, Assets,                                   \* of Amounts
    Paths, Known, Matchers, Outcomes, MaxRoutes, MaxRequests,   \* of MockServer
    Offers,                                                     \* of OnrampQuotes
    Window, MaxFlagged, MaxClock, MaxOpen                       \* of Throttling

\* For TLC: two API processes and two withdrawals, with a legacy key and one that an
\* administrator creates.
CONSTANTS p1, p2, c1, c2
MCSymmetry == Permutations({p1, p2}) \cup Permutations({c1, c2})

\* From no digit to one more than any token has.
MCFractions == {<<>>, <<0>>, <<5>>, <<2, 0>>, <<0, 0, 0, 0, 0, 1>>, <<0, 0, 0, 0, 0, 0, 7>>,
                <<9, 9, 9, 9, 9, 9, 9>>, <<1, 0, 0, 0, 0, 0, 0, 0>>}

\* The larger offer is not always the better one.
MCOffers == [crypto : {8, 9}, fee : {0, 2}]

ASSUME KeysAssumption == Legacy \cap Created = {}
ASSUME CountsAssumption ==
    MaxRetries \in Nat /\ MaxAttempts \in Nat /\ MaxRequests \in Nat /\ MaxRoutes \in Nat
ASSUME TtlAssumption == Ttl \in Nat \ {0}
ASSUME TypedAssumption == Whole \subseteq Nat /\ Fractions \subseteq Seq(0..9)
ASSUME PagesAssumption == MaxTransactions \in Nat /\ PageSizes \subseteq Int
ASSUME OffersAssumption == Offers \subseteq [crypto : Int, fee : Int]
ASSUME WindowsAssumption ==
    Window \in Nat \ {0} /\ MaxFlagged \in Nat \ {0} /\ MaxClock \in Nat /\ MaxOpen \in Nat

VARIABLES
    part,       \* the component of this execution
    serves, since, cached, refreshing, at, waiting, found, silent, failing,
    total, size, cursor, phase, collected, aborted,
    asset, typed, units, shown, sent,
    fetch, original, overrides, recorded, delayed, answered, last, nested,
    asking, timed, offer, compared, comparison,
    clock, bucket, open, flagged, refused

D == INSTANCE Diagnostics
P == INSTANCE Pagination
A == INSTANCE Amounts
M == INSTANCE MockServer
Q == INSTANCE OnrampQuotes
T == INSTANCE Throttling

diagnosisVars == <<serves, since, cached, refreshing, at, waiting, found, silent, failing>>
pageVars      == <<total, size, cursor, phase, collected, aborted>>
amountVars    == <<asset, typed, units, shown, sent>>
mockVars      == <<fetch, original, overrides, recorded, delayed, answered, last, nested>>
onrampVars    == <<asking, timed, offer, compared, comparison>>
throttleVars  == <<clock, bucket, open, flagged, refused>>

\* What does not change while one part runs.
dataVars      == <<pageVars, amountVars>>
serverVars    == <<onrampVars, throttleVars>>
clientVars    == <<part, vars, diagnosisVars, dataVars, mockVars, serverVars>>

-------------------------------------------------------------------------------
\* A component that does not run stays in one initial state.
IdleWithdrawal == \A c, d \in Calls : call[c] = call[d] /\ call[c].key \in Legacy
IdleOnramp ==
    \A p \in Q!Providers : asking[p] = "rejected" /\ offer[p] = CHOOSE o \in Offers : TRUE

Starts ==
    /\ part \in {"withdrawal", "diagnosis", "pages", "amount", "mock", "onramp", "throttling"}
    /\ Init   /\ (part = "withdrawal" \/ IdleWithdrawal)
    /\ D!Init /\ (part = "diagnosis" \/ \A e \in DOMAIN serves : serves[e])
    /\ P!Init /\ (part = "pages" \/ (total = 0 /\ size = 0))
    /\ A!Init /\ (part = "amount" \/ (asset = "XLM" /\ typed = A!Text(FALSE, 0, <<>>)))
    /\ M!Init
    /\ Q!Init /\ (part = "onramp" \/ IdleOnramp)
    /\ T!Init

Step ==
    /\ UNCHANGED part
    /\ \/ part = "withdrawal" /\ Next
          /\ UNCHANGED <<diagnosisVars, dataVars, mockVars, serverVars>>
       \/ part = "diagnosis"  /\ D!DiagnosisNext
          /\ UNCHANGED <<vars, dataVars, mockVars, serverVars>>
       \/ part = "pages"      /\ P!PageNext
          /\ UNCHANGED <<vars, diagnosisVars, amountVars, mockVars, serverVars>>
       \/ part = "amount"     /\ A!AmountNext
          /\ UNCHANGED <<vars, diagnosisVars, pageVars, mockVars, serverVars>>
       \/ part = "mock"       /\ M!MockNext
          /\ UNCHANGED <<vars, diagnosisVars, dataVars, serverVars>>
       \/ part = "onramp"     /\ Q!OnrampNext
          /\ UNCHANGED <<vars, diagnosisVars, dataVars, mockVars, throttleVars>>
       \/ part = "throttling" /\ T!ThrottleNext
          /\ UNCHANGED <<vars, diagnosisVars, dataVars, mockVars, onrampVars>>

Calling == Starts /\ [][Step]_clientVars

-------------------------------------------------------------------------------
\* Withdrawals has its properties by their own names. Those of the other components:

\* What the client says of the service is true, cached answers included, and what it
\* collects over pages is complete and in order.
ReportsAreTrue ==
    /\ part = "diagnosis" => D!DiagnosisSound
    /\ part = "pages" => P!PagesSound

\* Amounts reach the exchange as typed, but for the decimals the two sides differ in.
AmountsAreTold == part = "amount" => A!AmountsSound

\* A route answers what it should: the best quote is compared among all that came, a
\* request is refused for recent misbehaviour only, and the mock server answers as tests
\* declared and gives the real fetch back.
RoutesAreFair ==
    /\ part = "onramp" => Q!OnrampSound
    /\ part = "throttling" => T!ThrottleSound
    /\ part = "mock" => M!MockSound
===============================================================================
