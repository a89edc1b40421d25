----------------------------- MODULE OnrampQuotes ------------------------------
\* GET /offramp/quote: both onramp providers are asked at once, each behind its circuit
\* breaker and with a timer of its own, and the answer waits for both. What a breaker makes
\* of the calls is the subject of CircuitBreaker; here it may refuse one at any time.
EXTENDS Integers, Sequences, SequencesExt

CONSTANTS
    Offers     \* what a provider may offer: [crypto, fee]

Providers == {"moonpay", "transak"}

VARIABLES
    asking,    \* [Providers -> where getBuyQuote is]
    timed,     \* providers whose abort timer is set
    offer,     \* [Providers -> what it would answer]
    compared,  \* the route has answered
    comparison \* of the answer: the providers, the best first; none of them is a 503

onrampVars == <<asking, timed, offer, compared, comparison>>

Settled == {"fulfilled", "rejected"}
Fulfilled == {p \in Providers : asking[p] = "fulfilled"}

\* netAmount. MoonPay is asked for amounts that include its fee.
Net(p) == IF p = "moonpay" THEN offer[p].crypto ELSE offer[p].crypto - offer[p].fee

OnrampTypeOK ==
    /\ asking \in [Providers -> Settled \cup {"fetching", "reading"}]
    /\ timed \subseteq Providers
    /\ offer \in [Providers -> Offers]
    /\ compared \in BOOLEAN /\ comparison \in Seq(Providers)

-------------------------------------------------------------------------------
\* The request comes in. An open breaker throws at once.
Init ==
    /\ asking \in [Providers -> {"fetching", "rejected"}]
    /\ timed = {p \in Providers : asking[p] = "fetching"}
    /\ offer \in [Providers -> Offers]
    /\ compared = FALSE /\ comparison = <<>>

\* fetch resolves with the headers, and the timer is cleared. A 5xx throws inside the
\* breaker, any other error status outside.
Headers(p) ==
    /\ asking[p] = "fetching"
    /\ \E next \in {"reading", "rejected"} : asking' = [asking EXCEPT ![p] = next]
    /\ timed' = timed \ {p}
    /\ UNCHANGED <<offer, compared, comparison>>

\* The network fails, or the timer aborts the request.
FetchFails(p) ==
    /\ asking[p] = "fetching"
    /\ asking' = [asking EXCEPT ![p] = "rejected"] /\ timed' = timed \ {p}
    /\ UNCHANGED <<offer, compared, comparison>>

\* The body is complete: numbers where they are expected, or not.
Body(p) ==
    /\ asking[p] = "reading"
    /\ \E next \in Settled : asking' = [asking EXCEPT ![p] = next]
    /\ UNCHANGED <<timed, offer, compared, comparison>>

\* Faulty variant of Sorted: by the amounts before the fee.
SortedGross(order) ==
    \A i, j \in DOMAIN order : i < j => offer[order[i]].crypto >= offer[order[j]].crypto

\* By netAmount; sort is stable and MoonPay's quote is the first in the array.
Sorted(order) ==
    \A i, j \in DOMAIN order : i < j =>
        \/ Net(order[i]) > Net(order[j])
        \/ Net(order[i]) = Net(order[j]) /\ order[i] = "moonpay"

\* allSettled: the quote of one is compared though the other failed.
Answer ==
    /\ ~compared /\ \A p \in Providers : asking[p] \in Settled
    /\ compared' = TRUE
    /\ comparison' \in {order \in SetToSeqs(Fulfilled) : Sorted(order)}
    /\ UNCHANGED <<asking, timed, offer>>

OnrampNext ==
    \/ \E p \in Providers : Headers(p) \/ FetchFails(p) \/ Body(p)
    \/ Answer

-------------------------------------------------------------------------------
\* The best quote is the one that leaves the user most after fees, among all that came:
\* no provider's failure, at whichever step, hides the other's.
BestIsBest ==
    compared => \A p \in Fulfilled : comparison # <<>> /\ Net(p) <= Net(comparison[1])

\* A provider that says nothing does not hold the answer back for longer than its timer;
\* only one that stalls in the middle of its body does.
HeldBackByTimers == \A p \in Providers : asking[p] = "fetching" <=> p \in timed

OnrampSound == OnrampTypeOK /\ BestIsBest /\ HeldBackByTimers
===============================================================================
