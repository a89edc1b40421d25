----------------------------- MODULE Diagnostics ------------------------------
\* runDiagnostics of the SDK: its checks, one after the other, go through health() and
\* getQuote(), which answer from the client's cache and refresh it behind the caller's
\* back, while the endpoints come and go.
EXTENDS Integers, Sequences

CONSTANT Ttl    \* how long an entry is fresh; it is stale for as long again

Endpoints == {"health", "quote"}
Checks == <<"health", "health", "quote">>   \* apiKey, connectivity, contractStatus
CheckNumbers == DOMAIN Checks

VARIABLES
    serves,      \* [Endpoints -> it would answer now]
    since,       \* [Endpoints -> ticks since it would have answered], up to Gone (history)
    cached,      \* [Endpoints -> age of the cache's entry], Gone if there is none
    refreshing,  \* endpoints with a background refresh under way
    at,          \* the check under way, 0 if none
    waiting,     \* it waits for an answer
    found,       \* the outcomes of the last diagnosis so far
    silent,      \* checks at whose end the endpoint had not served for Gone (history)
    failing      \* endpoints that did not serve at some time since it began (history)

diagnosisVars == <<serves, since, cached, refreshing, at, waiting, found, silent, failing>>

Gone == 2 * Ttl
Older(t) == IF t < Gone THEN t + 1 ELSE t
Down == {e \in Endpoints : ~serves[e]}

DiagnosisTypeOK ==
    /\ serves \in [Endpoints -> BOOLEAN]
    /\ since \in [Endpoints -> 0..Gone] /\ cached \in [Endpoints -> 0..Gone]
    /\ refreshing \subseteq Endpoints /\ failing \subseteq Endpoints
    /\ at \in CheckNumbers \cup {0} /\ waiting \in BOOLEAN
    /\ found \in Seq({"pass", "fail"}) /\ silent \subseteq CheckNumbers

Init ==
    /\ serves \in [Endpoints -> BOOLEAN]
    /\ since = [e \in Endpoints |-> IF serves[e] THEN 0 ELSE Gone]
    /\ cached = [e \in Endpoints |-> Gone] /\ refreshing = {}
    /\ at = 0 /\ waiting = FALSE
    /\ found = <<>> /\ silent = {} /\ failing = {}

-------------------------------------------------------------------------------
Start ==
    /\ at = 0
    /\ at' = 1 /\ found' = <<>> /\ silent' = {} /\ failing' = Down
    /\ UNCHANGED <<serves, since, cached, refreshing, waiting>>

\* The outcome of one check; the next one is run whatever it is.
Concludes(verdict) ==
    /\ found' = Append(found, verdict)
    /\ silent' = IF since[Checks[at]] = Gone THEN silent \cup {at} ELSE silent
    /\ at' = (at + 1) % (Len(Checks) + 1) /\ waiting' = FALSE

\* health() or getQuote(): what the cache has passes; a stale hit starts a refresh.
Hit ==
    /\ at # 0 /\ ~waiting /\ cached[Checks[at]] < Gone
    /\ Concludes("pass")
    /\ refreshing' = IF cached[Checks[at]] < Ttl THEN refreshing ELSE refreshing \cup {Checks[at]}
    /\ UNCHANGED <<serves, since, cached, failing>>

Miss ==
    /\ at # 0 /\ ~waiting /\ cached[Checks[at]] = Gone
    /\ waiting' = TRUE
    /\ UNCHANGED <<serves, since, cached, refreshing, at, found, silent, failing>>

\* Faulty variant of Answers: a failure is kept in the cache as well.
AnswersKept ==
    /\ waiting
    /\ Concludes(IF serves[Checks[at]] THEN "pass" ELSE "fail")
    /\ cached' = [cached EXCEPT ![Checks[at]] = 0]
    /\ UNCHANGED <<serves, since, refreshing, failing>>

\* The request is answered, and the answer cached; or it fails, its retries included.
Answers ==
    /\ waiting
    /\ IF serves[Checks[at]]
       THEN Concludes("pass") /\ cached' = [cached EXCEPT ![Checks[at]] = 0]
       ELSE Concludes("fail") /\ UNCHANGED cached
    /\ UNCHANGED <<serves, since, refreshing, failing>>

\* triggerBackgroundRefresh: a failure leaves the entry as it is.
Refreshed(e) ==
    /\ refreshing' = refreshing \ {e}
    /\ cached' = IF serves[e] THEN [cached EXCEPT ![e] = 0] ELSE cached
    /\ UNCHANGED <<serves, since, at, waiting, found, silent, failing>>

\* Other calls of the application fill the cache and push entries out of it.
Used(e) ==
    /\ IF cached[e] = Gone THEN serves[e] /\ cached' = [cached EXCEPT ![e] = 0]
                           ELSE cached' = [cached EXCEPT ![e] = Gone]
    /\ UNCHANGED <<serves, since, refreshing, at, waiting, found, silent, failing>>

Changes(e) ==
    /\ serves' = [serves EXCEPT ![e] = ~@]
    /\ since' = [since EXCEPT ![e] = 0]
    /\ failing' = IF serves[e] THEN failing \cup {e} ELSE failing
    /\ UNCHANGED <<cached, refreshing, at, waiting, found, silent>>

Tick ==
    /\ since' = [e \in Endpoints |-> IF serves[e] THEN 0 ELSE Older(since[e])]
    /\ cached' = [e \in Endpoints |-> Older(cached[e])]
    /\ UNCHANGED <<serves, refreshing, at, waiting, found, silent, failing>>

DiagnosisNext ==
    \/ Start \/ Hit \/ Miss \/ Answers \/ Tick
    \/ \E e \in refreshing : Refreshed(e)
    \/ \E e \in Endpoints : Used(e) \/ Changes(e)

-------------------------------------------------------------------------------
\* A check that passes says that its endpoint served less than two lifetimes of a cache
\* entry ago, so that a longer outage is noticed, stale answers, refreshes that fail and
\* entries that come and go included; and one that fails is about an endpoint that did
\* not serve at some time during this diagnosis, never about an outage before it.
DiagnosisIsTrue ==
    \A i \in DOMAIN found :
        IF found[i] = "pass" THEN i \notin silent ELSE Checks[i] \in failing

DiagnosisSound == DiagnosisTypeOK /\ DiagnosisIsTrue
===============================================================================
