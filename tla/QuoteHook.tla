------------------------------ MODULE QuoteHook ------------------------------
\* useQuote of the React hooks over getQuote of the SDK: a page that changes what it wants
\* quoted, renders whose effects run later, requests that a cleanup cancels for the hook
\* but not for the SDK, and the SDK's cache, which answers stale while it refreshes.
EXTENDS Integers, FiniteSets

CONSTANTS
    Params,       \* what a page may ask a quote for
    CacheKey,     \* [Params -> the key of the SDK's cache]: asset, amount and target
    NoParams,     \* the page has nothing to quote yet
    MaxRefetches, \* bounds of the instance: for each key,
    MaxRequests   \* and of the requests under way when the page renders

VARIABLES
    params, enabled,  \* of the last render
    due,        \* effects of a render are not flushed yet
    data,       \* the quote that is shown: its key, when it was computed, and whether it
                \* came while effects were due
    failed,     \* error is set
    loading,
    requests,   \* GET /quote under way: [key, read |-> the epoch it was computed in,
                \* by |-> the effect, one that was cancelled, or a background refresh]
    cache,      \* [keys -> age and epoch of the SDK's entry]
    epoch,      \* [keys -> refetches so far]: quotes computed since the last one have it
    overtaken   \* keys whose entry was written by a request from before the last refetch
                \* since that refetch (history)

quoteVars == <<params, enabled, due, data, failed, loading, requests, cache, epoch, overtaken>>

Keys == {CacheKey[p] : p \in Params}
Epochs == 0..MaxRefetches
Unread == -1
NoQuote == [key |-> NoParams, epoch |-> Unread, late |-> FALSE]
NoEntry == [age |-> "gone", epoch |-> Unread]
Wanted == enabled /\ params # NoParams
Key == CacheKey[params]
Asked(by) == {r \in requests : r.by = by}

QuoteTypeOK ==
    /\ params \in Params \cup {NoParams} /\ {enabled, due, failed, loading} \subseteq BOOLEAN
    /\ data \in [key : Keys, epoch : Epochs, late : BOOLEAN] \cup {NoQuote}
    /\ requests \subseteq [key : Keys, read : Epochs \cup {Unread},
                           by : {"effect", "cancelled", "refresh"}]
    /\ cache \in [Keys -> [age : {"fresh", "stale"}, epoch : Epochs] \cup {NoEntry}]
    /\ epoch \in [Keys -> Epochs] /\ overtaken \subseteq Keys

Init ==
    /\ params \in Params \cup {NoParams} /\ enabled \in BOOLEAN /\ due = TRUE
    /\ data = NoQuote /\ failed = FALSE /\ loading = FALSE
    /\ requests = {} /\ cache = [k \in Keys |-> NoEntry]
    /\ epoch = [k \in Keys |-> 0] /\ overtaken = {}

-------------------------------------------------------------------------------
\* The page renders with other params, which drops what is shown, or with the hook
\* enabled or disabled. React flushes the effects that are due before it renders.
Render(p, e) ==
    /\ ~due /\ <<p, e>> # <<params, enabled>> /\ Cardinality(requests) < MaxRequests
    /\ params' = p /\ enabled' = e /\ due' = TRUE
    /\ IF p = params THEN UNCHANGED <<data, failed>> ELSE data' = NoQuote /\ failed' = FALSE
    /\ UNCHANGED <<loading, requests, cache, epoch, overtaken>>

\* Faulty variant of Cancelled: a cleanup that does not cancel.
CancelledNever == requests

\* The cleanup of the effect: its request goes on for the SDK alone, which ignores the
\* signal that is aborted.
Cancelled == {IF r.by = "effect" THEN [r EXCEPT !.by = "cancelled"] ELSE r : r \in requests}

Asking(k, by) == [key |-> k, read |-> Unread, by |-> by]

\* getQuote: a stale hit is refreshed behind the caller's back, once at a time.
HitBehind ==
    requests' = Cancelled \cup
        (IF cache[Key].age = "stale" /\ ~\E r \in Asked("refresh") : r.key = Key
         THEN {Asking(Key, "refresh")} ELSE {})

\* The effects are flushed: cleanup, and if there is something to quote the request.
\* Otherwise loading stays as it is.
FlushIdle ==
    /\ due /\ ~Wanted
    /\ due' = FALSE /\ requests' = Cancelled
    /\ UNCHANGED <<params, enabled, data, failed, loading, cache, epoch, overtaken>>

FlushHits ==
    /\ due /\ Wanted /\ cache[Key] # NoEntry
    /\ due' = FALSE /\ failed' = FALSE /\ loading' = FALSE
    /\ data' = [key |-> Key, epoch |-> cache[Key].epoch, late |-> FALSE]
    /\ HitBehind
    /\ UNCHANGED <<params, enabled, cache, epoch, overtaken>>

FlushMisses ==
    /\ due /\ Wanted /\ cache[Key] = NoEntry
    /\ due' = FALSE /\ failed' = FALSE /\ loading' = TRUE
    /\ requests' = Cancelled \cup {Asking(Key, "effect")}
    /\ UNCHANGED <<params, enabled, data, cache, epoch, overtaken>>

\* refetch drops the SDK's entry for the params that are shown and runs the effect again.
Refetch ==
    /\ params # NoParams /\ epoch[Key] < MaxRefetches /\ Cardinality(requests) < MaxRequests
    /\ epoch' = [epoch EXCEPT ![Key] = @ + 1]
    /\ cache' = [cache EXCEPT ![Key] = NoEntry]
    /\ overtaken' = overtaken \ {Key}
    /\ due' = TRUE
    /\ UNCHANGED <<params, enabled, data, failed, loading, requests>>

-------------------------------------------------------------------------------
\* The API computes the quote.
Compute(r) ==
    /\ r.read = Unread
    /\ requests' = (requests \ {r}) \cup {[r EXCEPT !.read = epoch[r.key]]}
    /\ UNCHANGED <<params, enabled, due, data, failed, loading, cache, epoch, overtaken>>

\* The answer enters the cache, and is shown unless it was cancelled.
Answer(r) ==
    /\ r.read # Unread
    /\ requests' = requests \ {r}
    /\ cache' = [cache EXCEPT ![r.key] = [age |-> "fresh", epoch |-> r.read]]
    /\ overtaken' = IF r.read < epoch[r.key] THEN overtaken \cup {r.key} ELSE overtaken
    /\ IF r.by = "effect"
       THEN data' = [key |-> r.key, epoch |-> r.read, late |-> due] /\ loading' = FALSE
       ELSE UNCHANGED <<data, loading>>
    /\ UNCHANGED <<params, enabled, due, failed, epoch>>

Fail(r) ==
    /\ requests' = requests \ {r}
    /\ IF r.by = "effect" THEN failed' = TRUE /\ loading' = FALSE ELSE UNCHANGED <<failed, loading>>
    /\ UNCHANGED <<params, enabled, due, data, cache, epoch, overtaken>>

\* SimpleCache: an entry passes its expiresAt, then its staleUntil, or gives way to a
\* younger one.
Ages(k) ==
    /\ cache[k] # NoEntry
    /\ \/ cache[k].age = "fresh" /\ cache' = [cache EXCEPT ![k].age = "stale"]
       \/ cache' = [cache EXCEPT ![k] = NoEntry]
    /\ UNCHANGED <<params, enabled, due, data, failed, loading, requests, epoch, overtaken>>

QuoteNext ==
    \/ \E p \in Params \cup {NoParams}, e \in BOOLEAN : Render(p, e)
    \/ FlushIdle \/ FlushHits \/ FlushMisses \/ Refetch
    \/ \E r \in requests : Compute(r) \/ Answer(r) \/ Fail(r)
    \/ \E k \in Keys : Ages(k)

-------------------------------------------------------------------------------
\* A quote is shown against the amount it was calculated for, through renders that cross
\* with answers, unless its answer came between a render and the flush of its effects.
QuoteIsForParams ==
    data # NoQuote => \/ params # NoParams /\ data.key = Key
                      \/ data.late

\* While there is something to quote the page shows that it loads exactly while its own
\* request is under way, and never more than one is.
LoadingIsTrue ==
    /\ Wanted /\ ~due => (loading <=> Asked("effect") # {})
    /\ \A r, s \in Asked("effect") : r = s

\* What is shown at rest was computed after the last refetch, although getQuote has no way
\* around its cache, unless a request from before it wrote the entry again.
RefetchBypasses ==
    Wanted /\ ~due /\ ~loading /\ ~failed =>
        data.key # Key \/ data.epoch = epoch[Key] \/ data.late \/ Key \in overtaken

QuoteHookSound == QuoteTypeOK /\ QuoteIsForParams /\ LoadingIsTrue /\ RefetchBypasses
===============================================================================
