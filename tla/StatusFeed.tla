------------------------------ MODULE StatusFeed ------------------------------
\* Who follows a transaction: WebSocket connections that subscribe and come and go, and
\* the one poller they share, which asks through the response cache; or a page or the
\* SDK's event emitter, which poll GET /status/:txHash through the caches of the route
\* and of the SDK. One API process and one transaction hash.
EXTENDS Transaction

CONSTANTS
    Clients,     \* WebSocket connections; one that closes may be opened again
    Anonymous,   \* those without a token, let in when none is required
    Beside       \* bound of the instance: the clients that connect beside a page

ASSUME ClientsAssumption == Anonymous \cup Beside \subseteq Clients

VARIABLES
    subscription,  \* [Clients -> lastStatus of the subscription, or that there is none]
    told,          \* [Clients -> the verdict the connection was told] (history)
    poller,        \* sharedPollers has the hash
    lookups,       \* a pollStatusOnce awaits its look into the response cache
    saved,         \* the response cache's entry
    flight,        \* "none", "asking" or "background": the load of the response cache
    follower,      \* who polls the route: "page", useTransactionStatus, "watch", the emitter
    shown,         \* the page's data, or the emitter's statusCache entry
    emitter,       \* the rest of BridgeEventEmitter
    clientCache,   \* SimpleCache of the SDK
    request,       \* [Reasons -> how far the SDK's GET for it is]
    routeCache     \* statusCache of the status route

transaction == <<chain, elapsed, tracked, lagging>>
feedVars == <<subscription, told, poller, lookups, saved, flight>>
pageVars == <<follower, shown, emitter, clientCache, request, routeCache>>
vars == <<transaction, feedVars, pageVars>>

NotSubscribed == "not subscribed"
Subscribed(c) == subscription[c] # NotSubscribed
Registered == Clients \ Anonymous    \* connectionsByToken
Reasons == {"hook", "refresh",       \* a request of the follower, a refresh behind a stale hit,
            "abandoned"}             \* a request whose watch was given up
Quiet == [on |-> FALSE,              \* the hash is watched
          announced |-> "none",      \* the verdict this watch has emitted (history variable)
          left |-> FALSE,            \* the watch ended by unwatch or destroy (history)
          handler |-> FALSE,         \* a handler for the verdict events is registered
          heard |-> "none",          \* what it was called with last (history)
          buffer |-> "none",         \* the verdict in the emitter's history
          shifted |-> FALSE,         \* a verdict was pushed out of it (history)
          crossed |-> FALSE,         \* a handler gave the watch up inside the event (history)
          dead |-> FALSE]            \* destroyed

TypeOK ==
    /\ TransactionTypeOK
    /\ subscription \in [Clients -> Statuses \cup {NotSubscribed, "null"}]
    /\ told \in [Clients -> Verdicts \cup {"none"}]
    /\ poller \in BOOLEAN /\ lookups \in BOOLEAN
    /\ {saved, shown, clientCache, routeCache} \subseteq Statuses \cup {"none"}
    /\ follower \in {"nobody", "page", "watch"}
    /\ DOMAIN emitter = DOMAIN Quiet
    /\ request \in [Reasons -> {"none", "sent", "asking"}]
    /\ flight \in {"none", "asking", "background"}

\* The transaction may have been submitted by this process or by another one, or
\* not at all.
Init ==
    /\ chain \in {"unknown", "pending"} /\ elapsed = FALSE /\ tracked \in BOOLEAN /\ lagging = TRUE
    /\ subscription = [c \in Clients |-> NotSubscribed]
    /\ told = [c \in Clients |-> "none"]
    /\ poller = FALSE /\ lookups = FALSE
    /\ saved = "none" /\ flight = "none"
    /\ follower \in {"nobody", "page", "watch"} /\ emitter = Quiet /\ shown = "none"
    /\ clientCache = "none" /\ routeCache = "none"
    /\ request = [why \in Reasons |-> "none"]

-------------------------------------------------------------------------------
\* Subscriptions

\* subscribe, which starts the poller if there is none and polls at once. Clients
\* that come back tell the status they know.
Subscribe(c, known) ==
    /\ subscription[c] = NotSubscribed
    /\ follower # "nobody" => c \in Beside
    /\ subscription' = [subscription EXCEPT ![c] = known]
    /\ told' = [told EXCEPT ![c] = "none"]
    /\ poller' = TRUE
    /\ lookups' = TRUE
    /\ UNCHANGED <<transaction, saved, flight, pageVars>>

\* Faulty variant of StopsPolling: whoever leaves stops the poller.
StopsPollingAlways(c) == c \in Registered

\* The poller is kept for other subscribers that have a token.
StopsPolling(c) == \A other \in Registered \ {c} : ~Subscribed(other)
Left(c) == poller' = (poller /\ ~StopsPolling(c))

Unsubscribe(c) ==
    /\ Subscribed(c)
    /\ subscription' = [subscription EXCEPT ![c] = NotSubscribed]
    /\ Left(c)
    /\ UNCHANGED <<transaction, told, lookups, saved, flight, pageVars>>

\* cleanup, on close, on an error and after a missed heartbeat.
Disconnect(c) ==
    /\ subscription' = [subscription EXCEPT ![c] = NotSubscribed]
    /\ told' = [told EXCEPT ![c] = "none"]
    /\ IF Subscribed(c) THEN Left(c) ELSE UNCHANGED poller
    /\ UNCHANGED <<transaction, lookups, saved, flight, pageVars>>

-------------------------------------------------------------------------------
\* pollStatusOnce

\* Faulty variant of Informed: only the first status is news.
InformedOnce(c, status) ==
    c \in Registered /\ Subscribed(c) /\ subscription[c] = "null" /\ status \in Statuses

\* A client hears of a status that is news to it, and after a verdict no more.
Informed(c, status) ==
    c \in Registered /\ Subscribed(c) /\ subscription[c] # status
Deliver(status) ==
    /\ subscription' = [c \in Clients |->
                          IF ~Informed(c, status) THEN subscription[c]
                          ELSE IF status \in Verdicts THEN NotSubscribed ELSE status]
    /\ told' = [c \in Clients |->
                  IF Informed(c, status) /\ status \in Verdicts THEN status ELSE told[c]]

Poll ==
    /\ poller /\ ~lookups
    /\ lookups' = TRUE
    /\ UNCHANGED <<transaction, subscription, told, poller, saved, flight, pageVars>>

\* getOrCompute: a hit is delivered, and is loaded again behind it when it is stale.
PollHits ==
    /\ lookups /\ saved # "none"
    /\ lookups' = FALSE
    /\ Deliver(saved)
    /\ flight' \in {flight, IF flight = "none" THEN "background" ELSE flight}
    /\ UNCHANGED <<transaction, poller, saved, pageVars>>

PollMisses ==
    /\ lookups /\ saved = "none"
    /\ lookups' = FALSE
    /\ flight' = "asking"
    /\ UNCHANGED <<transaction, subscription, told, poller, saved, pageVars>>

\* The load saves what it got and hands it to the polls that await it.
FlightLands(status) ==
    /\ flight # "none"
    /\ GetTransactionStatus(status)
    /\ flight' = "none"
    /\ saved' = status
    /\ IF flight = "asking" THEN Deliver(status) ELSE UNCHANGED <<subscription, told>>
    /\ UNCHANGED <<poller, lookups, pageVars>>

FlightFails ==
    /\ flight # "none"
    /\ flight' = "none"
    /\ UNCHANGED <<transaction, subscription, told, poller, lookups, saved, pageVars>>

EntryGoes ==
    /\ saved # "none"
    /\ saved' = "none"
    /\ UNCHANGED <<transaction, subscription, told, poller, lookups, flight, pageVars>>

-------------------------------------------------------------------------------
\* GET /status/:txHash, BridgeClient.getStatus and useTransactionStatus

\* Faulty variant of Fetching: an expired transaction counts as settled.
FetchingUntilExpired ==
    /\ request["hook"] = "none"
    /\ \/ follower = "page" /\ shown \notin Verdicts \cup {"expired"}
       \/ emitter.on

\* The page polls until it shows a verdict, the emitter while the hash is watched.
\* getStatus answers from the SDK's cache, refreshing it behind a stale hit unless that
\* is under way, or sends a request.
Fetching ==
    /\ request["hook"] = "none"
    /\ (follower = "page" /\ shown \notin Verdicts) \/ emitter.on

\* emit, for the two verdicts: it is buffered, and the handler that is there hears it.
Emitted(e, status) ==
    IF status \notin Verdicts THEN e
    ELSE [e EXCEPT !.announced = status, !.buffer = status,
                   !.heard = IF e.handler THEN status ELSE @]

\* The rest of a tick: a status that is news is noted and announced, a verdict ends the
\* watch.  A handler may call unwatch while it is told of the change; the tick goes on
\* with what it was about to note and announce.
Tick(status) ==
    \/ status = shown /\ UNCHANGED <<shown, emitter>>
    \/ /\ status # shown
       /\ shown' = IF status \in Verdicts THEN "none" ELSE status
       /\ emitter' = [Emitted(emitter, status) EXCEPT !.on = status \notin Verdicts]
    \/ /\ status # shown /\ shown # "none" /\ emitter.handler
       /\ shown' = status
       /\ emitter' = [Emitted(emitter, status) EXCEPT !.on = FALSE, !.left = TRUE,
                                                      !.crossed = TRUE]

Shows(status) == IF follower = "page" THEN shown' = status /\ UNCHANGED emitter
                 ELSE Tick(status)

FetchHits ==
    /\ Fetching /\ clientCache # "none"
    /\ Shows(clientCache)
    /\ \/ UNCHANGED request
       \/ request["refresh"] = "none" /\ request' = [request EXCEPT !["refresh"] = "sent"]
    /\ UNCHANGED <<transaction, feedVars, follower, routeCache, clientCache>>

FetchMisses ==
    /\ Fetching /\ clientCache = "none"
    /\ request' = [request EXCEPT !["hook"] = "sent"]
    /\ UNCHANGED <<transaction, feedVars, follower, routeCache, clientCache, shown, emitter>>

\* The answer enters the SDK's cache, and whoever waits for it looks at it.
Received(why, status) ==
    /\ request' = [request EXCEPT ![why] = "none"]
    /\ clientCache' = status
    /\ IF why = "hook" THEN Shows(status) ELSE UNCHANGED <<shown, emitter>>

\* The route looks into its own cache first and asks the network on a miss.
RouteHits(why) ==
    /\ request[why] = "sent" /\ routeCache # "none"
    /\ Received(why, routeCache)
    /\ UNCHANGED <<transaction, feedVars, follower, routeCache>>

RouteMisses(why) ==
    /\ request[why] = "sent" /\ routeCache = "none"
    /\ request' = [request EXCEPT ![why] = "asking"]
    /\ UNCHANGED <<transaction, feedVars, follower, routeCache, clientCache, shown, emitter>>

RouteAnswers(why, status) ==
    /\ request[why] = "asking"
    /\ GetTransactionStatus(status)
    /\ routeCache' = status
    /\ Received(why, status)
    /\ UNCHANGED <<feedVars, follower>>

\* The request fails for good: the follower keeps what it has and tries again later.
RequestFails(why) ==
    /\ request[why] # "none"
    /\ request' = [request EXCEPT ![why] = "none"]
    /\ UNCHANGED <<transaction, feedVars, follower, routeCache, clientCache, shown, emitter>>

RouteCacheExpires ==
    /\ routeCache # "none"
    /\ routeCache' = "none"
    /\ UNCHANGED <<transaction, feedVars, follower, clientCache, request, shown, emitter>>

ClientCacheExpires ==
    /\ clientCache # "none"
    /\ clientCache' = "none"
    /\ UNCHANGED <<transaction, feedVars, follower, routeCache, request, shown, emitter>>

-------------------------------------------------------------------------------
\* BridgeEventEmitter

EmitterOnly == UNCHANGED <<transaction, feedVars, follower, clientCache, routeCache>>

Watch ==
    /\ follower = "watch" /\ ~emitter.on /\ ~emitter.dead
    /\ emitter' = [emitter EXCEPT !.on = TRUE, !.announced = "none", !.left = FALSE]
    /\ EmitterOnly /\ UNCHANGED <<shown, request>>

\* The watch is cancelled, and a tick that awaits its answer will see that it is.
Cancelled ==
    /\ shown' = "none"
    /\ IF request["hook"] = "none" THEN UNCHANGED request
       ELSE /\ request["abandoned"] = "none"
            /\ request' = [request EXCEPT !["abandoned"] = request["hook"], !["hook"] = "none"]

Unwatch ==
    /\ emitter.on
    /\ emitter' = [emitter EXCEPT !.on = FALSE, !.left = TRUE]
    /\ Cancelled /\ EmitterOnly

Destroy ==
    /\ follower = "watch" /\ ~emitter.dead
    /\ emitter' = [emitter EXCEPT !.on = FALSE, !.left = TRUE, !.dead = TRUE, !.announced = "none",
                                  !.handler = FALSE, !.buffer = "none"]
    /\ Cancelled /\ EmitterOnly

\* on, which replays what is buffered to the new handler, and off.
On ==
    /\ follower = "watch" /\ ~emitter.handler
    /\ emitter' = [emitter EXCEPT !.handler = TRUE,
                                  !.heard = IF emitter.buffer = "none" THEN @ ELSE emitter.buffer]
    /\ EmitterOnly /\ UNCHANGED <<shown, request>>
Off ==
    /\ emitter.handler
    /\ emitter' = [emitter EXCEPT !.handler = FALSE, !.heard = "none"]
    /\ EmitterOnly /\ UNCHANGED <<shown, request>>

\* Events of other transactions push the verdict out of the buffer.
HistoryShifts ==
    /\ emitter.buffer # "none"
    /\ emitter' = [emitter EXCEPT !.buffer = "none", !.shifted = TRUE]
    /\ EmitterOnly /\ UNCHANGED <<shown, request>>

EmitterStep == Watch \/ Unwatch \/ Destroy \/ On \/ Off \/ HistoryShifts

-------------------------------------------------------------------------------
FeedStep ==
    \/ \E c \in Clients : \/ \E known \in Statuses \cup {"null"} : Subscribe(c, known)
                          \/ Unsubscribe(c) \/ Disconnect(c)
    \/ Poll \/ PollHits \/ PollMisses \/ FlightFails \/ EntryGoes
    \/ \E status \in Statuses : FlightLands(status)

PageStep ==
    \/ FetchHits \/ FetchMisses \/ RouteCacheExpires \/ ClientCacheExpires
    \/ \E why \in Reasons : \/ RouteHits(why) \/ RouteMisses(why) \/ RequestFails(why)
                            \/ \E status \in Statuses : RouteAnswers(why, status)

NetworkStep == TransactionStep /\ UNCHANGED <<feedVars, pageVars>>

Next == FeedStep \/ PageStep \/ EmitterStep \/ NetworkStep

\* Timers fire, caches expire, providers catch up, and of the loads and of the requests
\* again and again one succeeds. Nothing else need happen.
Fairness ==
    /\ WF_vars(Poll) /\ WF_vars(PollHits \/ PollMisses) /\ WF_vars(EntryGoes)
    /\ SF_vars(\E status \in Statuses : FlightLands(status))
    /\ WF_vars(CatchUp /\ UNCHANGED <<feedVars, pageVars>>)
    /\ WF_vars(FetchHits \/ FetchMisses)
    /\ WF_vars(RouteCacheExpires) /\ WF_vars(ClientCacheExpires)
    /\ SF_vars(RouteHits("hook") \/ RouteMisses("hook"))
    /\ SF_vars(\E status \in Statuses : RouteAnswers("hook", status))

Spec == Init /\ [][Next]_vars /\ Fairness

-------------------------------------------------------------------------------
\* In whatever order clients subscribe, are told a verdict, unsubscribe and vanish, a
\* subscription of a registered client has the shared poller.
SubscribersPolled == \A c \in Registered : Subscribed(c) => poller

\* A watch that was given up announces nothing any more, though its request may be under
\* way (unless a handler gave it up from inside an event), and a handler hears of an
\* announced verdict whether it came before or after it, as long as it was buffered.
EventsAreExact ==
    /\ emitter.left /\ ~emitter.crossed => emitter.announced = "none"
    /\ emitter.handler /\ emitter.announced # "none" /\ ~emitter.shifted =>
           emitter.heard = emitter.announced

\* success and failed are final, so nobody may be told or shown, and no cache may hold,
\* one the network has not reached, whatever a lagging provider or an expired bound made
\* of it before.
VerdictsTrue ==
    /\ \A status \in {told[c] : c \in Clients} \cup {saved, shown, clientCache, routeCache}
                        \cup {emitter.announced, emitter.heard, emitter.buffer} :
           status \in Verdicts => chain = status
    /\ EventsAreExact

\* The feed is in step with its subscriptions and with the network.
FeedIsSound == TypeOK /\ SubscribersPolled /\ VerdictsTrue

\* Who stays subscribed is told the verdict, through pollers that others stop and
\* cached statuses from before; but not a client that claimed to know it.
VerdictDelivered ==
    \A c \in Registered :
        (Subscribed(c) /\ subscription[c] \notin Verdicts /\ chain \in Verdicts)
            ~> ~Subscribed(c)

\* A page that follows the transaction shows the verdict in the end, behind two caches
\* that may both hold an older status.
PageSettles == (follower = "page" /\ chain \in Verdicts) ~> (shown \in Verdicts)

\* And a watch ends with the verdict: the emitter does not poll for ever.
WatchSettles == (emitter.on /\ chain \in Verdicts) ~> (~emitter.on \/ emitter.crossed)
FollowerSettles == PageSettles /\ WatchSettles
===============================================================================
