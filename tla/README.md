# TLA+ models of the C-Address Onboarding Bridge

This directory holds the formal models of the Onboarding Bridge: TLA+ modules translated from the
source, TLC configurations that check them on small instances, and proofs, checked by TLAPS, of
their most important theorems for every value of the constants. Line numbers refer to the
repository's source; `PROJECT.json` maps every definition to the lines it models.

Contents: 1 the system, 2 the modules, 3 the runs and their bounds, 4 fairness, 5 what is proved,
6 where code and documentation disagree, 7 how the source was read, 8 what is not modelled, 9 plan.

## 1. The system

```
 page ──► React hooks ──► SDK client ──► API server ──► Soroban RPC providers ──► OnboardingBridge
            quote, fund,    retries,      idempotency     circuit breaker           governance │ funds
            status          cache,        response cache  provider pool, health
                            offline queue    │      │
                                             │      └──► exchanges, onramp providers (and their webhooks)
                                             ▼
                        Redis: keys, locks, queues ──► worker ──► Postgres: audit, orders, dead letters
```

A wallet asks the SDK to fund a smart account (C-address). The SDK sends the request to the API, or
queues it when there is no network. The API reserves the request's idempotency key in Redis,
submits the signed transaction through a pool of RPC providers behind a circuit breaker, and
reports its status by HTTP or WebSocket. The contract takes the tokens, keeps its fee and passes
the rest on; a multisig of admins sets the fee, withdraws fees and pauses it. Beside that path the
API withdraws from exchanges, compares onramp quotes, takes the onramp providers' webhooks, sends
webhooks of its own, keeps an audit log and counts what it does.

### 1.1 Inventory

| Component | Source | State | Operations | What makes it correct |
|---|---|---|---|---|
| Contract governance | `contracts/onboarding-bridge/src/lib.rs` 405–560, 1113–1290, 1387–1427, 1475–1593 | admins, threshold, nonce, proposals, approval flags, active ids, prune cursor | initialize, propose, approve, execute, get_active_proposals, prune_proposals | only approved, timely proposals execute, once; the threshold stays reachable; five storage keys agree |
| Contract funds | same file, 374–402, 725–1081, 1291–1386, 1432–1460 | fee settings, tiers, counters, volumes, records, archive cursor; balances | fund_c_address, batch_fund_c_address, route_from_exchange, the fee arms, archive | no token made or lost; fees bounded and accounted for; counters match records |
| Submission | `sdk/src/bridge.ts`, `sdk/src/offline.ts`, `api/src/routes/funding.ts`, `services/soroban.ts`, `services/xdrValidator.ts`, `middleware/requestTracker.ts`, `shutdown.ts` | retries, keys, requests in flight, what the network has | request, enqueue, POST /fund, failover, drain | what the application is told is so; a drain cuts nobody off |
| React hooks | `hooks/src/*.ts`, `sdk/src/cache.ts` | params, data, loading, attempt, step | render, effect, cleanup, refetch, prepare, submit, reset | no answer of another request or attempt is shown |
| Idempotency middleware | `api/src/middleware/idempotency.ts`, part of `services/cache.ts` | per key: lock and stored response in Redis | look up, reserve, run, store, release | one handler at a time, genuine replays, no key locked for ever |
| Offline queue | `sdk/src/offline.ts` | queue, dead letters, storage, replay | enqueue, load, replay, clear, health poll | nothing lost, nothing known to have succeeded resent, all resolved |
| Circuit breaker | `api/src/circuit-breaker.ts` | state, failures, probes let in | execute, onSuccess, onFailure | opens and closes when it should; never refuses for ever |
| RPC pool | `api/src/services/rpcPool.ts` | per provider: healthy, failures | execute with failover, health timer | bad providers are skipped and come back; each is tried once |
| Health | `api/src/services/health.ts` | cached verdict | getHealthStatus | a verdict is no older than the cache allows |
| Response cache | `api/src/services/cache.ts` | entry with two ages, flights per process, lock in Redis | getOrCompute, refresh, single flight, invalidate | one load at a time; data never goes back; nobody waits for ever |
| Status feed | `api/src/services/websocket.ts`, `routes/status.ts`, `hooks/src/useTransactionStatus.ts`, `sdk/src/events.ts` | subscriptions, one poller per transaction, caches | subscribe, poll, status route, watch, unwatch | verdicts are true and reach who follows |
| Audit log | `api/src/services/auditLog.ts`, `jobs/processors/asyncAuditLog.ts` | hash chain and checkpoints per process, one table | enqueueAudit, append, checkpoint, verify | what a writer wrote verifies; no event silently lost |
| Metrics pipeline | `api/src/services/asyncPipeline.ts`, `jobs/*.ts` | buffer, timer, backpressure, queue | increment, flush, process | each event counted once |
| Outgoing webhooks | `api/src/services/webhookDelivery.ts`, `jobs/processors/webhookRetry.ts` | jobs, dead letters | deliver, retry, dead letter | no delivery lost to a single fault; dead only after the last retry |
| Incoming webhooks | `api/src/middleware/webhookVerification.ts`, `routes/webhook.ts` | replay keys, orders | verify, upsert | what was answered 200 is stored |
| Migrations | `api/src/migrations/` | applied versions, advisory lock, schema | migrate, rollback | what is recorded is there |
| CEX withdrawals, keys | `api/src/services/cex.ts`, `routes/cex.ts`, `middleware/rbacAuth.ts`, `routes/apiKeys.ts` | withdrawals in flight, keys and revocations of one process | route, create, update, revoke | duplicates share one withdrawal; a revoked key stays out |
| Diagnostics, pages, amounts, mock server | `sdk/src/bridge.ts`, `pagination.ts`, `token.ts`, `testing/mock-server.ts` | caches, cursors, routes | runDiagnostics, all, pages, parse, format, install | reports, pages and amounts are what they claim to be |
| Onramp quotes, throttling | `api/src/routes/offramp.ts`, `services/moonpay.ts`, `transak.ts`, `middleware/security.ts` | timers, one bucket per address | compare, count, refuse | the best of all that came; refused for recent misbehaviour only |
| Read and admin routes, OpenAPI, configuration, metrics, infrastructure, docs, examples | | none of their own | | not modelled, section 8 |

### 1.2 How the parts interact

* Contract calls are ledger transactions: each runs alone and is reverted whole when it fails.
  Governance and funds share `execute`, which marks the proposal and then applies its arm.
* API requests interleave at every `await`. What they share is in Redis (idempotency, cache,
  replay keys, queues), in Postgres, or in the process (breaker, pool, memory cache, keys, chain).
* The worker is another process: it shares queues and tables with the API and no memory, which is
  what its copies of the hash chain and of the dead letter queue are exposed to.
* In the SDK the queue is shared by callers, a health timer and the replay; the hooks meet a
  response cache that answers stale while it refreshes.
* The pool runs inside the breaker: one `execute` of the breaker covers all attempts of a call.
* The API serves while its database is migrated, or rolled back, by another process.

### 1.3 The hazards

`PROJECT.json` lists forty at their lines, each with the properties aimed at it; the four without
one are violated by the code and are shown in section 6. Most are of four sorts: something read
before an await and used after it (idempotency, cache, replay check, health, hooks); a pair of
writes that a crash or a lost reply separates (queue and storage, migration and record, job and
dead letter); state that each process holds for itself (keys, time bounds, chains); and integer
arithmetic that two places do differently (fees, counters, decimals).

## 2. The modules

Every module is an ordinary specification: constants with named assumptions, variables, one action
per operation or per stretch of code between two awaits, `Next`, `Spec`, a type invariant, then the
properties. Modules that one module extends together to run or to prove something name their own
`Init`, `Next` and `Spec` (`AuditInit`, `CacheSpec`, `Deploying`). Definitions whose comment begins with "Faulty variant" are not part of the
specification: each is one plausible mistake in the definition below it, and shows that a property
notices it. `MC*` modules only give constants their values.

### 2.1 The contract

**Governance** (constants in **GovernanceConstants**). State: the contract's instance and persistent
keys (`admins`, `threshold`, `nonce`, `proposals`, `approvals`, `activeIds`, `nextPrune`) and the
ledger sequence. Each call is one action whose guard is the conjunction of its checks. `execute` is
split by its arm: `ExecuteRotateAdmins`, `ExecuteSetThreshold` and, for the eight others,
`ExecuteOther`, with `Executable` (the checks) and `MarkExecuted` (what is written before the
dispatch) shared. `CloseLedger` is the network's step. The prune sweep, a loop in the code, is
described by where it stops (`SweepEndsAt`). That a caller is who it says is the host's doing.

**BridgeFunds.** State: the record `store` (the contract's money keys) and `balance` (the token
contracts). `fund_c_address_internal` is a function from one state to the next (`Fee`, `Paid`,
`Funded`), so a batch is its composition, the second entry seeing what the first has left. The arms
of `execute` that concern money may run at any time. The contract may be target and source:
`fund_c_address` asks nobody's authorisation for its source and does not exclude the contract, whose
own transfers the host authorises (`Payers`). `batch_fund_c_address` asks for it, so there the
source is a funder. The parties may otherwise coincide as they like.

**OnboardingBridge.** The two together, as `G` and `F`: an execution is one step of each, funding
steps leave governance alone and the reverse. That the whole implements both parts holds by this
shape and is no property of its own. `MoneyIsGoverned` is one of neither part alone: fees are paid
out, their counter falls and the configuration changes by approved proposals only; balances fall by
those and by fundings, the contract's too when a funding names it as its source.

**FeeQuote.** What `GET /quote` says beside what the contract charges. Its two reads of the contract
name an account that is no valid address (`soroban.ts:153`, `:188`) and throw before they reach the
network, so the quote is made with the configured rate and no rebate, whatever the contract has.
`FeesWithinQuote` says what such a quote is worth: a bound from above while the contract's rate is no
higher, half a bound from below while it is no lower.

### 2.2 From the page to the network

**Submission.** One signed envelope: the client's call with retries and the entry it may leave in
the offline queue, requests in flight, the middleware (its Redis working), `POST /fund` with the
failover over providers, and the API draining, going down and coming up. A provider may accept and
its reply be lost, so that the next one is asked for what the network already has. `OutcomesAreTrue` relates what the application is told to the network.

**Envelope** holds the envelopes as the rules of `validateXdr` see them and the rules in their
order; **Transaction** the network's fate of a transaction and the time bounds that the process
which submitted it remembers, shared with the status feed.

**QuoteHook** and **FundHook** are the hooks as React runs them: a render, its effect, the cleanup of
the last one, and answers that arrive whenever they like; **QuoteHook** includes the SDK's cache.

**FundingPath** runs these beside the contract. Prepared envelopes do not pass the validator
(section 7), so the parts share the user and no state.

### 2.3 What is sent again

**Idempotency.** Several requests that carry one key of one user, the only case in which requests
affect each other. Stages follow the awaits: `Arrive`, `Lookup`, `Reserve`, `Submit` (the handler),
`Respond`, `Store`, `Release`. Each Redis call may fail and is swallowed as `cache.ts` does
(`LookupFails`, ...). `Crash` ends a process at any stage; `LockExpires` and `ResponseExpires` are
the TTLs, and `lapsed` remembers that one ran out under a request. `configured` is FALSE when there
is no Redis: the middleware then lets everything through.

**OfflineQueue.** A replay is suspended at every request (`Executed`, `Refused`, `NetworkError`) and
while it saves; `Enqueue`, `ClearQueue`, `SetOnline` and `HealthReport` run in between. A storage
write is issued by one action and lands, or fails, in a later one (`Write`, `WriteFails`), in order.
`Restart` loses everything but the storage. **Resubmission** runs either.

### 2.4 Providers and health

**CircuitBreaker** (constants in **BreakerConstants**). `Execute`, `OnSuccess` and `OnFailure` are
the code between two awaits; `running` are the calls inside `fn`, which may come back in another
state than the one that let them in. `Pass` is time.

**RpcPool.** The breaker's variables with the pool's, the breaker as `B`. A call makes attempts
(`Call`, `Failover`, `GiveUp`, `Answer`); the health timer starts checks that may overlap
(`StartCheck`, `CheckPasses`, `CheckFails`). The selection strategies are abstracted to "any healthy
provider".

**HealthStatus.** `getHealthStatus` asks its dependencies one by one while they change, several
askers at once, and keeps the verdict in a cache. **ProviderHealth** runs the pool or the endpoint.

### 2.5 Caches and followers

**ResponseCache.** One key of `getOrCompute`: fresh and stale ages, the background refresh, the map
of flights in each process and the Redis lock between processes, the poll of who did not get it,
and invalidation. What is loaded is a version that grows, so that "older" has a meaning.

**StatusFeed.** WebSocket clients, registered and anonymous, that subscribe, are told, leave and
vanish, with the one poller they share; or a page (`useTransactionStatus`) or the SDK's emitter,
which poll the status route behind the route's cache and the client's. `Beside` are the WebSocket
clients that may connect in an execution that has a page or an emitter.

### 2.6 The worker and the database

**AuditTrail.** `enqueueAudit`, the queue, the worker's processor, the fallback that appends in the
API process, checkpoints on their interval and forced ones, restarts. Hashes are the rows they are
of: two rows hash alike only when they are one row.

**WebhookDelivery.** First attempts in the API, retries as BullMQ jobs (external), the two dead
letter queues; a restart between two steps makes BullMQ run the job again, and Redis may store a job
and lose its reply. A job whose runs all threw fails for good: the queue trims it
(`queue.ts:136`), nothing processes it or moves it to a dead letter queue, and the delivery is
`abandoned`. `NoneUnaccounted` says what that takes, `errors` counting the runs that threw. **MetricsPipeline**: the buffer and its timer, hand-over, backpressure, the
queue's failures and the fallback. **JobQueues** runs one of the two.

**Migrations.** `migrate` and `rollback` of several processes: the recording transaction on one
connection, `up()` and `down()` committing on another, the advisory lock that only `migrate` takes,
statements that wait for a lock until their timeout, and processes that die anywhere. What each
version creates is one or two objects. **ProviderOrders**: copies of a provider's events through the
replay check, the upsert and the answer. **Deployment** composes them for real: the webhooks write
to the table that the migrations create and drop under them.

### 2.7 Client calls

**Withdrawals.** Clients that call `POST /cex/route` and retry, processes with a key store and a
registry of withdrawals in flight each. All calls of an execution are for the same withdrawal up to
its memo, which the registry's key leaves out. An order is sent or not; what the exchange makes of it
is left open, for `pending` says nothing of it (section 6). **Amounts**
takes a decimal string through the SDK's parser and formatter to what the exchange is sent, with the
decimals that the tables of both sides have: XLM 7 and 7, USDC 6 and 7, BTC 6 and 8, ETH 6 and 18.
**Pagination** follows cursors until the end or an abort. **Diagnostics** asks through the cache.
**MockServer** is the test server in place of `fetch`. **OnrampQuotes** asks two providers, each with
breaker and timer, and compares what came. **Throttling** counts flagged requests of one address
when they finish and refuses when they come. **ClientCalls** runs one of them.

### 2.8 Modules that run one of several parts

`FundingPath`, `Resubmission`, `ProviderHealth`, `JobQueues` and `ClientCalls` put components that
share no state side by side: an execution draws one in its initial state and runs it alone, the
others staying where they began. Such a run is a union of the state spaces of its parts, not a
product; it says nothing about their interaction, of which there is none to speak of. The real
compositions are `OnboardingBridge`, `RpcPool` with its breaker, `Submission` (client, middleware,
route, providers, shutdown), `StatusFeed` (feed, route, caches, page, emitter), `FeeQuote` and
`Deployment`.

## 3. The runs

| Run | Module | Instance | Shows |
|---|---|---|---|
| `onboarding_bridge` | `MCOnboardingBridge` | 2 admins, 2 proposals of any of the ten kinds, ledgers 0–2, a rotation, 1 token, 2 fundings, a funder and the contract each as source and target | `BookkeepingExact`, `MoneyIsGoverned`, `ExecutionAuthorised`, `SettledIsFinal` |
| `funding_path` | `FundingPath` | contract: 1 funder, the contract and a wallet as targets, the first two as sources, 2 tokens, 2 fundings, amounts below the minimum and at the maximum, rates at, below and above the cap, a rebate the first funding earns; submission: 2 providers, 2 requests, 1 retry; hooks: 2 parameter sets, 1 refetch, 3 prepares, 3 calls | `CountersExact`, `FeesExact`, `FeesWithinQuote`; `SubmissionsAreTrue`; `HooksAreSound` |
| `resubmission` | `Resubmission` | 3 requests, 2 with the same body, 1 Redis error, any crashes and expirations; 3 entries for a queue of 2, 2 attempts each, 1 restart, 1 clear | `DuplicatesAreSafe`, `EventuallyAnswered`; `EntriesAreKept`, `EventuallyResolved` |
| `provider_health` | `ProviderHealth` | 2 calls, 2 providers, thresholds 2, 2 overlapping checks each; 2 dependencies, 2 askers | `PoolSound`, `EachTriedOnce`, `Recovers`; `HealthIsRecent` |
| `response_cache` | `ResponseCache` | 3 calls at 2 processes, 1 change of the value, 1 fault | `SingleFlight`, `AnswersNeverGoBack`, `EveryRequestEnds` |
| `status_feed` | `StatusFeed` | 3 WebSocket clients, 1 anonymous; or a page or an emitter | `FeedIsSound`, `VerdictDelivered`, `FollowerSettles` |
| `audit_trail` | `AuditTrail` | 1 API process, 1 worker, 2 events, a checkpoint every 2 entries, 1 forced one, 1 restart | `ChainsVerify`, `Accounted`, `EventuallyRecorded` |
| `job_queues` | `JobQueues` | 1 delivery with 2 retries and 2 runs a job, 2 restarts, 1 lost reply; 2 increments, 1 funding | `DeliveriesAreSound`, `EventsAreCounted`, `EventuallyDone` |
| `deployment` | `Deployment` | 2 processes, 6 migrations, 1 rollback of 1, 3 or 6 steps, 1 fault; 2 copies of 2 events | `RecordedIsThere`, `OrdersAreKept`, `EventuallyMigrated` |
| `client_calls` | `ClientCalls` | 2 withdrawals at 2 processes with 2 keys; up to 5 transactions in pages of 0 to 3; numbers around the decimals of 5 assets, one of them unlisted; 2 mock routes; offers of two providers; windows of 2 | `WithdrawalsAreOwn`, `RevokedStaysOut`, `ReportsAreTrue`, `AmountsAreTold`, `RoutesAreFair` |
| `removed_approver` | `MCGovernance` | 3 accounts, three admin vectors | refutes `CurrentAdminsDecide` (section 6) |
| `double_submission` | `Resubmission` | as `resubmission`, the specification `Resubmitting` | refutes `DuplicatesSubmitOnce` (section 6) |

A property that a run lists is often the conjunction of an invariant's named parts, its type
invariant included; the parts are commented where they are defined.

### What the properties excuse

Some faults break what a component promises, and a history variable then takes the execution out of
the promise; what remains is what the code does keep. The cases, each as the code has it:

* `disturbed` (cache): a lock that ran out under a load, a deadline overrun, or a Redis error let two
  processes load at once, so that the older value may be stored last.
* `crossed` (emitter): a handler called `unwatch` inside the event, after which the watch of that
  transaction announces nothing; what it leaves behind is in section 6.
* `tangled` (migrations): a rollback met a migrate or was cut between its two commits. The theorem is
  for any number of rollbacks, the run has one.
* `cut` and `excused` (incoming webhooks): the process died after it noted the signature and before it
  wrote, which makes the redelivery a replay; or the write failed and was answered 200.
* `abandoned` and `forgotten` (outgoing webhooks): a job failed for good, or the process that held the
  delivery in memory restarted. `EventuallySettled` is about progress and takes both as settled.
* `late` (quotes): the answer landed between a render with other parameters and its effect.
* `barred` (keys) is about one scope, `cex:withdraw`, and one process: an administrator who grants the
  scope to a key whose revocation a restart forgot lets it in again.

### Bounds, and why they are enough

* *Contract.* A rotation and another proposal make every interaction of two proposals, and nothing in
  the code relates three. Two ledgers after the first let a proposal be made, wait out its delay and
  expire. Two fundings are what a batch, an earned rebate, a repeated funder and an archive past the
  newest record take; two tokens separate the per-token counters from the totals. In both runs the
  contract is a source and a target, so a funding may pay out what another has left with it. A second
  funder, explicit amounts in `WithdrawFees`, or a display rate other than 1, which the composed run
  has, would take `funding_path` over its time; the theorems have them all. A larger governance instance (three
  accounts, vectors of three lengths, one naming an account twice, ledgers 0–3) passes too:
  `RemovedApprover.cfg` with the run's property replaced by `BookkeepingExact`,
  `ExecutionAuthorised` and `SettledIsFinal`. As `validate_admins` accepts a repeated account,
  `ThresholdSatisfiable` is about the length of the vector. The theorems remove these bounds.
* *Submission.* Two providers and one retry are what a lost reply, a failover onto what was accepted
  and a retry that meets the first request's lock take.
* *Resubmission.* Two requests race, the third sees what the race left; errors only skip a call, so
  one at a time. Two entries fill the queue, a third meets it full, or follows a gap after a clear.
* *Providers.* Two calls can be probes of one half-open period or of two; two checks of one provider
  may report in the wrong order. Thresholds of 2 tell "one" from "enough".
* *Cache.* Three calls at two processes: one loads, one waits in the same process, one in the other.
  One change of the value is what makes an answer old.
* *Queues.* One fault of each kind between any two steps; the second restart meets the first one's
  repetition. The checkpoint interval of 2 makes an interval end inside the run.
* *Deployment.* The six migrations are the code's own; the second process is the one that waits for
  the lock, or rolls back under the first.
* *Client calls.* Numbers lie around the decimals of the tables: none, the last one kept, one more;
  the assets are all that the tables list, and one that the API does not. Three requests of two calls
  are out of TLC's time and in the theorems.
  Pages end before, at and after the last transaction.
* *Integers.* Amounts are small: overflow of i128 is guarded in the code by checked additions and an
  upper bound on amounts, and reverts.
* Constants named `Max...` (but `MaxSize`, `MaxRetries`, `MaxTiers`, `MaxFeeBps`, `MaxAmount` and
  `MaxExpiry`, which are the code's) bound counters or numbers of events that the code lets grow.

### Deadlock

`provider_health` checks for deadlock. The other runs turn it off because their systems really may
stop: the ledger, the requests, the entries, the events or the faults of the instance run out, a
transaction has its verdict, an execution of a run with parts has nothing left to do.

## 4. Fairness

* *Idempotency*: weak fairness of each request's own steps (Redis answers or reports an error, a
  handler ends; `Crash` is never forced) and of the lock's TTL, which Redis keeps whatever happens to
  the process. *OfflineQueue*: the storage adapter answers or fails, a request settles, and the health
  poll, which an interval timer repeats, finds the server up again and again; without the last nothing
  could be promised. In `Resubmission` it is asked only of executions that run the queue.
* *RpcPool*: each request to a provider answers or fails, the timer fires, time passes, clients keep
  calling. In `ProviderHealth` this is asked only of executions that run the pool: where the endpoint
  runs nobody calls, and `HealthIsRecent`, a safety property, needs no fairness. `Recovers` further assumes, in its premise, that from some time on nothing fails.
* *ResponseCache*: Redis and loaders answer or fail, timers fire. The lock's TTL need not run out:
  whoever polls for the value has a deadline of its own.
* *StatusFeed*: pollers and timers fire, caches expire, providers catch up with the network. Strong
  fairness where a step is taken away and given back by a cache that fills and empties: the loader's
  answer, and the page's turn at the route. The network itself need not decide: the properties begin
  at the verdict.
* *AuditTrail*, *WebhookDelivery*, *MetricsPipeline*: the process runs on between two awaits, Redis
  answers or fails, BullMQ hands out waiting jobs and takes back stalled ones; no restart is forced.
* *Migrations*: statements return or time out, and whoever deploys runs `migrate` again while
  something is pending, without which a failed deployment would stay.
* The contract's modules, the submission, the hooks and the client calls state no fairness: nobody
  has to call a contract, and a user may close the page. They have safety properties only.

## 5. What is proved

All proofs are for every value of the constants, under the assumptions named in the modules.

* **GovernanceProofs**: `TypeOK` is inductive. On it rests `PruneCursorExact` (below the cursor
  nothing is stored, from it to the nonce everything is). `ApprovalsCounted` is not inductive alone: a
  new proposal's count of 1 is right only if no flag waits under its id, so it is strengthened with
  `FreshIdsUnflagged`, and the cursor invariant says that an approved id has been given out.
  `ExecutionAuthorised` follows step by step: the count that `execute` checks is the number of
  distinct approvers. `SettledIsFinal` needs that the ledger only grows and ids are never reused;
  `ThresholdSatisfiable` and `ActiveListExact` are inductive over `TypeOK`.
* **OnboardingBridgeProofs**: each step of the contract is a step of `Governance` or leaves it alone,
  which the way they are composed makes a mere lemma (`ImplementsGovernance`). The module instantiates
  `GovernanceProofs` with the real actions, so that what is proved there holds of the contract
  (`BooksAreExact`, `ArmsAreAuthorised`, `SettledForGood`), and with it and an invariant about the
  shape of the money state proves `MoneyNeedsApproval`, for any parties, the contract as source and
  target included. So all four properties of `onboarding_bridge` are theorems.
* **FundingPathProofs**, in three parts, as the run has. *The contract*: `Books` is inductive and
  says of the store and the balances that every counter is what the records add up to (`Counted`),
  that the counter of fees and what was withdrawn are the fees charged, and the contract's money is
  that counter corrected by what was sent to it and what it was the source of (`Collected`), that
  everybody else has what they began with, less what they were the source of, plus what came to them
  (`Balanced`), and that no fee exceeds its cap (`Fair`).
  `CountersMatch` and `FeesMatch` follow, for any number of funders, tokens and fundings and for a
  batch, whose entries each keep `Books`. Three cases are worth knowing. The contract may be the
  target, or the source, or both: its two transfers cancel where the roles meet, which `Collected`
  follows by way of the records to it and from it. An account may be funder, wallet and recipient at
  once (`Even` is about one account in all its roles). An archived record leaves `hotCount` and no
  other counter. The sums are folds, in which the order of the terms
  should not matter: `SumsExist` shows by way of a smallest counterexample (`SmallestSet`,
  `LeastNumber`) that sums with the expected equations exist, `SumsAgree` that they agree, and
  `SumIsFold` that `SumFunctionOnSet` is one; `SumWith` and `SumChanged` are what the proofs cite.
  `QuotesBound` compares the fee of each new record, at the contract's rate and rebates, with
  the quote at the configured rate (`RecordIsQuoted`, `QuotedIsWithin`), `RebateIsCapped`,
  `FeeIsBounded` and `Quotients` being the arithmetic. *The submission*: `SubmissionInv` says
  of each request what stage and answers go together, that whatever the network has was accepted for
  some request (`Accounted`), that stored answers are true, and that `active` is the number of open
  requests (`Counting`), which a restart resets together. *The hooks*: `QuoteInv` adds to the
  properties that a request of the effect is for what was last wanted (`EffectIsWanted`) and that a
  cache entry is of the last refetch or was overtaken (`EntriesAreNew`); `FundInv`, that a key
  belongs to the current attempt.
* **ResubmissionProofs**. *The middleware*: `TypeOK` with `FreshIsPast` (who was answered by its
  handler is past it); exclusion from "an active request holds the lock unless a TTL ran out";
  genuine replays from an invariant about what is stored and about the request it came from, whose
  answer is never overwritten (`AnswerOnce`); `NoGap` from the order of storing and releasing;
  together `DuplicatesSafe`. *The queue* (`EntriesStay`): every list of entries, in memory, in
  flight or stored, is an image of the accepted ids in order (`Image`), so that merging, taking the
  head and dropping keep ids apart; the snapshot of a replay and the queue agree on retries
  (`Shared`); before the first restart nothing that has a verdict is queued (`Unsent`); and every
  write in flight saves what is durable and what older writes save (`WritesFollow`), without which
  the next write to land could lose an entry.
* **ProviderHealthProofs**: of the breaker alone, `TypeOK`, `CountsMatchState` and `ProbesAwaited` are
  inductive together (`BreakerInv`). The pool's steps are built from the breaker's, so what is proved
  of the breaker holds inside it (the lemma `PoolImplementsBreaker`); marks agree with counts. `PoolIsSound` and `EachIsTriedOnce` rest on `CallsTracked`: `attempts[c]`
  is the number of providers in `tried[c]`, so that an untried one is left while attempts are
  (`FirstUntriedIsUntried`). For `HealthStaysRecent`, what an asker found was so no longer ago than
  it began, and what is cached no longer ago than its age (`HInv`); it is a theorem about `Running`, whose fairness is
  asked of the pool's executions alone.
* **ClientCallsProofs**: `ClientInv` is one invariant for each part that is proved, each kept by the
  steps of its own part and left alone by the others. *Withdrawals*: a request that waits does so
  for a withdrawal of its process and its key that is under way, what is told as pending was ordered
  with that key, and whoever shares a withdrawal is told what its leader is (`LedBy`); hence
  `WithdrawalsOwned`. A
  barred key lacks the scope, and one not made yet is unknown everywhere (`BarredAreOut`); hence
  `RevokedAreOut`. *Diagnosis*: an endpoint has served at least as lately as the cache has an answer
  of it, and whoever is down during a diagnosis is among the failing. *Pages*: a cursor stands at
  the end of what was collected. *Amounts*: what is shown or sent was made of what was typed
  (`AmountsInv`). That it says the same rests on lemmas about digits: the fold of `Number` has a
  solution and reads digits from the first (`FoldExists`, `NumberReads`, `Reads`); the first digits
  are the number divided by a power of ten (`Shifted`, `DividedBy`), so that `Digits` gives back what
  was read (`DigitsRead`, `DigitsAre`), and trimmed zeros come back as that power (`TrimmedReads`,
  `PaddedIs`). Powers go to the 18 decimals of ETH (`PowerFacts`), those above nine as two factors
  (`Ten`, `DividedTwice`), as `Scaled`, `Above` and `Below` take them for TLC; numbers before the point
  have no bound, nor has the length of what was typed; hence `AmountsTold`. *Mock server*: the first override that matches is the last one
  declared. *Onramp*: whoever compares has all answers, and sorting by net amount puts the best
  first (`FirstIsBest`). *Throttling*: the bucket counts no more than finished in its window
  (`WindowOK`) and misses at most the requests that were open when it began (`OldAreFew`,
  `CountsMost`).
* **CacheProofs**, in two parts. *The response cache*: `CacheInv` says that, while Redis is there and
  nothing disturbed a flight, the lock has one holder, a flight or a `DEL` on its way, and is there as
  long as it has (`LockHeld`); that a `DEL` is sent only with the entry in place; and that who polls
  finds the lock or the entry, so that nobody begins to load beside another. Then the versions are
  in order (`Ordered`): answers are no newer than the entry, the entry no newer than a load about to
  be saved, and that no newer than the source, and `since` is an answer (`SinceAnswered`). Hence
  `OneProcessLoads` and `DataNeverGoesBack`, the second of which needs the first: a second loader
  could save the older version last. *The status feed*: `SubscriptionsInv` (whoever has a token and
  a subscription has the poller) and `PageInv`, in which every cache and everything said is true of
  the chain (`IsTrue`), and a tick runs only for a watch that is on and has announced nothing
  (`TicksForWatch`), without which `EventsAreExact` is not inductive. Hence `FeedStaysSound`.
* **WorkerProofs**, in four parts that share no variable. *Deliveries* (`DeliveriesStaySound`):
  `DeliveriesInv` says of every job what it has posted so far and that the runs behind it were counted
  as errors or restarts (`JobOK`), and of every delivery that it is acknowledged, in a dead letter
  queue, carried by a job that is not done, or abandoned after as many errors as a job has attempts or
  two workers that died with it (`Steady`), for any number of retries, runs and restarts; that a free job id exists is a count (`FreeIdIsFree`).
  *Metrics* (`EachEventCounted`): each event that nothing may repeat is in exactly one place, buffer,
  batch on its way, queue, given up or counted (`InOnePlace`), which is more than that the numbers
  add up and is what a step preserves. *Audit log* (`ChainsAlwaysVerify`, `EventsStayAccounted`): in a
  chain every entry follows the one before it, and checkpoints and what is being published are
  entries of it (`ChainOK`); an event handed over once is in at most one of enqueue, queue, worker
  and chain (`InOne`), one that was emitted in at least one, or failed, or no longer remembered
  (`Kept`). *Deployment* (`SchemaHoldsWhatIsRecorded`, `OrdersSurviveDeployments`): unless a
  rollback met a migration or was cut off, nobody migrates beside a rollback (`Apart`), what a run has done is there, a
  rollback takes versions from the end (`RollsFromTheEnd`), and a recorded version is in the schema
  but for the one whose record is about to be deleted (`Recorded`); a webhook knows its event from
  the lookup to the answer, and the one to be answered has been written or is excused (`SlotOK`,
  `OrdersInv`), which holds however the migrations come and go under it.

So every property of `onboarding_bridge` and `funding_path` is a theorem, and so is every safety
property of the other runs that pass.

The constants' assumptions are those that the code gives: limits and lifetimes that are positive,
finite sets of parties, nobody who signs for the contract (`Bridge \notin Funders`), quantities that
are numbers. Nothing is
assumed of how many calls, requests, records or processes there are; the bounds that TLC needs are
constants of which the theorems ask only that they are numbers.

Only model-checked is liveness, which fairness and ENABLED put out of the prover's reach:
`EventuallyAnswered`, `EventuallyDone`, `EventuallyMigrated`, `EventuallyRecorded`,
`EventuallyResolved`, `EveryRequestEnds`, `FollowerSettles`, `Recovers` and `VerdictDelivered`. Where an argument needs induction over data (a
fold, a sum over a set, a chain), the proofs take a smallest counterexample instead.

## 6. Where code and documentation disagree

Two runs expect a violation:

* `removed_approver`: an approval outlives its admin. The test at `test.rs:1456` expects it not to
  count; `execute` compares the stored count (`lib.rs:1247`).
* `double_submission`: the stored answer is looked up before the lock is taken (`idempotency.ts:65`)
  and not again, against the comment at line 79: the second request finds nothing, the first one
  submits, stores and releases, the second one reserves and submits.

Six more are stated as properties. Each is reproduced by naming it in the `.cfg` of its run in
place of the properties there:

* `PROPERTY ClosesAfterProbes` in `ProviderHealth.cfg`: the breaker counts probes let in,
  not successes (`circuit-breaker.ts:71`), against the test "closes after halfOpenMaxRequests
  successes in HALF_OPEN" (`circuit-breaker.test.ts:43`), which runs its probes one by one.
* `PROPERTY QuoteIsCharged` in `FundingPath.cfg`: the quote knows neither the contract's rate nor its
  rebates. The placeholder account of `soroban.ts:153` and `:188` has 55 characters, so both reads
  throw and the configured rate is quoted, each time; besides, `rebate_for` takes a user and a token
  (`lib.rs:657`) and is called with one argument. The comment at `getQuote` says that the quote "always
  reflects current governance settings and per-user rebates". `FeesWithinQuote` says what remains true.
* `PROPERTY PauseStopsFunding` in the same file: `batch_fund_c_address` has no pause check
  (`lib.rs:939`); the test at `test.rs:910`, `test_batch_fund_blocked_when_paused`, panics because the
  funder has no tokens.
* `INVARIANT TokenCounterIsHeld` in the same file: the per-token counter is kept in display
  units and only for whitelisted tokens (`lib.rs:813`), against the comment at `test.rs:2710`.
* `INVARIANT FailuresReachDlq` in `JobQueues.cfg`: a retry whose job fails for good, because its runs
  meet errors of Redis or the database or two workers die with it, is in no dead letter queue, and of
  failed jobs the queue keeps the last 200 (`queue.ts:136`). The comment at `webhookRetry.ts:10–14`
  says that retries "survive process restarts/deploys and reach the DLQ on final failure".
  `DeliveriesAreSound` says what remains true.
* `INVARIANT OrderedOnce` in `ClientCalls.cfg`: one call orders two withdrawals. The comments at
  `routes/cex.ts:20–33` and `:128–137` say that the SDK retries only when the route confirms that it
  honours the key, and that "in every other case the SDK must not retry"; the SDK retries after network
  errors and 5xx and never reads the header (`bridge.ts:268–305`). A withdrawal reported failed, by the
  abort after 15 s for one, may thus be executed, and ordered again. `WithdrawalsAreOwn` says what
  remains true and does not cover this.

`TableIsChained` of `AuditTrail` states what `docs/audit-log-integrity.md:3` says of the table. It does
not hold: two processes append their own chains to it.

Met while reading, and visible in the definitions:

* *Contract.* `docs/security/threat-model.md:88–92` names a default delay of 720 ledgers where
  `MIN_EXEC_DELAY` is 10. `storage_usage` is documented as scanning and reads a counter; `get_proposal`
  reads a storage area that is never written. The fuzz target lists "I9. Contract token balance >=
  accumulated_fees" (`fuzz_invariants.rs:15`): a funding whose source is the contract (`lib.rs:797`)
  pays out what it holds and leaves the counter, so that I9 does not follow. `FeesAccountedFor` says by
  how much, and `MoneyIsGoverned` that it is the one such way.
* *Submission.* The API's retries after a network error meet their own lock and get a 409 that is not
  retried; a 422 may follow an acceptance nobody heard of. `TRANSACTION_NOT_YET_VALID` is documented
  (`xdrValidator.ts:55–58`) and tested (:392) but never raised; `recordSeenHash` is called by nothing,
  so the replay rule never refuses (the test at :498 expects it); fee bumps pass the rules and then
  fail with 500.
* *Hooks.* Between a render and its effect `useQuote` shows the quote of other parameters, against its
  comment at lines 39–40; `loading` stays true when it is disabled in flight. `getQuote` ignores the
  abort signal, and its cache key leaves out the source address.
* *Feed.* A client that claims a verdict is never told one; the last unsubscription by verdict leaves
  the poller running; `expired` is not final for feed and emitter; a handler that calls `unwatch` from
  inside `status:changed` leaves a cache entry that keeps a later watch of that transaction silent
  (`events.ts:108–126`).
* *Cache.* A poll that finds the entry between two reads returns its wrapper (`cache.ts:351–357`).
  `invalidateTransactionsCache` and `invalidateQuoteCache` are called by nothing; the warm-up writes
  keys nobody reads.
* *Audit log.* `initialize`, which would continue the table's chain, is called by tests only.
* *Pipeline.* The comment at `processors/asyncPipeline.ts` 31–33 says that counters were incremented
  before the hand-over: a buffered event is in no counter but the worker's, which only logs it.
  `drainAnalyticsBuffer` is called by nothing, so a shutdown drops the buffer.
* *Webhooks in.* The signature is noted before the event is processed, so a crash makes the redelivery
  a replay until the note expires; failed writes are swallowed and answered 200; a late event
  overwrites a newer status, `completed_at` being kept. A notification without an order id, or one that comes when no database is
  configured, is answered 200 and stored nowhere (`webhook.ts:13–17`, `:53`): `OrdersAreKept` is about
  those that have an id, with a database.
* *Migrations.* On an empty database `001.up` waits for the table that `migrate` itself has created and
  not committed, until the statement times out: `migrate` never succeeds until some `rollback` has
  created the table. `rollback` takes no lock; cut between `down()` and its record it leaves a version
  recorded and gone. The comments at `runner.ts:151, 154` and `:178` contradict each other.
* *Withdrawals.* Any 2xx reply with JSON for its body is `pending` (`cex.ts:253–258`, `289–294`,
  `324–329`, `363–368`), one by which the exchange reports an error included, and an id that it lacks is
  made up: a client that is told 201 knows that a withdrawal was ordered, not that it was accepted. The
  coalescing key (`routes/cex.ts:118–125`) leaves out the memo, so that of two requests that differ only
  in it one memo is used for both. A restart forgets revocations; legacy keys then
  lack `cex:withdraw`, against `rbacAuth.ts` 443–447, and no seeded key has `admin:keys`.
* *Amounts.* SDK (`token.ts:160–171`) and API (`cex.ts:50–55`) agree about the decimals of XLM alone,
  7. The SDK has 6 for every other token, the API 7 for USDC, 8 for BTC and 18 for ETH: an amount parsed
  by the one is sent by the other 10, 100 and 10^12 times too small. An asset the API does not list is
  sent in its smallest unit as if in coins (`cex.ts:66–70`). `AmountsSound` says that the order is off
  by exactly that power of ten, and by nothing else.
* *Pages.* An abort during a pause rejects and loses what was collected; elsewhere it returns a prefix
  as if complete. A limit of 0 promises more and gives no cursor; an unknown cursor starts again.
* *Diagnostics.* `/health` is served before authentication, so "API key is valid" (`bridge.ts:686`)
  says nothing of the key; the connectivity check is answered from the entry the key check made.
* *Mock server.* `install` does not clear the recorded requests (comment `mock-server.ts:158`); twice
  in a row it loses the real `fetch`; the comment at :264 has the order of routes the wrong way round.
* *Onramp, throttling.* 4xx answers reset the failure count (comment `moonpay.ts:96`: "do not count"); a
  stalled body holds both quotes back, its timer being cleared with the headers. A throttled address's
  clean requests are refused too (comment `security.ts:315`).

## 7. How the source was read

Some files hold the results of merges that do not compile, and some code cannot do what it is for:

* `lib.rs` ~1019 uses an undefined `start`: read as `NextArchiveRecordId`, which the lines around it
  load and store. 529 uses an undefined `execution_delay`: a constant of the model. Some functions
  return a value where a `Result` is declared, or the reverse: the checks are read as guards.
  `route_from_exchange` has the checks and the effect of `fund_c_address`, so both are `FundCAddress`;
  its reentrancy guard is never set, and host calls do not reenter here.
* `POST /fund/prepare` calls `prepareFundingTransaction` with positional arguments where it takes an
  object and fails whatever it is given; and what it would prepare calls `fund_c_address`, which the
  validator's allowlist (`fund`, `deposit`) refuses. `Prepared` of
  `Envelope` is that envelope, and one that `Submission` sends is refused like any other.
* `webhookDelivery.ts` declares its class three times: the last one is modelled, with the attempt that
  the others share (347–455, 655–687). `asyncPipeline.ts` imports two counters that `metrics.ts` does
  not export: they are taken to count. `parseHttpError` uses names it does not declare: read as meant.
* `index.ts` passes other arguments to the shutdown than it takes, and does not start: the drain is
  modelled as `GracefulShutdown` and its tests use it.
* `middleware/cache.ts` answers hits from an undefined name: its miss path is what there is.

## 8. What is not modelled

* Components that cannot run as they stand: `rateLimit.ts` and `requestSigning.ts` (merged variants),
  `POST /fund/batch` and `/fund/direct` (the service functions they call do not exist),
  `cex/withdrawal-router.ts` (a second copy that declares a function twice),
  `webhookDeliveryRepository.ts`' own tables; and `redisRateLimitStore.ts`, which only tests use.
* Data without control: the OpenAPI document, configuration, types, translations, metrics and logs,
  the regular expressions of `security.ts`, address ranges and JWTs of `rbacAuth.ts`, signatures and
  hashes (taken to be sound), the widget URLs of the onramp.
* Read and admin routes: they forward to a service and keep nothing between requests.
* `fetchParallel` and the balance cache of the SDK; latency statistics of the pool; contract getters
  and events.
* Infrastructure, deployment scripts, monitoring, examples.

## 9. Plan

Done: every component with control of its own, the compositions named in 2.8, and a proof of every
safety property that a run checks. What could follow:

1. The code that section 8 leaves out because it does not run as it stands (the batch and direct
   funding routes, the second withdrawal router, the rate limiter), once it is repaired.
2. The response cache and the status feed composed: the feed asks through one key of the cache, which
   its model has as an entry and a flight of its own.
