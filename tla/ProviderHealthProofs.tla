--------------------------- MODULE ProviderHealthProofs -----------------------------
(***************************************************************************)
(* Proofs about CircuitBreaker, RpcPool and HealthStatus.  The pool's    *)
(* steps are the breaker's own, so what is proved of the breaker alone,    *)
(* for any number of callers and any thresholds, holds of the pool: the    *)
(* counters mean what the states say they mean, and a breaker that refuses *)
(* everybody while HALF_OPEN waits for a probe.  A provider in use has     *)
(* failed fewer times in a row than it takes to mark it; a call follows    *)
(* its attempts and reports a failure only after every provider has failed *)
(* it; and the health endpoint never answers from results that are older   *)
(* than its cache may be.                                                  *)
(***************************************************************************)
EXTENDS ProviderHealth, FiniteSetTheorems, TLAPS

\* Each step of the pool is a step of the breaker, or leaves it alone.
LEMMA StepRefines == [Next]_vars => [B!Next]_B!vars
  <1> SUFFICES ASSUME [Next]_vars PROVE B!Next \/ UNCHANGED breaker
    BY DEF breaker, B!vars
  <1>1. ASSUME NEW c \in Calls, Call(c) PROVE B!Next
    BY <1>1 DEF Call, B!Next
  <1>2. ASSUME NEW c \in Calls, Answer(c) PROVE B!Next
    BY <1>2 DEF Answer, B!Next
  <1>3. ASSUME NEW c \in Calls, Failover(c) PROVE UNCHANGED breaker
    BY <1>3 DEF Failover
  <1>4. ASSUME NEW c \in Calls, GiveUp(c) PROVE B!Next
    BY <1>4 DEF GiveUp, B!Next
  <1>5. ASSUME NEW p \in Urls, StartCheck(p) \/ CheckPasses(p) \/ CheckFails(p)
        PROVE  UNCHANGED breaker
    BY <1>5 DEF StartCheck, CheckPasses, CheckFails
  <1>6. CASE Tick
    <2>1. CASE elapsed < ResetTimeout
      BY <1>6, <2>1 DEF Tick, Older, B!Next, B!Pass
    <2>2. CASE ~(elapsed < ResetTimeout)
      BY <1>6, <2>2 DEF Tick, Older, breaker
    <2> QED BY <2>1, <2>2
  <1>7. CASE UNCHANGED vars
    BY <1>7 DEF vars
  <1> QED BY <1>1, <1>2, <1>3, <1>4, <1>5, <1>6, <1>7 DEF Next, Settle

\* By construction the pool is a behaviour of the breaker.
LEMMA PoolImplementsBreaker == Spec => BreakerSpec
  <1>1. Init => B!Init
    BY DEF Init
  <1> QED BY <1>1, StepRefines, PTL DEF Spec, BreakerSpec, B!Spec

-------------------------------------------------------------------------------
\* The part of TypeOK that the marks depend on.  Which provider a call waits for
\* does not matter: marking one that is not of the pool changes nothing.
MarksTyped == /\ healthy \in [Urls -> BOOLEAN]
              /\ failures \in [Urls -> 0..ProviderThreshold]

MInv == MarksTyped /\ HealthyMeansFewFailures

LEMMA InitMInv == Init => MInv
  BY PoolAssumption DEF Init, MInv, MarksTyped, HealthyMeansFewFailures

\* Marking a failure counts it and looks at the new count in one step.
LEMMA MarkFailureKeeps == ASSUME NEW p, MInv, MarkFailure(p) PROVE MInv'
  <1>1. \A n \in 0..ProviderThreshold : Count(n) \in 0..ProviderThreshold
    BY PoolAssumption DEF Count
  <1>2. \A q \in Urls : /\ failures'[q] = IF q = p THEN Count(failures[q]) ELSE failures[q]
                        /\ q # p => healthy'[q] = healthy[q]
                        /\ q = p => (healthy'[q] <=> healthy[q] /\ failures'[q] < ProviderThreshold)
    BY DEF MInv, MarksTyped, MarkFailure
  <1>3. DOMAIN failures' = Urls /\ DOMAIN healthy' = Urls
    BY DEF MInv, MarksTyped, MarkFailure
  <1>4. MarksTyped'
    BY <1>1, <1>3 DEF MInv, MarksTyped, MarkFailure
  <1>5. HealthyMeansFewFailures'
    BY <1>2 DEF MInv, HealthyMeansFewFailures
  <1> QED BY <1>4, <1>5 DEF MInv

LEMMA AnswerKeeps == ASSUME NEW c \in Calls, MInv, Answer(c) PROVE MInv'
  <1>1. healthy' = healthy /\ failures' = [failures EXCEPT ![at[c]] = 0]
    BY DEF Answer
  <1>2. MarksTyped'
    <2>0. failures \in [Urls -> 0..ProviderThreshold] /\ 0 \in 0..ProviderThreshold
      BY PoolAssumption DEF MInv, MarksTyped
    <2>1. failures' \in [Urls -> 0..ProviderThreshold]
      BY <1>1, <2>0, Zenon
    <2>2. healthy' \in [Urls -> BOOLEAN]
      BY <1>1, Zenon DEF MInv, MarksTyped
    <2> QED BY <2>1, <2>2 DEF MarksTyped
  <1>3. \A q \in Urls : failures'[q] = IF q = at[c] THEN 0 ELSE failures[q]
    BY <1>1 DEF MInv, MarksTyped
  <1>4. HealthyMeansFewFailures'
    BY <1>1, <1>3, PoolAssumption DEF MInv, HealthyMeansFewFailures
  <1> QED BY <1>2, <1>4 DEF MInv

LEMMA CheckPassesKeeps == ASSUME NEW p \in Urls, MInv, CheckPasses(p) PROVE MInv'
  BY PoolAssumption DEF MInv, MarksTyped, HealthyMeansFewFailures, CheckPasses

LEMMA MarksUnchanged == ASSUME MInv, UNCHANGED <<healthy, failures>> PROVE MInv'
  BY DEF MInv, MarksTyped, HealthyMeansFewFailures

LEMMA MInvStep == MInv /\ [Next]_vars => MInv'
  <1> SUFFICES ASSUME MInv, [Next]_vars PROVE MInv'
    OBVIOUS
  <1>1. ASSUME NEW c \in Calls, Call(c) PROVE MInv'
    BY <1>1, MarksUnchanged DEF Call
  <1>2. ASSUME NEW c \in Calls, Answer(c) PROVE MInv'
    BY <1>2, AnswerKeeps
  <1>3. ASSUME NEW c \in Calls, Failover(c) \/ GiveUp(c) PROVE MInv'
    BY <1>3, MarkFailureKeeps DEF Failover, GiveUp
  <1>4. ASSUME NEW p \in Urls, StartCheck(p) \/ CheckFails(p) PROVE MInv'
    BY <1>4, MarksUnchanged DEF StartCheck, CheckFails
  <1>5. ASSUME NEW p \in Urls, CheckPasses(p) PROVE MInv'
    BY <1>5, CheckPassesKeeps
  <1>6. CASE Tick
    BY <1>6, MarksUnchanged DEF Tick
  <1>7. CASE UNCHANGED vars
    BY <1>7, MarksUnchanged DEF vars, pool
  <1> QED BY <1>1, <1>2, <1>3, <1>4, <1>5, <1>6, <1>7 DEF Next, Settle

\* A provider in use has failed fewer times in a row than it takes to mark it,
\* for any number of providers, calls and overlapping health checks.
THEOREM MarksAreRight == Spec => []HealthyMeansFewFailures
  BY InitMInv, MInvStep, PTL DEF Spec, MInv

-------------------------------------------------------------------------------
(* The breaker alone: any number of callers, any thresholds *)

\* The inductive invariant: the three parts need each other.
BreakerInv == B!TypeOK /\ B!CountsMatchState /\ B!ProbesAwaited

LEMMA BreakerStarts == B!Init => BreakerInv
  BY ThresholdsAssumption DEF B!Init, BreakerInv, B!TypeOK, B!States, B!CountsMatchState, B!ProbesAwaited

LEMMA ExecutesKeeps == ASSUME NEW c \in Calls, BreakerInv, B!Execute(c) PROVE BreakerInv'
  <1>1. B!TypeOK'
    BY ThresholdsAssumption DEF BreakerInv, B!TypeOK, B!States, B!CountsMatchState, B!Execute
  <1>2. B!CountsMatchState'
    BY ThresholdsAssumption DEF BreakerInv, B!TypeOK, B!CountsMatchState, B!Execute
  <1>3. B!ProbesAwaited'
    BY DEF B!ProbesAwaited, B!Execute
  <1> QED BY <1>1, <1>2, <1>3 DEF BreakerInv

\* A success that leaves the breaker HALF_OPEN leaves room for another probe:
\* the failure count is 0, so the test in onSuccess is the one in execute.
LEMMA SuccessKeeps == ASSUME NEW c \in Calls, BreakerInv, B!OnSuccess(c) PROVE BreakerInv'
  <1>1. B!TypeOK'
    BY ThresholdsAssumption DEF BreakerInv, B!TypeOK, B!States, B!OnSuccess
  <1>2. B!CountsMatchState'
    BY ThresholdsAssumption DEF BreakerInv, B!TypeOK, B!States, B!CountsMatchState, B!OnSuccess
  <1>3. B!ProbesAwaited'
    <2>1. SUFFICES ASSUME state' = "HALF_OPEN", halfOpenRequests' = HalfOpenMax
                   PROVE  FALSE
      BY DEF B!ProbesAwaited
    <2>2. state = "HALF_OPEN" /\ halfOpenRequests - failureCount < HalfOpenMax
          /\ halfOpenRequests' = halfOpenRequests
      BY <2>1 DEF B!OnSuccess
    <2>3. failureCount = 0
      BY <2>2 DEF BreakerInv, B!CountsMatchState
    <2> QED BY <2>1, <2>2, <2>3, ThresholdsAssumption DEF BreakerInv, B!TypeOK
  <1> QED BY <1>1, <1>2, <1>3 DEF BreakerInv

LEMMA FailureKeeps == ASSUME NEW c \in Calls, BreakerInv, B!OnFailure(c) PROVE BreakerInv'
  <1>1. B!TypeOK'
    BY ThresholdsAssumption DEF BreakerInv, B!TypeOK, B!States, B!OnFailure
  <1>2. B!CountsMatchState'
    BY ThresholdsAssumption DEF BreakerInv, B!TypeOK, B!States, B!CountsMatchState, B!OnFailure
  <1>3. B!ProbesAwaited'
    BY DEF B!ProbesAwaited, B!OnFailure
  <1> QED BY <1>1, <1>2, <1>3 DEF BreakerInv

LEMMA TimeKeeps == ASSUME BreakerInv, B!Pass PROVE BreakerInv'
  BY ThresholdsAssumption DEF BreakerInv, B!TypeOK, B!States, B!CountsMatchState, B!ProbesAwaited, B!Pass

LEMMA BreakerRests == ASSUME BreakerInv, UNCHANGED B!vars PROVE BreakerInv'
  BY DEF BreakerInv, B!TypeOK, B!States, B!CountsMatchState, B!ProbesAwaited, B!vars

LEMMA BreakerInvariance == BreakerSpec => []BreakerInv
  <1>1. BreakerInv /\ [B!Next]_B!vars => BreakerInv'
    <2> SUFFICES ASSUME BreakerInv, [B!Next]_B!vars PROVE BreakerInv'
      OBVIOUS
    <2>1. CASE \E c \in Calls : B!Execute(c)
      BY <2>1, ExecutesKeeps
    <2>2. CASE \E c \in Calls : B!OnSuccess(c)
      BY <2>2, SuccessKeeps
    <2>3. CASE \E c \in Calls : B!OnFailure(c)
      BY <2>3, FailureKeeps
    <2>4. CASE B!Pass
      BY <2>4, TimeKeeps
    <2>5. CASE UNCHANGED B!vars
      BY <2>5, BreakerRests
    <2> QED BY <2>1, <2>2, <2>3, <2>4, <2>5 DEF B!Next
  <1> QED BY BreakerStarts, <1>1, PTL DEF BreakerSpec, B!Spec

\* The failure and probe counts agree with the breaker's state at all times,
\* whichever calls of earlier periods return late.
THEOREM CountsAreRight == BreakerSpec => []CountsMatchState
  BY BreakerInvariance, PTL DEF BreakerInv, CountsMatchState

\* When a HALF_OPEN breaker admits nobody, a call whose result will open or close
\* it is inside fn: it cannot wait for a probe nobody makes.
THEOREM ProbesAreAwaited == BreakerSpec => []ProbesAwaited
  BY BreakerInvariance, PTL DEF BreakerInv, ProbesAwaited

\* In the pool, too, the breaker's counts agree with its state.
THEOREM PoolCountsAreRight == Spec => []CountsMatchState
  BY CountsAreRight, PoolImplementsBreaker, PTL

\* And a breaker that refuses every call of the pool while HALF_OPEN waits for one.
THEOREM PoolProbesAreAwaited == Spec => []ProbesAwaited
  BY ProbesAreAwaited, PoolImplementsBreaker, PTL

-------------------------------------------------------------------------------
\* A set of natural numbers that is not empty has a least one.
LEMMA LeastNumber == ASSUME NEW S \in SUBSET Nat, S # {}
                     PROVE  \E m \in S : \A n \in S : m <= n
  <1>1. IsWellFoundedOn(OpToRel(<, Nat), Nat)
    BY NatLessThanWellFounded, Zenon
  <1>2. PICK m \in S : \A n \in S : ~(<<n, m>> \in OpToRel(<, Nat))
    BY <1>1, WFMin, Zenon
  <1>3. ASSUME NEW n \in S PROVE m <= n
    <2>1. ~(<<n, m>> \in OpToRel(<, Nat))
      BY <1>2, Zenon
    <2>2. ~(n < m)
      BY <2>1, Zenon DEF OpToRel
    <2> QED BY <2>2
  <1> QED BY <1>3

\* There are as many providers as entries in the list: it has no duplicates.
LEMMA AsManyUrls == IsFiniteSet(Urls) /\ Cardinality(Urls) = Len(Providers) /\ Len(Providers) \in Nat
  <1> DEFINE f == [i \in 1..Len(Providers) |-> Providers[i]]
  <1>1. Len(Providers) \in Nat /\ DOMAIN Providers = 1..Len(Providers)
    BY PoolAssumption
  <1>2. f \in Bijection(1..Len(Providers), Urls)
    BY <1>1, PoolAssumption DEF Urls, Bijection, Injection, Surjection, IsInjective
  <1>3. IsFiniteSet(1..Len(Providers)) /\ Cardinality(1..Len(Providers)) = Len(Providers)
    <2>1. 1 \in Int /\ Len(Providers) \in Int /\ ~(1 > Len(Providers) /\ Len(Providers) # 0)
      BY <1>1
    <2>2. /\ IsFiniteSet(1..Len(Providers))
          /\ Cardinality(1..Len(Providers)) = IF 1 > Len(Providers) THEN 0 ELSE Len(Providers) - 1 + 1
      BY <2>1, FS_Interval, Zenon
    <2> QED BY <1>1, <2>2
  <1>4. ExistsBijection(1..Len(Providers), Urls)
    BY <1>2 DEF ExistsBijection
  <1> QED BY <1>1, <1>3, <1>4, FS_Bijection

\* While a provider is left, the first untried one is such a provider.
LEMMA FirstUntriedIsUntried ==
  ASSUME NEW done \in SUBSET Urls, Cardinality(done) < Len(Providers)
  PROVE  FirstUntried(done) \in Urls \ done
  <1> DEFINE Left == {i \in DOMAIN Providers : Providers[i] \notin done}
  <1>1. DOMAIN Providers = 1..Len(Providers)
    BY PoolAssumption
  <1>2. Left \in SUBSET Nat
    BY <1>1
  <1>3. Left # {}
    <2>1. done # Urls
      BY AsManyUrls
    <2>2. PICK p \in Urls : p \notin done
      BY <2>1
    <2> QED BY <2>2 DEF Urls
  <1>4. PICK m \in Left : \A n \in Left : m <= n
    BY <1>2, <1>3, LeastNumber
  <1>5. \A j \in 1..(m - 1) : Providers[j] \in done
    BY <1>1, <1>4, AsManyUrls
  <1> QED BY <1>4, <1>5 DEF FirstUntried, Urls

-------------------------------------------------------------------------------
\* What the model knows of a call: the provider it waits for is one it has tried, and each
\* attempt went to another provider, so that one is left until as many are made as there
\* are providers. Without the last conjunct's first half the failover could not be followed.
CallsTracked ==
    /\ at \in [Calls -> Urls \cup {NoOne}]
    /\ tried \in [Calls -> SUBSET Urls]
    /\ attempts \in [Calls -> Nat]
    /\ \A c \in Calls : /\ attempts[c] = Cardinality(tried[c])
                        /\ IF c \in running THEN at[c] \in tried[c]
                           ELSE at[c] = NoOne /\ tried[c] = {}

\* A provider that an attempt goes to was not tried before.
LEMMA ChoicesAreUntried ==
  ASSUME NEW h, NEW done \in SUBSET Urls, Cardinality(done) < Len(Providers)
  PROVE  Choices(h, done) \subseteq Urls \ done
  <1>1. Selected(h) \subseteq Urls
    BY PoolAssumption DEF Selected, Urls
  <1> QED BY <1>1, FirstUntriedIsUntried DEF Choices

LEMMA AttemptKeeps ==
  ASSUME CallsTracked, NEW c \in Calls, NEW h, Attempt(c, h, tried[c]),
         attempts[c] < Len(Providers), running' = running \cup {c}
  PROVE  CallsTracked'
  <1> DEFINE done == tried[c]
  <1>1. done \in SUBSET Urls /\ attempts[c] = Cardinality(done)
    BY DEF CallsTracked
  <1>2. PICK p \in Choices(h, done) : /\ at' = [at EXCEPT ![c] = p]
                                      /\ tried' = [tried EXCEPT ![c] = done \cup {p}]
                                      /\ attempts' = [attempts EXCEPT ![c] = @ + 1]
    BY DEF Attempt
  <1>3. p \in Urls /\ p \notin done
    BY <1>1, <1>2, ChoicesAreUntried
  <1>4. Cardinality(done \cup {p}) = attempts[c] + 1
    <2>1. IsFiniteSet(done)
      BY <1>1, AsManyUrls, FS_Subset
    <2> QED BY <1>1, <1>3, <2>1, FS_AddElement
  <1>5. /\ at' \in [Calls -> Urls \cup {NoOne}]
        /\ tried' \in [Calls -> SUBSET Urls]
        /\ attempts' \in [Calls -> Nat]
    BY <1>1, <1>2, <1>3 DEF CallsTracked
  <1>6. ASSUME NEW d \in Calls
        PROVE  /\ attempts'[d] = Cardinality(tried'[d])
               /\ IF d \in running' THEN at'[d] \in tried'[d]
                  ELSE at'[d] = NoOne /\ tried'[d] = {}
    <2>1. CASE d = c
      BY <1>2, <1>4, <2>1 DEF CallsTracked
    <2>2. CASE d # c
      BY <1>2, <2>2 DEF CallsTracked
    <2> QED BY <2>1, <2>2
  <1> QED BY <1>5, <1>6 DEF CallsTracked

LEMMA LeaveKeeps ==
  ASSUME CallsTracked, NEW c \in Calls, Leave(c), running' = running \ {c}
  PROVE  CallsTracked'
  <1>1. /\ at' \in [Calls -> Urls \cup {NoOne}]
        /\ tried' \in [Calls -> SUBSET Urls]
        /\ attempts' \in [Calls -> Nat]
    BY DEF CallsTracked, Leave
  <1>2. ASSUME NEW d \in Calls
        PROVE  /\ attempts'[d] = Cardinality(tried'[d])
               /\ IF d \in running' THEN at'[d] \in tried'[d]
                  ELSE at'[d] = NoOne /\ tried'[d] = {}
    BY FS_EmptySet DEF CallsTracked, Leave
  <1> QED BY <1>1, <1>2 DEF CallsTracked

\* The calls the pool follows stay tracked through every step.
LEMMA CallsStep == ASSUME CallsTracked, [Next]_vars PROVE CallsTracked'
  <1>1. ASSUME NEW c \in Calls, Call(c) PROVE CallsTracked'
    <2>1. c \notin running /\ running' = running \cup {c}
      BY <1>1 DEF Call, B!Execute
    <2>2. tried[c] = {} /\ attempts[c] = 0
      BY <2>1, FS_EmptySet DEF CallsTracked
    <2>3. 0 < Len(Providers)
      BY PoolAssumption
    <2> QED BY <1>1, <2>1, <2>2, <2>3, AttemptKeeps DEF Call
  <1>2. ASSUME NEW c \in Calls, Answer(c) \/ GiveUp(c) PROVE CallsTracked'
    BY <1>2, LeaveKeeps DEF Answer, GiveUp, B!OnSuccess, B!OnFailure
  <1>3. ASSUME NEW c \in Calls, Failover(c) PROVE CallsTracked'
    <2>1. running' = running \cup {c}
      BY <1>3 DEF Failover, breaker, CallsTracked
    <2> QED BY <1>3, <2>1, AttemptKeeps DEF Failover
  <1>4. ASSUME UNCHANGED <<call, running>> PROVE CallsTracked'
    BY <1>4 DEF CallsTracked, call
  <1>5. ASSUME NEW p \in Urls, StartCheck(p) \/ CheckPasses(p) \/ CheckFails(p)
        PROVE  UNCHANGED <<call, running>>
    BY <1>5 DEF StartCheck, CheckPasses, CheckFails, breaker
  <1>6. Tick \/ UNCHANGED vars => UNCHANGED <<call, running>>
    BY DEF Tick, vars, breaker, pool
  <1> QED BY <1>1, <1>2, <1>3, <1>4, <1>5, <1>6 DEF Next, Settle

LEMMA CallsInvariant == Spec => []CallsTracked
  <1>1. Init => CallsTracked
    BY FS_EmptySet DEF Init, B!Init, CallsTracked
  <1> QED BY <1>1, CallsStep, PTL DEF Spec

\* The times and counts of the health checks.
ChecksTyped == /\ sinceFailure \in [Urls -> 0..Recovery]
               /\ checking \in [Urls -> 0..MaxChecks]

LEMMA ChecksInvariant == Spec => []ChecksTyped
  <1>1. Init => ChecksTyped
    BY PoolAssumption DEF Init, ChecksTyped
  <1>2. ChecksTyped /\ [Next]_vars => ChecksTyped'
    <2> SUFFICES ASSUME ChecksTyped, [Next]_vars PROVE ChecksTyped'
      OBVIOUS
    <2>1. ASSUME NEW p, MarkFailure(p), UNCHANGED checking PROVE ChecksTyped'
      <3>1. 0 \in 0..Recovery
        BY PoolAssumption
      <3>2. sinceFailure' \in [Urls -> 0..Recovery]
        BY <2>1, <3>1, Zenon DEF ChecksTyped, MarkFailure
      <3> QED BY <2>1, <3>2 DEF ChecksTyped
    <2>2. ASSUME UNCHANGED <<sinceFailure, checking>> PROVE ChecksTyped'
      BY <2>2 DEF ChecksTyped
    <2>3. ASSUME NEW c \in Calls, Call(c) \/ Settle(c) PROVE ChecksTyped'
      BY <2>1, <2>2, <2>3 DEF Call, Settle, Answer, Failover, GiveUp
    <2>4. ASSUME NEW p \in Urls, StartCheck(p) PROVE ChecksTyped'
      <3>1. checking[p] + 1 \in 0..MaxChecks
        BY <2>4, PoolAssumption DEF ChecksTyped, StartCheck
      <3> QED BY <2>4, <3>1 DEF ChecksTyped, StartCheck
    <2>5. ASSUME NEW p \in Urls, CheckPasses(p) \/ CheckFails(p) PROVE ChecksTyped'
      <3>1. checking[p] - 1 \in 0..MaxChecks /\ 0 \in 0..Recovery
        BY <2>5, PoolAssumption DEF ChecksTyped, CheckPasses, CheckFails
      <3> QED BY <2>5, <3>1 DEF ChecksTyped, CheckPasses, CheckFails
    <2>6. CASE Tick
      BY <2>6, PoolAssumption DEF ChecksTyped, Tick, Older
    <2>7. CASE UNCHANGED vars
      BY <2>2, <2>7 DEF vars, pool
    <2> QED BY <2>3, <2>4, <2>5, <2>6, <2>7 DEF Next
  <1> QED BY <1>1, <1>2, PTL DEF Spec

\* The breaker's types, in the pool.
LEMMA PoolBreakerTyped == Spec => []B!TypeOK
  BY BreakerInvariance, PoolImplementsBreaker, PTL DEF BreakerInv

\* The marks of the providers and the counts of the breaker agree with what the calls in
\* flight are doing, for any number of providers, calls and overlapping health checks.
THEOREM PoolIsSound == Spec => []PoolSound
  <1>1. B!TypeOK /\ MInv /\ ChecksTyped /\ CallsTracked => TypeOK
    BY DEF MInv, MarksTyped, ChecksTyped, CallsTracked, TypeOK
  <1>2. Spec => []MInv
    BY InitMInv, MInvStep, PTL DEF Spec
  <1> QED BY <1>1, <1>2, PoolBreakerTyped, ChecksInvariant, CallsInvariant, MarksAreRight,
             PoolCountsAreRight, PoolProbesAreAwaited, PTL DEF PoolSound

\* A call is reported as a failure to the breaker only after every provider has failed it:
\* the attempts are as many as the providers, and no two went to the same one.
THEOREM EachIsTriedOnce == Spec => EachTriedOnce
  <1>1. CallsTracked /\ B!TypeOK /\ [Next]_vars => [GiveUpStep]_vars
    <2> SUFFICES ASSUME CallsTracked, B!TypeOK, [Next]_vars, NEW c \in running,
                        c \notin running', failureCount' > failureCount
                 PROVE  tried[c] = Urls
      BY DEF GiveUpStep
    <2>1. ASSUME NEW d \in Calls, Call(d) \/ Failover(d) PROVE FALSE
      BY <2>1 DEF Call, B!Execute, Failover, breaker
    <2>2. ASSUME NEW d \in Calls, Answer(d) PROVE FALSE
      BY <2>2 DEF Answer, B!OnSuccess, B!TypeOK
    <2>3. ASSUME NEW d \in Calls, GiveUp(d) PROVE tried[c] = Urls
      <3>1. c = d /\ attempts[c] = Len(Providers)
        BY <2>3 DEF GiveUp, B!OnFailure
      <3>2. tried[c] \in SUBSET Urls /\ Cardinality(tried[c]) = Len(Providers)
        BY <3>1 DEF CallsTracked
      <3> QED BY <3>2, AsManyUrls, FS_Subset
    <2>4. ASSUME NEW p \in Urls, StartCheck(p) \/ CheckPasses(p) \/ CheckFails(p) PROVE FALSE
      BY <2>4 DEF StartCheck, CheckPasses, CheckFails, breaker
    <2>5. ~Tick /\ ~UNCHANGED vars
      BY DEF Tick, vars, breaker
    <2> QED BY <2>1, <2>2, <2>3, <2>4, <2>5 DEF Next, Settle
  <1> QED BY <1>1, CallsInvariant, PoolBreakerTyped, PTL DEF Spec, EachTriedOnce
-------------------------------------------------------------------------------
\* Results and times agree: what a check found was so no longer ago than the time that is
\* kept with it, the time since the call began, and then the age of the cached results.
Dated(found, t) == \A d \in DOMAIN found : since[d][found[d]] <= t

HInv == /\ H!HealthTypeOK
        /\ \A d \in Dependencies : since[d][up[d]] = 0
        /\ \A a \in Askers : Dated(asking[a].found, asking[a].begun)
        /\ cached = H!None.found \/ DOMAIN cached = Dependencies
        /\ Dated(cached, age)

LEMMA PartialResults ==
  /\ \A f : f \in H!Partial <=> f = [d \in DOMAIN f |-> f[d]] /\ DOMAIN f \subseteq Dependencies
                                 /\ \A d \in DOMAIN f : f[d] \in BOOLEAN
  /\ H!None.found \in H!Partial /\ DOMAIN H!None.found = {}
  /\ H!Idle = [found |-> H!None.found, begun |-> CacheTtl, on |-> FALSE]
  BY DEF H!Partial, H!None, H!Idle

LEMMA HInit == H!Init => HInv
  <1> SUFFICES ASSUME H!Init PROVE HInv
    OBVIOUS
  <1>1. H!HealthTypeOK
    BY PartialResults, DependenciesAssumption DEF H!Init, H!HealthTypeOK
  <1>2. /\ \A a \in Askers : Dated(asking[a].found, asking[a].begun)
        /\ Dated(cached, age)
    BY PartialResults DEF H!Init, Dated
  <1> QED BY <1>1, <1>2 DEF H!Init, HInv, H!HealthTypeOK

\* A check that comes back now is dated now; the results before it keep their date.
LEMMA FoundKeeps == ASSUME HInv, NEW a \in Askers, NEW d \in Dependencies, H!Found(a, d)
                    PROVE  HInv'
  <1> DEFINE f == asking[a].found
             g == [e \in DOMAIN f \cup {d} |-> IF e = d THEN up[d] ELSE f[e]]
  <1>1. /\ asking' = [asking EXCEPT ![a].found = g]
        /\ UNCHANGED <<up, since, cached, age>>
    BY DEF H!Found
  <1>2. asking[a] \in [found : H!Partial, begun : 0..CacheTtl, on : BOOLEAN] /\ f \in H!Partial
    BY DEF HInv, H!HealthTypeOK
  <1>3. g \in H!Partial
    <2>1. DOMAIN g \subseteq Dependencies /\ \A e \in DOMAIN g : g[e] \in BOOLEAN
      BY <1>2, PartialResults DEF HInv, H!HealthTypeOK
    <2> QED BY <2>1, PartialResults
  <1>4. asking' \in [Askers -> [found : H!Partial, begun : 0..CacheTtl, on : BOOLEAN]]
    BY <1>1, <1>2, <1>3 DEF HInv, H!HealthTypeOK
  <1>5. ASSUME NEW b \in Askers PROVE Dated(asking[b].found, asking[b].begun)'
    <2>1. CASE b = a
      <3>1. asking'[b].found = g /\ asking'[b].begun = asking[a].begun
        BY <1>1, <1>2, <2>1 DEF HInv, H!HealthTypeOK
      <3>2. ASSUME NEW e \in DOMAIN g PROVE since[e][g[e]] <= asking[a].begun
        BY <1>2 DEF HInv, Dated
      <3> QED BY <1>1, <3>1, <3>2 DEF Dated
    <2>2. CASE b # a
      BY <1>1, <2>2 DEF HInv, Dated, H!HealthTypeOK
    <2> QED BY <2>1, <2>2
  <1>6. Dated(cached, age)' /\ H!HealthTypeOK'
    BY <1>1, <1>4 DEF HInv, Dated, H!HealthTypeOK
  <1> QED BY <1>1, <1>5, <1>6 DEF HInv

LEMMA BeginRecord ==
  ASSUME NEW e, NEW t, NEW r,
         r = [[found |-> e, begun |-> t, on |-> FALSE] EXCEPT !.begun = 0, !.on = TRUE]
  PROVE  r = [found |-> e, begun |-> 0, on |-> TRUE]
  <1>1. r.found = e /\ r.begun = 0 /\ r.on = TRUE /\ r = [found |-> r.found, begun |-> r.begun, on |-> r.on]
    OBVIOUS
  <1> QED BY <1>1, Zenon

LEMMA BeginKeeps == ASSUME HInv, NEW a \in Askers, H!Begin(a) PROVE HInv'
  <1> DEFINE r == [H!Idle EXCEPT !.begun = 0, !.on = TRUE]
  <1>1. asking' = [asking EXCEPT ![a] = r] /\ UNCHANGED <<up, since, cached, age>>
    BY DEF H!Begin
  <1>2. r = [found |-> H!None.found, begun |-> 0, on |-> TRUE]
    BY BeginRecord, Zenon DEF H!Idle
  <1>3. r \in [found : H!Partial, begun : 0..CacheTtl, on : BOOLEAN] /\ DOMAIN r.found = {}
    <2>1. H!None.found \in H!Partial /\ DOMAIN H!None.found = {} /\ 0 \in 0..CacheTtl
      BY PartialResults, DependenciesAssumption
    <2> HIDE DEF r
    <2> QED BY <1>2, <2>1
  <1>4. H!HealthTypeOK'
    BY <1>1, <1>3 DEF HInv, H!HealthTypeOK
  <1>5. \A b \in Askers : Dated(asking[b].found, asking[b].begun)'
    BY <1>1, <1>3 DEF HInv, Dated, H!HealthTypeOK
  <1> QED BY <1>1, <1>4, <1>5 DEF HInv, Dated

\* The results are cached with the date the call has.
LEMMA FinishKeeps == ASSUME HInv, NEW a \in Askers, H!Finish(a) PROVE HInv'
  <1>1. /\ DOMAIN asking[a].found = Dependencies
        /\ cached' = asking[a].found /\ age' = asking[a].begun
        /\ asking' = [asking EXCEPT ![a] = H!Idle] /\ UNCHANGED <<up, since>>
    BY DEF H!Finish
  <1>2. H!Idle \in [found : H!Partial, begun : 0..CacheTtl, on : BOOLEAN] /\ DOMAIN H!Idle.found = {}
    BY PartialResults, DependenciesAssumption
  <1>3. H!HealthTypeOK'
    BY <1>1, <1>2 DEF HInv, H!HealthTypeOK
  <1>4. \A b \in Askers : Dated(asking[b].found, asking[b].begun)'
    BY <1>1, <1>2 DEF HInv, Dated, H!HealthTypeOK
  <1>5. Dated(cached, age)'
    BY <1>1 DEF HInv, Dated
  <1> QED BY <1>1, <1>3, <1>4, <1>5 DEF HInv

LEMMA InvalidateKeeps == ASSUME HInv, H!Invalidate PROVE HInv'
  BY PartialResults, DependenciesAssumption DEF HInv, H!Invalidate, H!HealthTypeOK, Dated

\* A dependency that changes is now what it becomes; nothing is dated back.
LEMMA ChangesKeeps == ASSUME HInv, NEW d \in Dependencies, H!Changes(d) PROVE HInv'
  <1>1. /\ up' = [up EXCEPT ![d] = ~up[d]] /\ since' = [since EXCEPT ![d][~up[d]] = 0]
        /\ UNCHANGED <<asking, cached, age>>
    BY DEF H!Changes
  <1>2. /\ up' \in [Dependencies -> BOOLEAN]
        /\ since' \in [Dependencies -> [BOOLEAN -> 0..CacheTtl]]
    BY <1>1, DependenciesAssumption DEF HInv, H!HealthTypeOK
  <1>3. \A e \in Dependencies : \A ok \in BOOLEAN :
           since'[e][ok] = IF e = d /\ ok = ~up[d] THEN 0 ELSE since[e][ok]
    BY <1>1 DEF HInv, H!HealthTypeOK
  <1>4. \A e \in Dependencies : since'[e][up'[e]] = 0
    BY <1>1, <1>2, <1>3 DEF HInv, H!HealthTypeOK
  <1>5. ASSUME NEW f \in H!Partial, NEW t \in 0..CacheTtl, Dated(f, t) PROVE Dated(f, t)'
    BY <1>3, <1>5, PartialResults DEF Dated
  <1>6. \A a \in Askers : asking[a].found \in H!Partial /\ asking[a].begun \in 0..CacheTtl
    BY DEF HInv, H!HealthTypeOK
  <1>7. /\ \A a \in Askers : Dated(asking[a].found, asking[a].begun)'
        /\ Dated(cached, age)'
    BY <1>1, <1>5, <1>6 DEF HInv, H!HealthTypeOK, Dated
  <1> QED BY <1>1, <1>2, <1>4, <1>7 DEF HInv, H!HealthTypeOK
\* Time passes alike for what was found and for the date kept with it, up to the bound.
LEMMA TickKeeps == ASSUME HInv, H!Tick PROVE HInv'
  <1>1. /\ since' = [d \in Dependencies |->
                       [ok \in BOOLEAN |-> IF ok = up[d] THEN 0 ELSE H!Older(since[d][ok])]]
        /\ asking' = [a \in Askers |-> [asking[a] EXCEPT !.begun = H!Older(asking[a].begun)]]
        /\ age' = H!Older(age) /\ UNCHANGED <<up, cached>>
    BY DEF H!Tick
  <1>2. \A t \in 0..CacheTtl : H!Older(t) \in 0..CacheTtl
    BY DependenciesAssumption DEF H!Older
  <1>3. \A s, t \in 0..CacheTtl : s <= t => H!Older(s) <= H!Older(t) /\ 0 <= H!Older(t)
    BY DependenciesAssumption DEF H!Older
  <1>4. 0 \in 0..CacheTtl
    BY DependenciesAssumption
  <1>5. since' \in [Dependencies -> [BOOLEAN -> 0..CacheTtl]]
    BY <1>1, <1>2, <1>4 DEF HInv, H!HealthTypeOK
  <1>6. ASSUME NEW a \in Askers
        PROVE  /\ asking'[a] \in [found : H!Partial, begun : 0..CacheTtl, on : BOOLEAN]
               /\ asking'[a].found = asking[a].found
               /\ asking'[a].begun = H!Older(asking[a].begun)
    BY <1>1, <1>2 DEF HInv, H!HealthTypeOK
  <1>7. H!HealthTypeOK'
    BY <1>1, <1>2, <1>5, <1>6 DEF HInv, H!HealthTypeOK
  <1>8. \A e \in Dependencies : since'[e][up'[e]] = 0
    BY <1>1 DEF HInv, H!HealthTypeOK
  <1>9. ASSUME NEW f \in H!Partial, NEW t \in 0..CacheTtl, Dated(f, t)
        PROVE  \A d \in DOMAIN f : since'[d][f[d]] <= H!Older(t)
    <2> TAKE d \in DOMAIN f
    <2>1. d \in Dependencies /\ f[d] \in BOOLEAN
      BY PartialResults
    <2>2. since[d][f[d]] \in 0..CacheTtl /\ since[d][f[d]] <= t
      BY <1>9, <2>1 DEF Dated, HInv, H!HealthTypeOK
    <2> QED BY <1>1, <1>3, <2>1, <2>2
  <1>10. ASSUME NEW a \in Askers PROVE Dated(asking[a].found, asking[a].begun)'
    <2>1. \A d \in DOMAIN asking[a].found : since'[d][asking[a].found[d]] <= H!Older(asking[a].begun)
      BY <1>9 DEF HInv, H!HealthTypeOK
    <2> QED BY <1>6, <2>1 DEF Dated
  <1>11. Dated(cached, age)'
    <2>1. \A d \in DOMAIN cached : since'[d][cached[d]] <= H!Older(age)
      BY <1>9 DEF HInv, H!HealthTypeOK
    <2> QED BY <1>1, <2>1 DEF Dated
  <1> QED BY <1>1, <1>7, <1>8, <1>10, <1>11 DEF HInv

LEMMA HStep == HInv /\ [Step]_<<part, vars, healthVars>> => HInv'
  <1> SUFFICES ASSUME HInv, [Step]_<<part, vars, healthVars>> PROVE HInv'
    OBVIOUS
  <1>1. CASE H!HealthNext
    BY <1>1, FoundKeeps, BeginKeeps, FinishKeeps, InvalidateKeeps, ChangesKeeps, TickKeeps
       DEF H!HealthNext
  <1>2. CASE UNCHANGED healthVars
    BY <1>2 DEF healthVars, HInv, H!HealthTypeOK, Dated
  <1> QED BY <1>1, <1>2 DEF Step

\* What the endpoint answers from its cache was true of every dependency within the time the
\* cache may be used, for any number of dependencies and of calls that overlap.
THEOREM HealthStaysRecent == Running => []HealthIsRecent
  <1>1. HInv => HealthIsRecent
    <2> SUFFICES ASSUME HInv, H!Fresh PROVE H!VerdictIsRecent
      BY DEF HealthIsRecent, HInv, H!VerdictIsRecent
    <2>1. DOMAIN cached = Dependencies /\ age < CacheTtl
      BY DEF H!Fresh, HInv
    <2>2. \A d \in Dependencies : cached[d] \in BOOLEAN
      BY <2>1, PartialResults DEF HInv, H!HealthTypeOK
    <2>3. \A d \in Dependencies : since[d][cached[d]] < CacheTtl
      BY <2>1, <2>2, DependenciesAssumption DEF HInv, H!HealthTypeOK, Dated
    <2>4. H!Status(cached) = "ok" => \A d \in Dependencies : cached[d] = TRUE
      BY <2>2 DEF H!Status
    <2>5. (\A d \in Critical : cached[d] = TRUE) => H!Status(cached) # "unhealthy"
      BY DEF H!Status
    <2>6. ASSUME \A d \in Critical : up[d] /\ since[d][FALSE] = CacheTtl
          PROVE  \A d \in Critical : cached[d] = TRUE
      <3> TAKE d \in Critical
      <3>1. d \in Dependencies /\ since[d][FALSE] = CacheTtl /\ CacheTtl \in Nat
        BY <2>6, DependenciesAssumption
      <3>2. ASSUME cached[d] = FALSE PROVE FALSE
        <4>1. since[d][cached[d]] < CacheTtl
          BY <2>3, <3>1
        <4>2. since[d][cached[d]] = CacheTtl
          BY <3>1, <3>2, Zenon
        <4> QED BY <3>1, <4>1, <4>2
      <3> QED BY <2>2, <3>1, <3>2
    <2> QED BY <2>3, <2>4, <2>5, <2>6 DEF H!VerdictIsRecent
  <1>2. Begins => HInv
    BY HInit DEF Begins
  <1> QED BY <1>1, <1>2, HStep, PTL DEF Running
===============================================================================
