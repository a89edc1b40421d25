-------------------------- MODULE ResubmissionProofs --------------------------
(***************************************************************************)
(* What the two ends of a request that is sent again promise, for any      *)
(* number of requests, entries, writes in flight, restarts and faults.     *)
(* The idempotency middleware: its types, the exclusion of handlers,       *)
(* genuine replays, and no gap between the lock and the stored response.   *)
(* The SDK's offline queue: no entry disappears, in memory or in the       *)
(* storage, and none is sent twice in a session.                           *)
(***************************************************************************)
EXTENDS Resubmission, SequenceTheorems, FiniteSetTheorems, WellFoundedInduction,
        NaturalsInduction, TLAPS

\* Expands the steps of a request.
Steps(r) == \/ Arrive(r) \/ Lookup(r) \/ LookupFails(r) \/ Reserve(r) \/ ReserveFails(r)
            \/ Submit(r) \/ (\E status \in Statuses : Respond(r, status))
            \/ Store(r) \/ StoreFails(r) \/ Release(r) \/ ReleaseFails(r) \/ Crash(r)

\* Next is a step of one request or a key that times out.
LEMMA NextSteps == Next <=> (\E r \in Requests : Steps(r)) \/ LockExpires \/ ResponseExpires
  BY DEF Next, Serve, Steps

\* What a fresh answer says of where its request is: after the handler.
Past == {"store", "release", "done", "crashed"}
FreshIsPast == \A r \in Requests :
    /\ Fresh(r) => pc[r] \in Past
    /\ pc[r] \in {"store", "release"} => Fresh(r)
    /\ pc[r] \in {"store", "release"} => configured
    /\ pc[r] = "store" => Cacheable(answer[r].status)

\* Type correctness and where fresh answers are, which Store needs to write a
\* well formed entry.
LEMMA TypeStep == TypeOK /\ FreshIsPast /\ [Next]_vars => TypeOK' /\ FreshIsPast'
  <1> SUFFICES ASSUME TypeOK, FreshIsPast, [Next]_vars PROVE TypeOK' /\ FreshIsPast'
    OBVIOUS
  <1> USE FaultsAssumption, BodyAssumption, NoneAssumption
          DEF TypeOK, FreshIsPast, Fresh, Past, Stages, Answers, Responses, Statuses, redis,
              Goto, Reply, Fault
  <1>0. Fault => configured /\ faults' \in 0..MaxFaults
    OBVIOUS
  <1>1. ASSUME NEW r \in Requests, Steps(r) PROVE TypeOK' /\ FreshIsPast'
    <2>1. CASE Arrive(r)
      BY <2>1 DEF Arrive
    <2>2. CASE Lookup(r)
      BY <2>2 DEF Lookup
    <2>3. CASE LookupFails(r)
      BY <2>3 DEF LookupFails
    <2>4. CASE Reserve(r)
      BY <2>4 DEF Reserve
    <2>5. CASE ReserveFails(r)
      <3>1. [kind |-> "inFlight"] \in Answers
        OBVIOUS
      <3>0. Fault /\ lock' \in {lock, TRUE}
        BY <2>5 DEF ReserveFails
      <3>2. lock' \in BOOLEAN /\ faults' \in 0..MaxFaults /\ configured
        BY <1>0, <3>0, Zenon
      <3>3. pc' = [pc EXCEPT ![r] = "done"] /\ answer' = [answer EXCEPT ![r] = [kind |-> "inFlight"]]
        BY <2>5 DEF ReserveFails
      <3> QED
        BY <2>5, <3>1, <3>2, <3>3 DEF ReserveFails
    <2>6. CASE Submit(r)
      BY <2>6 DEF Submit
    <2>7. ASSUME NEW status \in Statuses, Respond(r, status) PROVE TypeOK' /\ FreshIsPast'
      <3>1. /\ [kind |-> "fresh", status |-> status] \in Answers
            /\ [kind |-> "fresh", status |-> status] # None
        BY <2>7
      <3>2. pc'[r] \in Past /\ (pc'[r] \in {"store", "release"} => configured)
        BY <2>7 DEF Respond
      <3>3. pc'[r] = "store" => Cacheable(status)
        BY <2>7 DEF Respond, Cacheable
      <3>4. pc' = [pc EXCEPT ![r] = pc'[r]]
        BY <2>7 DEF Respond
      <3> QED
        BY <2>7, <3>1, <3>2, <3>3, <3>4 DEF Respond, Cacheable
    <2>8. ASSUME Store(r) \/ StoreFails(r) PROVE TypeOK' /\ FreshIsPast'
      <3>1. pc[r] = "store" /\ answer[r] \in Answers /\ answer[r].kind = "fresh"
        BY <2>8 DEF Store, StoreFails
      <3>2. configured /\ answer[r].status \in Statuses
        BY <3>1
      <3>3. Entry(r) \in Responses
        BY <3>2 DEF Entry
      <3>4. /\ response' \in Responses \cup {None}
            /\ faults' \in 0..MaxFaults
            /\ pc' = [pc EXCEPT ![r] = "release"]
            /\ UNCHANGED <<configured, lock, answer, submitted, lapsed>>
        BY <2>8, <3>3 DEF Store, StoreFails
      <3> QED
        BY <3>1, <3>2, <3>4
    <2>9. CASE Release(r)
      BY <2>9 DEF Release
    <2>10. CASE ReleaseFails(r)
      <3>0. /\ Fault /\ lock' \in {lock, FALSE}
            /\ pc' = [pc EXCEPT ![r] = "done"] /\ pc[r] = "release"
            /\ UNCHANGED <<configured, response, answer, submitted, lapsed>>
        BY <2>10 DEF ReleaseFails
      <3>1. lock' = lock \/ lock' = FALSE
        BY <3>0, Zenon
      <3> QED
        BY <1>0, <3>0, <3>1
    <2>11. CASE Crash(r)
      BY <2>11 DEF Crash, Active
    <2> QED
      BY <1>1, <2>1, <2>2, <2>3, <2>4, <2>5, <2>6, <2>7, <2>8, <2>9, <2>10, <2>11 DEF Steps
  <1>2. CASE LockExpires
    BY <1>2 DEF LockExpires
  <1>3. CASE ResponseExpires
    BY <1>3 DEF ResponseExpires
  <1>4. CASE UNCHANGED vars
    BY <1>4 DEF vars
  <1> QED
    BY <1>1, <1>2, <1>3, <1>4, NextSteps

\* Types hold in every reachable state.
THEOREM TypeCorrect == Spec => [](TypeOK /\ FreshIsPast)
  <1>1. Init => TypeOK /\ FreshIsPast
    <2>1. Init => TypeOK
      <3> SUFFICES ASSUME Init PROVE TypeOK
        OBVIOUS
      <3>1. 0 \in 0..MaxFaults
        BY FaultsAssumption
      <3>2. pc \in [Requests -> Stages] /\ answer \in [Requests -> Answers \cup {None}]
        BY DEF Init, Stages
      <3> QED
        BY <3>1, <3>2, Zenon DEF Init, TypeOK
    <2>2. Init => FreshIsPast
      BY DEF Init, FreshIsPast, Fresh
    <2> QED
      BY <2>1, <2>2
  <1> QED
    BY <1>1, TypeStep, PTL DEF Spec
-------------------------------------------------------------------------------
\* The strengthening of HandlersExclude: whoever is past its reservation still
\* has the lock, so nobody else can get it.
LockCoversActive == configured /\ ~lapsed => \A r \in Requests : Active(r) => lock

\* Only Reserve makes a request active, and only from a free lock; the lock is
\* given back by the one active request or runs out, which is a lapse.
LEMMA ExclusionStep ==
    TypeOK /\ HandlersExclude /\ LockCoversActive /\ [Next]_vars
        => HandlersExclude' /\ LockCoversActive'
  <1> SUFFICES ASSUME TypeOK, HandlersExclude, LockCoversActive, [Next]_vars
               PROVE  HandlersExclude' /\ LockCoversActive'
    OBVIOUS
  <1> USE DEF TypeOK, HandlersExclude, LockCoversActive, Active, redis, Goto, Fault
  <1>1. ASSUME NEW r \in Requests, Steps(r) PROVE HandlersExclude' /\ LockCoversActive'
    <2>1. configured' = configured /\ lapsed' = lapsed
      BY <1>1 DEF Steps, Arrive, Lookup, LookupFails, Reserve, ReserveFails, Submit, Respond,
                  Store, StoreFails, Release, ReleaseFails, Crash
    <2>2. \A q \in Requests : q # r => pc'[q] = pc[q]
      BY <1>1 DEF Steps, Arrive, Lookup, LookupFails, Reserve, ReserveFails, Submit, Respond,
                  Store, StoreFails, Release, ReleaseFails, Crash
    <2>3. ASSUME pc[r] = "reserve", ~lock, lock' = configured
          PROVE  HandlersExclude' /\ LockCoversActive'
      BY <2>1, <2>2, <2>3
    <2>4. ASSUME Active(r)' => Active(r), lock => lock'
          PROVE  HandlersExclude' /\ LockCoversActive'
      BY <2>1, <2>2, <2>4
    <2>5. ASSUME Active(r), ~Active(r)'
          PROVE  HandlersExclude' /\ LockCoversActive'
      BY <2>1, <2>2, <2>5
    <2>6. CASE Reserve(r)
      <3>1. CASE lock
        BY <2>1, <2>4, <2>6, <3>1 DEF Reserve
      <3>2. CASE ~lock
        BY <2>3, <2>6, <3>2 DEF Reserve
      <3> QED
        BY <3>1, <3>2
    <2>7. CASE ReserveFails(r)
      <3>1. ~Active(r)'
        BY <2>7 DEF ReserveFails
      <3>2. lock' = lock \/ lock' = TRUE
        BY <2>7, Zenon DEF ReserveFails
      <3> QED
        BY <2>4, <3>1, <3>2
    <2>8. CASE Release(r) \/ ReleaseFails(r)
      BY <2>5, <2>8 DEF Release, ReleaseFails
    <2>9. CASE Arrive(r) \/ Lookup(r) \/ LookupFails(r)
      BY <2>4, <2>9 DEF Arrive, Lookup, LookupFails
    <2>10. CASE Submit(r) \/ Crash(r)
      BY <2>4, <2>10 DEF Submit, Crash
    <2>11. CASE Store(r) \/ StoreFails(r) \/ \E status \in Statuses : Respond(r, status)
      BY <2>4, <2>11 DEF Respond, Store, StoreFails
    <2> QED
      BY <1>1, <2>6, <2>7, <2>8, <2>9, <2>10, <2>11 DEF Steps
  <1>2. CASE LockExpires
    BY <1>2 DEF LockExpires
  <1>3. CASE ResponseExpires
    BY <1>3 DEF ResponseExpires
  <1>4. CASE UNCHANGED vars
    BY <1>4 DEF vars
  <1> QED
    BY <1>1, <1>2, <1>3, <1>4, NextSteps

\* The lock keeps the handlers of one key apart for any number of requests.
THEOREM HandlersAreExcluded == Spec => []HandlersExclude
  <1>1. Init => HandlersExclude /\ LockCoversActive
    BY DEF Init, HandlersExclude, LockCoversActive, Active
  <1> QED
    BY <1>1, ExclusionStep, TypeCorrect, PTL DEF Spec
-------------------------------------------------------------------------------
\* A stored response is the cacheable answer its request was really given.
StoredIsGenuine == response # None =>
    /\ response.of \in Requests
    /\ Fresh(response.of) /\ answer[response.of].status = response.status
    /\ Cacheable(response.status)
    /\ response.body = BodyOf[response.of]

\* Answers are final: a step answers a request only once.
LEMMA AnswerOnce ==
    TypeOK /\ FreshIsPast /\ [Next]_vars =>
        \A r \in Requests : Fresh(r) => answer'[r] = answer[r]
  <1> SUFFICES ASSUME TypeOK, FreshIsPast, [Next]_vars, NEW r \in Requests, Fresh(r)
               PROVE  answer'[r] = answer[r]
    OBVIOUS
  <1>1. pc[r] \in Past
    BY DEF FreshIsPast
  <1>2. ASSUME NEW q \in Requests, Steps(q) PROVE answer'[r] = answer[r]
    BY <1>1, <1>2 DEF Past, TypeOK, Reply, Goto, redis, Steps, Arrive, Lookup, LookupFails, Reserve,
           ReserveFails, Submit, Respond, Store, StoreFails, Release, ReleaseFails, Crash
  <1> QED
    BY <1>2, NextSteps DEF vars, LockExpires, ResponseExpires

\* Only Store writes a response, from the answer its own request has.
LEMMA StoredStep ==
    TypeOK /\ FreshIsPast /\ StoredIsGenuine /\ [Next]_vars => StoredIsGenuine'
  <1> SUFFICES ASSUME TypeOK, FreshIsPast, StoredIsGenuine, [Next]_vars
               PROVE  StoredIsGenuine'
    OBVIOUS
  <1>1. CASE response' = response
    BY <1>1, AnswerOnce DEF StoredIsGenuine, Fresh
  <1>2. CASE response' = None
    BY <1>2 DEF StoredIsGenuine
  <1>3. ASSUME NEW r \in Requests, pc[r] = "store", response' = Entry(r), answer' = answer
        PROVE  StoredIsGenuine'
    BY <1>3 DEF StoredIsGenuine, FreshIsPast, Entry, Fresh
  <1>4. ASSUME NEW r \in Requests, Steps(r)
        PROVE  \/ response' = response
               \/ pc[r] = "store" /\ response' = Entry(r) /\ answer' = answer
    BY <1>4 DEF Steps, redis, Arrive, Lookup, LookupFails, Reserve, ReserveFails, Submit,
                Respond, Store, StoreFails, Release, ReleaseFails, Crash
  <1> QED
    BY <1>1, <1>2, <1>3, <1>4, NextSteps DEF vars, LockExpires, ResponseExpires

\* A replay copies the stored response to a request with the same body.
LEMMA ReplayStep ==
    TypeOK /\ FreshIsPast /\ StoredIsGenuine /\ ReplayIsGenuine /\ [Next]_vars
        => ReplayIsGenuine'
  <1> SUFFICES ASSUME TypeOK, FreshIsPast, StoredIsGenuine, ReplayIsGenuine, [Next]_vars,
                      NEW r \in Requests, answer'[r] # None, answer'[r].kind = "replay"
               PROVE  LET q == answer'[r].of
                      IN  /\ answer'[q] = [kind |-> "fresh", status |-> answer'[r].status]
                          /\ Cacheable(answer'[r].status)
                          /\ BodyOf[q] = BodyOf[r]
    BY DEF ReplayIsGenuine
  <1>1. ASSUME NEW q \in Requests, Fresh(q)
        PROVE  answer'[q] = [kind |-> "fresh", status |-> answer[q].status]
    <2>1. answer[q] \in Answers /\ answer[q].kind = "fresh"
      BY <1>1 DEF TypeOK, Fresh
    <2> QED
      BY <1>1, <2>1, AnswerOnce DEF Answers
  <1>2. CASE answer'[r] = answer[r]
    <2>1. /\ answer[answer[r].of] = [kind |-> "fresh", status |-> answer[r].status]
          /\ Cacheable(answer[r].status) /\ BodyOf[answer[r].of] = BodyOf[r]
      BY <1>2 DEF ReplayIsGenuine
    <2>2. answer[r].of \in Requests
      BY <1>2 DEF TypeOK, Answers
    <2>3. Fresh(answer[r].of)
      <3>1. answer[r].status \in Statuses
        BY <1>2 DEF TypeOK, Answers
      <3>2. [kind |-> "fresh", status |-> answer[r].status] \in Answers
        BY <3>1 DEF Answers
      <3> QED
        BY <2>1, <3>2, NoneAssumption DEF Fresh
    <2> QED
      BY <1>1, <1>2, <2>1, <2>2, <2>3
  <1>3. ASSUME response # None, response.body = BodyOf[r],
               answer'[r] = [kind |-> "replay", status |-> response.status, of |-> response.of]
        PROVE  LET q == answer'[r].of
               IN  /\ answer'[q] = [kind |-> "fresh", status |-> answer'[r].status]
                   /\ Cacheable(answer'[r].status)
                   /\ BodyOf[q] = BodyOf[r]
    BY <1>1, <1>3 DEF StoredIsGenuine
  <1>4. ASSUME NEW q \in Requests, Steps(q), answer'[r] # answer[r]
        PROVE  /\ response # None /\ response.body = BodyOf[r]
               /\ answer'[r] = [kind |-> "replay", status |-> response.status, of |-> response.of]
    <2>1. CASE Lookup(q)
      BY <1>4, <2>1 DEF Lookup, Reply, TypeOK
    <2>2. ASSUME NEW a, a.kind # "replay", answer' = [answer EXCEPT ![q] = a] PROVE FALSE
      BY <1>4, <2>2 DEF TypeOK
    <2>3. CASE Reserve(q)
      BY <1>4, <2>2, <2>3 DEF Reserve, Reply
    <2>4. CASE ReserveFails(q)
      BY <2>2, <2>4 DEF ReserveFails, Reply
    <2>5. ASSUME NEW status \in Statuses, Respond(q, status) PROVE FALSE
      BY <2>2, <2>5 DEF Respond, Reply
    <2> QED
      BY <1>4, <2>1, <2>3, <2>4, <2>5 DEF Steps, Arrive, LookupFails, Submit, Store,
                                          StoreFails, Release, ReleaseFails, Crash
  <1> QED
    BY <1>2, <1>3, <1>4, NextSteps DEF vars, LockExpires, ResponseExpires

\* What is replayed is what the handler answered, to an equal body, and never
\* a transient failure.
THEOREM ReplaysAreGenuine == Spec => []ReplayIsGenuine
  <1>1. Init => StoredIsGenuine /\ ReplayIsGenuine
    BY DEF Init, StoredIsGenuine, ReplayIsGenuine
  <1> QED
    BY <1>1, StoredStep, ReplayStep, TypeCorrect, PTL DEF Spec
-------------------------------------------------------------------------------
\* Once the SET of a cacheable answer is behind its request, the response is
\* there as long as nothing disturbs Redis.
AnsweredIsStored == Undisturbed =>
    \A r \in Requests :
        Fresh(r) /\ Cacheable(answer[r].status) /\ pc[r] # "store" => response # None

\* The response is written before the request leaves Store, and only a timeout
\* takes it away.
LEMMA StoredBeforeLeft ==
    TypeOK /\ FreshIsPast /\ AnsweredIsStored /\ [Next]_vars => AnsweredIsStored'
  <1> SUFFICES ASSUME TypeOK, FreshIsPast, AnsweredIsStored, [Next]_vars, Undisturbed',
                      NEW q \in Requests, Fresh(q)', Cacheable(answer'[q].status),
                      pc'[q] # "store"
               PROVE  response' # None
    BY DEF AnsweredIsStored
  <1> USE DEF TypeOK, redis, Goto, Reply
  <1>1. ASSUME NEW r \in Requests, Steps(r) PROVE response' # None
    <2>1. Undisturbed
      <3>1. configured /\ ~lapsed
        BY <1>1 DEF Undisturbed, Steps, Arrive, Lookup, LookupFails, Reserve, ReserveFails,
                    Submit, Respond, Store, StoreFails, Release, ReleaseFails, Crash
      <3>2. ~Fault
        BY FaultsAssumption DEF Undisturbed, Fault
      <3>3. faults = 0
        BY <1>1, <3>2 DEF Undisturbed, Steps, Arrive, Lookup, LookupFails, Reserve, ReserveFails,
                    Submit, Respond, Store, StoreFails, Release, ReleaseFails, Crash
      <3>4. \A p \in Requests : p # r => pc'[p] = pc[p]
        BY <1>1 DEF Steps, Arrive, Lookup, LookupFails, Reserve, ReserveFails,
                    Submit, Respond, Store, StoreFails, Release, ReleaseFails, Crash
      <3>5. pc[r] # "crashed"
        BY <1>1 DEF Steps, Arrive, Lookup, LookupFails, Reserve, ReserveFails, Active,
                    Submit, Respond, Store, StoreFails, Release, ReleaseFails, Crash
      <3> QED
        BY <3>1, <3>3, <3>4, <3>5 DEF Undisturbed
    <2>2. CASE Store(r)
      <3>1. Fresh(r) /\ answer[r] \in Answers
        BY <2>2 DEF Store, FreshIsPast, Fresh
      <3>2. answer[r].status \in Statuses
        BY <3>1 DEF Fresh, Answers
      <3>3. Entry(r) \in Responses
        BY <3>2, BodyAssumption DEF Entry, Responses
      <3> QED
        BY <2>2, <3>3, NoneAssumption DEF Store
    <2>3. ASSUME response' = response, Fresh(q), answer'[q] = answer[q], pc[q] # "store"
          PROVE  response' # None
      BY <2>1, <2>3 DEF AnsweredIsStored
    <2>4. CASE \E status \in Statuses : Respond(r, status)
      <3>1. CASE q = r
        BY <2>1, <2>4, <3>1 DEF Respond, Undisturbed
      <3>2. CASE q # r
        BY <2>3, <2>4, <3>2 DEF Respond, Fresh
      <3> QED
        BY <3>1, <3>2
    <2>5. CASE Arrive(r) \/ Lookup(r) \/ LookupFails(r) \/ Reserve(r) \/ ReserveFails(r)
      <3>1. response' = response /\ pc[r] # "store" /\ ~Fresh(r)
        BY <2>5 DEF Arrive, Lookup, LookupFails, Reserve, ReserveFails, FreshIsPast, Past
      <3>2. ASSUME NEW a, a.kind # "fresh", answer' = [answer EXCEPT ![r] = a]
            PROVE  response' # None
        <4>1. q # r
          BY <3>2 DEF Fresh
        <4> QED
          BY <2>3, <2>5, <3>1, <3>2, <4>1
               DEF Arrive, Lookup, LookupFails, Reserve, ReserveFails, Fresh
      <3>3. CASE answer' = answer
        <4>1. q # r
          BY <3>1, <3>3 DEF Fresh
        <4> QED
          BY <2>3, <2>5, <3>1, <3>3, <4>1
               DEF Arrive, Lookup, LookupFails, Reserve, ReserveFails, Fresh
      <3> QED
        BY <2>5, <3>2, <3>3 DEF Arrive, Lookup, LookupFails, Reserve, ReserveFails
    <2>6. CASE Submit(r) \/ Release(r) \/ ReleaseFails(r)
      BY <2>3, <2>6 DEF Submit, Release, ReleaseFails, Fresh
    <2>7. ~StoreFails(r) /\ ~Crash(r)
      BY <2>1 DEF StoreFails, Crash, Fault, Undisturbed
    <2> QED
      BY <1>1, <2>2, <2>4, <2>5, <2>6, <2>7 DEF Steps
  <1>2. CASE LockExpires
    BY <1>2 DEF LockExpires, AnsweredIsStored, Undisturbed, Fresh
  <1>3. ~ResponseExpires
    BY DEF ResponseExpires, Undisturbed
  <1>4. CASE UNCHANGED vars
    BY <1>4 DEF vars, AnsweredIsStored, Undisturbed, Fresh
  <1> QED
    BY <1>1, <1>2, <1>3, <1>4, NextSteps

\* A retry that comes after the answer finds the lock or the response, for any
\* number of requests in flight.
THEOREM NoGap == Spec => []NoGapAfterAnswer
  <1>1. Init => AnsweredIsStored /\ HandlersExclude /\ LockCoversActive
    BY DEF Init, AnsweredIsStored, Fresh, HandlersExclude, LockCoversActive, Active
  <1>2. AnsweredIsStored /\ LockCoversActive => NoGapAfterAnswer
    BY DEF AnsweredIsStored, LockCoversActive, NoGapAfterAnswer, Undisturbed, Active
  <1> QED
    BY <1>1, <1>2, StoredBeforeLeft, ExclusionStep, TypeCorrect, PTL DEF Spec

\* Duplicates are kept apart, told the truth and never find a gap, for any
\* number of requests, bodies and faults.
THEOREM DuplicatesSafe == Spec => []DuplicatesAreSafe
  BY TypeCorrect, HandlersAreExcluded, ReplaysAreGenuine, NoGap, PTL DEF DuplicatesAreSafe
-------------------------------------------------------------------------------
\* A queue, its snapshot and its saved images: within the capacity, without duplicates, and
\* with ids of the first n entries only.
Item == [id : O!Entries, retryCount : 0..(MaxRetries - 1)]
Image(q, n) == /\ q \in Seq(Item)
               /\ Len(q) <= MaxSize
               /\ \A i, j \in DOMAIN q : q[i].id = q[j].id => i = j
               /\ \A i \in DOMAIN q : q[i].id <= n

\* What an image holds.
LEMMA ImageElements ==
  ASSUME NEW n, NEW q, Image(q, n)
  PROVE  /\ Len(q) \in Nat /\ DOMAIN q = 1..Len(q)
         /\ \A i \in 1..Len(q) : q[i] \in Item /\ q[i].id \in O!Entries /\ q[i].id <= n
         /\ \A i \in 1..Len(q) : q[i].id \in O!Ids(q)
  <1>1. q \in Seq(Item) /\ \A i \in DOMAIN q : q[i].id <= n
    BY DEF Image
  <1>2. Len(q) \in Nat /\ DOMAIN q = 1..Len(q) /\ \A i \in 1..Len(q) : q[i] \in Item
    BY <1>1
  <1>3. \A r \in Item : r.id \in O!Entries
    BY DEF Item
  <1> QED BY <1>1, <1>2, <1>3 DEF O!Ids

\* The empty queue is one, of any number of entries.
LEMMA EmptyImage == \A n : Image(<<>>, n) /\ O!Ids(<<>>) = {}
  BY QueueAssumption DEF Image, O!Ids

\* An image stays one as entries are added.
LEMMA LaterImage ==
  ASSUME NEW n \in Int, NEW m \in Int, n <= m, NEW q, Image(q, n) PROVE Image(q, m)
  <1>1. \A i \in DOMAIN q : q[i].id \in Int /\ q[i].id <= n
    BY ImageElements DEF O!Entries
  <1>2. \A i \in DOMAIN q : q[i].id <= m
    BY <1>1
  <1> QED BY <1>2 DEF Image

\* It names accepted entries only.
LEMMA ImageIds ==
  ASSUME NEW n \in Nat, NEW q, Image(q, n)
  PROVE  O!Ids(q) \subseteq O!Entries /\ O!Ids(q) \subseteq 1..n
  BY ImageElements DEF O!Ids, O!Entries

\* removeById: the others stay, in their order.
LEMMA WithoutIsImage ==
  ASSUME NEW n, NEW q, NEW e, Image(q, n)
  PROVE  /\ Image(O!Without(q, e), n)
         /\ O!Ids(O!Without(q, e)) = O!Ids(q) \ {e}
         /\ \A j \in DOMAIN O!Without(q, e) : \E i \in DOMAIN q : O!Without(q, e)[j] = q[i]
  <1>1. CASE e \notin O!Ids(q)
    BY <1>1 DEF O!Without
  <1>2. CASE e \in O!Ids(q)
    <2> DEFINE k == CHOOSE i \in DOMAIN q : q[i].id = e
               L == Len(q)
               a == SubSeq(q, 1, k - 1)
               b == SubSeq(q, k + 1, L)
               w == a \o b
    <2>1. L \in Nat /\ DOMAIN q = 1..L /\ \A i \in 1..L : q[i] \in Item
      BY ImageElements
    <2>2. k \in 1..L /\ q[k].id = e
      BY <1>2, <2>1 DEF O!Ids
    <2>3. O!Without(q, e) = w
      BY <1>2 DEF O!Without, O!RemoveAt
    <2> HIDE DEF k
    <2>4. /\ a \in Seq(Item) /\ Len(a) = k - 1
          /\ \A i \in 1..(k - 1) : a[i] = q[i]
      <3>1. \A i \in 1..(k - 1) : q[i] \in Item
        BY <2>1, <2>2
      <3>2. 1 \in Int /\ k - 1 \in Int
        BY <2>1, <2>2
      <3>3. /\ a \in Seq(Item) /\ Len(a) = (IF 1 <= k - 1 THEN k - 1 - 1 + 1 ELSE 0)
            /\ \A i \in 1..(k - 1 - 1 + 1) : a[i] = q[1 + i - 1]
        BY <3>1, <3>2, SubSeqProperties
      <3> QED BY <2>1, <2>2, <3>3
    <2>5. /\ b \in Seq(Item) /\ Len(b) = L - k
          /\ \A i \in 1..(L - k) : b[i] = q[k + i]
      <3>1. \A i \in (k + 1)..L : q[i] \in Item
        BY <2>1, <2>2
      <3>2. k + 1 \in Int /\ L \in Int
        BY <2>1, <2>2
      <3>3. /\ b \in Seq(Item) /\ Len(b) = (IF k + 1 <= L THEN L - (k + 1) + 1 ELSE 0)
            /\ \A i \in 1..(L - (k + 1) + 1) : b[i] = q[k + 1 + i - 1]
        BY <3>1, <3>2, SubSeqProperties
      <3>4. ASSUME NEW i \in 1..(L - k) PROVE b[i] = q[k + i]
        <4>1. i \in 1..(L - (k + 1) + 1) /\ k + 1 + i - 1 = k + i
          BY <2>1, <2>2
        <4> QED BY <3>3, <4>1, Zenon
      <3>5. Len(b) = L - k
        <4> HIDE DEF b, L
        <4>1. CASE k + 1 <= L
          <5>1. L - (k + 1) + 1 = L - k
            BY <2>1, <2>2
          <5> QED BY <3>3, <4>1, <5>1, Zenon
        <4>2. CASE ~(k + 1 <= L)
          <5>1. 0 = L - k
            BY <2>1, <2>2, <4>2
          <5> QED BY <3>3, <4>2, <5>1, Zenon
        <4> QED BY <4>1, <4>2
      <3> QED BY <3>3, <3>4, <3>5
    <2> HIDE DEF a, b
    <2>6. /\ w \in Seq(Item) /\ Len(w) = L - 1
          /\ \A i \in 1..(L - 1) : w[i] = IF i < k THEN q[i] ELSE q[i + 1]
      <3>1. /\ w \in Seq(Item) /\ Len(w) = Len(a) + Len(b)
            /\ \A i \in 1..(Len(a) + Len(b)) : w[i] = IF i <= Len(a) THEN a[i] ELSE b[i - Len(a)]
        BY <2>4, <2>5, ConcatProperties, Zenon
      <3>2. Len(w) = L - 1
        BY <2>1, <2>2, <2>4, <2>5, <3>1
      <3>3. ASSUME NEW i \in 1..(L - 1) PROVE w[i] = IF i < k THEN q[i] ELSE q[i + 1]
        <4>0. i \in 1..(Len(a) + Len(b)) /\ (i <= Len(a) <=> i < k)
          BY <2>1, <2>2, <2>4, <2>5
        <4>1. CASE i < k
          <5>1. i \in 1..(k - 1)
            BY <2>2, <4>1
          <5> QED BY <2>4, <3>1, <4>0, <4>1, <5>1, Zenon
        <4>2. CASE ~(i < k)
          <5>1. i - Len(a) \in 1..(L - k) /\ k + (i - Len(a)) = i + 1
            BY <2>1, <2>2, <2>4, <4>2
          <5> QED BY <2>5, <3>1, <4>0, <4>2, <5>1, Zenon
        <4> QED BY <4>1, <4>2
      <3> QED BY <3>1, <3>2, <3>3
    <2> HIDE DEF w, L
    <2>7. DOMAIN w = 1..(L - 1)
      BY <2>6
    <2>8. Image(w, n)
      <3>1. Len(w) <= MaxSize
        BY <2>1, <2>6, QueueAssumption DEF Image, L
      <3>2. \A i \in DOMAIN w : w[i].id <= n
        <4>1. \A i \in DOMAIN w : \E j \in DOMAIN q : w[i] = q[j]
          BY <2>1, <2>2, <2>6, <2>7
        <4> QED BY <4>1, Zenon DEF Image
      <3>3. ASSUME NEW i \in DOMAIN w, NEW j \in DOMAIN w, w[i].id = w[j].id PROVE i = j
        <4> DEFINE f(x) == IF x < k THEN x ELSE x + 1
        <4>1. \A x \in DOMAIN w : f(x) \in DOMAIN q /\ w[x] = q[f(x)]
          BY <2>1, <2>2, <2>6, <2>7
        <4>2. f(i) = f(j)
          BY <3>3, <4>1 DEF Image
        <4> QED BY <2>1, <2>2, <2>7, <4>2
      <3> QED BY <2>6, <3>1, <3>2, <3>3 DEF Image
    <2>9. \A j \in DOMAIN w : \E i \in DOMAIN q : w[j] = q[i] /\ i # k
      <3> TAKE j \in DOMAIN w
      <3>1. CASE j < k
        BY <2>1, <2>2, <2>6, <2>7, <3>1
      <3>2. CASE ~(j < k)
        <4>1. j + 1 \in DOMAIN q /\ w[j] = q[j + 1] /\ j + 1 # k
          BY <2>1, <2>2, <2>6, <2>7, <3>2
        <4> QED BY <4>1
      <3> QED BY <3>1, <3>2
    <2>10. \A i \in DOMAIN q : i # k => \E j \in DOMAIN w : w[j] = q[i]
      <3> TAKE i \in DOMAIN q
      <3>1. CASE i < k
        BY <2>1, <2>2, <2>6, <2>7, <3>1
      <3>2. CASE i > k
        <4>1. i - 1 \in DOMAIN w /\ w[i - 1] = q[i]
          BY <2>1, <2>2, <2>6, <2>7, <3>2
        <4> QED BY <4>1
      <3> QED BY <2>1, <2>2, <3>1, <3>2
    <2>11. \A i \in DOMAIN q : q[i].id = e <=> i = k
      BY <2>1, <2>2 DEF Image
    <2>12. O!Ids(w) = O!Ids(q) \ {e}
      BY <2>9, <2>10, <2>11 DEF O!Ids
    <2> QED BY <2>3, <2>8, <2>9, <2>12
  <1> QED BY <1>1, <1>2

\* The rest of a snapshot has not the entry that was sent.
LEMMA TailIsImage ==
  ASSUME NEW n, NEW q, Image(q, n), q # <<>>
  PROVE  /\ Image(Tail(q), n)
         /\ Head(q) \in Item /\ Head(q) = q[1] /\ 1 \in DOMAIN q
         /\ O!Ids(Tail(q)) = O!Ids(q) \ {Head(q).id}
         /\ \A j \in DOMAIN Tail(q) : j + 1 \in DOMAIN q /\ Tail(q)[j] = q[j + 1]
  <1>1. /\ q \in Seq(Item) /\ Len(q) \in Nat \ {0} /\ DOMAIN q = 1..Len(q)
        /\ Tail(q) \in Seq(Item) /\ Len(Tail(q)) = Len(q) - 1
        /\ DOMAIN Tail(q) = 1..(Len(q) - 1)
        /\ \A j \in 1..(Len(q) - 1) : Tail(q)[j] = q[j + 1]
        /\ Head(q) = q[1]
    BY DEF Image
  <1>2. Image(Tail(q), n)
    <2> DEFINE t == Tail(q)
    <2>1. Len(t) <= MaxSize
      BY <1>1, QueueAssumption DEF Image
    <2>2. \A i \in DOMAIN t : t[i].id <= n
      BY <1>1 DEF Image
    <2>3. ASSUME NEW i \in DOMAIN t, NEW j \in DOMAIN t, t[i].id = t[j].id PROVE i = j
      <3>1. i + 1 \in DOMAIN q /\ j + 1 \in DOMAIN q /\ t[i] = q[i + 1] /\ t[j] = q[j + 1]
        BY <1>1
      <3>2. i + 1 = j + 1
        BY <2>3, <3>1 DEF Image
      <3> QED BY <1>1, <3>2
    <2> QED BY <1>1, <2>1, <2>2, <2>3 DEF Image
  <1>3. \A i \in DOMAIN q : i # 1 => i - 1 \in DOMAIN Tail(q) /\ Tail(q)[i - 1] = q[i]
    BY <1>1
  <1>4. \A i \in DOMAIN q : q[i].id = Head(q).id <=> i = 1
    BY <1>1 DEF Image
  <1>5. O!Ids(Tail(q)) = O!Ids(q) \ {Head(q).id}
    <2>1. \A j \in DOMAIN Tail(q) : j + 1 \in DOMAIN q /\ j + 1 # 1 /\ Tail(q)[j] = q[j + 1]
      BY <1>1
    <2>2. O!Ids(Tail(q)) \subseteq O!Ids(q) \ {Head(q).id}
      BY <1>4, <2>1 DEF O!Ids
    <2>3. ASSUME NEW e \in O!Ids(q), e # Head(q).id PROVE e \in O!Ids(Tail(q))
      <3>1. PICK i \in DOMAIN q : q[i].id = e
        BY <2>3 DEF O!Ids
      <3>2. i - 1 \in DOMAIN Tail(q) /\ Tail(q)[i - 1] = q[i]
        BY <1>3, <1>4, <2>3, <3>1
      <3> QED BY <3>1, <3>2 DEF O!Ids
    <2> QED BY <2>2, <2>3
  <1> QED BY <1>1, <1>2, <1>5, ImageElements

\* enqueue: the new entry has an id nobody has.
LEMMA AppendIsImage ==
  ASSUME NEW n \in Nat, NEW q, Image(q, n), Len(q) < MaxSize, n + 1 \in O!Entries,
         NEW r, r = [id |-> n + 1, retryCount |-> 0]
  PROVE  /\ Image(Append(q, r), n + 1)
         /\ O!Ids(Append(q, r)) = O!Ids(q) \cup {n + 1}
         /\ DOMAIN Append(q, r) = 1..(Len(q) + 1)
         /\ \A i \in 1..Len(q) : Append(q, r)[i] = q[i]
         /\ Append(q, r)[Len(q) + 1] = r
  <1>1. r \in Item /\ r.id = n + 1
    BY QueueAssumption DEF Item
  <1>2. /\ q \in Seq(Item) /\ Len(q) \in Nat /\ DOMAIN q = 1..Len(q)
        /\ Append(q, r) \in Seq(Item) /\ Len(Append(q, r)) = Len(q) + 1
        /\ DOMAIN Append(q, r) = 1..(Len(q) + 1)
        /\ \A i \in 1..Len(q) : Append(q, r)[i] = q[i]
        /\ Append(q, r)[Len(q) + 1] = r
    BY <1>1 DEF Image
  <1>3. \A i \in 1..Len(q) : q[i].id \in O!Entries /\ q[i].id <= n
    BY ImageElements
  <1>4. Image(Append(q, r), n + 1)
    <2> DEFINE s == Append(q, r)
    <2>1. \A i \in 1..(Len(q) + 1) : i \in 1..Len(q) \/ i = Len(q) + 1
      BY <1>2
    <2>2. \A i \in DOMAIN s : s[i].id <= n + 1
      BY <1>1, <1>2, <1>3, <2>1 DEF O!Entries
    <2>3. ASSUME NEW i \in DOMAIN s, NEW j \in DOMAIN s, s[i].id = s[j].id PROVE i = j
      BY <1>1, <1>2, <1>3, <2>1, <2>3, QueueAssumption DEF Image, O!Entries
    <2>4. s \in Seq(Item) /\ Len(s) <= MaxSize
      BY <1>2, QueueAssumption
    <2> QED BY <2>2, <2>3, <2>4 DEF Image
  <1>5. O!Ids(Append(q, r)) = O!Ids(q) \cup {n + 1}
    <2>1. 1..(Len(q) + 1) = 1..Len(q) \cup {Len(q) + 1}
      BY <1>2
    <2> QED BY <1>1, <1>2, <2>1 DEF O!Ids
  <1> QED BY <1>2, <1>4, <1>5

\* retryCount++ of an entry that may fail once more.
LEMMA RetriedIsImage ==
  ASSUME NEW n, NEW q, NEW e, Image(q, n),
         \A i \in DOMAIN q : q[i].id = e => q[i].retryCount + 1 < MaxRetries
  PROVE  /\ Image(O!Retried(q, e), n)
         /\ O!Ids(O!Retried(q, e)) = O!Ids(q)
         /\ DOMAIN O!Retried(q, e) = DOMAIN q
         /\ \A i \in DOMAIN q : /\ O!Retried(q, e)[i].id = q[i].id
                                /\ q[i].id # e => O!Retried(q, e)[i] = q[i]
  <1> DEFINE s == O!Retried(q, e)
  <1>1. Len(q) \in Nat /\ DOMAIN q = 1..Len(q) /\ \A i \in 1..Len(q) : q[i] \in Item
    BY ImageElements
  <1>2. s = [i \in 1..Len(q) |-> IF q[i].id = e THEN [q[i] EXCEPT !.retryCount = @ + 1] ELSE q[i]]
    BY <1>1 DEF O!Retried
  <1>3. \A i \in 1..Len(q) : /\ s[i] \in Item /\ s[i].id = q[i].id
                             /\ q[i].id # e => s[i] = q[i]
    BY <1>1, <1>2, QueueAssumption DEF Item
  <1>4. s \in Seq(Item) /\ Len(s) = Len(q) /\ DOMAIN s = 1..Len(q)
    BY <1>1, <1>2, <1>3
  <1> HIDE DEF s
  <1>5. Image(s, n)
    BY <1>1, <1>3, <1>4 DEF Image
  <1>6. O!Ids(s) = O!Ids(q)
    BY <1>1, <1>3, <1>4 DEF O!Ids
  <1> QED BY <1>1, <1>3, <1>4, <1>5, <1>6 DEF s

\* Induction over the naturals, as a fact about sets.
LEMMA LeastNumber == ASSUME NEW S \in SUBSET Nat, S # {}
                     PROVE  \E m \in S : \A n \in S : m <= n
  <1>1. IsWellFoundedOn(OpToRel(<, Nat), Nat)
    BY NatLessThanWellFounded, Zenon
  <1>2. PICK m \in S : \A n \in S : ~(<<n, m>> \in OpToRel(<, Nat))
    BY <1>1, WFMin, Zenon
  <1>3. ASSUME NEW n \in S PROVE m <= n
    <2>1. ~(<<n, m>> \in OpToRel(<, Nat))
      BY <1>2, Zenon
    <2>2. ~(n < m)
      BY <2>1, Zenon DEF OpToRel
    <2> QED BY <2>2
  <1> QED BY <1>3

\* The load of an empty queue takes over what it read.
LEMMA MergedIntoEmpty ==
  ASSUME NEW n, NEW l, Image(l, n) PROVE O!Merged(<<>>, l) = l
  <1> DEFINE L == Len(l)
             F(f) == [i \in 0..L |-> IF i = 0 THEN <<>>
                                     ELSE IF l[i].id \in O!Ids(<<>>) THEN f[i - 1]
                                          ELSE Append(f[i - 1], l[i])]
             g == [i \in 0..L |-> SubSeq(l, 1, i)]
             pushed == CHOOSE f : f = F(f)
  <1>1. l \in Seq(Item) /\ L \in Nat /\ \A i \in 1..L : l[i] \in Item
    BY ImageElements DEF Image
  <1>2. O!Ids(<<>>) = {}
    BY EmptyImage
  <1>3. SubSeq(l, 1, 0) = <<>>
    BY SubSeqEmpty
  <1>4. ASSUME NEW i \in 1..L PROVE Append(SubSeq(l, 1, i - 1), l[i]) = SubSeq(l, 1, i)
    <2>1. 1 \in 1..L /\ i \in 1..L /\ i - 1 \in Int /\ 1 \in Int
      BY <1>1, <1>4
    <2>2. SubSeq(l, 1, i) = SubSeq(l, 1, i - 1) \o <<l[i]>>
      BY <1>1, <2>1, SubSeqRecursiveSecond
    <2>3. SubSeq(l, 1, i - 1) \in Seq(Item)
      <3>1. \A j \in 1..(i - 1) : l[j] \in Item
        BY <1>1, <1>4
      <3> QED BY <2>1, <3>1, SubSeqProperties
    <2> QED BY <1>1, <2>2, <2>3, AppendIsConcat
  <1>5. g = F(g)
    <2>1. ASSUME NEW i \in 0..L
          PROVE  g[i] = IF i = 0 THEN <<>> ELSE IF l[i].id \in O!Ids(<<>>) THEN g[i - 1]
                                           ELSE Append(g[i - 1], l[i])
      <3>1. CASE i = 0
        BY <1>1, <1>3, <3>1
      <3>2. CASE i # 0
        <4>1. i \in 1..L /\ i - 1 \in 0..L
          BY <1>1, <2>1, <3>2
        <4>2. g[i] = SubSeq(l, 1, i) /\ g[i - 1] = SubSeq(l, 1, i - 1)
          BY <4>1
        <4>3. g[i] = Append(g[i - 1], l[i])
          BY <1>4, <4>1, <4>2, Zenon
        <4> QED BY <1>2, <3>2, <4>3, Zenon
      <3> QED BY <3>1, <3>2
    <2> HIDE DEF L
    <2> QED BY <2>1, Zenon
  <1>6. pushed = F(pushed)
    <2> HIDE DEF F, g
    <2> QED BY <1>5, Zenon
  <1> HIDE DEF pushed
  <1>7. ASSUME NEW i \in 0..L
        PROVE  pushed[i] = IF i = 0 THEN <<>> ELSE Append(pushed[i - 1], l[i])
    <2>1. pushed[i] = F(pushed)[i]
      <3> HIDE DEF F, L
      <3> QED BY <1>6, Zenon
    <2>2. F(pushed)[i] = IF i = 0 THEN <<>> ELSE IF l[i].id \in O!Ids(<<>>) THEN pushed[i - 1]
                                            ELSE Append(pushed[i - 1], l[i])
      <3> HIDE DEF L
      <3> QED BY <1>7, Zenon
    <2> QED BY <1>2, <2>1, <2>2, Zenon
  <1>8. \A i \in 0..L : pushed[i] = SubSeq(l, 1, i)
    <2> DEFINE S == {i \in 0..L : pushed[i] # SubSeq(l, 1, i)}
    <2> SUFFICES ASSUME S # {} PROVE FALSE
      OBVIOUS
    <2>1. S \in SUBSET Nat
      BY <1>1
    <2> HIDE DEF S
    <2>2. PICK m \in S : \A i \in S : m <= i
      BY <2>1, LeastNumber
    <2>3. m \in 0..L /\ pushed[m] # SubSeq(l, 1, m)
      BY <2>2 DEF S
    <2>4. m # 0
      BY <1>1, <1>3, <1>7, <2>3
    <2>5. m \in 1..L /\ m - 1 \in 0..L /\ ~(m <= m - 1)
      BY <1>1, <2>3, <2>4
    <2>6. pushed[m - 1] = SubSeq(l, 1, m - 1)
      BY <2>2, <2>5, Zenon DEF S
    <2>7. pushed[m] = Append(SubSeq(l, 1, m - 1), l[m])
      BY <1>7, <2>3, <2>4, <2>6, Zenon
    <2> QED BY <1>4, <2>3, <2>5, <2>7, Zenon
  <1>9. pushed[L] = l
    BY <1>1, <1>8, SubSeqFull
  <1> QED BY <1>9 DEF O!Merged, pushed

-------------------------------------------------------------------------------
\* The storage writes in flight: each saves an image of the queue.
Images(ws, n) == ws \in Seq(Seq(Item)) /\ \A k \in DOMAIN ws : Image(ws[k], n)

\* They stay images as entries are added,
LEMMA LaterImages ==
  ASSUME NEW n \in Int, NEW m \in Int, n <= m, NEW ws, Images(ws, n) PROVE Images(ws, m)
  BY LaterImage DEF Images

\* as one more is issued,
LEMMA AppendedWrite ==
  ASSUME NEW n, NEW ws, NEW q, Images(ws, n), Image(q, n)
  PROVE  /\ Images(Append(ws, q), n)
         /\ Len(ws) \in Nat /\ DOMAIN ws = 1..Len(ws)
         /\ Len(Append(ws, q)) = Len(ws) + 1
         /\ DOMAIN Append(ws, q) = 1..(Len(ws) + 1)
         /\ \A k \in 1..Len(ws) : Append(ws, q)[k] = ws[k]
         /\ Append(ws, q)[Len(ws) + 1] = q
  <1>1. ws \in Seq(Seq(Item)) /\ q \in Seq(Item)
    BY DEF Images, Image
  <1>2. /\ Append(ws, q) \in Seq(Seq(Item))
        /\ Len(ws) \in Nat /\ DOMAIN ws = 1..Len(ws)
        /\ Len(Append(ws, q)) = Len(ws) + 1
        /\ DOMAIN Append(ws, q) = 1..(Len(ws) + 1)
        /\ \A k \in 1..Len(ws) : Append(ws, q)[k] = ws[k]
        /\ Append(ws, q)[Len(ws) + 1] = q
    BY <1>1
  <1>3. \A k \in 1..(Len(ws) + 1) : k \in 1..Len(ws) \/ k = Len(ws) + 1
    BY <1>2
  <1>4. \A k \in DOMAIN Append(ws, q) : Image(Append(ws, q)[k], n)
    BY <1>2, <1>3, Zenon DEF Images
  <1> QED BY <1>2, <1>4, Zenon DEF Images

\* and as the oldest is over.
LEMMA RestOfWrites ==
  ASSUME NEW n, NEW ws, Images(ws, n), ws # <<>>
  PROVE  /\ Images(Tail(ws), n)
         /\ Image(Head(ws), n) /\ Head(ws) = ws[1]
         /\ Len(ws) \in Nat \ {0} /\ DOMAIN ws = 1..Len(ws)
         /\ Len(Tail(ws)) = Len(ws) - 1
         /\ DOMAIN Tail(ws) = 1..(Len(ws) - 1)
         /\ \A k \in 1..(Len(ws) - 1) : Tail(ws)[k] = ws[k + 1]
  <1>1. /\ ws \in Seq(Seq(Item)) /\ Len(ws) \in Nat \ {0} /\ DOMAIN ws = 1..Len(ws)
        /\ Tail(ws) \in Seq(Seq(Item)) /\ Len(Tail(ws)) = Len(ws) - 1
        /\ DOMAIN Tail(ws) = 1..(Len(ws) - 1)
        /\ \A k \in 1..(Len(ws) - 1) : Tail(ws)[k] = ws[k + 1]
        /\ Head(ws) = ws[1]
    BY DEF Images
  <1>2. 1 \in DOMAIN ws /\ \A k \in 1..(Len(ws) - 1) : k + 1 \in DOMAIN ws
    BY <1>1
  <1>3. Image(Head(ws), n) /\ \A k \in DOMAIN Tail(ws) : Image(Tail(ws)[k], n)
    BY <1>1, <1>2, Zenon DEF Images
  <1> QED BY <1>1, <1>3, Zenon DEF Images

-------------------------------------------------------------------------------
\* The inductive invariant. Typed: every list of entries is an image of the queue; only a
\* replay that saves exceeds the bound on the writes.
Replays == [phase : {"idle", "sending", "saving"}, todo : Seq(Item), sent : BOOLEAN, ahead : Nat]
Histories == /\ durable \subseteq 1..enqueued /\ delivered \subseteq 1..enqueued
             /\ dead \subseteq 1..enqueued /\ cleared \subseteq 1..enqueued
Held == /\ Image(queue, enqueued) /\ Image(loading, enqueued) /\ Image(stored, enqueued)
        /\ Image(replay.todo, enqueued) /\ Images(writes, enqueued)
Bounded == /\ Len(writes) <= MaxWrites + 1
           /\ replay.phase # "saving" => Len(writes) <= MaxWrites
Typed == /\ ready \in BOOLEAN /\ online \in BOOLEAN /\ loadFailed \in BOOLEAN
         /\ crashes \in Nat /\ enqueued \in 0..MaxEntries
         /\ replay \in Replays
         /\ Histories /\ Held /\ Bounded

\* Until the load is over there is nothing but cleared queues.
Quiet == ~ready => queue = <<>> /\ replay = O!Idle /\ \A k \in DOMAIN writes : writes[k] = <<>>

\* The snapshot and the queue share their entries.
Shared == \A i \in DOMAIN replay.todo, j \in DOMAIN queue :
    replay.todo[i].id = queue[j].id => replay.todo[i].retryCount = queue[j].retryCount

\* Until the first restart no entry that has a verdict is queued, in the snapshot or read.
Unsent == crashes = 0 => /\ loading = <<>>
                         /\ (O!Ids(queue) \cup O!Ids(replay.todo)) \cap (delivered \cup dead) = {}

\* What a write in flight saves is resolved or still queued; every write saves what was
\* durable before it, and what an older write saves.
WritesFollow ==
    /\ \A k \in DOMAIN writes : \A e \in O!Ids(writes[k]) : O!Resolved(e) \/ e \in O!Ids(queue)
    /\ \A k \in DOMAIN writes : \A e \in durable :
           O!Resolved(e) \/ loadFailed \/ e \in O!Ids(writes[k])
    /\ \A j, k \in DOMAIN writes : j < k => \A e \in O!Ids(writes[j]) :
           O!Resolved(e) \/ loadFailed \/ e \in O!Ids(writes[k])

Kept == O!NothingLost /\ O!CrashSafe /\ WritesFollow
QueueInv == Typed /\ Quiet /\ Shared /\ Unsent /\ Kept

\* Ids are those of entries that were accepted.
LEMMA Basics ==
  ASSUME QueueInv
  PROVE  /\ enqueued \in Nat /\ enqueued <= MaxEntries /\ MaxEntries \in Nat
         /\ O!Ids(queue) \subseteq 1..enqueued /\ O!Ids(loading) \subseteq 1..enqueued
         /\ O!Ids(replay.todo) \subseteq 1..enqueued
         /\ 1..enqueued \subseteq O!Entries
  <1>1. enqueued \in Nat /\ enqueued <= MaxEntries /\ MaxEntries \in Nat
    BY QueueAssumption DEF QueueInv, Typed
  <1> QED BY <1>1, ImageIds DEF QueueInv, Typed, Held, O!Entries

\* At the start nothing is held.
LEMMA QueueInit == O!Init => QueueInv
  <1> SUFFICES ASSUME O!Init PROVE QueueInv
    OBVIOUS
  <1> USE QueueAssumption DEF O!Init
  <1>1. Images(<<>>, 0) /\ \A n : Image(<<>>, n) /\ O!Ids(<<>>) = {}
    BY EmptyImage DEF Images
  <1>2. O!Idle \in Replays /\ O!Idle.todo = <<>> /\ O!Idle.phase = "idle"
    BY DEF O!Idle, Replays
  <1>3. Held
    BY <1>1, <1>2, Zenon DEF Held
  <1>7. Bounded /\ Histories
    <2>1. Len(writes) = 0
      OBVIOUS
    <2>2. Bounded
      BY <1>2, <2>1 DEF Bounded
    <2> QED BY <2>2 DEF Histories
  <1>4. Typed
    <2>1. crashes \in Nat /\ enqueued \in 0..MaxEntries /\ replay \in Replays
      BY <1>2
    <2> QED BY <1>3, <1>7, <2>1, Zenon DEF Typed
  <1>5. Quiet /\ Shared /\ Unsent
    BY <1>1, <1>2 DEF Quiet, Shared, Unsent
  <1>6. Kept
    BY <1>1 DEF Kept, O!NothingLost, O!CrashSafe, WritesFollow
  <1> QED BY <1>4, <1>5, <1>6 DEF QueueInv

\* A step that takes an entry out of the queue only to resolve it, and saves nothing.
LEMMA KeptWithoutSaving ==
  ASSUME Kept, UNCHANGED <<ready, loading, enqueued, durable, stored, writes, crashes, loadFailed>>,
         \A e \in O!Ids(queue) : O!Resolved(e)' \/ e \in O!Ids(queue)',
         \A e : O!Resolved(e) => O!Resolved(e)'
  PROVE  Kept'
  <1>1. O!NothingLost'
    BY DEF Kept, O!NothingLost
  <1>2. O!CrashSafe'
    BY DEF Kept, O!CrashSafe
  <1>3. WritesFollow'
    BY DEF Kept, WritesFollow
  <1> QED BY <1>1, <1>2, <1>3 DEF Kept

\* A step that issues a write of the queue as it is afterwards.
LEMMA KeptBySaving ==
  ASSUME QueueInv, UNCHANGED <<ready, loading, durable, stored, crashes, loadFailed>>,
         \/ enqueued' = enqueued
         \/ enqueued' = enqueued + 1 /\ enqueued + 1 \in O!Ids(queue)',
         Images(writes, enqueued'), Image(queue', enqueued'), writes' = Append(writes, queue'),
         \A e \in O!Ids(queue) : O!Resolved(e)' \/ e \in O!Ids(queue)',
         \A e : O!Resolved(e) => O!Resolved(e)',
         ready \/ \A e \in O!Ids(loading) : O!Resolved(e)'
  PROVE  Kept'
  <1>1. enqueued \in Nat /\ durable \subseteq 1..enqueued
    BY Basics DEF QueueInv, Typed, Histories
  <1>2. O!NothingLost'
    <2>1. \A e \in 1..enqueued' : e \in 1..enqueued \/ e \in O!Ids(queue)'
      <3>1. CASE enqueued' = enqueued
        BY <3>1
      <3>2. CASE enqueued' = enqueued + 1 /\ enqueued + 1 \in O!Ids(queue)'
        <4>1. \A e \in 1..(enqueued + 1) : e \in 1..enqueued \/ e = enqueued + 1
          BY <1>1
        <4> QED BY <3>2, <4>1
      <3> QED BY <3>1, <3>2
    <2> QED BY <2>1 DEF QueueInv, Kept, O!NothingLost
  <1>3. O!CrashSafe'
    BY DEF QueueInv, Kept, O!CrashSafe
  <1>4. \A e \in durable : O!Resolved(e)' \/ loadFailed \/ e \in O!Ids(queue)'
    <2> TAKE e \in durable
    <2>1. O!Resolved(e) \/ e \in O!Ids(queue) \/ (~ready /\ e \in O!Ids(loading)) \/ loadFailed
      BY <1>1 DEF QueueInv, Kept, O!NothingLost
    <2> QED BY <2>1
  <1>5. /\ Len(writes) \in Nat /\ DOMAIN writes = 1..Len(writes)
        /\ DOMAIN writes' = 1..(Len(writes) + 1)
        /\ \A k \in 1..Len(writes) : writes'[k] = writes[k]
        /\ writes'[Len(writes) + 1] = queue'
    BY AppendedWrite
  <1>6. \A k \in DOMAIN writes' : \/ k \in DOMAIN writes /\ writes'[k] = writes[k]
                                  \/ k = Len(writes) + 1 /\ writes'[k] = queue'
    BY <1>5
  <1>7. \A j, k \in DOMAIN writes' : j < k => j \in DOMAIN writes
    BY <1>5
  <1>8. \A k \in DOMAIN writes : \A e \in O!Ids(writes[k]) : O!Resolved(e)' \/ e \in O!Ids(queue)'
    BY DEF QueueInv, Kept, WritesFollow
  <1>9. \A k \in DOMAIN writes' : \A e \in O!Ids(writes'[k]) : O!Resolved(e)' \/ e \in O!Ids(queue)'
    BY <1>6, <1>8
  <1>10. \A k \in DOMAIN writes' : \A e \in durable :
           O!Resolved(e)' \/ loadFailed \/ e \in O!Ids(writes'[k])
    <2> TAKE k \in DOMAIN writes'
    <2> TAKE e \in durable
    <2>1. CASE k \in DOMAIN writes /\ writes'[k] = writes[k]
      BY <2>1 DEF QueueInv, Kept, WritesFollow
    <2>2. CASE writes'[k] = queue'
      BY <1>4, <2>2
    <2> QED BY <1>6, <2>1, <2>2
  <1>11. ASSUME NEW j \in DOMAIN writes', NEW k \in DOMAIN writes', j < k, NEW e \in O!Ids(writes'[j])
         PROVE  O!Resolved(e)' \/ loadFailed \/ e \in O!Ids(writes'[k])
    <2>1. j \in DOMAIN writes /\ writes'[j] = writes[j]
      BY <1>5, <1>7, <1>11
    <2>2. CASE k \in DOMAIN writes /\ writes'[k] = writes[k]
      BY <1>11, <2>1, <2>2 DEF QueueInv, Kept, WritesFollow
    <2>3. CASE writes'[k] = queue'
      BY <1>8, <1>11, <2>1, <2>3
    <2> QED BY <1>6, <2>2, <2>3
  <1>12. WritesFollow'
    BY <1>9, <1>10, <1>11 DEF WritesFollow
  <1> QED BY <1>2, <1>3, <1>12 DEF Kept

-------------------------------------------------------------------------------
\* The load finds an empty queue and takes over what was read.
LEMMA LoadStep == ASSUME QueueInv, O!Load PROVE QueueInv'
  <1>1. /\ ~ready /\ ready' = TRUE /\ loading' = <<>>
        /\ UNCHANGED <<online, replay, O!storage, O!history>>
        /\ queue = <<>> /\ replay = O!Idle /\ \A k \in DOMAIN writes : writes[k] = <<>>
    BY DEF O!Load, QueueInv, Quiet
  <1>2. queue' = loading
    BY <1>1, MergedIntoEmpty DEF O!Load, QueueInv, Typed, Held
  <1> USE <1>1, <1>2 DEF O!storage, O!history
  <1>3. Typed'
    <2>1. Held'
      BY EmptyImage, Zenon DEF QueueInv, Typed, Held
    <2>2. Histories' /\ Bounded'
      BY DEF QueueInv, Typed, Histories, Bounded
    <2> QED BY <2>1, <2>2 DEF QueueInv, Typed
  <1>4. Quiet' /\ Shared'
    BY DEF Quiet, Shared, O!Idle
  <1>5. Unsent'
    BY EmptyImage DEF QueueInv, Unsent
  <1>6. Kept'
    <2>1. O!NothingLost' /\ O!CrashSafe'
      BY EmptyImage DEF QueueInv, Kept, O!NothingLost, O!CrashSafe, O!Resolved
    <2>2. \A k \in DOMAIN writes : O!Ids(writes[k]) = {}
      BY EmptyImage
    <2>3. WritesFollow'
      BY <2>2 DEF QueueInv, Kept, WritesFollow, O!Resolved
    <2> QED BY <2>1, <2>3 DEF Kept
  <1> QED BY <1>3, <1>4, <1>5, <1>6 DEF QueueInv

\* Nothing is loaded: what was not resolved is lost, and loadFailed says so.
LEMMA LoadFailsStep == ASSUME QueueInv, O!LoadFails PROVE QueueInv'
  <1>1. /\ ~ready /\ ready' = TRUE /\ loading' = <<>> /\ loadFailed' = TRUE
        /\ UNCHANGED <<queue, online, replay, O!storage,
                       enqueued, durable, delivered, dead, cleared, crashes, clears>>
        /\ queue = <<>> /\ replay = O!Idle /\ \A k \in DOMAIN writes : writes[k] = <<>>
    BY DEF O!LoadFails, QueueInv, Quiet
  <1> USE <1>1 DEF O!storage
  <1>3. Typed'
    <2>1. Held'
      BY EmptyImage, Zenon DEF QueueInv, Typed, Held
    <2>2. Histories' /\ Bounded'
      BY DEF QueueInv, Typed, Histories, Bounded
    <2> QED BY <2>1, <2>2 DEF QueueInv, Typed
  <1>4. Quiet' /\ Shared' /\ Unsent'
    BY EmptyImage DEF QueueInv, Quiet, Shared, Unsent, O!Idle
  <1>6. Kept'
    <2>1. \A k \in DOMAIN writes : O!Ids(writes[k]) = {}
      BY EmptyImage
    <2>2. O!NothingLost' /\ O!CrashSafe'
      BY DEF O!NothingLost, O!CrashSafe
    <2>3. WritesFollow'
      BY <2>1 DEF WritesFollow
    <2> QED BY <2>2, <2>3 DEF Kept
  <1> QED BY <1>3, <1>4, <1>6 DEF QueueInv

\* enqueue: nobody has the id of the new entry, which no snapshot holds.
LEMMA EnqueueStep == ASSUME QueueInv, O!Enqueue PROVE QueueInv'
  <1> DEFINE r == [id |-> enqueued + 1, retryCount |-> 0]
  <1>1. /\ ready /\ enqueued < MaxEntries /\ Len(queue) < MaxSize /\ Len(writes) < MaxWrites
        /\ queue' = Append(queue, r) /\ online' = FALSE
        /\ writes' = Append(writes, queue') /\ enqueued' = enqueued + 1
        /\ UNCHANGED <<ready, loading, replay, stored, durable, delivered, dead,
                       cleared, crashes, clears, loadFailed>>
    BY DEF O!Enqueue, O!Persist
  <1>2. enqueued \in Nat /\ MaxEntries \in Nat /\ enqueued + 1 \in O!Entries
    BY <1>1, Basics DEF O!Entries
  <1>3. /\ Image(queue', enqueued + 1)
        /\ O!Ids(queue)' = O!Ids(queue) \cup {enqueued + 1}
        /\ DOMAIN queue' = 1..(Len(queue) + 1)
        /\ \A i \in 1..Len(queue) : queue'[i] = queue[i]
        /\ queue'[Len(queue) + 1] = r
    BY <1>1, <1>2, AppendIsImage DEF QueueInv, Typed, Held
  <1> HIDE DEF r
  <1>4. /\ Images(writes, enqueued + 1) /\ Image(loading, enqueued + 1)
        /\ Image(stored, enqueued + 1) /\ Image(replay.todo, enqueued + 1)
    <2>1. enqueued \in Int /\ enqueued + 1 \in Int /\ enqueued <= enqueued + 1
      BY <1>2
    <2> QED BY <2>1, LaterImage, LaterImages DEF QueueInv, Typed, Held
  <1>5. /\ Images(writes', enqueued + 1) /\ Len(writes') = Len(writes) + 1 /\ Len(writes) \in Nat
    BY <1>1, <1>3, <1>4, AppendedWrite
  <1>6. Typed'
    <2>1. Held'
      BY <1>1, <1>3, <1>4, <1>5, Zenon DEF Held
    <2>2. Histories'
      <3>1. 1..enqueued \subseteq 1..(enqueued + 1)
        BY <1>2
      <3> QED BY <1>1, <3>1 DEF QueueInv, Typed, Histories
    <2>3. Bounded'
      BY <1>1, <1>5, QueueAssumption DEF Bounded
    <2>4. enqueued' \in 0..MaxEntries
      BY <1>1, <1>2
    <2> QED BY <1>1, <2>1, <2>2, <2>3, <2>4 DEF QueueInv, Typed
  <1>7. Quiet'
    BY <1>1 DEF Quiet
  <1>8. Shared'
    <2> SUFFICES ASSUME NEW i \in DOMAIN replay.todo, NEW j \in DOMAIN queue',
                        replay.todo[i].id = queue'[j].id
                 PROVE  replay.todo[i].retryCount = queue'[j].retryCount
      BY <1>1 DEF Shared
    <2>1. replay.todo[i].id \in O!Entries /\ replay.todo[i].id <= enqueued
      BY ImageElements DEF QueueInv, Typed, Held
    <2>2. Len(queue) \in Nat /\ DOMAIN queue = 1..Len(queue)
      BY ImageElements DEF QueueInv, Typed, Held
    <2>3. j # Len(queue) + 1
      BY <1>2, <1>3, <2>1 DEF O!Entries, r
    <2>4. j \in DOMAIN queue /\ queue'[j] = queue[j]
      BY <1>3, <2>2, <2>3
    <2> QED BY <2>4 DEF QueueInv, Shared
  <1>9. Unsent'
    <2>1. enqueued + 1 \notin delivered \cup dead
      BY <1>2 DEF QueueInv, Typed, Histories
    <2> QED BY <1>1, <1>3, <2>1 DEF QueueInv, Unsent
  <1>10. Kept'
    <2>1. \A e : O!Resolved(e)' <=> O!Resolved(e)
      BY <1>1 DEF O!Resolved
    <2>2. \A e \in O!Ids(queue) : e \in O!Ids(queue)'
      BY <1>3
    <2>3. enqueued + 1 \in O!Ids(queue)'
      BY <1>3
    <2> QED BY <1>1, <1>3, <1>4, <2>1, <2>2, <2>3, KeptBySaving
  <1> QED BY <1>6, <1>7, <1>8, <1>9, <1>10 DEF QueueInv

\* clearQueue: what it drops, or the load would have brought, is cleared.
LEMMA ClearStep == ASSUME QueueInv, O!ClearQueue PROVE QueueInv'
  <1>1. /\ Len(writes) < MaxWrites /\ queue' = <<>> /\ writes' = Append(writes, <<>>)
        /\ cleared' = cleared \cup O!Ids(queue) \cup (IF ready THEN {} ELSE O!Ids(loading))
        /\ UNCHANGED <<ready, loading, online, replay, stored, enqueued, durable,
                       delivered, dead, crashes, loadFailed>>
    BY DEF O!ClearQueue
  <1>2. Image(<<>>, enqueued) /\ O!Ids(<<>>) = {}
    BY EmptyImage
  <1>3. /\ Images(writes', enqueued) /\ Len(writes') = Len(writes) + 1 /\ Len(writes) \in Nat
        /\ DOMAIN writes = 1..Len(writes)
        /\ DOMAIN writes' = 1..(Len(writes) + 1)
        /\ \A k \in 1..Len(writes) : writes'[k] = writes[k]
        /\ writes'[Len(writes) + 1] = <<>>
    BY <1>1, <1>2, AppendedWrite DEF QueueInv, Typed, Held
  <1>4. Typed'
    <2>1. Held'
      BY <1>1, <1>2, <1>3, Zenon DEF QueueInv, Typed, Held
    <2>2. Histories'
      BY <1>1, Basics DEF QueueInv, Typed, Histories
    <2>3. Bounded'
      BY <1>1, <1>3, QueueAssumption DEF Bounded
    <2> QED BY <1>1, <2>1, <2>2, <2>3 DEF QueueInv, Typed
  <1>5. Quiet'
    <2>1. \A k \in DOMAIN writes' : k \in DOMAIN writes \/ k = Len(writes) + 1
      BY <1>3
    <2> QED BY <1>1, <1>3, <2>1 DEF QueueInv, Quiet
  <1>6. Shared' /\ Unsent'
    BY <1>1, <1>2 DEF QueueInv, Shared, Unsent
  <1>7. Kept'
    <2>1. \A e : O!Resolved(e) => O!Resolved(e)'
      BY <1>1 DEF O!Resolved
    <2>2. \A e \in O!Ids(queue) : O!Resolved(e)'
      BY <1>1 DEF O!Resolved
    <2>3. ready \/ \A e \in O!Ids(loading) : O!Resolved(e)'
      BY <1>1 DEF O!Resolved
    <2>4. Images(writes, enqueued') /\ Image(queue', enqueued')
      BY <1>1, <1>2, Zenon DEF QueueInv, Typed, Held
    <2>5. writes' = Append(writes, queue') /\ enqueued' = enqueued
      BY <1>1
    <2>6. UNCHANGED <<ready, loading, durable, stored, crashes, loadFailed>>
      BY <1>1
    <2> QED BY <2>1, <2>2, <2>3, <2>4, <2>5, <2>6, KeptBySaving
  <1> QED BY <1>4, <1>5, <1>6, <1>7 DEF QueueInv

\* The snapshot is the queue itself.
LEMMA StartedReplay ==
  ASSUME QueueInv, O!StartReplay \/ UNCHANGED replay,
         online' \in BOOLEAN, UNCHANGED <<ready, loading, queue, O!storage, O!history>>
  PROVE  QueueInv'
  <1> USE DEF O!storage, O!history
  <1>1. CASE UNCHANGED replay
    <2>1. Typed'
      BY <1>1 DEF QueueInv, Typed, Held, Histories, Bounded
    <2>2. Quiet' /\ Shared' /\ Unsent'
      BY <1>1 DEF QueueInv, Quiet, Shared, Unsent
    <2>3. Kept'
      BY KeptWithoutSaving DEF QueueInv, O!Resolved
    <2> QED BY <2>1, <2>2, <2>3 DEF QueueInv
  <1>2. ASSUME replay.phase = "idle", queue # <<>>,
               replay' = [O!Idle EXCEPT !.phase = "sending", !.todo = queue]
        PROVE  QueueInv'
    <2>1. queue \in Seq(Item)
      BY DEF QueueInv, Typed, Held, Image
    <2>2. replay' \in Replays /\ replay'.todo = queue /\ replay'.phase = "sending"
      BY <1>2, <2>1 DEF O!Idle, Replays
    <2>3. ready
      BY <1>2 DEF QueueInv, Quiet
    <2>4. Typed'
      <3>1. Held' /\ Histories'
        BY <2>2 DEF QueueInv, Typed, Held, Histories
      <3>2. Bounded'
        BY <1>2, <2>2 DEF QueueInv, Typed, Bounded
      <3> QED BY <2>2, <3>1, <3>2 DEF QueueInv, Typed
    <2>5. Quiet'
      BY <2>3 DEF Quiet
    <2>6. Shared'
      BY <2>2 DEF QueueInv, Typed, Held, Image, Shared
    <2>7. Unsent'
      BY <2>2 DEF QueueInv, Unsent
    <2>8. Kept'
      BY KeptWithoutSaving DEF QueueInv, O!Resolved
    <2> QED BY <2>4, <2>5, <2>6, <2>7, <2>8 DEF QueueInv
  <1> QED BY <1>1, <1>2 DEF O!StartReplay

\* A health poll and setOnline do no more.
LEMMA ReportStep == ASSUME QueueInv, NEW up \in BOOLEAN, O!HealthReport(up) \/ O!SetOnline(up)
                    PROVE  QueueInv'
  <1>1. /\ online' = up /\ (O!StartReplay \/ UNCHANGED replay)
        /\ UNCHANGED <<ready, loading, queue, O!storage, O!history>>
    BY DEF O!HealthReport, O!SetOnline
  <1>2. online' \in BOOLEAN
    BY <1>1
  <1> QED BY <1>1, <1>2, StartedReplay, Zenon

-------------------------------------------------------------------------------
\* What the verdict on the first entry of the snapshot does to the replay.
LEMMA NextInSnapshot ==
  ASSUME QueueInv, O!Sending
  PROVE  /\ Image(Tail(replay.todo), enqueued) /\ O!Current \in 1..enqueued
         /\ O!Current = replay.todo[1].id /\ 1 \in DOMAIN replay.todo
         /\ Head(replay.todo) = replay.todo[1]
         /\ O!Ids(Tail(replay.todo)) = O!Ids(replay.todo) \ {O!Current}
         /\ O!Current \in O!Ids(replay.todo)
         /\ \A j \in DOMAIN Tail(replay.todo) :
                /\ j + 1 \in DOMAIN replay.todo /\ Tail(replay.todo)[j] = replay.todo[j + 1]
                /\ Tail(replay.todo)[j].id # O!Current
         /\ ready /\ replay.phase # "saving"
         /\ [replay EXCEPT !.todo = Tail(@)] \in Replays
         /\ [replay EXCEPT !.todo = Tail(@)].todo = Tail(replay.todo)
         /\ [replay EXCEPT !.todo = Tail(@)].phase = "sending"
         /\ [replay EXCEPT !.todo = Tail(@), !.sent = TRUE] \in Replays
         /\ [replay EXCEPT !.todo = Tail(@), !.sent = TRUE].todo = Tail(replay.todo)
         /\ [replay EXCEPT !.todo = Tail(@), !.sent = TRUE].phase = "sending"
  <1>1. Image(replay.todo, enqueued) /\ replay.todo # <<>> /\ replay \in Replays
    BY DEF QueueInv, Typed, Held, O!Sending
  <1>2. /\ Image(Tail(replay.todo), enqueued)
        /\ Head(replay.todo) = replay.todo[1] /\ 1 \in DOMAIN replay.todo
        /\ O!Ids(Tail(replay.todo)) = O!Ids(replay.todo) \ {O!Current}
        /\ \A j \in DOMAIN Tail(replay.todo) :
              j + 1 \in DOMAIN replay.todo /\ Tail(replay.todo)[j] = replay.todo[j + 1]
    BY <1>1, TailIsImage DEF O!Current
  <1>3. O!Current = replay.todo[1].id /\ O!Current \in O!Ids(replay.todo)
    BY <1>2 DEF O!Current, O!Ids
  <1>4. O!Current \in 1..enqueued
    BY <1>3, Basics
  <1>5. \A j \in DOMAIN Tail(replay.todo) : Tail(replay.todo)[j].id # O!Current
    BY <1>2 DEF O!Ids
  <1>6. ready
    BY DEF QueueInv, Quiet, O!Sending, O!Idle
  <1>7. Tail(replay.todo) \in Seq(Item)
    BY <1>2 DEF Image
  <1>8. /\ [replay EXCEPT !.todo = Tail(@)] \in Replays
        /\ [replay EXCEPT !.todo = Tail(@)].todo = Tail(replay.todo)
        /\ [replay EXCEPT !.todo = Tail(@)].phase = "sending"
        /\ [replay EXCEPT !.todo = Tail(@), !.sent = TRUE] \in Replays
        /\ [replay EXCEPT !.todo = Tail(@), !.sent = TRUE].todo = Tail(replay.todo)
        /\ [replay EXCEPT !.todo = Tail(@), !.sent = TRUE].phase = "sending"
    BY <1>1, <1>7 DEF Replays, O!Sending
  <1> QED BY <1>2, <1>3, <1>4, <1>5, <1>6, <1>8 DEF O!Sending

\* The entry has its verdict: it leaves the queue, if it is still there.
LEMMA VerdictStep ==
  ASSUME QueueInv, O!Sending, queue' = O!Without(queue, O!Current),
         \/ delivered' = delivered \cup {O!Current} /\ dead' = dead
         \/ dead' = dead \cup {O!Current} /\ delivered' = delivered,
         \/ replay' = [replay EXCEPT !.todo = Tail(@)]
         \/ replay' = [replay EXCEPT !.todo = Tail(@), !.sent = TRUE],
         UNCHANGED <<ready, loading, online, O!storage, enqueued, durable, cleared,
                     crashes, clears, loadFailed>>
  PROVE  QueueInv'
  <1> USE DEF O!storage
  <1>1. /\ Image(queue', enqueued) /\ O!Ids(queue)' = O!Ids(queue) \ {O!Current}
        /\ \A j \in DOMAIN queue' : \E i \in DOMAIN queue : queue'[j] = queue[i]
    BY WithoutIsImage DEF QueueInv, Typed, Held
  <1>2. /\ replay' \in Replays /\ replay'.todo = Tail(replay.todo) /\ replay'.phase = "sending"
        /\ Image(replay'.todo, enqueued) /\ O!Ids(replay'.todo) = O!Ids(replay.todo) \ {O!Current}
        /\ O!Current \in 1..enqueued
        /\ \A j \in DOMAIN replay'.todo : /\ j + 1 \in DOMAIN replay.todo
                                          /\ replay'.todo[j] = replay.todo[j + 1]
        /\ ready /\ replay.phase # "saving"
    BY NextInSnapshot
  <1>3. Typed'
    <2>1. Held'
      BY <1>1, <1>2, Zenon DEF QueueInv, Typed, Held
    <2>2. Histories'
      BY <1>2 DEF QueueInv, Typed, Histories
    <2>3. Bounded'
      BY <1>2 DEF QueueInv, Typed, Bounded
    <2> QED BY <1>2, <2>1, <2>2, <2>3 DEF QueueInv, Typed
  <1>4. Quiet'
    BY <1>2 DEF Quiet
  <1>5. Shared'
    BY <1>1, <1>2 DEF QueueInv, Shared
  <1>6. Unsent'
    BY <1>1, <1>2 DEF QueueInv, Unsent
  <1>7. Kept'
    <2>1. \A e \in O!Ids(queue) : O!Resolved(e)' \/ e \in O!Ids(queue)'
      BY <1>1 DEF O!Resolved
    <2>2. \A e : O!Resolved(e) => O!Resolved(e)'
      BY DEF O!Resolved
    <2> QED BY <2>1, <2>2, KeptWithoutSaving DEF QueueInv
  <1> QED BY <1>3, <1>4, <1>5, <1>6, <1>7 DEF QueueInv

\* The entry stays for a later replay.
LEMMA RetryStep ==
  ASSUME QueueInv, O!Sending, queue' = O!Retried(queue, O!Current),
         ~(Head(replay.todo).retryCount + 1 >= MaxRetries),
         replay' = [replay EXCEPT !.todo = Tail(@)],
         UNCHANGED <<ready, loading, online, O!storage, O!history>>
  PROVE  QueueInv'
  <1> USE DEF O!storage, O!history
  <1>2. /\ replay' \in Replays /\ replay'.todo = Tail(replay.todo) /\ replay'.phase = "sending"
        /\ Image(replay'.todo, enqueued) /\ O!Ids(replay'.todo) = O!Ids(replay.todo) \ {O!Current}
        /\ O!Current = replay.todo[1].id /\ 1 \in DOMAIN replay.todo
        /\ Head(replay.todo) = replay.todo[1]
        /\ \A j \in DOMAIN replay'.todo : /\ j + 1 \in DOMAIN replay.todo
                                          /\ replay'.todo[j] = replay.todo[j + 1]
                                          /\ replay'.todo[j].id # O!Current
        /\ ready /\ replay.phase # "saving"
    BY NextInSnapshot
  <1>0. \A i \in DOMAIN queue : queue[i].id = O!Current => queue[i].retryCount + 1 < MaxRetries
    <2> SUFFICES ASSUME NEW i \in DOMAIN queue, queue[i].id = O!Current
                 PROVE  queue[i].retryCount + 1 < MaxRetries
      OBVIOUS
    <2>1. queue[i].retryCount = Head(replay.todo).retryCount
      BY <1>2 DEF QueueInv, Shared
    <2>2. queue[i] \in Item
      BY ImageElements DEF QueueInv, Typed, Held
    <2>3. queue[i].retryCount \in Int /\ MaxRetries \in Int
      BY <2>2, QueueAssumption DEF Item
    <2> QED BY <2>1, <2>3
  <1>1. /\ Image(queue', enqueued) /\ O!Ids(queue)' = O!Ids(queue) /\ DOMAIN queue' = DOMAIN queue
        /\ \A i \in DOMAIN queue : /\ queue'[i].id = queue[i].id
                                   /\ queue[i].id # O!Current => queue'[i] = queue[i]
    BY <1>0, RetriedIsImage DEF QueueInv, Typed, Held
  <1>3. Typed'
    <2>1. Held'
      BY <1>1, <1>2, Zenon DEF QueueInv, Typed, Held
    <2>2. Histories' /\ Bounded'
      BY <1>2 DEF QueueInv, Typed, Histories, Bounded
    <2> QED BY <1>2, <2>1, <2>2 DEF QueueInv, Typed
  <1>4. Quiet'
    BY <1>2 DEF Quiet
  <1>5. Shared'
    BY <1>1, <1>2 DEF QueueInv, Shared
  <1>6. Unsent'
    BY <1>1, <1>2 DEF QueueInv, Unsent
  <1>7. Kept'
    BY <1>1, KeptWithoutSaving DEF QueueInv, O!Resolved
  <1> QED BY <1>3, <1>4, <1>5, <1>6, <1>7 DEF QueueInv

\* The three verdicts.
LEMMA SettleStep == ASSUME QueueInv, O!Settle PROVE QueueInv'
  <1>1. CASE O!Executed
    BY <1>1, VerdictStep DEF O!Executed
  <1>2. CASE O!Refused
    BY <1>2, VerdictStep DEF O!Refused
  <1>3. CASE O!NetworkError
    <2>1. CASE Head(replay.todo).retryCount + 1 >= MaxRetries
      BY <1>3, <2>1, VerdictStep DEF O!NetworkError
    <2>2. CASE ~(Head(replay.todo).retryCount + 1 >= MaxRetries)
      BY <1>3, <2>2, RetryStep DEF O!NetworkError, O!history
    <2> QED BY <2>1, <2>2
  <1> QED BY <1>1, <1>2, <1>3 DEF O!Settle

\* The end of a replay saves the queue as it is.
LEMMA SaveStep == ASSUME QueueInv, O!SaveReplayed PROVE QueueInv'
  <1>1. /\ replay.phase = "sending" /\ replay.todo = <<>> /\ writes' = Append(writes, queue)
        /\ replay' = [replay EXCEPT !.phase = "saving", !.ahead = Len(writes)]
        /\ UNCHANGED <<ready, loading, queue, online, stored, O!history>>
    BY DEF O!SaveReplayed, O!Persist
  <1> USE DEF O!history
  <1>2. Images(writes, enqueued) /\ Image(queue, enqueued) /\ ready
    BY <1>1 DEF QueueInv, Typed, Held, Quiet, O!Idle
  <1>3. /\ Images(writes', enqueued) /\ Len(writes') = Len(writes) + 1 /\ Len(writes) \in Nat
    BY <1>1, <1>2, AppendedWrite
  <1>4. replay' \in Replays /\ replay'.todo = <<>> /\ replay'.phase = "saving"
    BY <1>1, <1>3 DEF QueueInv, Typed, Replays
  <1>5. Typed'
    <2>1. Held'
      BY <1>1, <1>3, <1>4, EmptyImage, Zenon DEF QueueInv, Typed, Held
    <2>2. Histories'
      BY <1>1 DEF QueueInv, Typed, Histories
    <2>3. Bounded'
      BY <1>1, <1>3, <1>4, QueueAssumption DEF QueueInv, Typed, Bounded
    <2> QED BY <1>1, <1>4, <2>1, <2>2, <2>3 DEF QueueInv, Typed
  <1>6. Quiet'
    BY <1>1, <1>2 DEF Quiet
  <1>7. Shared' /\ Unsent'
    BY <1>1, <1>4, EmptyImage DEF QueueInv, Shared, Unsent
  <1>8. Kept'
    <2>1. writes' = Append(writes, queue') /\ Image(queue', enqueued') /\ Images(writes, enqueued')
      BY <1>1, <1>2
    <2>2. \A e : O!Resolved(e)' <=> O!Resolved(e)
      BY <1>1 DEF O!Resolved
    <2>3. UNCHANGED <<ready, loading, durable, stored, crashes, loadFailed>> /\ enqueued' = enqueued
      BY <1>1
    <2>4. \A e \in O!Ids(queue) : e \in O!Ids(queue)'
      BY <1>1
    <2> QED BY <1>2, <2>1, <2>2, <2>3, <2>4, KeptBySaving
  <1> QED BY <1>5, <1>6, <1>7, <1>8 DEF QueueInv

-------------------------------------------------------------------------------
\* What the end of the oldest write leaves of the replay and of the other writes.
LEMMA RestOfReplay ==
  ASSUME QueueInv, O!WriteDone
  PROVE  /\ replay' \in Replays
         /\ replay'.todo \in {replay.todo, <<>>}
         /\ Images(writes', enqueued) /\ Image(Head(writes), enqueued) /\ Head(writes) = writes[1]
         /\ Bounded'
         /\ 1 \in DOMAIN writes
         /\ \A k \in DOMAIN writes' : /\ k + 1 \in DOMAIN writes /\ writes'[k] = writes[k + 1]
                                      /\ k \in Int /\ 1 < k + 1
         /\ ~ready => replay' = O!Idle
         /\ UNCHANGED <<ready, loading, queue, online, enqueued, delivered, dead,
                        cleared, crashes, clears, loadFailed>>
         /\ \A e : O!Resolved(e)' <=> O!Resolved(e)
  <1>1. /\ writes # <<>> /\ writes' = Tail(writes)
        /\ UNCHANGED <<ready, loading, queue, online, enqueued, delivered, dead,
                        cleared, crashes, clears, loadFailed>>
    BY DEF O!WriteDone
  <1>2. /\ Images(writes', enqueued) /\ Image(Head(writes), enqueued) /\ Head(writes) = writes[1]
        /\ Len(writes) \in Nat \ {0} /\ DOMAIN writes = 1..Len(writes)
        /\ Len(writes') = Len(writes) - 1
        /\ DOMAIN writes' = 1..(Len(writes) - 1)
        /\ \A k \in 1..(Len(writes) - 1) : writes'[k] = writes[k + 1]
    BY <1>1, RestOfWrites DEF QueueInv, Typed, Held
  <1>3. \A k \in 1..(Len(writes) - 1) : k + 1 \in 1..Len(writes) /\ k \in Int /\ 1 < k + 1
    BY <1>2
  <1>4. replay \in Replays /\ MaxWrites \in Nat /\ Bounded
    BY QueueAssumption DEF QueueInv, Typed
  <1>5. /\ O!Idle \in Replays /\ O!Idle.todo = <<>> /\ O!Idle.phase = "idle"
    BY DEF O!Idle, Replays
  <1>6. CASE O!EndsReplay
    <2>1. replay' = O!Idle
      BY <1>6 DEF O!WriteDone
    <2>2. Bounded'
      BY <1>2, <1>4, <2>1 DEF Bounded
    <2> QED BY <1>1, <1>2, <1>3, <1>5, <2>1, <2>2 DEF O!Resolved
  <1>7. CASE ~O!EndsReplay /\ replay.phase = "saving"
    <2>1. replay' = [replay EXCEPT !.ahead = @ - 1] /\ replay.ahead \in Nat \ {0}
      BY <1>4, <1>7 DEF O!WriteDone, O!EndsReplay, Replays
    <2>2. replay' \in Replays /\ replay'.todo = replay.todo /\ replay'.phase = "saving"
      BY <1>4, <1>7, <2>1 DEF Replays
    <2>3. Bounded'
      BY <1>2, <1>4, <2>2 DEF Bounded
    <2>4. ready
      BY <1>7 DEF QueueInv, Quiet, O!Idle
    <2> QED BY <1>1, <1>2, <1>3, <2>2, <2>3, <2>4 DEF O!Resolved
  <1>8. CASE ~O!EndsReplay /\ replay.phase # "saving"
    <2>1. replay' = replay
      BY <1>8 DEF O!WriteDone
    <2>2. Bounded'
      BY <1>2, <1>4, <1>8, <2>1 DEF Bounded
    <2>3. ~ready => replay = O!Idle
      BY DEF QueueInv, Quiet
    <2> QED BY <1>1, <1>2, <1>3, <1>4, <2>1, <2>2, <2>3 DEF O!Resolved
  <1> QED BY <1>6, <1>7, <1>8

\* The image that was saved is followed by what the writes after it save.
LEMMA WriteStep == ASSUME QueueInv, O!Write \/ O!WriteFails PROVE QueueInv'
  <1>0. O!WriteDone
    BY DEF O!Write, O!WriteFails
  <1>1. \/ stored' = Head(writes) /\ durable' = durable \cup O!Ids(Head(writes))
        \/ UNCHANGED <<stored, durable>>
    BY DEF O!Write, O!WriteFails
  <1>2. /\ replay' \in Replays
        /\ replay'.todo \in {replay.todo, <<>>}
        /\ Images(writes', enqueued) /\ Image(Head(writes), enqueued) /\ Head(writes) = writes[1]
        /\ Bounded'
        /\ 1 \in DOMAIN writes
        /\ \A k \in DOMAIN writes' : /\ k + 1 \in DOMAIN writes /\ writes'[k] = writes[k + 1]
                                     /\ k \in Int /\ 1 < k + 1
        /\ ~ready => replay' = O!Idle
        /\ UNCHANGED <<ready, loading, queue, online, enqueued, delivered, dead,
                       cleared, crashes, clears, loadFailed>>
        /\ \A e : O!Resolved(e)' <=> O!Resolved(e)
    BY <1>0, RestOfReplay, Zenon
  <1>3. Typed'
    <2>1. Image(replay'.todo, enqueued)
      BY <1>2, EmptyImage DEF QueueInv, Typed, Held
    <2>2. Held'
      BY <1>1, <1>2, <2>1, Zenon DEF QueueInv, Typed, Held
    <2>3. O!Ids(Head(writes)) \subseteq 1..enqueued
      BY <1>2, Basics, ImageIds
    <2>4. Histories'
      BY <1>1, <1>2, <2>3 DEF QueueInv, Typed, Histories
    <2> QED BY <1>2, <2>2, <2>4 DEF QueueInv, Typed
  <1>4. Quiet'
    BY <1>2 DEF QueueInv, Quiet
  <1>5. Shared' /\ Unsent'
    BY <1>2, EmptyImage DEF QueueInv, Shared, Unsent
  <1>6. \A e \in durable' : \/ e \in durable
                            \/ e \in O!Ids(writes[1]) /\ stored' = writes[1]
    BY <1>1, <1>2
  <1>7. O!NothingLost'
    <2> SUFFICES ASSUME NEW e \in 1..enqueued
                 PROVE  \/ O!Resolved(e) \/ e \in O!Ids(queue)
                        \/ ~ready /\ e \in O!Ids(loading)
                        \/ crashes > 0 /\ e \notin durable'
                        \/ loadFailed
      BY <1>2 DEF O!NothingLost
    <2>1. CASE e \in durable' /\ e \notin durable
      BY <1>2, <1>6, <2>1 DEF QueueInv, Kept, WritesFollow
    <2>2. CASE ~(e \in durable' /\ e \notin durable)
      BY <2>2 DEF QueueInv, Kept, O!NothingLost
    <2> QED BY <2>1, <2>2
  <1>8. O!CrashSafe'
    <2> SUFFICES ASSUME NEW e \in durable' PROVE O!Resolved(e) \/ loadFailed \/ e \in O!Ids(stored')
      BY <1>2 DEF O!CrashSafe
    <2>1. CASE stored' = writes[1]
      BY <1>2, <1>6, <2>1 DEF QueueInv, Kept, WritesFollow
    <2>2. CASE UNCHANGED <<stored, durable>>
      BY <2>2 DEF QueueInv, Kept, O!CrashSafe
    <2> QED BY <1>1, <1>2, <2>1, <2>2
  <1>9. WritesFollow'
    <2>1. \A k \in DOMAIN writes' : \A e \in O!Ids(writes'[k]) : O!Resolved(e)' \/ e \in O!Ids(queue)'
      BY <1>2 DEF QueueInv, Kept, WritesFollow
    <2>2. ASSUME NEW k \in DOMAIN writes', NEW e \in durable'
          PROVE  O!Resolved(e)' \/ loadFailed' \/ e \in O!Ids(writes'[k])
      BY <1>2, <1>6 DEF QueueInv, Kept, WritesFollow
    <2>3. ASSUME NEW j \in DOMAIN writes', NEW k \in DOMAIN writes', j < k, NEW e \in O!Ids(writes'[j])
          PROVE  O!Resolved(e)' \/ loadFailed' \/ e \in O!Ids(writes'[k])
      <3>1. j + 1 < k + 1
        BY <1>2, <2>3
      <3> QED BY <1>2, <2>3, <3>1 DEF QueueInv, Kept, WritesFollow
    <2> QED BY <2>1, <2>2, <2>3 DEF WritesFollow
  <1> QED BY <1>2, <1>3, <1>4, <1>5, <1>7, <1>8, <1>9 DEF QueueInv, Kept

\* The new session reads what was stored.
LEMMA RestartStep == ASSUME QueueInv, O!Restart PROVE QueueInv'
  <1>1. /\ crashes' = crashes + 1 /\ ready' = FALSE /\ loading' = stored /\ queue' = <<>>
        /\ online' = TRUE /\ replay' = O!Idle /\ writes' = <<>>
        /\ UNCHANGED <<stored, enqueued, durable, delivered, dead, cleared, clears, loadFailed>>
    BY DEF O!Restart
  <1>2. /\ O!Idle \in Replays /\ O!Idle.todo = <<>> /\ O!Idle.phase = "idle"
    BY DEF O!Idle, Replays
  <1>3. crashes' \in Nat /\ crashes' > 0
    BY <1>1 DEF QueueInv, Typed
  <1>4. Image(<<>>, enqueued) /\ Images(<<>>, enqueued) /\ O!Ids(<<>>) = {}
    BY EmptyImage DEF Images
  <1>5. Typed'
    <2>1. Held'
      BY <1>1, <1>2, <1>4, Zenon DEF QueueInv, Typed, Held
    <2>2. Histories'
      BY <1>1 DEF QueueInv, Typed, Histories
    <2>3. Len(writes') = 0
      BY <1>1
    <2>4. Bounded'
      BY <1>2, <2>3, QueueAssumption DEF Bounded
    <2> QED BY <1>1, <1>2, <1>3, <2>1, <2>2, <2>4 DEF QueueInv, Typed
  <1>6. Quiet' /\ Shared' /\ Unsent'
    BY <1>1, <1>3 DEF Quiet, Shared, Unsent
  <1>7. \A e : O!Resolved(e)' <=> O!Resolved(e)
    BY <1>1 DEF O!Resolved
  <1>8. O!CrashSafe'
    BY <1>1, <1>7 DEF QueueInv, Kept, O!CrashSafe
  <1>9. O!NothingLost'
    BY <1>1, <1>3, <1>7 DEF QueueInv, Kept, O!CrashSafe, O!NothingLost
  <1>10. WritesFollow'
    BY <1>1 DEF WritesFollow
  <1> QED BY <1>5, <1>6, <1>8, <1>9, <1>10 DEF QueueInv, Kept

\* Every step keeps the invariant,
LEMMA QueueStep == QueueInv /\ [O!Next]_O!vars => QueueInv'
  <1> SUFFICES ASSUME QueueInv, [O!Next]_O!vars PROVE QueueInv'
    OBVIOUS
  <1>1. CASE UNCHANGED O!vars
    <2> USE <1>1 DEF O!vars, O!client, O!storage, O!history
    <2>1. Typed' /\ Quiet' /\ Shared' /\ Unsent'
      BY DEF QueueInv, Typed, Histories, Held, Bounded, Quiet, Shared, Unsent
    <2>2. Kept'
      BY KeptWithoutSaving DEF QueueInv, O!Resolved
    <2> QED BY <2>1, <2>2 DEF QueueInv
  <1> QED
    BY <1>1, LoadStep, LoadFailsStep, EnqueueStep, ClearStep, ReportStep, SettleStep, SaveStep,
       WriteStep, RestartStep, Zenon DEF O!Next

\* The queue has as many entries as ids, because the index of an id is unique.
LEMMA NoDuplicates == ASSUME NEW n, NEW q, Image(q, n) PROVE O!Cardinality(O!Ids(q)) = Len(q)
  <1> DEFINE f == [i \in 1..Len(q) |-> q[i].id]
  <1>1. Len(q) \in Nat /\ DOMAIN q = 1..Len(q)
    BY ImageElements
  <1>2. f \in Bijection(1..Len(q), O!Ids(q))
    BY <1>1 DEF Image, O!Ids, Bijection, Injection, Surjection, IsInjective
  <1>3. IsFiniteSet(1..Len(q)) /\ Cardinality(1..Len(q)) = Len(q)
    <2>1. 1 \in Int /\ Len(q) \in Int /\ ~(1 > Len(q) /\ Len(q) # 0)
      BY <1>1
    <2>2. /\ IsFiniteSet(1..Len(q))
          /\ Cardinality(1..Len(q)) = IF 1 > Len(q) THEN 0 ELSE Len(q) - 1 + 1
      BY <2>1, FS_Interval, Zenon
    <2> QED BY <1>1, <2>2
  <1>4. ExistsBijection(1..Len(q), O!Ids(q))
    BY <1>2 DEF ExistsBijection
  <1>5. O!Cardinality(O!Ids(q)) = Cardinality(O!Ids(q))
    BY DEF O!Cardinality, Cardinality
  <1> QED BY <1>1, <1>3, <1>4, <1>5, FS_Bijection

\* which says what the run checks,
LEMMA InvariantKeepsEntries == QueueInv => O!EntriesAreKept /\ O!NotSentTwice
  <1> SUFFICES ASSUME QueueInv PROVE O!EntriesAreKept /\ O!NotSentTwice
    OBVIOUS
  <1>1. O!TypeOK
    <2>1. \A q \in {queue, replay.todo, loading, stored} \cup O!ToSet(writes) : q \in Seq(Item)
      BY DEF QueueInv, Typed, Held, Image, Images, O!ToSet
    <2>2. enqueued \in 0..MaxEntries /\ 1..enqueued \subseteq O!Entries
      BY Basics DEF QueueInv, Typed
    <2>3. \A h \in {durable, delivered, dead, cleared} : h \subseteq O!Entries
      BY <2>2 DEF QueueInv, Typed, Histories
    <2>4. Len(writes) <= MaxWrites + 1 /\ replay.phase \in {"idle", "sending", "saving"}
      BY DEF QueueInv, Typed, Bounded, Replays
    <2> QED BY <2>1, <2>2, <2>3, <2>4 DEF QueueInv, Typed, O!TypeOK, Item
  <1>2. O!QueueSound
    BY NoDuplicates DEF QueueInv, Typed, Held, Image, O!QueueSound
  <1>3. O!NotSentTwice
    BY DEF QueueInv, Unsent, O!NotSentTwice
  <1> QED BY <1>1, <1>2, <1>3 DEF QueueInv, Kept, O!EntriesAreKept

\* and so does every step of an execution with the middleware.
LEMMA QueuePart == QueueInv /\ [Step]_<<part, vars, queueVars>> => QueueInv'
  <1> SUFFICES ASSUME QueueInv, [Step]_<<part, vars, queueVars>> PROVE QueueInv'
    OBVIOUS
  <1>1. CASE UNCHANGED queueVars
    <2>1. UNCHANGED O!vars
      BY <1>1 DEF queueVars, O!vars, O!client, O!storage, O!history
    <2> QED BY <2>1, QueueStep
  <1> QED BY <1>1, QueueStep DEF Step

\* Nothing the queue accepted disappears and nothing is sent twice in a session, for any
\* capacity, number of retries, writes in flight and restarts: enqueue, clearQueue, replay
\* and the load interleaved in any way (#261, #849).
THEOREM EntriesStay == Resubmitting => []EntriesAreKept
  <1>1. Starts => QueueInv
    BY QueueInit DEF Starts
  <1>2. QueueInv => EntriesAreKept
    BY InvariantKeepsEntries DEF EntriesAreKept
  <1> QED BY <1>1, <1>2, QueuePart, PTL DEF Resubmitting

\* What is said of the middleware holds of an execution with the queue: it is one of it.
THEOREM MiddlewareRuns == Resubmitting => Spec
  <1>1. Starts => Init
    BY DEF Starts
  <1>2. [Step]_<<part, vars, queueVars>> => [Next]_vars
    BY DEF Step
  <1> QED BY <1>1, <1>2, PTL DEF Resubmitting, Spec
===============================================================================
