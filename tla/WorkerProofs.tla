----------------------------- MODULE WorkerProofs -----------------------------
\* Proofs about what happens behind the API's answers: webhook deliveries and metrics on the
\* two queues of JobQueues, the audit log of AuditTrail, and the schema and provider orders of
\* Deployment. The four parts share no variable; each has an inductive invariant that says of
\* every delivery, event or record where it is.
EXTENDS JobQueues, AuditTrail, Deployment,
        FiniteSetTheorems, SequenceTheorems, WellFoundedInduction, TLAPS

-------------------------------------------------------------------------------
(* Facts about numbers and finite sets *)
\* A set of natural numbers that is not empty has a least one.
LEMMA LeastNumber ==
  ASSUME NEW S \in SUBSET Nat, S # {}
  PROVE  Min(S) \in S
  <1>1. IsWellFoundedOn(OpToRel(<, Nat), Nat)
    BY NatLessThanWellFounded, Zenon
  <1>2. PICK m \in S : \A n \in S : ~(<<n, m>> \in OpToRel(<, Nat))
    BY <1>1, WFMin, Zenon
  <1>3. ASSUME NEW n \in S PROVE m <= n
    <2>1. ~(<<n, m>> \in OpToRel(<, Nat))
      BY <1>2, Zenon
    <2>2. ~(n < m)
      BY <2>1, Zenon DEF OpToRel
    <2> QED BY <2>2
  <1> QED BY <1>2, <1>3 DEF Min

\* The image of a finite set under a function.
LEMMA ImageIsFinite ==
  ASSUME NEW S, IsFiniteSet(S), NEW T, NEW f \in [S -> T], T = {f[x] : x \in S}
  PROVE  IsFiniteSet(T) /\ Cardinality(T) <= Cardinality(S)
  <1>1. f \in Surjection(S, T)
    BY DEF Surjection
  <1> QED BY <1>1, FS_Surjection

-------------------------------------------------------------------------------
(* The deliveries of WebhookDelivery *)
JobsOf(d) == {j \in jobs : j.delivery = d}
Out(d)    == d \in acked \cup dlq \cup discarded
Visible(d) == \/ Out(d) \/ d \in apiDlq \cup resolved \cup forgotten \cup abandoned
              \/ \E j \in JobsOf(d) : j.at # "done"

\* What holds of one delivery: it has no job before its first attempt is settled, and once
\* that is, it can be seen somewhere other than in a job that is over; unless a step of it was
\* repeated it has one live job at most, and none after its outcome.
Steady(d) ==
    /\ first[d] # "settled" => JobsOf(d) = {} /\ ~Out(d)
    /\ first[d] \in {"posting", "enqueuing"} => 0 \in posted[d]
    /\ first[d] = "settled" => Visible(d)
    /\ d \notin repeated =>
           /\ \A j, k \in JobsOf(d) : j # k => "done" \in {j.at, k.at}
           /\ Out(d) => ~\E j \in JobsOf(d) : j.at # "done"
           /\ ~(d \in acked /\ d \in dlq \cup discarded)
    /\ d \in abandoned => errors[d] >= JobAttempts \/ (d \in repeated /\ restarts >= 2)
    /\ d \in dlq \cup discarded => posted[d] = 0..Retries

\* What holds of one job: the attempts up to its own were sent, it is where its attempt
\* number sends it, and a run or a stall of it that is behind it was counted.
JobOK(j) ==
    /\ j \in Job
    /\ 0..(j.attempt - 1) \subseteq posted[j.delivery]
    /\ j.at \in {"posting", "enqueuing", "storing"} => j.attempt \in posted[j.delivery]
    /\ j.at = "enqueuing" => j.attempt < Retries
    /\ j.at = "storing" => j.attempt = Retries
    /\ j.run <= errors[j.delivery] + 1
    /\ j.stalled => j.delivery \in repeated /\ restarts >= 1

DeliveriesInv ==
    /\ TypeOK /\ IsFiniteSet(jobs)
    /\ \A j \in jobs : JobOK(j)
    /\ \A d \in Deliveries : Steady(d)

\* There is an id that no job has.
LEMMA FreeIdIsFree ==
  ASSUME IsFiniteSet(jobs), \A j \in jobs : j.id \in Nat
  PROVE  FreeId \in Nat
  <1> DEFINE ids == {j.id : j \in jobs}
             f == [j \in jobs |-> j.id]
             n == Cardinality(jobs)
  <1>1. n \in Nat /\ n \in Int /\ 0 \in Int
    BY FS_CardinalityType
  <1>2. IsFiniteSet(ids) /\ Cardinality(ids) <= n
    <2>1. f \in [jobs -> ids] /\ ids = {f[x] : x \in jobs}
      OBVIOUS
    <2> HIDE DEF f, ids
    <2> QED BY <2>1, ImageIsFinite
  <1> HIDE DEF ids, n
  <1>3. IsFiniteSet(0..n) /\ Cardinality(0..n) = IF 0 > n THEN 0 ELSE n - 0 + 1
    BY <1>1, FS_Interval, Zenon
  <1>4. ~(0..n \subseteq ids)
    <2> SUFFICES ASSUME 0..n \subseteq ids PROVE FALSE
      OBVIOUS
    <2>1. (0..n) \in SUBSET ids
      OBVIOUS
    <2>2. Cardinality(0..n) <= Cardinality(ids)
      BY <2>1, <1>2, FS_Subset, Zenon
    <2>3. Cardinality(ids) \in Nat
      BY <1>2, FS_CardinalityType
    <2> QED BY <1>1, <1>2, <1>3, <2>2, <2>3
  <1>5. (0..n \ ids) \in SUBSET Nat /\ 0..n \ ids # {}
    BY <1>4
  <1>6. Min(0..n \ ids) \in 0..n \ ids
    BY <1>5, LeastNumber
  <1> QED BY <1>5, <1>6 DEF FreeId, ids, n

\* A new job is a proper one.
LEMMA NewJobIsOK ==
  ASSUME DeliveriesInv, NEW d \in Deliveries, NEW n \in 1..Retries, 0..(n - 1) \subseteq posted[d]
  PROVE  JobOK(NewJob(d, n)) /\ NewJob(d, n).delivery = d /\ NewJob(d, n).at = "waiting"
  <1>1. FreeId \in Nat
    <2>1. \A j \in jobs : j.id \in Nat
      BY DEF DeliveriesInv, JobOK, Job
    <2> QED BY <2>1, FreeIdIsFree DEF DeliveriesInv
  <1>2. 1 \in 1..JobAttempts
    BY RetriesAssumption
  <1>3. PICK i \in Nat : i = FreeId
    BY <1>1
  <1> DEFINE j == [id |-> i, delivery |-> d, attempt |-> n, run |-> 1, stalled |-> FALSE, at |-> "waiting"]
  <1>4. NewJob(d, n) = j
    BY <1>3 DEF NewJob
  <1>5. j \in Job
    BY <1>2 DEF Job
  <1>6. JobOK(j)
    <2>1. j.attempt = n /\ j.delivery = d /\ j.run = 1 /\ j.stalled = FALSE /\ j.at = "waiting"
      OBVIOUS
    <2>2. errors[d] \in Nat
      BY DEF DeliveriesInv, TypeOK
    <2> HIDE DEF j
    <2> QED BY <1>5, <2>1, <2>2 DEF JobOK
  <1> QED BY <1>4, <1>6

\* A step that leaves what concerns d alone.
LEMMA StaysSteady ==
  ASSUME NEW d \in Deliveries, Steady(d), JobsOf(d)' = JobsOf(d), first'[d] = first[d],
         posted'[d] = posted[d], d \in repeated <=> d \in repeated', d \in acked <=> d \in acked',
         d \in dlq <=> d \in dlq', d \in discarded <=> d \in discarded',
         d \in apiDlq \cup resolved \cup forgotten => d \in apiDlq' \cup resolved' \cup forgotten',
         d \in abandoned <=> d \in abandoned', errors'[d] = errors[d], restarts' = restarts
  PROVE  Steady(d)'
  BY DEF Steady, Out, Visible

\* What never shrinks, and with it what holds of a job.
Grows ==
    /\ \A d \in Deliveries : posted[d] \subseteq posted'[d] /\ errors[d] <= errors'[d]
    /\ errors \in [Deliveries -> Nat] /\ errors' \in [Deliveries -> Nat]
    /\ repeated \subseteq repeated'
    /\ restarts <= restarts' /\ restarts \in Nat /\ restarts' \in Nat

LEMMA StaysOK ==
  ASSUME NEW k, JobOK(k), Grows
  PROVE  JobOK(k)'
  <1>1. k.delivery \in Deliveries /\ k.run \in Int
    BY RetriesAssumption DEF JobOK, Job
  <1>2. /\ errors[k.delivery] \in Nat /\ errors'[k.delivery] \in Nat
        /\ errors[k.delivery] <= errors'[k.delivery]
        /\ posted[k.delivery] \subseteq posted'[k.delivery]
    BY <1>1 DEF Grows
  <1>3. k.run <= errors[k.delivery] + 1
    BY DEF JobOK
  <1>4. k.run <= errors'[k.delivery] + 1
    BY <1>1, <1>2, <1>3
  <1>5. k.stalled => k.delivery \in repeated' /\ restarts' >= 1
    BY DEF JobOK, Grows
  <1> QED BY <1>2, <1>4, <1>5 DEF JobOK

LEMMA Moving ==
  ASSUME NEW j \in jobs, JobOK(j), NEW k, NEW p,
         p \in {"waiting", "posting", "enqueuing", "storing", "done"},
         k = [j EXCEPT !.at = p]
  PROVE  /\ k \in Job /\ k.delivery = j.delivery /\ k.attempt = j.attempt /\ k.at = p
         /\ k.run = j.run /\ k.stalled = j.stalled
         /\ j.delivery \in Deliveries /\ j.attempt \in 1..Retries
  BY DEF JobOK, Job

\* What a step that concerns delivery c has to show.
RestTyped ==
    /\ hasDatabase \in BOOLEAN
    /\ first \in [Deliveries -> {"new", "posting", "enqueuing", "settled"}]
    /\ apiDlq \cup dlq \cup discarded \cup resolved \cup acked \subseteq Deliveries
    /\ posted \in [Deliveries -> SUBSET (0..Retries)]
    /\ repeated \cup forgotten \cup abandoned \subseteq Deliveries
    /\ errors \in [Deliveries -> Nat]
    /\ restarts \in 0..MaxRestarts /\ lostReplies \in 0..MaxLostReplies
Aside(c) ==
    \A d \in Deliveries : d # c =>
        /\ first'[d] = first[d] /\ posted'[d] = posted[d]
        /\ (d \in repeated <=> d \in repeated') /\ (d \in acked <=> d \in acked')
        /\ (d \in dlq <=> d \in dlq') /\ (d \in discarded <=> d \in discarded')
        /\ d \in apiDlq \cup resolved \cup forgotten => d \in apiDlq' \cup resolved' \cup forgotten'
        /\ (d \in abandoned <=> d \in abandoned') /\ errors'[d] = errors[d]

LEMMA StepOf ==
  ASSUME DeliveriesInv, NEW c \in Deliveries, RestTyped', Aside(c), IsFiniteSet(jobs'),
         \A x : x.delivery # c => (x \in jobs <=> x \in jobs'),
         Grows, restarts' = restarts,
         \A k \in jobs' : k \notin jobs => JobOK(k)',
         Steady(c)'
  PROVE  DeliveriesInv'
  <1>1. ASSUME NEW k \in jobs' PROVE JobOK(k)'
    <2>1. CASE k \in jobs
      <3>1. JobOK(k)
        BY <2>1 DEF DeliveriesInv
      <3> QED BY <3>1, StaysOK
    <2> QED BY <1>1, <2>1
  <1>2. ASSUME NEW d \in Deliveries PROVE Steady(d)'
    <2>1. CASE d # c
      <3>1. Steady(d)
        BY DEF DeliveriesInv
      <3>2. JobsOf(d)' = JobsOf(d)
        <4>1. \A x : x.delivery = d => (x \in jobs <=> x \in jobs')
          BY <2>1
        <4> QED BY <4>1 DEF JobsOf
      <3>3. /\ first'[d] = first[d] /\ posted'[d] = posted[d]
            /\ (d \in repeated <=> d \in repeated') /\ (d \in acked <=> d \in acked')
            /\ (d \in dlq <=> d \in dlq') /\ (d \in discarded <=> d \in discarded')
            /\ d \in apiDlq \cup resolved \cup forgotten =>
                   d \in apiDlq' \cup resolved' \cup forgotten'
            /\ (d \in abandoned <=> d \in abandoned') /\ errors'[d] = errors[d]
        BY <2>1 DEF Aside
      <3> QED BY <3>1, <3>2, <3>3, StaysSteady
    <2> QED BY <2>1
  <1>3. jobs' \subseteq Job
    BY <1>1 DEF JobOK
  <1> QED BY <1>1, <1>2, <1>3 DEF DeliveriesInv, TypeOK, RestTyped

\* Most steps touch neither the counts nor the restarts.
LEMMA GrowsOf ==
  ASSUME RestTyped, RestTyped', \A d \in Deliveries : posted[d] \subseteq posted'[d],
         repeated \subseteq repeated', UNCHANGED <<errors, restarts>>
  PROVE  Grows
  <1>1. \A d \in Deliveries : errors[d] \in Nat
    BY DEF RestTyped
  <1>2. restarts \in Nat
    BY BoundsAssumption DEF RestTyped
  <1> QED BY <1>1, <1>2 DEF Grows, RestTyped

LEMMA Typed == ASSUME DeliveriesInv
               PROVE  RestTyped /\ jobs \subseteq Job /\ IsFiniteSet(jobs)
  BY DEF DeliveriesInv, TypeOK, RestTyped

\* The first attempt and the dead letters in memory.
LEMMA FirstAttempts ==
  ASSUME DeliveriesInv, NEW c \in Deliveries, Deliver(c) \/ FirstAttempt(c) \/ DeleteDLQEntry(c)
  PROVE  DeliveriesInv'
  <1>1. Steady(c) /\ RestTyped /\ IsFiniteSet(jobs)
    BY Typed DEF DeliveriesInv
  <1>2. CASE Deliver(c) \/ FirstDelivered(c) \/ FirstFails(c) \/ DeleteDLQEntry(c)
    <2>1. /\ jobs' = jobs /\ UNCHANGED <<hasDatabase, restarts, lostReplies, dlq, discarded, repeated, forgotten, abandoned, errors>>
          /\ (acked' = acked \/ acked' = acked \cup {c})
          /\ (UNCHANGED <<apiDlq, resolved>> \/ (apiDlq' = apiDlq \ {c} /\ resolved' = resolved \cup {c}))
      <3>1. CASE Deliver(c)
        BY <3>1 DEF Deliver, outcomeVars, boundVars, failureVars
      <3>2. CASE FirstDelivered(c)
        BY <3>2 DEF FirstDelivered, boundVars, failureVars
      <3>3. CASE FirstFails(c)
        BY <3>3 DEF FirstFails, outcomeVars, boundVars, failureVars
      <3>4. CASE DeleteDLQEntry(c)
        BY <3>4 DEF DeleteDLQEntry, outcomeVars, boundVars, failureVars
      <3> QED BY <1>2, <3>1, <3>2, <3>3, <3>4
    <2>2. /\ first' \in [Deliveries -> {"new", "posting", "enqueuing", "settled"}]
          /\ posted' \in [Deliveries -> SUBSET (0..Retries)]
          /\ \A d \in Deliveries : posted[d] \subseteq posted'[d]
          /\ \A d \in Deliveries : d # c => first'[d] = first[d] /\ posted'[d] = posted[d]
      <3>0. 0 \in 0..Retries
        BY RetriesAssumption
      <3>1. CASE Deliver(c)
        <4>1. first' = [first EXCEPT ![c] = "posting"] /\ posted' = [posted EXCEPT ![c] = posted[c] \cup {0}]
          BY <3>1, <1>1 DEF Deliver, RestTyped
        <4> QED BY <1>1, <3>0, <4>1 DEF RestTyped
      <3>2. CASE FirstDelivered(c)
        BY <1>1, <3>2 DEF FirstDelivered, RestTyped
      <3>3. CASE FirstFails(c)
        BY <1>1, <3>3 DEF FirstFails, RestTyped
      <3>4. CASE DeleteDLQEntry(c)
        BY <1>1, <3>4 DEF DeleteDLQEntry, RestTyped
      <3> QED BY <1>2, <3>1, <3>2, <3>3, <3>4
    <2>3. Aside(c) /\ RestTyped'
      BY <1>1, <2>1, <2>2 DEF Aside, RestTyped
    <2>4. JobsOf(c)' = JobsOf(c)
      BY <2>1 DEF JobsOf
    <2>5. Steady(c)'
      <3>0. UNCHANGED <<abandoned, errors, restarts>>
        BY <2>1
      <3>1. CASE Deliver(c)
        <4>1. /\ first[c] = "new" /\ first'[c] = "posting" /\ posted'[c] = posted[c] \cup {0}
              /\ UNCHANGED <<dlq, discarded, acked, repeated>>
          BY <1>1, <3>1 DEF Deliver, RestTyped, outcomeVars
        <4> QED BY <1>1, <2>4, <3>0, <4>1 DEF Steady, Out, Visible
      <3>2. CASE FirstDelivered(c)
        <4>1. /\ first[c] = "posting" /\ first'[c] = "settled" /\ acked' = acked \cup {c}
              /\ UNCHANGED <<dlq, discarded, repeated, posted>>
          BY <1>1, <3>2 DEF FirstDelivered, RestTyped
        <4> QED BY <1>1, <2>4, <3>0, <4>1 DEF Steady, Out, Visible
      <3>3. CASE FirstFails(c)
        <4>1. /\ first[c] = "posting" /\ first'[c] = "enqueuing"
              /\ UNCHANGED <<dlq, discarded, acked, repeated, posted>>
          BY <1>1, <3>3 DEF FirstFails, RestTyped, outcomeVars
        <4> QED BY <1>1, <2>4, <3>0, <4>1 DEF Steady, Out, Visible
      <3>4. CASE DeleteDLQEntry(c)
        <4>1. /\ first' = first /\ resolved' = resolved \cup {c}
              /\ UNCHANGED <<dlq, discarded, acked, repeated, posted>>
          BY <3>4 DEF DeleteDLQEntry, outcomeVars
        <4> QED BY <1>1, <2>4, <3>0, <4>1 DEF Steady, Out, Visible
      <3> QED BY <1>2, <3>1, <3>2, <3>3, <3>4
    <2>6. Grows
      BY <1>1, <2>1, <2>2, <2>3, GrowsOf
    <2> QED BY <1>1, <2>1, <2>2, <2>3, <2>5, <2>6, StepOf
  <1>3. CASE RetryScheduled(c) \/ MoveToDLQ(c)
    <2>1. /\ first[c] = "enqueuing" /\ first' = [first EXCEPT ![c] = "settled"]
          /\ UNCHANGED <<hasDatabase, dlq, discarded, acked, posted, resolved, forgotten, restarts, abandoned, errors>>
      BY <1>3 DEF RetryScheduled, MoveToDLQ, outcomeVars, boundVars, failureVars
    <2>2. PICK n : n = NewJob(c, 1)
      OBVIOUS
    <2>3. JobOK(n) /\ n.delivery = c /\ n.at = "waiting"
      <3>1. 1 \in 1..Retries
        BY RetriesAssumption
      <3>2. 0..(1 - 1) \subseteq posted[c]
        BY <1>1, <2>1 DEF Steady
      <3> QED BY <2>2, <3>1, <3>2, NewJobIsOK
    <2>5. \/ /\ jobs' = jobs \cup {n} /\ UNCHANGED <<repeated, apiDlq, lostReplies>>
          \/ jobs' = jobs /\ apiDlq' = apiDlq \cup {c} /\ UNCHANGED <<repeated, lostReplies>>
          \/ /\ jobs' = jobs \cup {n} /\ apiDlq' = apiDlq \cup {c} /\ repeated' = repeated \cup {c}
             /\ lostReplies < MaxLostReplies /\ lostReplies' = lostReplies + 1
      BY <1>3, <2>2 DEF RetryScheduled, MoveToDLQ, Rejected, boundVars, failureVars
    <2>6. RestTyped'
      BY <1>1, <2>1, <2>5, BoundsAssumption DEF RestTyped
    <2>7. Aside(c) /\ Grows
      <3>1. Aside(c) /\ repeated \subseteq repeated'
        BY <1>1, <2>1, <2>5 DEF Aside, RestTyped
      <3> QED BY <1>1, <2>1, <2>6, <3>1, GrowsOf
    <2>8. IsFiniteSet(jobs')
      BY <1>1, <2>5, FS_AddElement
    <2>9. JobsOf(c) = {} /\ ~Out(c) /\ first'[c] = "settled" /\ 0 \in posted[c]
      BY <1>1, <2>1 DEF Steady, RestTyped
    <2>10. /\ JobsOf(c)' \subseteq {n} /\ (JobsOf(c)' = {n} \/ c \in apiDlq')
           /\ ~Out(c)'
      BY <2>1, <2>3, <2>5, <2>9 DEF JobsOf, Out
    <2>11. Steady(c)'
      <3>1. c \in abandoned' => errors'[c] >= JobAttempts \/ (c \in repeated' /\ restarts' >= 2)
        BY <1>1, <2>1, <2>5 DEF Steady
      <3> QED BY <2>3, <2>9, <2>10, <3>1 DEF Steady, Out, Visible
    <2>4. JobOK(n)'
      BY <2>3, <2>7, StaysOK
    <2>12. (\A x : x.delivery # c => (x \in jobs <=> x \in jobs')) /\ \A k \in jobs' : k \notin jobs => JobOK(k)'
      BY <2>3, <2>4, <2>5
    <2> QED BY <2>1, <2>6, <2>7, <2>8, <2>11, <2>12, StepOf
  <1> QED BY <1>2, <1>3 DEF FirstAttempt

\* The jobs of c after one of them, live before, has become k, with k's siblings left alone.
LEMMA Changed ==
  ASSUME DeliveriesInv, NEW j \in jobs, NEW k, k.delivery = j.delivery, NEW c, c = j.delivery,
         jobs' = Became(j, k)
  PROVE  /\ JobsOf(c)' = (JobsOf(c) \ {j}) \cup {k} /\ j \in JobsOf(c)
         /\ \A x : x.delivery # c => (x \in jobs <=> x \in jobs')
         /\ IsFiniteSet(jobs')
         /\ \A x \in jobs' : x \in jobs \/ x = k
         /\ c \in Deliveries /\ first[c] = "settled" /\ JobOK(j) /\ Steady(c)
  <1>1. jobs' = (jobs \ {j}) \cup {k} /\ IsFiniteSet(jobs)
    BY DEF Became, DeliveriesInv
  <1>2. IsFiniteSet(jobs')
    <2>1. IsFiniteSet(jobs \ {j})
      BY <1>1, FS_RemoveElement
    <2> QED BY <1>1, <2>1, FS_AddElement
  <1>3. JobOK(j) /\ c \in Deliveries
    BY DEF DeliveriesInv, JobOK, Job
  <1>4. Steady(c) /\ j \in JobsOf(c)
    BY <1>3 DEF DeliveriesInv, JobsOf
  <1>5. first[c] = "settled"
    BY <1>4 DEF Steady
  <1> QED BY <1>1, <1>2, <1>3, <1>4, <1>5 DEF JobsOf

\* A live job that goes on, posting perhaps.
LEMMA GoesOn ==
  ASSUME DeliveriesInv, NEW j \in jobs, NEW k, k.delivery = j.delivery, NEW c, c = j.delivery,
         jobs' = Became(j, k), j.at # "done", k.at # "done", JobOK(k)',
         RestTyped', Aside(c), first' = first, Grows,
         posted' = posted \/ posted' = [posted EXCEPT ![c] = @ \cup {j.attempt}],
         UNCHANGED <<acked, dlq, discarded, repeated, abandoned, restarts>>
  PROVE  DeliveriesInv'
  <1>1. /\ JobsOf(c)' = (JobsOf(c) \ {j}) \cup {k} /\ j \in JobsOf(c)
        /\ \A x : x.delivery # c => (x \in jobs <=> x \in jobs')
        /\ IsFiniteSet(jobs')
        /\ \A x \in jobs' : x \in jobs \/ x = k
        /\ c \in Deliveries /\ first[c] = "settled" /\ JobOK(j) /\ Steady(c)
    BY Changed
  <1>2. posted \in [Deliveries -> SUBSET (0..Retries)] /\ j.attempt \in 0..Retries
    BY <1>1, Typed DEF RestTyped, JobOK, Job
  <1>3. /\ c \in abandoned => errors[c] >= JobAttempts \/ (c \in repeated /\ restarts >= 2)
        /\ errors[c] \in Nat /\ errors'[c] \in Nat /\ errors[c] <= errors'[c] /\ JobAttempts \in Nat
    BY <1>1, RetriesAssumption DEF Steady, Grows
  <1>4. posted[c] = 0..Retries => posted'[c] = 0..Retries
    BY <1>1, <1>2
  <1>5. Steady(c)'
    <2>1. Out(c)' <=> Out(c)
      BY DEF Out
    <2>2. \E x \in JobsOf(c)' : x.at # "done"
      BY <1>1
    <2>3. Visible(c)'
      BY <2>2 DEF Visible
    <2>4. c \notin repeated => \A x \in JobsOf(c) \ {j} : x.at = "done"
      BY <1>1 DEF Steady
    <2>5. c \notin repeated => ~Out(c)
      BY <1>1 DEF Steady
    <2>6. c \in abandoned' => errors'[c] >= JobAttempts \/ (c \in repeated' /\ restarts' >= 2)
      BY <1>3
    <2> QED BY <1>1, <1>4, <2>1, <2>3, <2>4, <2>5, <2>6 DEF Steady, Out
  <1> QED BY <1>1, <1>5, StepOf

LEMMA StartJobKeeps ==
  ASSUME DeliveriesInv, NEW j \in jobs, StartJob(j)
  PROVE  DeliveriesInv'
  <1>1. PICK c : c = j.delivery
    OBVIOUS
  <1>2. PICK k : k = [j EXCEPT !.at = "posting"]
    OBVIOUS
  <1>3. JobOK(j) /\ RestTyped
    BY Typed DEF DeliveriesInv
  <1>4. /\ jobs' = Became(j, k) /\ j.at = "waiting"
        /\ posted' = [posted EXCEPT ![c] = @ \cup {j.attempt}]
        /\ UNCHANGED <<hasDatabase, first, apiDlq, resolved, forgotten, dlq, discarded, acked, repeated,
                       restarts, lostReplies, abandoned, errors>>
    BY <1>1, <1>2 DEF StartJob, Moved, apiVars, outcomeVars, boundVars, failureVars
  <1>5. /\ k \in Job /\ k.delivery = c /\ k.attempt = j.attempt /\ k.at = "posting"
        /\ c \in Deliveries /\ j.attempt \in 1..Retries
    BY <1>1, <1>2, <1>3, Moving
  <1>6. RestTyped'
    BY <1>3, <1>4, <1>5 DEF RestTyped
  <1>7. posted'[c] = posted[c] \cup {j.attempt} /\ \A d \in Deliveries : d # c => posted'[d] = posted[d]
    BY <1>3, <1>4, <1>5 DEF RestTyped
  <1>8. Grows
    <2>1. \A d \in Deliveries : posted[d] \subseteq posted'[d]
      BY <1>3, <1>4, <1>5 DEF RestTyped
    <2> QED BY <1>3, <1>4, <1>6, <2>1, GrowsOf
  <1>9. JobOK(k)'
    <2>1. JobOK(j)'
      BY <1>3, <1>8, StaysOK
    <2> QED BY <1>1, <1>2, <1>5, <1>7, <2>1, Moving DEF JobOK
  <1>10. Aside(c)
    BY <1>4, <1>7 DEF Aside
  <1> QED BY <1>1, <1>4, <1>5, <1>6, <1>8, <1>9, <1>10, GoesOn

LEMMA RetryFailsKeeps ==
  ASSUME DeliveriesInv, NEW j \in jobs, RetryFails(j)
  PROVE  DeliveriesInv'
  <1>1. PICK c : c = j.delivery
    OBVIOUS
  <1>2. PICK k : k = [j EXCEPT !.at = IF j.attempt < Retries THEN "enqueuing" ELSE "storing"]
    OBVIOUS
  <1>3. JobOK(j) /\ RestTyped
    BY Typed DEF DeliveriesInv
  <1>4. /\ jobs' = Became(j, k) /\ j.at = "posting"
        /\ UNCHANGED <<hasDatabase, first, apiDlq, resolved, forgotten, dlq, discarded, acked, repeated,
                       posted, restarts, lostReplies, abandoned, errors>>
    BY <1>1, <1>2 DEF RetryFails, Moved, apiVars, outcomeVars, boundVars, failureVars
  <1>5. /\ k \in Job /\ k.delivery = c /\ k.attempt = j.attempt
        /\ k.at = (IF j.attempt < Retries THEN "enqueuing" ELSE "storing")
        /\ k.run = j.run /\ k.stalled = j.stalled
        /\ c \in Deliveries /\ j.attempt \in 1..Retries
    BY <1>1, <1>2, <1>3, Moving
  <1>6. RestTyped' /\ Aside(c) /\ Grows
    <2>1. RestTyped' /\ Aside(c)
      BY <1>3, <1>4 DEF RestTyped, Aside
    <2> QED BY <1>3, <1>4, <2>1, GrowsOf
  <1>7. JobOK(k)'
    <2>1. j.attempt < Retries \/ j.attempt = Retries
      BY <1>5, RetriesAssumption
    <2>2. JobOK(j)'
      BY <1>3, <1>6, StaysOK
    <2> QED BY <1>1, <1>4, <1>5, <2>1, <2>2 DEF JobOK
  <1> QED BY <1>1, <1>4, <1>5, <1>6, <1>7, GoesOn

\* A job that threw goes on, or is given up with its delivery; the error is counted.
LEMMA Throwing ==
  ASSUME DeliveriesInv, NEW j \in jobs, Counts(j), NEW c, c = j.delivery,
         UNCHANGED <<posted, restarts>>, repeated \subseteq repeated'
  PROVE  /\ c \in Deliveries /\ Grows
         /\ errors' \in [Deliveries -> Nat] /\ \A d \in Deliveries : d # c => errors'[d] = errors[d]
         /\ \/ /\ abandoned' = abandoned
               /\ \E k : /\ Thrown(j) = Became(j, k) /\ JobOK(k)' /\ k.delivery = c
                         /\ k.at = "waiting"
            \/ /\ abandoned' = abandoned \cup {c} /\ errors'[c] >= JobAttempts
               /\ Thrown(j) = jobs \ {j}
  <1>1. JobOK(j) /\ j \in Job /\ c \in Deliveries /\ RestTyped
    BY Typed DEF DeliveriesInv, JobOK, Job
  <1>2. JobAttempts \in Nat /\ j.run \in Nat /\ restarts \in Nat
    BY <1>1, RetriesAssumption, BoundsAssumption DEF Job, RestTyped
  <1>3. PICK e \in Nat : e = errors[c]
    BY <1>1 DEF RestTyped
  <1>4. errors' = [errors EXCEPT ![c] = e + 1]
    BY <1>3 DEF Counts
  <1>5. /\ errors' \in [Deliveries -> Nat] /\ errors'[c] = e + 1
        /\ \A d \in Deliveries : d # c => errors'[d] = errors[d]
    BY <1>1, <1>4 DEF RestTyped
  <1>6. Grows
    <2>1. \A d \in Deliveries : errors[d] \in Nat /\ errors[d] <= errors'[d]
      BY <1>1, <1>3, <1>5 DEF RestTyped
    <2> QED BY <1>1, <1>2, <1>5, <2>1 DEF Grows, RestTyped
  <1>7. j.run <= e + 1
    BY <1>1, <1>3 DEF JobOK
  <1>8. CASE j.run < JobAttempts
    <2>1. PICK n : n = j.run + 1
      OBVIOUS
    <2>2. PICK k : k = [j EXCEPT !.at = "waiting", !.run = j.run + 1]
      OBVIOUS
    <2>3. n \in 1..JobAttempts /\ n <= errors'[c] + 1
      BY <1>2, <1>5, <1>7, <1>8, <2>1
    <2>4. /\ k \in Job /\ k.delivery = c /\ k.attempt = j.attempt /\ k.at = "waiting"
          /\ k.run = n /\ k.stalled = j.stalled
      BY <1>1, <2>1, <2>2, <2>3 DEF Job
    <2>5. Thrown(j) = Became(j, k)
      BY <1>8, <2>2 DEF Thrown
    <2>6. JobOK(j)'
      BY <1>1, <1>6, StaysOK
    <2>7. JobOK(k)'
      BY <2>3, <2>4, <2>6 DEF JobOK
    <2>8. abandoned' = abandoned
      BY <1>8 DEF Counts
    <2> QED BY <1>1, <1>5, <1>6, <2>4, <2>5, <2>7, <2>8
  <1>9. CASE ~(j.run < JobAttempts)
    <2>1. Thrown(j) = jobs \ {j} /\ abandoned' = abandoned \cup {c}
      BY <1>9 DEF Thrown, Counts
    <2>2. errors'[c] >= JobAttempts
      BY <1>2, <1>5, <1>7, <1>9
    <2> QED BY <1>1, <1>5, <1>6, <2>1, <2>2
  <1> QED BY <1>8, <1>9

\* A job given up.
LEMMA FailedForGood ==
  ASSUME DeliveriesInv, NEW j \in jobs, NEW c, c = j.delivery, jobs' = jobs \ {j}, Grows,
         abandoned' = abandoned \cup {c}, errors'[c] >= JobAttempts,
         RestTyped', Aside(c),
         UNCHANGED <<first, posted, acked, dlq, discarded, repeated, restarts>>
  PROVE  DeliveriesInv'
  <1>1. JobOK(j) /\ RestTyped /\ IsFiniteSet(jobs) /\ c \in Deliveries /\ Steady(c)
    BY Typed DEF DeliveriesInv, JobOK, Job
  <1>2. IsFiniteSet(jobs')
    BY <1>1, FS_RemoveElement
  <1>3. JobsOf(c)' = JobsOf(c) \ {j}
    BY DEF JobsOf
  <1>4. Steady(c)'
    BY <1>1, <1>3 DEF Steady, Out, Visible
  <1> QED BY <1>1, <1>2, <1>4, StepOf

\* A job that is over, with the outcome of its delivery.
LEMMA Ends ==
  ASSUME DeliveriesInv, NEW j \in jobs, NEW k \in Job, k.delivery = j.delivery, k.attempt = j.attempt, k.at = "done",
         k.run = j.run, k.stalled = j.stalled,
         NEW c, c = j.delivery, jobs' = Became(j, k), j.at # "done",
         UNCHANGED <<hasDatabase, first, apiDlq, resolved, forgotten, posted, repeated, restarts,
                     lostReplies, abandoned, errors>>,
         \/ acked' = acked \cup {c} /\ UNCHANGED <<dlq, discarded>>
         \/ j.at = "storing" /\ dlq' = dlq \cup {c} /\ UNCHANGED <<acked, discarded>>
         \/ j.at = "storing" /\ discarded' = discarded \cup {c} /\ UNCHANGED <<acked, dlq>>
  PROVE  DeliveriesInv'
  <1>1. JobOK(j) /\ RestTyped
    BY Typed DEF DeliveriesInv
  <1>2. k.delivery = c /\ c \in Deliveries
    BY <1>1 DEF JobOK, Job
  <1>3. /\ JobsOf(c)' = (JobsOf(c) \ {j}) \cup {k} /\ j \in JobsOf(c)
        /\ \A x : x.delivery # c => (x \in jobs <=> x \in jobs')
        /\ IsFiniteSet(jobs')
        /\ \A x \in jobs' : x \in jobs \/ x = k
        /\ c \in Deliveries /\ first[c] = "settled" /\ JobOK(j) /\ Steady(c)
    BY Changed
  <1>4. RestTyped' /\ Aside(c) /\ Grows
    <2>1. RestTyped' /\ Aside(c)
      BY <1>1, <1>2 DEF RestTyped, Aside
    <2> QED BY <1>1, <2>1, GrowsOf
  <1>5. JobOK(k)'
    <2>1. JobOK(j)'
      BY <1>1, <1>4, StaysOK
    <2> QED BY <1>2, <2>1 DEF JobOK
  <1>6. j.at = "storing" => posted[c] = 0..Retries
    <2> SUFFICES ASSUME j.at = "storing" PROVE posted[c] = 0..Retries
      OBVIOUS
    <2>1. 0..(Retries - 1) \subseteq posted[c] /\ Retries \in posted[c]
      BY <1>1 DEF JobOK
    <2>2. posted[c] \subseteq 0..Retries
      BY <1>1, <1>2 DEF RestTyped
    <2>3. \A n \in 0..Retries : n \in 0..(Retries - 1) \/ n = Retries
      BY RetriesAssumption
    <2> QED BY <2>1, <2>2, <2>3
  <1>7. Steady(c)'
    <2>1. Out(c)' /\ Visible(c)'
      BY DEF Out, Visible
    <2>2. c \notin repeated => \A x \in JobsOf(c)' : x.at = "done"
      BY <1>2, <1>3 DEF Steady
    <2>3. c \notin repeated => ~Out(c)
      BY <1>3 DEF Steady
    <2>4. c \notin repeated => ~(c \in acked' /\ c \in dlq' \cup discarded')
      BY <2>3 DEF Out
    <2>5. c \in dlq' \cup discarded' => posted[c] = 0..Retries
      BY <1>3, <1>6 DEF Steady
    <2>6. c \in abandoned' => errors'[c] >= JobAttempts \/ (c \in repeated' /\ restarts' >= 2)
      BY <1>3 DEF Steady
    <2> QED BY <1>3, <2>1, <2>2, <2>4, <2>5, <2>6 DEF Steady
  <1> QED BY <1>3, <1>4, <1>5, <1>7, StepOf

LEMMA NextScheduledKeeps ==
  ASSUME DeliveriesInv, NEW j \in jobs, NextScheduled(j)
  PROVE  DeliveriesInv'
  <1>1. PICK c : c = j.delivery
    OBVIOUS
  <1>2. PICK k : k = [j EXCEPT !.at = "done"]
    OBVIOUS
  <1>3. PICK n : n = NewJob(c, j.attempt + 1)
    OBVIOUS
  <1>4. JobOK(j) /\ RestTyped /\ IsFiniteSet(jobs)
    BY Typed DEF DeliveriesInv
  <1>5. /\ k \in Job /\ k.delivery = c /\ k.attempt = j.attempt /\ k.at = "done"
        /\ c \in Deliveries /\ j.attempt \in 1..Retries
    BY <1>1, <1>2, <1>4, Moving
  <1>6. /\ jobs' = ((jobs \ {j}) \cup {k}) \cup {n} /\ j.at = "enqueuing"
        /\ UNCHANGED <<hasDatabase, first, apiDlq, resolved, forgotten, dlq, discarded, acked, repeated,
                       posted, restarts, lostReplies, abandoned, errors>>
    BY <1>1, <1>2, <1>3 DEF NextScheduled, Moved, Became, apiVars, outcomeVars, boundVars, failureVars
  <1>7. JobOK(n) /\ n.delivery = c /\ n.at = "waiting"
    <2>1. j.attempt < Retries /\ j.attempt \in posted[c] /\ 0..(j.attempt - 1) \subseteq posted[c]
      BY <1>1, <1>4, <1>6 DEF JobOK
    <2>2. j.attempt + 1 \in 1..Retries
      BY <2>1, <1>5, RetriesAssumption
    <2>3. 0..((j.attempt + 1) - 1) \subseteq posted[c]
      <3>1. \A x \in 0..((j.attempt + 1) - 1) : x \in 0..(j.attempt - 1) \/ x = j.attempt
        BY <1>5
      <3> QED BY <2>1, <3>1
    <2>4. PICK a : a = j.attempt + 1
      OBVIOUS
    <2> QED BY <1>3, <1>5, <2>2, <2>3, <2>4, NewJobIsOK
  <1>8. RestTyped' /\ Aside(c) /\ Grows
    <2>1. RestTyped' /\ Aside(c)
      BY <1>4, <1>6 DEF RestTyped, Aside
    <2> QED BY <1>4, <1>6, <2>1, GrowsOf
  <1>9. j \in JobsOf(c) /\ first[c] = "settled" /\ Steady(c)
    BY <1>1, <1>5 DEF DeliveriesInv, JobsOf, Steady
  <1>10. JobsOf(c)' = ((JobsOf(c) \ {j}) \cup {k}) \cup {n}
    BY <1>5, <1>6, <1>7 DEF JobsOf
  <1>11. IsFiniteSet(jobs')
    <2>1. IsFiniteSet(jobs \ {j})
      BY <1>4, FS_RemoveElement
    <2>2. IsFiniteSet((jobs \ {j}) \cup {k})
      BY <2>1, FS_AddElement
    <2> QED BY <1>6, <2>2, FS_AddElement
  <1>12. Steady(c)'
    <2>1. Visible(c)'
      BY <1>7, <1>10 DEF Visible
    <2>2. c \notin repeated => \A x \in JobsOf(c) \ {j} : x.at = "done"
      BY <1>6, <1>9 DEF Steady
    <2>3. c \notin repeated => ~Out(c)
      BY <1>6, <1>9 DEF Steady
    <2>4. Out(c)' <=> Out(c)
      BY <1>6 DEF Out
    <2>5. c \notin repeated => \A x, y \in JobsOf(c)' : x # y => "done" \in {x.at, y.at}
      BY <1>5, <1>10, <2>2
    <2> QED BY <1>6, <1>9, <2>1, <2>3, <2>4, <2>5 DEF Steady, Out
  <1>13. JobOK(n)' /\ JobOK(k)'
    <2>1. JobOK(n)' /\ JobOK(j)'
      BY <1>4, <1>7, <1>8, StaysOK
    <2>2. k.run = j.run /\ k.stalled = j.stalled
      BY <1>2, <1>4, Moving
    <2> QED BY <1>1, <1>5, <2>1, <2>2 DEF JobOK
  <1>14. \A x : x.delivery # c => (x \in jobs <=> x \in jobs')
    BY <1>1, <1>5, <1>6, <1>7
  <1>15. \A x \in jobs' : x \notin jobs => JobOK(x)'
    <2> SUFFICES ASSUME NEW x \in jobs', x \notin jobs PROVE JobOK(x)'
      OBVIOUS
    <2>1. x = k \/ x = n
      BY <1>6
    <2> QED BY <1>13, <2>1
  <1> QED BY <1>5, <1>6, <1>8, <1>11, <1>12, <1>14, <1>15, StepOf

LEMMA NextRejectedKeeps ==
  ASSUME DeliveriesInv, NEW j \in jobs, NextRejected(j)
  PROVE  DeliveriesInv'
  <1>1. PICK c : c = j.delivery
    OBVIOUS
  <1>2. JobOK(j) /\ RestTyped /\ IsFiniteSet(jobs)
    BY Typed DEF DeliveriesInv
  <1>3. PICK n : n = NewJob(c, j.attempt + 1)
    OBVIOUS
  <1>4. /\ j.attempt \in 1..Retries /\ j.at = "enqueuing" /\ Counts(j)
        /\ UNCHANGED <<hasDatabase, first, apiDlq, resolved, forgotten, dlq, discarded, acked,
                       posted, restarts>>
    BY <1>1, <1>2 DEF JobOK, Job, NextRejected, apiVars, outcomeVars
  <1>5. \/ jobs' = Thrown(j) /\ UNCHANGED <<repeated, lostReplies>>
        \/ /\ jobs' = Thrown(j) \cup {n} /\ repeated' = repeated \cup {c}
           /\ lostReplies < MaxLostReplies /\ lostReplies' = lostReplies + 1
    BY <1>1, <1>3 DEF NextRejected, Rejected
  <1>6. /\ c \in Deliveries /\ Grows
        /\ errors' \in [Deliveries -> Nat] /\ \A d \in Deliveries : d # c => errors'[d] = errors[d]
        /\ \/ /\ abandoned' = abandoned
              /\ \E k : /\ Thrown(j) = Became(j, k) /\ JobOK(k)' /\ k.delivery = c
                        /\ k.at = "waiting"
           \/ /\ abandoned' = abandoned \cup {c} /\ errors'[c] >= JobAttempts
              /\ Thrown(j) = jobs \ {j}
    <2>1. repeated \subseteq repeated'
      BY <1>5
    <2> QED BY <1>1, <1>4, <2>1, Throwing
  <1>7. RestTyped' /\ Aside(c)
    <2>1. Aside(c)
      BY <1>4, <1>5, <1>6 DEF Aside
    <2>2. restarts' \in 0..MaxRestarts /\ lostReplies' \in 0..MaxLostReplies
      BY <1>2, <1>4, <1>5, BoundsAssumption DEF RestTyped
    <2>3. repeated' \cup abandoned' \subseteq Deliveries
      BY <1>2, <1>5, <1>6 DEF RestTyped
    <2> QED BY <1>2, <1>4, <1>6, <2>1, <2>2, <2>3 DEF RestTyped
  <1>8. CASE jobs' = Thrown(j) /\ UNCHANGED <<repeated, lostReplies>>
    <2>1. CASE abandoned' = abandoned
               /\ \E k : /\ Thrown(j) = Became(j, k) /\ JobOK(k)' /\ k.delivery = c
                         /\ k.at = "waiting"
      <3>1. PICK k : /\ Thrown(j) = Became(j, k) /\ JobOK(k)' /\ k.delivery = c /\ k.at = "waiting"
        BY <2>1
      <3> QED BY <1>1, <1>4, <1>6, <1>7, <1>8, <2>1, <3>1, GoesOn
    <2>2. CASE /\ abandoned' = abandoned \cup {c} /\ errors'[c] >= JobAttempts
               /\ Thrown(j) = jobs \ {j}
      BY <1>1, <1>4, <1>6, <1>7, <1>8, <2>2, FailedForGood
    <2> QED BY <1>6, <2>1, <2>2
  <1>9. CASE /\ jobs' = Thrown(j) \cup {n} /\ repeated' = repeated \cup {c}
             /\ lostReplies < MaxLostReplies /\ lostReplies' = lostReplies + 1
    <2>1. JobOK(n) /\ n.delivery = c /\ n.at = "waiting"
      <3>1. j.attempt < Retries /\ j.attempt \in posted[c] /\ 0..(j.attempt - 1) \subseteq posted[c]
        BY <1>1, <1>2, <1>4 DEF JobOK
      <3>2. j.attempt + 1 \in 1..Retries
        BY <3>1, <1>4, RetriesAssumption
      <3>3. 0..((j.attempt + 1) - 1) \subseteq posted[c]
        <4>1. \A x \in 0..((j.attempt + 1) - 1) : x \in 0..(j.attempt - 1) \/ x = j.attempt
          BY <1>4
        <4> QED BY <3>1, <4>1
      <3>4. PICK a : a = j.attempt + 1
        OBVIOUS
      <3> QED BY <1>3, <1>6, <3>2, <3>3, <3>4, NewJobIsOK
    <2>2. JobOK(n)'
      BY <1>6, <2>1, StaysOK
    <2>3. /\ \A x \in jobs' : x \notin jobs => JobOK(x)' /\ x.delivery = c
          /\ \A x \in jobs : x # j => x \in jobs'
          /\ n \in jobs' /\ IsFiniteSet(jobs')
      <3>1. IsFiniteSet(jobs \ {j})
        BY <1>2, FS_RemoveElement
      <3>2. CASE Thrown(j) = jobs \ {j}
        <4>1. jobs' = (jobs \ {j}) \cup {n}
          BY <1>9, <3>2
        <4> QED BY <2>1, <2>2, <3>1, <4>1, FS_AddElement
      <3>3. CASE \E k : Thrown(j) = Became(j, k) /\ JobOK(k)' /\ k.delivery = c /\ k.at = "waiting"
        <4>1. PICK k : Thrown(j) = Became(j, k) /\ JobOK(k)' /\ k.delivery = c /\ k.at = "waiting"
          BY <3>3
        <4>2. jobs' = ((jobs \ {j}) \cup {k}) \cup {n}
          BY <1>9, <4>1 DEF Became
        <4>3. IsFiniteSet((jobs \ {j}) \cup {k})
          BY <3>1, FS_AddElement
        <4>4. IsFiniteSet(jobs')
          BY <4>2, <4>3, FS_AddElement
        <4>5. ASSUME NEW x \in jobs', x \notin jobs PROVE JobOK(x)' /\ x.delivery = c
          <5>1. x = k \/ x = n
            BY <4>2, <4>5
          <5> QED BY <2>1, <2>2, <4>1, <5>1
        <4> QED BY <4>2, <4>4, <4>5
      <3> QED BY <1>6, <3>2, <3>3
    <2>4. Steady(c)'
      <3>1. first[c] = "settled" /\ Steady(c)
        BY <1>1, <1>6 DEF DeliveriesInv, JobsOf, Steady
      <3>2. Visible(c)'
        BY <2>1, <2>3 DEF Visible, JobsOf
      <3>3. /\ c \in abandoned => errors[c] >= JobAttempts \/ (c \in repeated /\ restarts >= 2)
            /\ errors[c] \in Nat /\ errors'[c] \in Nat /\ errors[c] <= errors'[c]
            /\ JobAttempts \in Nat
        BY <1>6, <3>1, RetriesAssumption DEF Steady, Grows
      <3>4. c \in abandoned' => errors'[c] >= JobAttempts \/ (c \in repeated' /\ restarts' >= 2)
        BY <1>4, <1>6, <1>9, <3>3
      <3> QED BY <1>4, <1>9, <3>1, <3>2, <3>4 DEF Steady
    <2>5. \A x : x.delivery # c => (x \in jobs <=> x \in jobs')
      BY <1>1, <2>3
    <2> QED BY <1>4, <1>6, <1>7, <2>3, <2>4, <2>5, StepOf
  <1> QED BY <1>5, <1>8, <1>9

LEMMA WriteDlqKeeps ==
  ASSUME DeliveriesInv, NEW j \in jobs, WriteDlqEntry(j)
  PROVE  DeliveriesInv'
  <1>1. PICK c : c = j.delivery
    OBVIOUS
  <1>2. PICK k : k = [j EXCEPT !.at = "done"]
    OBVIOUS
  <1>3. /\ j.at = "storing"
        /\ UNCHANGED <<hasDatabase, first, apiDlq, resolved, forgotten, acked, posted, repeated,
                       restarts, lostReplies>>
    BY DEF WriteDlqEntry, apiVars, boundVars
  <1>4. CASE jobs' = Moved(j, "done")
             /\ \/ discarded' = discarded \cup {c} /\ UNCHANGED dlq
                \/ dlq' = dlq \cup {c} /\ UNCHANGED discarded
             /\ UNCHANGED <<abandoned, errors>>
    <2>1. /\ k \in Job /\ k.delivery = j.delivery /\ k.attempt = j.attempt /\ k.at = "done"
          /\ k.run = j.run /\ k.stalled = j.stalled
          /\ j.at # "done"
      BY <1>2, <1>3, Moving, Typed DEF DeliveriesInv
    <2>2. jobs' = Became(j, k)
      BY <1>2, <1>4 DEF Moved
    <2> QED BY <1>1, <1>3, <1>4, <2>1, <2>2, Ends
  <1>5. CASE jobs' = Thrown(j) /\ Counts(j) /\ UNCHANGED <<dlq, discarded>>
    <2>1. RestTyped
      BY Typed
    <2>2. /\ c \in Deliveries /\ Grows
          /\ errors' \in [Deliveries -> Nat] /\ \A d \in Deliveries : d # c => errors'[d] = errors[d]
          /\ \/ /\ abandoned' = abandoned
                /\ \E x : /\ Thrown(j) = Became(j, x) /\ JobOK(x)' /\ x.delivery = c
                          /\ x.at = "waiting"
             \/ /\ abandoned' = abandoned \cup {c} /\ errors'[c] >= JobAttempts
                /\ Thrown(j) = jobs \ {j}
      BY <1>1, <1>3, <1>5, Throwing
    <2>3. RestTyped' /\ Aside(c)
      <3>1. abandoned' \subseteq Deliveries /\ \A d : d # c => (d \in abandoned <=> d \in abandoned')
        BY <2>1, <2>2 DEF RestTyped
      <3> QED BY <1>3, <1>5, <2>1, <2>2, <3>1 DEF RestTyped, Aside
    <2>4. CASE abandoned' = abandoned
               /\ \E x : /\ Thrown(j) = Became(j, x) /\ JobOK(x)' /\ x.delivery = c
                         /\ x.at = "waiting"
      <3>1. PICK x : /\ Thrown(j) = Became(j, x) /\ JobOK(x)' /\ x.delivery = c /\ x.at = "waiting"
        BY <2>4
      <3> QED BY <1>1, <1>3, <1>5, <2>2, <2>3, <2>4, <3>1, GoesOn
    <2>5. CASE /\ abandoned' = abandoned \cup {c} /\ errors'[c] >= JobAttempts
               /\ Thrown(j) = jobs \ {j}
      BY <1>1, <1>3, <1>5, <2>2, <2>3, <2>5, FailedForGood
    <2> QED BY <2>2, <2>4, <2>5
  <1>6. \/ /\ jobs' = Moved(j, "done") /\ discarded' = discarded \cup {c}
           /\ UNCHANGED <<dlq, failureVars>>
        \/ /\ jobs' = Moved(j, "done") /\ dlq' = dlq \cup {c}
           /\ UNCHANGED <<discarded, failureVars>>
        \/ jobs' = Thrown(j) /\ Counts(j) /\ UNCHANGED <<dlq, discarded>>
    BY <1>1, Zenon DEF WriteDlqEntry
  <1>7. CASE /\ jobs' = Moved(j, "done") /\ discarded' = discarded \cup {c}
             /\ UNCHANGED <<dlq, failureVars>>
    BY <1>4, <1>7 DEF failureVars
  <1>8. CASE /\ jobs' = Moved(j, "done") /\ dlq' = dlq \cup {c}
             /\ UNCHANGED <<discarded, failureVars>>
    BY <1>4, <1>8 DEF failureVars
  <1> QED BY <1>5, <1>6, <1>7, <1>8

LEMMA JobCompletedKeeps ==
  ASSUME DeliveriesInv, NEW j \in jobs, JobCompleted(j)
  PROVE  DeliveriesInv'
  <1>1. PICK c : c = j.delivery
    OBVIOUS
  <1>2. /\ jobs' = jobs \ {j} /\ j.at = "done"
        /\ UNCHANGED <<hasDatabase, first, apiDlq, resolved, forgotten, dlq, discarded, acked, repeated,
                       posted, restarts, lostReplies, abandoned, errors>>
    BY DEF JobCompleted, apiVars, outcomeVars, boundVars, failureVars
  <1>3. JobOK(j) /\ RestTyped /\ IsFiniteSet(jobs)
    BY Typed DEF DeliveriesInv
  <1>4. c \in Deliveries /\ Steady(c)
    BY <1>1, <1>3 DEF DeliveriesInv, JobOK, Job
  <1>5. RestTyped' /\ Aside(c) /\ Grows
    <2>1. RestTyped' /\ Aside(c)
      BY <1>2, <1>3 DEF RestTyped, Aside
    <2> QED BY <1>2, <1>3, <2>1, GrowsOf
  <1>6. IsFiniteSet(jobs')
    BY <1>2, <1>3, FS_RemoveElement
  <1>7. JobsOf(c)' = JobsOf(c) \ {j}
    BY <1>2 DEF JobsOf
  <1>8. Steady(c)'
    BY <1>2, <1>4, <1>7 DEF Steady, Out, Visible
  <1> QED BY <1>1, <1>2, <1>4, <1>5, <1>6, <1>8, StepOf

LEMMA RetryDeliveredKeeps ==
  ASSUME DeliveriesInv, NEW j \in jobs, RetryDelivered(j)
  PROVE  DeliveriesInv'
  <1>1. PICK c : c = j.delivery
    OBVIOUS
  <1>2. PICK k : k = [j EXCEPT !.at = "done"]
    OBVIOUS
  <1>3. /\ j.at = "posting" /\ acked' = acked \cup {c} /\ jobs' = Became(j, k)
        /\ UNCHANGED <<hasDatabase, first, apiDlq, resolved, forgotten, dlq, discarded, posted, repeated,
                       restarts, lostReplies, abandoned, errors>>
    BY <1>1, <1>2 DEF RetryDelivered, Moved, apiVars, boundVars, failureVars
  <1>4. /\ k \in Job /\ k.delivery = j.delivery /\ k.attempt = j.attempt /\ k.at = "done"
        /\ k.run = j.run /\ k.stalled = j.stalled
        /\ j.at # "done"
    BY <1>2, <1>3, Moving, Typed DEF DeliveriesInv
  <1> QED BY <1>1, <1>3, <1>4, Ends

\* A worker that is gone: what it held is handed out again, or has failed.
Stays(j) == ~Held(j) \/ ~j.stalled
Again(j) == IF Held(j) THEN [j EXCEPT !.at = "waiting", !.stalled = TRUE] ELSE j

LEMMA WorkerGone ==
  ASSUME DeliveriesInv, RestartWorker
  PROVE  DeliveriesInv'
  <1> DEFINE stay == {j \in jobs : Stays(j)}
  <1>1. /\ jobs' = {Again(j) : j \in stay}
        /\ \A j \in jobs : Held(j) => j.delivery \in repeated'
        /\ repeated' \subseteq repeated \cup {j.delivery : j \in jobs} /\ repeated \subseteq repeated'
        /\ \A j \in jobs : ~Stays(j) => j.delivery \in abandoned'
        /\ \A d \in abandoned' : d \in abandoned \/ \E j \in jobs : ~Stays(j) /\ d = j.delivery
        /\ abandoned \subseteq abandoned'
        /\ restarts < MaxRestarts /\ restarts' = restarts + 1
        /\ UNCHANGED <<hasDatabase, first, apiDlq, resolved, forgotten, dlq, discarded, acked, posted,
                       errors, lostReplies>>
    <2>1. /\ jobs' = (jobs \ {j \in jobs : Held(j)})
                      \cup {[j EXCEPT !.at = "waiting", !.stalled = TRUE] :
                               j \in {k \in {j \in jobs : Held(j)} : ~k.stalled}}
          /\ repeated' = repeated \cup {j.delivery : j \in {j \in jobs : Held(j)}}
          /\ abandoned' = abandoned \cup
                 {j.delivery : j \in {j \in jobs : Held(j)} \ {k \in {j \in jobs : Held(j)} : ~k.stalled}}
          /\ restarts < MaxRestarts /\ restarts' = restarts + 1
          /\ UNCHANGED <<hasDatabase, first, apiDlq, resolved, forgotten, dlq, discarded, acked, posted,
                         errors, lostReplies>>
      BY DEF RestartWorker, apiVars, outcomeVars
    <2>2. jobs' = {Again(j) : j \in stay}
      BY <2>1 DEF Again, Stays
    <2> QED BY <2>1, <2>2 DEF Stays
  <1> HIDE DEF stay
  <1>2. RestTyped /\ IsFiniteSet(jobs) /\ stay \subseteq jobs /\ restarts \in Nat
    BY Typed, BoundsAssumption DEF RestTyped, stay
  <1>3. /\ repeated' \subseteq Deliveries /\ abandoned' \subseteq Deliveries
        /\ restarts' \in 0..MaxRestarts /\ restarts' >= 1
    <2>1. \A j \in jobs : j.delivery \in Deliveries
      BY DEF DeliveriesInv, JobOK, Job
    <2> QED BY <1>1, <1>2, <2>1, BoundsAssumption DEF RestTyped
  <1>4. RestTyped'
    BY <1>1, <1>2, <1>3 DEF RestTyped
  <1>5. Grows
    BY <1>1, <1>2, <1>3 DEF Grows, RestTyped
  <1>6. ASSUME NEW j \in jobs
        PROVE  /\ JobOK(Again(j))' /\ Again(j).delivery = j.delivery /\ Again(j).at = "waiting"
               /\ j.delivery \notin repeated' => Again(j) = j /\ Stays(j)
               /\ j.delivery \in Deliveries
    <2>1. JobOK(j) /\ j \in Job /\ JobOK(j)'
      <3>1. JobOK(j)
        BY DEF DeliveriesInv
      <3> QED BY <1>5, <3>1, StaysOK DEF JobOK
    <2>2. PICK k : k = Again(j)
      OBVIOUS
    <2>3. /\ k \in Job /\ k.delivery = j.delivery /\ k.attempt = j.attempt /\ k.at = "waiting"
          /\ k.run = j.run
          /\ k.stalled => Held(j) \/ j.stalled
      <3>1. CASE ~Held(j)
        BY <2>1, <2>2, <3>1 DEF Again, Held
      <3>2. CASE Held(j)
        BY <2>1, <2>2, <3>2 DEF Again, Job
      <3> QED BY <3>1, <3>2
    <2>4. k.stalled => k.delivery \in repeated' /\ restarts' >= 1
      BY <1>1, <1>3, <2>1, <2>3 DEF JobOK
    <2>5. JobOK(k)'
      BY <2>1, <2>3, <2>4 DEF JobOK
    <2>6. j.delivery \notin repeated' => k = j /\ Stays(j)
      BY <1>1, <2>2 DEF Again, Stays
    <2>7. JobOK(Again(j))'
      BY <2>2, <2>5 DEF JobOK
    <2>8. j.delivery \in Deliveries
      BY <2>1 DEF Job
    <2> QED BY <2>2, <2>3, <2>6, <2>7, <2>8
  <1>7. IsFiniteSet(jobs')
    <2> DEFINE f == [j \in stay |-> Again(j)]
    <2>1. f \in [stay -> jobs'] /\ jobs' = {f[x] : x \in stay}
      BY <1>1
    <2>2. IsFiniteSet(stay)
      BY <1>2, FS_Subset
    <2> HIDE DEF f
    <2> QED BY <2>1, <2>2, ImageIsFinite
  <1>8. ASSUME NEW k \in jobs' PROVE JobOK(k)' /\ k.at = "waiting"
    <2>1. PICK j \in stay : k = Again(j)
      BY <1>1
    <2>2. JobOK(Again(j))' /\ Again(j).at = "waiting"
      BY <1>2, <1>6, <2>1
    <2>3. JobOK(k)'
      BY <2>1, <2>2 DEF JobOK
    <2> QED BY <2>1, <2>2, <2>3
  <1>9. ASSUME NEW d \in Deliveries PROVE Steady(d)'
    <2>1. Steady(d)
      BY DEF DeliveriesInv
    <2>2. JobsOf(d)' = {Again(j) : j \in {k \in JobsOf(d) : Stays(k)}}
      BY <1>1, <1>2, <1>6 DEF JobsOf, stay
    <2>3. d \notin repeated' => JobsOf(d)' = JobsOf(d) /\ d \notin repeated
      BY <1>1, <1>6, <2>2 DEF JobsOf
    <2>4. JobsOf(d) = {} => JobsOf(d)' = {}
      BY <2>2
    <2>5. (\E j \in JobsOf(d) : j.at # "done") => d \in abandoned' \/ \E j \in JobsOf(d)' : j.at # "done"
      <3> SUFFICES ASSUME NEW j \in JobsOf(d), d \notin abandoned'
                   PROVE \E k \in JobsOf(d)' : k.at # "done"
        OBVIOUS
      <3>1. j \in jobs /\ j.delivery = d
        BY DEF JobsOf
      <3>2. Stays(j) /\ Again(j).at = "waiting"
        BY <1>1, <1>6, <3>1
      <3> QED BY <2>2, <3>2
    <2>6. d \in abandoned' => errors'[d] >= JobAttempts \/ (d \in repeated' /\ restarts' >= 2)
      <3>1. CASE d \in abandoned
        BY <1>1, <1>2, <2>1, <3>1 DEF Steady
      <3>2. CASE d \in abandoned' /\ d \notin abandoned
        <4>1. PICK j \in jobs : ~Stays(j) /\ d = j.delivery
          BY <1>1, <3>2
        <4>2. j.stalled /\ JobOK(j)
          BY <4>1 DEF Stays, DeliveriesInv
        <4>3. d \in repeated /\ restarts >= 1
          BY <4>1, <4>2 DEF JobOK
        <4> QED BY <1>1, <1>2, <4>3
      <3> QED BY <3>1, <3>2
    <2>7. Visible(d) => Visible(d)'
      BY <1>1, <2>5 DEF Visible, Out
    <2>8. Out(d)' <=> Out(d)
      BY <1>1 DEF Out
    <2> QED BY <1>1, <2>1, <2>3, <2>4, <2>6, <2>7, <2>8 DEF Steady
  <1>10. jobs' \subseteq Job
    BY <1>8 DEF JobOK
  <1> QED BY <1>4, <1>7, <1>8, <1>9, <1>10 DEF DeliveriesInv, TypeOK, RestTyped

\* An API process that is gone: first attempts and dead letters in memory with it.
LEMMA ApiGone ==
  ASSUME DeliveriesInv, RestartApi
  PROVE  DeliveriesInv'
  <1> DEFINE gone == {d \in Deliveries : first[d] \in {"posting", "enqueuing"}}
  <1>1. /\ first' = [d \in Deliveries |-> IF d \in gone THEN "settled" ELSE first[d]]
        /\ apiDlq' = {} /\ forgotten' = forgotten \cup gone \cup apiDlq
        /\ restarts < MaxRestarts /\ restarts' = restarts + 1
        /\ UNCHANGED <<hasDatabase, resolved, jobs, dlq, discarded, acked, posted, repeated, lostReplies,
                       abandoned, errors>>
    BY DEF RestartApi, outcomeVars, failureVars
  <1>2. RestTyped /\ IsFiniteSet(jobs)
    BY Typed
  <1>3. RestTyped'
    <2>1. restarts' \in 0..MaxRestarts
      BY <1>1, <1>2, BoundsAssumption DEF RestTyped
    <2>2. first' \in [Deliveries -> {"new", "posting", "enqueuing", "settled"}]
      BY <1>1, <1>2 DEF RestTyped
    <2> QED BY <1>1, <1>2, <2>1, <2>2 DEF RestTyped
  <1>4. ASSUME NEW j \in jobs' PROVE JobOK(j)'
    <2>1. restarts \in Nat /\ restarts' \in Nat /\ restarts <= restarts'
      BY <1>1, <1>2, BoundsAssumption DEF RestTyped
    <2>2. Grows
      BY <1>1, <1>2, <2>1 DEF Grows, RestTyped
    <2>3. JobOK(j)
      BY <1>1, <1>4 DEF DeliveriesInv
    <2> QED BY <2>2, <2>3, StaysOK
  <1>5. ASSUME NEW d \in Deliveries PROVE Steady(d)'
    <2>1. Steady(d)
      BY DEF DeliveriesInv
    <2>2. JobsOf(d)' = JobsOf(d) /\ (Out(d)' <=> Out(d))
      BY <1>1 DEF JobsOf, Out
    <2>3. /\ d \in gone => first'[d] = "settled" /\ d \in forgotten' /\ JobsOf(d) = {} /\ ~Out(d)
          /\ d \notin gone => first'[d] = first[d] /\ first[d] \notin {"posting", "enqueuing"}
      BY <1>1, <2>1 DEF Steady
    <2> HIDE DEF gone
    <2>4. Visible(d) => Visible(d)'
      BY <1>1, <2>2 DEF Visible
    <2>5. d \in forgotten' => Visible(d)'
      BY DEF Visible
    <2>6. d \in abandoned' => errors'[d] >= JobAttempts \/ (d \in repeated' /\ restarts' >= 2)
      <3>1. restarts \in Nat
        BY <1>2, BoundsAssumption DEF RestTyped
      <3> QED BY <1>1, <2>1, <3>1 DEF Steady
    <2> QED BY <1>1, <2>1, <2>2, <2>3, <2>4, <2>5, <2>6 DEF Steady, Out
  <1> QED BY <1>1, <1>2, <1>3, <1>4, <1>5 DEF DeliveriesInv, TypeOK, RestTyped

LEMMA DeliveriesKeep ==
  ASSUME DeliveriesInv, Next
  PROVE  DeliveriesInv'
  BY FirstAttempts, StartJobKeeps, RetryDeliveredKeeps, RetryFailsKeeps, NextScheduledKeeps,
     NextRejectedKeeps, WriteDlqKeeps, JobCompletedKeeps, WorkerGone, ApiGone DEF Next, JobStep

LEMMA DeliveriesStart ==
  ASSUME Init
  PROVE  DeliveriesInv
  <1>1. /\ hasDatabase \in BOOLEAN /\ first = [d \in Deliveries |-> "new"] /\ jobs = {}
        /\ apiDlq = {} /\ dlq = {} /\ discarded = {} /\ resolved = {} /\ acked = {}
        /\ posted = [d \in Deliveries |-> {}] /\ repeated = {} /\ forgotten = {}
        /\ abandoned = {} /\ errors = [d \in Deliveries |-> 0]
        /\ restarts = 0 /\ lostReplies = 0
    BY DEF Init
  <1>2. IsFiniteSet(jobs)
    BY <1>1, FS_EmptySet
  <1>3. \A d \in Deliveries : first[d] = "new" /\ JobsOf(d) = {} /\ ~Out(d)
    BY <1>1 DEF JobsOf, Out
  <1>4. \A d \in Deliveries : Steady(d)
    BY <1>1, <1>3 DEF Steady
  <1>5. TypeOK
    BY <1>1, BoundsAssumption DEF TypeOK
  <1> QED BY <1>1, <1>2, <1>4, <1>5 DEF DeliveriesInv

LEMMA DeliveriesSound == ASSUME DeliveriesInv PROVE DeliveriesAreSound
  <1>1. NoneUnaccounted
    <2>1. ASSUME NEW d \in Deliveries, first[d] = "settled"
          PROVE  d \in acked \cup {j.delivery : j \in jobs} \cup apiDlq \cup dlq
                        \cup discarded \cup resolved \cup forgotten \cup abandoned
      <3>1. Visible(d)
        BY <2>1 DEF DeliveriesInv, Steady
      <3> QED BY <3>1 DEF Visible, Out, JobsOf
    <2>2. ASSUME NEW d \in Deliveries, d \in abandoned
          PROVE  errors[d] >= JobAttempts \/ (d \in repeated /\ restarts >= 2)
      BY <2>2 DEF DeliveriesInv, Steady
    <2> QED BY <2>1, <2>2 DEF NoneUnaccounted
  <1>2. RetriesInOrder
    <2>1. ASSUME NEW j \in jobs PROVE 0..(j.attempt - 1) \subseteq posted[j.delivery]
      BY DEF DeliveriesInv, JobOK
    <2>2. ASSUME NEW j \in jobs, j.delivery \notin repeated, NEW k \in jobs, k.delivery = j.delivery, k # j
          PROVE  "done" \in {j.at, k.at}
      <3>1. j.delivery \in Deliveries
        BY DEF DeliveriesInv, JobOK, Job
      <3> QED BY <2>2, <3>1 DEF DeliveriesInv, Steady, JobsOf
    <2> QED BY <2>1, <2>2 DEF RetriesInOrder
  <1>3. DeadLettersExhausted
    BY DEF DeliveriesInv, TypeOK, Steady, DeadLettersExhausted, Exhausted
  <1> QED BY <1>1, <1>2, <1>3 DEF DeliveriesAreSound, DeliveriesInv

LEMMA DeliveriesRest ==
  ASSUME DeliveriesInv, UNCHANGED vars
  PROVE  DeliveriesInv'
  <1>1. UNCHANGED <<hasDatabase, first, apiDlq, resolved, forgotten, jobs, dlq, discarded, acked,
                    posted, repeated, abandoned, errors, restarts, lostReplies>>
    BY DEF vars, apiVars, outcomeVars, boundVars, failureVars
  <1> QED BY <1>1 DEF DeliveriesInv, TypeOK, JobOK, Job, Steady, Visible, Out, JobsOf

\* Of the queue webhook-retry, for every number of deliveries, retries and restarts of the API
\* and worker processes: a delivery stays accounted for, unless its job failed for good, and
\* that takes as many errors of Redis or the database as a job has attempts or two workers that
\* die; its retries keep their order, and the dead letters are those whose every attempt was
\* sent (webhookDelivery.ts, webhookRetry.ts, queue.ts).
THEOREM DeliveriesStaySound == Serving => []DeliveriesAreSound
  <1>1. Serves => DeliveriesInv
    BY DeliveriesStart DEF Serves
  <1>2. DeliveriesInv /\ [Step]_<<queue, vars, pipelineVars>> => DeliveriesInv'
    BY DeliveriesKeep, DeliveriesRest DEF Step
  <1>3. DeliveriesInv => DeliveriesAreSound
    BY DeliveriesSound
  <1> QED BY <1>1, <1>2, <1>3, PTL DEF Serving

-------------------------------------------------------------------------------
(* The events of MetricsPipeline *)
\* The adds and the jobs that have e and may still count it.
Adding(e) == {s \in sending : e \in s.batch /\ ~s.queued}
Queued(e) == {j \in pipelineJobs : e \in j.batch /\ ~j.done}
Gone(e)   == e \in dropped \cup lost

\* Where an event is: in one place.
Untouched(e) == e \notin buffer /\ Adding(e) = {} /\ Queued(e) = {} /\ ~Gone(e)
                /\ (\A s \in sending : e \notin s.batch) /\ (\A j \in pipelineJobs : e \notin j.batch)
InBuffer(e) == e \in buffer /\ Adding(e) = {} /\ Queued(e) = {} /\ ~Gone(e) /\ counted[e] = 0
BeingSent(e) == e \notin buffer /\ (\E s : Adding(e) = {s}) /\ Queued(e) = {} /\ ~Gone(e)
                /\ counted[e] = 0
InQueue(e) == e \notin buffer /\ Adding(e) = {} /\ (\E j : Queued(e) = {j}) /\ ~Gone(e)
              /\ counted[e] = 0
GivenUp(e) == e \notin buffer /\ Adding(e) = {} /\ Queued(e) = {} /\ Gone(e) /\ counted[e] = 0
Settled(e) == e \notin buffer /\ Adding(e) = {} /\ Queued(e) = {} /\ ~Gone(e) /\ counted[e] = 1
InOnePlace(e) == InBuffer(e) \/ BeingSent(e) \/ InQueue(e) \/ GivenUp(e) \/ Settled(e)

MetricsInv ==
    /\ M!MetricsTypeOK
    /\ \A e \in ahead : Untouched(e) /\ counted[e] = 0
    /\ \A e \in M!Events \ (ahead \cup repeatable) : InOnePlace(e)

LEMMA SameCount == \A X : M!Cardinality(X) = Cardinality(X)
  BY DEF Cardinality, M!Cardinality

\* One place is a count of one.
LEMMA OnePlaceCounts ==
  ASSUME NEW e, InOnePlace(e)
  PROVE  (IF e \in dropped \cup lost THEN 1 ELSE 0) + M!Holders(e) + counted[e] = 1
  <1>1. Cardinality({}) = 0 /\ \A x : Cardinality({x}) = 1
    BY FS_EmptySet, FS_Singleton
  <1>2. M!Holders(e) = (IF e \in buffer THEN 1 ELSE 0) + Cardinality(Adding(e)) + Cardinality(Queued(e))
    BY SameCount DEF M!Holders, Adding, Queued
  <1>3. CASE InBuffer(e)
    BY <1>1, <1>2, <1>3 DEF InBuffer, Gone
  <1>4. CASE BeingSent(e)
    <2>1. PICK s : Adding(e) = {s}
      BY <1>4 DEF BeingSent
    <2>2. Cardinality(Adding(e)) = 1
      BY <2>1, <1>1
    <2>3. Cardinality(Queued(e)) = 0 /\ e \notin buffer /\ e \notin dropped \cup lost /\ counted[e] = 0
      BY <1>1, <1>4 DEF BeingSent, Gone
    <2> QED BY <1>2, <2>2, <2>3
  <1>5. CASE InQueue(e)
    <2>1. PICK j : Queued(e) = {j}
      BY <1>5 DEF InQueue
    <2>2. Cardinality(Queued(e)) = 1
      BY <2>1, <1>1
    <2>3. Cardinality(Adding(e)) = 0 /\ e \notin buffer /\ e \notin dropped \cup lost /\ counted[e] = 0
      BY <1>1, <1>5 DEF InQueue, Gone
    <2> QED BY <1>2, <2>2, <2>3
  <1>6. CASE GivenUp(e)
    BY <1>1, <1>2, <1>6 DEF GivenUp, Gone
  <1>7. CASE Settled(e)
    BY <1>1, <1>2, <1>7 DEF Settled, Gone
  <1> QED BY <1>3, <1>4, <1>5, <1>6, <1>7 DEF InOnePlace

\* The next state's places, as sets of what is there.
LEMMA SamePlace ==
  ASSUME NEW e, InOnePlace(e), e \in buffer' <=> e \in buffer, Adding(e)' = Adding(e),
         Queued(e)' = Queued(e), Gone(e)' <=> Gone(e), counted'[e] = counted[e]
  PROVE  InOnePlace(e)'
  BY DEF InOnePlace, InBuffer, BeingSent, InQueue, GivenUp, Settled

\* One place lost and one gained.
LEMMA NewPlace ==
  ASSUME NEW e,
         \/ InBuffer(e)' \/ BeingSent(e)' \/ InQueue(e)' \/ GivenUp(e)' \/ Settled(e)'
  PROVE  InOnePlace(e)'
  BY DEF InOnePlace

LEMMA MetricsTyped ==
  ASSUME MetricsInv
  PROVE  /\ ahead \subseteq M!Events /\ buffer \subseteq Increments
         /\ sending \subseteq [batch : M!Batches, queued : BOOLEAN]
         /\ pipelineJobs \subseteq [batch : M!Batches, held : BOOLEAN, done : BOOLEAN, stalled : BOOLEAN]
         /\ counted \in [M!Events -> 0..2]
         /\ dropped \subseteq Increments /\ lost \subseteq M!Events /\ repeatable \subseteq M!Events
         /\ timer \in BOOLEAN /\ backpressured \in BOOLEAN /\ checking \in BOOLEAN
  BY DEF MetricsInv, M!MetricsTypeOK

\* What a batch records.
LEMMA RecordedOnce1 ==
  ASSUME MetricsInv, NEW B, M!Recorded(B)
  PROVE  /\ counted' \in [M!Events -> 0..2]
         /\ \A e \in M!Events : e \notin B => counted'[e] = counted[e]
         /\ \A e \in M!Events : e \in B /\ counted[e] = 0 => counted'[e] = 1
  <1>1. counted \in [M!Events -> 0..2]
    BY MetricsTyped
  <1>2. counted' = [e \in M!Events |-> IF e \in B /\ counted[e] < 2 THEN counted[e] + 1 ELSE counted[e]]
    BY DEF M!Recorded
  <1>3. \A e \in M!Events : counted[e] \in 0..2
    BY <1>1
  <1>4. \A e \in M!Events :
            (IF e \in B /\ counted[e] < 2 THEN counted[e] + 1 ELSE counted[e]) \in 0..2
    BY <1>3
  <1> QED BY <1>2, <1>3, <1>4

\* Increments and fundings as they happen.
LEMMA IncrementKeeps ==
  ASSUME MetricsInv, NEW e \in M!Events, M!Increment(e)
  PROVE  MetricsInv'
  <1>1. /\ e \in ahead /\ e \in Increments /\ ahead' = ahead \ {e}
        /\ checking' \in {checking, TRUE}
        /\ UNCHANGED <<sending, pipelineJobs, counted, lost, repeatable, backpressured>>
        /\ \/ dropped' = dropped \cup {e} /\ UNCHANGED <<buffer, timer>>
           \/ buffer' = buffer \cup {e} /\ timer' = TRUE /\ UNCHANGED dropped
    BY DEF M!Increment, M!AsksDepth, M!ScheduleFlush
  <1>2. M!MetricsTypeOK'
    <2>1. timer' \in BOOLEAN /\ checking' \in BOOLEAN /\ backpressured' \in BOOLEAN
      BY <1>1, MetricsTyped
    <2>2. Increments \subseteq M!Events
      BY DEF M!Events
    <2> QED BY <1>1, <2>1, <2>2, MetricsTyped DEF M!MetricsTypeOK
  <1>3. \A x : Adding(x)' = Adding(x) /\ Queued(x)' = Queued(x)
    BY <1>1 DEF Adding, Queued
  <1>4. \A x : x # e => (x \in buffer' <=> x \in buffer) /\ (Gone(x)' <=> Gone(x))
    BY <1>1 DEF Gone
  <1>5. ASSUME NEW x \in ahead' PROVE Untouched(x)' /\ counted'[x] = 0
    BY <1>1, <1>3, <1>4 DEF MetricsInv, Untouched
  <1>6. ASSUME NEW x \in M!Events \ (ahead' \cup repeatable') PROVE InOnePlace(x)'
    <2>1. CASE x = e
      <3>1. Untouched(e) /\ counted[e] = 0
        BY <1>1 DEF MetricsInv
      <3> QED BY <1>1, <1>3, <2>1, <3>1 DEF Untouched, InOnePlace, InBuffer, GivenUp, Gone
    <2>2. CASE x # e
      BY <1>1, <1>3, <1>4, <1>6, <2>2, SamePlace DEF MetricsInv
    <2> QED BY <2>1, <2>2
  <1> QED BY <1>2, <1>5, <1>6 DEF MetricsInv

\* A new add.
LEMMA SentAdds ==
  ASSUME MetricsInv, NEW B \in SUBSET M!Events, B # {}, M!Sent(B)
  PROVE  /\ sending' \subseteq [batch : M!Batches, queued : BOOLEAN]
         /\ \A x : x \notin B => Adding(x)' = Adding(x)
         /\ \A x : x \in B /\ Adding(x) = {} => Adding(x)' = {[batch |-> B, queued |-> FALSE]}
         /\ \A x : x \notin B /\ (\A s \in sending : x \notin s.batch) =>
                       \A s \in sending' : x \notin s.batch
  <1> DEFINE a == [batch |-> B, queued |-> FALSE]
  <1>1. sending' = sending \cup {a}
    BY DEF M!Sent
  <1>2. a \in [batch : M!Batches, queued : BOOLEAN] /\ a.batch = B /\ ~a.queued
    <2>1. B \in M!Batches
      BY DEF M!Batches
    <2>2. a \in [batch : M!Batches, queued : BOOLEAN]
      BY <2>1
    <2>3. a.batch = B /\ ~a.queued
      OBVIOUS
    <2> QED BY <2>2, <2>3
  <1> HIDE DEF a
  <1> QED BY <1>1, <1>2, MetricsTyped DEF Adding, a

LEMMA FundKeeps ==
  ASSUME MetricsInv, NEW e \in M!Events, M!Fund(e)
  PROVE  MetricsInv'
  <1>1. /\ e \in ahead /\ e \in Fundings /\ ahead' = ahead \ {e}
        /\ checking' \in {checking, TRUE}
        /\ UNCHANGED <<buffer, timer, pipelineJobs, dropped, lost, repeatable, backpressured>>
        /\ \/ M!Recorded({e}) /\ UNCHANGED sending
           \/ M!Sent({e}) /\ UNCHANGED counted
    BY DEF M!Fund, M!AsksDepth
  <1>2. /\ sending' \subseteq [batch : M!Batches, queued : BOOLEAN]
        /\ counted' \in [M!Events -> 0..2]
        /\ \A x : x # e => Adding(x)' = Adding(x)
        /\ \A x \in M!Events : x # e => counted'[x] = counted[x]
        /\ \A x : x # e /\ (\A s \in sending : x \notin s.batch) =>
                       \A s \in sending' : x \notin s.batch
    <2>1. CASE M!Recorded({e}) /\ UNCHANGED sending
      BY <2>1, RecordedOnce1, MetricsTyped DEF Adding
    <2>2. CASE M!Sent({e}) /\ UNCHANGED counted
      BY <2>2, SentAdds, MetricsTyped
    <2> QED BY <1>1, <2>1, <2>2
  <1>3. M!MetricsTypeOK'
    <2>1. timer' \in BOOLEAN /\ checking' \in BOOLEAN /\ backpressured' \in BOOLEAN
      BY <1>1, MetricsTyped
    <2> QED BY <1>1, <1>2, <2>1, MetricsTyped DEF M!MetricsTypeOK
  <1>4. \A x : Queued(x)' = Queued(x) /\ (Gone(x)' <=> Gone(x)) /\ (x \in buffer' <=> x \in buffer)
    BY <1>1 DEF Queued, Gone
  <1>5. ASSUME NEW x \in ahead' PROVE Untouched(x)' /\ counted'[x] = 0
    BY <1>1, <1>2, <1>4, MetricsTyped DEF MetricsInv, Untouched
  <1>6. ASSUME NEW x \in M!Events \ (ahead' \cup repeatable') PROVE InOnePlace(x)'
    <2>1. CASE x = e
      <3>1. Untouched(e) /\ counted[e] = 0
        BY <1>1 DEF MetricsInv
      <3>2. CASE M!Recorded({e}) /\ UNCHANGED sending
        <4>1. counted'[e] = 1 /\ Adding(e)' = {}
          BY <3>1, <3>2, RecordedOnce1 DEF Adding, Untouched
        <4> QED BY <1>4, <2>1, <3>1, <4>1 DEF Untouched, InOnePlace, Settled
      <3>3. CASE M!Sent({e}) /\ UNCHANGED counted
        <4>1. Adding(e)' = {[batch |-> {e}, queued |-> FALSE]}
          BY <3>1, <3>3, SentAdds DEF Untouched
        <4> QED BY <1>4, <2>1, <3>1, <3>3, <4>1 DEF Untouched, InOnePlace, BeingSent
      <3> QED BY <1>1, <3>2, <3>3
    <2>2. CASE x # e
      BY <1>1, <1>2, <1>4, <1>6, <2>2, SamePlace DEF MetricsInv
    <2> QED BY <2>1, <2>2
  <1> QED BY <1>3, <1>5, <1>6 DEF MetricsInv

LEMMA FlushKeeps ==
  ASSUME MetricsInv, M!Flush
  PROVE  MetricsInv'
  <1>1. /\ timer' = FALSE /\ buffer' = {}
        /\ UNCHANGED <<ahead, pipelineJobs, backpressured, checking, counted, dropped, lost, repeatable>>
        /\ IF buffer = {} THEN UNCHANGED sending ELSE M!Sent(buffer)
    BY DEF M!Flush, M!pressure, M!history
  <1>2. buffer \in SUBSET M!Events
    BY MetricsTyped DEF M!Events
  <1>3. /\ sending' \subseteq [batch : M!Batches, queued : BOOLEAN]
        /\ \A x : x \notin buffer => Adding(x)' = Adding(x)
        /\ \A x : x \notin buffer /\ (\A s \in sending : x \notin s.batch) =>
                       \A s \in sending' : x \notin s.batch
        /\ \A x : x \in buffer /\ Adding(x) = {} => \E s : Adding(x)' = {s}
    <2>1. CASE buffer = {}
      BY <1>1, <2>1, MetricsTyped DEF Adding
    <2>2. CASE buffer # {}
      BY <1>1, <1>2, <2>2, SentAdds
    <2> QED BY <2>1, <2>2
  <1>4. M!MetricsTypeOK'
    <2>1. timer' \in BOOLEAN /\ checking' \in BOOLEAN /\ backpressured' \in BOOLEAN
      BY <1>1, MetricsTyped
    <2> QED BY <1>1, <1>3, <2>1, MetricsTyped DEF M!MetricsTypeOK
  <1>5. \A x : Queued(x)' = Queued(x) /\ (Gone(x)' <=> Gone(x))
    BY <1>1 DEF Queued, Gone
  <1>6. ASSUME NEW x \in ahead' PROVE Untouched(x)' /\ counted'[x] = 0
    BY <1>1, <1>3, <1>5 DEF MetricsInv, Untouched
  <1>7. ASSUME NEW x \in M!Events \ (ahead' \cup repeatable') PROVE InOnePlace(x)'
    <2>0. InOnePlace(x)
      BY <1>1 DEF MetricsInv
    <2>1. CASE x \in buffer
      <3>1. InBuffer(x)
        BY <2>0, <2>1 DEF InOnePlace, BeingSent, InQueue, GivenUp, Settled
      <3>2. BeingSent(x)'
        BY <1>1, <1>3, <1>5, <2>1, <3>1 DEF InBuffer, BeingSent
      <3> QED BY <3>2, NewPlace
    <2>2. CASE x \notin buffer
      BY <1>1, <1>3, <1>5, <2>0, <2>2, SamePlace
    <2> QED BY <2>1, <2>2
  <1> QED BY <1>4, <1>6, <1>7 DEF MetricsInv

LEMMA RefreshKeeps ==
  ASSUME MetricsInv, M!RefreshBackpressure
  PROVE  MetricsInv'
  <1>1. /\ checking' = FALSE /\ backpressured' \in BOOLEAN
        /\ UNCHANGED <<ahead, buffer, timer, sending, pipelineJobs, counted, dropped, lost, repeatable>>
    <2>1. /\ checking' = FALSE
          /\ backpressured' \in {backpressured, M!Cardinality(M!Waiting) > Threshold}
          /\ UNCHANGED <<ahead, buffer, timer, sending, pipelineJobs, counted, dropped, lost, repeatable>>
      BY DEF M!RefreshBackpressure, M!intake, M!history
    <2>2. \/ backpressured' = backpressured
          \/ backpressured' = (M!Cardinality(M!Waiting) > Threshold)
      BY <2>1, Zenon
    <2>3. CASE backpressured' = backpressured
      BY <2>1, <2>3, MetricsTyped
    <2>4. CASE backpressured' = (M!Cardinality(M!Waiting) > Threshold)
      BY <2>1, <2>4
    <2> QED BY <2>2, <2>3, <2>4
  <1>2. M!MetricsTypeOK'
    <2>1. checking' \in BOOLEAN
      BY <1>1, Zenon
    <2> QED BY <1>1, <2>1, MetricsTyped DEF M!MetricsTypeOK
  <1>3. \A x : Adding(x)' = Adding(x) /\ Queued(x)' = Queued(x) /\ (Gone(x)' <=> Gone(x))
    BY <1>1 DEF Adding, Queued, Gone
  <1>4. ASSUME NEW x \in ahead' PROVE Untouched(x)' /\ counted'[x] = 0
    BY <1>1, <1>3 DEF MetricsInv, Untouched
  <1>5. ASSUME NEW x \in M!Events \ (ahead' \cup repeatable') PROVE InOnePlace(x)'
    BY <1>1, <1>3, SamePlace DEF MetricsInv
  <1> QED BY <1>2, <1>4, <1>5 DEF MetricsInv

\* What a step of the adds, the queue or the worker, which touches no event that has not
\* happened, has to show.
LEMMA LaterStep ==
  ASSUME MetricsInv, M!MetricsTypeOK', ahead' = ahead, repeatable \subseteq repeatable',
         \A x : Untouched(x) /\ counted[x] = 0 => Untouched(x)' /\ counted'[x] = 0,
         \A x \in M!Events : InOnePlace(x) /\ x \notin repeatable' => InOnePlace(x)'
  PROVE  MetricsInv'
  BY DEF MetricsInv

LEMMA QueueKeeps ==
  ASSUME MetricsInv, NEW s \in sending, M!Queue(s)
  PROVE  MetricsInv'
  <1> DEFINE j == [batch |-> s.batch, held |-> FALSE, done |-> FALSE, stalled |-> FALSE]
  <1>0. PICK t : t = [s EXCEPT !.queued = TRUE]
    OBVIOUS
  <1>1. /\ ~s.queued /\ sending' = (sending \ {s}) \cup {t} /\ pipelineJobs' = pipelineJobs \cup {j}
        /\ UNCHANGED <<ahead, buffer, timer, backpressured, checking, counted, dropped, lost, repeatable>>
    BY <1>0 DEF M!Queue, M!intake, M!history, M!pressure
  <1>2. s \in [batch : M!Batches, queued : BOOLEAN] /\ s.batch \in M!Batches
    BY MetricsTyped
  <1>3. t \in [batch : M!Batches, queued : BOOLEAN] /\ t.batch = s.batch /\ t.queued = TRUE
    BY <1>0, <1>2
  <1>4. /\ j \in [batch : M!Batches, held : BOOLEAN, done : BOOLEAN, stalled : BOOLEAN]
        /\ j.batch = s.batch /\ ~j.done
    BY <1>2
  <1> HIDE DEF j
  <1>5. M!MetricsTypeOK'
    BY <1>1, <1>3, <1>4, MetricsTyped DEF M!MetricsTypeOK
  <1>6. \A x : /\ Gone(x)' <=> Gone(x)
               /\ Adding(x)' = Adding(x) \ {s}
               /\ Queued(x)' = IF x \in s.batch THEN Queued(x) \cup {j} ELSE Queued(x)
               /\ x \in s.batch => s \in Adding(x)
               /\ x \notin s.batch => s \notin Adding(x)
    BY <1>1, <1>3, <1>4 DEF Gone, Adding, Queued
  <1>7. \A x : Untouched(x) /\ counted[x] = 0 => Untouched(x)' /\ counted'[x] = 0
    BY <1>1, <1>3, <1>4, <1>6 DEF Untouched
  <1>8. ASSUME NEW x \in M!Events, InOnePlace(x) PROVE InOnePlace(x)'
    <2>1. CASE x \in s.batch
      <3>1. BeingSent(x)
        BY <1>6, <1>8, <2>1 DEF InOnePlace, InBuffer, InQueue, GivenUp, Settled
      <3>2. Adding(x)' = {} /\ Queued(x)' = {j}
        BY <1>6, <2>1, <3>1 DEF BeingSent
      <3>3. InQueue(x)'
        BY <1>1, <1>6, <3>1, <3>2 DEF BeingSent, InQueue
      <3> QED BY <3>3, NewPlace
    <2>2. CASE x \notin s.batch
      BY <1>1, <1>6, <1>8, <2>2, SamePlace
    <2> QED BY <2>1, <2>2
  <1> QED BY <1>1, <1>5, <1>7, <1>8, LaterStep

LEMMA ResolvesKeeps ==
  ASSUME MetricsInv, NEW s \in sending, M!AddResolves(s)
  PROVE  MetricsInv'
  <1>1. /\ s.queued /\ sending' = sending \ {s}
        /\ UNCHANGED <<ahead, buffer, timer, pipelineJobs, backpressured, checking, counted, dropped, lost,
                       repeatable>>
    BY DEF M!AddResolves, M!intake, M!history, M!pressure
  <1>2. M!MetricsTypeOK'
    BY <1>1, MetricsTyped DEF M!MetricsTypeOK
  <1>3. \A x : Adding(x)' = Adding(x) /\ Queued(x)' = Queued(x) /\ (Gone(x)' <=> Gone(x))
    BY <1>1 DEF Adding, Queued, Gone
  <1>4. \A x : Untouched(x) /\ counted[x] = 0 => Untouched(x)' /\ counted'[x] = 0
    BY <1>1, <1>3 DEF Untouched
  <1> QED BY <1>1, <1>2, <1>3, <1>4, SamePlace, LaterStep

LEMMA FailsKeeps ==
  ASSUME MetricsInv, NEW s \in sending, M!AddFails(s)
  PROVE  MetricsInv'
  <1> DEFINE F == s.batch \cap Fundings
             I == s.batch \cap Increments
  <1>1. /\ sending' = sending \ {s} /\ M!Recorded(F)
        /\ lost' = (IF s.queued THEN lost ELSE lost \cup I)
        /\ repeatable' = (IF s.queued THEN repeatable \cup s.batch ELSE repeatable)
        /\ UNCHANGED <<ahead, buffer, timer, pipelineJobs, backpressured, checking, dropped>>
    BY DEF M!AddFails, M!intake, M!pressure
  <1>2. s.batch \subseteq M!Events /\ M!Events = Increments \cup Fundings
    BY MetricsTyped DEF M!Batches, M!Events
  <1>3. /\ counted' \in [M!Events -> 0..2]
        /\ \A e \in M!Events : e \notin F => counted'[e] = counted[e]
        /\ \A e \in M!Events : e \in F /\ counted[e] = 0 => counted'[e] = 1
    BY <1>1, RecordedOnce1
  <1>4. M!MetricsTypeOK'
    BY <1>1, <1>2, <1>3, MetricsTyped DEF M!MetricsTypeOK
  <1>5. \A x : /\ Queued(x)' = Queued(x)
               /\ Adding(x)' = Adding(x) \ {s}
               /\ x \in s.batch /\ ~s.queued => s \in Adding(x)
               /\ x \notin s.batch => s \notin Adding(x) /\ (Gone(x)' <=> Gone(x))
    BY <1>1 DEF Gone, Adding, Queued
  <1>6. ASSUME NEW x \in ahead PROVE Untouched(x)' /\ counted'[x] = 0
    <2>1. Untouched(x) /\ counted[x] = 0 /\ x \in M!Events
      BY MetricsTyped DEF MetricsInv
    <2>2. x \notin s.batch
      BY <2>1 DEF Untouched
    <2> QED BY <1>1, <1>3, <1>5, <2>1, <2>2 DEF Untouched
  <1>7. ASSUME NEW x \in M!Events \ (ahead \cup repeatable') PROVE InOnePlace(x)'
    <2>0. InOnePlace(x)
      BY <1>1 DEF MetricsInv
    <2>1. CASE x \notin s.batch
      BY <1>1, <1>3, <1>5, <2>0, <2>1, SamePlace
    <2>2. CASE x \in s.batch
      <3>1. ~s.queued /\ BeingSent(x)
        BY <1>1, <1>5, <1>7, <2>0, <2>2 DEF InOnePlace, InBuffer, InQueue, GivenUp, Settled
      <3>2. Adding(x)' = {} /\ Queued(x)' = {} /\ x \notin buffer'
        BY <1>1, <1>5, <2>2, <3>1 DEF BeingSent
      <3>3. CASE x \in Fundings
        <4>1. x \notin Increments
          BY <3>3, IncrementsAssumption
        <4>2. counted'[x] = 1 /\ ~Gone(x)'
          BY <1>1, <1>3, <2>2, <3>1, <3>3, <4>1 DEF BeingSent, Gone
        <4> QED BY <3>2, <4>2 DEF InOnePlace, Settled
      <3>4. CASE x \notin Fundings
        <4>1. x \in Increments
          BY <3>4, <1>2
        <4>2. counted'[x] = 0 /\ Gone(x)'
          BY <1>1, <1>3, <2>2, <3>1, <3>4, <4>1 DEF BeingSent, Gone
        <4> QED BY <3>2, <4>2 DEF InOnePlace, GivenUp
      <3> QED BY <3>3, <3>4
    <2> QED BY <2>1, <2>2
  <1> QED BY <1>1, <1>4, <1>6, <1>7 DEF MetricsInv

LEMMA PipelineApiGone ==
  ASSUME MetricsInv, M!RestartApi
  PROVE  MetricsInv'
  <1> DEFINE unsent == UNION {s.batch : s \in {t \in sending : ~t.queued}}
  <1>1. /\ lost' = (lost \cup buffer) \cup unsent
        /\ buffer' = {} /\ timer' = FALSE /\ sending' = {} /\ backpressured' = FALSE /\ checking' = FALSE
        /\ UNCHANGED <<ahead, pipelineJobs, counted, dropped, repeatable>>
    BY DEF M!RestartApi
  <1>2. unsent \subseteq M!Events /\ buffer \subseteq M!Events
    BY MetricsTyped DEF M!Batches, M!Events
  <1>3. \A x : x \in unsent <=> Adding(x) # {}
    BY DEF Adding
  <1> HIDE DEF unsent
  <1>4. M!MetricsTypeOK'
    <2>1. timer' \in BOOLEAN /\ checking' \in BOOLEAN /\ backpressured' \in BOOLEAN
      BY <1>1, Zenon
    <2> QED BY <1>1, <1>2, <2>1, MetricsTyped DEF M!MetricsTypeOK
  <1>5. \A x : /\ Queued(x)' = Queued(x) /\ Adding(x)' = {} /\ x \notin buffer'
               /\ Gone(x)' <=> (Gone(x) \/ x \in buffer \/ Adding(x) # {})
    BY <1>1, <1>3 DEF Gone, Adding, Queued
  <1>6. \A x : Untouched(x) /\ counted[x] = 0 => Untouched(x)' /\ counted'[x] = 0
    BY <1>1, <1>5 DEF Untouched
  <1>7. \A x \in M!Events : InOnePlace(x) => InOnePlace(x)'
    BY <1>1, <1>5 DEF InOnePlace, InBuffer, BeingSent, InQueue, GivenUp, Settled
  <1> QED BY <1>1, <1>4, <1>6, <1>7, LaterStep

\* A step of the worker on one job.
LEMMA JobStepKeeps ==
  ASSUME MetricsInv, NEW j \in pipelineJobs, M!Take(j) \/ M!Process(j) \/ M!Complete(j)
  PROVE  MetricsInv'
  <1>0. /\ j \in [batch : M!Batches, held : BOOLEAN, done : BOOLEAN, stalled : BOOLEAN]
        /\ j.batch \subseteq M!Events
    BY MetricsTyped DEF M!Batches
  <1>1. UNCHANGED <<ahead, buffer, timer, sending, backpressured, checking, dropped, lost, repeatable>>
    BY DEF M!Take, M!Process, M!Complete, M!intake, M!pressure, M!history
  <1>2. \A x : Adding(x)' = Adding(x) /\ (Gone(x)' <=> Gone(x))
    BY <1>1 DEF Adding, Gone
  <1>3. CASE M!Take(j)
    <2>1. PICK k : k = [j EXCEPT !.held = TRUE]
      OBVIOUS
    <2>2. pipelineJobs' = (pipelineJobs \ {j}) \cup {k} /\ counted' = counted
      BY <1>3, <2>1 DEF M!Take, M!Became, M!history
    <2>3. /\ k \in [batch : M!Batches, held : BOOLEAN, done : BOOLEAN, stalled : BOOLEAN]
          /\ k.batch = j.batch /\ k.done = j.done
      BY <1>0, <2>1
    <2>4. M!MetricsTypeOK'
      BY <1>1, <2>2, <2>3, MetricsTyped DEF M!MetricsTypeOK
    <2>5. \A x : Queued(x)' = IF j \in Queued(x) THEN (Queued(x) \ {j}) \cup {k} ELSE Queued(x)
      BY <2>2, <2>3 DEF Queued
    <2>6. \A x : Untouched(x) /\ counted[x] = 0 => Untouched(x)' /\ counted'[x] = 0
      BY <1>1, <1>2, <2>2, <2>3, <2>5 DEF Untouched
    <2>7. ASSUME NEW x \in M!Events, InOnePlace(x) PROVE InOnePlace(x)'
      <3>1. CASE j \in Queued(x)
        <4>1. InQueue(x)
          BY <2>7, <3>1 DEF InOnePlace, InBuffer, BeingSent, GivenUp, Settled
        <4>2. Queued(x)' = {k}
          BY <2>5, <3>1, <4>1 DEF InQueue
        <4> QED BY <1>1, <1>2, <2>2, <4>1, <4>2 DEF InOnePlace, InQueue
      <3>2. CASE j \notin Queued(x)
        BY <1>1, <1>2, <2>2, <2>5, <2>7, <3>2, SamePlace
      <3> QED BY <3>1, <3>2
    <2> QED BY <1>1, <2>4, <2>6, <2>7, LaterStep
  <1>4. CASE M!Process(j)
    <2>1. PICK k : k = [j EXCEPT !.done = TRUE]
      OBVIOUS
    <2>2. pipelineJobs' = (pipelineJobs \ {j}) \cup {k} /\ M!Recorded(j.batch) /\ ~j.done
      BY <1>4, <2>1 DEF M!Process, M!Became
    <2>3. /\ k \in [batch : M!Batches, held : BOOLEAN, done : BOOLEAN, stalled : BOOLEAN]
          /\ k.batch = j.batch /\ k.done = TRUE
      BY <1>0, <2>1
    <2>4. /\ counted' \in [M!Events -> 0..2]
          /\ \A e \in M!Events : e \notin j.batch => counted'[e] = counted[e]
          /\ \A e \in M!Events : e \in j.batch /\ counted[e] = 0 => counted'[e] = 1
      BY <2>2, RecordedOnce1
    <2>5. M!MetricsTypeOK'
      BY <1>1, <2>2, <2>3, <2>4, MetricsTyped DEF M!MetricsTypeOK
    <2>6. \A x : Queued(x)' = Queued(x) \ {j} /\ (j \in Queued(x) <=> x \in j.batch)
      BY <2>2, <2>3 DEF Queued
    <2>7. ASSUME NEW x \in ahead PROVE Untouched(x)' /\ counted'[x] = 0
      <3>1. Untouched(x) /\ counted[x] = 0 /\ x \in M!Events
        BY MetricsTyped DEF MetricsInv
      <3> QED BY <1>1, <1>2, <2>2, <2>3, <2>4, <2>6, <3>1 DEF Untouched
    <2>8. ASSUME NEW x \in M!Events \ (ahead \cup repeatable) PROVE InOnePlace(x)'
      <3>0. InOnePlace(x)
        BY DEF MetricsInv
      <3>1. CASE x \in j.batch
        <4>1. InQueue(x)
          BY <2>6, <3>0, <3>1 DEF InOnePlace, InBuffer, BeingSent, GivenUp, Settled
        <4>2. Queued(x)' = {} /\ counted'[x] = 1
          BY <2>4, <2>6, <3>1, <4>1 DEF InQueue
        <4> QED BY <1>1, <1>2, <4>1, <4>2 DEF InOnePlace, InQueue, Settled
      <3>2. CASE x \notin j.batch
        BY <1>1, <1>2, <2>4, <2>6, <3>0, <3>2, SamePlace
      <3> QED BY <3>1, <3>2
    <2> QED BY <1>1, <2>5, <2>7, <2>8 DEF MetricsInv
  <1>5. CASE M!Complete(j)
    <2>1. pipelineJobs' = pipelineJobs \ {j} /\ j.done /\ counted' = counted
      BY <1>5 DEF M!Complete, M!history
    <2>2. M!MetricsTypeOK'
      BY <1>1, <2>1, MetricsTyped DEF M!MetricsTypeOK
    <2>3. \A x : Queued(x)' = Queued(x)
      BY <2>1 DEF Queued
    <2>4. \A x : Untouched(x) /\ counted[x] = 0 => Untouched(x)' /\ counted'[x] = 0
      BY <1>1, <1>2, <2>1, <2>3 DEF Untouched
    <2> QED BY <1>1, <1>2, <2>1, <2>2, <2>3, <2>4, SamePlace, LaterStep
  <1> QED BY <1>3, <1>4, <1>5

\* A worker that is gone: a job it had processed may be processed again, and one handed out
\* twice before is given up.
HandedOut(j) == [j EXCEPT !.held = FALSE, !.done = FALSE, !.stalled = TRUE]

LEMMA PipelineWorkerGone ==
  ASSUME MetricsInv, M!RestartWorker
  PROVE  MetricsInv'
  <1> DEFINE held   == {j \in pipelineJobs : j.held}
             given  == {j \in held : j.stalled}
             undone == UNION {j.batch : j \in {i \in given : ~i.done}}
             twice  == UNION {j.batch : j \in {i \in held : i.done}}
             free   == {j \in pipelineJobs : ~j.held}
             again  == {HandedOut(j) : j \in held \ given}
  <1>1. /\ pipelineJobs' = free \cup again
        /\ lost' = lost \cup undone /\ repeatable' = repeatable \cup twice
        /\ UNCHANGED <<ahead, buffer, timer, sending, backpressured, checking, counted, dropped>>
    <2>1. M!Waiting = free /\ pipelineJobs \ M!Waiting = held
      BY DEF M!Waiting
    <2> QED BY <2>1 DEF M!RestartWorker, M!intake, M!pressure, HandedOut
  <1>2. \A j \in pipelineJobs :
            j \in [batch : M!Batches, held : BOOLEAN, done : BOOLEAN, stalled : BOOLEAN]
            /\ j.batch \subseteq M!Events
    BY MetricsTyped DEF M!Batches
  <1>3. ASSUME NEW j \in pipelineJobs
        PROVE  /\ HandedOut(j) \in [batch : M!Batches, held : BOOLEAN, done : BOOLEAN, stalled : BOOLEAN]
               /\ HandedOut(j).batch = j.batch /\ ~HandedOut(j).done
    <2>1. j \in [batch : M!Batches, held : BOOLEAN, done : BOOLEAN, stalled : BOOLEAN]
      BY <1>2
    <2> QED BY <2>1 DEF HandedOut
  <1>4. undone \subseteq M!Events /\ twice \subseteq M!Events
    BY <1>2
  <1>5. \A x : x \in undone <=> \E j \in pipelineJobs : j.held /\ j.stalled /\ ~j.done /\ x \in j.batch
    OBVIOUS
  <1>6. \A x : x \in twice <=> \E j \in pipelineJobs : j.held /\ j.done /\ x \in j.batch
    OBVIOUS
  <1>7. \A k : k \in pipelineJobs' <=> \/ k \in pipelineJobs /\ ~k.held
                                       \/ \E j \in pipelineJobs : j.held /\ ~j.stalled /\ k = HandedOut(j)
    BY <1>1
  <1> HIDE DEF held, given, undone, twice, free, again
  <1>8. pipelineJobs' \subseteq [batch : M!Batches, held : BOOLEAN, done : BOOLEAN, stalled : BOOLEAN]
    BY <1>2, <1>3, <1>7
  <1>9. M!MetricsTypeOK'
    BY <1>1, <1>4, <1>8, MetricsTyped DEF M!MetricsTypeOK
  <1>10. \A x : Adding(x)' = Adding(x)
    BY <1>1 DEF Adding
  <1>11. \A x : Gone(x)' <=> (Gone(x) \/ x \in undone)
    BY <1>1 DEF Gone
  <1>12. \A x, k : k \in Queued(x)' <=>
             \/ k \in Queued(x) /\ ~k.held
             \/ \E j \in pipelineJobs : j.held /\ ~j.stalled /\ x \in j.batch /\ k = HandedOut(j)
    BY <1>3, <1>7 DEF Queued
  <1>13. \A x : Untouched(x) /\ counted[x] = 0 => Untouched(x)' /\ counted'[x] = 0
    <2> SUFFICES ASSUME NEW x, Untouched(x), counted[x] = 0
                 PROVE  Untouched(x)' /\ counted'[x] = 0
      OBVIOUS
    <2>1. \A j \in pipelineJobs : x \notin j.batch
      BY DEF Untouched
    <2>2. Queued(x)' = {}
      BY <1>12, <2>1 DEF Untouched
    <2>3. x \notin undone
      BY <1>5, <2>1
    <2>4. \A k \in pipelineJobs' : x \notin k.batch
      BY <1>3, <1>7, <2>1
    <2> QED BY <1>1, <1>10, <1>11, <2>2, <2>3, <2>4 DEF Untouched
  <1>14. ASSUME NEW x \in M!Events, InOnePlace(x), x \notin repeatable'
         PROVE  InOnePlace(x)'
    <2>1. \A j \in pipelineJobs : j.held /\ x \in j.batch => j \in Queued(x)
      BY <1>1, <1>6, <1>14 DEF Queued
    <2>2. CASE Queued(x) = {}
      <3>1. Queued(x)' = {}
        BY <1>12, <2>1, <2>2
      <3>2. x \notin undone
        BY <1>5, <2>1, <2>2
      <3> QED BY <1>1, <1>10, <1>11, <1>14, <2>2, <3>1, <3>2, SamePlace
    <2>3. CASE Queued(x) # {}
      <3>1. InQueue(x)
        BY <1>14, <2>3 DEF InOnePlace, InBuffer, BeingSent, GivenUp, Settled
      <3>2. PICK j : Queued(x) = {j}
        BY <3>1 DEF InQueue
      <3>3. j \in pipelineJobs /\ x \in j.batch /\ ~j.done
        BY <3>2 DEF Queued
      <3>4. \A i \in pipelineJobs : i.held /\ x \in i.batch => i = j
        BY <2>1, <3>2
      <3>5. CASE ~j.held
        <4>1. Queued(x)' = {j}
          BY <1>12, <3>2, <3>4, <3>5
        <4>2. x \notin undone
          BY <1>5, <3>4, <3>5
        <4> QED BY <1>1, <1>10, <1>11, <1>14, <3>2, <4>1, <4>2, SamePlace
      <3>6. CASE j.held /\ j.stalled
        <4>1. Queued(x)' = {}
          BY <1>12, <3>2, <3>4, <3>6
        <4>2. x \in undone
          BY <1>5, <3>3, <3>6
        <4>3. GivenUp(x)'
          BY <1>1, <1>10, <1>11, <3>1, <4>1, <4>2 DEF InQueue, GivenUp
        <4> QED BY <4>3, NewPlace
      <3>7. CASE j.held /\ ~j.stalled
        <4>1. Queued(x)' = {HandedOut(j)}
          BY <1>12, <3>2, <3>3, <3>4, <3>7
        <4>2. x \notin undone
          BY <1>5, <3>4, <3>7
        <4>3. InQueue(x)'
          BY <1>1, <1>10, <1>11, <3>1, <4>1, <4>2 DEF InQueue
        <4> QED BY <4>3, NewPlace
      <3> QED BY <3>5, <3>6, <3>7
    <2> QED BY <2>2, <2>3
  <1>15. repeatable \subseteq repeatable'
    BY <1>1
  <1> QED BY <1>1, <1>9, <1>13, <1>14, <1>15, LaterStep

LEMMA MetricsKeep ==
  ASSUME MetricsInv, M!Next
  PROVE  MetricsInv'
  BY IncrementKeeps, FundKeeps, FlushKeeps, RefreshKeeps, QueueKeeps, ResolvesKeeps, FailsKeeps,
     PipelineApiGone, JobStepKeeps, PipelineWorkerGone DEF M!Next, M!ApiStep, M!WorkerStep

LEMMA MetricsStart ==
  ASSUME M!Init
  PROVE  MetricsInv
  <1>1. /\ ahead = M!Events /\ buffer = {} /\ timer = FALSE /\ sending = {} /\ pipelineJobs = {}
        /\ backpressured = FALSE /\ checking = FALSE /\ counted = [e \in M!Events |-> 0]
        /\ dropped = {} /\ lost = {} /\ repeatable = {}
    BY DEF M!Init
  <1>2. timer \in BOOLEAN /\ backpressured \in BOOLEAN /\ checking \in BOOLEAN
    BY <1>1, Zenon
  <1>3. M!MetricsTypeOK
    BY <1>1, <1>2 DEF M!MetricsTypeOK
  <1>4. \A e \in M!Events : Untouched(e) /\ counted[e] = 0
    BY <1>1 DEF Untouched, Adding, Queued, Gone
  <1> QED BY <1>1, <1>3, <1>4 DEF MetricsInv

LEMMA MetricsRest ==
  ASSUME MetricsInv, UNCHANGED pipelineVars
  PROVE  MetricsInv'
  <1>1. UNCHANGED <<ahead, buffer, timer, sending, pipelineJobs, backpressured, checking,
                    counted, dropped, lost, repeatable>>
    BY DEF pipelineVars
  <1>2. M!MetricsTypeOK'
    BY <1>1 DEF MetricsInv, M!MetricsTypeOK
  <1>3. \A x : Adding(x)' = Adding(x) /\ Queued(x)' = Queued(x) /\ (Gone(x)' <=> Gone(x))
    BY <1>1 DEF Adding, Queued, Gone
  <1>4. \A x : Untouched(x) /\ counted[x] = 0 => Untouched(x)' /\ counted'[x] = 0
    BY <1>1, <1>3 DEF Untouched
  <1>5. \A x \in M!Events : InOnePlace(x) /\ x \notin repeatable' => InOnePlace(x)'
    BY <1>1, <1>3, SamePlace
  <1> QED BY <1>1, <1>2, <1>4, <1>5, LaterStep

\* Of the queue async-pipeline: an analytics increment or a funding is counted once, through
\* the buffer, the adds that await Redis, failures and restarts, whatever the sets of events
\* and the backpressure threshold (asyncPipeline.ts).
THEOREM EachEventCounted == Serving => []EventsAreCounted
  <1>1. Serves => MetricsInv
    BY MetricsStart DEF Serves
  <1>2. MetricsInv /\ [Step]_<<queue, vars, pipelineVars>> => MetricsInv'
    BY MetricsKeep, MetricsRest DEF Step
  <1>3. MetricsInv => EventsAreCounted
    BY OnePlaceCounts DEF MetricsInv, EventsAreCounted, M!CountedOnce
  <1> QED BY <1>1, <1>2, <1>3, PTL DEF Serving

-------------------------------------------------------------------------------
(* The events of AuditTrail *)
\* The chain of a process is linked and numbered, and its checkpoints, recorded or being
\* published, are of entries it has.
ChainOK(p) ==
    /\ chain[p] \in Seq(Entry)
    /\ \A i \in 1..Len(chain[p]) :
           /\ chain[p][i].sequence = i
           /\ chain[p][i].previous = IF i = 1 THEN Genesis ELSE chain[p][i - 1].id
    /\ \A c \in checkpoints[p] : c.sequence \in 1..Len(chain[p]) /\ c.hash = chain[p][c.sequence].id
    /\ \A x \in publishing[p] : x.sequence \in 1..Len(chain[p]) /\ chain[p][x.sequence] = x

ChainsInv ==
    /\ AuditTypeOK
    /\ chain \in [Procs -> Seq(Entry)]
    /\ publishing \in [Procs -> SUBSET Entry]
    /\ checkpoints \in [Procs -> SUBSET Checkpoint]
    /\ \A p \in Procs : ChainOK(p)

\* Where event e is: with an enqueue of process p, in the queue, with worker p, or entry i of
\* the chain of p.
InChain(e, p, i) == p \in Procs /\ i \in 1..Len(chain[p]) /\ chain[p][i].event = e

At(e, k, p, i) ==
    \/ k = "enqueuing" /\ p \in Apis /\ i = 0 /\ e \in enqueuing[p]
    \/ k = "waiting" /\ p = "redis" /\ i = 0 /\ e \in waiting
    \/ k = "active" /\ p \in Workers /\ i = 0 /\ e \in active[p]
    \/ k = "chain" /\ InChain(e, p, i)

InOne(e) == \A k, l, p, q, i, j : At(e, k, p, i) /\ At(e, l, q, j) => k = l /\ p = q /\ i = j
Nowhere(e) == \A k, p, i : ~At(e, k, p, i)

\* An event that was handed over once is in one place at most, and before that in none; one
\* that was emitted is somewhere, given up or no longer remembered.
Followed(e) == e \notin handedTwice \cup unremembered => InOne(e) /\ (e \in fresh => Nowhere(e))
Kept(e) == (\E k, p, i : At(e, k, p, i)) \/ e \in failed \/ e \in unremembered

AuditInv ==
    /\ ChainsInv
    /\ \A e \in Audited : Followed(e)
    /\ \A e \in Audited \ fresh : Kept(e)

LEMMA ChainsSound == ASSUME ChainsInv PROVE ChainsVerify
  <1> SUFFICES ASSUME NEW p \in Procs, NEW i \in DOMAIN chain[p]
               PROVE  /\ chain[p][i].previous = IF i = 1 THEN Genesis ELSE chain[p][i - 1].id
                      /\ \A cp \in checkpoints[p] : cp.sequence = chain[p][i].sequence => cp.hash = chain[p][i].id
    BY DEF ChainsVerify, Verifies
  <1>1. i \in 1..Len(chain[p])
    BY DEF ChainsInv, ChainOK
  <1> QED BY <1>1 DEF ChainsInv, ChainOK

LEMMA AuditSound == ASSUME AuditInv PROVE Accounted
  <1>1. \A p \in Procs : chain[p] \in Seq(Entry) /\ DOMAIN chain[p] = 1..Len(chain[p])
    BY DEF AuditInv, ChainsInv, ChainOK
  <1>2. NothingLost
    <2> DEFINE sent == UNION {enqueuing[p] : p \in Apis}
               taken == UNION {active[w] : w \in Workers}
               logged == UNION {EventsIn(chain[p]) : p \in Procs}
    <2> SUFFICES Emitted \subseteq sent \cup waiting \cup failed \cup taken \cup logged \cup unremembered
      BY Zenon DEF NothingLost
    <2> HIDE DEF sent, taken, logged
    <2> SUFFICES ASSUME NEW e \in Audited \ fresh
                 PROVE  e \in sent \cup waiting \cup failed \cup taken \cup logged \cup unremembered
      BY DEF Emitted
    <2>1. Kept(e)
      BY DEF AuditInv
    <2>2. ASSUME NEW p, NEW i, InChain(e, p, i) PROVE e \in logged
      <3>1. p \in Procs /\ i \in DOMAIN chain[p] /\ chain[p][i].event = e
        BY <1>1, <2>2 DEF InChain
      <3>2. e \in EventsIn(chain[p])
        BY <3>1 DEF EventsIn
      <3> QED BY <3>1, <3>2 DEF logged
    <2>3. \A p \in Apis : e \in enqueuing[p] => e \in sent
      BY DEF sent
    <2>4. \A w \in Workers : e \in active[w] => e \in taken
      BY DEF taken
    <2> QED BY <2>1, <2>2, <2>3, <2>4 DEF Kept, At
  <1>3. RecordedOnce
    <2> SUFFICES ASSUME NEW p \in Procs, NEW q \in Procs,
                        NEW i \in DOMAIN chain[p], NEW j \in DOMAIN chain[q],
                        chain[p][i].event = chain[q][j].event,
                        chain[p][i].event \notin handedTwice \cup unremembered
                 PROVE  p = q /\ i = j
      BY DEF RecordedOnce
    <2>1. i \in 1..Len(chain[p]) /\ j \in 1..Len(chain[q])
      BY <1>1
    <2>2. PICK e : e = chain[p][i].event
      OBVIOUS
    <2>3. e \in Audited
      <3>1. chain[p] \in Seq(Entry) /\ i \in 1..Len(chain[p])
        BY <1>1, <2>1
      <3>2. chain[p][i] \in Entry
        BY <3>1
      <3> QED BY <2>2, <3>2 DEF Entry
    <2>4. At(e, "chain", p, i) /\ At(e, "chain", q, j)
      BY <2>1, <2>2 DEF At, InChain
    <2> QED BY <2>2, <2>3, <2>4 DEF AuditInv, Followed, InOne
  <1> QED BY <1>2, <1>3 DEF AuditInv, ChainsInv, Accounted

\* What an append does to the log.
LEMMA AppendIs ==
  ASSUME ChainsInv, NEW p \in Procs, NEW e \in Audited, Append_(p, e)
  PROVE  /\ chain' \in [Procs -> Seq(Entry)]
         /\ \A q \in Procs : q # p => chain'[q] = chain[q]
         /\ Len(chain'[p]) = Len(chain[p]) + 1 /\ Len(chain[p]) \in Nat
         /\ \A i \in 1..Len(chain[p]) : chain'[p][i] = chain[p][i]
         /\ LET entry == chain'[p][Len(chain[p]) + 1]
            IN  /\ entry \in Entry /\ entry.event = e /\ entry.sequence = Len(chain[p]) + 1
                /\ entry.previous = (IF Len(chain[p]) = 0 THEN Genesis ELSE chain[p][Len(chain[p])].id)
                /\ saving' = saving \cup {entry}
                /\ publishing' \in {publishing, [publishing EXCEPT ![p] = @ \cup {entry}]}
         /\ nextId' \in Nat
  <1> DEFINE last == Len(chain[p])
             entry == [sequence |-> last + 1, id |-> nextId + 1, event |-> e,
                       previous |-> IF last = 0 THEN Genesis ELSE chain[p][last].id]
  <1>1. chain[p] \in Seq(Entry) /\ chain \in [Procs -> Seq(Entry)] /\ last \in Nat /\ nextId \in Nat
    BY DEF ChainsInv, AuditTypeOK
  <1>2. (IF last = 0 THEN Genesis ELSE chain[p][last].id) \in Nat
    <2>1. last # 0 => chain[p][last] \in Entry
      BY <1>1
    <2> QED BY <2>1 DEF Entry, Genesis
  <1>3. entry \in Entry
    BY <1>1, <1>2 DEF Entry
  <1>4. /\ entry.event = e /\ entry.sequence = last + 1
        /\ entry.previous = (IF last = 0 THEN Genesis ELSE chain[p][last].id)
    OBVIOUS
  <1>5. /\ chain' = [chain EXCEPT ![p] = Append(@, entry)]
        /\ saving' = saving \cup {entry} /\ nextId' = nextId + 1
        /\ publishing' \in {publishing, [publishing EXCEPT ![p] = @ \cup {entry}]}
    BY DEF Append_
  <1> HIDE DEF entry
  <1>6. /\ Append(chain[p], entry) \in Seq(Entry) /\ Len(Append(chain[p], entry)) = last + 1
        /\ Append(chain[p], entry)[last + 1] = entry
        /\ \A i \in 1..last : Append(chain[p], entry)[i] = chain[p][i]
    BY <1>1, <1>3
  <1>7. /\ chain' \in [Procs -> Seq(Entry)] /\ chain'[p] = Append(chain[p], entry)
        /\ \A q \in Procs : q # p => chain'[q] = chain[q]
    BY <1>1, <1>5, <1>6
  <1>8. chain'[p][last + 1] = entry
    BY <1>6, <1>7
  <1>9. nextId' \in Nat
    BY <1>1, <1>5
  <1> HIDE DEF last
  <1> QED BY <1>1, <1>3, <1>4, <1>5, <1>6, <1>7, <1>8, <1>9 DEF last

\* An append keeps every chain linked and its checkpoints of its entries.
LEMMA AppendKeepsChains ==
  ASSUME ChainsInv, NEW p \in Procs, NEW e \in Audited, Append_(p, e), UNCHANGED checkpoints
  PROVE  /\ chain' \in [Procs -> Seq(Entry)] /\ publishing' \in [Procs -> SUBSET Entry]
         /\ saving' \subseteq Entry /\ nextId' \in Nat
         /\ \A q \in Procs : ChainOK(q)'
  <1>1. PICK n : n = Len(chain[p])
    OBVIOUS
  <1>2. PICK entry : entry = chain'[p][n + 1]
    OBVIOUS
  <1>3. /\ chain' \in [Procs -> Seq(Entry)] /\ nextId' \in Nat
        /\ \A q \in Procs : q # p => chain'[q] = chain[q]
        /\ Len(chain'[p]) = n + 1 /\ n \in Nat
        /\ \A i \in 1..n : chain'[p][i] = chain[p][i]
        /\ entry \in Entry /\ entry.sequence = n + 1 /\ saving' = saving \cup {entry}
        /\ entry.previous = (IF n = 0 THEN Genesis ELSE chain[p][n].id)
        /\ publishing' \in {publishing, [publishing EXCEPT ![p] = @ \cup {entry}]}
    BY <1>1, <1>2, AppendIs
  <1>4. /\ publishing' \in [Procs -> SUBSET Entry]
        /\ \A q \in Procs : q # p => publishing'[q] = publishing[q]
        /\ publishing'[p] \subseteq publishing[p] \cup {entry}
    BY <1>3 DEF ChainsInv
  <1>5. saving' \subseteq Entry
    BY <1>3 DEF ChainsInv, AuditTypeOK
  <1>6. ASSUME NEW q \in Procs PROVE ChainOK(q)'
    <2>1. CASE q # p
      <3>1. chain'[q] = chain[q] /\ publishing'[q] = publishing[q] /\ checkpoints'[q] = checkpoints[q]
        BY <1>3, <1>4, <2>1
      <3> QED BY <3>1 DEF ChainsInv, ChainOK
    <2>2. CASE q = p
      <3>1. chain'[p] \in Seq(Entry) /\ ChainOK(p)
        BY <1>3 DEF ChainsInv
      <3>2. ASSUME NEW i \in 1..Len(chain'[p])
            PROVE  /\ chain'[p][i].sequence = i
                   /\ chain'[p][i].previous = IF i = 1 THEN Genesis ELSE chain'[p][i - 1].id
        <4>1. CASE i \in 1..n
          <5>1. chain'[p][i] = chain[p][i] /\ (i # 1 => chain'[p][i - 1] = chain[p][i - 1])
            BY <1>3, <4>1
          <5>2. /\ chain[p][i].sequence = i
                /\ chain[p][i].previous = IF i = 1 THEN Genesis ELSE chain[p][i - 1].id
            BY <1>1, <3>1, <4>1 DEF ChainOK
          <5> QED BY <5>1, <5>2
        <4>2. CASE i = n + 1
          <5>1. n # 0 => chain'[p][n] = chain[p][n]
            BY <1>3
          <5>2. i - 1 = n /\ (i = 1 <=> n = 0)
            BY <1>3, <4>2
          <5> QED BY <1>2, <1>3, <4>2, <5>1, <5>2
        <4>3. i \in 1..n \/ i = n + 1
          BY <1>3
        <4> QED BY <4>1, <4>2, <4>3
      <3>3. ASSUME NEW c \in checkpoints'[p]
            PROVE  c.sequence \in 1..Len(chain'[p]) /\ c.hash = chain'[p][c.sequence].id
        <4>1. c.sequence \in 1..n /\ c.hash = chain[p][c.sequence].id
          BY <1>1, <3>1 DEF ChainOK
        <4> QED BY <1>3, <4>1
      <3>4. ASSUME NEW x \in publishing'[p]
            PROVE  x.sequence \in 1..Len(chain'[p]) /\ chain'[p][x.sequence] = x
        <4>1. CASE x = entry
          BY <1>2, <1>3, <4>1
        <4>2. CASE x \in publishing[p]
          <5>1. x.sequence \in 1..n /\ chain[p][x.sequence] = x
            BY <1>1, <3>1, <4>2 DEF ChainOK
          <5> QED BY <1>3, <5>1
        <4> QED BY <1>4, <4>1, <4>2
      <3> QED BY <2>2, <3>1, <3>2, <3>3, <3>4 DEF ChainOK
    <2> QED BY <2>1, <2>2
  <1> QED BY <1>3, <1>4, <1>5, <1>6

\* What an append does to the places: event e is one entry further in the chain of p.
LEMMA AppendAt ==
  ASSUME ChainsInv, NEW p \in Procs, NEW e \in Audited, Append_(p, e)
  PROVE  \A x, q, i : InChain(x, q, i)' <=>
             InChain(x, q, i) \/ (x = e /\ q = p /\ i = Len(chain[p]) + 1)
  <1>1. PICK n : n = Len(chain[p])
    OBVIOUS
  <1>2. /\ \A q \in Procs : q # p => chain'[q] = chain[q]
        /\ Len(chain'[p]) = n + 1 /\ n \in Nat
        /\ \A i \in 1..n : chain'[p][i] = chain[p][i]
        /\ chain'[p][n + 1].event = e
    BY <1>1, AppendIs
  <1> SUFFICES ASSUME NEW x, NEW q, NEW i
               PROVE  InChain(x, q, i)' <=> InChain(x, q, i) \/ (x = e /\ q = p /\ i = n + 1)
    BY <1>1
  <1>3. CASE q # p
    BY <1>2, <1>3 DEF InChain
  <1>4. CASE q = p
    <2>1. i \in 1..(n + 1) <=> i \in 1..n \/ i = n + 1
      BY <1>2
    <2> QED BY <1>1, <1>2, <1>4, <2>1 DEF InChain
  <1> QED BY <1>3, <1>4

LEMMA SameChains ==
  ASSUME ChainsInv, UNCHANGED <<chain, checkpoints, publishing>>
  PROVE  /\ chain' \in [Procs -> Seq(Entry)]
         /\ publishing' \in [Procs -> SUBSET Entry]
         /\ checkpoints' \in [Procs -> SUBSET Checkpoint]
         /\ \A q \in Procs : ChainOK(q)'
  BY DEF ChainsInv, ChainOK

\* What a process remembers of the log after a restart: nothing.
LEMMA ForgetKeepsChains ==
  ASSUME ChainsInv, NEW p \in Procs, Forget(p)
  PROVE  /\ chain' \in [Procs -> Seq(Entry)]
         /\ publishing' \in [Procs -> SUBSET Entry]
         /\ checkpoints' \in [Procs -> SUBSET Checkpoint]
         /\ \A q \in Procs : ChainOK(q)'
         /\ \A x, q, i : InChain(x, q, i)' <=> InChain(x, q, i) /\ q # p
  <1>1. /\ chain' = [chain EXCEPT ![p] = <<>>] /\ checkpoints' = [checkpoints EXCEPT ![p] = {}]
        /\ publishing' = [publishing EXCEPT ![p] = {}]
    BY DEF Forget
  <1>2. <<>> \in Seq(Entry) /\ Len(<<>>) = 0
    OBVIOUS
  <1>3. /\ chain' \in [Procs -> Seq(Entry)] /\ chain'[p] = <<>>
        /\ publishing' \in [Procs -> SUBSET Entry] /\ publishing'[p] = {}
        /\ checkpoints' \in [Procs -> SUBSET Checkpoint] /\ checkpoints'[p] = {}
        /\ \A q \in Procs : q # p => /\ chain'[q] = chain[q] /\ publishing'[q] = publishing[q]
                                     /\ checkpoints'[q] = checkpoints[q]
    BY <1>1, <1>2 DEF ChainsInv
  <1>4. ASSUME NEW q \in Procs PROVE ChainOK(q)'
    <2>1. CASE q = p
      BY <1>2, <1>3, <2>1 DEF ChainOK
    <2>2. CASE q # p
      BY <1>3, <2>2 DEF ChainsInv, ChainOK
    <2> QED BY <2>1, <2>2
  <1>5. \A x, q, i : InChain(x, q, i)' <=> InChain(x, q, i) /\ q # p
    <2>1. \A i : i \notin 1..Len(chain'[p])
      BY <1>2, <1>3
    <2> QED BY <1>3, <2>1 DEF InChain
  <1> QED BY <1>3, <1>4, <1>5

\* The rest of the typing.
LEMMA AuditTyped ==
  ASSUME ChainsInv
  PROVE  /\ enabled \in BOOLEAN /\ fresh \subseteq Audited
         /\ enqueuing \in [Apis -> SUBSET Audited]
         /\ waiting \subseteq Audited /\ stalled \subseteq Audited /\ failed \subseteq Audited
         /\ active \in [Workers -> SUBSET Audited] /\ appended \in [Workers -> SUBSET Audited]
         /\ saving \subseteq Entry /\ rows \subseteq Entry
         /\ nextId \in Nat /\ auditRestarts \in 0..MaxAuditRestarts /\ forced \in 0..MaxForced
         /\ unremembered \subseteq Audited /\ handedTwice \subseteq Audited
  BY DEF ChainsInv, AuditTypeOK

LEMMA ChainsTyped ==
  ASSUME chain' \in [Procs -> Seq(Entry)], publishing' \in [Procs -> SUBSET Entry],
         checkpoints' \in [Procs -> SUBSET Checkpoint], \A q \in Procs : ChainOK(q)',
         enabled' \in BOOLEAN, fresh' \subseteq Audited,
         enqueuing' \in [Apis -> SUBSET Audited],
         waiting' \subseteq Audited, stalled' \subseteq Audited, failed' \subseteq Audited,
         active' \in [Workers -> SUBSET Audited], appended' \in [Workers -> SUBSET Audited],
         saving' \subseteq Entry, rows' \subseteq Entry,
         nextId' \in Nat, auditRestarts' \in 0..MaxAuditRestarts, forced' \in 0..MaxForced,
         unremembered' \subseteq Audited, handedTwice' \subseteq Audited
  PROVE  ChainsInv'
  <1>1. \A p \in Procs : \A i \in DOMAIN chain'[p] : chain'[p][i] \in Entry
    <2> SUFFICES ASSUME NEW p \in Procs, NEW i \in DOMAIN chain'[p] PROVE chain'[p][i] \in Entry
      OBVIOUS
    <2>1. chain'[p] \in Seq(Entry)
      OBVIOUS
    <2> QED BY <2>1
  <1>2. AuditTypeOK'
    BY <1>1 DEF AuditTypeOK
  <1> QED BY <1>2 DEF ChainsInv

\* Event e, and nothing else, goes from one place to another.
Goes(e, k, p, i, l, q, j) ==
    /\ At(e, k, p, i)
    /\ \A x, m, r, n : At(x, m, r, n)' <=>
           \/ At(x, m, r, n) /\ ~(x = e /\ m = k /\ r = p /\ n = i)
           \/ x = e /\ m = l /\ r = q /\ n = j

LEMMA PlaceMoved ==
  ASSUME AuditInv, ChainsInv', fresh' = fresh, failed' = failed,
         unremembered' = unremembered, handedTwice' = handedTwice,
         NEW e, NEW k, NEW p, NEW i, NEW l, NEW q, NEW j, Goes(e, k, p, i, l, q, j)
  PROVE  AuditInv'
  <1>0. /\ At(e, k, p, i)
        /\ \A x, m, r, n : At(x, m, r, n)' <=>
               \/ At(x, m, r, n) /\ ~(x = e /\ m = k /\ r = p /\ n = i)
               \/ x = e /\ m = l /\ r = q /\ n = j
    BY DEF Goes
  <1>1. ASSUME NEW x \in Audited PROVE Followed(x)'
    <2>1. Followed(x)
      BY DEF AuditInv
    <2>2. CASE x # e
      BY <1>0, <2>1, <2>2 DEF Followed, InOne, Nowhere
    <2>3. CASE x = e
      BY <1>0, <2>1, <2>3 DEF Followed, InOne, Nowhere
    <2> QED BY <2>2, <2>3
  <1>2. ASSUME NEW x \in Audited \ fresh' PROVE Kept(x)'
    <2>1. Kept(x)
      BY DEF AuditInv
    <2>2. CASE x # e
      BY <1>0, <2>1, <2>2 DEF Kept
    <2>3. CASE x = e
      <3>1. At(x, l, q, j)'
        BY <1>0, <2>3
      <3> QED BY <3>1 DEF Kept
    <2> QED BY <2>2, <2>3
  <1> QED BY <1>1, <1>2 DEF AuditInv

\* No event goes anywhere.
LEMMA NoneMoved ==
  ASSUME AuditInv, ChainsInv', fresh' = fresh, failed' = failed,
         unremembered' = unremembered, handedTwice' = handedTwice,
         \A x, m, r, n : At(x, m, r, n)' <=> At(x, m, r, n)
  PROVE  AuditInv'
  <1>1. \A x \in Audited : Followed(x)'
    BY DEF AuditInv, Followed, InOne, Nowhere
  <1>2. \A x \in Audited \ fresh' : Kept(x)'
    BY DEF AuditInv, Kept
  <1> QED BY <1>1, <1>2 DEF AuditInv

\* An event that was nowhere goes somewhere.
LEMMA Emerged ==
  ASSUME AuditInv, ChainsInv', NEW e, e \in fresh, fresh' = fresh \ {e}, failed' = failed,
         unremembered' = unremembered, handedTwice' = handedTwice,
         NEW l, NEW q, NEW j,
         \A x, m, r, n : At(x, m, r, n)' <=> At(x, m, r, n) \/ (x = e /\ m = l /\ r = q /\ n = j)
  PROVE  AuditInv'
  <1>1. ASSUME NEW x \in Audited PROVE Followed(x)'
    <2>1. Followed(x)
      BY DEF AuditInv
    <2>2. CASE x # e
      BY <2>1, <2>2 DEF Followed, InOne, Nowhere
    <2>3. CASE x = e
      BY <2>1, <2>3 DEF Followed, InOne, Nowhere
    <2> QED BY <2>2, <2>3
  <1>2. ASSUME NEW x \in Audited \ fresh' PROVE Kept(x)'
    <2>1. x # e => Kept(x)
      BY <1>2 DEF AuditInv
    <2>2. CASE x # e
      BY <2>1, <2>2 DEF Kept
    <2>3. CASE x = e
      BY <2>3 DEF Kept
    <2> QED BY <2>2, <2>3
  <1> QED BY <1>1, <1>2 DEF AuditInv

\* Checkpoints: of an entry being published, and of the last entry.
LEMMA CheckpointsKeep ==
  ASSUME AuditInv, NEW p \in Procs,
         \/ \E entry \in publishing[p] : Published(p, entry)
         \/ PublishCheckpointForLatest(p)
  PROVE  AuditInv'
  <1>0. ChainsInv /\ ChainOK(p)
    BY DEF AuditInv, ChainsInv
  <1>1. PICK entry : /\ \/ entry \in publishing[p] /\ Published(p, entry)
                        \/ /\ chain[p] # <<>> /\ entry = chain[p][Len(chain[p])]
                           /\ PublishCheckpointForLatest(p)
    BY DEF PublishCheckpointForLatest
  <1>2. /\ entry \in Entry /\ entry.sequence \in 1..Len(chain[p])
        /\ chain[p][entry.sequence] = entry
    <2>1. CASE entry \in publishing[p]
      BY <1>0, <2>1 DEF ChainOK, ChainsInv
    <2>2. CASE chain[p] # <<>> /\ entry = chain[p][Len(chain[p])]
      <3>1. Len(chain[p]) \in 1..Len(chain[p]) /\ entry \in Entry
        BY <1>0, <2>2 DEF ChainOK
      <3> QED BY <1>0, <2>2, <3>1 DEF ChainOK
    <2> QED BY <1>1, <2>1, <2>2
  <1>3. /\ CreateCheckpoint(p, entry)
        /\ publishing' \in {publishing, [publishing EXCEPT ![p] = @ \ {entry}]}
        /\ forced' \in 0..MaxForced
        /\ UNCHANGED <<enabled, fresh, enqueuing, jobVars, chain, saving, nextId, rows, auditRestarts,
                       unremembered, handedTwice>>
    <2>1. forced \in 0..MaxForced /\ MaxForced \in Nat
      BY <1>0, AuditTyped, RestartsAssumption
    <2> QED BY <1>1, <2>1 DEF Published, PublishCheckpointForLatest, historyVars
  <1>4. PICK c : c = CheckpointOf(entry)
    OBVIOUS
  <1>5. c \in Checkpoint /\ c.sequence = entry.sequence /\ c.hash = entry.id
    BY <1>2, <1>4 DEF CheckpointOf, Checkpoint, Entry
  <1>6. /\ checkpoints' \in [Procs -> SUBSET Checkpoint] /\ checkpoints'[p] = checkpoints[p] \cup {c}
        /\ publishing' \in [Procs -> SUBSET Entry] /\ publishing'[p] \subseteq publishing[p]
        /\ \A q \in Procs : q # p => checkpoints'[q] = checkpoints[q] /\ publishing'[q] = publishing[q]
        /\ chain' = chain
    <2>1. checkpoints' = [checkpoints EXCEPT ![p] = @ \cup {c}]
      BY <1>3, <1>4 DEF CreateCheckpoint
    <2>2. /\ checkpoints' \in [Procs -> SUBSET Checkpoint] /\ checkpoints'[p] = checkpoints[p] \cup {c}
          /\ \A q \in Procs : q # p => checkpoints'[q] = checkpoints[q]
      BY <1>0, <1>5, <2>1 DEF ChainsInv
    <2>3. /\ publishing' \in [Procs -> SUBSET Entry] /\ publishing'[p] \subseteq publishing[p]
          /\ \A q \in Procs : q # p => publishing'[q] = publishing[q]
      <3>1. publishing \in [Procs -> SUBSET Entry]
        BY <1>0 DEF ChainsInv
      <3>2. CASE publishing' = publishing
        BY <3>1, <3>2
      <3>3. CASE publishing' = [publishing EXCEPT ![p] = @ \ {entry}]
        BY <3>1, <3>3
      <3> QED BY <1>3, <3>2, <3>3
    <2>4. chain' = chain
      BY <1>3
    <2> QED BY <2>2, <2>3, <2>4
  <1>7. ASSUME NEW q \in Procs PROVE ChainOK(q)'
    <2>1. ChainOK(q)
      BY <1>0 DEF ChainsInv
    <2>2. CASE q # p
      <3>1. chain'[q] = chain[q] /\ checkpoints'[q] = checkpoints[q] /\ publishing'[q] = publishing[q]
        BY <1>6, <2>2
      <3> QED BY <2>1, <3>1 DEF ChainOK
    <2>3. CASE q = p
      <3>1. chain'[p] = chain[p] /\ checkpoints'[p] = checkpoints[p] \cup {c}
        BY <1>6
      <3>2. publishing'[p] \subseteq publishing[p]
        BY <1>6
      <3>3. c.sequence \in 1..Len(chain[p]) /\ c.hash = chain[p][c.sequence].id
        BY <1>2, <1>5
      <3> QED BY <2>1, <2>3, <3>1, <3>2, <3>3 DEF ChainOK
    <2> QED BY <2>2, <2>3
  <1>8. ChainsInv'
    <2>1. /\ chain' \in [Procs -> Seq(Entry)]
          /\ enabled' \in BOOLEAN /\ fresh' \subseteq Audited
          /\ enqueuing' \in [Apis -> SUBSET Audited]
          /\ waiting' \subseteq Audited /\ stalled' \subseteq Audited /\ failed' \subseteq Audited
          /\ active' \in [Workers -> SUBSET Audited] /\ appended' \in [Workers -> SUBSET Audited]
          /\ saving' \subseteq Entry /\ rows' \subseteq Entry
          /\ nextId' \in Nat /\ auditRestarts' \in 0..MaxAuditRestarts
          /\ unremembered' \subseteq Audited /\ handedTwice' \subseteq Audited
      BY <1>0, <1>3, AuditTyped DEF jobVars, ChainsInv
    <2> QED BY <1>3, <1>6, <1>7, <2>1, ChainsTyped
  <1>9. \A x, m, r, n : At(x, m, r, n)' <=> At(x, m, r, n)
    BY <1>3 DEF At, InChain, jobVars
  <1> QED BY <1>3, <1>8, <1>9, NoneMoved DEF jobVars

\* INSERTs: the log in memory does not change.
LEMMA RowsKeep ==
  ASSUME AuditInv, NEW entry \in saving, SaveEntry(entry) \/ SaveEntryFails(entry)
  PROVE  AuditInv'
  <1>0. ChainsInv /\ entry \in Entry
    BY AuditTyped DEF AuditInv
  <1>1. /\ saving' \subseteq saving /\ rows' \subseteq rows \cup {entry}
        /\ UNCHANGED <<enabled, fresh, enqueuing, jobVars, chain, checkpoints, publishing, nextId,
                       historyVars>>
    BY DEF SaveEntry, SaveEntryFails
  <1>2. /\ chain' \in [Procs -> Seq(Entry)] /\ publishing' \in [Procs -> SUBSET Entry]
        /\ checkpoints' \in [Procs -> SUBSET Checkpoint] /\ \A q \in Procs : ChainOK(q)'
    BY <1>0, <1>1, SameChains
  <1>3. ChainsInv'
    <2>1. /\ enabled' \in BOOLEAN /\ fresh' \subseteq Audited
          /\ enqueuing' \in [Apis -> SUBSET Audited]
          /\ waiting' \subseteq Audited /\ stalled' \subseteq Audited /\ failed' \subseteq Audited
          /\ active' \in [Workers -> SUBSET Audited] /\ appended' \in [Workers -> SUBSET Audited]
          /\ saving' \subseteq Entry /\ rows' \subseteq Entry
          /\ nextId' \in Nat /\ auditRestarts' \in 0..MaxAuditRestarts /\ forced' \in 0..MaxForced
          /\ unremembered' \subseteq Audited /\ handedTwice' \subseteq Audited
      BY <1>0, <1>1, AuditTyped DEF jobVars, historyVars
    <2> QED BY <1>2, <2>1, ChainsTyped
  <1>4. \A x, m, r, n : At(x, m, r, n)' <=> At(x, m, r, n)
    BY <1>1 DEF At, InChain, jobVars
  <1> QED BY <1>1, <1>3, <1>4, NoneMoved DEF jobVars, historyVars

\* An event is appended at once, or its enqueue starts.
LEMMA EmitKeeps ==
  ASSUME AuditInv, NEW p \in Apis, NEW e \in Audited, EnqueueAudit(p, e)
  PROVE  AuditInv'
  <1>0. ChainsInv /\ p \in Procs
    BY DEF AuditInv, Procs
  <1>1. /\ e \in fresh /\ fresh' = fresh \ {e}
        /\ UNCHANGED <<enabled, jobVars, checkpoints, rows, historyVars>>
    BY DEF EnqueueAudit
  <1>2. /\ enabled' \in BOOLEAN /\ fresh' \subseteq Audited
        /\ waiting' \subseteq Audited /\ stalled' \subseteq Audited /\ failed' \subseteq Audited
        /\ active' \in [Workers -> SUBSET Audited] /\ appended' \in [Workers -> SUBSET Audited]
        /\ rows' \subseteq Entry /\ checkpoints' \in [Procs -> SUBSET Checkpoint]
        /\ auditRestarts' \in 0..MaxAuditRestarts /\ forced' \in 0..MaxForced
        /\ unremembered' \subseteq Audited /\ handedTwice' \subseteq Audited
    BY <1>0, <1>1, AuditTyped DEF jobVars, historyVars, ChainsInv
  <1>3. CASE Append_(p, e) /\ UNCHANGED enqueuing
    <2>1. ChainsInv'
      <3>1. /\ chain' \in [Procs -> Seq(Entry)] /\ publishing' \in [Procs -> SUBSET Entry]
            /\ saving' \subseteq Entry /\ nextId' \in Nat /\ \A q \in Procs : ChainOK(q)'
        BY <1>0, <1>1, <1>3, AppendKeepsChains
      <3>2. enqueuing' \in [Apis -> SUBSET Audited]
        BY <1>0, <1>3, AuditTyped
      <3> QED BY <1>2, <3>1, <3>2, ChainsTyped
    <2>2. PICK j : j = Len(chain[p]) + 1
      OBVIOUS
    <2>3. \A x, q, i : InChain(x, q, i)' <=> InChain(x, q, i) \/ (x = e /\ q = p /\ i = j)
      BY <1>0, <1>3, <2>2, AppendAt
    <2>4. \A x, m, r, n : At(x, m, r, n)' <=>
              At(x, m, r, n) \/ (x = e /\ m = "chain" /\ r = p /\ n = j)
      BY <1>1, <1>3, <2>3 DEF At, jobVars
    <2> QED BY <1>1, <2>1, <2>4, Emerged DEF jobVars, historyVars
  <1>4. CASE /\ enqueuing' = [enqueuing EXCEPT ![p] = @ \cup {e}]
             /\ UNCHANGED <<chain, saving, publishing, nextId>>
    <2>1. /\ enqueuing' \in [Apis -> SUBSET Audited]
          /\ \A q \in Apis : enqueuing'[q] = IF q = p THEN enqueuing[p] \cup {e} ELSE enqueuing[q]
      BY <1>0, <1>4, AuditTyped
    <2>2. ChainsInv'
      <3>1. /\ chain' \in [Procs -> Seq(Entry)] /\ publishing' \in [Procs -> SUBSET Entry]
            /\ \A q \in Procs : ChainOK(q)'
        BY <1>0, <1>1, <1>4, SameChains
      <3>2. saving' \subseteq Entry /\ nextId' \in Nat
        BY <1>0, <1>4, AuditTyped
      <3> QED BY <1>2, <2>1, <3>1, <3>2, ChainsTyped
    <2>3. \A x, q, i : InChain(x, q, i)' <=> InChain(x, q, i)
      BY <1>4 DEF InChain
    <2>4. \A x, m, r, n : At(x, m, r, n)' <=>
              At(x, m, r, n) \/ (x = e /\ m = "enqueuing" /\ r = p /\ n = 0)
      BY <1>1, <2>1, <2>3 DEF At, jobVars
    <2> QED BY <1>1, <2>2, <2>4, Emerged DEF jobVars, historyVars
  <1> QED BY <1>3, <1>4 DEF EnqueueAudit

\* The typing that steps of the queue have to show.
LEMMA QueueTyped ==
  ASSUME ChainsInv, UNCHANGED <<enabled, fresh, rows, auditRestarts, forced, unremembered, checkpoints>>,
         chain' \in [Procs -> Seq(Entry)], publishing' \in [Procs -> SUBSET Entry],
         \A q \in Procs : ChainOK(q)', saving' \subseteq Entry, nextId' \in Nat,
         enqueuing' \in [Apis -> SUBSET Audited], waiting' \subseteq Audited,
         active' \in [Workers -> SUBSET Audited], appended' \in [Workers -> SUBSET Audited],
         stalled' \subseteq Audited, failed' \subseteq Audited, handedTwice' \subseteq Audited
  PROVE  ChainsInv'
  <1>1. checkpoints' \in [Procs -> SUBSET Checkpoint]
    BY DEF ChainsInv
  <1>2. /\ enabled' \in BOOLEAN /\ fresh' \subseteq Audited /\ rows' \subseteq Entry
        /\ auditRestarts' \in 0..MaxAuditRestarts /\ forced' \in 0..MaxForced
        /\ unremembered' \subseteq Audited
    BY AuditTyped
  <1> QED BY <1>1, <1>2, ChainsTyped

LEMMA EnqueuedKeeps ==
  ASSUME AuditInv, NEW p \in Apis, NEW e \in Audited, Enqueued(p, e)
  PROVE  AuditInv'
  <1>0. ChainsInv
    BY DEF AuditInv
  <1>1. /\ e \in enqueuing[p] /\ enqueuing' = [enqueuing EXCEPT ![p] = @ \ {e}]
        /\ waiting' = waiting \cup {e}
        /\ UNCHANGED <<enabled, fresh, active, appended, stalled, failed, logVars, rows, historyVars>>
    BY DEF Enqueued
  <1>2. /\ enqueuing' \in [Apis -> SUBSET Audited]
        /\ \A q \in Apis : enqueuing'[q] = IF q = p THEN enqueuing[p] \ {e} ELSE enqueuing[q]
    BY <1>0, <1>1, AuditTyped
  <1>3. ChainsInv'
    <2>1. /\ chain' \in [Procs -> Seq(Entry)] /\ publishing' \in [Procs -> SUBSET Entry]
          /\ \A q \in Procs : ChainOK(q)'
      BY <1>0, <1>1, SameChains DEF logVars
    <2>2. /\ saving' \subseteq Entry /\ nextId' \in Nat /\ waiting' \subseteq Audited
          /\ active' \in [Workers -> SUBSET Audited] /\ appended' \in [Workers -> SUBSET Audited]
          /\ stalled' \subseteq Audited /\ failed' \subseteq Audited /\ handedTwice' \subseteq Audited
      BY <1>0, <1>1, AuditTyped DEF logVars, historyVars
    <2> QED BY <1>0, <1>1, <1>2, <2>1, <2>2, QueueTyped DEF logVars, historyVars
  <1>4. \A x, q, i : InChain(x, q, i)' <=> InChain(x, q, i)
    BY <1>1 DEF InChain, logVars
  <1>5. \A x, m, r, n : At(x, m, r, n)' <=>
            \/ At(x, m, r, n) /\ ~(x = e /\ m = "enqueuing" /\ r = p /\ n = 0)
            \/ x = e /\ m = "waiting" /\ r = "redis" /\ n = 0
    BY <1>1, <1>2, <1>4 DEF At
  <1>6. At(e, "enqueuing", p, 0)
    BY <1>1 DEF At
  <1>7. Goes(e, "enqueuing", p, 0, "waiting", "redis", 0)
    BY <1>5, <1>6 DEF Goes
  <1> QED BY <1>1, <1>3, <1>7, PlaceMoved DEF historyVars

\* The fallback appends what was being enqueued; the queue may have it too.
LEMMA EnqueueFailsKeeps ==
  ASSUME AuditInv, NEW p \in Apis, NEW e \in Audited, EnqueueFails(p, e)
  PROVE  AuditInv'
  <1>0. ChainsInv /\ p \in Procs
    BY DEF AuditInv, Procs
  <1>1. /\ e \in enqueuing[p] /\ enqueuing' = [enqueuing EXCEPT ![p] = @ \ {e}]
        /\ Append_(p, e)
        /\ \/ UNCHANGED <<waiting, handedTwice>>
           \/ waiting' = waiting \cup {e} /\ handedTwice' = handedTwice \cup {e}
        /\ UNCHANGED <<enabled, fresh, active, appended, stalled, failed, checkpoints, rows,
                       auditRestarts, forced, unremembered>>
    BY DEF EnqueueFails
  <1>2. /\ enqueuing' \in [Apis -> SUBSET Audited]
        /\ \A q \in Apis : enqueuing'[q] = IF q = p THEN enqueuing[p] \ {e} ELSE enqueuing[q]
    BY <1>0, <1>1, AuditTyped
  <1>3. ChainsInv'
    <2>1. /\ chain' \in [Procs -> Seq(Entry)] /\ publishing' \in [Procs -> SUBSET Entry]
          /\ saving' \subseteq Entry /\ nextId' \in Nat /\ \A q \in Procs : ChainOK(q)'
      BY <1>0, <1>1, AppendKeepsChains
    <2>2. /\ waiting' \subseteq Audited /\ handedTwice' \subseteq Audited
          /\ active' \in [Workers -> SUBSET Audited] /\ appended' \in [Workers -> SUBSET Audited]
          /\ stalled' \subseteq Audited /\ failed' \subseteq Audited
      BY <1>0, <1>1, AuditTyped
    <2> QED BY <1>0, <1>1, <1>2, <2>1, <2>2, QueueTyped
  <1>4. PICK j : j = Len(chain[p]) + 1
    OBVIOUS
  <1>5. \A x, q, i : InChain(x, q, i)' <=> InChain(x, q, i) \/ (x = e /\ q = p /\ i = j)
    BY <1>0, <1>1, <1>4, AppendAt
  <1>6. At(e, "enqueuing", p, 0)
    BY <1>1 DEF At
  <1>7. CASE UNCHANGED <<waiting, handedTwice>>
    <2>1. \A x, m, r, n : At(x, m, r, n)' <=>
              \/ At(x, m, r, n) /\ ~(x = e /\ m = "enqueuing" /\ r = p /\ n = 0)
              \/ x = e /\ m = "chain" /\ r = p /\ n = j
      BY <1>1, <1>2, <1>5, <1>7 DEF At
    <2>2. Goes(e, "enqueuing", p, 0, "chain", p, j)
      BY <1>6, <2>1 DEF Goes
    <2> QED BY <1>1, <1>3, <1>7, <2>2, PlaceMoved
  <1>8. CASE waiting' = waiting \cup {e} /\ handedTwice' = handedTwice \cup {e}
    <2>1. \A x, m, r, n : x # e => (At(x, m, r, n)' <=> At(x, m, r, n))
      BY <1>1, <1>2, <1>5, <1>8 DEF At
    <2>2. At(e, "waiting", "redis", 0)'
      BY <1>8 DEF At
    <2>3. ASSUME NEW x \in Audited PROVE Followed(x)'
      <3>1. CASE x = e
        BY <1>8, <3>1 DEF Followed
      <3>2. CASE x # e
        BY <1>1, <1>8, <2>1, <3>2 DEF AuditInv, Followed, InOne, Nowhere
      <3> QED BY <3>1, <3>2
    <2>4. ASSUME NEW x \in Audited \ fresh' PROVE Kept(x)'
      <3>1. CASE x = e
        BY <2>2, <3>1 DEF Kept
      <3>2. CASE x # e
        BY <1>1, <2>1, <3>2 DEF AuditInv, Kept
      <3> QED BY <3>1, <3>2
    <2> QED BY <1>3, <2>3, <2>4 DEF AuditInv
  <1> QED BY <1>1, <1>7, <1>8

\* A worker takes a job, appends its event and reports it.
LEMMA WorkKeeps ==
  ASSUME AuditInv, NEW w \in Workers, NEW e \in Audited,
         TakeJob(w, e) \/ ProcessAuditLog(w, e) \/ Completed(w, e)
  PROVE  AuditInv'
  <1>0. ChainsInv /\ w \in Procs
    BY DEF AuditInv, Procs
  <1>1. CASE TakeJob(w, e)
    <2>1. /\ e \in waiting /\ waiting' = waiting \ {e}
          /\ active' = [active EXCEPT ![w] = @ \cup {e}]
          /\ UNCHANGED <<enabled, fresh, enqueuing, appended, stalled, failed, logVars, rows, historyVars>>
      BY <1>1 DEF TakeJob
    <2>2. /\ active' \in [Workers -> SUBSET Audited]
          /\ \A v \in Workers : active'[v] = IF v = w THEN active[w] \cup {e} ELSE active[v]
      BY <1>0, <2>1, AuditTyped
    <2>3. ChainsInv'
      <3>1. /\ chain' \in [Procs -> Seq(Entry)] /\ publishing' \in [Procs -> SUBSET Entry]
            /\ \A q \in Procs : ChainOK(q)'
        BY <1>0, <2>1, SameChains DEF logVars
      <3>2. /\ saving' \subseteq Entry /\ nextId' \in Nat /\ waiting' \subseteq Audited
            /\ enqueuing' \in [Apis -> SUBSET Audited] /\ appended' \in [Workers -> SUBSET Audited]
            /\ stalled' \subseteq Audited /\ failed' \subseteq Audited /\ handedTwice' \subseteq Audited
        BY <1>0, <2>1, AuditTyped DEF logVars, historyVars
      <3> QED BY <1>0, <2>1, <2>2, <3>1, <3>2, QueueTyped DEF logVars, historyVars
    <2>4. \A x, q, i : InChain(x, q, i)' <=> InChain(x, q, i)
      BY <2>1 DEF InChain, logVars
    <2>5. At(e, "waiting", "redis", 0)
      BY <2>1 DEF At
    <2>6. \A x, m, r, n : At(x, m, r, n)' <=>
              \/ At(x, m, r, n) /\ ~(x = e /\ m = "waiting" /\ r = "redis" /\ n = 0)
              \/ x = e /\ m = "active" /\ r = w /\ n = 0
      BY <2>1, <2>2, <2>4 DEF At
    <2>7. Goes(e, "waiting", "redis", 0, "active", w, 0)
      BY <2>5, <2>6 DEF Goes
    <2> QED BY <2>1, <2>3, <2>7, PlaceMoved DEF historyVars
  <1>2. CASE ProcessAuditLog(w, e)
    <2>1. /\ e \in active[w] /\ active' = [active EXCEPT ![w] = @ \ {e}]
          /\ appended' = [appended EXCEPT ![w] = @ \cup {e}]
          /\ Append_(w, e)
          /\ UNCHANGED <<enabled, fresh, enqueuing, waiting, stalled, failed, checkpoints, rows, historyVars>>
      BY <1>2 DEF ProcessAuditLog
    <2>2. /\ active' \in [Workers -> SUBSET Audited] /\ appended' \in [Workers -> SUBSET Audited]
          /\ \A v \in Workers : active'[v] = IF v = w THEN active[w] \ {e} ELSE active[v]
      BY <1>0, <2>1, AuditTyped
    <2>3. ChainsInv'
      <3>1. /\ chain' \in [Procs -> Seq(Entry)] /\ publishing' \in [Procs -> SUBSET Entry]
            /\ saving' \subseteq Entry /\ nextId' \in Nat /\ \A q \in Procs : ChainOK(q)'
        BY <1>0, <2>1, AppendKeepsChains
      <3>2. /\ enqueuing' \in [Apis -> SUBSET Audited] /\ waiting' \subseteq Audited
            /\ stalled' \subseteq Audited /\ failed' \subseteq Audited /\ handedTwice' \subseteq Audited
        BY <1>0, <2>1, AuditTyped DEF historyVars
      <3> QED BY <1>0, <2>1, <2>2, <3>1, <3>2, QueueTyped DEF historyVars
    <2>4. PICK j : j = Len(chain[w]) + 1
      OBVIOUS
    <2>5. \A x, q, i : InChain(x, q, i)' <=> InChain(x, q, i) \/ (x = e /\ q = w /\ i = j)
      BY <1>0, <2>1, <2>4, AppendAt
    <2>6. At(e, "active", w, 0)
      BY <2>1 DEF At
    <2>7. \A x, m, r, n : At(x, m, r, n)' <=>
              \/ At(x, m, r, n) /\ ~(x = e /\ m = "active" /\ r = w /\ n = 0)
              \/ x = e /\ m = "chain" /\ r = w /\ n = j
      BY <2>1, <2>2, <2>5 DEF At
    <2>8. Goes(e, "active", w, 0, "chain", w, j)
      BY <2>6, <2>7 DEF Goes
    <2> QED BY <2>1, <2>3, <2>8, PlaceMoved DEF historyVars
  <1>3. CASE Completed(w, e)
    <2>1. /\ appended' = [appended EXCEPT ![w] = @ \ {e}]
          /\ UNCHANGED <<enabled, fresh, enqueuing, waiting, active, stalled, failed, logVars, rows,
                         historyVars>>
      BY <1>3 DEF Completed
    <2>2. appended' \in [Workers -> SUBSET Audited]
      BY <1>0, <2>1, AuditTyped
    <2>3. ChainsInv'
      <3>1. /\ chain' \in [Procs -> Seq(Entry)] /\ publishing' \in [Procs -> SUBSET Entry]
            /\ \A q \in Procs : ChainOK(q)'
        BY <1>0, <2>1, SameChains DEF logVars
      <3>2. /\ saving' \subseteq Entry /\ nextId' \in Nat /\ waiting' \subseteq Audited
            /\ enqueuing' \in [Apis -> SUBSET Audited] /\ active' \in [Workers -> SUBSET Audited]
            /\ stalled' \subseteq Audited /\ failed' \subseteq Audited /\ handedTwice' \subseteq Audited
        BY <1>0, <2>1, AuditTyped DEF logVars, historyVars
      <3> QED BY <1>0, <2>1, <2>2, <3>1, <3>2, QueueTyped DEF logVars, historyVars
    <2>4. \A x, m, r, n : At(x, m, r, n)' <=> At(x, m, r, n)
      BY <2>1 DEF At, InChain, logVars
    <2> QED BY <2>1, <2>3, <2>4, NoneMoved DEF historyVars
  <1> QED BY <1>1, <1>2, <1>3

\* The events a chain has.
LEMMA ChainEvents ==
  ASSUME ChainsInv, NEW p \in Procs
  PROVE  \A x : x \in EventsIn(chain[p]) <=> \E i : InChain(x, p, i)
  <1>1. chain[p] \in Seq(Entry) /\ DOMAIN chain[p] = 1..Len(chain[p])
    BY DEF ChainsInv, ChainOK
  <1> QED BY <1>1 DEF EventsIn, InChain

\* What a process that restarts takes along is not remembered.
LEMMA ApiRestartKeeps ==
  ASSUME AuditInv, NEW p \in Apis, ApiRestarts(p)
  PROVE  AuditInv'
  <1>0. ChainsInv /\ p \in Procs
    BY DEF AuditInv, Procs
  <1>1. PICK sent \in SUBSET enqueuing[p] :
            /\ waiting' = waiting \cup sent
            /\ Forget(p) /\ enqueuing' = [enqueuing EXCEPT ![p] = {}]
            /\ unremembered' = unremembered \cup enqueuing[p] \cup EventsIn(chain[p])
            /\ UNCHANGED <<active, appended, stalled, failed, handedTwice>>
    BY DEF ApiRestarts
  <1>2. /\ auditRestarts' = auditRestarts + 1 /\ auditRestarts < MaxAuditRestarts
        /\ UNCHANGED <<enabled, fresh, saving, nextId, rows, forced>>
    BY <1>1 DEF Forget
  <1>3. /\ enqueuing' \in [Apis -> SUBSET Audited] /\ enqueuing[p] \subseteq Audited
        /\ \A q \in Apis : enqueuing'[q] = IF q = p THEN {} ELSE enqueuing[q]
    BY <1>0, <1>1, AuditTyped
  <1>4. /\ chain' \in [Procs -> Seq(Entry)]
        /\ publishing' \in [Procs -> SUBSET Entry]
        /\ checkpoints' \in [Procs -> SUBSET Checkpoint]
        /\ \A q \in Procs : ChainOK(q)'
        /\ \A x, q, i : InChain(x, q, i)' <=> InChain(x, q, i) /\ q # p
    BY <1>0, <1>1, ForgetKeepsChains
  <1>5. \A x : x \in EventsIn(chain[p]) <=> \E i : InChain(x, p, i)
    BY <1>0, ChainEvents
  <1>6. EventsIn(chain[p]) \subseteq Audited
    <2> SUFFICES ASSUME NEW x, NEW i, InChain(x, p, i) PROVE x \in Audited
      BY <1>5
    <2>1. chain[p] \in Seq(Entry) /\ i \in 1..Len(chain[p]) /\ chain[p][i].event = x
      BY <1>0 DEF InChain, ChainsInv, ChainOK
    <2>2. chain[p][i] \in Entry
      BY <2>1
    <2> QED BY <2>1, <2>2 DEF Entry
  <1>7. ChainsInv'
    <2>1. auditRestarts' \in 0..MaxAuditRestarts
      BY <1>0, <1>2, AuditTyped, RestartsAssumption
    <2>2. /\ enabled' \in BOOLEAN /\ fresh' \subseteq Audited /\ saving' \subseteq Entry
          /\ rows' \subseteq Entry /\ nextId' \in Nat /\ forced' \in 0..MaxForced
          /\ active' \in [Workers -> SUBSET Audited] /\ appended' \in [Workers -> SUBSET Audited]
          /\ stalled' \subseteq Audited /\ failed' \subseteq Audited /\ handedTwice' \subseteq Audited
          /\ waiting' \subseteq Audited /\ unremembered' \subseteq Audited
      BY <1>0, <1>1, <1>2, <1>3, <1>6, AuditTyped
    <2> QED BY <1>3, <1>4, <2>1, <2>2, ChainsTyped
  <1>8. ASSUME NEW x, x \notin unremembered' PROVE \A m, r, n : At(x, m, r, n)' <=> At(x, m, r, n)
    <2>1. x \notin enqueuing[p] /\ x \notin sent /\ ~\E i : InChain(x, p, i)
      BY <1>1, <1>5, <1>8
    <2> QED BY <1>1, <1>3, <1>4, <2>1 DEF At
  <1>9. \A x \in Audited : Followed(x)'
    BY <1>1, <1>2, <1>8 DEF AuditInv, Followed, InOne, Nowhere
  <1>10. \A x \in Audited \ fresh' : Kept(x)'
    BY <1>1, <1>2, <1>8 DEF AuditInv, Kept
  <1> QED BY <1>7, <1>9, <1>10 DEF AuditInv

\* BullMQ hands a worker's jobs out again, or gives them up.
LEMMA WorkerRestartKeeps ==
  ASSUME AuditInv, NEW w \in Workers, WorkerRestarts(w)
  PROVE  AuditInv'
  <1>0. ChainsInv /\ w \in Procs
    BY DEF AuditInv, Procs
  <1> DEFINE taken == active[w] \cup appended[w]
  <1>1. /\ Forget(w)
        /\ active' = [active EXCEPT ![w] = {}] /\ appended' = [appended EXCEPT ![w] = {}]
        /\ waiting' = waiting \cup (taken \ stalled)
        /\ failed' = failed \cup (taken \cap stalled)
        /\ stalled' = stalled \cup taken
        /\ handedTwice' = handedTwice \cup appended[w]
        /\ unremembered' = unremembered \cup EventsIn(chain[w])
        /\ UNCHANGED enqueuing
    BY DEF WorkerRestarts
  <1>2. /\ auditRestarts' = auditRestarts + 1 /\ auditRestarts < MaxAuditRestarts
        /\ UNCHANGED <<enabled, fresh, saving, nextId, rows, forced>>
    BY <1>1 DEF Forget
  <1>3. /\ active' \in [Workers -> SUBSET Audited] /\ active[w] \subseteq Audited
        /\ appended' \in [Workers -> SUBSET Audited] /\ appended[w] \subseteq Audited
        /\ \A v \in Workers : active'[v] = IF v = w THEN {} ELSE active[v]
    BY <1>0, <1>1, AuditTyped
  <1>4. /\ chain' \in [Procs -> Seq(Entry)]
        /\ publishing' \in [Procs -> SUBSET Entry]
        /\ checkpoints' \in [Procs -> SUBSET Checkpoint]
        /\ \A q \in Procs : ChainOK(q)'
        /\ \A x, q, i : InChain(x, q, i)' <=> InChain(x, q, i) /\ q # w
    BY <1>0, <1>1, ForgetKeepsChains
  <1>5. \A x : x \in EventsIn(chain[w]) <=> \E i : InChain(x, w, i)
    BY <1>0, ChainEvents
  <1>6. EventsIn(chain[w]) \subseteq Audited
    <2> SUFFICES ASSUME NEW x, NEW i, InChain(x, w, i) PROVE x \in Audited
      BY <1>5
    <2>1. chain[w] \in Seq(Entry) /\ i \in 1..Len(chain[w]) /\ chain[w][i].event = x
      BY <1>0 DEF InChain, ChainsInv, ChainOK
    <2>2. chain[w][i] \in Entry
      BY <2>1
    <2> QED BY <2>1, <2>2 DEF Entry
  <1>7. ChainsInv'
    <2>1. auditRestarts' \in 0..MaxAuditRestarts
      BY <1>0, <1>2, AuditTyped, RestartsAssumption
    <2>2. /\ enabled' \in BOOLEAN /\ fresh' \subseteq Audited /\ saving' \subseteq Entry
          /\ rows' \subseteq Entry /\ nextId' \in Nat /\ forced' \in 0..MaxForced
          /\ enqueuing' \in [Apis -> SUBSET Audited]
          /\ stalled' \subseteq Audited /\ failed' \subseteq Audited /\ handedTwice' \subseteq Audited
          /\ waiting' \subseteq Audited /\ unremembered' \subseteq Audited
      BY <1>0, <1>1, <1>2, <1>3, <1>6, AuditTyped
    <2> QED BY <1>3, <1>4, <2>1, <2>2, ChainsTyped
  \* What is not forgotten stays where it was, unless the worker was at it: then it waits again
  \* or is given up.
  <1>8. ASSUME NEW x, x \notin unremembered'
        PROVE  /\ x \notin taken => \A m, r, n : At(x, m, r, n)' <=> At(x, m, r, n)
               /\ \A m, r, n : At(x, m, r, n)' <=>
                      \/ At(x, m, r, n) /\ ~(m = "active" /\ r = w /\ n = 0)
                      \/ m = "waiting" /\ r = "redis" /\ n = 0 /\ x \in taken \ stalled
    <2>1. ~\E i : InChain(x, w, i)
      BY <1>1, <1>5, <1>8
    <2> QED BY <1>1, <1>3, <1>4, <2>1 DEF At
  <1>9. ASSUME NEW x \in Audited PROVE Followed(x)'
    <2> SUFFICES ASSUME x \notin handedTwice', x \notin unremembered'
                 PROVE  InOne(x)' /\ (x \in fresh' => Nowhere(x)')
      BY DEF Followed
    <2>1. InOne(x) /\ (x \in fresh => Nowhere(x)) /\ x \notin appended[w]
      BY <1>1 DEF AuditInv, Followed
    <2>2. CASE x \notin active[w]
      <3>1. \A m, r, n : At(x, m, r, n)' <=> At(x, m, r, n)
        BY <1>8, <2>1, <2>2
      <3> QED BY <1>2, <2>1, <3>1 DEF InOne, Nowhere
    <2>3. CASE x \in active[w]
      <3>1. At(x, "active", w, 0)
        BY <2>3 DEF At
      <3>2. \A m, r, n : At(x, m, r, n) => m = "active" /\ r = w /\ n = 0
        BY <2>1, <3>1 DEF InOne
      <3>3. x \notin fresh'
        BY <1>2, <2>1, <3>1 DEF Nowhere
      <3>4. \A m, r, n : At(x, m, r, n)' => m = "waiting" /\ r = "redis" /\ n = 0
        BY <1>8, <3>2
      <3> QED BY <3>3, <3>4 DEF InOne
    <2> QED BY <2>2, <2>3
  <1>10. ASSUME NEW x \in Audited \ fresh' PROVE Kept(x)'
    <2>1. Kept(x)
      BY <1>2 DEF AuditInv
    <2>2. CASE x \in unremembered' \/ x \in failed'
      BY <2>2 DEF Kept
    <2>3. CASE x \notin unremembered' /\ x \notin failed'
      <3>1. PICK m, r, n : At(x, m, r, n)
        BY <1>1, <2>1, <2>3 DEF Kept
      <3>2. CASE m = "active" /\ r = w /\ n = 0
        <4>1. x \in taken \ stalled
          BY <1>1, <2>3, <3>1, <3>2 DEF At
        <4>2. At(x, "waiting", "redis", 0)'
          BY <1>1, <4>1 DEF At
        <4> QED BY <4>2 DEF Kept
      <3>3. CASE ~(m = "active" /\ r = w /\ n = 0)
        <4>1. At(x, m, r, n)'
          BY <1>8, <2>3, <3>1, <3>3
        <4> QED BY <4>1 DEF Kept
      <3> QED BY <3>2, <3>3
    <2> QED BY <2>2, <2>3
  <1> QED BY <1>7, <1>9, <1>10 DEF AuditInv

LEMMA AuditKeeps ==
  ASSUME AuditInv, AuditNext
  PROVE  AuditInv'
  BY CheckpointsKeep, RowsKeep, EmitKeeps, EnqueuedKeeps, EnqueueFailsKeeps, WorkKeeps,
     ApiRestartKeeps, WorkerRestartKeeps
     DEF AuditNext, AuditStep, ApiStep, WorkerStep, DatabaseStep, Procs

LEMMA AuditStarts ==
  ASSUME AuditInit
  PROVE  AuditInv
  <1>1. /\ enabled \in BOOLEAN /\ fresh = Audited
        /\ enqueuing = [p \in Apis |-> {}]
        /\ waiting = {} /\ stalled = {} /\ failed = {}
        /\ active = [w \in Workers |-> {}] /\ appended = [w \in Workers |-> {}]
        /\ chain = [p \in Procs |-> <<>>]
        /\ checkpoints = [p \in Procs |-> {}] /\ publishing = [p \in Procs |-> {}]
        /\ saving = {} /\ rows = {} /\ nextId = 0 /\ auditRestarts = 0 /\ forced = 0
        /\ unremembered = {} /\ handedTwice = {}
    BY DEF AuditInit
  <1>2. <<>> \in Seq(Entry) /\ Len(<<>>) = 0
    OBVIOUS
  <1>3. \A p \in Procs : ChainOK(p) /\ DOMAIN chain[p] = {}
    BY <1>1, <1>2 DEF ChainOK
  <1>4. chain \in [Procs -> Seq(Entry)]
    BY <1>1, <1>2
  <1>5. AuditTypeOK
    BY <1>1, <1>3, RestartsAssumption DEF AuditTypeOK
  <1>6. \A x, m, r, n : ~At(x, m, r, n)
    <2>1. \A p \in Procs : \A i : i \notin 1..Len(chain[p])
      BY <1>1, <1>2
    <2> QED BY <1>1, <2>1 DEF At, InChain
  <1>7. ChainsInv
    BY <1>1, <1>3, <1>4, <1>5 DEF ChainsInv
  <1> QED BY <1>1, <1>6, <1>7 DEF AuditInv, Followed, InOne, Nowhere

LEMMA AuditRests ==
  ASSUME AuditInv, UNCHANGED auditVars
  PROVE  AuditInv'
  <1>0. ChainsInv
    BY DEF AuditInv
  <1>1. UNCHANGED <<enabled, fresh, enqueuing, waiting, active, appended, stalled, failed, chain,
                    checkpoints, publishing, saving, nextId, rows, auditRestarts, forced,
                    unremembered, handedTwice>>
    BY DEF auditVars, jobVars, logVars, historyVars
  <1>2. ChainsInv'
    BY <1>0, <1>1 DEF ChainsInv, AuditTypeOK, ChainOK
  <1>3. \A x, m, r, n : At(x, m, r, n)' <=> At(x, m, r, n)
    BY <1>1 DEF At, InChain
  <1> QED BY <1>1, <1>2, <1>3, NoneMoved

LEMMA AuditInvariant == AuditSpec => []AuditInv
  <1>1. AuditInit => AuditInv
    BY AuditStarts
  <1>2. AuditInv /\ [AuditNext]_auditVars => AuditInv'
    BY AuditKeeps, AuditRests
  <1> QED BY <1>1, <1>2, PTL DEF AuditSpec

\* The chain every process keeps verifies with its checkpoints at any time, whatever the
\* processes, events and checkpoint interval (integrityAuditLog.ts).
THEOREM ChainsAlwaysVerify == AuditSpec => []ChainsVerify
  <1>1. AuditInv => ChainsVerify
    BY ChainsSound DEF AuditInv
  <1> QED BY <1>1, AuditInvariant, PTL

\* An emitted event is never silently lost and is recorded once, unless a process that had it
\* restarted or it was handed over twice (asyncPipeline.ts, integrityAuditLog.ts).
THEOREM EventsStayAccounted == AuditSpec => []Accounted
  <1>1. AuditInv => Accounted
    BY AuditSound
  <1> QED BY <1>1, AuditInvariant, PTL
-------------------------------------------------------------------------------
(* The database under Migrations and ProviderOrders *)
\* No version creates a table of another one, and only the fifth indexes, tables that it
\* does not create.
LEMMA VersionFacts ==
  /\ First \in Versions
  /\ \A v \in Versions : Creates(v) \subseteq Tables
  /\ \A v, w \in Versions : v # w => Creates(v) \cap Creates(w) = {}
  /\ \A v \in Versions : v # 5 => Indexed(v) = {}
  /\ Creates(5) = {} /\ Creates(6) = {"provider_orders"}
  <1>1. /\ Creates(1) = initial_schema /\ Creates(2) = api_keys_schema
        /\ Creates(3) = analytics_schema /\ Creates(4) = integrity_audit_log
        /\ Creates(5) = {} /\ Creates(6) = provider_orders
    BY DEF Creates
  <1>2. \A v \in Versions : v = 1 \/ v = 2 \/ v = 3 \/ v = 4 \/ v = 5 \/ v = 6
    BY DEF Versions
  <1>3. \A v, w \in Versions : v # w => Creates(v) \cap Creates(w) = {}
    <2> SUFFICES ASSUME NEW v \in Versions, NEW w \in Versions, v # w
                 PROVE  Creates(v) \cap Creates(w) = {}
      OBVIOUS
    <2> USE DEF initial_schema, api_keys_schema, analytics_schema, integrity_audit_log,
                provider_orders
    <2>1. CASE v = 1
      BY <2>1, <1>1, <1>2
    <2>2. CASE v = 2
      BY <2>2, <1>1, <1>2
    <2>3. CASE v = 3
      BY <2>3, <1>1, <1>2
    <2>4. CASE v = 4
      BY <2>4, <1>1, <1>2
    <2>5. CASE v = 5
      BY <2>5, <1>1, <1>2
    <2>6. CASE v = 6
      BY <2>6, <1>1, <1>2
    <2> QED BY <2>1, <2>2, <2>3, <2>4, <2>5, <2>6, <1>2
  <1>4. \A v \in Versions : Creates(v) \subseteq Tables
    BY DEF Tables
  <1>5. \A v \in Versions : v # 5 => Indexed(v) = {}
    BY DEF Indexed
  <1> QED BY <1>1, <1>3, <1>4, <1>5 DEF First, Versions, provider_orders

\* The least and the greatest of some versions.
LEMMA NextVersion ==
  ASSUME NEW V \in SUBSET Versions, V # {}
  PROVE  /\ Min(V) \in V /\ \A v \in V : Min(V) <= v
         /\ Max(V) \in V /\ \A v \in V : v <= Max(V)
  <1>1. V \in SUBSET (1..6)
    BY DEF Versions
  <1>2. \E m \in V : \A v \in V : m <= v
    <2>1. CASE 1 \in V
      BY <1>1, <2>1
    <2>2. CASE 1 \notin V /\ 2 \in V
      BY <1>1, <2>2
    <2>3. CASE 1 \notin V /\ 2 \notin V /\ 3 \in V
      BY <1>1, <2>3
    <2>4. CASE 1 \notin V /\ 2 \notin V /\ 3 \notin V /\ 4 \in V
      BY <1>1, <2>4
    <2>5. CASE 1 \notin V /\ 2 \notin V /\ 3 \notin V /\ 4 \notin V /\ 5 \in V
      BY <1>1, <2>5
    <2>6. CASE \A v \in V : v = 6
      BY <2>6
    <2> QED BY <1>1, <2>1, <2>2, <2>3, <2>4, <2>5, <2>6
  <1>3. \E m \in V : \A v \in V : v <= m
    <2>1. CASE 6 \in V
      BY <1>1, <2>1
    <2>2. CASE 6 \notin V /\ 5 \in V
      BY <1>1, <2>2
    <2>3. CASE 6 \notin V /\ 5 \notin V /\ 4 \in V
      BY <1>1, <2>3
    <2>4. CASE 6 \notin V /\ 5 \notin V /\ 4 \notin V /\ 3 \in V
      BY <1>1, <2>4
    <2>5. CASE 6 \notin V /\ 5 \notin V /\ 4 \notin V /\ 3 \notin V /\ 2 \in V
      BY <1>1, <2>5
    <2>6. CASE \A v \in V : v = 1
      BY <2>6
    <2> QED BY <1>1, <2>1, <2>2, <2>3, <2>4, <2>5, <2>6
  <1> QED BY <1>2, <1>3 DEF Min, Max

\* What run[p] may be: a migrate, a rollback with something left to do, or nothing.
SaneRun(r) ==
    /\ r \in Runs
    /\ r.kind = "idle" <=> r = Idle
    /\ r.kind \in {"down", "delete"} => r.todo # {}

\* While no rollback has met a migrate or was cut off: migrates exclude rollbacks and each
\* other, what a migrate has done is there, and a rollback has on its list whatever is
\* recorded after a version on its list.
Apart ==
    /\ \A p, q \in Processes : Migrating(p) /\ Migrating(q) => p = q
    /\ \A p, q \in Processes : ~(Migrating(p) /\ Rolling(q))
DoneIsThere == \A p \in Processes : Migrating(p) => \A v \in run[p].done : Applied(v)
RollsFromTheEnd ==
    \A p \in Processes : Rolling(p) =>
        \A v \in run[p].todo, w \in records : w > v => w \in run[p].todo
Excepted(v) == \E p \in Processes : run[p].kind = "delete" /\ NextDown(p) = v
Recorded == \A v \in records : Applied(v) \/ Excepted(v)

SchemaInv ==
    /\ SchemaTypeOK
    /\ \A p \in Processes : SaneRun(run[p])
    /\ ~tangled => Apart /\ DoneIsThere /\ RollsFromTheEnd /\ Recorded

LEMMA RunChanges ==
  ASSUME SchemaInv, NEW p \in Processes, NEW r, SaneRun(r), RunsOn(p, r)
  PROVE  /\ run'[p] = r
         /\ \A q \in Processes : q # p => run'[q] = run[q]
         /\ run' \in [Processes -> Runs]
         /\ \A q \in Processes : SaneRun(run[q]')
         /\ tangled' \in BOOLEAN
         /\ ~tangled' => ~tangled /\ \A q, s \in Processes : ~(Migrating(q)' /\ Rolling(s)')
  <1>1. run \in [Processes -> Runs] /\ tangled \in BOOLEAN
    BY DEF SchemaInv, SchemaTypeOK
  <1>2. run' = [run EXCEPT ![p] = r]
    BY DEF RunsOn
  <1>3. r \in Runs
    BY DEF SaneRun
  <1>4. /\ run'[p] = r /\ \A q \in Processes : q # p => run'[q] = run[q]
        /\ run' \in [Processes -> Runs]
    BY <1>1, <1>2, <1>3
  <1>5. \A q \in Processes : SaneRun(run[q]')
    <2> SUFFICES ASSUME NEW q \in Processes PROVE SaneRun(run'[q])
      BY DEF SaneRun
    <2>1. CASE q = p
      BY <2>1, <1>4
    <2>2. CASE q # p
      BY <2>2, <1>4 DEF SchemaInv
    <2> QED BY <2>1, <2>2
  <1>6. tangled' \in BOOLEAN
    BY <1>1 DEF RunsOn
  <1>7. ~tangled' => ~tangled /\ \A q, s \in Processes : ~(Migrating(q)' /\ Rolling(s)')
    BY DEF RunsOn, Migrating, Rolling
  <1> QED BY <1>4, <1>5, <1>6, <1>7

\* What the tangle rules out stays ruled out, when nobody but p begins a migrate.
LEMMA StaysApart ==
  ASSUME SchemaInv, NEW p \in Processes, NEW r, SaneRun(r), RunsOn(p, r),
         r.kind = "migrate" => Migrating(p) \/ ~Locked
  PROVE  ~tangled' => Apart'
  <1> SUFFICES ASSUME ~tangled' PROVE Apart'
    OBVIOUS
  <1>1. /\ run'[p] = r /\ \A q \in Processes : q # p => run'[q] = run[q]
        /\ ~tangled /\ \A q, s \in Processes : ~(Migrating(q)' /\ Rolling(s)')
    BY RunChanges
  <1>2. Apart
    BY <1>1 DEF SchemaInv
  <1>3. ASSUME NEW q \in Processes, NEW s \in Processes, Migrating(q)', Migrating(s)' PROVE q = s
    <2>1. \A x \in Processes : x # p /\ Migrating(x)' => Migrating(x)
      BY <1>1 DEF Migrating
    <2>2. Migrating(p)' => Migrating(p) \/ ~Locked
      BY <1>1 DEF Migrating
    <2> QED BY <1>2, <1>3, <2>1, <2>2 DEF Apart, Locked
  <1> QED BY <1>1, <1>3 DEF Apart

\* What a step of p has to show, with its run and what it writes: the other runs keep
\* what holds of them.
LEMMA StepKeeps ==
  ASSUME SchemaInv, NEW p \in Processes, NEW r, SaneRun(r), RunsOn(p, r),
         r.kind = "migrate" => Migrating(p) \/ ~Locked,
         SchemaTypeOK',
         ~tangled' /\ r.kind = "migrate" => \A v \in r.done : Applied(v)',
         ~tangled' /\ r.kind \in {"down", "delete"} =>
             \A v \in r.todo, w \in records' : w > v => w \in r.todo,
         ~tangled' => \A q \in Processes : q # p /\ Migrating(q) =>
                          \A v \in Versions : Applied(v) => Applied(v)',
         ~tangled' => \A q \in Processes : q # p /\ Rolling(q) => records' \subseteq records,
         ~tangled' => \A v \in records' :
             \/ Applied(v)'
             \/ r.kind = "delete" /\ v = Max(r.todo)
             \/ \E q \in Processes : q # p /\ run[q].kind = "delete" /\ NextDown(q) = v
  PROVE  SchemaInv'
  <1>1. /\ run'[p] = r /\ \A q \in Processes : q # p => run'[q] = run[q]
        /\ run' \in [Processes -> Runs] /\ (\A q \in Processes : SaneRun(run[q]'))
        /\ ~tangled' => ~tangled
    BY RunChanges
  <1>2. ~tangled' => Apart'
    BY StaysApart
  <1>3. ASSUME ~tangled' PROVE DoneIsThere' /\ RollsFromTheEnd' /\ Recorded'
    <2>1. DoneIsThere /\ RollsFromTheEnd
      BY <1>1, <1>3 DEF SchemaInv
    <2>2. DoneIsThere'
      <3> SUFFICES ASSUME NEW q \in Processes, run'[q].kind = "migrate", NEW v \in run'[q].done
                   PROVE  Applied(v)'
        BY DEF DoneIsThere, Migrating, Applied
      <3>1. CASE q = p
        BY <3>1, <1>1, <1>3
      <3>2. CASE q # p
        <4>1. run'[q] = run[q] /\ Migrating(q) /\ run[q] \in Runs
          BY <3>2, <1>1 DEF Migrating, SchemaInv, SchemaTypeOK
        <4>2. v \in Versions /\ Applied(v)
          BY <4>1, <2>1 DEF DoneIsThere, Runs
        <4> QED BY <4>1, <4>2, <3>2, <1>3
      <3> QED BY <3>1, <3>2
    <2>3. RollsFromTheEnd'
      <3> SUFFICES ASSUME NEW q \in Processes, run'[q].kind \in {"down", "delete"},
                          NEW v \in run'[q].todo, NEW w \in records', w > v
                   PROVE  w \in run'[q].todo
        BY DEF RollsFromTheEnd, Rolling
      <3>1. CASE q = p
        BY <3>1, <1>1, <1>3
      <3>2. CASE q # p
        BY <3>2, <1>1, <1>3, <2>1 DEF RollsFromTheEnd, Rolling
      <3> QED BY <3>1, <3>2
    <2>4. Recorded'
      <3> SUFFICES ASSUME NEW v \in records' PROVE Applied(v)' \/ Excepted(v)'
        BY DEF Recorded, Applied, Excepted, NextDown
      <3>1. CASE r.kind = "delete" /\ v = Max(r.todo)
        BY <3>1, <1>1 DEF Excepted, NextDown
      <3>2. CASE \E q \in Processes : q # p /\ run[q].kind = "delete" /\ NextDown(q) = v
        <4>1. PICK q \in Processes : q # p /\ run[q].kind = "delete" /\ NextDown(q) = v
          BY <3>2
        <4>2. run'[q] = run[q]
          BY <4>1, <1>1
        <4>3. run'[q].kind = "delete" /\ NextDown(q)' = v
          BY <4>1, <4>2 DEF NextDown
        <4> QED BY <4>3 DEF Excepted
      <3> QED BY <3>1, <3>2, <1>3
    <2> QED BY <2>2, <2>3, <2>4
  <1> QED BY <1>1, <1>2, <1>3 DEF SchemaInv

\* A version that a rollback of another process has in its delete stays excepted.
LEMMA StillExcepted ==
  ASSUME NEW p \in Processes, NEW v, run[p].kind # "delete", Excepted(v)
  PROVE  \E q \in Processes : q # p /\ run[q].kind = "delete" /\ NextDown(q) = v
  BY DEF Excepted

\* p gives up or ends with nothing written.
LEMMA IdleKeeps ==
  ASSUME SchemaInv, NEW p \in Processes, RunsOn(p, Idle), run[p].kind # "delete",
         UNCHANGED <<table, records, tables, indexes, rollbacks, faults>>
  PROVE  SchemaInv'
  <1>0. SaneRun(Idle) /\ Idle.kind = "idle"
    BY DEF SaneRun, Idle, Runs
  <1>1. /\ run' \in [Processes -> Runs] /\ tangled' \in BOOLEAN
        /\ ~tangled' => ~tangled
    BY <1>0, RunChanges
  <1>2. SchemaTypeOK'
    BY <1>1 DEF SchemaInv, SchemaTypeOK
  <1>3. \A v \in Versions : Applied(v) <=> Applied(v)'
    BY DEF Applied
  <1>4. ASSUME ~tangled'
        PROVE  \A v \in records' :
             \/ Applied(v)'
             \/ \E q \in Processes : q # p /\ run[q].kind = "delete" /\ NextDown(q) = v
    <2> SUFFICES ASSUME NEW v \in records'
                 PROVE  \/ Applied(v)'
                        \/ \E q \in Processes : q # p /\ run[q].kind = "delete" /\ NextDown(q) = v
      OBVIOUS
    <2>1. v \in Versions /\ (Applied(v) \/ Excepted(v))
      BY <1>1, <1>4 DEF SchemaInv, SchemaTypeOK, Recorded
    <2> QED BY <2>1, <1>3, StillExcepted
  <1> QED BY <1>0, <1>2, <1>3, <1>4, StepKeeps

LEMMA StartMigrateKeeps ==
  ASSUME SchemaInv, NEW p \in Processes, StartMigrate(p)
  PROVE  SchemaInv'
  <1> DEFINE r == [kind |-> "migrate", todo |-> Versions \ records, done |-> {}]
  <1>1. SaneRun(r) /\ r.kind = "migrate" /\ r.done = {}
    BY DEF SaneRun, Idle, Runs
  <1>2. RunsOn(p, r) /\ ~Locked /\ run[p] = Idle /\ UNCHANGED <<table, records, tables, indexes, rollbacks, faults>>
    BY DEF StartMigrate
  <1> HIDE DEF r
  <1>3. /\ run' \in [Processes -> Runs] /\ tangled' \in BOOLEAN
        /\ ~tangled' => ~tangled
    BY <1>1, <1>2, RunChanges
  <1>4. SchemaTypeOK'
    BY <1>2, <1>3 DEF SchemaInv, SchemaTypeOK
  <1>5. \A v \in Versions : Applied(v) <=> Applied(v)'
    BY <1>2 DEF Applied
  <1>6. ASSUME ~tangled', NEW v \in records'
        PROVE  \/ Applied(v)'
               \/ \E q \in Processes : q # p /\ run[q].kind = "delete" /\ NextDown(q) = v
    <2>1. v \in Versions /\ (Applied(v) \/ Excepted(v))
      BY <1>2, <1>3, <1>6 DEF SchemaInv, SchemaTypeOK, Recorded
    <2>2. run[p].kind # "delete"
      BY <1>2 DEF Idle
    <2> QED BY <2>1, <2>2, <1>5, StillExcepted
  <1> QED BY <1>1, <1>2, <1>4, <1>5, <1>6, StepKeeps

LEMMA UpKeeps ==
  ASSUME SchemaInv, NEW p \in Processes, Up(p)
  PROVE  SchemaInv'
  <1> DEFINE u == NextUp(p)
             r == [run[p] EXCEPT !.todo = @ \ {u}, !.done = @ \cup {u}]
  <1>1. /\ run[p] \in Runs /\ run[p].kind = "migrate" /\ run[p].todo \in SUBSET Versions
        /\ run[p].todo # {}
    BY DEF SchemaInv, SchemaTypeOK, Up, Migrating, Runs
  <1>2. u \in Versions
    BY <1>1, NextVersion DEF NextUp
  <1>3. /\ RunsOn(p, r) /\ UNCHANGED <<table, records, rollbacks, faults>>
        /\ Indexed(u) \subseteq tables
        /\ tables' = tables \cup Creates(u) /\ indexes' = indexes \cup Indexed(u)
    BY DEF Up, Missing
  <1> HIDE DEF u
  <1>4. r.kind = "migrate" /\ r.done = run[p].done \cup {u} /\ r \in Runs
    BY <1>1, <1>2 DEF Runs
  <1>5. SaneRun(r)
    BY <1>4 DEF SaneRun, Idle
  <1> HIDE DEF r
  <1>6. /\ run' \in [Processes -> Runs] /\ tangled' \in BOOLEAN
        /\ ~tangled' => ~tangled
    BY <1>3, <1>5, RunChanges
  <1>7. SchemaTypeOK'
    <2>1. Creates(u) \subseteq Tables
      BY <1>2, VersionFacts
    <2> QED BY <1>3, <1>6, <2>1 DEF SchemaInv, SchemaTypeOK
  <1>8. \A v \in Versions : Applied(v) => Applied(v)'
    BY <1>3 DEF Applied
  <1>9. ASSUME ~tangled', NEW v \in r.done PROVE Applied(v)'
    <2>1. CASE v = u
      <3>1. Creates(u) \subseteq tables' /\ Indexed(u) \subseteq indexes'
        BY <1>3
      <3> QED BY <3>1, <2>1 DEF Applied
    <2>2. CASE v \in run[p].done
      <3>1. v \in Versions /\ Applied(v)
        BY <2>2, <1>1, <1>6, <1>9 DEF SchemaInv, DoneIsThere, Migrating, Runs
      <3> QED BY <3>1, <1>8
    <2> QED BY <2>1, <2>2, <1>4
  <1>10. ASSUME ~tangled', NEW v \in records'
         PROVE  \/ Applied(v)'
                \/ \E q \in Processes : q # p /\ run[q].kind = "delete" /\ NextDown(q) = v
    <2>1. v \in Versions /\ (Applied(v) \/ Excepted(v))
      BY <1>3, <1>6, <1>10 DEF SchemaInv, SchemaTypeOK, Recorded
    <2> QED BY <1>1, <2>1, <1>8, StillExcepted
  <1>11. Migrating(p)
    BY <1>1 DEF Migrating
  <1> QED BY <1>3, <1>4, <1>5, <1>7, <1>8, <1>9, <1>10, <1>11, StepKeeps

LEMMA CommitKeeps ==
  ASSUME SchemaInv, NEW p \in Processes, CommitMigrate(p)
  PROVE  SchemaInv'
  <1>0. SaneRun(Idle) /\ Idle.kind = "idle"
    BY DEF SaneRun, Idle, Runs
  <1>1. /\ RunsOn(p, Idle) /\ UNCHANGED <<tables, indexes, rollbacks, faults>>
        /\ Migrating(p) /\ records' = records \cup run[p].done /\ table' = TRUE
    BY DEF CommitMigrate
  <1>2. /\ run' \in [Processes -> Runs] /\ tangled' \in BOOLEAN
        /\ ~tangled' => ~tangled
    BY <1>0, <1>1, RunChanges
  <1>3. run[p].done \subseteq Versions
    BY DEF SchemaInv, SchemaTypeOK, Runs
  <1>4. SchemaTypeOK'
    BY <1>1, <1>2, <1>3 DEF SchemaInv, SchemaTypeOK
  <1>5. \A v \in Versions : Applied(v) <=> Applied(v)'
    BY <1>1 DEF Applied
  <1>6. ASSUME ~tangled', NEW q \in Processes PROVE ~Rolling(q)
    BY <1>1, <1>2, <1>6 DEF SchemaInv, Apart
  <1>7. ASSUME ~tangled', NEW v \in records' PROVE Applied(v)'
    <2>1. v \in Versions
      BY <1>1, <1>3 DEF SchemaInv, SchemaTypeOK
    <2>2. CASE v \in run[p].done
      BY <2>1, <2>2, <1>1, <1>2, <1>5, <1>7 DEF SchemaInv, DoneIsThere
    <2>3. CASE v \in records
      <3>1. Applied(v) \/ Excepted(v)
        BY <2>3, <1>2, <1>7 DEF SchemaInv, Recorded
      <3>2. ~Excepted(v)
        BY <1>6, <1>7 DEF Excepted, Rolling
      <3> QED BY <3>1, <3>2, <2>1, <1>5
    <2> QED BY <2>2, <2>3, <1>1
  <1> QED BY <1>0, <1>1, <1>4, <1>5, <1>6, <1>7, StepKeeps

LEMMA StartRollbackKeeps ==
  ASSUME SchemaInv, NEW p \in Processes, NEW steps \in Int, StartRollback(p, steps),
         MaxRollbacks \in Nat
  PROVE  SchemaInv'
  <1> DEFINE last == {v \in records : Cardinality({w \in records : w > v}) < steps}
             r == IF last = {} THEN Idle ELSE [kind |-> "down", todo |-> last, done |-> {}]
  <1>1. /\ RunsOn(p, r) /\ run[p] = Idle /\ rollbacks < MaxRollbacks
        /\ table' = TRUE /\ rollbacks' = rollbacks + 1
        /\ UNCHANGED <<records, tables, indexes, faults>>
    BY DEF StartRollback
  <1>2. records \in SUBSET Versions /\ last \subseteq records
    BY DEF SchemaInv, SchemaTypeOK
  <1>3. \A v \in last, w \in records : w > v => w \in last
    <2> SUFFICES ASSUME NEW v \in last, NEW w \in records, w > v PROVE w \in last
      OBVIOUS
    <2> DEFINE A == {x \in records : x > w}
               B == {x \in records : x > v}
    <2>0. v \in Int /\ w \in Int /\ records \subseteq Int
      <3>1. v \in records /\ records \subseteq 1..6
        BY <1>2 DEF Versions
      <3> QED BY <3>1
    <2> HIDE DEF last
    <2>1. A \subseteq B
      <3> SUFFICES ASSUME NEW x \in records, x > w PROVE x > v
        OBVIOUS
      <3> QED BY <2>0
    <2>2. IsFiniteSet(B)
      <3>1. IsFiniteSet(Versions)
        <4>1. 1 \in Int /\ 6 \in Int
          OBVIOUS
        <4> QED BY <4>1, FS_Interval, Zenon DEF Versions
      <3> QED BY <3>1, <1>2, FS_Subset
    <2>2a. A \in SUBSET B
      BY <2>1
    <2> HIDE DEF A, B
    <2>3. Cardinality(A) <= Cardinality(B) /\ Cardinality(A) \in Nat /\ Cardinality(B) \in Nat
      <3>1. IsFiniteSet(A) /\ Cardinality(A) <= Cardinality(B)
        BY <2>2a, <2>2, FS_Subset, Zenon
      <3> QED BY <3>1, <2>2, FS_CardinalityType
    <2>4. Cardinality(B) < steps
      BY DEF B, last
    <2>5. Cardinality(A) < steps
      BY <2>3, <2>4
    <2> QED BY <2>5 DEF A, last
  <1> HIDE DEF last
  <1>4. SaneRun(r) /\ r.kind # "migrate"
    BY <1>2 DEF SaneRun, Idle, Runs
  <1>5. r.kind \in {"down", "delete"} => r.todo = last
    BY DEF Idle
  <1>5a. r.kind # "delete"
    BY DEF Idle
  <1> HIDE DEF r
  <1>6. /\ run' \in [Processes -> Runs] /\ tangled' \in BOOLEAN
        /\ ~tangled' => ~tangled
    BY <1>1, <1>4, RunChanges
  <1>7. SchemaTypeOK'
    BY <1>1, <1>6 DEF SchemaInv, SchemaTypeOK
  <1>8. \A v \in Versions : Applied(v) <=> Applied(v)'
    BY <1>1 DEF Applied
  <1>9. ASSUME ~tangled', NEW v \in records'
        PROVE  \/ Applied(v)'
               \/ \E q \in Processes : q # p /\ run[q].kind = "delete" /\ NextDown(q) = v
    <2>1. v \in Versions /\ (Applied(v) \/ Excepted(v))
      BY <1>1, <1>6, <1>9 DEF SchemaInv, SchemaTypeOK, Recorded
    <2>2. run[p].kind # "delete"
      BY <1>1 DEF Idle
    <2> QED BY <2>1, <2>2, <1>8, StillExcepted
  <1>10. r.kind \in {"down", "delete"} =>
             \A v \in r.todo, w \in records' : w > v => w \in r.todo
    BY <1>1, <1>3, <1>5
  <1> QED BY <1>1, <1>4, <1>7, <1>8, <1>9, <1>10, StepKeeps

LEMMA DownKeeps ==
  ASSUME SchemaInv, NEW p \in Processes, Down(p)
  PROVE  SchemaInv'
  <1> DEFINE d == NextDown(p)
             r == [run[p] EXCEPT !.kind = "delete"]
  <1>1. /\ run[p] \in Runs /\ run[p].kind = "down" /\ SaneRun(run[p])
    BY DEF SchemaInv, SchemaTypeOK, Down
  <1>2. run[p].todo \in SUBSET Versions /\ run[p].todo # {} /\ Rolling(p)
    BY <1>1 DEF Runs, SaneRun, Rolling
  <1>3. d \in run[p].todo /\ d \in Versions /\ \A v \in run[p].todo : v <= d
    BY <1>2, NextVersion DEF NextDown
  <1>4. /\ RunsOn(p, r) /\ UNCHANGED <<rollbacks, faults>>
        /\ tables' = tables \ Creates(d) /\ indexes' = indexes \ (Creates(d) \cup Indexed(d))
        /\ table' = (table /\ d # First)
        /\ records' = IF d = First THEN {} ELSE records
    BY DEF Down
  <1>5. /\ r.kind = "delete" /\ r.todo = run[p].todo /\ r \in Runs /\ d = Max(r.todo)
    BY <1>1 DEF Runs, NextDown
  <1> HIDE DEF d, r
  <1>6. SaneRun(r)
    BY <1>2, <1>5 DEF SaneRun, Idle
  <1>7. /\ run' \in [Processes -> Runs] /\ tangled' \in BOOLEAN
        /\ ~tangled' => ~tangled
    BY <1>4, <1>6, RunChanges
  <1>8. records' \subseteq records
    BY <1>4
  <1>9. SchemaTypeOK'
    BY <1>4, <1>7, <1>8 DEF SchemaInv, SchemaTypeOK
  <1>10. ASSUME ~tangled'
         PROVE  RollsFromTheEnd /\ Recorded /\ \A q \in Processes : ~Migrating(q)
    BY <1>2, <1>7, <1>10 DEF SchemaInv, Apart
  <1>11. ASSUME ~tangled', NEW v \in records'
         PROVE  \/ Applied(v)'
                \/ r.kind = "delete" /\ v = Max(r.todo)
                \/ \E q \in Processes : q # p /\ run[q].kind = "delete" /\ NextDown(q) = v
    <2>1. v \in Versions /\ v \in records /\ (Applied(v) \/ Excepted(v))
      BY <1>8, <1>10, <1>11 DEF SchemaInv, SchemaTypeOK, Recorded
    <2>2. CASE Excepted(v)
      BY <2>2, <1>1, StillExcepted
    <2>3. CASE v = d
      BY <2>3, <1>5
    <2>4. CASE v # d /\ Applied(v)
      <3>1. ~(v > d)
        <4>1. v > d => v \in run[p].todo
          BY <2>1, <1>2, <1>3, <1>10, <1>11 DEF RollsFromTheEnd
        <4> QED BY <4>1, <1>3, <2>1 DEF Versions
      <3>2. v < d
        BY <2>1, <2>4, <3>1, <1>3 DEF Versions
      <3>3. v = 5 => Creates(d) \cap Indexed(5) = {}
        <4>1. v = 5 => d = 6
          BY <3>2, <1>3 DEF Versions
        <4>2. Creates(6) = {"provider_orders"} /\ "provider_orders" \notin Indexed(5)
          BY VersionFacts DEF Indexed, query_optimization_indexes
        <4> QED BY <4>1, <4>2
      <3>4. Indexed(v) \cap Creates(d) = {} /\ Indexed(v) \cap Indexed(d) = {}
        BY <3>3, <2>1, <2>4, <1>3, VersionFacts
      <3>5. Creates(v) \cap Creates(d) = {}
        BY <2>1, <2>4, <1>3, VersionFacts
      <3> QED BY <2>4, <3>4, <3>5, <1>4 DEF Applied
    <2> QED BY <2>1, <2>2, <2>3, <2>4
  <1>12. ~tangled' /\ r.kind \in {"down", "delete"} =>
             \A v \in r.todo, w \in records' : w > v => w \in r.todo
    BY <1>2, <1>5, <1>8, <1>10 DEF RollsFromTheEnd
  <1> QED BY <1>4, <1>5, <1>6, <1>8, <1>9, <1>10, <1>11, <1>12, StepKeeps

LEMMA DeleteKeeps ==
  ASSUME SchemaInv, NEW p \in Processes, DeleteRecord(p)
  PROVE  SchemaInv'
  <1> DEFINE d    == NextDown(p)
             left == run[p].todo \ {d}
             r    == IF ~table \/ left = {} THEN Idle
                     ELSE [kind |-> "down", todo |-> left, done |-> {}]
  <1>1. /\ run[p] \in Runs /\ run[p].kind = "delete" /\ SaneRun(run[p])
    BY DEF SchemaInv, SchemaTypeOK, DeleteRecord
  <1>2. run[p].todo \in SUBSET Versions /\ run[p].todo # {} /\ Rolling(p)
    BY <1>1 DEF Runs, SaneRun, Rolling
  <1>3. d \in run[p].todo
    BY <1>2, NextVersion DEF NextDown
  <1>4. /\ RunsOn(p, r) /\ UNCHANGED <<table, tables, indexes, rollbacks, faults>>
        /\ records' = records \ {d}
    BY DEF DeleteRecord
  <1>5. r.kind \in {"down", "delete"} => r.todo = run[p].todo \ {d}
    BY DEF Idle
  <1>6. SaneRun(r) /\ r.kind # "migrate"
    BY <1>2 DEF SaneRun, Idle, Runs
  <1>7. \A v : Excepted(v) => \/ v = d
                  \/ \E q \in Processes : q # p /\ run[q].kind = "delete" /\ NextDown(q) = v
    BY DEF Excepted
  <1> HIDE DEF d, r
  <1>8. /\ run' \in [Processes -> Runs] /\ tangled' \in BOOLEAN
        /\ ~tangled' => ~tangled
    BY <1>4, <1>6, RunChanges
  <1>9. SchemaTypeOK'
    BY <1>4, <1>8 DEF SchemaInv, SchemaTypeOK
  <1>10. \A v \in Versions : Applied(v) <=> Applied(v)'
    BY <1>4 DEF Applied
  <1>11. ASSUME ~tangled', NEW v \in records'
         PROVE  \/ Applied(v)'
                \/ \E q \in Processes : q # p /\ run[q].kind = "delete" /\ NextDown(q) = v
    <2>1. v \in Versions /\ v # d /\ (Applied(v) \/ Excepted(v))
      BY <1>4, <1>8, <1>11 DEF SchemaInv, SchemaTypeOK, Recorded
    <2> QED BY <2>1, <1>7, <1>10
  <1>12. ~tangled' /\ r.kind \in {"down", "delete"} =>
             \A v \in r.todo, w \in records' : w > v => w \in r.todo
    BY <1>2, <1>4, <1>5, <1>8 DEF RollsFromTheEnd, SchemaInv
  <1> QED BY <1>4, <1>6, <1>9, <1>10, <1>11, <1>12, StepKeeps

LEMMA AbortKeeps ==
  ASSUME SchemaInv, NEW p \in Processes, Abort(p), MaxFaults \in Nat
  PROVE  SchemaInv'
  <1>1. /\ run' = [run EXCEPT ![p] = Idle] /\ tangled' = (tangled \/ run[p].kind = "delete")
        /\ faults' = faults + 1 /\ faults < MaxFaults /\ run[p] # Idle
        /\ UNCHANGED <<table, records, tables, indexes, rollbacks>>
        /\ run \in [Processes -> Runs] /\ tangled \in BOOLEAN
    BY DEF Abort, SchemaInv, SchemaTypeOK
  <1>2. Idle \in Runs /\ Idle.kind = "idle"
    BY DEF Idle, Runs
  <1>3. /\ run' \in [Processes -> Runs] /\ run'[p] = Idle
        /\ \A q \in Processes : q # p => run'[q] = run[q]
    BY <1>1, <1>2
  <1>4. \A q \in Processes : run'[q].kind # "idle" => run'[q] = run[q] /\ q # p
    BY <1>2, <1>3
  <1>5. SchemaTypeOK'
    BY <1>1, <1>3 DEF SchemaInv, SchemaTypeOK
  <1>6. \A q \in Processes : SaneRun(run[q]')
    <2> SUFFICES ASSUME NEW q \in Processes PROVE SaneRun(run'[q])
      BY DEF SaneRun
    <2>1. CASE q = p
      BY <2>1, <1>2, <1>3 DEF SaneRun
    <2>2. CASE q # p
      BY <2>2, <1>3 DEF SchemaInv
    <2> QED BY <2>1, <2>2
  <1>7. ASSUME ~tangled' PROVE Apart' /\ DoneIsThere' /\ RollsFromTheEnd' /\ Recorded'
    <2>1. Apart /\ DoneIsThere /\ RollsFromTheEnd /\ Recorded /\ run[p].kind # "delete"
      BY <1>1, <1>7 DEF SchemaInv
    <2>2. Apart'
      BY <2>1, <1>4 DEF Apart, Migrating, Rolling
    <2>3. DoneIsThere'
      BY <2>1, <1>1, <1>4 DEF DoneIsThere, Migrating, Applied
    <2>4. RollsFromTheEnd'
      BY <2>1, <1>1, <1>4 DEF RollsFromTheEnd, Rolling
    <2>5. Recorded'
      <3> SUFFICES ASSUME NEW v \in records PROVE Applied(v)' \/ Excepted(v)'
        BY <1>1 DEF Recorded, Applied, Excepted, NextDown
      <3>1. CASE Applied(v)
        BY <3>1, <1>1 DEF Applied
      <3>2. CASE Excepted(v)
        <4>1. PICK q \in Processes : q # p /\ run[q].kind = "delete" /\ NextDown(q) = v
          BY <3>2, <2>1, StillExcepted
        <4>2. run'[q].kind = "delete" /\ NextDown(q)' = v
          BY <4>1, <1>3 DEF NextDown
        <4> QED BY <4>2 DEF Excepted
      <3> QED BY <3>1, <3>2, <2>1 DEF Recorded
    <2> QED BY <2>2, <2>3, <2>4, <2>5
  <1> QED BY <1>5, <1>6, <1>7 DEF SchemaInv

LEMMA ScriptKeeps ==
  ASSUME SchemaInv, NEW p \in Processes, NEW S \in SUBSET Nat, Script(p, S)
  PROVE  SchemaInv'
  <1>1. MaxRollbacks \in Nat /\ MaxFaults \in Nat
    BY MigrationBounds
  <1>2. CASE UpFails(p) \/ DownTimesOut(p)
    <2>1. run[p].kind # "delete" /\ RunsOn(p, Idle)
          /\ UNCHANGED <<table, records, tables, indexes, rollbacks, faults>>
      BY <1>2 DEF UpFails, DownTimesOut, Migrating
    <2> QED BY <2>1, IdleKeeps
  <1>3. CASE \E n \in S : StartRollback(p, n)
    <2>1. PICK n \in S : StartRollback(p, n)
      BY <1>3
    <2>2. n \in Int
      OBVIOUS
    <2> QED BY <2>1, <2>2, <1>1, StartRollbackKeeps
  <1> QED BY <1>1, <1>2, <1>3, StartMigrateKeeps, UpKeeps, CommitKeeps, DownKeeps, DeleteKeeps,
             AbortKeeps DEF Script, Settle

\* A step of the API's webhooks may only add to the faults.
LEMMA WebhooksKeep ==
  ASSUME SchemaInv, Undeployed, faults' \in 0..MaxFaults
  PROVE  SchemaInv'
  BY DEF SchemaInv, SchemaTypeOK, Undeployed, SaneRun, Apart, DoneIsThere, RollsFromTheEnd, Recorded,
         Migrating, Rolling, Applied, Excepted, NextDown

LEMMA SchemaStarts == Deploys => SchemaInv
  <1> SUFFICES ASSUME Deploys PROVE SchemaInv
    OBVIOUS
  <1>1. run = [p \in Processes |-> Idle] /\ rollbacks = 0 /\ faults = 0 /\ tangled = FALSE
    BY DEF Deploys, MigrationInit, Upgrades
  <1>2. Idle \in Runs /\ Idle.kind = "idle"
    BY DEF Idle, Runs
  <1>3. \A p \in Processes : run[p] = Idle /\ SaneRun(run[p])
    <2>1. SaneRun(Idle)
      BY <1>2 DEF SaneRun
    <2> QED BY <1>1, <2>1
  <1>4. run \in [Processes -> Runs] /\ rollbacks \in 0..MaxRollbacks /\ faults \in 0..MaxFaults
        /\ tangled \in BOOLEAN
    <2>1. MaxRollbacks \in Nat /\ MaxFaults \in Nat
      BY MigrationBounds
    <2>2. run \in [Processes -> Runs]
      BY <1>1, <1>2
    <2>3. rollbacks \in 0..MaxRollbacks /\ faults \in 0..MaxFaults
      BY <1>1, <2>1
    <2>4. tangled \in BOOLEAN
      BY <1>1, Zenon
    <2> QED BY <2>2, <2>3, <2>4
  <1>5. Apart /\ DoneIsThere /\ RollsFromTheEnd
    BY <1>2, <1>3 DEF Apart, DoneIsThere, RollsFromTheEnd, Migrating, Rolling
  <1>6. CASE MigrationInit
    <2>1. table \in BOOLEAN /\ records = {} /\ tables = {} /\ indexes = {}
      BY <1>6 DEF MigrationInit
    <2> QED BY <2>1, <1>3, <1>4, <1>5 DEF SchemaInv, SchemaTypeOK, Recorded
  <1>7. CASE Upgrades
    <2>1. table = TRUE /\ records = Versions \ {6} /\ tables = Tables \ provider_orders
          /\ indexes = Indexed(5)
      BY <1>7 DEF Upgrades
    <2>2. provider_orders = Creates(6) /\ 5 \in Versions /\ 6 \in Versions
      BY DEF Creates, Versions
    <2>3. \A v \in records : Creates(v) \subseteq tables
      BY <2>1, <2>2, VersionFacts
    <2>4. \A v \in records : Indexed(v) \subseteq indexes
      BY <2>1, VersionFacts
    <2>5. indexes \subseteq tables
      <3>1. Indexed(5) \subseteq initial_schema \cup analytics_schema \cup integrity_audit_log
        BY DEF Indexed, query_optimization_indexes, initial_schema, analytics_schema,
               integrity_audit_log
      <3>2. Creates(1) = initial_schema /\ Creates(3) = analytics_schema
            /\ Creates(4) = integrity_audit_log
        BY DEF Creates
      <3>3. 1 \in records /\ 3 \in records /\ 4 \in records
        BY <2>1 DEF Versions
      <3> QED BY <3>1, <3>2, <3>3, <2>1, <2>3
    <2> QED BY <2>1, <2>3, <2>4, <2>5, <1>3, <1>4, <1>5 DEF SchemaInv, SchemaTypeOK, Recorded, Applied
  <1> QED BY <1>6, <1>7 DEF Deploys

\* The webhooks in progress: each knows its event from the lookup to the answer, and the
\* one about to be answered has been written or is excused.
SlotOK(s) ==
    /\ s.stage = "free" <=> s = O!Free
    /\ s \in [stage : O!Stages, event : Events \cup {"none"}]
    /\ s.stage # "free" => s.event \in Events
OrdersInv ==
    /\ O!TypeOK /\ O!AnsweredIsStored /\ O!SeenIsTaken
    /\ slot \in [Slots -> [stage : O!Stages, event : Events \cup {"none"}]]
    /\ \A d \in Slots : SlotOK(slot[d])
    /\ seen \cup answered \subseteq Events
    /\ \A d \in Slots, e \in Events :
           slot[d].stage = "answer" /\ slot[d].event = e => e \in excused \/ O!InRow(e)

\* What the order's row keeps: once an event is in it, it is in it whatever event comes next.
LEMMA RowKeeps ==
  ASSUME NEW e \in Events, NEW x \in Events, row' = O!Upserted(x), O!TypeOK
  PROVE  /\ O!InRow(x)' /\ (O!InRow(e) => O!InRow(e)')
         /\ row' \in [status : Events \cup {"none"}, completed : BOOLEAN]
  <1>1. x # "none"
    BY EventsAssumption
  <1>2. row.completed \in BOOLEAN
    BY DEF O!TypeOK
  <1>3. row'.status = x /\ row'.completed = (x \in Completing \/ row.completed)
    BY DEF O!Upserted
  <1>4. row' # O!NoRow
    BY <1>1, <1>3 DEF O!NoRow
  <1>5. row' \in [status : Events \cup {"none"}, completed : BOOLEAN]
    BY <1>2 DEF O!Upserted
  <1> QED BY <1>3, <1>4, <1>5 DEF O!InRow

LEMMA SlotGoes ==
  ASSUME OrdersInv, NEW d \in Slots, NEW stage \in O!Stages \ {"free"}, slot[d].stage # "free",
         O!Goes(d, stage)
  PROVE  \E s : /\ SlotOK(s) /\ s \in [stage : O!Stages, event : Events \cup {"none"}]
                /\ slot' = [slot EXCEPT ![d] = s]
                /\ s.stage = stage /\ s.event = slot[d].event /\ s.event \in Events
  <1>1. slot[d] \in [stage : O!Stages, event : Events \cup {"none"}] /\ slot[d].event \in Events
    BY DEF OrdersInv, SlotOK
  <1>2. slot' = [slot EXCEPT ![d] = [slot[d] EXCEPT !.stage = stage]]
    BY DEF O!Goes, OrdersInv
  <1>3. PICK s : s = [slot[d] EXCEPT !.stage = stage]
    OBVIOUS
  <1>4. s \in [stage : O!Stages, event : Events \cup {"none"}]
        /\ s.stage = stage /\ s.event = slot[d].event
    BY <1>1, <1>3
  <1>5. SlotOK(s)
    BY <1>1, <1>4 DEF SlotOK, O!Free
  <1> QED BY <1>1, <1>2, <1>3, <1>4, <1>5

\* What the step of one webhook has to show: the others' slots stay.
LEMMA WebhookKeeps ==
  ASSUME OrdersInv, NEW d \in Slots, NEW s, SlotOK(s), NEW old, old = slot[d].event,
         s \in [stage : O!Stages, event : Events \cup {"none"}],
         slot' = [slot EXCEPT ![d] = s],
         row' \in [status : Events \cup {"none"}, completed : BOOLEAN],
         \A e \in Events : O!InRow(e) => O!InRow(e)',
         seen' \subseteq Events, answered' \subseteq Events, excused \subseteq excused',
         excused' \subseteq Events \cup {"none"}, cut' \subseteq Events \cup {"none"},
         faults' \in 0..MaxFaults,
         s.stage = "answer" => s.event \in excused' \/ O!InRow(s.event)',
         \A e \in answered' \ answered : e \in excused' \/ O!InRow(e)',
         \A e \in seen' \ seen : s.stage \in {"save", "answer"} /\ s.event = e,
         \A e \in cut \ cut' : O!InRow(e)',
         slot[d].stage \in {"save", "answer"} =>
             \/ old \in excused' \/ O!InRow(old)'
             \/ s.stage \in {"save", "answer"} /\ s.event = old
  PROVE  OrdersInv'
  <1>0. slot \in [Slots -> [stage : O!Stages, event : Events \cup {"none"}]]
    BY DEF OrdersInv
  <1>1. /\ slot' \in [Slots -> [stage : O!Stages, event : Events \cup {"none"}]]
        /\ slot'[d] = s /\ \A x \in Slots : x # d => slot'[x] = slot[x]
    BY <1>0
  <1>2. \A x \in Slots : SlotOK(slot[x]')
    <2> SUFFICES ASSUME NEW x \in Slots PROVE SlotOK(slot'[x])
      BY DEF SlotOK
    <2>1. CASE x = d
      BY <2>1, <1>1
    <2>2. CASE x # d
      BY <2>2, <1>1 DEF OrdersInv
    <2> QED BY <2>1, <2>2
  <1>3. \A x \in Slots : slot'[x].stage \in O!Stages
    BY <1>1
  <1>4. O!TypeOK'
    BY <1>3 DEF O!TypeOK
  <1>5. ASSUME NEW x \in Slots, NEW e \in Events, slot'[x].stage = "answer", slot'[x].event = e
        PROVE  e \in excused' \/ O!InRow(e)'
    <2>1. CASE x = d
      BY <2>1, <1>1, <1>5
    <2>2. CASE x # d
      <3>1. slot'[x] = slot[x]
        BY <2>2, <1>1
      <3>2. e \in excused \/ O!InRow(e)
        BY <3>1, <1>5 DEF OrdersInv
      <3> QED BY <3>2
    <2> QED BY <2>1, <2>2
  <1>6. O!AnsweredIsStored'
    <2> SUFFICES ASSUME NEW e \in answered', e \notin excused' PROVE O!InRow(e)'
      BY DEF O!AnsweredIsStored, O!InRow
    <2>1. CASE e \in answered
      <3>1. e \in Events /\ O!InRow(e)
        BY <2>1 DEF OrdersInv, O!AnsweredIsStored
      <3> QED BY <3>1
    <2> QED BY <2>1
  <1>7. O!SeenIsTaken'
    <2> SUFFICES ASSUME NEW e \in seen', e \notin excused', e \notin cut'
                 PROVE  O!InRow(e)' \/ O!Writing(e)'
      BY DEF O!SeenIsTaken, O!InRow, O!Writing
    <2>1. CASE e \notin seen
      BY <2>1, <1>1 DEF O!Writing
    <2>2. CASE e \in seen /\ e \in cut
      BY <2>2
    <2>3. CASE e \in seen /\ e \notin cut
      <3>1. e \in Events /\ (O!InRow(e) \/ O!Writing(e))
        BY <2>3 DEF OrdersInv, O!SeenIsTaken
      <3>2. CASE O!Writing(e)
        <4>1. PICK x \in Slots : slot[x].event = e /\ slot[x].stage \in {"save", "answer"}
          BY <3>2 DEF O!Writing
        <4>2. CASE x # d
          BY <4>1, <4>2, <1>1 DEF O!Writing
        <4>3. CASE x = d /\ s.stage \in {"save", "answer"} /\ s.event = e
          BY <4>3, <1>1 DEF O!Writing
        <4>4. CASE x = d /\ ~(s.stage \in {"save", "answer"} /\ s.event = e)
          <5>1. old = e /\ slot[d].stage \in {"save", "answer"}
            BY <4>1, <4>4
          <5>2. O!InRow(old)'
            BY <4>4, <5>1
          <5> QED BY <5>1, <5>2 DEF O!InRow
        <4> QED BY <4>2, <4>3, <4>4
      <3> QED BY <3>1, <3>2
    <2> QED BY <2>1, <2>2, <2>3
  <1> QED BY <1>1, <1>2, <1>4, <1>5, <1>6, <1>7 DEF OrdersInv

LEMMA FreeSlot == SlotOK(O!Free) /\ O!Free \in [stage : O!Stages, event : Events \cup {"none"}]
                  /\ O!Free.stage = "free"
  BY DEF SlotOK, O!Free, O!Stages

LEMMA WebhookStep ==
  ASSUME OrdersInv, NEW d \in Slots, faults \in 0..MaxFaults, MaxFaults \in Nat,
         \/ \E e \in Events : O!Deliver(d, e)
         \/ O!LookUp(d) \/ O!Note(d) \/ O!PassUnchecked(d) \/ O!Save(d) \/ O!SaveFails(d)
         \/ O!Answer(d)
  PROVE  OrdersInv' /\ faults' \in 0..MaxFaults
  <1>1. PICK old : old = slot[d].event
    OBVIOUS
  <1>2. /\ row \in [status : Events \cup {"none"}, completed : BOOLEAN]
        /\ seen \subseteq Events /\ answered \subseteq Events
        /\ excused \subseteq Events \cup {"none"} /\ cut \subseteq Events \cup {"none"}
        /\ slot[d] \in [stage : O!Stages, event : Events \cup {"none"}] /\ SlotOK(slot[d])
    BY DEF OrdersInv, O!TypeOK
  <1>3. row' = row => \A e \in Events : O!InRow(e) => O!InRow(e)'
    BY DEF O!InRow
  <1>4. \A stage \in O!Stages \ {"free"} : slot[d].stage # "free" /\ O!Goes(d, stage) =>
            \E s : /\ SlotOK(s) /\ s \in [stage : O!Stages, event : Events \cup {"none"}]
                   /\ slot' = [slot EXCEPT ![d] = s]
                   /\ s.stage = stage /\ s.event = old /\ s.event \in Events
    BY <1>1, SlotGoes
  <1>5. {"get", "setex", "save", "answer"} \subseteq O!Stages \ {"free"}
    BY DEF O!Stages
  <1>6. CASE \E e \in Events : O!Deliver(d, e)
    <2>1. PICK e \in Events : O!Deliver(d, e)
      BY <1>6
    <2> DEFINE s == [stage |-> "get", event |-> e]
    <2>2. /\ slot[d] = O!Free /\ slot' = [slot EXCEPT ![d] = s]
          /\ UNCHANGED <<row, seen, answered, excused, cut, faults>>
      BY <2>1 DEF O!Deliver
    <2>3. SlotOK(s) /\ s \in [stage : O!Stages, event : Events \cup {"none"}] /\ s.stage = "get"
      BY <1>5 DEF SlotOK, O!Free
    <2> HIDE DEF s
    <2>4. OrdersInv'
      BY <1>1, <1>2, <1>3, <2>2, <2>3, FreeSlot, WebhookKeeps
    <2> QED BY <2>2, <2>4
  <1>7. CASE O!LookUp(d)
    <2>1. slot[d].stage = "get" /\ UNCHANGED <<row, seen, answered, excused, cut, faults>>
      BY <1>7 DEF O!LookUp
    <2>2. \E s : /\ SlotOK(s) /\ s \in [stage : O!Stages, event : Events \cup {"none"}]
                 /\ slot' = [slot EXCEPT ![d] = s] /\ s.stage \in {"free", "setex"}
      BY <1>4, <1>5, <1>7, <2>1, FreeSlot DEF O!LookUp
    <2>3. PICK s : /\ SlotOK(s) /\ s \in [stage : O!Stages, event : Events \cup {"none"}]
                   /\ slot' = [slot EXCEPT ![d] = s] /\ s.stage \in {"free", "setex"}
      BY <2>2
    <2>4. OrdersInv'
      BY <1>1, <1>2, <1>3, <2>1, <2>3, WebhookKeeps
    <2> QED BY <2>1, <2>4
  <1>8. CASE O!Note(d)
    <2>1. /\ slot[d].stage = "setex" /\ O!Goes(d, "save") /\ seen' = seen \cup {old}
          /\ UNCHANGED <<row, answered, excused, cut, faults>>
      BY <1>1, <1>8 DEF O!Note
    <2>2. PICK s : /\ SlotOK(s) /\ s \in [stage : O!Stages, event : Events \cup {"none"}]
                   /\ slot' = [slot EXCEPT ![d] = s]
                   /\ s.stage = "save" /\ s.event = old /\ s.event \in Events
      BY <1>4, <1>5, <2>1
    <2>3. seen' \subseteq Events /\ \A e \in seen' \ seen : s.stage \in {"save", "answer"} /\ s.event = e
      BY <1>2, <2>1, <2>2
    <2>4. OrdersInv'
      BY <1>1, <1>2, <1>3, <2>1, <2>2, <2>3, WebhookKeeps
    <2> QED BY <2>1, <2>4
  <1>9. CASE O!PassUnchecked(d)
    <2>1. /\ slot[d].stage \in {"get", "setex"} /\ O!Goes(d, "save")
          /\ UNCHANGED <<row, seen, answered, excused, cut, faults>>
      BY <1>9 DEF O!PassUnchecked
    <2>2. PICK s : /\ SlotOK(s) /\ s \in [stage : O!Stages, event : Events \cup {"none"}]
                   /\ slot' = [slot EXCEPT ![d] = s]
                   /\ s.stage = "save" /\ s.event = old /\ s.event \in Events
      BY <1>4, <1>5, <2>1
    <2>3. OrdersInv'
      BY <1>1, <1>2, <1>3, <2>1, <2>2, WebhookKeeps
    <2> QED BY <2>1, <2>3
  <1>10. CASE O!Save(d)
    <2>1. /\ slot[d].stage = "save" /\ O!Goes(d, "answer") /\ row' = O!Upserted(old)
          /\ cut' = cut \ {old} /\ UNCHANGED <<seen, answered, excused, faults>>
      BY <1>1, <1>10 DEF O!Save
    <2>2. PICK s : /\ SlotOK(s) /\ s \in [stage : O!Stages, event : Events \cup {"none"}]
                   /\ slot' = [slot EXCEPT ![d] = s]
                   /\ s.stage = "answer" /\ s.event = old /\ s.event \in Events
      BY <1>4, <1>5, <2>1
    <2>3. O!TypeOK /\ old \in Events
      BY <2>2 DEF OrdersInv
    <2>4. /\ O!InRow(old)' /\ (\A e \in Events : O!InRow(e) => O!InRow(e)')
          /\ row' \in [status : Events \cup {"none"}, completed : BOOLEAN]
      BY <2>1, <2>3, RowKeeps
    <2>5. OrdersInv'
      <3>1. O!InRow(s.event)'
        BY <2>2, <2>4 DEF O!InRow
      <3>2. \A e \in cut \ cut' : O!InRow(e)'
        <4> SUFFICES ASSUME NEW e \in cut \ cut' PROVE O!InRow(e)'
          OBVIOUS
        <4>1. e = old
          BY <2>1
        <4> QED BY <4>1, <2>4
      <3> QED BY <1>1, <1>2, <2>1, <2>2, <2>4, <3>1, <3>2, WebhookKeeps
    <2> QED BY <2>1, <2>5
  <1>11. CASE O!SaveFails(d)
    <2>1. /\ slot[d].stage = "save" /\ O!Goes(d, "answer") /\ excused' = excused \cup {old}
          /\ UNCHANGED <<row, seen, answered, cut>>
          /\ ~O!HasTable \/ faults < MaxFaults
          /\ faults' = IF O!HasTable THEN faults + 1 ELSE faults
      BY <1>1, <1>11 DEF O!SaveFails
    <2>2. PICK s : /\ SlotOK(s) /\ s \in [stage : O!Stages, event : Events \cup {"none"}]
                   /\ slot' = [slot EXCEPT ![d] = s]
                   /\ s.stage = "answer" /\ s.event = old /\ s.event \in Events
      BY <1>4, <1>5, <2>1
    <2>3. faults' \in 0..MaxFaults
      BY <2>1
    <2>4. excused \subseteq excused' /\ excused' \subseteq Events \cup {"none"} /\ s.event \in excused'
          /\ old \in excused'
      BY <1>2, <2>1, <2>2
    <2>5. OrdersInv'
      BY <1>1, <1>2, <1>3, <2>1, <2>2, <2>3, <2>4, WebhookKeeps
    <2> QED BY <2>3, <2>5
  <1>12. CASE O!Answer(d)
    <2>1. /\ slot[d].stage = "answer" /\ answered' = answered \cup {old}
          /\ slot' = [slot EXCEPT ![d] = O!Free]
          /\ UNCHANGED <<row, seen, excused, cut, faults>>
      BY <1>1, <1>12 DEF O!Answer
    <2>2. old \in Events /\ (old \in excused \/ O!InRow(old))
      BY <1>1, <1>2, <2>1 DEF OrdersInv, SlotOK
    <2>3. old \in excused' \/ O!InRow(old)'
      BY <1>3, <2>1, <2>2
    <2>4. answered' \subseteq Events /\ \A e \in answered' \ answered : e \in excused' \/ O!InRow(e)'
      <3>1. answered' \subseteq Events
        BY <1>2, <2>1, <2>2
      <3>2. ASSUME NEW e \in answered' \ answered PROVE e \in excused' \/ O!InRow(e)'
        <4>1. e = old
          BY <2>1
        <4> QED BY <4>1, <2>3
      <3> QED BY <3>1, <3>2
    <2>5. OrdersInv'
      BY <1>1, <1>2, <1>3, <2>1, <2>3, <2>4, FreeSlot, WebhookKeeps
    <2> QED BY <2>1, <2>5
  <1> QED BY <1>6, <1>7, <1>8, <1>9, <1>10, <1>11, <1>12

LEMMA KeyExpiresKeeps ==
  ASSUME OrdersInv, NEW e \in Events, O!KeyExpires(e)
  PROVE  OrdersInv'
  <1>1. /\ seen' = seen \ {e} /\ UNCHANGED <<row, slot, answered, excused, cut, faults>>
    BY DEF O!KeyExpires
  <1> QED BY <1>1 DEF OrdersInv, O!TypeOK, O!AnsweredIsStored, O!SeenIsTaken, O!InRow, O!Writing,
                     SlotOK

LEMMA CrashKeeps ==
  ASSUME OrdersInv, O!Crash, MaxFaults \in Nat, faults \in 0..MaxFaults
  PROVE  OrdersInv' /\ faults' \in 0..MaxFaults
  <1> DEFINE unwritten == {slot[d].event : d \in {x \in Slots : slot[x].stage = "save"}}
  <1>1. /\ cut' = cut \cup unwritten /\ slot' = [d \in Slots |-> O!Free]
        /\ faults < MaxFaults /\ faults' = faults + 1
        /\ UNCHANGED <<row, seen, answered, excused>>
    BY DEF O!Crash
  <1>2. unwritten \subseteq Events \cup {"none"}
    BY DEF OrdersInv
  <1>3. \A e \in Events : O!Writing(e) => e \in unwritten \/ e \in excused \/ O!InRow(e)
    <2> SUFFICES ASSUME NEW e \in Events, O!Writing(e) PROVE e \in unwritten \/ e \in excused \/ O!InRow(e)
      OBVIOUS
    <2>1. PICK d \in Slots : slot[d].event = e /\ slot[d].stage \in {"save", "answer"}
      BY DEF O!Writing
    <2>2. CASE slot[d].stage = "save"
      BY <2>1, <2>2
    <2>3. CASE slot[d].stage = "answer"
      BY <2>1, <2>3 DEF OrdersInv
    <2> QED BY <2>1, <2>2, <2>3
  <1> HIDE DEF unwritten
  <1>4. \A d \in Slots : slot'[d] = O!Free
    BY <1>1
  <1>5. faults' \in 0..MaxFaults
    BY <1>1
  <1>6. O!TypeOK'
    BY <1>1, <1>2, <1>4, <1>5, FreeSlot DEF OrdersInv, O!TypeOK
  <1>7. O!AnsweredIsStored'
    BY <1>1 DEF OrdersInv, O!AnsweredIsStored, O!InRow
  <1>8. O!SeenIsTaken'
    <2> SUFFICES ASSUME NEW e \in seen, e \notin excused, e \notin cut'
                 PROVE  O!InRow(e)'
      BY <1>1 DEF O!SeenIsTaken, O!InRow, O!Writing
    <2>1. e \in Events /\ (O!InRow(e) \/ O!Writing(e))
      BY <1>1 DEF OrdersInv, O!SeenIsTaken
    <2>2. O!InRow(e)
      BY <1>1, <1>3, <2>1
    <2> QED BY <1>1, <2>2 DEF O!InRow
  <1>9. slot' \in [Slots -> [stage : O!Stages, event : Events \cup {"none"}]]
    BY <1>1, FreeSlot
  <1>10. \A d \in Slots : SlotOK(slot[d]')
    <2> SUFFICES ASSUME NEW d \in Slots PROVE SlotOK(slot'[d])
      BY DEF SlotOK
    <2> QED BY <1>4, FreeSlot
  <1>11. \A d \in Slots : slot'[d].stage # "answer"
    BY <1>4, FreeSlot
  <1> QED BY <1>1, <1>5, <1>6, <1>7, <1>8, <1>9, <1>10, <1>11 DEF OrdersInv

\* A migration may drop the table, and the row with it; whoever was or will be answered for it
\* is excused.
LEMMA MigratedKeeps ==
  ASSUME OrdersInv, O!Migrated, faults' \in 0..MaxFaults
  PROVE  OrdersInv'
  <1> DEFINE told == {slot[d].event : d \in {x \in Slots : slot[x].stage = "answer"}}
  <1>1. UNCHANGED <<seen, slot, answered, cut>>
    BY DEF O!Migrated
  <1>2. CASE UNCHANGED <<row, excused>>
    BY <1>1, <1>2 DEF OrdersInv, O!TypeOK, O!AnsweredIsStored, O!SeenIsTaken, O!InRow, O!Writing,
                      SlotOK
  <1>3. CASE row' = O!NoRow /\ excused' = excused \cup answered \cup seen \cup told
    <2>1. told \subseteq Events \cup {"none"}
      BY DEF OrdersInv
    <2>2. \A d \in Slots : slot[d].stage = "answer" => slot[d].event \in told
      OBVIOUS
    <2> HIDE DEF told
    <2>3. O!NoRow \in [status : Events \cup {"none"}, completed : BOOLEAN]
      BY Zenon DEF O!NoRow
    <2>4. excused' \subseteq Events \cup {"none"}
      BY <1>3, <2>1 DEF OrdersInv, O!TypeOK
    <2>5. O!TypeOK'
      BY <1>1, <1>3, <2>3, <2>4 DEF OrdersInv, O!TypeOK
    <2>6. O!AnsweredIsStored' /\ O!SeenIsTaken'
      BY <1>1, <1>3 DEF O!AnsweredIsStored, O!SeenIsTaken
    <2>7. \A d \in Slots : slot[d].stage = "answer" => slot[d].event \in excused'
      BY <1>3, <2>2
    <2> QED BY <1>1, <2>5, <2>6, <2>7 DEF OrdersInv, SlotOK
  <1> QED BY <1>2, <1>3 DEF O!Migrated

LEMMA OrdersStart ==
  ASSUME O!Init, faults = 0, MaxFaults \in Nat
  PROVE  OrdersInv
  <1>1. /\ row = O!NoRow /\ seen = {} /\ answered = {} /\ excused = {} /\ cut = {}
        /\ slot = [d \in Slots |-> O!Free]
    BY DEF O!Init
  <1>2. O!NoRow \in [status : Events \cup {"none"}, completed : BOOLEAN]
    BY Zenon DEF O!NoRow
  <1>3. slot \in [Slots -> [stage : O!Stages, event : Events \cup {"none"}]]
    BY <1>1, FreeSlot
  <1>4. \A d \in Slots : slot[d] = O!Free
    BY <1>1
  <1>5. O!TypeOK
    BY <1>1, <1>2, <1>3 DEF O!TypeOK
  <1>6. O!AnsweredIsStored /\ O!SeenIsTaken
    BY <1>1 DEF O!AnsweredIsStored, O!SeenIsTaken
  <1> QED BY <1>1, <1>3, <1>4, <1>5, <1>6, FreeSlot DEF OrdersInv

LEMMA DeployKeeps ==
  ASSUME SchemaInv, OrdersInv, [DeployStep]_allVars
  PROVE  SchemaInv' /\ OrdersInv'
  <1>0. /\ MaxFaults \in Nat /\ StepChoices \in SUBSET Nat /\ {1} \in SUBSET Nat
        /\ faults \in 0..MaxFaults
    BY MigrationBounds DEF SchemaInv, SchemaTypeOK
  <1>1. CASE /\ MigrationNext \/ \E p \in Processes : Script(p, {1})
             /\ O!Migrated
    <2>1. SchemaInv'
      BY <1>0, <1>1, ScriptKeeps DEF MigrationNext
    <2> QED BY <1>1, <2>1, MigratedKeeps DEF SchemaInv, SchemaTypeOK
  <1>2. CASE O!Next /\ Undeployed
    <2>1. OrdersInv' /\ faults' \in 0..MaxFaults
      <3>1. CASE \E d \in Slots :
                   \/ \E e \in Events : O!Deliver(d, e)
                   \/ O!LookUp(d) \/ O!Note(d) \/ O!PassUnchecked(d) \/ O!Save(d) \/ O!SaveFails(d)
                   \/ O!Answer(d)
        BY <1>0, <3>1, WebhookStep
      <3>2. CASE \E e \in Events : O!KeyExpires(e)
        BY <1>0, <3>2, KeyExpiresKeeps DEF O!KeyExpires
      <3>3. CASE O!Crash
        BY <1>0, <3>3, CrashKeeps
      <3> QED BY <1>2, <3>1, <3>2, <3>3 DEF O!Next
    <2> QED BY <1>2, <2>1, WebhooksKeep
  <1>3. CASE UNCHANGED allVars
    BY <1>3 DEF allVars, schemaVars, orderVars, SchemaInv, SchemaTypeOK, SaneRun, Apart, DoneIsThere,
                RollsFromTheEnd, Recorded, Migrating, Rolling, Applied, Excepted, NextDown,
                OrdersInv, O!TypeOK, O!AnsweredIsStored, O!SeenIsTaken, O!InRow, O!Writing, SlotOK
  <1> QED BY <1>1, <1>2, <1>3 DEF DeployStep

\* A version that schema_migrations holds is in the schema, whatever migrate and rollback do
\* in whatever processes: only a rollback cut off between its two commits, or one that met a
\* migrate, leaves a record without its tables.
THEOREM SchemaHoldsWhatIsRecorded == Deploying => []RecordedIsThere
  <1>1. Deploys => SchemaInv /\ OrdersInv
    BY SchemaStarts, OrdersStart, MigrationBounds DEF Deploys, MigrationInit, Upgrades
  <1>2. SchemaInv /\ OrdersInv /\ [DeployStep]_allVars => (SchemaInv /\ OrdersInv)'
    BY DeployKeeps
  <1>3. SchemaInv => RecordedIsThere
    BY DEF SchemaInv, RecordedIsThere, Recorded, Excepted
  <1> QED BY <1>1, <1>2, <1>3, PTL DEF Deploying

\* An order's webhook that was answered 200, or refused as already processed, is in the order's
\* row, while the table comes and goes under the API, writes fail and the process dies.
THEOREM OrdersSurviveDeployments == Deploying => []OrdersAreKept
  <1>1. Deploys => SchemaInv /\ OrdersInv
    BY SchemaStarts, OrdersStart, MigrationBounds DEF Deploys, MigrationInit, Upgrades
  <1>2. SchemaInv /\ OrdersInv /\ [DeployStep]_allVars => (SchemaInv /\ OrdersInv)'
    BY DeployKeeps
  <1>3. OrdersInv => OrdersAreKept
    BY DEF OrdersInv, OrdersAreKept
  <1> QED BY <1>1, <1>2, <1>3, PTL DEF Deploying
===============================================================================
