------------------------------ MODULE CacheProofs ------------------------------
(***************************************************************************)
(* Proofs about ResponseCache and StatusFeed.  For any number of           *)
(* processes, requests, changes of the data and faults, at most one        *)
(* process loads a key while nothing disturbs its lock, and nobody sees    *)
(* the data go back.  For any number of clients, who needs the shared      *)
(* poller has it, and every verdict that is told, shown or cached is the   *)
(* network's.                                                              *)
(***************************************************************************)
EXTENDS ResponseCache, StatusFeed, WellFoundedInduction, TLAPS

-------------------------------------------------------------------------------
(* The flights and the lock of ResponseCache *)
Flight  == [stage : Stages, acquired : BOOLEAN, late : BOOLEAN, value : Versions]
Request == [at : {"new", "looking", "joined", "answered", "failed", "gone"},
            process : Processes \cup {Nobody}, value : Versions]
Answered(r) == requests[r].at = "answered"
Holds(p)    == flights[p].acquired \/ p \in releasing

\* While nothing disturbed it, the lock has one holder, whose load leaves the entry behind, and
\* who polls finds either of the two.
LockHeld ==
    /\ \A p \in Processes : Loading(p) => flights[p].acquired
    /\ \A p \in Processes : flights[p].acquired => flights[p].stage # "none"
    /\ \A p \in Processes : Holds(p) => lock
    /\ \A p \in Processes : flights[p].acquired => p \notin releasing
    /\ \A p, q \in Processes : Holds(p) /\ Holds(q) => p = q
    /\ releasing # {} => Present
    /\ \A p \in Processes : flights[p].stage \in Polling => lock \/ Present
    /\ \A p \in Processes : flights[p].stage = "retrying" => Present

\* What was answered is no newer than the entry, the entry no newer than a load that is about
\* to be saved, and that no newer than what would be loaded now.
Ordered ==
    /\ \A r \in Requests : Answered(r) => requests[r].value \in since[r]..version
    /\ Present => /\ entry.version <= version
                  /\ \A r \in Requests : Answered(r) => requests[r].value <= entry.version
    /\ \A p \in Processes : flights[p].stage = "saving" =>
           /\ flights[p].value <= version
           /\ Present => entry.version <= flights[p].value
           /\ \A r \in Requests : Answered(r) => requests[r].value <= flights[p].value

\* The newest answer that a request found when it arrived is an answer.
SinceAnswered ==
    \A r \in Requests : since[r] = 0 \/ \E q \in Requests : Answered(q) /\ requests[q].value = since[r]

CacheInv ==
    /\ CacheTypeOK
    /\ \A r \in Requests : requests[r].at = "looking" => requests[r].process \in Processes
    /\ SinceAnswered
    /\ configured /\ ~disturbed => LockHeld /\ Ordered

\* A set of natural numbers with a bound has a greatest member, or is empty.
LEMMA GreatestNumber ==
  ASSUME NEW S \in SUBSET Nat, NEW n \in Nat, \A v \in S : v <= n
  PROVE  \E m \in S \cup {0} : \A v \in S : v <= m
  <1> DEFINE bounds == {b \in Nat : \A v \in S : v <= b}
  <1>1. IsWellFoundedOn(OpToRel(<, Nat), Nat)
    BY NatLessThanWellFounded, Zenon
  <1>2. n \in bounds /\ bounds \subseteq Nat
    OBVIOUS
  <1> HIDE DEF bounds
  <1>3. PICK m \in bounds : \A b \in bounds : ~(<<b, m>> \in OpToRel(<, Nat))
    BY <1>1, <1>2, WFMin, Zenon
  <1>4. ASSUME NEW b \in bounds PROVE m <= b
    <2>1. ~(<<b, m>> \in OpToRel(<, Nat))
      BY <1>3, Zenon
    <2>2. b \in Nat /\ m \in Nat
      BY <1>2
    <2>3. ~(b < m)
      BY <2>1, <2>2, Zenon DEF OpToRel
    <2> QED BY <2>2, <2>3
  <1>5. m \in Nat /\ \A v \in S : v <= m
    BY <1>3 DEF bounds
  <1>6. m \in S \/ m = 0
    <2> SUFFICES ASSUME m \notin S, m # 0 PROVE FALSE
      OBVIOUS
    <2>1. m - 1 \in Nat /\ \A v \in S : v <= m - 1
      BY <1>5
    <2>2. m - 1 \in bounds
      BY <2>1 DEF bounds
    <2> QED BY <1>4, <1>5, <2>2
  <1> QED BY <1>5, <1>6

LEMMA CacheTyped ==
  ASSUME CacheInv
  PROVE  /\ configured \in BOOLEAN /\ lock \in BOOLEAN /\ disturbed \in BOOLEAN
         /\ version \in Nat /\ version \in Versions
         /\ entry \in [version : Versions, age : {"none", "fresh", "stale"}]
         /\ flights \in [Processes -> Flight] /\ requests \in [Requests -> Request]
         /\ releasing \subseteq Processes /\ refreshing \subseteq Processes
         /\ since \in [Requests -> Versions] /\ faults \in 0..MaxFaults
         /\ Versions \subseteq Nat /\ 0 \in Versions
  <1>1. MaxVersion \in Nat
    BY BoundsAssumption
  <1> QED BY <1>1 DEF CacheInv, CacheTypeOK, Flight, Request, Versions

LEMMA StayTyped ==
  ASSUME configured' \in BOOLEAN, lock' \in BOOLEAN, disturbed' \in BOOLEAN,
         version' \in Versions, entry' \in [version : Versions, age : {"none", "fresh", "stale"}],
         flights' \in [Processes -> Flight], requests' \in [Requests -> Request],
         releasing' \subseteq Processes, refreshing' \subseteq Processes,
         since' \in [Requests -> Versions], faults' \in 0..MaxFaults
  PROVE  CacheTypeOK'
  BY DEF CacheTypeOK, Flight, Request

LEMMA CacheSound == ASSUME CacheInv PROVE SingleFlight /\ AnswersNeverGoBack
  <1>1. OneLoadAtATime
    BY DEF CacheInv, LockHeld, Holds, OneLoadAtATime
  <1>2. AnswersNeverGoBack
    <2> SUFFICES ASSUME configured, ~disturbed, NEW r \in Requests, Answered(r)
                 PROVE  requests[r].value >= since[r]
      BY DEF AnswersNeverGoBack, Answered
    <2>1. requests[r].value \in since[r]..version
      BY DEF CacheInv, Ordered
    <2>2. since[r] \in Nat /\ version \in Nat
      BY CacheTyped
    <2> QED BY <2>1, <2>2
  <1> QED BY <1>1, <1>2 DEF CacheInv, SingleFlight

\* The newest answer.
LEMMA NewestIsAnswer ==
  ASSUME CacheInv
  PROVE  /\ NewestAnswer \in Versions
         /\ NewestAnswer = 0 \/ \E q \in Requests : Answered(q) /\ requests[q].value = NewestAnswer
  <1>1. Answers \subseteq Versions /\ Answers \subseteq Nat
    BY CacheTyped DEF Answers, Request
  <1>2. \A v \in Answers : v <= MaxVersion
    BY <1>1, BoundsAssumption DEF Versions
  <1>3. \E m \in Answers \cup {0} : \A v \in Answers : v <= m
    BY <1>1, <1>2, BoundsAssumption, GreatestNumber
  <1>4. NewestAnswer \in Answers \cup {0}
    BY <1>3 DEF NewestAnswer
  <1>5. \A v \in Answers : \E q \in Requests : Answered(q) /\ requests[q].value = v
    BY DEF Answers, Answered
  <1> QED BY <1>1, <1>4, <1>5, CacheTyped

\* Answers that stay keep what requests found when they arrived.
LEMMA SinceStays ==
  ASSUME CacheInv, UNCHANGED since,
         \A r \in Requests : Answered(r) => Answered(r)' /\ requests'[r].value = requests[r].value
  PROVE  SinceAnswered'
  BY DEF CacheInv, SinceAnswered

\* A step of one flight that answers nobody.
Fits(p, g) ==
    /\ g.stage \in {"loading", "saving"} => g.acquired
    /\ g.acquired => g.stage # "none" /\ lock' /\ p \notin releasing /\ (flights[p].acquired \/ ~lock)
    /\ lock => lock'
    /\ g.stage \in Polling => lock' \/ Present
    /\ g.stage = "retrying" => Present
    /\ g.stage = "saving" => g.value = version \/ g = flights[p]

LEMMA FlightMoves ==
  ASSUME CacheInv, NEW p \in Processes, NEW g \in Flight, flights' = [flights EXCEPT ![p] = g],
         UNCHANGED <<configured, version, entry, releasing, since>>,
         refreshing' \subseteq Processes, lock' \in BOOLEAN,
         faults' \in 0..MaxFaults, disturbed' \in BOOLEAN, disturbed => disturbed',
         requests' \in [Requests -> Request],
         \A r \in Requests : /\ requests'[r].at = "looking" => requests'[r].process \in Processes
                             /\ Answered(r)' <=> Answered(r)
                             /\ requests'[r].value = requests[r].value,
         configured /\ ~disturbed' => Fits(p, g)
  PROVE  CacheInv'
  <1>1. /\ flights' \in [Processes -> Flight] /\ flights'[p] = g
        /\ \A q \in Processes : q # p => flights'[q] = flights[q]
    BY CacheTyped
  <1>2. CacheTypeOK'
    BY <1>1, CacheTyped, StayTyped
  <1>3. SinceAnswered'
    BY SinceStays
  <1>4. ASSUME configured', ~disturbed' PROVE LockHeld' /\ Ordered'
    <2>0. LockHeld /\ Ordered /\ Fits(p, g) /\ (Present' <=> Present)
      BY <1>4 DEF CacheInv, Present
    <2>1. ASSUME NEW q \in Processes PROVE Loading(q)' => flights'[q].acquired
      BY <1>1, <2>0 DEF LockHeld, Loading, Fits
    <2>10. ASSUME NEW q \in Processes PROVE flights'[q].acquired => flights'[q].stage # "none"
      BY <1>1, <2>0 DEF LockHeld, Fits
    <2>2. ASSUME NEW q \in Processes PROVE Holds(q)' => lock'
      BY <1>1, <2>0 DEF LockHeld, Holds, Fits
    <2>3. ASSUME NEW q \in Processes PROVE flights'[q].acquired => q \notin releasing'
      BY <1>1, <2>0 DEF LockHeld, Fits
    <2>4. ASSUME NEW q \in Processes, NEW r \in Processes, Holds(q)', Holds(r)' PROVE q = r
      <3>1. \A s \in Processes : Holds(s)' => Holds(s) \/ (s = p /\ ~lock)
        BY <1>1, <2>0 DEF Holds, Fits
      <3> QED BY <2>0, <2>4, <3>1 DEF LockHeld
    <2>5. releasing' # {} => Present'
      BY <2>0 DEF LockHeld
    <2>6. ASSUME NEW q \in Processes
          PROVE  /\ flights'[q].stage \in Polling => lock' \/ Present'
                 /\ flights'[q].stage = "retrying" => Present'
      BY <1>1, <2>0 DEF LockHeld, Fits
    <2>7. \A r \in Requests : Answered(r)' => Answered(r) /\ requests'[r].value = requests[r].value
      OBVIOUS
    <2>8. /\ \A r \in Requests : Answered(r)' => requests'[r].value \in since'[r]..version'
          /\ Present' => /\ entry'.version <= version'
                         /\ \A r \in Requests : Answered(r)' => requests'[r].value <= entry'.version
      BY <2>0, <2>7 DEF Ordered
    <2>9. ASSUME NEW q \in Processes, flights'[q].stage = "saving"
          PROVE  /\ flights'[q].value <= version'
                 /\ Present' => entry'.version <= flights'[q].value
                 /\ \A r \in Requests : Answered(r)' => requests'[r].value <= flights'[q].value
      <3>1. CASE flights'[q] = flights[q]
        BY <1>1, <2>0, <2>7, <2>9, <3>1 DEF Ordered
      <3>2. CASE flights'[q] # flights[q]
        <4>1. flights'[q].value = version /\ version \in Nat
          BY <1>1, <2>0, <2>9, <3>2, CacheTyped DEF Fits
        <4>2. \A r \in Requests : Answered(r)' => requests'[r].value <= version
          <5> SUFFICES ASSUME NEW r \in Requests, Answered(r)' PROVE requests'[r].value <= version
            OBVIOUS
          <5>1. requests[r].value \in since[r]..version
            BY <2>0, <2>7 DEF Ordered
          <5>2. since[r] \in Nat
            BY CacheTyped
          <5> QED BY <2>7, <4>1, <5>1, <5>2
        <4> QED BY <2>8, <4>1, <4>2
      <3> QED BY <3>1, <3>2
    <2> QED BY <2>1, <2>2, <2>3, <2>4, <2>5, <2>6, <2>8, <2>9, <2>10 DEF LockHeld, Ordered
  <1> QED BY <1>2, <1>3, <1>4 DEF CacheInv

\* What a step that disturbs has to show.
LEMMA Disturbs ==
  ASSUME CacheInv, CacheTypeOK', UNCHANGED since, disturbed' = TRUE,
         \A r \in Requests : /\ requests'[r].at = "looking" => requests'[r].process \in Processes
                             /\ Answered(r) => Answered(r)' /\ requests'[r].value = requests[r].value
  PROVE  CacheInv'
  BY SinceStays DEF CacheInv

LEMMA FaultIs ==
  ASSUME CacheInv, Fault
  PROVE  disturbed' = TRUE /\ disturbed' \in BOOLEAN /\ faults' \in 0..MaxFaults
  <1>1. faults \in 0..MaxFaults /\ MaxFaults \in Nat
    BY CacheTyped, BoundsAssumption
  <1>2. disturbed' = TRUE /\ faults' = faults + 1 /\ faults < MaxFaults
    BY DEF Fault
  <1>3. disturbed' \in BOOLEAN
    BY <1>2, Zenon
  <1> QED BY <1>1, <1>2, <1>3

\* Whether a step was a fault or not.
LEMMA FaultOrNot ==
  ASSUME CacheInv, Fault \/ NoFault
  PROVE  /\ disturbed' \in BOOLEAN /\ faults' \in 0..MaxFaults /\ (disturbed => disturbed')
         /\ ~disturbed' => NoFault
  <1>1. CASE Fault
    <2>1. disturbed' = TRUE
      BY <1>1, FaultIs
    <2> QED BY <1>1, <2>1, FaultIs
  <1>2. CASE NoFault
    BY <1>2, CacheTyped DEF NoFault
  <1> QED BY <1>1, <1>2

\* The first await of a flight.
LEMMA StartedIs ==
  ASSUME CacheInv, NEW p \in Processes, Started(p)
  PROVE  \E g \in Flight : /\ flights' = [flights EXCEPT ![p] = g]
                           /\ g = flights[p] \/ (g.stage = "locking" /\ ~g.acquired)
  <1>1. CASE flights[p].stage = "none"
    <2>1. PICK g : g = [NoFlight EXCEPT !.stage = "locking"]
      OBVIOUS
    <2>2. g \in Flight /\ g.stage = "locking" /\ ~g.acquired
      BY <2>1, CacheTyped DEF NoFlight, Flight, Stages
    <2> QED BY <1>1, <2>1, <2>2 DEF Started
  <1>2. CASE flights[p].stage # "none"
    <2>1. flights' = flights /\ flights \in [Processes -> Flight]
      BY <1>2, CacheTyped DEF Started
    <2>2. flights' = [flights EXCEPT ![p] = flights[p]] /\ flights[p] \in Flight
      BY <2>1
    <2> QED BY <2>2
  <1> QED BY <1>1, <1>2

\* A flight that does not change fits; so does one that awaits the lock.
LEMMA FitsAgain ==
  ASSUME CacheInv, NEW p \in Processes, NEW g, lock' = lock, configured, ~disturbed,
         g = flights[p] \/ (g.stage = "locking" /\ ~g.acquired)
  PROVE  Fits(p, g)
  <1>1. LockHeld
    BY DEF CacheInv
  <1>2. CASE g = flights[p]
    BY <1>1, <1>2 DEF LockHeld, Loading, Holds, Fits
  <1>3. CASE g.stage = "locking" /\ ~g.acquired
    BY <1>3 DEF Fits, Polling
  <1> QED BY <1>2, <1>3

\* Steps that move a flight and answer nobody.
LEMMA RevalidateKeeps ==
  ASSUME CacheInv, NEW p \in Processes, Revalidate(p)
  PROVE  CacheInv'
  <1>1. /\ refreshing' = refreshing \ {p} /\ Started(p)
        /\ UNCHANGED <<configured, version, entry, lock, releasing, requests, since, faults, disturbed>>
    BY DEF Revalidate, cacheVars
  <1>2. PICK g \in Flight : /\ flights' = [flights EXCEPT ![p] = g]
                            /\ g = flights[p] \/ (g.stage = "locking" /\ ~g.acquired)
    BY <1>1, StartedIs
  <1>3. configured /\ ~disturbed' => Fits(p, g)
    BY <1>1, <1>2, FitsAgain
  <1>4. \A r \in Requests : /\ requests'[r].at = "looking" => requests'[r].process \in Processes
                            /\ Answered(r)' <=> Answered(r)
                            /\ requests'[r].value = requests[r].value
    BY <1>1 DEF CacheInv, Answered
  <1> QED BY <1>1, <1>2, <1>3, <1>4, CacheTyped, FlightMoves

LEMMA MissKeeps ==
  ASSUME CacheInv, NEW r \in Requests, Miss(r)
  PROVE  CacheInv'
  <1>0. PICK p : p = requests[r].process
    OBVIOUS
  <1>1. /\ requests[r].at = "looking" /\ (Fault \/ NoFault)
        /\ requests' = [requests EXCEPT ![r].at = "joined"]
        /\ Started(p)
        /\ UNCHANGED <<configured, version, entry, lock, releasing, refreshing, since>>
    BY <1>0 DEF Miss, Missed, cacheVars
  <1>2. p \in Processes
    BY <1>0, <1>1 DEF CacheInv
  <1>3. PICK g \in Flight : /\ flights' = [flights EXCEPT ![p] = g]
                            /\ g = flights[p] \/ (g.stage = "locking" /\ ~g.acquired)
    BY <1>1, <1>2, StartedIs
  <1>4. /\ disturbed' \in BOOLEAN /\ faults' \in 0..MaxFaults /\ (disturbed => disturbed')
        /\ ~disturbed' => NoFault
    BY <1>1, FaultOrNot
  <1>5. configured /\ ~disturbed' => Fits(p, g)
    BY <1>1, <1>2, <1>3, <1>4, FitsAgain
  <1>6. PICK k : k = [requests[r] EXCEPT !.at = "joined"]
    OBVIOUS
  <1>7. requests[r] \in Request
    BY CacheTyped
  <1>8. k \in Request /\ k.at = "joined" /\ k.value = requests[r].value
    BY <1>6, <1>7 DEF Request
  <1>9. requests' = [requests EXCEPT ![r] = k]
    BY <1>1, <1>6
  <1>10. /\ requests' \in [Requests -> Request]
         /\ \A s \in Requests : /\ requests'[s].at = "looking" => requests'[s].process \in Processes
                                /\ Answered(s)' <=> Answered(s)
                                /\ requests'[s].value = requests[s].value
    BY <1>1, <1>8, <1>9, CacheTyped DEF CacheInv, Answered
  <1> QED BY <1>1, <1>2, <1>3, <1>4, <1>5, <1>10, CacheTyped, FlightMoves

\* The lock, the polls and the load: what becomes of flight p.
FlightNow(p, g) == flights' = [flights EXCEPT ![p] = g]

LEMMA FlightBecomes ==
  ASSUME CacheInv, NEW p \in Processes, NEW g \in Flight, FlightNow(p, g),
         UNCHANGED <<configured, version, entry, releasing, refreshing, requests, since>>,
         lock' \in BOOLEAN, faults' \in 0..MaxFaults, disturbed' \in BOOLEAN, disturbed => disturbed',
         configured /\ ~disturbed' => Fits(p, g)
  PROVE  CacheInv'
  <1>1. \A r \in Requests : /\ requests'[r].at = "looking" => requests'[r].process \in Processes
                            /\ Answered(r)' <=> Answered(r)
                            /\ requests'[r].value = requests[r].value
    BY DEF CacheInv, Answered
  <1>2. flights' = [flights EXCEPT ![p] = g]
    BY DEF FlightNow
  <1> QED BY <1>1, <1>2, CacheTyped, FlightMoves

LEMMA MovedIs ==
  ASSUME CacheInv, NEW p \in Processes, NEW s \in Stages, Moved(p, s)
  PROVE  \E g \in Flight : /\ FlightNow(p, g) /\ g.stage = s /\ g.acquired = flights[p].acquired
                           /\ g.late = flights[p].late /\ g.value = flights[p].value
  <1>1. flights[p] \in Flight
    BY CacheTyped
  <1>2. PICK g : g = [flights[p] EXCEPT !.stage = s]
    OBVIOUS
  <1>3. /\ g \in Flight /\ g.stage = s /\ g.acquired = flights[p].acquired
        /\ g.late = flights[p].late /\ g.value = flights[p].value
    BY <1>1, <1>2 DEF Flight
  <1>4. FlightNow(p, g)
    BY <1>2 DEF Moved, FlightNow
  <1> QED BY <1>3, <1>4

LEMMA AcquireKeeps ==
  ASSUME CacheInv, NEW p \in Processes, Acquire(p)
  PROVE  CacheInv'
  <1>1. /\ flights[p].stage = "locking" /\ p \notin releasing
        /\ UNCHANGED <<configured, version, entry, releasing, refreshing, requests, since>>
    BY DEF Acquire
  <1>2. flights[p] \in Flight
    BY CacheTyped
  <1>3. CASE configured /\ lock /\ Moved(p, "asleep") /\ UNCHANGED lock /\ NoFault
    <2>1. "asleep" \in Stages /\ "asleep" \in Polling
      BY DEF Stages, Polling
    <2>2. PICK g \in Flight : /\ FlightNow(p, g) /\ g.stage = "asleep"
                              /\ g.acquired = flights[p].acquired
      BY <1>3, <2>1, MovedIs
    <2>3. configured /\ ~disturbed' => Fits(p, g)
      BY <1>1, <1>3, <2>2 DEF Fits, NoFault
    <2> QED BY <1>1, <1>3, <2>2, <2>3, CacheTyped, FlightBecomes DEF NoFault
  <1>4. CASE /\ flights' = [flights EXCEPT ![p] = [@ EXCEPT !.stage = "loading", !.acquired = TRUE]]
             /\ \/ configured /\ ~lock /\ lock' = TRUE /\ NoFault
                \/ UNCHANGED lock /\ (IF configured THEN Fault ELSE NoFault)
    <2>1. PICK g : g = [flights[p] EXCEPT !.stage = "loading", !.acquired = TRUE]
      OBVIOUS
    <2>2. g \in Flight /\ g.stage = "loading" /\ g.acquired = TRUE
      BY <1>2, <2>1 DEF Flight, Stages
    <2>3. FlightNow(p, g)
      BY <1>4, <2>1 DEF FlightNow
    <2>4. lock' \in BOOLEAN
      <3>1. CASE lock' = TRUE
        BY <3>1, Zenon
      <3>2. CASE lock' = lock
        BY <3>2, CacheTyped
      <3> QED BY <1>4, <3>1, <3>2
    <2>5. /\ disturbed' \in BOOLEAN /\ faults' \in 0..MaxFaults /\ (disturbed => disturbed')
          /\ ~disturbed' => NoFault
      BY <1>4, FaultOrNot
    <2>6. configured /\ ~disturbed' => ~lock /\ lock' = TRUE
      BY <1>4, FaultIs
    <2>7. configured /\ ~disturbed' => Fits(p, g)
      BY <1>1, <2>2, <2>6 DEF Fits, Polling
    <2> QED BY <1>1, <2>2, <2>3, <2>4, <2>5, <2>7, FlightBecomes
  <1> QED BY <1>3, <1>4 DEF Acquire

\* The steps of a poll, and the load.
LEMMA PollKeeps ==
  ASSUME CacheInv, NEW p \in Processes,
         Wake(p) \/ Deadline(p) \/ PollFindsNone(p) \/ CheckLock(p) \/ Compute(p)
  PROVE  CacheInv'
  <1>0. flights[p] \in Flight /\ "loading" \in Stages /\ Polling \subseteq Stages
    BY CacheTyped DEF Stages
  <1>00. \A s : s \in Polling <=> s \in {"asleep", "polling", "rereading", "checking", "retrying"}
    BY DEF Polling
  <1>1. UNCHANGED <<configured, version, entry, lock, releasing, refreshing, requests, since>>
    BY DEF Wake, Deadline, PollFindsNone, CheckLock, Compute, cacheVars
  <1>2. configured /\ ~disturbed => /\ LockHeld
                                    /\ flights[p].stage \in Polling => lock \/ Present
                                    /\ flights[p].stage = "retrying" => Present
                                    /\ flights[p].acquired =>
                                           flights[p].stage # "none" /\ lock /\ p \notin releasing
    BY DEF CacheInv, LockHeld, Holds
  <1>3. CASE Wake(p)
    <2>1. /\ flights[p].stage = "asleep" /\ Moved(p, IF flights[p].late THEN "loading" ELSE "polling")
          /\ disturbed' = (disturbed \/ flights[p].late) /\ faults' = faults
      BY <1>3 DEF Wake
    <2>2. PICK s : s = IF flights[p].late THEN "loading" ELSE "polling"
      OBVIOUS
    <2>3. s \in Stages /\ Moved(p, s)
      BY <1>0, <2>1, <2>2 DEF Stages, Polling
    <2>4. PICK g \in Flight : /\ FlightNow(p, g) /\ g.stage = s
                              /\ g.acquired = flights[p].acquired
      BY <2>3, MovedIs
    <2>5. disturbed' \in BOOLEAN /\ (disturbed => disturbed') /\ (~disturbed' => s = "polling")
      BY <2>1, <2>2, CacheTyped
    <2>6. configured /\ ~disturbed' => Fits(p, g)
      BY <1>00, <1>1, <1>2, <2>1, <2>4, <2>5 DEF Fits
    <2> QED BY <1>1, <2>1, <2>4, <2>5, <2>6, CacheTyped, FlightBecomes
  <1>4. CASE Deadline(p)
    <2>1. /\ flights[p].stage \in Polling /\ flights' = [flights EXCEPT ![p].late = TRUE]
          /\ UNCHANGED <<faults, disturbed>>
      BY <1>4 DEF Deadline
    <2>2. PICK g : g = [flights[p] EXCEPT !.late = TRUE]
      OBVIOUS
    <2>3. /\ g \in Flight /\ g.stage = flights[p].stage /\ g.acquired = flights[p].acquired
      BY <1>0, <2>2 DEF Flight
    <2>4. FlightNow(p, g)
      BY <2>1, <2>2 DEF FlightNow
    <2>5. configured /\ ~disturbed' => Fits(p, g)
      BY <1>00, <1>1, <1>2, <2>1, <2>3 DEF Fits
    <2> QED BY <1>1, <2>1, <2>3, <2>4, <2>5, CacheTyped, FlightBecomes
  <1>5. CASE PollFindsNone(p)
    <2>1. PICK s : s = CASE flights[p].stage = "polling" -> "rereading"
                         [] flights[p].stage = "rereading" -> "checking"
                         [] flights[p].stage = "retrying" -> "loading"
      OBVIOUS
    <2>2. /\ flights[p].stage \in {"polling", "rereading", "retrying"} /\ Moved(p, s)
          /\ \/ ~Present /\ NoFault
             \/ configured /\ Fault
      BY <1>5, <2>1 DEF PollFindsNone, Missed
    <2>3. /\ s \in {"rereading", "checking", "loading"} /\ s \in Stages
          /\ s = "loading" => flights[p].stage = "retrying"
      BY <1>0, <2>1, <2>2 DEF Polling
    <2>4. PICK g \in Flight : /\ FlightNow(p, g) /\ g.stage = s
                              /\ g.acquired = flights[p].acquired
      BY <2>2, <2>3, MovedIs
    <2>5. /\ disturbed' \in BOOLEAN /\ faults' \in 0..MaxFaults /\ (disturbed => disturbed')
          /\ ~disturbed' => NoFault
      BY <2>2, FaultOrNot
    <2>6. configured /\ ~disturbed' => ~Present
      BY <2>2, FaultIs
    <2>7. configured /\ ~disturbed' => Fits(p, g)
      BY <1>00, <1>1, <1>2, <2>2, <2>3, <2>4, <2>5, <2>6 DEF Fits, NoFault
    <2> QED BY <1>1, <2>4, <2>5, <2>7, CacheTyped, FlightBecomes
  <1>6. CASE CheckLock(p)
    <2>1. PICK s \in {"asleep", "retrying", "loading"} :
              /\ flights[p].stage = "checking" /\ Moved(p, s)
              /\ \/ s = (IF lock THEN "asleep" ELSE "retrying") /\ NoFault
                 \/ Fault
      <3>1. CASE Moved(p, IF lock THEN "asleep" ELSE "retrying") /\ NoFault
        <4>1. PICK s : s = IF lock THEN "asleep" ELSE "retrying"
          OBVIOUS
        <4>2. s \in {"asleep", "retrying", "loading"} /\ Moved(p, s)
          BY <3>1, <4>1
        <4> QED BY <1>6, <3>1, <4>1, <4>2 DEF CheckLock
      <3>2. CASE Moved(p, "loading") /\ Fault
        BY <1>6, <3>2 DEF CheckLock
      <3> QED BY <1>6, <3>1, <3>2 DEF CheckLock
    <2>2. s \in Stages
      BY <1>0 DEF Polling
    <2>3. PICK g \in Flight : /\ FlightNow(p, g) /\ g.stage = s
                              /\ g.acquired = flights[p].acquired
      BY <2>1, <2>2, MovedIs
    <2>4. /\ disturbed' \in BOOLEAN /\ faults' \in 0..MaxFaults /\ (disturbed => disturbed')
          /\ ~disturbed' => NoFault
      BY <2>1, FaultOrNot
    <2>5. ~disturbed' => s = (IF lock THEN "asleep" ELSE "retrying")
      BY <2>1, FaultIs
    <2>6. configured /\ ~disturbed' => Fits(p, g)
      BY <1>00, <1>1, <1>2, <2>1, <2>3, <2>4, <2>5 DEF Fits, NoFault
    <2> QED BY <1>1, <2>3, <2>4, <2>6, CacheTyped, FlightBecomes
  <1>7. CASE Compute(p)
    <2>1. /\ flights[p].stage = "loading"
          /\ flights' = [flights EXCEPT ![p] = [@ EXCEPT !.stage = "saving", !.value = version]]
          /\ UNCHANGED <<faults, disturbed>>
      BY <1>7 DEF Compute
    <2>2. PICK g : g = [flights[p] EXCEPT !.stage = "saving", !.value = version]
      OBVIOUS
    <2>3. version \in Versions
      BY CacheTyped
    <2>4. g \in Flight /\ g.stage = "saving" /\ g.value = version /\ g.acquired = flights[p].acquired
      BY <1>0, <2>2, <2>3 DEF Flight, Stages
    <2>5. FlightNow(p, g)
      BY <2>1, <2>2 DEF FlightNow
    <2>6. configured /\ ~disturbed' => Fits(p, g)
      BY <1>00, <1>1, <1>2, <2>1, <2>4 DEF Fits, LockHeld, Loading
    <2> QED BY <1>1, <2>1, <2>4, <2>5, <2>6, CacheTyped, FlightBecomes
  <1> QED BY <1>3, <1>4, <1>5, <1>6, <1>7

\* The end of a flight.
LEMMA EndedIs ==
  ASSUME CacheInv, NEW p \in Processes, NEW at \in {"answered", "failed"}, NEW v \in Versions,
         Ended(p, at, v)
  PROVE  /\ flights' \in [Processes -> Flight] /\ flights'[p] = NoFlight
         /\ \A q \in Processes : q # p => flights'[q] = flights[q]
         /\ requests' \in [Requests -> Request]
         /\ \A r \in Requests :
               /\ requests'[r].at = "looking" => requests'[r].process \in Processes
               /\ Answered(r) => Answered(r)' /\ requests'[r].value = requests[r].value
               /\ Answered(r)' => Answered(r) \/ requests'[r].value = v
         /\ releasing' \subseteq Processes
         /\ \A q \in Processes : q \in releasing' => q \in releasing \/ (q = p /\ flights[p].acquired)
  <1>1. NoFlight \in Flight
    BY CacheTyped DEF NoFlight, Flight, Stages
  <1>2. /\ flights' \in [Processes -> Flight] /\ flights'[p] = NoFlight
        /\ \A q \in Processes : q # p => flights'[q] = flights[q]
    BY <1>1, CacheTyped DEF Ended
  <1>3. PICK k : k = [at |-> at, process |-> Nobody, value |-> v]
    OBVIOUS
  <1>4. k \in Request /\ k.at = at /\ k.value = v
    BY <1>3 DEF Request
  <1>5. requests' = [r \in Requests |->
                      IF requests[r].at = "joined" /\ requests[r].process = p THEN k ELSE requests[r]]
    BY <1>3 DEF Ended
  <1>6. ASSUME NEW r \in Requests
        PROVE  /\ requests'[r] \in Request
               /\ requests'[r].at = "looking" => requests'[r].process \in Processes
               /\ Answered(r) => Answered(r)' /\ requests'[r].value = requests[r].value
               /\ Answered(r)' => Answered(r) \/ requests'[r].value = v
    <2>1. requests[r] \in Request
      BY CacheTyped
    <2>2. CASE requests[r].at = "joined" /\ requests[r].process = p
      BY <1>4, <1>5, <2>2 DEF Answered
    <2>3. CASE ~(requests[r].at = "joined" /\ requests[r].process = p)
      <3>1. requests'[r] = requests[r]
        BY <1>5, <2>3
      <3> QED BY <2>1, <3>1 DEF Answered, CacheInv
    <2> QED BY <2>2, <2>3
  <1>7. requests' \in [Requests -> Request]
    <2>1. \A r \in Requests : requests'[r] \in Request
      BY <1>6
    <2>2. requests' = [r \in Requests |-> requests'[r]]
      BY <1>5
    <2> QED BY <2>1, <2>2
  <1>8. /\ releasing' \subseteq Processes
        /\ \A q \in Processes : q \in releasing' => q \in releasing \/ (q = p /\ flights[p].acquired)
    BY CacheTyped DEF Ended
  <1> QED BY <1>2, <1>6, <1>7, <1>8

\* A flight that ends with the version that is then the entry's.
Settles(p, v) ==
    /\ Present' /\ entry'.version = v /\ v <= version
    /\ \A r \in Requests : Answered(r) => requests[r].value <= v
    /\ \A q \in Processes : q # p /\ flights[q].stage = "saving" => v <= flights[q].value

LEMMA EndKeeps ==
  ASSUME CacheInv, NEW p \in Processes, NEW v \in Versions, Ended(p, "answered", v),
         UNCHANGED <<configured, version, lock, refreshing, since>>,
         entry' \in [version : Versions, age : {"none", "fresh", "stale"}],
         faults' \in 0..MaxFaults, disturbed' \in BOOLEAN, disturbed => disturbed',
         configured /\ ~disturbed' => Settles(p, v)
  PROVE  CacheInv'
  <1>1. /\ flights' \in [Processes -> Flight] /\ flights'[p] = NoFlight
        /\ \A q \in Processes : q # p => flights'[q] = flights[q]
        /\ requests' \in [Requests -> Request]
        /\ \A r \in Requests :
              /\ requests'[r].at = "looking" => requests'[r].process \in Processes
              /\ Answered(r) => Answered(r)' /\ requests'[r].value = requests[r].value
              /\ Answered(r)' => Answered(r) \/ requests'[r].value = v
        /\ releasing' \subseteq Processes
        /\ \A q \in Processes : q \in releasing' => q \in releasing \/ (q = p /\ flights[p].acquired)
    BY EndedIs
  <1>2. CacheTypeOK'
    BY <1>1, CacheTyped, StayTyped
  <1>3. SinceAnswered'
    BY <1>1, SinceStays
  <1>4. ASSUME configured', ~disturbed' PROVE LockHeld' /\ Ordered'
    <2>0. LockHeld /\ Ordered /\ Settles(p, v) /\ Present'
      BY <1>4 DEF CacheInv, Settles
    <2>1. flights'[p].acquired = FALSE /\ flights'[p].stage = "none" /\ "none" \notin Polling
      BY <1>1 DEF NoFlight, Polling
    <2>2. ASSUME NEW q \in Processes
          PROVE  /\ Loading(q)' => flights'[q].acquired
                 /\ flights'[q].acquired => flights'[q].stage # "none" /\ q \notin releasing'
                 /\ Holds(q)' => Holds(q)
                 /\ flights'[q].stage \in Polling => lock' \/ Present'
                 /\ flights'[q].stage = "retrying" => Present'
      BY <1>1, <2>0, <2>1 DEF LockHeld, Loading, Holds
    <2>3. LockHeld'
      BY <2>0, <2>2 DEF LockHeld
    <2>4. ASSUME NEW r \in Requests, Answered(r)'
          PROVE  requests'[r].value \in since'[r]..version' /\ requests'[r].value <= v
      <3>1. CASE Answered(r)
        BY <1>1, <2>0, <3>1 DEF Ordered, Settles
      <3>2. CASE requests'[r].value = v
        <4>1. v \in Nat /\ version \in Nat /\ since[r] \in Nat
          BY CacheTyped
        <4>2. since[r] <= v
          BY <2>0, <4>1 DEF CacheInv, SinceAnswered, Settles
        <4> QED BY <2>0, <3>2, <4>1, <4>2 DEF Settles
      <3> QED BY <1>1, <2>4, <3>1, <3>2
    <2>5. ASSUME NEW q \in Processes, flights'[q].stage = "saving"
          PROVE  q # p /\ flights'[q] = flights[q] /\ flights'[q].value <= version'
                 /\ v <= flights'[q].value
      BY <1>1, <2>0, <2>1, <2>5 DEF Ordered, Settles
    <2>6. ASSUME NEW q \in Processes, flights'[q].stage = "saving", NEW r \in Requests, Answered(r)'
          PROVE  requests'[r].value <= flights'[q].value
      <3>1. requests'[r].value \in Nat /\ v \in Nat /\ flights'[q].value \in Nat
        BY <1>1, CacheTyped DEF Flight, Request
      <3>2. requests'[r].value <= v /\ v <= flights'[q].value
        BY <2>4, <2>5, <2>6
      <3> QED BY <3>1, <3>2
    <2>7. entry'.version = v /\ v <= version'
      BY <2>0 DEF Settles
    <2>8. Ordered'
      BY <2>4, <2>5, <2>6, <2>7 DEF Ordered
    <2> QED BY <2>3, <2>8
  <1> QED BY <1>1, <1>2, <1>3, <1>4 DEF CacheInv

LEMMA PollFindsKeeps ==
  ASSUME CacheInv, NEW p \in Processes, PollFinds(p)
  PROVE  CacheInv'
  <1>1. /\ Present /\ Ended(p, "answered", entry.version)
        /\ UNCHANGED <<configured, version, entry, lock, refreshing, since, faults, disturbed>>
    BY DEF PollFinds
  <1>2. PICK v : v = entry.version
    OBVIOUS
  <1>3. v \in Versions /\ Ended(p, "answered", v)
    BY <1>1, <1>2, CacheTyped
  <1>4. configured /\ ~disturbed' => Settles(p, v)
    BY <1>1, <1>2 DEF CacheInv, Ordered, Settles, Present
  <1> QED BY <1>1, <1>3, <1>4, CacheTyped, EndKeeps

LEMMA SaveKeeps ==
  ASSUME CacheInv, NEW p \in Processes, Save(p)
  PROVE  CacheInv'
  <1>1. /\ flights[p].stage = "saving" /\ Ended(p, "answered", flights[p].value)
        /\ UNCHANGED <<configured, version, lock, refreshing, since>>
        /\ Fault \/ NoFault
    BY DEF Save
  <1>2. PICK v : v = flights[p].value
    OBVIOUS
  <1>3. v \in Versions /\ Ended(p, "answered", v)
    BY <1>1, <1>2, CacheTyped DEF Flight
  <1>4. /\ disturbed' \in BOOLEAN /\ faults' \in 0..MaxFaults /\ (disturbed => disturbed')
        /\ ~disturbed' => NoFault
    BY <1>1, FaultOrNot
  <1>5. PICK e : e = [version |-> v, age |-> "fresh"]
    OBVIOUS
  <1>6. e \in [version : Versions, age : {"none", "fresh", "stale"}] /\ e.version = v /\ e.age = "fresh"
    BY <1>3, <1>5
  <1>7. entry' = e \/ entry' = entry
    BY <1>2, <1>5 DEF Save
  <1>8. entry' \in [version : Versions, age : {"none", "fresh", "stale"}]
    BY <1>6, <1>7, CacheTyped
  <1>9. ASSUME configured, ~disturbed' PROVE Settles(p, v)
    <2>1. entry' = e
      BY <1>2, <1>5, <1>9, FaultIs DEF Save
    <2>2. LockHeld /\ Ordered
      BY <1>4, <1>9 DEF CacheInv
    <2>3. ASSUME NEW q \in Processes, flights[q].stage = "saving" PROVE q = p
      BY <1>1, <2>2, <2>3 DEF LockHeld, Loading, Holds
    <2>4. Present'
      BY <1>1, <1>6, <1>9, <2>1 DEF Present
    <2> QED BY <1>1, <1>2, <1>6, <2>1, <2>2, <2>3, <2>4 DEF Ordered, Settles
  <1> QED BY <1>1, <1>3, <1>4, <1>8, <1>9, EndKeeps

\* A load that is rejected and a crash are faults.
LEMMA RejectKeeps ==
  ASSUME CacheInv, NEW p \in Processes, ComputeRejects(p)
  PROVE  CacheInv'
  <1>1. /\ Fault /\ Ended(p, "failed", 0) /\ 0 \in Versions
        /\ UNCHANGED <<configured, version, entry, lock, refreshing, since>>
    BY CacheTyped DEF ComputeRejects
  <1>2. /\ flights' \in [Processes -> Flight] /\ requests' \in [Requests -> Request]
        /\ \A r \in Requests :
              /\ requests'[r].at = "looking" => requests'[r].process \in Processes
              /\ Answered(r) => Answered(r)' /\ requests'[r].value = requests[r].value
        /\ releasing' \subseteq Processes
    BY <1>1, EndedIs
  <1>3. CacheTypeOK'
    BY <1>1, <1>2, FaultIs, CacheTyped, StayTyped
  <1> QED BY <1>1, <1>2, <1>3, FaultIs, Disturbs

LEMMA CrashKeeps ==
  ASSUME CacheInv, NEW p \in Processes, Crash(p)
  PROVE  CacheInv'
  <1>1. /\ Fault /\ flights' = [flights EXCEPT ![p] = NoFlight]
        /\ releasing' = releasing \ {p} /\ refreshing' = refreshing \ {p}
        /\ UNCHANGED <<configured, version, entry, lock, since>>
    BY DEF Crash
  <1>2. NoFlight \in Flight
    BY CacheTyped DEF NoFlight, Flight, Stages
  <1>3. flights' \in [Processes -> Flight] /\ releasing' \subseteq Processes /\ refreshing' \subseteq Processes
    BY <1>1, <1>2, CacheTyped
  <1>4. requests' = [r \in Requests |->
                      IF requests[r].process = p /\ requests[r].at \in {"looking", "joined"}
                      THEN [requests[r] EXCEPT !.at = "gone", !.process = Nobody] ELSE requests[r]]
    BY DEF Crash
  <1>5. ASSUME NEW r \in Requests
        PROVE  /\ requests'[r] \in Request
               /\ requests'[r].at = "looking" => requests'[r].process \in Processes
               /\ Answered(r) => Answered(r)' /\ requests'[r].value = requests[r].value
    <2>1. requests[r] \in Request
      BY CacheTyped
    <2>2. CASE requests[r].process = p /\ requests[r].at \in {"looking", "joined"}
      <3>1. requests'[r] = [requests[r] EXCEPT !.at = "gone", !.process = Nobody]
        BY <1>4, <2>2
      <3>2. PICK k : k = [requests[r] EXCEPT !.at = "gone", !.process = Nobody]
        OBVIOUS
      <3>3. k \in Request /\ k.at = "gone"
        BY <2>1, <3>2 DEF Request
      <3> QED BY <2>2, <3>1, <3>2, <3>3 DEF Answered
    <2>3. CASE ~(requests[r].process = p /\ requests[r].at \in {"looking", "joined"})
      <3>1. requests'[r] = requests[r]
        BY <1>4, <2>3
      <3> QED BY <2>1, <3>1 DEF Answered, CacheInv
    <2> QED BY <2>2, <2>3
  <1>6. requests' \in [Requests -> Request]
    <2>1. \A r \in Requests : requests'[r] \in Request
      BY <1>5
    <2>2. requests' = [r \in Requests |-> requests'[r]]
      BY <1>4
    <2> QED BY <2>1, <2>2
  <1>7. CacheTypeOK'
    BY <1>1, <1>3, <1>6, FaultIs, CacheTyped, StayTyped
  <1> QED BY <1>1, <1>5, <1>7, FaultIs, Disturbs

\* Steps of a request.
LEMMA ArriveKeeps ==
  ASSUME CacheInv, NEW r \in Requests, NEW p \in Processes, Arrive(r, p)
  PROVE  CacheInv'
  <1>1. /\ requests[r].at = "new"
        /\ requests' = [requests EXCEPT ![r] = [@ EXCEPT !.at = "looking", !.process = p]]
        /\ since' = [since EXCEPT ![r] = NewestAnswer]
        /\ UNCHANGED <<configured, version, entry, lock, releasing, flights, refreshing, faults, disturbed>>
    BY DEF Arrive, cacheVars
  <1>2. PICK k : k = [requests[r] EXCEPT !.at = "looking", !.process = p]
    OBVIOUS
  <1>3. requests[r] \in Request
    BY CacheTyped
  <1>4. k \in Request /\ k.at = "looking" /\ k.process = p
    BY <1>2, <1>3 DEF Request
  <1>5. requests' = [requests EXCEPT ![r] = k]
    BY <1>1, <1>2
  <1>6. /\ requests' \in [Requests -> Request] /\ requests'[r] = k
        /\ \A q \in Requests : q # r => requests'[q] = requests[q]
    BY <1>4, <1>5, CacheTyped
  <1>7. \A q \in Requests : /\ requests'[q].at = "looking" => requests'[q].process \in Processes
                            /\ Answered(q)' <=> Answered(q)
                            /\ Answered(q) => q # r /\ requests'[q].value = requests[q].value
    BY <1>1, <1>4, <1>6 DEF CacheInv, Answered
  <1>8. PICK n : n = NewestAnswer
    OBVIOUS
  <1>9. n \in Versions /\ (n = 0 \/ \E q \in Requests : Answered(q) /\ requests[q].value = n)
    BY <1>8, NewestIsAnswer
  <1>10. /\ since' \in [Requests -> Versions] /\ since'[r] = n
         /\ \A q \in Requests : q # r => since'[q] = since[q]
    BY <1>1, <1>8, <1>9, CacheTyped
  <1>11. CacheTypeOK'
    BY <1>1, <1>6, <1>10, CacheTyped, StayTyped
  <1>12. SinceAnswered'
    <2> SUFFICES ASSUME NEW q \in Requests
                 PROVE  since'[q] = 0 \/ \E s \in Requests : Answered(s)' /\ requests'[s].value = since'[q]
      BY DEF SinceAnswered
    <2>1. since'[q] = 0 \/ \E s \in Requests : Answered(s) /\ requests[s].value = since'[q]
      BY <1>9, <1>10 DEF CacheInv, SinceAnswered
    <2> QED BY <1>7, <2>1
  <1>13. ASSUME configured', ~disturbed' PROVE LockHeld' /\ Ordered'
    <2>1. LockHeld /\ Ordered
      BY <1>1, <1>13 DEF CacheInv
    <2>2. LockHeld'
      BY <1>1, <2>1 DEF LockHeld, Loading, Holds, Present
    <2>3. \A q \in Requests : Answered(q)' => /\ Answered(q) /\ requests'[q].value = requests[q].value
                                              /\ since'[q] = since[q]
      BY <1>7, <1>10
    <2>4. Ordered'
      BY <1>1, <2>1, <2>3 DEF Ordered, Present
    <2> QED BY <2>2, <2>4
  <1> QED BY <1>7, <1>11, <1>12, <1>13 DEF CacheInv

LEMMA HitKeeps ==
  ASSUME CacheInv, NEW r \in Requests, Hit(r)
  PROVE  CacheInv'
  <1>1. /\ requests[r].at = "looking" /\ Present
        /\ requests' = [requests EXCEPT ![r] =
                         [at |-> "answered", process |-> Nobody, value |-> entry.version]]
        /\ refreshing' \subseteq refreshing \cup {requests[r].process}
        /\ UNCHANGED <<configured, version, entry, lock, releasing, flights, since, faults, disturbed>>
    BY DEF Hit, cacheVars
  <1>2. PICK k : k = [at |-> "answered", process |-> Nobody, value |-> entry.version]
    OBVIOUS
  <1>3. k \in Request /\ k.at = "answered" /\ k.value = entry.version
    BY <1>2, CacheTyped DEF Request
  <1>4. requests' = [requests EXCEPT ![r] = k]
    BY <1>1, <1>2
  <1>5. /\ requests' \in [Requests -> Request] /\ requests'[r] = k
        /\ \A q \in Requests : q # r => requests'[q] = requests[q]
    BY <1>3, <1>4, CacheTyped
  <1>6. refreshing' \subseteq Processes
    BY <1>1, CacheTyped DEF CacheInv
  <1>7. CacheTypeOK'
    BY <1>1, <1>5, <1>6, CacheTyped, StayTyped
  <1>8. \A q \in Requests : /\ requests'[q].at = "looking" => requests'[q].process \in Processes
                            /\ Answered(q) => Answered(q)' /\ requests'[q].value = requests[q].value
                            /\ Answered(q)' /\ q # r => Answered(q)
    BY <1>1, <1>3, <1>5 DEF CacheInv, Answered
  <1>9. SinceAnswered'
    BY <1>1, <1>8, SinceStays
  <1>10. ASSUME configured', ~disturbed' PROVE LockHeld' /\ Ordered'
    <2>1. LockHeld /\ Ordered
      BY <1>1, <1>10 DEF CacheInv
    <2>2. LockHeld'
      BY <1>1, <2>1 DEF LockHeld, Loading, Holds, Present
    <2>3. entry.version \in Nat /\ version \in Nat /\ since[r] \in Nat
      BY CacheTyped
    <2>4. since[r] <= entry.version /\ entry.version <= version
      BY <1>1, <2>1, <2>3 DEF CacheInv, SinceAnswered, Ordered
    <2>5. ASSUME NEW q \in Requests, Answered(q)'
          PROVE  requests'[q].value \in since'[q]..version' /\ requests'[q].value <= entry'.version
      <3>1. CASE q = r
        BY <1>1, <1>3, <1>5, <2>3, <2>4, <3>1
      <3>2. CASE q # r
        BY <1>1, <1>8, <2>1, <2>5, <3>2 DEF Ordered
      <3> QED BY <3>1, <3>2
    <2>6. ASSUME NEW p \in Processes, flights'[p].stage = "saving"
          PROVE  /\ flights'[p].value <= version' /\ entry'.version <= flights'[p].value
                 /\ \A q \in Requests : Answered(q)' => requests'[q].value <= flights'[p].value
      <3>1. flights'[p].value <= version' /\ entry'.version <= flights'[p].value
        BY <1>1, <2>1, <2>6 DEF Ordered
      <3>2. \A q \in Requests : requests'[q].value \in Nat
        BY <1>5, CacheTyped DEF Request
      <3>3. flights'[p].value \in Nat /\ entry'.version \in Nat
        BY <1>1, <2>3, CacheTyped DEF Flight
      <3> QED BY <2>5, <3>1, <3>2, <3>3
    <2>7. Ordered'
      BY <1>1, <2>4, <2>5, <2>6 DEF Ordered
    <2> QED BY <2>2, <2>7
  <1> QED BY <1>7, <1>8, <1>9, <1>10 DEF CacheInv

\* Steps of Redis and the world: nobody is answered and no flight moves.
LEMMA WorldMoves ==
  ASSUME CacheInv, UNCHANGED <<configured, flights, requests, since>>,
         version' \in Versions, entry' \in [version : Versions, age : {"none", "fresh", "stale"}],
         lock' \in BOOLEAN, releasing' \subseteq Processes, refreshing' \subseteq Processes,
         faults' \in 0..MaxFaults, disturbed' \in BOOLEAN,
         configured /\ ~disturbed' => LockHeld' /\ Ordered'
  PROVE  CacheInv'
  <1>1. CacheTypeOK'
    BY CacheTyped, StayTyped
  <1>2. \A q \in Requests : /\ requests'[q].at = "looking" => requests'[q].process \in Processes
                            /\ Answered(q) => Answered(q)' /\ requests'[q].value = requests[q].value
    BY DEF CacheInv, Answered
  <1>3. SinceAnswered'
    BY <1>2, SinceStays
  <1> QED BY <1>1, <1>2, <1>3 DEF CacheInv

LEMMA OrderedStays ==
  ASSUME Ordered, UNCHANGED <<entry, configured, version, flights, requests, since>>
  PROVE  Ordered'
  BY DEF Ordered, Answered, Present

LEMMA ReleaseKeeps ==
  ASSUME CacheInv, NEW p \in Processes, Release(p)
  PROVE  CacheInv'
  <1>1. /\ p \in releasing /\ releasing' = releasing \ {p}
        /\ (lock' = FALSE /\ NoFault) \/ (UNCHANGED lock /\ Fault)
        /\ UNCHANGED <<configured, version, entry, flights, refreshing, requests, since>>
    BY DEF Release
  <1>2. lock' \in BOOLEAN
    <2>1. CASE lock' = FALSE
      BY <2>1, Zenon
    <2>2. CASE lock' = lock
      BY <2>2, CacheTyped
    <2> QED BY <1>1, <2>1, <2>2
  <1>3. /\ disturbed' \in BOOLEAN /\ faults' \in 0..MaxFaults /\ (disturbed => disturbed')
        /\ ~disturbed' => NoFault
    BY <1>1, FaultOrNot
  <1>4. ASSUME configured, ~disturbed' PROVE LockHeld' /\ Ordered'
    <2>1. LockHeld /\ Ordered /\ Present
      BY <1>1, <1>3, <1>4 DEF CacheInv, LockHeld
    <2>2. ASSUME NEW q \in Processes PROVE ~Holds(q)'
      <3>1. Holds(p) /\ (Holds(q) => q = p) /\ ~flights[p].acquired
        BY <1>1, <2>1 DEF LockHeld, Holds
      <3> QED BY <1>1, <3>1 DEF Holds
    <2>3. ASSUME NEW q \in Processes PROVE ~Loading(q)' /\ ~flights'[q].acquired /\ Present'
      BY <1>1, <2>1, <2>2 DEF LockHeld, Loading, Holds, Present
    <2>4. LockHeld'
      BY <1>1, <2>1, <2>2, <2>3 DEF LockHeld, Holds, Present
    <2> QED BY <1>1, <2>1, <2>4, OrderedStays
  <1>5. releasing' \subseteq Processes
    BY <1>1, CacheTyped
  <1> QED BY <1>1, <1>2, <1>3, <1>4, <1>5, CacheTyped, WorldMoves

LEMMA LockExpiresKeeps == ASSUME CacheInv, LockExpires PROVE CacheInv'
  <1>1. /\ lock' = FALSE
        /\ disturbed' = (disturbed \/ \E p \in Processes : flights[p].stage # "none" \/ p \in releasing)
        /\ UNCHANGED <<configured, version, entry, releasing, flights, refreshing, requests, since, faults>>
    BY DEF LockExpires
  <1>2. lock' \in BOOLEAN
    BY <1>1, Zenon
  <1>3. disturbed' \in BOOLEAN
    BY <1>1, CacheTyped
  <1>4. ASSUME configured, ~disturbed' PROVE LockHeld' /\ Ordered'
    <2>1. /\ LockHeld /\ Ordered
          /\ \A p \in Processes : flights[p].stage = "none" /\ p \notin releasing
      BY <1>1, <1>4 DEF CacheInv
    <2>2. \A p \in Processes : ~flights'[p].acquired /\ flights'[p].stage = "none" /\ p \notin releasing'
      BY <1>1, <2>1 DEF LockHeld
    <2>3. releasing' = {} /\ "none" \notin Polling
      BY <1>1, <2>2, CacheTyped DEF Polling
    <2>4. LockHeld'
      BY <2>2, <2>3 DEF LockHeld, Loading, Holds
    <2> QED BY <1>1, <2>1, <2>4, OrderedStays
  <1> QED BY <1>1, <1>2, <1>3, <1>4, CacheTyped, WorldMoves

LEMMA StalesKeeps == ASSUME CacheInv, Stales PROVE CacheInv'
  <1>1. /\ entry.age = "fresh" /\ entry' = [entry EXCEPT !.age = "stale"]
        /\ UNCHANGED <<configured, version, lock, releasing, flights, refreshing, requests, since,
                       faults, disturbed>>
    BY DEF Stales
  <1>2. /\ entry' \in [version : Versions, age : {"none", "fresh", "stale"}]
        /\ entry'.version = entry.version /\ entry'.age = "stale"
    BY <1>1, CacheTyped
  <1>3. Present' <=> Present
    BY <1>1, <1>2 DEF Present
  <1>4. ASSUME configured, ~disturbed' PROVE LockHeld' /\ Ordered'
    <2>1. LockHeld /\ Ordered
      BY <1>1, <1>4 DEF CacheInv
    <2>2. LockHeld'
      BY <1>1, <1>3, <2>1 DEF LockHeld, Loading, Holds
    <2>3. Ordered'
      BY <1>1, <1>2, <1>3, <2>1 DEF Ordered, Answered
    <2> QED BY <2>2, <2>3
  <1> QED BY <1>1, <1>2, <1>4, CacheTyped, WorldMoves

LEMMA EntryExpiresKeeps == ASSUME CacheInv, EntryExpires PROVE CacheInv'
  <1>1. /\ entry' = NoEntry
        /\ disturbed' = (disturbed \/ releasing # {} \/ \E p \in Processes : flights[p].stage \in Polling)
        /\ UNCHANGED <<configured, version, lock, releasing, flights, refreshing, requests, since, faults>>
    BY DEF EntryExpires
  <1>2. entry' \in [version : Versions, age : {"none", "fresh", "stale"}] /\ entry'.age = "none"
    BY <1>1, CacheTyped DEF NoEntry
  <1>3. disturbed' \in BOOLEAN /\ ~Present'
    BY <1>1, <1>2, CacheTyped DEF Present
  <1>4. ASSUME configured, ~disturbed' PROVE LockHeld' /\ Ordered'
    <2>1. /\ LockHeld /\ Ordered /\ releasing = {}
          /\ \A p \in Processes : flights[p].stage \notin Polling
      BY <1>1, <1>4 DEF CacheInv
    <2>2. \A p \in Processes : flights[p].stage # "retrying"
      BY <2>1 DEF Polling
    <2>3. LockHeld'
      BY <1>1, <2>1, <2>2 DEF LockHeld, Loading, Holds
    <2>4. Ordered'
      BY <1>1, <1>3, <2>1 DEF Ordered, Answered
    <2> QED BY <2>3, <2>4
  <1> QED BY <1>1, <1>2, <1>3, <1>4, CacheTyped, WorldMoves

LEMMA SourceChangesKeeps == ASSUME CacheInv, SourceChanges PROVE CacheInv'
  <1>1. /\ version < MaxVersion /\ version' = version + 1
        /\ UNCHANGED <<configured, entry, lock, releasing, flights, refreshing, requests, since,
                       faults, disturbed>>
    BY DEF SourceChanges, cacheVars
  <1>2. version' \in Versions /\ version \in Nat
    BY <1>1, CacheTyped, BoundsAssumption DEF Versions
  <1>3. ASSUME configured, ~disturbed' PROVE LockHeld' /\ Ordered'
    <2>1. LockHeld /\ Ordered /\ (Present' <=> Present)
      BY <1>1, <1>3 DEF CacheInv, Present
    <2>2. LockHeld'
      BY <1>1, <2>1 DEF LockHeld, Loading, Holds
    <2>3. ASSUME NEW r \in Requests, Answered(r)'
          PROVE  requests'[r].value \in since'[r]..version'
      <3>1. requests[r].value \in since[r]..version /\ since[r] \in Nat
        BY <1>1, <2>1, <2>3, CacheTyped DEF Ordered, Answered
      <3> QED BY <1>1, <1>2, <3>1
    <2>4. ASSUME Present' PROVE entry'.version <= version'
      <3>1. entry.version <= version /\ entry.version \in Nat
        BY <2>1, <2>4, CacheTyped DEF Ordered
      <3> QED BY <1>1, <1>2, <3>1
    <2>5. ASSUME NEW p \in Processes, flights'[p].stage = "saving" PROVE flights'[p].value <= version'
      <3>1. flights[p].value <= version /\ flights[p].value \in Nat
        BY <1>1, <2>1, <2>5, CacheTyped DEF Ordered, Flight
      <3> QED BY <1>1, <1>2, <3>1
    <2>6. Ordered'
      BY <1>1, <2>1, <2>3, <2>4, <2>5 DEF Ordered, Answered
    <2> QED BY <2>2, <2>6
  <1> QED BY <1>1, <1>2, <1>3, CacheTyped, WorldMoves

LEMMA CacheRests == ASSUME CacheInv, UNCHANGED responseVars PROVE CacheInv'
  <1>1. UNCHANGED <<configured, version, entry, lock, releasing, flights, refreshing, requests, since,
                    faults, disturbed>>
    BY DEF responseVars, cacheVars
  <1>2. ASSUME configured, ~disturbed' PROVE LockHeld' /\ Ordered'
    BY <1>1, <1>2 DEF CacheInv, LockHeld, Loading, Holds, Present, Ordered, Answered
  <1> QED BY <1>1, <1>2, CacheTyped, WorldMoves

LEMMA CacheStart == ASSUME CacheInit PROVE CacheInv
  <1>1. /\ configured \in BOOLEAN /\ version = 0 /\ entry = NoEntry
        /\ lock = FALSE /\ releasing = {} /\ refreshing = {}
        /\ flights = [p \in Processes |-> NoFlight]
        /\ requests = [r \in Requests |-> [at |-> "new", process |-> Nobody, value |-> 0]]
        /\ since = [r \in Requests |-> 0] /\ faults = 0 /\ disturbed = FALSE
    BY DEF CacheInit
  <1>2. 0 \in Versions /\ 0 \in 0..MaxFaults
    BY BoundsAssumption DEF Versions
  <1>3. \A p \in Processes : /\ flights[p] = NoFlight /\ flights[p].stage = "none"
                             /\ flights[p].acquired = FALSE
    BY <1>1 DEF NoFlight
  <1>4. \A r \in Requests : requests[r].at = "new"
    BY <1>1
  <1>5. CacheTypeOK
    <2>1. NoFlight \in [stage : Stages, acquired : BOOLEAN, late : BOOLEAN, value : Versions]
      BY <1>2 DEF NoFlight, Stages
    <2>2. NoEntry \in [version : Versions, age : {"none", "fresh", "stale"}]
      BY <1>2 DEF NoEntry
    <2>3. [at |-> "new", process |-> Nobody, value |-> 0] \in
              [at : {"new", "looking", "joined", "answered", "failed", "gone"},
               process : Processes \cup {Nobody}, value : Versions]
      BY <1>2
    <2>4. lock \in BOOLEAN /\ disturbed \in BOOLEAN
      BY <1>1, Zenon
    <2> QED BY <1>1, <1>2, <2>1, <2>2, <2>3, <2>4 DEF CacheTypeOK
  <1>6. SinceAnswered
    BY <1>1 DEF SinceAnswered
  <1>7. LockHeld
    <2>1. "none" \notin Polling
      BY DEF Polling
    <2> QED BY <1>1, <1>3, <2>1 DEF LockHeld, Loading, Holds
  <1>8. Ordered
    BY <1>1, <1>3, <1>4, <1>2 DEF Ordered, Answered, Present, NoEntry
  <1> QED BY <1>4, <1>5, <1>6, <1>7, <1>8 DEF CacheInv

LEMMA CacheSteps == ASSUME CacheInv, [CacheNext]_responseVars PROVE CacheInv'
  <1>1. ASSUME NEW r \in Requests, Lookup(r) \/ \E p \in Processes : Arrive(r, p) PROVE CacheInv'
    BY <1>1, HitKeeps, MissKeeps, ArriveKeeps DEF Lookup
  <1>2. ASSUME NEW p \in Processes,
               Revalidate(p) \/ FlightStep(p) \/ Deadline(p) \/ Release(p) \/ Crash(p)
        PROVE  CacheInv'
    BY <1>2, RevalidateKeeps, AcquireKeeps, PollKeeps, PollFindsKeeps, RejectKeeps, SaveKeeps,
       ReleaseKeeps, CrashKeeps DEF FlightStep
  <1>3. CASE LockExpires \/ Stales \/ EntryExpires \/ SourceChanges
    BY <1>3, LockExpiresKeeps, StalesKeeps, EntryExpiresKeeps, SourceChangesKeeps
  <1> QED BY <1>1, <1>2, <1>3, CacheRests DEF CacheNext

\* withSingleFlight does what its name says, for any number of processes, requests, changes of
\* the data and faults: between a lock that nothing disturbed and the entry its holder leaves
\* behind, no second process starts to load.
THEOREM OneProcessLoads == CacheSpec => []SingleFlight
  <1>1. CacheInit => CacheInv
    BY CacheStart
  <1>2. CacheInv /\ [CacheNext]_responseVars => CacheInv'
    BY CacheSteps
  <1>3. CacheInv => SingleFlight
    BY CacheSound
  <1> QED BY <1>1, <1>2, <1>3, PTL DEF CacheSpec

\* A request that arrives after another was answered gets no older version, from the cache, a
\* poll, or a flight it joins.
THEOREM DataNeverGoesBack == CacheSpec => []AnswersNeverGoBack
  <1>1. CacheInit => CacheInv
    BY CacheStart
  <1>2. CacheInv /\ [CacheNext]_responseVars => CacheInv'
    BY CacheSteps
  <1>3. CacheInv => AnswersNeverGoBack
    BY CacheSound
  <1> QED BY <1>1, <1>2, <1>3, PTL DEF CacheSpec

-------------------------------------------------------------------------------
(* The subscriptions, the page and the emitter of StatusFeed *)
Heard   == Verdicts \cup {"none"}
Emitter == [on : BOOLEAN, announced : Heard, left : BOOLEAN, handler : BOOLEAN, heard : Heard,
            buffer : Heard, shifted : BOOLEAN, crossed : BOOLEAN, dead : BOOLEAN]

IsTrue(status) == status \in Verdicts => chain = status

FeedTyped ==
    /\ subscription \in [Clients -> Statuses \cup {NotSubscribed, "null"}]
    /\ told \in [Clients -> Heard]
    /\ poller \in BOOLEAN /\ lookups \in BOOLEAN
    /\ saved \in Statuses \cup {"none"}
    /\ flight \in {"none", "asking", "background"}

SubscriptionsInv ==
    /\ FeedTyped
    /\ SubscribersPolled
    /\ \A c \in Clients : IsTrue(told[c])
    /\ IsTrue(saved)

\* A tick only announces for a watch that is there, which announced nothing yet; and what was
\* announced is in the buffer for handlers to come.
TicksForWatch ==
    /\ emitter.on => follower = "watch" /\ emitter.announced = "none" /\ ~emitter.left
    /\ request["hook"] # "none" => follower = "page" \/ emitter.on
    /\ emitter.announced # "none" /\ ~emitter.shifted => emitter.buffer = emitter.announced

EmitterInv ==
    /\ emitter \in Emitter
    /\ IsTrue(emitter.announced) /\ IsTrue(emitter.heard) /\ IsTrue(emitter.buffer)
    /\ EventsAreExact

PageInv ==
    /\ shown \in Statuses \cup {"none"} /\ IsTrue(shown)
    /\ clientCache \in Statuses \cup {"none"} /\ IsTrue(clientCache)
    /\ routeCache \in Statuses \cup {"none"} /\ IsTrue(routeCache)
    /\ follower \in {"nobody", "page", "watch"}
    /\ request \in [Reasons -> {"none", "sent", "asking"}]
    /\ EmitterInv /\ TicksForWatch

FeedInv == TransactionTypeOK /\ SubscriptionsInv /\ PageInv

LEMMA FeedSound == ASSUME FeedInv PROVE FeedIsSound
  <1>1. DOMAIN emitter = DOMAIN Quiet
    BY DEF FeedInv, PageInv, EmitterInv, Emitter, Quiet
  <1>2. TypeOK
    BY <1>1 DEF FeedInv, SubscriptionsInv, FeedTyped, PageInv, TypeOK, Heard
  <1>3. VerdictsTrue
    BY DEF FeedInv, SubscriptionsInv, PageInv, EmitterInv, IsTrue, VerdictsTrue
  <1> QED BY <1>2, <1>3 DEF FeedInv, SubscriptionsInv, FeedIsSound

\* Nothing that is true becomes false: only a transaction without a verdict gets one.
LEMMA SubscriptionsStay ==
  ASSUME SubscriptionsInv, UNCHANGED feedVars, chain' = chain \/ chain \notin Verdicts
  PROVE  SubscriptionsInv'
  <1>1. UNCHANGED <<subscription, told, poller, lookups, saved, flight>>
    BY DEF feedVars
  <1>2. \A s : IsTrue(s) => (s \in Verdicts => chain' = s)
    BY DEF IsTrue
  <1> QED BY <1>1, <1>2 DEF SubscriptionsInv, FeedTyped, SubscribersPolled, Subscribed, IsTrue

LEMMA PageStays ==
  ASSUME PageInv, UNCHANGED pageVars, chain' = chain \/ chain \notin Verdicts
  PROVE  PageInv'
  <1>1. UNCHANGED <<follower, shown, emitter, clientCache, request, routeCache>>
    BY DEF pageVars
  <1>2. \A s : IsTrue(s) => (s \in Verdicts => chain' = s)
    BY DEF IsTrue
  <1>3. EmitterInv' /\ TicksForWatch'
    BY <1>1, <1>2 DEF PageInv, EmitterInv, TicksForWatch, EventsAreExact, IsTrue
  <1> QED BY <1>1, <1>2, <1>3 DEF PageInv, IsTrue

\* What the network answers is true.
LEMMA AnswerTrue ==
  ASSUME TransactionTypeOK, NEW status \in Statuses, GetTransactionStatus(status)
  PROVE  TransactionTypeOK' /\ UNCHANGED chain /\ IsTrue(status)
  <1>1. UNCHANGED <<chain, elapsed, lagging>> /\ (Found(status) \/ NotFound(status))
    BY DEF GetTransactionStatus
  <1>2. tracked' = FALSE \/ tracked' = tracked
    BY <1>1 DEF Found, NotFound
  <1>3. tracked' \in BOOLEAN
    <2>1. CASE tracked' = FALSE
      BY <2>1, Zenon
    <2>2. CASE tracked' = tracked
      BY <2>2 DEF TransactionTypeOK
    <2> QED BY <1>2, <2>1, <2>2
  <1>4. IsTrue(status)
    BY <1>1 DEF Found, NotFound, IsTrue, Verdicts
  <1> QED BY <1>1, <1>3, <1>4 DEF TransactionTypeOK

-------------------------------------------------------------------------------
\* What leaves of a subscription leaves the poller to the others.
LEMMA SubscribeKeeps ==
  ASSUME SubscriptionsInv, NEW c \in Clients, NEW known \in Statuses \cup {"null"},
         Subscribe(c, known)
  PROVE  SubscriptionsInv'
  <1>1. /\ subscription' = [subscription EXCEPT ![c] = known]
        /\ told' = [told EXCEPT ![c] = "none"]
        /\ poller' = TRUE /\ lookups' = TRUE
        /\ UNCHANGED <<chain, saved, flight>>
    BY DEF Subscribe, transaction
  <1>2. poller' \in BOOLEAN /\ lookups' \in BOOLEAN
    BY <1>1, Zenon
  <1>3. FeedTyped'
    BY <1>1, <1>2 DEF SubscriptionsInv, FeedTyped, Heard
  <1>4. SubscribersPolled'
    BY <1>1 DEF SubscribersPolled
  <1>5. \A d \in Clients : told'[d] = told[d] \/ told'[d] = "none"
    BY <1>1 DEF SubscriptionsInv, FeedTyped
  <1>6. \A d \in Clients : told'[d] \in Verdicts => chain' = told'[d]
    BY <1>1, <1>5 DEF SubscriptionsInv, IsTrue, Verdicts
  <1> QED BY <1>1, <1>3, <1>4, <1>6 DEF SubscriptionsInv, IsTrue

LEMMA LeaveKeeps ==
  ASSUME SubscriptionsInv, NEW c \in Clients, Unsubscribe(c) \/ Disconnect(c)
  PROVE  SubscriptionsInv'
  <1>1. /\ subscription' = [subscription EXCEPT ![c] = NotSubscribed]
        /\ told' = told \/ told' = [told EXCEPT ![c] = "none"]
        /\ Left(c) \/ (~Subscribed(c) /\ UNCHANGED poller)
        /\ UNCHANGED <<chain, lookups, saved, flight>>
    BY DEF Unsubscribe, Disconnect, transaction
  <1>2. poller' \in BOOLEAN
    BY <1>1 DEF SubscriptionsInv, FeedTyped, Left
  <1>3. FeedTyped'
    BY <1>1, <1>2 DEF SubscriptionsInv, FeedTyped, Heard
  <1>4. ASSUME NEW d \in Registered, Subscribed(d)' PROVE poller'
    <2>1. d # c /\ Subscribed(d)
      BY <1>1, <1>4 DEF SubscriptionsInv, FeedTyped, Subscribed, Registered
    <2>2. poller /\ ~StopsPolling(c)
      BY <1>4, <2>1 DEF SubscriptionsInv, SubscribersPolled, StopsPolling
    <2> QED BY <1>1, <2>2 DEF Left
  <1>5. \A d \in Clients : told'[d] = told[d] \/ told'[d] = "none"
    BY <1>1 DEF SubscriptionsInv, FeedTyped
  <1>6. \A d \in Clients : told'[d] \in Verdicts => chain' = told'[d]
    BY <1>1, <1>5 DEF SubscriptionsInv, IsTrue, Verdicts
  <1> QED BY <1>1, <1>3, <1>4, <1>6 DEF SubscriptionsInv, SubscribersPolled, IsTrue

\* A delivery ends subscriptions and starts none, and tells what is true.
LEMMA DeliverKeeps ==
  ASSUME SubscriptionsInv, NEW status \in Statuses, IsTrue(status), Deliver(status),
         UNCHANGED <<chain, poller>>, lookups' \in BOOLEAN, flight' \in {"none", "asking", "background"},
         saved' = saved \/ saved' = status
  PROVE  SubscriptionsInv'
  <1>1. ASSUME NEW c \in Clients
        PROVE  /\ subscription'[c] \in {subscription[c], NotSubscribed, status}
               /\ subscription'[c] = subscription[c] \/ subscription'[c] = NotSubscribed \/ Subscribed(c)
               /\ told'[c] = told[c] \/ (told'[c] = status /\ status \in Verdicts)
    <2>1. /\ subscription'[c] = IF ~Informed(c, status) THEN subscription[c]
                                ELSE IF status \in Verdicts THEN NotSubscribed ELSE status
          /\ told'[c] = IF Informed(c, status) /\ status \in Verdicts THEN status ELSE told[c]
      BY DEF Deliver
    <2>2. Informed(c, status) => Subscribed(c)
      BY DEF Informed
    <2> QED BY <2>1, <2>2
  <1>2. \A c \in Clients : /\ subscription'[c] \in Statuses \cup {NotSubscribed, "null"}
                           /\ told'[c] \in Heard
    BY <1>1 DEF SubscriptionsInv, FeedTyped, Heard
  <1>3. FeedTyped'
    <2>1. /\ subscription' = [c \in Clients |-> subscription'[c]]
          /\ told' = [c \in Clients |-> told'[c]]
      BY DEF Deliver
    <2> QED BY <1>2, <2>1 DEF SubscriptionsInv, FeedTyped
  <1>4. \A c \in Registered : Subscribed(c)' => Subscribed(c)
    BY <1>1 DEF Subscribed, Registered
  <1>5. SubscribersPolled'
    BY <1>4 DEF SubscriptionsInv, SubscribersPolled, Registered
  <1>6. \A c \in Clients : told'[c] \in Verdicts => chain' = told'[c]
    BY <1>1 DEF SubscriptionsInv, IsTrue
  <1>7. saved' \in Verdicts => chain' = saved'
    BY DEF SubscriptionsInv, IsTrue
  <1> QED BY <1>3, <1>5, <1>6, <1>7 DEF SubscriptionsInv, IsTrue

\* Steps of the poller and the load that deliver nothing.
LEMMA CacheMoves ==
  ASSUME SubscriptionsInv, UNCHANGED <<chain, subscription, told, poller>>, lookups' \in BOOLEAN,
         flight' \in {"none", "asking", "background"},
         saved' \in Statuses \cup {"none"}, saved' \in Verdicts => chain = saved'
  PROVE  SubscriptionsInv'
  BY DEF SubscriptionsInv, FeedTyped, SubscribersPolled, Subscribed, IsTrue

LEMMA FeedSteps == ASSUME FeedInv, FeedStep PROVE FeedInv'
  <1>0. TransactionTypeOK /\ SubscriptionsInv /\ PageInv /\ FeedTyped
    BY DEF FeedInv, SubscriptionsInv
  <1>1. ASSUME UNCHANGED <<transaction, pageVars>>, SubscriptionsInv' PROVE FeedInv'
    BY <1>0, <1>1, PageStays DEF FeedInv, transaction, TransactionTypeOK
  <1>2. ASSUME NEW c \in Clients, NEW known \in Statuses \cup {"null"}, Subscribe(c, known)
        PROVE  FeedInv'
    BY <1>0, <1>1, <1>2, SubscribeKeeps DEF Subscribe
  <1>3. ASSUME NEW c \in Clients, Unsubscribe(c) \/ Disconnect(c) PROVE FeedInv'
    <2>1. UNCHANGED <<transaction, pageVars>>
      BY <1>3 DEF Unsubscribe, Disconnect
    <2> QED BY <1>0, <1>1, <1>3, <2>1, LeaveKeeps
  <1>4. CASE PollHits
    <2>1. /\ UNCHANGED <<transaction, pageVars>> /\ UNCHANGED <<chain, poller, saved>>
          /\ lookups' = FALSE /\ saved # "none" /\ Deliver(saved)
          /\ flight' \in {flight, IF flight = "none" THEN "background" ELSE flight}
      BY <1>4 DEF PollHits, transaction
    <2>2. lookups' \in BOOLEAN
      BY <2>1, Zenon
    <2>3. PICK s : s = saved
      OBVIOUS
    <2>4. s \in Statuses /\ IsTrue(s) /\ Deliver(s)
      BY <1>0, <2>1, <2>3 DEF SubscriptionsInv, FeedTyped
    <2>5. flight' \in {"none", "asking", "background"}
      BY <1>0, <2>1 DEF FeedTyped
    <2>6. SubscriptionsInv'
      BY <1>0, <2>1, <2>2, <2>4, <2>5, DeliverKeeps
    <2> QED BY <1>1, <2>1, <2>6
  <1>5. CASE Poll \/ PollMisses \/ FlightFails \/ EntryGoes
    <2>1. /\ UNCHANGED <<transaction, pageVars>> /\ UNCHANGED <<chain, subscription, told, poller>>
          /\ lookups' \in {TRUE, FALSE, lookups} /\ flight' \in {"none", "asking", flight}
          /\ saved' = saved \/ saved' = "none"
      BY <1>5 DEF Poll, PollMisses, FlightFails, EntryGoes, transaction
    <2>2. lookups' \in BOOLEAN
      <3>1. CASE lookups' = lookups
        BY <1>0, <3>1 DEF FeedTyped
      <3>2. CASE lookups' \in {TRUE, FALSE}
        BY <3>2, Zenon
      <3> QED BY <2>1, <3>1, <3>2
    <2>3. saved' \in Statuses \cup {"none"} /\ (saved' \in Verdicts => chain = saved')
      BY <1>0, <2>1 DEF SubscriptionsInv, FeedTyped, IsTrue, Verdicts
    <2>4. flight' \in {"none", "asking", "background"}
      BY <1>0, <2>1 DEF FeedTyped
    <2> QED BY <1>0, <1>1, <2>1, <2>2, <2>3, <2>4, CacheMoves
  <1>6. ASSUME NEW status \in Statuses, FlightLands(status) PROVE FeedInv'
    <2>1. /\ GetTransactionStatus(status) /\ flight' = "none" /\ saved' = status
          /\ IF flight = "asking" THEN Deliver(status) ELSE UNCHANGED <<subscription, told>>
          /\ UNCHANGED <<poller, lookups, pageVars>>
      BY <1>6 DEF FlightLands
    <2>2. TransactionTypeOK' /\ UNCHANGED chain /\ IsTrue(status)
      BY <1>0, <2>1, AnswerTrue
    <2>3. lookups' \in BOOLEAN
      BY <1>0, <2>1 DEF FeedTyped
    <2>4. SubscriptionsInv'
      <3>1. CASE Deliver(status)
        BY <1>0, <2>1, <2>2, <2>3, <3>1, DeliverKeeps
      <3>2. CASE UNCHANGED <<subscription, told>>
        BY <1>0, <2>1, <2>2, <2>3, <3>2, CacheMoves DEF IsTrue
      <3> QED BY <2>1, <3>1, <3>2
    <2>5. PageInv'
      BY <1>0, <2>1, <2>2, PageStays
    <2> QED BY <2>2, <2>4, <2>5 DEF FeedInv
  <1> QED BY <1>2, <1>3, <1>4, <1>5, <1>6 DEF FeedStep

-------------------------------------------------------------------------------
\* What an event does to the emitter.
LEMMA EmittedIs ==
  ASSUME NEW e \in Emitter, NEW status \in Statuses
  PROVE  \E d \in Emitter :
            /\ d = Emitted(e, status)
            /\ d.on = e.on /\ d.left = e.left /\ d.handler = e.handler /\ d.shifted = e.shifted
            /\ d.crossed = e.crossed
            /\ status \notin Verdicts => d = e
            /\ status \in Verdicts => /\ d.announced = status /\ d.buffer = status
                                      /\ d.handler => d.heard = status
                                      /\ d.heard = status \/ d.heard = e.heard
  <1>1. CASE status \notin Verdicts
    BY <1>1 DEF Emitted
  <1>2. CASE status \in Verdicts
    <2>1. PICK h : h = IF e.handler THEN status ELSE e.heard
      OBVIOUS
    <2>2. h \in Heard /\ status \in Heard
      BY <1>2, <2>1 DEF Emitter, Heard
    <2>3. PICK d : d = [e EXCEPT !.announced = status, !.buffer = status, !.heard = h]
      OBVIOUS
    <2>4. /\ d \in Emitter
          /\ d.on = e.on /\ d.left = e.left /\ d.handler = e.handler /\ d.shifted = e.shifted
          /\ d.crossed = e.crossed /\ d.announced = status /\ d.buffer = status /\ d.heard = h
      BY <2>2, <2>3 DEF Emitter
    <2>5. d = Emitted(e, status)
      BY <1>2, <2>1, <2>3 DEF Emitted
    <2> QED BY <1>2, <2>1, <2>4, <2>5
  <1> QED BY <1>1, <1>2

\* The emitter after a tick: d with its watch ended or not, by the verdict or by a handler.
EndsWatch(d, status, e) ==
    /\ e.announced = d.announced /\ e.heard = d.heard /\ e.buffer = d.buffer
    /\ e.handler = d.handler /\ e.shifted = d.shifted
    /\ \/ (e.on <=> status \notin Verdicts) /\ e.left = d.left /\ e.crossed = d.crossed
       \/ ~e.on /\ e.left /\ e.crossed

LEMMA TickIs ==
  ASSUME emitter \in Emitter, NEW status \in Statuses, Tick(status)
  PROVE  \/ status = shown /\ UNCHANGED <<shown, emitter>>
         \/ /\ shown' = status \/ shown' = "none"
            /\ \E d, e \in Emitter : /\ d = Emitted(emitter, status) /\ emitter' = e
                                     /\ EndsWatch(d, status, e)
  <1>1. PICK d \in Emitter : d = Emitted(emitter, status)
    BY EmittedIs
  <1>2. CASE status = shown /\ UNCHANGED <<shown, emitter>>
    BY <1>2
  <1>3. CASE /\ shown' = IF status \in Verdicts THEN "none" ELSE status
             /\ emitter' = [Emitted(emitter, status) EXCEPT !.on = status \notin Verdicts]
    <2>1. PICK b : b = (status \notin Verdicts)
      OBVIOUS
    <2>2. b \in BOOLEAN
      BY <2>1, Zenon
    <2>3. PICK e : e = [d EXCEPT !.on = b]
      OBVIOUS
    <2>4. /\ e \in Emitter /\ e.on = b /\ e.announced = d.announced /\ e.heard = d.heard
          /\ e.buffer = d.buffer /\ e.handler = d.handler /\ e.shifted = d.shifted
          /\ e.left = d.left /\ e.crossed = d.crossed
      BY <1>1, <2>2, <2>3 DEF Emitter
    <2>5. emitter' = e
      BY <1>1, <1>3, <2>1, <2>3, Zenon
    <2>6. e.on <=> status \notin Verdicts
      BY <2>1, <2>4, Zenon
    <2>7. EndsWatch(d, status, e)
      BY <2>4, <2>6 DEF EndsWatch
    <2> QED BY <1>1, <1>3, <2>4, <2>5, <2>7
  <1>4. CASE /\ shown' = status
             /\ emitter' = [Emitted(emitter, status) EXCEPT !.on = FALSE, !.left = TRUE,
                                                            !.crossed = TRUE]
    <2>1. PICK e : e = [d EXCEPT !.on = FALSE, !.left = TRUE, !.crossed = TRUE]
      OBVIOUS
    <2>2. /\ e \in Emitter /\ ~e.on /\ e.left /\ e.crossed /\ e.announced = d.announced
          /\ e.heard = d.heard /\ e.buffer = d.buffer /\ e.handler = d.handler
          /\ e.shifted = d.shifted
      BY <1>1, <2>1 DEF Emitter
    <2>3. emitter' = e
      BY <1>1, <1>4, <2>1
    <2>4. EndsWatch(d, status, e)
      BY <2>2 DEF EndsWatch
    <2> QED BY <1>1, <1>4, <2>2, <2>3, <2>4
  <1> QED BY <1>2, <1>3, <1>4 DEF Tick

\* Whoever is shown a status that is true: the page, or a watch that is there.
LEMMA ShowsKeeps ==
  ASSUME PageInv, NEW status \in Statuses, IsTrue(status), Shows(status),
         UNCHANGED <<chain, follower>>, follower = "page" \/ emitter.on,
         request' \in [Reasons -> {"none", "sent", "asking"}], request'["hook"] = "none",
         clientCache' \in Statuses \cup {"none"}, clientCache' \in Verdicts => chain = clientCache',
         routeCache' \in Statuses \cup {"none"}, routeCache' \in Verdicts => chain = routeCache'
  PROVE  PageInv'
  <1>0. /\ emitter \in Emitter /\ EmitterInv /\ TicksForWatch
        /\ shown \in Statuses \cup {"none"} /\ IsTrue(shown)
    BY DEF PageInv, EmitterInv
  <1>00. "none" \notin Verdicts
    BY DEF Verdicts
  <1>1. CASE follower = "page"
    <2>1. shown' = status /\ emitter' = emitter
      BY <1>1 DEF Shows
    <2>2. EmitterInv' /\ TicksForWatch'
      BY <1>0, <2>1, <1>1 DEF EmitterInv, TicksForWatch, EventsAreExact, IsTrue
    <2> QED BY <2>1, <2>2 DEF PageInv, IsTrue
  <1>2. CASE follower # "page" /\ status = shown /\ UNCHANGED <<shown, emitter>>
    <2>1. EmitterInv' /\ TicksForWatch'
      BY <1>0, <1>2 DEF EmitterInv, TicksForWatch, EventsAreExact, IsTrue
    <2> QED BY <1>2, <2>1 DEF PageInv, IsTrue
  <1>3. CASE /\ follower # "page"
             /\ shown' = status \/ shown' = "none"
             /\ \E d, e \in Emitter : /\ d = Emitted(emitter, status) /\ emitter' = e
                                      /\ EndsWatch(d, status, e)
    <2>1. PICK d \in Emitter, e \in Emitter : /\ d = Emitted(emitter, status) /\ emitter' = e
                                              /\ EndsWatch(d, status, e)
      BY <1>3
    <2>2. /\ d.on = emitter.on /\ d.left = emitter.left /\ d.handler = emitter.handler
          /\ d.shifted = emitter.shifted /\ d.crossed = emitter.crossed
          /\ status \notin Verdicts => d = emitter
          /\ status \in Verdicts => /\ d.announced = status /\ d.buffer = status
                                    /\ d.handler => d.heard = status
                                    /\ d.heard = status \/ d.heard = emitter.heard
      BY <1>0, <2>1, EmittedIs
    <2>3. /\ emitter.on /\ follower = "watch" /\ emitter.announced = "none" /\ ~emitter.left
      BY <1>0, <1>3 DEF TicksForWatch
    <2>4. IsTrue(d.announced) /\ IsTrue(d.heard) /\ IsTrue(d.buffer)
      BY <1>0, <2>2 DEF EmitterInv, IsTrue
    <2>5. IsTrue(emitter.announced)' /\ IsTrue(emitter.heard)' /\ IsTrue(emitter.buffer)'
      BY <2>1, <2>4 DEF EndsWatch, IsTrue
    <2>6. /\ d.handler /\ d.announced # "none" /\ ~d.shifted => d.heard = d.announced
          /\ d.announced # "none" /\ ~d.shifted => d.buffer = d.announced
      BY <2>2, <2>3
    <2>7. e.left /\ ~e.crossed => e.announced = "none"
      BY <2>1, <2>2, <2>3 DEF EndsWatch
    <2>8. EmitterInv'
      <3>1. EventsAreExact'
        BY <2>1, <2>6, <2>7 DEF EventsAreExact, EndsWatch
      <3> QED BY <2>1, <2>5, <3>1 DEF EmitterInv
    <2>9. e.on => e.announced = "none" /\ ~e.left
      BY <2>1, <2>2, <2>3 DEF EndsWatch
    <2>10. TicksForWatch'
      <3>1. e.announced # "none" /\ ~e.shifted => e.buffer = e.announced
        BY <2>1, <2>6 DEF EndsWatch
      <3>2. emitter'.on => follower' = "watch" /\ emitter'.announced = "none" /\ ~emitter'.left
        BY <2>1, <2>3, <2>9
      <3> QED BY <2>1, <3>1, <3>2 DEF TicksForWatch
    <2>11. shown' \in Statuses \cup {"none"} /\ IsTrue(shown)'
      BY <1>3, <1>00 DEF IsTrue
    <2> QED BY <2>8, <2>10, <2>11 DEF PageInv, IsTrue
  <1>4. follower # "page" => Tick(status)
    BY DEF Shows
  <1> QED BY <1>0, <1>1, <1>2, <1>3, <1>4, TickIs

\* The steps of the two caches and of a request that shows nothing.
LEMMA PageMoves ==
  ASSUME PageInv, UNCHANGED <<chain, follower, shown, emitter>>,
         request' \in [Reasons -> {"none", "sent", "asking"}],
         request'["hook"] # "none" => request["hook"] # "none" \/ follower = "page" \/ emitter.on,
         clientCache' \in Statuses \cup {"none"}, clientCache' \in Verdicts => chain = clientCache',
         routeCache' \in Statuses \cup {"none"}, routeCache' \in Verdicts => chain = routeCache'
  PROVE  PageInv'
  <1>1. EmitterInv'
    BY DEF PageInv, EmitterInv, EventsAreExact, IsTrue
  <1>2. TicksForWatch'
    BY DEF PageInv, TicksForWatch
  <1> QED BY <1>1, <1>2 DEF PageInv, IsTrue

\* The SDK's request is answered, by the route's cache or by the network.
LEMMA ReceivedKeeps ==
  ASSUME PageInv, NEW why \in Reasons, request[why] # "none", NEW status \in Statuses, IsTrue(status),
         Received(why, status), UNCHANGED <<chain, follower>>,
         routeCache' = routeCache \/ routeCache' = status
  PROVE  PageInv'
  <1>1. /\ request' = [request EXCEPT ![why] = "none"] /\ clientCache' = status
        /\ IF why = "hook" THEN Shows(status) ELSE UNCHANGED <<shown, emitter>>
    BY DEF Received
  <1>2. request \in [Reasons -> {"none", "sent", "asking"}]
    BY DEF PageInv
  <1>3. /\ request' \in [Reasons -> {"none", "sent", "asking"}]
        /\ why = "hook" => request'["hook"] = "none"
        /\ why # "hook" => request'["hook"] = request["hook"]
    BY <1>1, <1>2 DEF Reasons
  <1>4. /\ routeCache' \in Statuses \cup {"none"} /\ (routeCache' \in Verdicts => chain = routeCache')
        /\ clientCache' \in Statuses \cup {"none"} /\ (clientCache' \in Verdicts => chain = clientCache')
    BY <1>1 DEF PageInv, IsTrue
  <1>5. CASE why = "hook"
    <2>1. follower = "page" \/ emitter.on
      BY <1>5 DEF PageInv, TicksForWatch
    <2> QED BY <1>1, <1>3, <1>4, <1>5, <2>1, ShowsKeeps
  <1>6. CASE why # "hook"
    BY <1>1, <1>3, <1>4, <1>6, PageMoves
  <1> QED BY <1>5, <1>6

LEMMA PageSteps == ASSUME FeedInv, PageStep PROVE FeedInv'
  <1>0. /\ TransactionTypeOK /\ SubscriptionsInv /\ PageInv
        /\ request \in [Reasons -> {"none", "sent", "asking"}]
        /\ "hook" \in Reasons /\ "refresh" \in Reasons /\ "none" \notin Verdicts
        /\ clientCache \in Statuses \cup {"none"} /\ (clientCache \in Verdicts => chain = clientCache)
        /\ routeCache \in Statuses \cup {"none"} /\ (routeCache \in Verdicts => chain = routeCache)
    BY DEF FeedInv, PageInv, Reasons, Verdicts, IsTrue
  <1>1. ASSUME UNCHANGED <<transaction, feedVars>>, PageInv' PROVE FeedInv'
    <2>1. TransactionTypeOK' /\ UNCHANGED chain
      BY <1>0, <1>1 DEF transaction, TransactionTypeOK
    <2>2. SubscriptionsInv'
      BY <1>0, <1>1, <2>1, SubscriptionsStay
    <2> QED BY <1>1, <2>1, <2>2 DEF FeedInv
  <1>2. CASE FetchHits
    <2>1. /\ request["hook"] = "none" /\ (follower = "page" \/ emitter.on)
          /\ clientCache # "none" /\ Shows(clientCache)
          /\ request' = request \/ request' = [request EXCEPT !["refresh"] = "sent"]
          /\ UNCHANGED <<transaction, feedVars>> /\ UNCHANGED <<chain, follower, routeCache, clientCache>>
      BY <1>2 DEF FetchHits, Fetching, transaction
    <2>2. PICK s : s = clientCache
      OBVIOUS
    <2>3. s \in Statuses /\ IsTrue(s) /\ Shows(s)
      BY <1>0, <2>1, <2>2 DEF IsTrue
    <2>4. request' \in [Reasons -> {"none", "sent", "asking"}] /\ request'["hook"] = "none"
      BY <1>0, <2>1
    <2>5. PageInv'
      BY <1>0, <2>1, <2>3, <2>4, ShowsKeeps
    <2> QED BY <1>1, <2>1, <2>5
  <1>3. CASE FetchMisses
    <2>1. /\ follower = "page" \/ emitter.on
          /\ request' = [request EXCEPT !["hook"] = "sent"]
          /\ UNCHANGED <<transaction, feedVars>>
          /\ UNCHANGED <<chain, follower, routeCache, clientCache, shown, emitter>>
      BY <1>3 DEF FetchMisses, Fetching, transaction
    <2>2. request' \in [Reasons -> {"none", "sent", "asking"}]
      BY <1>0, <2>1
    <2>3. PageInv'
      BY <1>0, <2>1, <2>2, PageMoves
    <2> QED BY <1>1, <2>1, <2>3
  <1>4. ASSUME NEW why \in Reasons, RouteHits(why) PROVE FeedInv'
    <2>1. /\ request[why] # "none" /\ routeCache # "none" /\ Received(why, routeCache)
          /\ UNCHANGED <<transaction, feedVars>> /\ UNCHANGED <<chain, follower, routeCache>>
      BY <1>4 DEF RouteHits, transaction
    <2>2. PICK s : s = routeCache
      OBVIOUS
    <2>3. s \in Statuses /\ IsTrue(s) /\ Received(why, s)
      BY <1>0, <2>1, <2>2 DEF IsTrue
    <2>4. PageInv'
      BY <1>0, <2>1, <2>3, ReceivedKeeps
    <2> QED BY <1>1, <2>1, <2>4
  <1>5. ASSUME NEW why \in Reasons, RouteMisses(why) \/ RequestFails(why) PROVE FeedInv'
    <2>1. /\ request[why] # "none"
          /\ request' = [request EXCEPT ![why] = "asking"] \/ request' = [request EXCEPT ![why] = "none"]
          /\ UNCHANGED <<transaction, feedVars>>
          /\ UNCHANGED <<chain, follower, routeCache, clientCache, shown, emitter>>
      BY <1>5 DEF RouteMisses, RequestFails, transaction
    <2>2. /\ request' \in [Reasons -> {"none", "sent", "asking"}]
          /\ request'["hook"] # "none" => request["hook"] # "none"
      <3>1. CASE request' = [request EXCEPT ![why] = "asking"]
        BY <1>0, <2>1, <3>1
      <3>2. CASE request' = [request EXCEPT ![why] = "none"]
        BY <1>0, <2>1, <3>2
      <3> QED BY <2>1, <3>1, <3>2
    <2>3. PageInv'
      BY <1>0, <2>1, <2>2, PageMoves
    <2> QED BY <1>1, <2>1, <2>3
  <1>6. ASSUME NEW why \in Reasons, NEW status \in Statuses, RouteAnswers(why, status) PROVE FeedInv'
    <2>1. /\ request[why] # "none" /\ GetTransactionStatus(status) /\ routeCache' = status
          /\ Received(why, status) /\ UNCHANGED <<feedVars, follower>>
      BY <1>6 DEF RouteAnswers
    <2>2. TransactionTypeOK' /\ UNCHANGED chain /\ IsTrue(status)
      BY <1>0, <2>1, AnswerTrue
    <2>3. PageInv'
      BY <1>0, <2>1, <2>2, ReceivedKeeps
    <2>4. SubscriptionsInv'
      BY <1>0, <2>1, <2>2, SubscriptionsStay
    <2> QED BY <2>2, <2>3, <2>4 DEF FeedInv
  <1>7. CASE RouteCacheExpires \/ ClientCacheExpires
    <2>1. /\ UNCHANGED <<transaction, feedVars>> /\ UNCHANGED <<chain, follower, request, shown, emitter>>
          /\ routeCache' = routeCache \/ routeCache' = "none"
          /\ clientCache' = clientCache \/ clientCache' = "none"
      BY <1>7 DEF RouteCacheExpires, ClientCacheExpires, transaction
    <2>2. /\ routeCache' \in Statuses \cup {"none"} /\ (routeCache' \in Verdicts => chain = routeCache')
          /\ clientCache' \in Statuses \cup {"none"} /\ (clientCache' \in Verdicts => chain = clientCache')
      BY <1>0, <2>1
    <2>3. PageInv'
      BY <1>0, <2>1, <2>2, PageMoves
    <2> QED BY <1>1, <2>1, <2>3
  <1> QED BY <1>2, <1>3, <1>4, <1>5, <1>6, <1>7 DEF PageStep

-------------------------------------------------------------------------------
\* The steps of the emitter, which becomes e.
Emits(e) ==
    /\ IsTrue(e.announced) /\ IsTrue(e.heard) /\ IsTrue(e.buffer)
    /\ e.left /\ ~e.crossed => e.announced = "none"
    /\ e.handler /\ e.announced # "none" /\ ~e.shifted => e.heard = e.announced
    /\ e.on => follower = "watch" /\ e.announced = "none" /\ ~e.left
    /\ e.announced # "none" /\ ~e.shifted => e.buffer = e.announced

LEMMA EmitterMoves ==
  ASSUME PageInv, NEW e \in Emitter, emitter' = e, Emits(e), EmitterOnly,
         shown' = shown \/ shown' = "none",
         request' \in [Reasons -> {"none", "sent", "asking"}],
         request'["hook"] # "none" => follower = "page" \/ e.on
  PROVE  PageInv'
  <1>1. UNCHANGED <<chain, follower, clientCache, routeCache>>
    BY DEF EmitterOnly, transaction
  <1>2. shown' \in Statuses \cup {"none"} /\ (shown' \in Verdicts => chain = shown')
    BY DEF PageInv, IsTrue, Verdicts
  <1>3. EventsAreExact'
    BY DEF EventsAreExact, Emits
  <1>4. EmitterInv'
    BY <1>1, <1>3 DEF EmitterInv, Emits, IsTrue
  <1>5. TicksForWatch'
    BY <1>1 DEF TicksForWatch, Emits
  <1> QED BY <1>1, <1>2, <1>4, <1>5 DEF PageInv, IsTrue

LEMMA CancelledIs ==
  ASSUME PageInv, Cancelled
  PROVE  /\ shown' = "none" /\ request'["hook"] = "none"
         /\ request' \in [Reasons -> {"none", "sent", "asking"}]
  <1>1. /\ request \in [Reasons -> {"none", "sent", "asking"}]
        /\ "hook" \in Reasons /\ "abandoned" \in Reasons
    BY DEF PageInv, Reasons
  <1>2. CASE request["hook"] = "none"
    BY <1>1, <1>2 DEF Cancelled
  <1>3. CASE request["hook"] # "none"
    <2>1. PICK h \in {"none", "sent", "asking"} : h = request["hook"]
      BY <1>1
    <2>2. request' = [request EXCEPT !["abandoned"] = h, !["hook"] = "none"]
      BY <1>3, <2>1 DEF Cancelled
    <2> QED BY <1>1, <2>1, <2>2 DEF Cancelled
  <1> QED BY <1>2, <1>3

LEMMA EmitterSteps == ASSUME FeedInv, EmitterStep PROVE FeedInv'
  <1>0. /\ TransactionTypeOK /\ SubscriptionsInv /\ PageInv /\ EmitterInv /\ TicksForWatch
        /\ emitter \in Emitter /\ request \in [Reasons -> {"none", "sent", "asking"}]
        /\ "none" \in Heard /\ "none" \notin Verdicts
    BY DEF FeedInv, PageInv, EmitterInv, Heard, Verdicts
  <1>1. ASSUME EmitterOnly, PageInv' PROVE FeedInv'
    <2>1. TransactionTypeOK' /\ UNCHANGED <<chain, feedVars>>
      BY <1>0, <1>1 DEF EmitterOnly, transaction, TransactionTypeOK
    <2>2. SubscriptionsInv'
      BY <1>0, <2>1, SubscriptionsStay
    <2> QED BY <1>1, <2>1, <2>2 DEF FeedInv
  <1>2. CASE Watch
    <2>1. PICK e : e = [emitter EXCEPT !.on = TRUE, !.announced = "none", !.left = FALSE]
      OBVIOUS
    <2>2. /\ e \in Emitter /\ e.on /\ e.announced = "none" /\ ~e.left /\ e.heard = emitter.heard
          /\ e.buffer = emitter.buffer
      BY <1>0, <2>1 DEF Emitter
    <2>3. /\ follower = "watch" /\ emitter' = e /\ EmitterOnly /\ UNCHANGED <<shown, request>>
      BY <1>2, <2>1 DEF Watch
    <2>4. Emits(e)
      BY <1>0, <2>2, <2>3 DEF Emits, EmitterInv, IsTrue
    <2>5. PageInv'
      BY <1>0, <2>2, <2>3, <2>4, EmitterMoves
    <2> QED BY <1>1, <2>3, <2>5
  <1>3. CASE Unwatch
    <2>1. PICK e : e = [emitter EXCEPT !.on = FALSE, !.left = TRUE]
      OBVIOUS
    <2>2. /\ e \in Emitter /\ ~e.on /\ e.announced = emitter.announced /\ e.heard = emitter.heard
          /\ e.buffer = emitter.buffer
      BY <1>0, <2>1 DEF Emitter
    <2>3. /\ emitter.on /\ emitter' = e /\ EmitterOnly /\ Cancelled
      BY <1>3, <2>1 DEF Unwatch
    <2>4. Emits(e)
      BY <1>0, <2>2, <2>3 DEF Emits, EmitterInv, TicksForWatch
    <2>5. PageInv'
      BY <1>0, <2>2, <2>3, <2>4, CancelledIs, EmitterMoves
    <2> QED BY <1>1, <2>3, <2>5
  <1>4. CASE Destroy
    <2>1. PICK e : e = [emitter EXCEPT !.on = FALSE, !.left = TRUE, !.dead = TRUE,
                                       !.announced = "none", !.handler = FALSE, !.buffer = "none"]
      OBVIOUS
    <2>2. /\ e \in Emitter /\ ~e.on /\ e.announced = "none" /\ e.heard = emitter.heard
          /\ e.buffer = "none"
      BY <1>0, <2>1 DEF Emitter
    <2>3. emitter' = e /\ EmitterOnly /\ Cancelled
      BY <1>4, <2>1 DEF Destroy
    <2>4. Emits(e)
      BY <1>0, <2>2, <2>3 DEF Emits, EmitterInv, IsTrue
    <2>5. PageInv'
      BY <1>0, <2>2, <2>3, <2>4, CancelledIs, EmitterMoves
    <2> QED BY <1>1, <2>3, <2>5
  <1>5. CASE On
    <2>1. PICK h : h = IF emitter.buffer = "none" THEN emitter.heard ELSE emitter.buffer
      OBVIOUS
    <2>2. h \in Heard
      BY <1>0, <2>1 DEF Emitter
    <2>3. PICK e : e = [emitter EXCEPT !.handler = TRUE, !.heard = h]
      OBVIOUS
    <2>4. /\ e \in Emitter /\ e.on = emitter.on /\ e.announced = emitter.announced /\ e.heard = h
          /\ e.buffer = emitter.buffer /\ e.left = emitter.left /\ e.crossed = emitter.crossed
          /\ e.shifted = emitter.shifted
      BY <1>0, <2>2, <2>3 DEF Emitter
    <2>5. emitter' = e /\ EmitterOnly /\ UNCHANGED <<shown, request>>
      BY <1>0, <1>5, <2>1, <2>3 DEF On, Emitter
    <2>6. Emits(e)
      BY <1>0, <2>1, <2>4, <2>5 DEF Emits, EmitterInv, TicksForWatch, EventsAreExact, IsTrue
    <2>7. PageInv'
      BY <1>0, <2>4, <2>5, <2>6, EmitterMoves DEF TicksForWatch
    <2> QED BY <1>1, <2>5, <2>7
  <1>6. CASE Off
    <2>1. PICK e : e = [emitter EXCEPT !.handler = FALSE, !.heard = "none"]
      OBVIOUS
    <2>2. /\ e \in Emitter /\ e.on = emitter.on /\ e.announced = emitter.announced /\ e.heard = "none"
          /\ e.buffer = emitter.buffer /\ e.left = emitter.left /\ e.crossed = emitter.crossed
          /\ e.shifted = emitter.shifted /\ ~e.handler
      BY <1>0, <2>1 DEF Emitter
    <2>3. emitter' = e /\ EmitterOnly /\ UNCHANGED <<shown, request>>
      BY <1>6, <2>1 DEF Off
    <2>4. Emits(e)
      BY <1>0, <2>2, <2>3 DEF Emits, EmitterInv, TicksForWatch, EventsAreExact, IsTrue
    <2>5. PageInv'
      BY <1>0, <2>2, <2>3, <2>4, EmitterMoves DEF TicksForWatch
    <2> QED BY <1>1, <2>3, <2>5
  <1>7. CASE HistoryShifts
    <2>1. PICK e : e = [emitter EXCEPT !.buffer = "none", !.shifted = TRUE]
      OBVIOUS
    <2>2. /\ e \in Emitter /\ e.on = emitter.on /\ e.announced = emitter.announced
          /\ e.heard = emitter.heard /\ e.left = emitter.left /\ e.crossed = emitter.crossed
          /\ e.buffer = "none" /\ e.shifted
      BY <1>0, <2>1 DEF Emitter
    <2>3. emitter' = e /\ EmitterOnly /\ UNCHANGED <<shown, request>>
      BY <1>7, <2>1 DEF HistoryShifts
    <2>4. Emits(e)
      BY <1>0, <2>2, <2>3 DEF Emits, EmitterInv, TicksForWatch, EventsAreExact, IsTrue
    <2>5. PageInv'
      BY <1>0, <2>2, <2>3, <2>4, EmitterMoves DEF TicksForWatch
    <2> QED BY <1>1, <2>3, <2>5
  <1> QED BY <1>2, <1>3, <1>4, <1>5, <1>6, <1>7 DEF EmitterStep

\* The network reaches one verdict, and what was told before was none.
LEMMA NetworkSteps == ASSUME FeedInv, NetworkStep PROVE FeedInv'
  <1>1. TransactionTypeOK' /\ (chain' = chain \/ chain \notin Verdicts)
    <2>1. CASE LedgerCloses
      BY <2>1 DEF FeedInv, LedgerCloses, TransactionTypeOK, Verdicts
    <2>2. CASE TimeBoundsPass
      BY <2>2 DEF FeedInv, TimeBoundsPass, TransactionTypeOK
    <2>3. CASE CatchUp
      BY <2>3 DEF FeedInv, CatchUp, TransactionTypeOK
    <2> QED BY <2>1, <2>2, <2>3 DEF NetworkStep, TransactionStep
  <1> QED BY <1>1, SubscriptionsStay, PageStays DEF NetworkStep, FeedInv

LEMMA FeedStart == ASSUME Init PROVE FeedInv
  <1>1. /\ chain \in {"unknown", "pending"} /\ elapsed = FALSE /\ tracked \in BOOLEAN /\ lagging = TRUE
        /\ subscription = [c \in Clients |-> NotSubscribed]
        /\ told = [c \in Clients |-> "none"]
        /\ poller = FALSE /\ lookups = FALSE
        /\ saved = "none" /\ flight = "none"
        /\ follower \in {"nobody", "page", "watch"} /\ emitter = Quiet /\ shown = "none"
        /\ clientCache = "none" /\ routeCache = "none"
        /\ request = [why \in Reasons |-> "none"]
    BY DEF Init
  <1>2. elapsed \in BOOLEAN /\ lagging \in BOOLEAN /\ poller \in BOOLEAN /\ lookups \in BOOLEAN
    BY <1>1, Zenon
  <1>3. TransactionTypeOK
    BY <1>1, <1>2 DEF TransactionTypeOK
  <1>4. SubscriptionsInv
    BY <1>1, <1>2 DEF SubscriptionsInv, FeedTyped, Heard, SubscribersPolled, Subscribed, Registered,
                      IsTrue, Verdicts
  <1>5. Quiet \in Emitter
    BY DEF Quiet, Emitter, Heard
  <1>6. EmitterInv /\ TicksForWatch
    BY <1>1, <1>5 DEF EmitterInv, TicksForWatch, EventsAreExact, Quiet, IsTrue, Verdicts, Reasons
  <1>7. PageInv
    BY <1>1, <1>6 DEF PageInv, IsTrue, Verdicts
  <1> QED BY <1>3, <1>4, <1>7 DEF FeedInv

LEMMA FeedRests == ASSUME FeedInv, UNCHANGED vars PROVE FeedInv'
  <1>1. UNCHANGED <<chain, elapsed, tracked, lagging>> /\ UNCHANGED <<feedVars, pageVars>>
    BY DEF vars, transaction
  <1> QED BY <1>1, SubscriptionsStay, PageStays DEF FeedInv, TransactionTypeOK

\* For any number of clients, with and without a token: the poller is there for whoever needs
\* it, nobody is told, shown or served a verdict that the network has not reached, and a watch
\* announces what it should and to whom it should.
THEOREM FeedStaysSound == Spec => []FeedIsSound
  <1>1. Init => FeedInv
    BY FeedStart
  <1>2. FeedInv /\ [Next]_vars => FeedInv'
    BY FeedSteps, PageSteps, EmitterSteps, NetworkSteps, FeedRests DEF Next
  <1>3. FeedInv => FeedIsSound
    BY FeedSound
  <1> QED BY <1>1, <1>2, <1>3, PTL DEF Spec

===============================================================================
