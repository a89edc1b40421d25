-------------------------- MODULE ClientCallsProofs ---------------------------
\* Proofs about ClientCalls. Each part keeps an invariant of its own, whichever part runs:
\* of the withdrawals, that a request waits for a withdrawal of its own process and key;
\* of the diagnosis, that an endpoint served no earlier than the cache's entry of it; of
\* the pages, that the cursor is the end of the collection; of the amounts, that what is
\* shown or sent was made of what was typed; of the mock server, that the first override
\* that matches says what was declared last; of the onramp, that nobody starts after the
\* answer; of the throttle, that the requests which finished outside every window are no
\* more than were being handled when it would have begun.
EXTENDS ClientCalls, SequenceTheorems, FiniteSetTheorems, WellFoundedInduction,
        NaturalsInduction, TLAPS

-------------------------------------------------------------------------------
(* Withdrawals: what the requests say of each other. *)
Attempt == [call : Calls, process : Processes,
            stage : {"sent", "admitted", "joined", "over"}, leader : 0..MaxAttempts,
            order : {"none", "sent"},
            result : {"none", "pending", "failed", "forbidden"}]
ClientCall == [state : Active \cup Ended \cup {"idle"}, key : Keys,
               retries : 0..MaxRetries, attempt : 0..MaxAttempts]

\* A request that is new leads nobody and follows nobody; one that waits for a withdrawal
\* waits for one of its process and its key that is under way; and a withdrawal that is
\* reported created was ordered with the key of the request.
Fresh(n) == attempts[n].leader = 0 /\ attempts[n].order = "none" /\ attempts[n].result = "none"
Follows(n, m) == m \in Numbers /\ InFlight(m) /\ SameWithdrawal(n, m)
Ordered(n, m) == m \in Numbers /\ attempts[m].order = "sent" /\ KeyOf(m) = KeyOf(n)
SaneAttempt(n) ==
    /\ attempts[n].stage \in {"sent", "admitted"} => Fresh(n)
    /\ attempts[n].stage = "joined" => Follows(n, attempts[n].leader) /\ attempts[n].result = "none"
    /\ attempts[n].stage = "over" => attempts[n].result # "none"
    /\ attempts[n].result = "pending" => Ordered(n, attempts[n].leader)

\* Who leads, leads itself, and is told what those who wait for it are told.
LedBy(n) ==
    attempts[n].leader # 0 =>
        LET l == attempts[n].leader
        IN  /\ l \in Numbers /\ attempts[l].leader = l
            /\ attempts[n].result = attempts[l].result

\* A call that waits, or was told, has a request of its own.
SaneCall(c) ==
    call[c].state \in {"waiting", "created"} =>
        /\ call[c].attempt \in Numbers /\ attempts[call[c].attempt].call = c
        /\ call[c].state = "created" => attempts[call[c].attempt].result = "pending"

KeysOK ==
    /\ keyStore \in [Processes -> [Keys -> Valid \cup {"unknown", "revoked"}]]
    /\ issued \subseteq Created /\ barred \subseteq Processes \X Keys
\* Who is barred does not have the scope, and a key that was not made is unknown.
BarredAreOut ==
    /\ \A p \in Processes, k \in Keys : <<p, k>> \in barred =>
           keyStore[p][k] # "withdraws" /\ k \in Legacy \cup issued
    /\ \A p \in Processes, k \in Created : keyStore[p][k] # "unknown" => k \in issued

RequestsOK ==
    /\ attempts \in Seq(Attempt) /\ Len(attempts) <= MaxAttempts
    /\ call \in [Calls -> ClientCall]
AttemptsSane == (\A n \in Numbers : SaneAttempt(n) /\ LedBy(n)) /\ OneInFlight
CallsSane == \A c \in Calls : SaneCall(c)

WithdrawalInv == KeysOK /\ BarredAreOut /\ RequestsOK /\ AttemptsSane /\ CallsSane

-------------------------------------------------------------------------------
LEMMA RequestFacts ==
  ASSUME RequestsOK
  PROVE  /\ Len(attempts) \in Nat /\ Numbers = 1..Len(attempts)
         /\ Numbers \subseteq 1..MaxAttempts
         /\ \A n \in Numbers : attempts[n] \in Attempt /\ attempts[n].call \in Calls
  <1>1. Len(attempts) \in Nat /\ Numbers = 1..Len(attempts) /\ Len(attempts) <= MaxAttempts
    BY DEF RequestsOK, Numbers
  <1>2. Numbers \subseteq 1..MaxAttempts
    BY <1>1, CountsAssumption
  <1>3. \A n \in Numbers : attempts[n] \in Attempt
    BY <1>1 DEF RequestsOK
  <1> QED BY <1>1, <1>2, <1>3 DEF Attempt

\* A step that changes what requests say, but not whose they are.
SameRequests ==
    /\ call' = call /\ Len(attempts') = Len(attempts) /\ Numbers' = Numbers
    /\ \A n \in Numbers : attempts'[n].call = attempts[n].call
                          /\ attempts'[n].process = attempts[n].process

LEMMA SameKeys ==
  ASSUME SameRequests
  PROVE  \A n, m \in Numbers : /\ KeyOf(n)' = KeyOf(n)
                               /\ SameWithdrawal(n, m)' <=> SameWithdrawal(n, m)
  BY DEF SameRequests, KeyOf, SameWithdrawal

\* One request is written anew.
LEMMA OneChanges ==
  ASSUME RequestsOK, NEW n \in Numbers, NEW b \in Attempt,
         b.call = attempts[n].call, b.process = attempts[n].process,
         call' = call, attempts' = [attempts EXCEPT ![n] = b]
  PROVE  /\ RequestsOK' /\ SameRequests /\ attempts'[n] = b
         /\ \A m \in Numbers : m # n => attempts'[m] = attempts[m]
  <1>1. attempts \in Seq(Attempt) /\ n \in DOMAIN attempts
    BY DEF RequestsOK, Numbers
  <1>2. /\ attempts' \in Seq(Attempt) /\ Len(attempts') = Len(attempts) /\ DOMAIN attempts' = DOMAIN attempts
        /\ attempts'[n] = b /\ \A m \in DOMAIN attempts : m # n => attempts'[m] = attempts[m]
    BY <1>1
  <1> QED BY <1>1, <1>2 DEF RequestsOK, SameRequests, Numbers

\* The calls stay sane as long as what is reported to them does.
LEMMA CallsStay ==
  ASSUME CallsSane, SameRequests,
         \A n \in Numbers : attempts[n].result = "pending" => attempts'[n].result = "pending"
  PROVE  CallsSane'
  BY DEF CallsSane, SaneCall, SameRequests

LEMMA AdmitKeeps ==
  ASSUME WithdrawalInv, NEW n \in Numbers, Admit(n)
  PROVE  RequestsOK' /\ AttemptsSane' /\ CallsSane'
  <1> DEFINE a == attempts[n]
             in == [a EXCEPT !.stage = "admitted"]
             out == [a EXCEPT !.stage = "over", !.result = "forbidden"]
  <1>1. a \in Attempt /\ a.stage = "sent" /\ Fresh(n) /\ call' = call
    BY RequestFacts DEF WithdrawalInv, AttemptsSane, SaneAttempt, Admit
  <1>2. PICK b \in {in, out} : attempts' = [attempts EXCEPT ![n] = b]
    BY Zenon DEF Admit, Over
  <1>3. /\ b \in Attempt /\ b.call = a.call /\ b.process = a.process /\ b.leader = 0
        /\ b.order = "none"
        /\ (b.stage = "admitted" /\ b.result = "none") \/ (b.stage = "over" /\ b.result = "forbidden")
    <2>1. CASE b = in
      BY <1>1, <2>1 DEF Attempt, Fresh
    <2>2. CASE b = out
      BY <1>1, <2>2 DEF Attempt, Fresh
    <2> QED BY <2>1, <2>2
  <1> HIDE DEF in, out
  <1>4. /\ RequestsOK' /\ SameRequests /\ attempts'[n] = b
        /\ \A m \in Numbers : m # n => attempts'[m] = attempts[m]
    BY <1>1, <1>2, <1>3, OneChanges DEF WithdrawalInv
  <1>5. \A m, k \in Numbers : SameWithdrawal(m, k)' <=> SameWithdrawal(m, k)
    BY <1>4, SameKeys
  <1>6. \A m \in Numbers : InFlight(m)' <=> InFlight(m)
    BY <1>1, <1>3, <1>4, RequestFacts DEF InFlight, WithdrawalInv, Fresh
  <1>7. \A m \in Numbers : KeyOf(m)' = KeyOf(m) /\ attempts'[m].order = attempts[m].order
    BY <1>1, <1>3, <1>4, SameKeys DEF Fresh
  <1>8. Numbers' = Numbers
    BY <1>4 DEF SameRequests
  <1>9. \A m \in Numbers : SaneAttempt(m)'
    <2> SUFFICES ASSUME NEW m \in Numbers PROVE SaneAttempt(m)'
      OBVIOUS
    <2>1. SaneAttempt(m)
      BY DEF WithdrawalInv, AttemptsSane
    <2>2. CASE m = n
      BY <1>3, <1>4, <2>2 DEF SaneAttempt, Fresh
    <2>3. CASE m # n
      <3>1. attempts'[m] = attempts[m]
        BY <1>4, <2>3
      <3> QED BY <1>5, <1>6, <1>7, <1>8, <2>1, <3>1 DEF SaneAttempt, Fresh, Follows, Ordered
    <2> QED BY <2>2, <2>3
  <1>12. \A m \in Numbers : LedBy(m)'
    <2> SUFFICES ASSUME NEW m \in Numbers PROVE LedBy(m)'
      OBVIOUS
    <2>1. LedBy(m) /\ n # 0
      BY RequestFacts, CountsAssumption DEF WithdrawalInv, AttemptsSane
    <2>2. CASE m = n
      BY <1>3, <1>4, <2>2 DEF LedBy
    <2>3. CASE m # n
      <3>1. attempts'[m] = attempts[m]
        BY <1>4, <2>3
      <3> DEFINE w == attempts[m].leader
      <3>2. CASE w # 0
        <4>1. w \in Numbers /\ attempts[w].leader = w /\ w # n
          BY <1>1, <2>1, <3>2 DEF LedBy, Fresh
        <4> QED BY <1>4, <1>8, <2>1, <3>1, <4>1 DEF LedBy
      <3> QED BY <3>1, <3>2 DEF LedBy
    <2> QED BY <2>2, <2>3
  <1>10. OneInFlight'
    BY <1>5, <1>6, <1>8 DEF WithdrawalInv, AttemptsSane, OneInFlight
  <1>11. CallsSane'
    BY <1>1, <1>4, CallsStay DEF WithdrawalInv, Fresh
  <1> QED BY <1>4, <1>8, <1>9, <1>10, <1>11, <1>12 DEF AttemptsSane

\* A request that was admitted waits from now on, for another's withdrawal or its own.
LEMMA WaitsKeeps ==
  ASSUME WithdrawalInv, NEW n \in Numbers, attempts[n].stage = "admitted",
         NEW l \in Numbers, NEW o \in {"sent", "none"},
         \/ l # n /\ InFlight(l) /\ SameWithdrawal(n, l) /\ o = "none"
         \/ l = n /\ ~\E m \in Numbers : InFlight(m) /\ SameWithdrawal(n, m),
         call' = call, NEW b, b = [attempts[n] EXCEPT !.stage = "joined", !.leader = l, !.order = o],
         attempts' = [attempts EXCEPT ![n] = b]
  PROVE  RequestsOK' /\ AttemptsSane' /\ CallsSane'
  <1> DEFINE a == attempts[n]
  <1>1. a \in Attempt /\ Fresh(n) /\ l \in 1..MaxAttempts /\ n \in 1..MaxAttempts
    BY RequestFacts DEF WithdrawalInv, AttemptsSane, SaneAttempt
  <1>2. /\ b \in Attempt /\ b.call = a.call /\ b.process = a.process /\ b.leader = l
        /\ b.stage = "joined" /\ b.result = "none" /\ b.order = o
    <2>1. l \in 0..MaxAttempts
      BY <1>1, CountsAssumption
    <2> QED BY <1>1, <2>1 DEF Attempt, Fresh
  <1>3. /\ RequestsOK' /\ SameRequests /\ attempts'[n] = b
        /\ \A m \in Numbers : m # n => attempts'[m] = attempts[m]
    BY <1>1, <1>2, OneChanges DEF WithdrawalInv
  <1>4. \A m, k \in Numbers : KeyOf(m)' = KeyOf(m) /\ (SameWithdrawal(m, k)' <=> SameWithdrawal(m, k))
    BY <1>3, SameKeys
  <1>5. Numbers' = Numbers
    BY <1>3 DEF SameRequests
  <1>6. /\ \A m \in Numbers : m # n => (InFlight(m)' <=> InFlight(m))
        /\ InFlight(n)' <=> l = n
        /\ ~InFlight(n)
    <2>1. n # 0 /\ attempts[n].leader = 0
      BY <1>1, CountsAssumption DEF Fresh
    <2>2. attempts'[n].leader = l /\ attempts'[n].result = "none"
      BY <1>2, <1>3
    <2> QED BY <1>3, <2>1, <2>2 DEF InFlight
  <1>7. \A m \in Numbers : attempts[m].order = "sent" => m # n
    BY <1>1 DEF Fresh
  <1>8. \A m \in Numbers : SaneAttempt(m)'
    <2> SUFFICES ASSUME NEW m \in Numbers PROVE SaneAttempt(m)'
      OBVIOUS
    <2>1. SaneAttempt(m)
      BY DEF WithdrawalInv, AttemptsSane
    <2>2. CASE m = n
      <3>1. InFlight(l)'
        BY <1>6
      <3>2. SameWithdrawal(n, l)'
        BY <1>4 DEF SameWithdrawal
      <3>3. Follows(n, l)'
        BY <1>5, <3>1, <3>2 DEF Follows
      <3>4. attempts'[n].stage = "joined" /\ attempts'[n].result = "none" /\ attempts'[n].leader = l
        BY <1>2, <1>3
      <3> QED BY <2>2, <3>3, <3>4 DEF SaneAttempt, Follows
    <2>3. CASE m # n
      <3>1. attempts'[m] = attempts[m]
        BY <1>3, <2>3
      <3>2. \A k : Follows(m, k) => Follows(m, k)'
        BY <1>4, <1>5, <1>6 DEF Follows
      <3>3. \A k : Ordered(m, k) => Ordered(m, k)'
        BY <1>3, <1>4, <1>5, <1>7 DEF Ordered
      <3> QED BY <2>1, <3>1, <3>2, <3>3 DEF SaneAttempt, Fresh
    <2> QED BY <2>2, <2>3
  <1>12. \A m \in Numbers : LedBy(m)'
    <2> SUFFICES ASSUME NEW m \in Numbers PROVE LedBy(m)'
      OBVIOUS
    <2>1. LedBy(m) /\ n # 0
      BY RequestFacts, CountsAssumption DEF WithdrawalInv, AttemptsSane
    <2>2. CASE m = n
      <3>1. attempts'[n].leader = l /\ attempts'[n].result = "none"
        BY <1>2, <1>3
      <3>2. attempts'[l].leader = l /\ attempts'[l].result = "none"
        <4>1. CASE l = n
          BY <3>1, <4>1
        <4>2. CASE l # n
          BY <1>3, <4>2 DEF InFlight
        <4> QED BY <4>1, <4>2
      <3>3. l \in Numbers' /\ l # 0
        BY <1>5, RequestFacts, CountsAssumption DEF WithdrawalInv, AttemptsSane
      <3> QED BY <2>2, <3>1, <3>2, <3>3, Zenon DEF LedBy
    <2>3. CASE m # n
      <3>1. attempts'[m] = attempts[m]
        BY <1>3, <2>3
      <3> DEFINE w == attempts[m].leader
      <3>2. CASE w # 0
        <4>1. w \in Numbers /\ attempts[w].leader = w /\ w # n
          BY <1>1, <2>1, <3>2 DEF LedBy, Fresh
        <4>2. attempts'[w] = attempts[w]
          BY <1>3, <4>1
        <4>3. attempts'[m].leader = w /\ attempts'[m].result = attempts[m].result
          BY <3>1
        <4>4. attempts[m].result = attempts[w].result
          BY <2>1, <3>2 DEF LedBy
        <4> HIDE DEF w
        <4> QED BY <1>5, <4>1, <4>2, <4>3, <4>4 DEF LedBy
      <3> QED BY <3>1, <3>2 DEF LedBy
    <2> QED BY <2>2, <2>3
  <1>9. OneInFlight'
    <2> SUFFICES ASSUME NEW m \in Numbers, NEW k \in Numbers, InFlight(m)', InFlight(k)', SameWithdrawal(m, k)
                 PROVE  m = k
      BY <1>4, <1>5 DEF OneInFlight
    <2>1. CASE m # n /\ k # n
      BY <1>6, <2>1 DEF WithdrawalInv, AttemptsSane, OneInFlight
    <2>2. CASE m = n /\ k # n
      BY <1>6, <2>2
    <2>3. CASE m # n /\ k = n
      <3>1. SameWithdrawal(n, m)
        BY <2>3 DEF SameWithdrawal
      <3> QED BY <1>6, <2>3, <3>1
    <2> QED BY <2>1, <2>2, <2>3
  <1>10. CallsSane'
    BY <1>1, <1>3, CallsStay DEF WithdrawalInv, Fresh
  <1> QED BY <1>3, <1>5, <1>8, <1>9, <1>10, <1>12 DEF AttemptsSane

LEMMA JoinLeadKeeps ==
  ASSUME WithdrawalInv, NEW n \in Numbers, Join(n) \/ Lead(n)
  PROVE  RequestsOK' /\ AttemptsSane' /\ CallsSane'
  <1>1. Fresh(n) /\ call' = call /\ attempts[n].stage = "admitted" /\ attempts[n] \in Attempt
    BY RequestFacts DEF WithdrawalInv, AttemptsSane, SaneAttempt, Join, Lead
  <1>2. CASE Join(n)
    <2>1. PICK m \in Numbers : /\ InFlight(m) /\ SameWithdrawal(n, m)
                               /\ attempts' = [attempts EXCEPT ![n] = [@ EXCEPT !.stage = "joined", !.leader = m]]
      BY <1>2 DEF Join
    <2>2. m # n
      BY <1>1, <2>1, RequestFacts DEF InFlight, Fresh, WithdrawalInv
    <2> DEFINE b == [attempts[n] EXCEPT !.stage = "joined", !.leader = m]
               c == [attempts[n] EXCEPT !.stage = "joined", !.leader = m, !.order = "none"]
    <2>3. b = c
      BY <1>1 DEF Fresh, Attempt
    <2>4. attempts' = [attempts EXCEPT ![n] = c]
      BY <2>1, <2>3, Zenon
    <2> HIDE DEF b
    <2>5. \E d : d = c
      OBVIOUS
    <2>6. PICK d : d = c
      BY <2>5, Zenon
    <2>7. attempts' = [attempts EXCEPT ![n] = d]
      BY <2>4, <2>6, Zenon
    <2>8. d = [attempts[n] EXCEPT !.stage = "joined", !.leader = m, !.order = "none"]
      BY <2>6, Zenon
    <2> HIDE DEF c
    <2> QED BY <1>1, <2>1, <2>2, <2>7, <2>8, WaitsKeeps, Zenon
  <1>3. CASE Lead(n)
    <2>1. PICK o \in {"sent", "none"} :
             attempts' = [attempts EXCEPT ![n] = [@ EXCEPT !.stage = "joined", !.leader = n, !.order = o]]
      BY <1>3 DEF Lead
    <2>2. ~\E m \in Numbers : InFlight(m) /\ SameWithdrawal(n, m)
      BY <1>3 DEF Lead
    <2>3. \E d : d = [attempts[n] EXCEPT !.stage = "joined", !.leader = n, !.order = o]
      OBVIOUS
    <2>4. PICK d : d = [attempts[n] EXCEPT !.stage = "joined", !.leader = n, !.order = o]
      BY <2>3, Zenon
    <2>5. attempts' = [attempts EXCEPT ![n] = d]
      BY <2>1, <2>4, Zenon
    <2> QED BY <1>1, <2>2, <2>4, <2>5, WaitsKeeps, Zenon
  <1> QED BY <1>2, <1>3

\* What an exchange's answer, or a restart, ends: some requests are over at once.
Ends(S, r) ==
    attempts' = [n \in Numbers |-> IF n \in S
                                   THEN [attempts[n] EXCEPT !.stage = "over", !.result = r]
                                   ELSE attempts[n]]

\* Requests may end together if nobody else waits for one of them, and none was told yet.
LEMMA EndKeeps ==
  ASSUME WithdrawalInv, NEW S \in SUBSET Numbers, NEW r \in {"pending", "failed"}, Ends(S, r),
         call' = call,
         \A n \in S : attempts[n].result = "none" /\ attempts[n].stage # "sent",
         \A n \in S : r = "pending" => attempts[n].stage = "joined"
                                       /\ attempts[attempts[n].leader].order = "sent",
         \A n \in S : attempts[n].stage = "joined" => attempts[n].leader \in S,
         \A n \in Numbers \ S : attempts[n].stage = "joined" => attempts[n].leader \notin S
  PROVE  RequestsOK' /\ AttemptsSane' /\ CallsSane'
  <1> DEFINE N == 1..Len(attempts)
             e(n) == [attempts[n] EXCEPT !.stage = "over", !.result = r]
             new == [n \in N |-> IF n \in S THEN e(n) ELSE attempts[n]]
  <1>1. /\ Len(attempts) \in Nat /\ Numbers = N
        /\ \A n \in Numbers : attempts[n] \in Attempt
    BY RequestFacts DEF WithdrawalInv
  <1>2. \A n \in N : /\ e(n) \in Attempt /\ e(n).call = attempts[n].call
                     /\ e(n).process = attempts[n].process /\ e(n).leader = attempts[n].leader
                     /\ e(n).order = attempts[n].order /\ e(n).stage = "over" /\ e(n).result = r
    <2>1. \A a \in Attempt : LET x == [a EXCEPT !.stage = "over", !.result = r]
                            IN  /\ x \in Attempt /\ x.call = a.call /\ x.process = a.process
                                /\ x.leader = a.leader /\ x.order = a.order
                                /\ x.stage = "over" /\ x.result = r
      BY DEF Attempt
    <2> QED BY <1>1, <2>1, Zenon
  <1>3. attempts' = new
    BY <1>1, Zenon DEF Ends
  <1> HIDE DEF e
  <1>4. new \in Seq(Attempt) /\ Len(new) = Len(attempts) /\ DOMAIN new = N
    <2>1. new \in [N -> Attempt]
      BY <1>1, <1>2
    <2>2. new \in UNION {[1..m -> Attempt] : m \in Nat}
      BY <1>1, <2>1
    <2>3. new \in Seq(Attempt)
      BY <2>2, SeqDef, Zenon
    <2>4. DOMAIN new = N
      BY Zenon
    <2> QED BY <1>1, <2>3, <2>4
  <1>5. \A n \in N : new[n] = IF n \in S THEN e(n) ELSE attempts[n]
    BY Zenon
  <1> HIDE DEF new
  <1>6. RequestsOK'
    BY <1>3, <1>4 DEF WithdrawalInv, RequestsOK
  <1>7. SameRequests
    BY <1>1, <1>2, <1>3, <1>4, <1>5 DEF SameRequests, Numbers
  <1>8. \A n \in Numbers : n \notin S => attempts'[n] = attempts[n]
    BY <1>1, <1>3, <1>5
  <1>9. \A n \in S : /\ attempts'[n].stage = "over" /\ attempts'[n].result = r
                     /\ attempts'[n].leader = attempts[n].leader /\ attempts'[n].order = attempts[n].order
    BY <1>1, <1>2, <1>3, <1>5
  <1>10. /\ Numbers' = Numbers
         /\ \A n \in Numbers : /\ attempts'[n].leader = attempts[n].leader
                               /\ attempts'[n].order = attempts[n].order
                               /\ attempts[n].result # "none" => attempts'[n].result = attempts[n].result
    BY <1>7, <1>8, <1>9 DEF SameRequests
  <1>11. \A m, k \in Numbers : KeyOf(m)' = KeyOf(m) /\ (SameWithdrawal(m, k)' <=> SameWithdrawal(m, k))
    BY <1>7, SameKeys
  <1>12. \A n \in Numbers : InFlight(n)' <=> InFlight(n) /\ n \notin S
    BY <1>8, <1>9, <1>10 DEF InFlight
  <1>13. \A n, l : Ordered(n, l) /\ n \in Numbers => Ordered(n, l)'
    BY <1>10, <1>11 DEF Ordered
  <1>14. \A n \in Numbers : SaneAttempt(n)'
    <2> SUFFICES ASSUME NEW n \in Numbers PROVE SaneAttempt(n)'
      OBVIOUS
    <2>1. SaneAttempt(n)
      BY DEF WithdrawalInv, AttemptsSane
    <2>2. CASE n \in S
      <3>1. r = "pending" => Ordered(n, attempts[n].leader)
        BY <2>1, <2>2 DEF SaneAttempt, Follows, Ordered, SameWithdrawal
      <3> QED BY <1>9, <1>13, <2>2, <3>1 DEF SaneAttempt
    <2>3. CASE n \notin S
      <3>1. attempts[n].stage = "joined" => Follows(n, attempts[n].leader)'
        BY <1>10, <1>11, <1>12, <2>1, <2>3 DEF SaneAttempt, Follows
      <3>2. attempts'[n] = attempts[n]
        BY <1>8, <2>3
      <3> QED BY <1>13, <2>1, <3>1, <3>2 DEF SaneAttempt, Fresh
    <2> QED BY <2>2, <2>3
  <1>15. \A n \in Numbers : LedBy(n)'
    <2> SUFFICES ASSUME NEW n \in Numbers, attempts[n].leader # 0 PROVE LedBy(n)'
      BY <1>10 DEF LedBy
    <2> DEFINE l == attempts[n].leader
    <2>1. /\ l \in Numbers /\ attempts[l].leader = l
          /\ attempts[n].result = attempts[l].result
      BY DEF WithdrawalInv, AttemptsSane, LedBy
    <2>2. n \in S => l \in S
      <3>1. attempts[n].stage \in {"sent", "admitted"} => l = 0
        BY DEF WithdrawalInv, AttemptsSane, SaneAttempt, Fresh
      <3>2. attempts[n].stage = "over" => attempts[n].result # "none"
        BY DEF WithdrawalInv, AttemptsSane, SaneAttempt
      <3> QED BY <1>1, <3>1, <3>2 DEF Attempt
    <2>3. n \notin S => l \notin S
      <3>1. CASE attempts[n].stage = "over"
        <4>1. attempts[l].result # "none"
          BY <2>1, <3>1 DEF WithdrawalInv, AttemptsSane, SaneAttempt
        <4> QED BY <4>1
      <3>2. attempts[n].stage \in {"joined", "over"}
        <4>1. attempts[n].stage \notin {"sent", "admitted"}
          BY DEF WithdrawalInv, AttemptsSane, SaneAttempt, Fresh
        <4> QED BY <1>1, <4>1 DEF Attempt
      <3> QED BY <3>1, <3>2
    <2>4. attempts'[n].result = attempts'[l].result
      BY <1>8, <1>9, <1>10, <2>1, <2>2, <2>3
    <2> QED BY <1>10, <2>1, <2>4 DEF LedBy
  <1>16. OneInFlight'
    BY <1>10, <1>11, <1>12 DEF WithdrawalInv, AttemptsSane, OneInFlight
  <1>17. CallsSane'
    BY <1>7, <1>10, CallsStay DEF WithdrawalInv
  <1> QED BY <1>6, <1>10, <1>14, <1>15, <1>16, <1>17 DEF AttemptsSane

LEMMA SettleKeeps ==
  ASSUME WithdrawalInv, NEW n \in Numbers, Settle(n)
  PROVE  RequestsOK' /\ AttemptsSane' /\ CallsSane'
  <1> DEFINE S == {m \in Numbers : attempts[m].leader = n}
  <1>1. PICK r \in {"pending", "failed"} :
           /\ r = "pending" => attempts[n].order = "sent"
           /\ attempts' = [m \in Numbers |->
                 IF attempts[m].leader = n
                 THEN [attempts[m] EXCEPT !.stage = "over", !.result = r]
                 ELSE attempts[m]]
    BY DEF Settle
  <1>2. InFlight(n) /\ call' = call
    BY DEF Settle
  <1>3. Ends(S, r)
    BY <1>1 DEF Ends
  <1>4. n # 0 /\ 0 \notin Numbers /\ \A m \in Numbers : attempts[m] \in Attempt /\ SaneAttempt(m) /\ LedBy(m)
    BY RequestFacts, CountsAssumption DEF WithdrawalInv, AttemptsSane
  <1>5. \A m \in S : attempts[m].result = "none" /\ attempts[m].stage = "joined"
    <2> SUFFICES ASSUME NEW m \in S PROVE attempts[m].result = "none" /\ attempts[m].stage = "joined"
      OBVIOUS
    <2>1. attempts[m].result = "none"
      BY <1>2, <1>4 DEF LedBy, InFlight
    <2>2. attempts[m].stage \notin {"sent", "admitted", "over"}
      BY <1>4, <2>1 DEF SaneAttempt, Fresh
    <2> QED BY <1>4, <2>1, <2>2 DEF Attempt
  <1>6. \A m \in Numbers : attempts[m].leader \in S => attempts[m].leader = n
    BY <1>4 DEF LedBy
  <1>7. n \in S
    BY <1>2 DEF InFlight
  <1>8. \A m \in S : r = "pending" => attempts[attempts[m].leader].order = "sent"
    BY <1>1
  <1>9. S \in SUBSET Numbers /\ \A m \in S : attempts[m].leader \in S
    BY <1>7
  <1>10. \A m \in Numbers \ S : attempts[m].leader \notin S
    BY <1>6
  <1> HIDE DEF S
  <1> QED BY <1>2, <1>3, <1>5, <1>8, <1>9, <1>10, EndKeeps

LEMMA RestartKeeps ==
  ASSUME WithdrawalInv, NEW p \in Processes, Restart(p)
  PROVE  RequestsOK' /\ AttemptsSane' /\ CallsSane'
  <1> DEFINE S == {n \in Numbers : attempts[n].process = p
                                   /\ attempts[n].stage \in {"admitted", "joined"}}
  <1>1. Ends(S, "failed") /\ call' = call
    BY DEF Ends, Restart
  <1>2. \A m \in Numbers : attempts[m] \in Attempt /\ SaneAttempt(m)
    BY RequestFacts, CountsAssumption DEF WithdrawalInv, AttemptsSane
  <1>3. \A m \in S : attempts[m].result = "none" /\ attempts[m].stage # "sent"
    BY <1>2 DEF SaneAttempt, Fresh
  <1>4. \A m \in Numbers : attempts[m].stage = "joined" =>
           LET l == attempts[m].leader
           IN  l \in Numbers /\ attempts[l].process = attempts[m].process /\ attempts[l].stage = "joined"
    <2> SUFFICES ASSUME NEW m \in Numbers, attempts[m].stage = "joined"
                 PROVE  LET l == attempts[m].leader
                        IN  l \in Numbers /\ attempts[l].process = attempts[m].process
                            /\ attempts[l].stage = "joined"
      OBVIOUS
    <2> DEFINE l == attempts[m].leader
    <2>1. l \in Numbers /\ InFlight(l) /\ attempts[l].process = attempts[m].process /\ l # 0
      BY <1>2, RequestFacts, CountsAssumption DEF SaneAttempt, Follows, SameWithdrawal, WithdrawalInv
    <2>2. attempts[l].stage \notin {"sent", "admitted", "over"}
      BY <1>2, <2>1 DEF SaneAttempt, Fresh, InFlight
    <2>3. attempts[l].stage = "joined"
      BY <1>2, <2>1, <2>2 DEF Attempt
    <2> QED BY <2>1, <2>3
  <1>5. S \in SUBSET Numbers /\ \A m \in S : attempts[m].stage = "joined" => attempts[m].leader \in S
    BY <1>4
  <1>6. \A m \in Numbers \ S : attempts[m].stage = "joined" => attempts[m].leader \notin S
    BY <1>4
  <1>7. "failed" # "pending"
    OBVIOUS
  <1> HIDE DEF S
  <1> QED BY <1>1, <1>3, <1>5, <1>6, <1>7, EndKeeps

\* What happens to a call does not touch what its requests say: its key stays.
LEMMA CallChanges ==
  ASSUME WithdrawalInv, NEW c \in Calls, NEW b \in ClientCall, b.key = call[c].key,
         call' = [call EXCEPT ![c] = b], attempts' = attempts,
         b.state = "waiting" => call[c].state = "waiting" /\ b.attempt = call[c].attempt,
         b.state = "created" => /\ call[c].state = "waiting" /\ b.attempt = call[c].attempt
                                /\ attempts[b.attempt].result = "pending"
  PROVE  RequestsOK' /\ AttemptsSane' /\ CallsSane'
  <1>1. call \in [Calls -> ClientCall]
    BY DEF WithdrawalInv, RequestsOK
  <1>2. /\ call' \in [Calls -> ClientCall] /\ call'[c] = b
        /\ \A d \in Calls : d # c => call'[d] = call[d]
    BY <1>1
  <1>3. Numbers' = Numbers /\ \A n \in Numbers : KeyOf(n)' = KeyOf(n)
    <2>1. \A n \in Numbers : attempts[n].call \in Calls
      BY RequestFacts DEF WithdrawalInv
    <2> QED BY <1>2, <2>1 DEF Numbers, KeyOf
  <1>4. RequestsOK'
    BY <1>2 DEF WithdrawalInv, RequestsOK
  <1>5. \A m, k \in Numbers : SameWithdrawal(m, k)' <=> SameWithdrawal(m, k)
    BY <1>3 DEF SameWithdrawal
  <1>6. \A n : InFlight(n)' <=> InFlight(n)
    BY DEF InFlight
  <1>7. \A n \in Numbers : SaneAttempt(n)' /\ LedBy(n)'
    <2> SUFFICES ASSUME NEW n \in Numbers PROVE SaneAttempt(n)' /\ LedBy(n)'
      OBVIOUS
    <2>1. SaneAttempt(n) /\ LedBy(n)
      BY DEF WithdrawalInv, AttemptsSane
    <2>2. \A k : Follows(n, k) => Follows(n, k)'
      BY <1>3, <1>5, <1>6 DEF Follows
    <2>3. \A k : Ordered(n, k) => Ordered(n, k)'
      BY <1>3 DEF Ordered
    <2>4. LedBy(n)'
      BY <1>3, <2>1 DEF LedBy
    <2>5. SaneAttempt(n)'
      BY <2>1, <2>2, <2>3 DEF SaneAttempt, Fresh
    <2> QED BY <2>4, <2>5
  <1>8. OneInFlight'
    BY <1>3, <1>5, <1>6 DEF WithdrawalInv, AttemptsSane, OneInFlight
  <1>9. CallsSane'
    BY <1>2, <1>3 DEF WithdrawalInv, CallsSane, SaneCall
  <1> QED BY <1>3, <1>4, <1>7, <1>8, <1>9 DEF AttemptsSane

LEMMA RetryKeeps ==
  ASSUME WithdrawalInv, NEW c \in Calls, RetryOrReject(c), attempts' = attempts
  PROVE  RequestsOK' /\ AttemptsSane' /\ CallsSane'
  <1>1. call[c] \in ClientCall
    BY DEF WithdrawalInv, RequestsOK
  <1> DEFINE a == call[c]
             more == [a EXCEPT !.state = "backoff", !.retries = a.retries + 1]
             none == [a EXCEPT !.state = "rejected"]
  <1>2. /\ none \in ClientCall /\ none.key = a.key /\ none.state = "rejected"
    BY <1>1 DEF ClientCall, Ended
  <1>3. ASSUME a.retries < MaxRetries
        PROVE  more \in ClientCall /\ more.key = a.key /\ more.state = "backoff"
    <2>1. a.retries + 1 \in 0..MaxRetries
      BY <1>1, <1>3, CountsAssumption DEF ClientCall
    <2> DEFINE r == a.retries + 1
    <2> HIDE DEF r
    <2>2. [a EXCEPT !.state = "backoff", !.retries = r] \in ClientCall
      BY <1>1, <2>1 DEF ClientCall, Active, r
    <2>3. more.key = a.key /\ more.state = "backoff"
      BY <1>1 DEF ClientCall
    <2> QED BY <2>2, <2>3 DEF r
  <1>4. PICK b \in ClientCall : /\ call' = [call EXCEPT ![c] = b] /\ b.key = a.key
                                /\ b.state \in {"rejected", "backoff"}
    <2>1. CASE Rejects(c)
      <3>1. call' = [call EXCEPT ![c] = none]
        BY <2>1, Zenon DEF Rejects
      <3> HIDE DEF none
      <3> QED BY <1>2, <3>1
    <2>2. CASE /\ a.retries < MaxRetries
               /\ call' = [call EXCEPT ![c] = [@ EXCEPT !.state = "backoff", !.retries = call[c].retries + 1]]
      <3>1. call' = [call EXCEPT ![c] = more]
        BY <2>2
      <3>2. more \in ClientCall /\ more.key = a.key /\ more.state = "backoff"
        BY <1>3, <2>2
      <3> HIDE DEF more
      <3> QED BY <3>1, <3>2
    <2> QED BY <2>1, <2>2 DEF RetryOrReject
  <1> QED BY <1>4, CallChanges

LEMMA AnswerKeeps ==
  ASSUME WithdrawalInv, NEW c \in Calls, NetworkError(c) \/ Timeout(c) \/ Answered(c)
  PROVE  RequestsOK' /\ AttemptsSane' /\ CallsSane'
  <1>1. attempts' = attempts /\ call[c].state = "waiting" /\ call[c] \in ClientCall
    BY DEF NetworkError, Timeout, Answered, WithdrawalInv, RequestsOK
  <1>2. CASE RetryOrReject(c) \/ Rejects(c)
    BY <1>1, <1>2, RetryKeeps DEF RetryOrReject
  <1>3. CASE /\ attempts[call[c].attempt].result = "pending"
             /\ call' = [call EXCEPT ![c].state = "created"]
    <2> DEFINE b == [call[c] EXCEPT !.state = "created"]
    <2>1. /\ b \in ClientCall /\ b.key = call[c].key /\ b.state = "created"
          /\ b.attempt = call[c].attempt
      BY <1>1 DEF ClientCall, Ended
    <2>2. call' = [call EXCEPT ![c] = b]
      BY <1>3, Zenon
    <2> HIDE DEF b
    <2> QED BY <1>1, <1>3, <2>1, <2>2, CallChanges
  <1> QED BY <1>2, <1>3 DEF NetworkError, Timeout, Answered

LEMMA SendKeeps ==
  ASSUME WithdrawalInv, NEW c \in Calls, NEW p \in Processes, Submit(c, p) \/ Retry(c, p)
  PROVE  RequestsOK' /\ AttemptsSane' /\ CallsSane'
  <1> DEFINE s == [call |-> c, process |-> p, stage |-> "sent", leader |-> 0,
                   order |-> "none", result |-> "none"]
             L == Len(attempts)
             b == [call[c] EXCEPT !.state = "waiting", !.attempt = L + 1]
  <1>1. /\ attempts \in Seq(Attempt) /\ L \in Nat /\ Numbers = 1..L /\ L < MaxAttempts
        /\ L + 1 \in 0..MaxAttempts /\ call[c] \in ClientCall
        /\ call[c].state \in {"idle", "backoff"} /\ call \in [Calls -> ClientCall]
    BY RequestFacts, CountsAssumption DEF WithdrawalInv, RequestsOK, Submit, Retry, SendAttempt
  <1>2. attempts' = Append(attempts, s)
    BY DEF Submit, Retry, SendAttempt
  <1>3. call' = [call EXCEPT ![c] = b]
    BY Zenon DEF Submit, Retry, SendAttempt
  <1>4. b \in ClientCall /\ b.key = call[c].key /\ b.state = "waiting" /\ b.attempt = L + 1
    <2> DEFINE n == L + 1
    <2> HIDE DEF n
    <2> SUFFICES LET x == [call[c] EXCEPT !.state = "waiting", !.attempt = n]
                 IN  x \in ClientCall /\ x.key = call[c].key /\ x.state = "waiting" /\ x.attempt = n
      BY DEF n
    <2>1. n \in 0..MaxAttempts
      BY <1>1 DEF n
    <2> QED BY <1>1, <2>1 DEF ClientCall, Active
  <1>5. s \in Attempt
    BY CountsAssumption DEF Attempt
  <1>6. /\ attempts' \in Seq(Attempt) /\ Len(attempts') = L + 1 /\ Numbers' = 1..(L + 1)
        /\ attempts'[L + 1] = s /\ \A n \in Numbers : attempts'[n] = attempts[n]
    BY <1>1, <1>2, <1>5 DEF Numbers
  <1>0. PICK k : k = L + 1
    OBVIOUS
  <1>7. /\ s.call = c /\ s.stage = "sent" /\ s.leader = 0 /\ s.order = "none" /\ s.result = "none"
    OBVIOUS
  <1> HIDE DEF s, b
  <1>8. Numbers' = Numbers \cup {k} /\ k \notin Numbers /\ k # 0
    BY <1>0, <1>1, <1>6
  <1>9. /\ call' \in [Calls -> ClientCall] /\ call'[c] = b
        /\ \A d \in Calls : d # c => call'[d] = call[d]
    BY <1>1, <1>3, <1>4
  <1>10. RequestsOK'
    BY <1>1, <1>6, <1>9 DEF RequestsOK
    <1>11. attempts'[k] = s /\ \A n \in Numbers : attempts'[n] = attempts[n]
    BY <1>0, <1>6
  <1>12. \A n \in Numbers : KeyOf(n)' = KeyOf(n)
    <2>1. \A n \in Numbers : attempts[n].call \in Calls
      BY RequestFacts DEF WithdrawalInv
    <2> QED BY <1>4, <1>9, <1>11, <2>1 DEF KeyOf
  <1>13. \A m, n \in Numbers : SameWithdrawal(m, n)' <=> SameWithdrawal(m, n)
    BY <1>11, <1>12 DEF SameWithdrawal
  <1>14. ~InFlight(k)' /\ \A n \in Numbers : InFlight(n)' <=> InFlight(n)
    <2>1. ~InFlight(k)'
      BY <1>7, <1>8, <1>11 DEF InFlight
    <2>2. ASSUME NEW n \in Numbers PROVE InFlight(n)' <=> InFlight(n)
      <3>1. attempts'[n] = attempts[n]
        BY <1>11
      <3> QED BY <3>1 DEF InFlight
    <2> QED BY <2>1, <2>2
  <1>15. \A n \in Numbers' : SaneAttempt(n)' /\ LedBy(n)'
    <2> SUFFICES ASSUME NEW n \in Numbers' PROVE SaneAttempt(n)' /\ LedBy(n)'
      OBVIOUS
    <2>1. CASE n = k
      BY <1>7, <1>11, <2>1 DEF SaneAttempt, LedBy, Fresh
    <2>2. CASE n \in Numbers
      <3>1. SaneAttempt(n) /\ LedBy(n) /\ attempts'[n] = attempts[n]
        BY <1>11, <2>2 DEF WithdrawalInv, AttemptsSane
      <3>2. \A l : Follows(n, l) => Follows(n, l)'
        BY <1>8, <1>13, <1>14, <2>2 DEF Follows
      <3>3. \A l : Ordered(n, l) => Ordered(n, l)'
        BY <1>8, <1>11, <1>12, <2>2 DEF Ordered
      <3>4. LedBy(n)'
        BY <1>8, <1>11, <3>1 DEF LedBy
      <3>5. SaneAttempt(n)'
        BY <3>1, <3>2, <3>3 DEF SaneAttempt, Fresh
      <3> QED BY <3>4, <3>5
    <2> QED BY <1>8, <2>1, <2>2
  <1>16. OneInFlight'
    <2> SUFFICES ASSUME NEW m \in Numbers', NEW n \in Numbers', InFlight(m)', InFlight(n)',
                        SameWithdrawal(m, n)'
                 PROVE  m = n
      BY DEF OneInFlight
    <2>1. m \in Numbers /\ n \in Numbers
      BY <1>8, <1>14
    <2>2. InFlight(m) /\ InFlight(n) /\ SameWithdrawal(m, n)
      BY <1>13, <1>14, <2>1
    <2> QED BY <2>1, <2>2 DEF WithdrawalInv, AttemptsSane, OneInFlight
  <1>17. CallsSane'
    <2> SUFFICES ASSUME NEW d \in Calls PROVE SaneCall(d)'
      BY DEF CallsSane
    <2>1. CASE d = c
      BY <1>0, <1>4, <1>7, <1>8, <1>9, <1>11, <2>1 DEF SaneCall
    <2>2. CASE d # c
      BY <1>8, <1>9, <1>11, <2>2 DEF WithdrawalInv, CallsSane, SaneCall
    <2> QED BY <2>1, <2>2
  <1> QED BY <1>10, <1>15, <1>16, <1>17 DEF AttemptsSane

KeyRecords == [Keys -> Valid \cup {"unknown", "revoked"}]

LEMMA SeededFacts ==
  /\ Seeded \in KeyRecords
  /\ \A k \in Keys : Seeded[k] # "withdraws" /\ (k \notin Legacy => Seeded[k] = "unknown")
  BY DEF Seeded, KeyRecords, Valid

\* The store of one process is written: the record of one key, or all of them.
LEMMA StoreChanges ==
  ASSUME WithdrawalInv, NEW p \in Processes, NEW r \in KeyRecords,
         keyStore' = [keyStore EXCEPT ![p] = r],
         issued \subseteq issued', issued' \subseteq Created, barred' \subseteq Processes \X Keys,
         \A q \in Processes, k \in Keys : q # p => (<<q, k>> \in barred' => <<q, k>> \in barred),
         \A k \in Keys : <<p, k>> \in barred' => r[k] # "withdraws" /\ k \in Legacy \cup issued',
         \A k \in Created : r[k] # "unknown" => k \in issued'
  PROVE  KeysOK' /\ BarredAreOut'
  <1>1. keyStore \in [Processes -> KeyRecords]
    BY DEF WithdrawalInv, KeysOK, KeyRecords
  <1>2. /\ keyStore' \in [Processes -> KeyRecords] /\ keyStore'[p] = r
        /\ \A q \in Processes : q # p => keyStore'[q] = keyStore[q]
    BY <1>1
  <1>3. KeysOK'
    BY <1>2 DEF KeysOK, KeyRecords
  <1>4. ASSUME NEW q \in Processes, NEW k \in Keys, <<q, k>> \in barred'
        PROVE  keyStore'[q][k] # "withdraws" /\ k \in Legacy \cup issued'
    <2>1. CASE q = p
      BY <1>2, <1>4, <2>1
    <2>2. CASE q # p
      BY <1>2, <1>4, <2>2 DEF WithdrawalInv, BarredAreOut
    <2> QED BY <2>1, <2>2
  <1>5. ASSUME NEW q \in Processes, NEW k \in Created, keyStore'[q][k] # "unknown"
        PROVE  k \in issued'
    BY <1>2, <1>5 DEF WithdrawalInv, BarredAreOut
  <1> QED BY <1>3, <1>4, <1>5 DEF BarredAreOut

LEMMA KeysKeep ==
  ASSUME WithdrawalInv, NEW p \in Processes, NEW k \in Keys,
         \/ Revoke(p, k)
         \/ \E scopes \in Valid : Create(p, k, scopes) \/ Update(p, k, scopes)
  PROVE  KeysOK' /\ BarredAreOut'
  <1>1. /\ keyStore \in [Processes -> KeyRecords] /\ issued \subseteq Created
        /\ barred \subseteq Processes \X Keys
    BY DEF WithdrawalInv, KeysOK, KeyRecords
  <1>2. \A v \in Valid \cup {"revoked"} :
           /\ [keyStore[p] EXCEPT ![k] = v] \in KeyRecords
           /\ [keyStore EXCEPT ![p][k] = v] = [keyStore EXCEPT ![p] = [keyStore[p] EXCEPT ![k] = v]]
    BY <1>1 DEF KeyRecords
  <1>3. /\ \A j \in Keys : <<p, j>> \in barred => keyStore[p][j] # "withdraws" /\ j \in Legacy \cup issued
        /\ \A j \in Created : keyStore[p][j] # "unknown" => j \in issued
    BY DEF WithdrawalInv, BarredAreOut
  <1>4. Created \subseteq Keys
    BY DEF Keys
  <1>5. \A v : \A j \in Keys : [keyStore[p] EXCEPT ![k] = v][j] = IF j = k THEN v ELSE keyStore[p][j]
    BY <1>1 DEF KeyRecords
  <1>6. CASE Revoke(p, k)
    <2>1. \E r : r = [keyStore[p] EXCEPT ![k] = "revoked"]
      OBVIOUS
    <2>2. PICK r : r = [keyStore[p] EXCEPT ![k] = "revoked"]
      BY <2>1, Zenon
    <2>3. keyStore' = [keyStore EXCEPT ![p] = r] /\ r \in KeyRecords
      BY <1>2, <1>6, <2>2, Zenon DEF Revoke
    <2>4. \A j \in Keys : r[j] = IF j = k THEN "revoked" ELSE keyStore[p][j]
      BY <1>5, <2>2, Zenon
    <2>5. k \in Legacy \cup issued
      BY <1>3, <1>6 DEF Revoke, Keys
    <2>6. barred' = barred \cup {<<p, k>>} /\ issued' = issued
      BY <1>6 DEF Revoke
    <2>7. \A j \in Keys : <<p, j>> \in barred' => r[j] # "withdraws" /\ j \in Legacy \cup issued'
      BY <1>3, <2>4, <2>5, <2>6
    <2>8. \A j \in Created : r[j] # "unknown" => j \in issued'
      BY <1>3, <1>4, <2>4, <2>5, <2>6, KeysAssumption
    <2>9. \A q \in Processes, j \in Keys : q # p => (<<q, j>> \in barred' => <<q, j>> \in barred)
      BY <2>6
    <2>10. barred' \subseteq Processes \X Keys
      BY <1>1, <2>6
    <2> QED BY <1>1, <2>3, <2>6, <2>7, <2>8, <2>9, <2>10, StoreChanges
  <1>7. ASSUME NEW v \in Valid, Create(p, k, v) \/ Update(p, k, v)
        PROVE  KeysOK' /\ BarredAreOut'
    <2>1. \E r : r = [keyStore[p] EXCEPT ![k] = v]
      OBVIOUS
    <2>2. PICK r : r = [keyStore[p] EXCEPT ![k] = v]
      BY <2>1, Zenon
    <2>3. keyStore' = [keyStore EXCEPT ![p] = r] /\ r \in KeyRecords
      BY <1>2, <1>7, <2>2, Zenon DEF Create, Update
    <2>4. \A j \in Keys : r[j] = IF j = k THEN v ELSE keyStore[p][j]
      BY <1>5, <2>2, Zenon
    <2>5. CASE Create(p, k, v)
      <3>1. issued' = issued \cup {k} /\ barred' = barred /\ k \in Created /\ k \notin issued
        BY <2>5 DEF Create
      <3>2. <<p, k>> \notin barred
        BY <1>3, <3>1, KeysAssumption
      <3>3. \A j \in Keys : <<p, j>> \in barred' => r[j] # "withdraws" /\ j \in Legacy \cup issued'
        BY <1>3, <2>4, <3>1, <3>2
      <3>4. \A j \in Created : r[j] # "unknown" => j \in issued'
        BY <1>3, <1>4, <2>4, <3>1
      <3> QED BY <1>1, <2>3, <3>1, <3>3, <3>4, StoreChanges
    <2>6. CASE Update(p, k, v)
      <3>1. /\ issued' = issued /\ keyStore[p][k] # "unknown"
            /\ barred' = IF v = "withdraws" THEN barred \ {<<p, k>>} ELSE barred
        BY <2>6 DEF Update, Valid
      <3>2. barred' \subseteq barred /\ (v = "withdraws" => <<p, k>> \notin barred')
        BY <3>1
      <3>3. \A j \in Keys : <<p, j>> \in barred' => r[j] # "withdraws" /\ j \in Legacy \cup issued'
        BY <1>3, <2>4, <3>1, <3>2
      <3>4. \A j \in Created : r[j] # "unknown" => j \in issued'
        BY <1>3, <1>4, <2>4, <3>1
      <3> QED BY <1>1, <2>3, <3>1, <3>2, <3>3, <3>4, StoreChanges
    <2> QED BY <1>7, <2>5, <2>6
  <1> QED BY <1>6, <1>7

LEMMA WithdrawalInit == Init => WithdrawalInv
  <1> SUFFICES ASSUME Init PROVE WithdrawalInv
    OBVIOUS
  <1>1. attempts = <<>> /\ Numbers = {} /\ Len(attempts) = 0 /\ attempts \in Seq(Attempt)
    BY DEF Init, Numbers
  <1>2. call \in [Calls -> ClientCall] /\ \A c \in Calls : call[c].state = "idle"
    BY CountsAssumption DEF Init, ClientCall
  <1>3. RequestsOK /\ AttemptsSane /\ CallsSane
    BY <1>1, <1>2, CountsAssumption DEF RequestsOK, AttemptsSane, CallsSane, SaneCall, OneInFlight
  <1>4. KeysOK
    BY SeededFacts DEF Init, KeysOK, KeyRecords
  <1>5. BarredAreOut
    BY SeededFacts, KeysAssumption DEF Init, BarredAreOut, Keys
  <1> QED BY <1>3, <1>4, <1>5 DEF WithdrawalInv

LEMMA WithdrawalNext == WithdrawalInv /\ [Next]_vars => WithdrawalInv'
  <1> SUFFICES ASSUME WithdrawalInv, [Next]_vars PROVE WithdrawalInv'
    OBVIOUS
  <1> USE DEF WithdrawalInv
  <1>1. ASSUME UNCHANGED <<call, attempts>>
        PROVE  RequestsOK' /\ AttemptsSane' /\ CallsSane'
    <2>1. Numbers' = Numbers /\ \A n : KeyOf(n)' = KeyOf(n) /\ (InFlight(n)' <=> InFlight(n))
      BY <1>1 DEF Numbers, KeyOf, InFlight
    <2>2. RequestsOK' /\ CallsSane'
      BY <1>1, <2>1 DEF RequestsOK, CallsSane, SaneCall
    <2>3. \A m, n : SameWithdrawal(m, n)' <=> SameWithdrawal(m, n)
      BY <1>1, <2>1 DEF SameWithdrawal
    <2>4. OneInFlight'
      BY <2>1, <2>3 DEF AttemptsSane, OneInFlight
    <2>5. \A n \in Numbers : SaneAttempt(n)' /\ LedBy(n)'
      BY <1>1, <2>1, <2>3
         DEF AttemptsSane, SaneAttempt, LedBy, Fresh, Follows, Ordered
    <2> QED BY <2>1, <2>2, <2>4, <2>5 DEF AttemptsSane
  <1>2. ASSUME UNCHANGED keyVars PROVE KeysOK' /\ BarredAreOut'
    BY <1>2 DEF keyVars, KeysOK, BarredAreOut
  <1>3. CASE UNCHANGED vars
    BY <1>1, <1>2, <1>3 DEF vars, keyVars
  <1>4. CASE KeyStep
    <2>1. UNCHANGED <<call, attempts>>
      BY <1>4 DEF KeyStep, Revoke, Create, Update
    <2>2. PICK p \in Processes, k \in Keys :
             \/ Revoke(p, k)
             \/ \E scopes \in Valid : Create(p, k, scopes) \/ Update(p, k, scopes)
      BY <1>4 DEF KeyStep
    <2> QED BY <1>1, <2>1, <2>2, KeysKeep
  <1>5. CASE ClientStep
    <2>1. UNCHANGED keyVars
      BY <1>5 DEF ClientStep, Submit, Retry, SendAttempt, NetworkError, Timeout, Answered
    <2>2. PICK c \in Calls : \/ \E p \in Processes : Submit(c, p) \/ Retry(c, p)
                             \/ NetworkError(c) \/ Timeout(c) \/ Answered(c)
      BY <1>5 DEF ClientStep
    <2>3. RequestsOK' /\ AttemptsSane' /\ CallsSane'
      BY <2>2, SendKeeps, AnswerKeeps
    <2> QED BY <1>2, <2>1, <2>3
  <1>6. ASSUME NEW n \in Numbers, Admit(n) \/ Join(n) \/ Lead(n) \/ Settle(n)
        PROVE  WithdrawalInv'
    <2>1. UNCHANGED keyVars
      BY <1>6 DEF Admit, Join, Lead, Settle
    <2>2. RequestsOK' /\ AttemptsSane' /\ CallsSane'
      BY <1>6, AdmitKeeps, JoinLeadKeeps, SettleKeeps
    <2> QED BY <1>2, <2>1, <2>2
  <1>7. ASSUME NEW p \in Processes, Restart(p)
        PROVE  WithdrawalInv'
    <2>1. RequestsOK' /\ AttemptsSane' /\ CallsSane'
      BY <1>7, RestartKeeps
    <2>2. keyStore' = [keyStore EXCEPT ![p] = Seeded] /\ issued' = issued /\ barred' = barred
      BY <1>7 DEF Restart
    <2>3. issued \subseteq Created /\ barred \subseteq Processes \X Keys
      BY DEF KeysOK
    <2>4. \A k \in Keys : <<p, k>> \in barred => Seeded[k] # "withdraws" /\ k \in Legacy \cup issued
      BY SeededFacts DEF BarredAreOut
    <2>5. \A k \in Created : Seeded[k] = "unknown"
      BY SeededFacts, KeysAssumption DEF Keys
    <2>6. KeysOK' /\ BarredAreOut'
      BY <2>2, <2>3, <2>4, <2>5, SeededFacts, StoreChanges
    <2> QED BY <2>1, <2>6
  <1> QED BY <1>3, <1>4, <1>5, <1>6, <1>7 DEF Next, ServerStep

LEMMA WithdrawalOwn == WithdrawalInv => WithdrawalsAreOwn
  <1> SUFFICES ASSUME WithdrawalInv PROVE WithdrawalsAreOwn
    OBVIOUS
  <1>1. TypeOK
    BY DEF WithdrawalInv, KeysOK, RequestsOK, TypeOK, Attempt, ClientCall
  <1>2. CreatedIsOrdered
    <2> SUFFICES ASSUME NEW c \in Calls, call[c].state = "created"
                 PROVE  LET leader == attempts[call[c].attempt].leader
                        IN  attempts[leader].order = "sent" /\ KeyOf(leader) = call[c].key
      BY DEF CreatedIsOrdered
    <2> DEFINE n == call[c].attempt
    <2>1. n \in Numbers /\ attempts[n].call = c /\ attempts[n].result = "pending"
      BY DEF WithdrawalInv, CallsSane, SaneCall
    <2>2. Ordered(n, attempts[n].leader) /\ KeyOf(n) = call[c].key
      BY <2>1 DEF WithdrawalInv, AttemptsSane, SaneAttempt, KeyOf
    <2> QED BY <2>2 DEF Ordered
  <1>3. SharedIsTheSame
    BY DEF WithdrawalInv, AttemptsSane, LedBy, SharedIsTheSame
  <1> QED BY <1>1, <1>2, <1>3 DEF WithdrawalsAreOwn, WithdrawalInv, AttemptsSane

\* A request passes only while the key's record there has the scope.
LEMMA AdmittedHasScope ==
  ASSUME WithdrawalInv, [Next]_vars, NEW n \in Numbers, attempts[n].stage = "sent",
         attempts'[n].stage = "admitted"
  PROVE  <<attempts[n].process, KeyOf(n)>> \notin barred
  <1>1. /\ attempts[n] \in Attempt /\ attempts[n].process \in Processes
        /\ attempts[n].call \in Calls /\ \A m \in Numbers : attempts[m] \in Attempt
    BY RequestFacts DEF WithdrawalInv, Attempt
  <1>2. KeyOf(n) \in Keys
    BY <1>1 DEF WithdrawalInv, RequestsOK, ClientCall, KeyOf
  <1>3. Admit(n)
    <2>1. ~UNCHANGED attempts
      OBVIOUS
    <2>2. ~KeyStep
      BY <2>1 DEF KeyStep, Revoke, Create, Update
    <2>3. ~ClientStep
      <3>1. ASSUME NEW c \in Calls, NEW p \in Processes, SendAttempt(c, p) PROVE FALSE
        <4> DEFINE s == [call |-> c, process |-> p, stage |-> "sent", leader |-> 0,
                         order |-> "none", result |-> "none"]
        <4>1. attempts' = Append(attempts, s) /\ attempts \in Seq(Attempt) /\ n \in 1..Len(attempts)
          BY <3>1, RequestFacts DEF SendAttempt, WithdrawalInv, RequestsOK
        <4> HIDE DEF s
        <4>2. attempts'[n] = attempts[n]
          BY <4>1
        <4> QED BY <4>2
      <3> QED BY <2>1, <3>1
              DEF ClientStep, Submit, Retry, NetworkError, Timeout, Answered
    <2>4. PICK m \in Numbers : Admit(m) \/ Join(m) \/ Lead(m) \/ Settle(m) \/ \E p \in Processes : Restart(p)
      BY <2>1, <2>2, <2>3 DEF Next, ServerStep, vars
    <2>5. ~\E p \in Processes : Restart(p)
      BY DEF Restart
    <2>6. ~(Join(m) \/ Lead(m))
      BY <1>1 DEF Join, Lead, WithdrawalInv, RequestsOK, Numbers
    <2>8. ~Settle(m)
      <3>1. \A r : [attempts[n] EXCEPT !.stage = "over", !.result = r].stage = "over"
        BY <1>1 DEF Attempt
      <3> SUFFICES ASSUME Settle(m) PROVE FALSE
        OBVIOUS
      <3>2. PICK r : attempts' = [k \in Numbers |->
                       IF attempts[k].leader = m
                       THEN [attempts[k] EXCEPT !.stage = "over", !.result = r] ELSE attempts[k]]
        BY DEF Settle
      <3>3. \/ attempts'[n] = attempts[n]
            \/ attempts'[n] = [attempts[n] EXCEPT !.stage = "over", !.result = r]
        BY <3>2, Zenon
      <3> QED BY <3>1, <3>3
    <2>9. Admit(m) => m = n
      BY <1>1 DEF Admit, Over
    <2> QED BY <2>4, <2>5, <2>6, <2>8, <2>9
  <1>4. keyStore[attempts[n].process][KeyOf(n)] = "withdraws"
    <2> SUFFICES ASSUME keyStore[attempts[n].process][KeyOf(n)] # "withdraws" PROVE FALSE
      OBVIOUS
    <2>1. attempts' = Over(n, "forbidden")
      BY <1>3 DEF Admit
    <2> QED BY <1>1, <2>1 DEF Over, Attempt
  <1> QED BY <1>1, <1>2, <1>4 DEF WithdrawalInv, BarredAreOut

-------------------------------------------------------------------------------
(* Diagnostics *)
\* An endpoint has served at least as lately as the cache has an answer of it; during a
\* diagnosis the outcomes are those of the checks before the present one, and whoever
\* does not serve is known to have failed.
DiagnosisInv ==
    /\ D!DiagnosisSound
    /\ \A e \in D!Endpoints : /\ cached[e] < D!Gone => since[e] <= cached[e]
                              /\ serves[e] => since[e] = 0
    /\ silent \subseteq DOMAIN found
    /\ waiting => at # 0
    /\ at # 0 => at = Len(found) + 1 /\ D!Down \subseteq failing

LEMMA CheckFacts ==
  /\ Len(D!Checks) = 3 /\ D!CheckNumbers = 1..3 /\ D!Gone \in Nat /\ D!Gone > 0
  /\ \A i \in D!CheckNumbers : D!Checks[i] \in D!Endpoints
  /\ \A i \in D!CheckNumbers : (i + 1) % (Len(D!Checks) + 1) \in {0, i + 1}
                             /\ (i + 1) % (Len(D!Checks) + 1) \in D!CheckNumbers \cup {0}
  <1>1. Len(D!Checks) = 3 /\ D!CheckNumbers = 1..3 /\ D!Gone \in Nat /\ D!Gone > 0
    BY TtlAssumption DEF D!Checks, D!CheckNumbers, D!Gone
  <1>2. \A i \in 1..3 : D!Checks[i] \in D!Endpoints
    BY DEF D!Checks, D!Endpoints
  <1>3. \A i \in 1..3 : (i + 1) % 4 \in {0, i + 1} /\ (i + 1) % 4 \in 0..3
    <2>1. 2 % 4 = 2 /\ 3 % 4 = 3 /\ 4 % 4 = 0
      OBVIOUS
    <2> QED BY <2>1
  <1> QED BY <1>1, <1>2, <1>3

LEMMA OlderFacts ==
  ASSUME NEW t \in 0..D!Gone
  PROVE  D!Older(t) \in 0..D!Gone /\ D!Older(t) = IF t < D!Gone THEN t + 1 ELSE t
  BY CheckFacts DEF D!Older

LEMMA DiagnosisInit == D!Init => DiagnosisInv
  <1> SUFFICES ASSUME D!Init PROVE DiagnosisInv
    OBVIOUS
  <1>1. D!Gone \in 0..D!Gone /\ 0 \in 0..D!Gone
    BY CheckFacts
  <1>2. found = <<>> /\ DOMAIN found = {} /\ found \in Seq({"pass", "fail"})
    BY DEF D!Init
  <1>3. D!DiagnosisTypeOK
    BY <1>1, <1>2 DEF D!Init, D!DiagnosisTypeOK
  <1>4. \A e \in D!Endpoints : cached[e] = D!Gone /\ (serves[e] => since[e] = 0)
    BY DEF D!Init
  <1>5. ~(D!Gone < D!Gone)
    BY CheckFacts
  <1> QED BY <1>2, <1>3, <1>4, <1>5 DEF D!Init, DiagnosisInv, D!DiagnosisSound, D!DiagnosisIsTrue

\* A check ends, and its outcome is true.
LEMMA ConcludesKeeps ==
  ASSUME DiagnosisInv, NEW v \in {"pass", "fail"}, D!Concludes(v), at # 0,
         UNCHANGED <<serves, since, failing>>,
         v = "pass" => since[D!Checks[at]] # D!Gone,
         v = "fail" => ~serves[D!Checks[at]],
         refreshing' \subseteq D!Endpoints, cached' \in [D!Endpoints -> 0..D!Gone],
         \A e \in D!Endpoints : cached'[e] = cached[e] \/ (cached'[e] = 0 /\ serves[e])
  PROVE  DiagnosisInv'
  <1>1. /\ at \in D!CheckNumbers /\ at = Len(found) + 1 /\ D!Down \subseteq failing
        /\ found \in Seq({"pass", "fail"}) /\ silent \subseteq D!CheckNumbers
        /\ silent \subseteq DOMAIN found /\ Len(found) \in Nat /\ DOMAIN found = 1..Len(found)
    BY DEF DiagnosisInv, D!DiagnosisSound, D!DiagnosisTypeOK
  <1>2. /\ found' \in Seq({"pass", "fail"}) /\ Len(found') = Len(found) + 1
        /\ DOMAIN found' = DOMAIN found \cup {at} /\ at \notin DOMAIN found
        /\ found'[at] = v /\ \A i \in DOMAIN found : found'[i] = found[i]
    BY <1>1 DEF D!Concludes
  <1>3. silent' = IF since[D!Checks[at]] = D!Gone THEN silent \cup {at} ELSE silent
    BY DEF D!Concludes
  <1>4. at' \in D!CheckNumbers \cup {0} /\ at' \in {0, at + 1} /\ ~waiting' /\ waiting' \in BOOLEAN
    BY <1>1, CheckFacts DEF D!Concludes
  <1>5. D!DiagnosisTypeOK'
    BY <1>1, <1>2, <1>3, <1>4 DEF DiagnosisInv, D!DiagnosisSound, D!DiagnosisTypeOK
  <1>6. D!DiagnosisIsTrue'
    <2> SUFFICES ASSUME NEW i \in DOMAIN found'
                 PROVE  IF found'[i] = "pass" THEN i \notin silent' ELSE D!Checks[i] \in failing'
      BY DEF D!DiagnosisIsTrue
    <2>1. CASE i = at
      <3>1. D!Checks[at] \in D!Endpoints
        BY <1>1, CheckFacts
      <3> QED BY <1>1, <1>2, <1>3, <2>1, <3>1 DEF D!Down
    <2>2. CASE i \in DOMAIN found
      <3>1. IF found[i] = "pass" THEN i \notin silent ELSE D!Checks[i] \in failing
        BY <2>2 DEF DiagnosisInv, D!DiagnosisSound, D!DiagnosisIsTrue
      <3> QED BY <1>2, <1>3, <2>2, <3>1
    <2> QED BY <1>2, <2>1, <2>2
  <1>7. \A e \in D!Endpoints : cached'[e] < D!Gone => since[e] <= cached'[e]
    <2> SUFFICES ASSUME NEW e \in D!Endpoints, cached'[e] < D!Gone PROVE since[e] <= cached'[e]
      OBVIOUS
    <2>1. CASE cached'[e] = cached[e]
      BY <2>1 DEF DiagnosisInv
    <2>2. CASE cached'[e] = 0 /\ serves[e]
      BY <2>2 DEF DiagnosisInv
    <2> QED BY <2>1, <2>2
  <1>8. silent' \subseteq DOMAIN found' /\ D!Down' = D!Down
    BY <1>1, <1>2, <1>3 DEF D!Down
  <1>9. at' # 0 => at' = Len(found') + 1
    BY <1>1, <1>2, <1>4
  <1>10. \A e \in D!Endpoints : serves[e] => since[e] = 0
    BY DEF DiagnosisInv
  <1> QED BY <1>1, <1>4, <1>5, <1>6, <1>7, <1>8, <1>9, <1>10 DEF DiagnosisInv, D!DiagnosisSound

\* What happens behind the diagnosis: it goes on where it was.
LEMMA BehindKeeps ==
  ASSUME DiagnosisInv, UNCHANGED <<at, waiting, found, silent>>,
         serves' \in [D!Endpoints -> BOOLEAN], since' \in [D!Endpoints -> 0..D!Gone],
         cached' \in [D!Endpoints -> 0..D!Gone], refreshing' \subseteq D!Endpoints,
         failing' \subseteq D!Endpoints, failing \subseteq failing',
         D!Down \subseteq failing => D!Down' \subseteq failing',
         \A e \in D!Endpoints : /\ cached'[e] < D!Gone => since'[e] <= cached'[e]
                                /\ serves'[e] => since'[e] = 0
  PROVE  DiagnosisInv'
  <1>1. D!DiagnosisTypeOK'
    BY DEF DiagnosisInv, D!DiagnosisSound, D!DiagnosisTypeOK
  <1>2. D!DiagnosisIsTrue'
    BY DEF DiagnosisInv, D!DiagnosisSound, D!DiagnosisIsTrue
  <1> QED BY <1>1, <1>2 DEF DiagnosisInv, D!DiagnosisSound

LEMMA DiagnosisKeeps == DiagnosisInv /\ [D!DiagnosisNext]_diagnosisVars => DiagnosisInv'
  <1> SUFFICES ASSUME DiagnosisInv, [D!DiagnosisNext]_diagnosisVars PROVE DiagnosisInv'
    OBVIOUS
  <1>1. /\ D!DiagnosisTypeOK /\ D!DiagnosisIsTrue
        /\ \A e \in D!Endpoints : /\ cached[e] < D!Gone => since[e] <= cached[e]
                                  /\ serves[e] => since[e] = 0
                                  /\ since[e] \in 0..D!Gone /\ cached[e] \in 0..D!Gone
    BY DEF DiagnosisInv, D!DiagnosisSound, D!DiagnosisTypeOK
  <1>2. D!Gone \in Nat /\ D!Gone > 0 /\ D!Gone \in 0..D!Gone /\ 0 \in 0..D!Gone
    BY CheckFacts
  <1>3. at # 0 => D!Checks[at] \in D!Endpoints
    BY <1>1, CheckFacts DEF D!DiagnosisTypeOK
  <1>4. CASE UNCHANGED diagnosisVars
    <2>1. D!Down' = D!Down
      BY <1>4 DEF diagnosisVars, D!Down
    <2> QED BY <1>1, <1>4, <2>1, BehindKeeps DEF diagnosisVars, D!DiagnosisTypeOK
  <1>5. CASE D!Start
    <2>1. /\ at' = 1 /\ found' = <<>> /\ silent' = {} /\ failing' = D!Down
          /\ UNCHANGED <<serves, since, cached, refreshing, waiting>>
      BY <1>5 DEF D!Start
    <2>2. DOMAIN found' = {} /\ Len(found') = 0 /\ found' \in Seq({"pass", "fail"})
      BY <2>1
    <2>3. 1 \in D!CheckNumbers /\ D!Down \subseteq D!Endpoints /\ D!Down' = D!Down
      BY <2>1, CheckFacts DEF D!Down
    <2>4. D!DiagnosisTypeOK'
      BY <1>1, <2>1, <2>2, <2>3 DEF D!DiagnosisTypeOK
    <2> QED BY <1>1, <2>1, <2>2, <2>3, <2>4 DEF DiagnosisInv, D!DiagnosisSound, D!DiagnosisIsTrue
  <1>6. CASE D!Hit
    <2>1. /\ at # 0 /\ cached[D!Checks[at]] < D!Gone /\ D!Concludes("pass")
          /\ UNCHANGED <<serves, since, cached, failing>>
          /\ refreshing' \in {refreshing, refreshing \cup {D!Checks[at]}}
      BY <1>6 DEF D!Hit
    <2>2. since[D!Checks[at]] # D!Gone
      BY <1>1, <1>2, <1>3, <2>1
    <2>3. refreshing' \subseteq D!Endpoints /\ cached' \in [D!Endpoints -> 0..D!Gone]
      BY <1>1, <1>3, <2>1 DEF D!DiagnosisTypeOK
    <2>4. \A e \in D!Endpoints : cached'[e] = cached[e]
      BY <2>1
    <2>5. "pass" \in {"pass", "fail"} /\ "pass" # "fail"
      OBVIOUS
    <2> QED BY <2>1, <2>2, <2>3, <2>4, <2>5, ConcludesKeeps
  <1>7. CASE D!Miss
    <2>1. at # 0 /\ waiting' = TRUE
          /\ UNCHANGED <<serves, since, cached, refreshing, at, found, silent, failing>>
      BY <1>7 DEF D!Miss
    <2>2. D!Down' = D!Down
      BY <2>1 DEF D!Down
    <2> QED BY <1>1, <2>1, <2>2
            DEF DiagnosisInv, D!DiagnosisSound, D!DiagnosisTypeOK, D!DiagnosisIsTrue
  <1>8. CASE D!Answers
    <2>1. at # 0 /\ UNCHANGED <<serves, since, refreshing, failing>>
      BY <1>8 DEF D!Answers, DiagnosisInv
    <2>2. refreshing' \subseteq D!Endpoints
      BY <1>1, <2>1 DEF D!DiagnosisTypeOK
    <2>3. CASE serves[D!Checks[at]]
      <3>1. D!Concludes("pass") /\ cached' = [cached EXCEPT ![D!Checks[at]] = 0]
        BY <1>8, <2>3 DEF D!Answers
      <3>2. since[D!Checks[at]] # D!Gone
        BY <1>1, <1>2, <1>3, <2>1, <2>3
      <3>3. /\ cached' \in [D!Endpoints -> 0..D!Gone]
            /\ \A e \in D!Endpoints : cached'[e] = cached[e] \/ (cached'[e] = 0 /\ serves[e])
        BY <1>1, <1>2, <1>3, <2>1, <2>3, <3>1 DEF D!DiagnosisTypeOK
      <3>4. "pass" \in {"pass", "fail"} /\ "pass" # "fail"
        OBVIOUS
      <3> QED BY <2>1, <2>2, <3>1, <3>2, <3>3, <3>4, ConcludesKeeps
    <2>4. CASE ~serves[D!Checks[at]]
      <3>1. D!Concludes("fail") /\ cached' = cached
        BY <1>8, <2>4 DEF D!Answers
      <3>2. cached' \in [D!Endpoints -> 0..D!Gone] /\ \A e \in D!Endpoints : cached'[e] = cached[e]
        BY <1>1, <3>1 DEF D!DiagnosisTypeOK
      <3>3. "fail" \in {"pass", "fail"} /\ "pass" # "fail"
        OBVIOUS
      <3> QED BY <2>1, <2>2, <2>4, <3>1, <3>2, <3>3, ConcludesKeeps
    <2> QED BY <2>3, <2>4
  <1>9. ASSUME NEW e \in D!Endpoints, D!Refreshed(e) \/ D!Used(e)
        PROVE  DiagnosisInv'
    <2>1. /\ UNCHANGED <<serves, since, at, waiting, found, silent, failing>>
          /\ refreshing' \subseteq D!Endpoints
      BY <1>1, <1>9 DEF D!Refreshed, D!Used, D!DiagnosisTypeOK
    <2>2. \/ cached' = cached
          \/ serves[e] /\ cached' = [cached EXCEPT ![e] = 0]
          \/ cached' = [cached EXCEPT ![e] = D!Gone]
      BY <1>9 DEF D!Refreshed, D!Used
    <2>3. /\ cached' \in [D!Endpoints -> 0..D!Gone]
          /\ \A d \in D!Endpoints : \/ cached'[d] = cached[d]
                                    \/ serves[d] /\ cached'[d] = 0
                                    \/ cached'[d] = D!Gone
      BY <1>1, <1>2, <2>2 DEF D!DiagnosisTypeOK
    <2>4. \A d \in D!Endpoints : cached'[d] < D!Gone => since[d] <= cached'[d]
      BY <1>1, <1>2, <2>3
    <2>5. D!Down' = D!Down
      BY <2>1 DEF D!Down
    <2> QED BY <1>1, <2>1, <2>3, <2>4, <2>5, BehindKeeps DEF D!DiagnosisTypeOK
  <1>10. ASSUME NEW e \in D!Endpoints, D!Changes(e)
         PROVE  DiagnosisInv'
    <2>1. /\ serves' = [serves EXCEPT ![e] = ~serves[e]] /\ since' = [since EXCEPT ![e] = 0]
          /\ failing' = IF serves[e] THEN failing \cup {e} ELSE failing
          /\ UNCHANGED <<cached, refreshing, at, waiting, found, silent>>
      BY <1>10 DEF D!Changes
    <2>2. /\ serves \in [D!Endpoints -> BOOLEAN] /\ since \in [D!Endpoints -> 0..D!Gone]
          /\ failing \subseteq D!Endpoints
      BY <1>1 DEF D!DiagnosisTypeOK
    <2>3. (~serves[e]) \in BOOLEAN
      OBVIOUS
    <2>4. serves' \in [D!Endpoints -> BOOLEAN] /\ \A d \in D!Endpoints : d # e => serves'[d] = serves[d]
      BY <2>1, <2>2, <2>3, Zenon
    <2>5. since' \in [D!Endpoints -> 0..D!Gone]
          /\ \A d \in D!Endpoints : since'[d] = IF d = e THEN 0 ELSE since[d]
      BY <1>2, <2>1, <2>2
    <2>6. serves[e] \/ serves'[e]
      BY <2>1, <2>2, Zenon
    <2>7. D!Down' \subseteq D!Down \cup failing' /\ failing \subseteq failing' /\ failing' \subseteq D!Endpoints
      BY <2>1, <2>2, <2>4, <2>6 DEF D!Down
    <2>8. \A d \in D!Endpoints : /\ cached'[d] < D!Gone => since'[d] <= cached'[d]
                                 /\ serves'[d] => since'[d] = 0
      BY <1>1, <1>2, <2>1, <2>4, <2>5
    <2>9. cached' \in [D!Endpoints -> 0..D!Gone] /\ refreshing' \subseteq D!Endpoints
      BY <1>1, <2>1 DEF D!DiagnosisTypeOK
    <2> QED BY <2>1, <2>4, <2>5, <2>7, <2>8, <2>9, BehindKeeps
  <1>11. CASE D!Tick
    <2>1. /\ since' = [e \in D!Endpoints |-> IF serves[e] THEN 0 ELSE D!Older(since[e])]
          /\ cached' = [e \in D!Endpoints |-> D!Older(cached[e])]
          /\ UNCHANGED <<serves, refreshing, at, waiting, found, silent, failing>>
      BY <1>11 DEF D!Tick
    <2>2. since' \in [D!Endpoints -> 0..D!Gone] /\ cached' \in [D!Endpoints -> 0..D!Gone]
      BY <1>1, <1>2, <2>1, OlderFacts
    <2>3. \A e \in D!Endpoints : cached'[e] < D!Gone => since'[e] <= cached'[e]
      <3> SUFFICES ASSUME NEW e \in D!Endpoints, D!Older(cached[e]) < D!Gone
                   PROVE  since'[e] <= D!Older(cached[e])
        BY <2>1
      <3>1. cached[e] < D!Gone /\ D!Older(cached[e]) = cached[e] + 1 /\ cached[e] \in 0..D!Gone
        BY <1>1, <1>2, OlderFacts
      <3>2. since[e] <= cached[e] /\ D!Older(since[e]) = since[e] + 1 /\ since[e] \in 0..D!Gone
        BY <1>1, <1>2, <3>1, OlderFacts
      <3>3. since'[e] = 0 \/ since'[e] = D!Older(since[e])
        BY <2>1
      <3> QED BY <3>1, <3>2, <3>3
    <2>4. D!Down' = D!Down /\ \A e \in D!Endpoints : serves'[e] => since'[e] = 0
      BY <2>1 DEF D!Down
    <2> QED BY <1>1, <2>1, <2>2, <2>3, <2>4, BehindKeeps DEF D!DiagnosisTypeOK
  <1>12. refreshing \subseteq D!Endpoints
    BY <1>1 DEF D!DiagnosisTypeOK
  <1> QED BY <1>4, <1>5, <1>6, <1>7, <1>8, <1>9, <1>10, <1>11, <1>12 DEF D!DiagnosisNext

-------------------------------------------------------------------------------
(* Pagination *)
\* The cursor is where the collection ends, or the last page has come.
PageInv ==
    /\ P!PagesSound
    /\ phase \in {"fetching", "pausing"} => cursor = Len(collected)
    /\ phase = "yielded" /\ cursor # 0 => cursor = Len(collected)
    /\ phase = "yielded" /\ cursor = 0 /\ size > 0 => Len(collected) = total
    /\ Len(collected) <= total

LEMMA PageNumbers ==
  ASSUME PageInv
  PROVE  /\ total \in Nat /\ size \in Int /\ cursor \in Nat /\ cursor <= total
         /\ collected \in Seq(Nat) /\ Len(collected) \in Nat /\ Len(collected) <= total
         /\ DOMAIN collected = 1..Len(collected) /\ \A i \in 1..Len(collected) : collected[i] = i
  <1>1. total \in Nat /\ size \in Int /\ cursor \in Nat /\ cursor <= total
    BY PagesAssumption DEF PageInv, P!PagesSound, P!PageTypeOK
  <1>2. collected \in Seq(1..total) /\ Len(collected) <= total
    BY DEF PageInv, P!PagesSound, P!PageTypeOK
  <1>3. collected \in Seq(Nat) /\ Len(collected) \in Nat /\ DOMAIN collected = 1..Len(collected)
    BY <1>1, <1>2
  <1> QED BY <1>1, <1>2, <1>3 DEF PageInv, P!PagesSound, P!CollectedInOrder

LEMMA PageInit == P!Init => PageInv
  <1> SUFFICES ASSUME P!Init PROVE PageInv
    OBVIOUS
  <1>1. collected = <<>> /\ Len(collected) = 0 /\ DOMAIN collected = {} /\ total \in Nat
        /\ collected \in Seq(1..total)
    BY PagesAssumption DEF P!Init
  <1>2. P!PageTypeOK
    <2>1. cursor \in 0..total /\ total \in 0..MaxTransactions /\ size \in PageSizes
      BY <1>1 DEF P!Init
    <2>2. phase = "fetching" /\ aborted \in BOOLEAN
      BY DEF P!Init
    <2> QED BY <1>1, <2>1, <2>2 DEF P!PageTypeOK
  <1>3. P!CollectedInOrder
    BY <1>1 DEF P!Init, P!CollectedInOrder
  <1>4. cursor = 0 /\ phase = "fetching"
    BY DEF P!Init
  <1> QED BY <1>1, <1>2, <1>3, <1>4 DEF PageInv, P!PagesSound

\* A page goes on where the collection ends, and its cursor is its end if there is more.
LEMMA PageFetchKeeps ==
  ASSUME PageInv, phase = "fetching", phase' = "yielded", UNCHANGED <<total, size, aborted>>,
         collected' = collected \o P!ListTransactions(cursor, size).data,
         cursor' = P!ListTransactions(cursor, size).nextCursor
  PROVE  PageInv'
  <1> DEFINE c == cursor
             to == c + size
             end == IF to < 0 THEN total + to ELSE IF to < total THEN to ELSE total
             n == IF end > c THEN end - c ELSE 0
             page == [i \in 1..n |-> c + i]
             next == IF to < total /\ page # <<>> THEN page[Len(page)] ELSE 0
  <1>1. /\ total \in Nat /\ size \in Int /\ c \in Nat /\ c <= total /\ c = Len(collected)
        /\ collected \in Seq(Nat) /\ \A i \in 1..c : collected[i] = i
    BY PageNumbers DEF PageInv
  <1>2. collected' = collected \o page /\ cursor' = next
    BY DEF P!ListTransactions, P!Slice
  <1>3. /\ end \in Int /\ end <= total /\ n \in Nat /\ c + n <= total
        /\ size > 0 /\ ~(to < total) => end = total
        /\ size > 0 /\ n = 0 => c = total
        /\ n > 0 => c + n = end
    BY <1>1
  <1> HIDE DEF end, n, to
  <1>4. page \in Seq(Nat) /\ Len(page) = n /\ \A i \in 1..n : page[i] = c + i
    <2>1. page \in [1..n -> Nat]
      BY <1>1, <1>3
    <2>2. page \in UNION {[1..m -> Nat] : m \in Nat}
      BY <1>3, <2>1
    <2>3. page \in Seq(Nat)
      BY <2>2, SeqDef, Zenon
    <2> QED BY <1>3, <2>1, <2>3
  <1> HIDE DEF page
  <1>5. next = IF to < total /\ n > 0 THEN c + n ELSE 0
    BY <1>1, <1>3, <1>4
  <1> HIDE DEF next
  <1>6. /\ collected' \in Seq(Nat) /\ Len(collected') = c + n
        /\ \A i \in 1..(c + n) : collected'[i] = IF i <= c THEN collected[i] ELSE page[i - c]
    <2>1. /\ collected \o page \in Seq(Nat)
          /\ Len(collected \o page) = Len(collected) + Len(page)
          /\ \A i \in 1..(Len(collected) + Len(page)) : (collected \o page)[i]
                 = IF i <= Len(collected) THEN collected[i] ELSE page[i - Len(collected)]
      BY <1>1, <1>4, ConcatProperties
    <2> QED BY <1>1, <1>2, <1>4, <2>1
  <1>7. \A i \in 1..(c + n) : collected'[i] = i
    <2> SUFFICES ASSUME NEW i \in 1..(c + n) PROVE collected'[i] = i
      OBVIOUS
    <2>1. CASE i <= c
      BY <1>1, <1>3, <1>6, <2>1
    <2>2. CASE ~(i <= c)
      <3>1. i - c \in 1..n /\ c + (i - c) = i
        BY <1>1, <1>3, <2>2
      <3> QED BY <1>4, <1>6, <2>2, <3>1
    <2> QED BY <2>1, <2>2
  <1>8. DOMAIN collected' = 1..(c + n) /\ c + n \in Nat
    BY <1>1, <1>3, <1>6
  <1>9. collected' \in Seq(1..total)
    <2>1. collected' \in [1..(c + n) -> Nat]
      BY <1>6, LenProperties
    <2>2. \A i \in 1..(c + n) : collected'[i] \in 1..total
      <3>1. \A i \in 1..(c + n) : i \in 1..total
        BY <1>1, <1>3
      <3> QED BY <1>7, <3>1
    <2>3. collected' \in [1..(c + n) -> 1..total]
      BY <2>1, <2>2
    <2>4. collected' \in UNION {[1..m -> 1..total] : m \in Nat}
      BY <1>8, <2>3
    <2> QED BY <2>4, SeqDef, Zenon
  <1>10. cursor' \in 0..total
    BY <1>1, <1>2, <1>3, <1>5
  <1>11. P!PageTypeOK'
    BY <1>9, <1>10 DEF PageInv, P!PagesSound, P!PageTypeOK
  <1>12. P!CollectedInOrder'
    BY <1>7, <1>8 DEF P!CollectedInOrder
  <1>13. /\ cursor' # 0 => cursor' = Len(collected')
         /\ cursor' = 0 /\ size > 0 => Len(collected') = total
    BY <1>1, <1>2, <1>3, <1>5, <1>6
  <1>14. Len(collected') <= total
    BY <1>3, <1>6
  <1> QED BY <1>11, <1>12, <1>13, <1>14 DEF PageInv, P!PagesSound

LEMMA PageKeeps == PageInv /\ [P!PageNext]_pageVars => PageInv'
  <1> SUFFICES ASSUME PageInv, [P!PageNext]_pageVars PROVE PageInv'
    OBVIOUS
  <1> USE DEF PageInv, P!PagesSound, P!PageTypeOK, P!CollectedInOrder
  <1>1. CASE UNCHANGED pageVars
    BY <1>1 DEF pageVars
  <1>2. CASE P!Fetch
    <2>1. CASE aborted
      <3>1. aborted' /\ aborted' = aborted /\ phase' = "returned"
            /\ UNCHANGED <<total, size, cursor, collected>>
        BY <1>2, <2>1 DEF P!Fetch
      <3> QED BY <3>1
    <2>2. CASE ~aborted
      <3> HIDE DEF PageInv, P!PagesSound, P!PageTypeOK, P!CollectedInOrder
      <3> QED BY <1>2, <2>2, PageFetchKeeps DEF P!Fetch
    <2> QED BY <2>1, <2>2
  <1>3. CASE P!NextPage
    BY <1>3 DEF P!NextPage
  <1>4. CASE P!Pause
    BY <1>4 DEF P!Pause
  <1>5. CASE P!Abort
    BY <1>5 DEF P!Abort
  <1> QED BY <1>1, <1>2, <1>3, <1>4, <1>5 DEF P!PageNext

-------------------------------------------------------------------------------
(* MockServer *)
Route == [matches : Matchers, outcome : Outcomes, waits : BOOLEAN]

\* The override that is looked at first says what was declared last.
FirstIsLast ==
    \A p \in Paths :
        \/ M!Matching(p) = {} /\ last[p] = M!Default(p)
        \/ \E i \in M!Matching(p) : (\A j \in M!Matching(p) : i <= j) /\ last[p] = overrides[i].outcome

MockInv == M!MockSound /\ FirstIsLast

LEMMA ResolvesToLast ==
  ASSUME MockInv, NEW p \in Paths
  PROVE  M!Resolve(p).outcome = last[p]
  <1>1. overrides \in Seq(Route)
    BY DEF MockInv, M!MockSound, M!MockTypeOK, Route
  <1>2. M!Matching(p) \subseteq 1..Len(overrides) /\ Len(overrides) \in Nat
    BY <1>1 DEF M!Matching
  <1>3. CASE M!Matching(p) = {}
    BY <1>3 DEF M!Resolve, MockInv, FirstIsLast
  <1>4. CASE M!Matching(p) # {}
    <2>1. PICK i \in M!Matching(p) : (\A j \in M!Matching(p) : i <= j) /\ last[p] = overrides[i].outcome
      BY <1>4 DEF MockInv, FirstIsLast
    <2> DEFINE c == CHOOSE k \in M!Matching(p) : \A j \in M!Matching(p) : k <= j
    <2>2. c \in M!Matching(p) /\ \A j \in M!Matching(p) : c <= j
      BY <2>1, Zenon
    <2> HIDE DEF c
    <2>3. c = i
      BY <1>2, <2>1, <2>2
    <2>4. M!Resolve(p) = overrides[c]
      BY <1>4, Zenon DEF M!Resolve, c
    <2> QED BY <2>1, <2>3, <2>4
  <1> QED BY <1>3, <1>4

LEMMA MockInit == M!Init => MockInv
  <1> SUFFICES ASSUME M!Init PROVE MockInv
    OBVIOUS
  <1>0. overrides = <<>> /\ recorded = <<>> /\ DOMAIN overrides = {}
    BY DEF M!Init
  <1>1. \A p \in Paths : M!Matching(p) = {} /\ last[p] = M!Default(p) /\ M!Default(p) \in M!Given
    <2>1. \A p \in Paths : M!Matching(p) = {}
      BY <1>0 DEF M!Matching
    <2>2. last = [p \in Paths |-> M!Default(p)]
      BY DEF M!Init
    <2> QED BY <2>1, <2>2 DEF M!Default, M!Given
  <1>2. M!MockTypeOK
    <2>1. last = [p \in Paths |-> M!Default(p)]
      BY DEF M!Init
    <2>2. last \in [Paths -> M!Given]
      BY <1>1, <2>1
    <2>3. \A R : <<>> \in Seq(R)
      OBVIOUS
    <2> QED BY <1>0, <2>2, <2>3 DEF M!Init, M!MockTypeOK
  <1>3. M!FetchIsRestored /\ M!AnswersAsDeclared
    BY DEF M!Init, M!FetchIsRestored, M!AnswersAsDeclared
  <1> QED BY <1>1, <1>2, <1>3 DEF MockInv, M!MockSound, FirstIsLast

\* The answers stay as they were declared.
MockRest == UNCHANGED <<delayed, answered>>

LEMMA OnKeeps ==
  ASSUME MockInv, NEW m \in Matchers, NEW o \in Outcomes, NEW w \in BOOLEAN, M!On(m, o, w)
  PROVE  MockInv'
  <1> DEFINE r == [matches |-> m, outcome |-> o, waits |-> w]
  <1>1. overrides \in Seq(Route) /\ Len(overrides) \in Nat /\ r \in Route
    BY DEF MockInv, M!MockSound, M!MockTypeOK, Route
  <1>2. overrides' = <<r>> \o overrides
    BY DEF M!On, M!Registered
  <1>3. r.matches = m /\ r.outcome = o
    OBVIOUS
  <1> HIDE DEF r
  <1>4. /\ overrides' \in Seq(Route) /\ Len(overrides') = Len(overrides) + 1
        /\ overrides'[1] = r
        /\ \A i \in 1..Len(overrides) : overrides'[i + 1] = overrides[i]
    BY <1>1, <1>2
  <1>5. DOMAIN overrides = 1..Len(overrides) /\ DOMAIN overrides' = 1..(Len(overrides) + 1)
    BY <1>1, <1>4
  <1>6. last' = [p \in Paths |-> IF p \in m THEN o ELSE last[p]]
    BY DEF M!On
  <1>7. last' \in [Paths -> M!Given]
    BY <1>6 DEF MockInv, M!MockSound, M!MockTypeOK, M!Given
  <1>8. M!MockTypeOK'
    BY <1>4, <1>7 DEF M!On, MockInv, M!MockSound, M!MockTypeOK, Route
  <1>9. M!FetchIsRestored' /\ M!AnswersAsDeclared'
    BY DEF M!On, MockInv, M!MockSound, M!FetchIsRestored, M!AnswersAsDeclared
  <1>10. ASSUME NEW p \in Paths
         PROVE  \/ M!Matching(p)' = {} /\ last'[p] = M!Default(p)
                \/ \E i \in M!Matching(p)' : (\A j \in M!Matching(p)' : i <= j)
                                           /\ last'[p] = overrides'[i].outcome
    <2>1. CASE p \in m
      <3>1. 1 \in M!Matching(p)' /\ M!Matching(p)' \subseteq 1..(Len(overrides) + 1)
        BY <1>1, <1>3, <1>4, <1>5, <2>1 DEF M!Matching
      <3>2. last'[p] = overrides'[1].outcome
        BY <1>3, <1>4, <1>6, <2>1
      <3>3. \A j \in M!Matching(p)' : 1 <= j
        BY <1>1, <3>1
      <3> QED BY <3>1, <3>2, <3>3
    <2>2. CASE p \notin m
      <3>1. last'[p] = last[p]
        BY <1>6, <2>2
      <3>2. \A j \in M!Matching(p)' : j # 1 /\ j \in 2..(Len(overrides) + 1) /\ j - 1 \in M!Matching(p)
        <4> SUFFICES ASSUME NEW j \in M!Matching(p)'
                     PROVE  j # 1 /\ j \in 2..(Len(overrides) + 1) /\ j - 1 \in M!Matching(p)
          OBVIOUS
        <4>1. j \in 1..(Len(overrides) + 1) /\ p \in overrides'[j].matches
          BY <1>5 DEF M!Matching
        <4>2. j # 1
          BY <1>3, <1>4, <2>2, <4>1
        <4>3. j \in 2..(Len(overrides) + 1) /\ j - 1 \in 1..Len(overrides) /\ (j - 1) + 1 = j
          BY <1>1, <4>1, <4>2
        <4>4. overrides'[j] = overrides[j - 1]
          BY <1>4, <4>3
        <4> QED BY <1>5, <4>1, <4>2, <4>3, <4>4 DEF M!Matching
      <3>3. \A i \in M!Matching(p) : i \in 1..Len(overrides) /\ i + 1 \in M!Matching(p)'
        <4> SUFFICES ASSUME NEW i \in M!Matching(p)
                     PROVE  i \in 1..Len(overrides) /\ i + 1 \in M!Matching(p)'
          OBVIOUS
        <4>1. i \in 1..Len(overrides) /\ p \in overrides[i].matches
          BY <1>5 DEF M!Matching
        <4>2. overrides'[i + 1] = overrides[i] /\ i + 1 \in 1..(Len(overrides) + 1)
          BY <1>1, <1>4, <4>1
        <4> QED BY <1>5, <4>1, <4>2 DEF M!Matching
      <3>4. CASE M!Matching(p) = {} /\ last[p] = M!Default(p)
        BY <3>1, <3>2, <3>4
      <3>5. ASSUME NEW i \in M!Matching(p), \A j \in M!Matching(p) : i <= j, last[p] = overrides[i].outcome
            PROVE  \E k \in M!Matching(p)' : (\A j \in M!Matching(p)' : k <= j)
                                           /\ last'[p] = overrides'[k].outcome
        <4>1. i \in 1..Len(overrides) /\ i + 1 \in M!Matching(p)' /\ overrides'[i + 1] = overrides[i]
          BY <1>4, <3>3
        <4>2. \A j \in M!Matching(p)' : i + 1 <= j
          BY <1>1, <3>2, <3>5, <4>1
        <4>3. last'[p] = overrides'[i + 1].outcome
          BY <3>1, <3>5, <4>1
        <4> QED BY <4>1, <4>2, <4>3
      <3> QED BY <3>4, <3>5 DEF MockInv, FirstIsLast
    <2> QED BY <2>1, <2>2
  <1> QED BY <1>8, <1>9, <1>10 DEF MockInv, M!MockSound, FirstIsLast, M!Default

LEMMA MockFetchKeeps ==
  ASSUME MockInv, NEW p \in Paths, M!Fetch(p)
  PROVE  MockInv'
  <1> DEFINE o == M!Resolve(p).outcome
             a == [path |-> p, outcome |-> o, due |-> last[p]]
  <1>1. o = last[p] /\ last[p] \in M!Given
    BY ResolvesToLast DEF MockInv, M!MockSound, M!MockTypeOK
  <1>2. a \in M!Answer /\ a.outcome = a.due
    BY <1>1 DEF M!Answer
  <1>3. \/ delayed' = delayed \cup {a} /\ answered' = answered
        \/ answered' = a /\ delayed' = delayed
    BY Zenon DEF M!Fetch
  <1> HIDE DEF a
  <1>4. recorded' \in Seq(Paths) /\ UNCHANGED <<fetch, original, overrides, last, nested>>
    BY DEF M!Fetch, MockInv, M!MockSound, M!MockTypeOK
  <1>5. M!MockTypeOK'
    BY <1>2, <1>3, <1>4 DEF MockInv, M!MockSound, M!MockTypeOK
  <1>6. M!AnswersAsDeclared'
    BY <1>2, <1>3 DEF MockInv, M!MockSound, M!AnswersAsDeclared
  <1>7. M!FetchIsRestored' /\ FirstIsLast'
    BY <1>4 DEF MockInv, M!MockSound, M!FetchIsRestored, FirstIsLast, M!Matching, M!Default
  <1> QED BY <1>5, <1>6, <1>7 DEF MockInv, M!MockSound

LEMMA MockNextKeeps == MockInv /\ [M!MockNext]_mockVars => MockInv'
  <1> SUFFICES ASSUME MockInv, [M!MockNext]_mockVars PROVE MockInv'
    OBVIOUS
  <1>1. CASE UNCHANGED mockVars
    BY <1>1 DEF mockVars, MockInv, M!MockSound, M!MockTypeOK, M!FetchIsRestored, M!AnswersAsDeclared,
                FirstIsLast, M!Matching, M!Default
  <1>2. CASE M!Install \/ M!Uninstall
    <2>1. M!MockTypeOK'
      BY <1>2 DEF M!Install, M!Uninstall, MockInv, M!MockSound, M!MockTypeOK
    <2>2. M!FetchIsRestored'
      <3>1. CASE nested'
        BY <3>1 DEF M!FetchIsRestored
      <3>2. CASE ~nested'
        BY <1>2, <3>2 DEF M!Install, M!Uninstall, MockInv, M!MockSound, M!MockTypeOK, M!FetchIsRestored
      <3> QED BY <3>1, <3>2
    <2>3. M!AnswersAsDeclared' /\ FirstIsLast'
      BY <1>2 DEF M!Install, M!Uninstall, MockInv, M!MockSound, M!AnswersAsDeclared, FirstIsLast,
                  M!Matching, M!Default
    <2> QED BY <2>1, <2>2, <2>3 DEF MockInv, M!MockSound
  <1>3. CASE M!Reset
    <2>0. overrides' = <<>> /\ DOMAIN overrides' = {} /\ last' = [p \in Paths |-> M!Default(p)]
      BY <1>3 DEF M!Reset
    <2>1. \A p \in Paths : M!Matching(p)' = {} /\ last'[p] = M!Default(p) /\ M!Default(p) \in M!Given
      <3>1. \A p \in Paths : M!Matching(p)' = {}
        BY <2>0 DEF M!Matching
      <3> QED BY <2>0, <3>1 DEF M!Default, M!Given
    <2>2. M!MockTypeOK'
      BY <1>3, <2>1 DEF M!Reset, MockInv, M!MockSound, M!MockTypeOK
    <2>3. M!FetchIsRestored' /\ M!AnswersAsDeclared'
      BY <1>3 DEF M!Reset, MockInv, M!MockSound, M!FetchIsRestored, M!AnswersAsDeclared
    <2> QED BY <2>1, <2>2, <2>3 DEF MockInv, M!MockSound, FirstIsLast, M!Default
  <1>4. ASSUME NEW a \in delayed, M!Reply(a)
        PROVE  MockInv'
    <2>1. M!MockTypeOK'
      BY <1>4 DEF M!Reply, MockInv, M!MockSound, M!MockTypeOK
    <2>2. M!AnswersAsDeclared'
      BY <1>4 DEF M!Reply, MockInv, M!MockSound, M!MockTypeOK, M!AnswersAsDeclared
    <2>3. M!FetchIsRestored' /\ FirstIsLast'
      BY <1>4 DEF M!Reply, MockInv, M!MockSound, M!FetchIsRestored, FirstIsLast, M!Matching, M!Default
    <2> QED BY <2>1, <2>2, <2>3 DEF MockInv, M!MockSound
  <1> QED BY <1>1, <1>2, <1>3, <1>4, OnKeeps, MockFetchKeeps DEF M!MockNext

-------------------------------------------------------------------------------
\* The parts count as this module does.
LEMMA SameCount == \A X : Q!Cardinality(X) = Cardinality(X) /\ T!Cardinality(X) = Cardinality(X)
  BY DEF Cardinality, Q!Cardinality, T!Cardinality

-------------------------------------------------------------------------------
(* OnrampQuotes *)
\* The answer is given when every provider is done, and none starts anew.
OnrampInv == Q!OnrampSound /\ (compared => \A p \in Q!Providers : asking[p] \in Q!Settled)

LEMMA NetIsInteger ==
  ASSUME OnrampInv, NEW p \in Q!Providers
  PROVE  Q!Net(p) \in Int
  <1>1. offer[p] \in [crypto : Int, fee : Int]
    BY OffersAssumption DEF OnrampInv, Q!OnrampSound, Q!OnrampTypeOK
  <1> QED BY <1>1 DEF Q!Net

\* Two providers at most: whoever came is in the comparison, and behind the first.
LEMMA FirstIsBest ==
  ASSUME OnrampInv, NEW order \in Q!SetToSeqs(Q!Fulfilled), Q!Sorted(order)
  PROVE  /\ order \in Seq(Q!Providers)
         /\ \A p \in Q!Fulfilled : order # <<>> /\ Q!Net(p) <= Q!Net(order[1])
  <1> DEFINE n == Cardinality(Q!Fulfilled)
  <1>1. Q!Fulfilled \subseteq Q!Providers /\ Q!Providers = {"moonpay", "transak"}
    BY DEF Q!Fulfilled, Q!Providers
  <1>2. order \in [1..n -> Q!Fulfilled] /\ \A i, j \in 1..n : i # j => order[i] # order[j]
    BY SameCount, Zenon DEF Q!SetToSeqs
  <1>3. IsFiniteSet(Q!Fulfilled) /\ n \in Nat
    <2>1. IsFiniteSet(Q!Providers)
      <3>1. IsFiniteSet({"moonpay"}) /\ Q!Providers = {"moonpay"} \cup {"transak"}
        BY FS_Singleton DEF Q!Providers
      <3> QED BY <3>1, FS_AddElement
    <2> QED BY <1>1, <2>1, FS_Subset, FS_CardinalityType
  <1>4. order \in Seq(Q!Providers) /\ Len(order) = n
    <2>1. order \in [1..n -> Q!Providers]
      BY <1>1, <1>2
    <2>2. order \in UNION {[1..m -> Q!Providers] : m \in Nat}
      BY <1>3, <2>1
    <2>3. order \in Seq(Q!Providers)
      BY <2>2, SeqDef, Zenon
    <2> QED BY <1>2, <1>3, <2>3
  <1>5. ASSUME NEW p \in Q!Fulfilled
        PROVE  order # <<>> /\ Q!Net(p) <= Q!Net(order[1])
    <2>1. Q!Net(p) \in Int
      BY <1>1, NetIsInteger
    <2>2. n # 0
      BY <1>3, FS_EmptySet
    <2>3. 1 \in 1..n /\ order[1] \in Q!Fulfilled /\ order # <<>>
      BY <1>2, <1>3, <1>4, <2>2
    <2>4. Q!Net(order[1]) \in Int
      BY <1>1, <2>3, NetIsInteger
    <2>5. CASE p = order[1]
      BY <2>1, <2>3, <2>5
    <2>6. CASE p # order[1]
      <3>1. Q!Fulfilled = {order[1], p}
        BY <1>1, <2>3, <2>6
      <3>2. n = 2
        <4>1. Cardinality({order[1]}) = 1 /\ IsFiniteSet({order[1]})
          BY FS_Singleton
        <4>2. Cardinality({order[1]} \cup {p}) = Cardinality({order[1]}) + 1
          BY <2>6, <4>1, FS_AddElement
        <4>3. Q!Fulfilled = {order[1]} \cup {p}
          BY <3>1
        <4> QED BY <4>1, <4>2, <4>3
      <3>3. 2 \in 1..n /\ order[2] \in Q!Fulfilled /\ order[2] # order[1]
        BY <1>2, <3>2
      <3>4. order[2] = p
        BY <3>1, <3>3
      <3>5. DOMAIN order = 1..n
        BY <1>2
      <3>6. Q!Net(order[1]) > Q!Net(order[2]) \/ Q!Net(order[1]) = Q!Net(order[2])
        BY <2>3, <3>3, <3>5 DEF Q!Sorted
      <3> QED BY <2>1, <2>3, <2>4, <3>4, <3>6
    <2> QED BY <2>5, <2>6
  <1> QED BY <1>4, <1>5

LEMMA OnrampInit == Q!Init => OnrampInv
  <1> SUFFICES ASSUME Q!Init PROVE OnrampInv
    OBVIOUS
  <1>1. comparison \in Seq(Q!Providers)
    BY DEF Q!Init
  <1> QED BY <1>1 DEF Q!Init, OnrampInv, Q!OnrampSound, Q!OnrampTypeOK, Q!BestIsBest, Q!HeldBackByTimers, Q!Settled

LEMMA OnrampKeeps == OnrampInv /\ [Q!OnrampNext]_onrampVars => OnrampInv'
  <1> SUFFICES ASSUME OnrampInv, [Q!OnrampNext]_onrampVars PROVE OnrampInv'
    OBVIOUS
  <1> USE DEF OnrampInv, Q!OnrampSound
  <1>1. CASE UNCHANGED onrampVars
    BY <1>1 DEF onrampVars, Q!OnrampTypeOK, Q!BestIsBest, Q!HeldBackByTimers, Q!Fulfilled, Q!Net
  <1>2. ASSUME NEW p \in Q!Providers, Q!Headers(p) \/ Q!FetchFails(p) \/ Q!Body(p)
        PROVE  OnrampInv'
    <2>1. ~compared /\ compared' = FALSE /\ comparison' = comparison /\ offer' = offer
      <3>1. asking[p] \notin Q!Settled
        BY <1>2 DEF Q!Headers, Q!FetchFails, Q!Body, Q!Settled
      <3>2. ~compared
        BY <3>1
      <3> QED BY <1>2, <3>2 DEF Q!Headers, Q!FetchFails, Q!Body, Q!OnrampTypeOK
    <2>2. PICK next \in Q!Settled \cup {"reading"} :
             /\ asking' = [asking EXCEPT ![p] = next]
             /\ timed' \subseteq Q!Providers
             /\ \/ asking[p] = "fetching" /\ timed' = timed \ {p}
                \/ asking[p] = "reading" /\ timed' = timed
      BY <1>2 DEF Q!Headers, Q!FetchFails, Q!Body, Q!Settled, Q!OnrampTypeOK
    <2>3. Q!OnrampTypeOK'
      BY <2>1, <2>2 DEF Q!OnrampTypeOK
    <2>4. Q!HeldBackByTimers'
      BY <2>2 DEF Q!HeldBackByTimers, Q!OnrampTypeOK, Q!Settled
    <2> QED BY <2>1, <2>3, <2>4 DEF Q!BestIsBest
  <1>3. CASE Q!Answer
    <2>1. UNCHANGED <<asking, timed, offer>> /\ \A p \in Q!Providers : asking[p] \in Q!Settled
      BY <1>3 DEF Q!Answer
    <2>2. PICK order \in Q!SetToSeqs(Q!Fulfilled) : Q!Sorted(order) /\ comparison' = order
      BY <1>3, Zenon DEF Q!Answer
    <2>3. Q!Fulfilled' = Q!Fulfilled /\ \A p : Q!Net(p)' = Q!Net(p)
      BY <2>1 DEF Q!Fulfilled, Q!Net
    <2>4. /\ comparison' \in Seq(Q!Providers)
          /\ \A p \in Q!Fulfilled : comparison' # <<>> /\ Q!Net(p) <= Q!Net(comparison'[1])
      BY <2>2, FirstIsBest
    <2>5. Q!Net(comparison[1])' = Q!Net(comparison'[1])
      BY <2>1 DEF Q!Net
    <2>6. Q!BestIsBest'
      BY <2>3, <2>4, <2>5 DEF Q!BestIsBest
    <2>7. compared' \in BOOLEAN
      BY <1>3 DEF Q!Answer
    <2>8. Q!OnrampTypeOK' /\ Q!HeldBackByTimers'
      BY <2>1, <2>4, <2>7 DEF Q!OnrampTypeOK, Q!HeldBackByTimers
    <2> QED BY <2>1, <2>6, <2>8
  <1> QED BY <1>1, <1>2, <1>3 DEF Q!OnrampNext

-------------------------------------------------------------------------------
(* Throttling *)
\* Requests that came before t and are still being handled.
Before(t) == {s \in T!Slots : open[s] < t}

TimesOK ==
    /\ clock \in 0..MaxClock
    /\ bucket \in [count : Nat, resetAt : 0..(MaxClock + Window)]
    /\ open \in [T!Slots -> 0..T!Free] /\ \A s \in T!Slots : open[s] <= clock \/ open[s] = T!Free
    /\ flagged \in Seq(0..MaxClock) /\ \A i \in DOMAIN flagged : flagged[i] <= clock
    /\ refused \in BOOLEAN

\* A window ends no later than one that began now; and what it counted finished in it.
WindowOK ==
    /\ bucket.resetAt <= clock + Window
    /\ bucket.count > 0 => bucket.resetAt >= Window
    /\ bucket.count > 0 => bucket.count <= Cardinality(T!Since(bucket.resetAt - Window))

\* What finished since t, outside any window, was already being handled at t.
OldAreFew ==
    \A t \in 0..MaxClock : (t <= clock /\ (bucket.count = 0 \/ bucket.resetAt <= t))
        => Cardinality(T!Since(t)) + Cardinality(Before(t)) <= MaxOpen
CountsMost ==
    bucket.count > 0 => bucket.count >= Cardinality(T!Since(bucket.resetAt - Window)) - MaxOpen

ThrottleInv == TimesOK /\ WindowOK /\ OldAreFew /\ CountsMost /\ T!RefusedForRecent

\* The sets that are counted are finite.
LEMMA CountedSets ==
  ASSUME TimesOK
  PROVE  /\ \A t : IsFiniteSet(T!Since(t)) /\ Cardinality(T!Since(t)) \in Nat
         /\ \A t : IsFiniteSet(Before(t)) /\ Cardinality(Before(t)) \in 0..MaxOpen
         /\ Len(flagged) \in Nat /\ DOMAIN flagged = 1..Len(flagged)
         /\ \A i \in DOMAIN flagged : flagged[i] \in Nat
  <1>1. /\ Len(flagged) \in Nat /\ DOMAIN flagged = 1..Len(flagged)
        /\ \A i \in DOMAIN flagged : flagged[i] \in Nat
    BY WindowsAssumption DEF TimesOK
  <1>2. Len(flagged) \in Int /\ 1 \in Int /\ MaxOpen \in Int
    BY <1>1, WindowsAssumption
  <1>3. IsFiniteSet(1..Len(flagged))
    BY <1>2, FS_Interval, Zenon
  <1>4. IsFiniteSet(T!Slots) /\ Cardinality(T!Slots) = MaxOpen
    <2>1. IsFiniteSet(1..MaxOpen) /\ Cardinality(1..MaxOpen) = IF 1 > MaxOpen THEN 0 ELSE MaxOpen - 1 + 1
      BY <1>2, FS_Interval, Zenon
    <2> QED BY <2>1, WindowsAssumption DEF T!Slots
  <1>5. ASSUME NEW t PROVE IsFiniteSet(T!Since(t)) /\ Cardinality(T!Since(t)) \in Nat
    <2>1. T!Since(t) \in SUBSET (1..Len(flagged))
      BY <1>1 DEF T!Since
    <2> QED BY <1>3, <2>1, FS_Subset, FS_CardinalityType
  <1>6. ASSUME NEW t PROVE IsFiniteSet(Before(t)) /\ Cardinality(Before(t)) \in 0..MaxOpen
    <2>1. Before(t) \in SUBSET T!Slots
      BY DEF Before
    <2>2. IsFiniteSet(Before(t)) /\ Cardinality(Before(t)) \in Nat /\ Cardinality(Before(t)) <= MaxOpen
      BY <1>4, <2>1, FS_Subset, FS_CardinalityType
    <2> QED BY <2>2, WindowsAssumption
  <1> QED BY <1>1, <1>5, <1>6

\* What was flagged later does not take away what counts, and is in every window there is.
LEMMA OneMore ==
  ASSUME TimesOK, flagged' = Append(flagged, clock), NEW t \in Int, t <= clock
  PROVE  Cardinality(T!Since(t)') = Cardinality(T!Since(t)) + 1
  <1> DEFINE n == Len(flagged) + 1
  <1>1. /\ Len(flagged) \in Nat /\ DOMAIN flagged = 1..Len(flagged) /\ IsFiniteSet(T!Since(t))
        /\ clock \in Nat
    BY CountedSets, WindowsAssumption DEF TimesOK
  <1>2. /\ DOMAIN flagged' = 1..n /\ flagged'[n] = clock
        /\ \A i \in 1..Len(flagged) : flagged'[i] = flagged[i]
    BY <1>1 DEF TimesOK
  <1>3. T!Since(t)' = T!Since(t) \cup {n} /\ n \notin T!Since(t)
    <2>1. n \in 1..n /\ 1..n = (1..Len(flagged)) \cup {n} /\ n \notin 1..Len(flagged)
      BY <1>1
    <2> HIDE DEF n
    <2> QED BY <1>1, <1>2, <2>1 DEF T!Since
  <1> QED BY <1>1, <1>3, FS_AddElement

LEMMA Finished ==
  ASSUME TimesOK, NEW s \in T!Slots, open[s] # T!Free, open' = [open EXCEPT ![s] = T!Free],
         NEW t \in 0..MaxClock
  PROVE  Before(t)' = Before(t) \ {s} /\ Cardinality(Before(t)')
             = IF open[s] < t THEN Cardinality(Before(t)) - 1 ELSE Cardinality(Before(t))
  <1>1. \A r \in T!Slots : open[r] \in 0..T!Free /\ open'[r] = IF r = s THEN T!Free ELSE open[r]
    BY DEF TimesOK
  <1>2. T!Free > t
    BY WindowsAssumption DEF T!Free
  <1>3. T!Free \in Nat /\ t \in Nat /\ ~(T!Free < t)
    BY <1>2, WindowsAssumption DEF T!Free
  <1>4. Before(t)' = Before(t) \ {s}
    BY <1>1, <1>3 DEF Before, T!Slots
  <1>5. s \in Before(t) <=> open[s] < t
    BY DEF Before
  <1> QED BY <1>4, <1>5, CountedSets, FS_RemoveElement

LEMMA ThrottleInit == T!Init => ThrottleInv
  <1> SUFFICES ASSUME T!Init PROVE ThrottleInv
    OBVIOUS
  <1>1. /\ clock = 0 /\ bucket = [count |-> 0, resetAt |-> 0] /\ refused = FALSE
        /\ open = [s \in T!Slots |-> T!Free] /\ flagged = <<>> /\ DOMAIN flagged = {}
    BY DEF T!Init, T!NoBucket
  <1>2. flagged \in Seq(0..MaxClock) /\ T!Free \in 0..T!Free
    BY <1>1, WindowsAssumption DEF T!Free
  <1>3. TimesOK
    <2>1. bucket \in [count : Nat, resetAt : 0..(MaxClock + Window)]
      BY <1>1, WindowsAssumption
    <2>2. open \in [T!Slots -> 0..T!Free] /\ \A s \in T!Slots : open[s] = T!Free
      BY <1>1, <1>2
    <2>3. clock \in 0..MaxClock /\ \A i \in DOMAIN flagged : flagged[i] <= clock
      BY <1>1, WindowsAssumption
    <2> QED BY <1>1, <1>2, <2>1, <2>2, <2>3 DEF TimesOK
  <1>4. \A t \in 0..MaxClock : T!Since(t) = {} /\ Before(t) = {}
    BY <1>1, WindowsAssumption DEF T!Since, Before, T!Free, T!Slots
  <1>5. OldAreFew
    BY <1>4, FS_EmptySet, WindowsAssumption DEF OldAreFew
  <1>6. bucket.count = 0 /\ bucket.resetAt = 0
    BY <1>1
  <1>7. WindowOK /\ CountsMost
    BY <1>1, <1>6, WindowsAssumption DEF WindowOK, CountsMost
  <1> QED BY <1>1, <1>3, <1>5, <1>7 DEF ThrottleInv, T!RefusedForRecent

\* A flagged request finishes.
LEMMA FlaggedKeeps ==
  ASSUME ThrottleInv, NEW s \in T!Slots, open[s] # T!Free, open' = [open EXCEPT ![s] = T!Free],
         refused' = FALSE, clock' = clock, T!Counted(open[s]), flagged' = Append(flagged, clock)
  PROVE  ThrottleInv'
  <1> DEFINE came == open[s]
             fresh == bucket.count = 0 \/ bucket.resetAt <= came
  <1>1. /\ clock \in Nat /\ clock <= MaxClock /\ came \in Nat /\ came <= clock
        /\ bucket.count \in Nat /\ bucket.resetAt \in 0..(MaxClock + Window)
        /\ bucket.resetAt <= clock + Window /\ Window \in Nat /\ Window > 0
        /\ came \in 0..MaxClock
    <2>1. came \in 0..T!Free /\ came <= clock /\ clock \in 0..MaxClock
      BY DEF ThrottleInv, TimesOK
    <2> QED BY <2>1, WindowsAssumption DEF ThrottleInv, TimesOK, WindowOK, T!Free
  <1>2. /\ fresh => bucket' = [count |-> 1, resetAt |-> came + Window]
        /\ ~fresh => bucket' = [bucket EXCEPT !.count = bucket.count + 1]
    BY DEF T!Counted
  <1>3. /\ bucket' \in [count : Nat, resetAt : 0..(MaxClock + Window)]
        /\ fresh => bucket'.count = 1 /\ bucket'.resetAt = came + Window
        /\ ~fresh => bucket'.count = bucket.count + 1 /\ bucket'.resetAt = bucket.resetAt
    <2>1. CASE fresh
      <3>1. came + Window \in 0..(MaxClock + Window)
        BY <1>1, WindowsAssumption
      <3> QED BY <1>2, <2>1, <3>1
    <2>2. CASE ~fresh
      BY <1>1, <1>2, <2>2 DEF ThrottleInv, TimesOK
    <2> QED BY <2>1, <2>2
  <1>4. TimesOK'
    <2>1. flagged' \in Seq(0..MaxClock) /\ \A i \in DOMAIN flagged' : flagged'[i] <= clock
      BY <1>1, WindowsAssumption DEF ThrottleInv, TimesOK
    <2>2. open' \in [T!Slots -> 0..T!Free] /\ \A r \in T!Slots : open'[r] <= clock \/ open'[r] = T!Free
      <3>1. T!Free \in 0..T!Free
        BY WindowsAssumption DEF T!Free
      <3> QED BY <3>1 DEF ThrottleInv, TimesOK
    <2> QED BY <1>3, <2>1, <2>2 DEF ThrottleInv, TimesOK
  <1>5. TimesOK
    BY DEF ThrottleInv
  <1>6. \A t \in Int : Cardinality(T!Since(t)) \in Nat /\ Cardinality(Before(t)) \in Nat
    BY <1>5, CountedSets, WindowsAssumption
  <1>7. bucket'.resetAt >= Window /\ bucket'.count > 0 /\ bucket'.resetAt <= clock + Window
    <2>1. CASE fresh
      BY <1>1, <1>3, <2>1
    <2>2. CASE ~fresh
      BY <1>1, <1>3, <2>2 DEF ThrottleInv, WindowOK
    <2> QED BY <2>1, <2>2
  <1>8. PICK w : w = bucket'.resetAt - Window
    OBVIOUS
  <1>9. w \in Int /\ w <= clock /\ w >= 0
    BY <1>1, <1>3, <1>7, <1>8
  <1>10. Cardinality(T!Since(w)') = Cardinality(T!Since(w)) + 1
    BY <1>5, <1>9, OneMore
  <1>11. ASSUME fresh
         PROVE  Cardinality(T!Since(came)) + Cardinality(Before(came)) <= MaxOpen
    BY <1>1, <1>11 DEF ThrottleInv, OldAreFew
  <1>16. PICK c \in Nat : c = Cardinality(T!Since(w))
    BY <1>6, <1>9
  <1>12. /\ bucket'.count <= Cardinality(T!Since(w)')
         /\ bucket'.count >= Cardinality(T!Since(w)') - MaxOpen
    <2>1. CASE fresh
      <3>1. w = came
        BY <1>1, <1>3, <1>8, <2>1
      <3>2. c <= MaxOpen
        <4>1. PICK b \in Nat : b = Cardinality(Before(w))
          BY <1>6, <1>9
        <4>2. c + b <= MaxOpen
          BY <1>11, <1>16, <2>1, <3>1, <4>1
        <4> QED BY <1>16, <4>1, <4>2, WindowsAssumption
      <3>3. bucket'.count = 1
        BY <1>3, <2>1
      <3> QED BY <1>10, <1>16, <3>2, <3>3, WindowsAssumption
    <2>2. CASE ~fresh
      <3>1. w = bucket.resetAt - Window /\ bucket.count > 0
        BY <1>1, <1>3, <1>8, <2>2
      <3>2. /\ bucket.count <= Cardinality(T!Since(w))
            /\ bucket.count >= Cardinality(T!Since(w)) - MaxOpen
        BY <3>1 DEF ThrottleInv, WindowOK, CountsMost
      <3>3. bucket'.count = bucket.count + 1
        BY <1>3, <2>2
      <3> QED BY <1>1, <1>10, <1>16, <3>2, <3>3, WindowsAssumption
    <2> QED BY <2>1, <2>2
  <1>13. T!Since(bucket.resetAt - Window)' = T!Since(w)'
    BY <1>8 DEF T!Since
  <1>14. WindowOK' /\ CountsMost'
    BY <1>7, <1>12, <1>13 DEF WindowOK, CountsMost
  <1>15. OldAreFew'
    <2> SUFFICES ASSUME NEW t \in 0..MaxClock, t <= clock,
                        bucket'.count = 0 \/ bucket'.resetAt <= t
                 PROVE  Cardinality(T!Since(t)') + Cardinality(Before(t)') <= MaxOpen
      BY DEF OldAreFew
    <2>1. came < t /\ (bucket.count = 0 \/ bucket.resetAt <= t)
      <3>1. t \in Int /\ bucket'.resetAt <= t
        BY <1>1, <1>7, <1>3
      <3>2. CASE fresh
        BY <1>1, <1>3, <3>1, <3>2
      <3>3. CASE ~fresh
        BY <1>1, <1>3, <3>1, <3>3
      <3> QED BY <3>2, <3>3
    <2>2. Cardinality(T!Since(t)) + Cardinality(Before(t)) <= MaxOpen
      BY <2>1 DEF ThrottleInv, OldAreFew
    <2>3. Cardinality(T!Since(t)') = Cardinality(T!Since(t)) + 1
      BY <1>5, OneMore
    <2>4. Cardinality(Before(t)') = Cardinality(Before(t)) - 1
      BY <1>5, <2>1, Finished
    <2>5. t \in Int
      OBVIOUS
    <2>6. Cardinality(T!Since(t)) \in Nat /\ Cardinality(Before(t)) \in Nat
      BY <1>6, <2>5
    <2> QED BY <2>2, <2>3, <2>4, <2>6, WindowsAssumption
  <1> QED BY <1>4, <1>14, <1>15 DEF ThrottleInv, T!RefusedForRecent

LEMMA ThrottleKeeps == ThrottleInv /\ [T!ThrottleNext]_throttleVars => ThrottleInv'
  <1> SUFFICES ASSUME ThrottleInv, [T!ThrottleNext]_throttleVars PROVE ThrottleInv'
    OBVIOUS
  <1>0. TimesOK /\ WindowOK /\ OldAreFew /\ CountsMost
    BY DEF ThrottleInv
  <1>1. ASSUME UNCHANGED <<clock, bucket, flagged>>, TimesOK',
               \A t \in 0..MaxClock : t <= clock => Before(t)' \in SUBSET Before(t),
               T!RefusedForRecent'
        PROVE  ThrottleInv'
    <2>1. WindowOK' /\ CountsMost'
      BY <1>0, <1>1 DEF WindowOK, CountsMost, T!Since
    <2>2. OldAreFew'
      <3> SUFFICES ASSUME NEW t \in 0..MaxClock, t <= clock, bucket.count = 0 \/ bucket.resetAt <= t
                   PROVE  Cardinality(T!Since(t)') + Cardinality(Before(t)') <= MaxOpen
        BY <1>1 DEF OldAreFew
      <3>1. Cardinality(T!Since(t)) + Cardinality(Before(t)) <= MaxOpen
        BY <1>0 DEF OldAreFew
      <3>2. T!Since(t)' = T!Since(t)
        BY <1>1 DEF T!Since
      <3>3. PICK a \in Nat : a = Cardinality(T!Since(t))
        BY <1>0, CountedSets
      <3>4. PICK b \in Nat : b = Cardinality(Before(t))
        BY <1>0, CountedSets, WindowsAssumption
      <3>5. PICK c \in Nat : c = Cardinality(Before(t)')
        <4>1. IsFiniteSet(Before(t)')
          BY <1>0, <1>1, CountedSets, FS_Subset
        <4> QED BY <4>1, FS_CardinalityType
      <3>6. c <= b /\ a + b <= MaxOpen
        <4>1. c <= b
          BY <1>0, <1>1, <3>4, <3>5, CountedSets, FS_Subset
        <4> QED BY <3>1, <3>3, <3>4, <4>1
      <3> QED BY <3>2, <3>3, <3>5, <3>6, WindowsAssumption
    <2> QED BY <1>1, <2>1, <2>2 DEF ThrottleInv
  <1>2. CASE UNCHANGED throttleVars
    <2>1. TimesOK' /\ T!RefusedForRecent'
      BY <1>2 DEF throttleVars, ThrottleInv, TimesOK, T!RefusedForRecent
    <2>2. WindowOK' /\ CountsMost' /\ OldAreFew'
      BY <1>0, <1>2 DEF throttleVars, WindowOK, CountsMost, OldAreFew, T!Since, Before
    <2> QED BY <2>1, <2>2 DEF ThrottleInv
  <1>3. ASSUME NEW s \in T!Slots, T!Arrive(s)
        PROVE  ThrottleInv'
    <2>1. UNCHANGED <<clock, bucket, flagged>> /\ refused' = T!Throttled
          /\ open' \in {open, [open EXCEPT ![s] = clock]} /\ open[s] = T!Free
      BY <1>3 DEF T!Arrive
    <2>2. clock \in 0..T!Free /\ clock \in 0..MaxClock /\ open \in [T!Slots -> 0..T!Free]
      BY <1>0, WindowsAssumption DEF TimesOK, T!Free
    <2>3. refused' \in BOOLEAN
      BY <2>1, Zenon DEF T!Throttled
    <2>4. open' \in [T!Slots -> 0..T!Free] /\ \A r \in T!Slots : open'[r] = open[r] \/ open'[r] = clock
      BY <2>1, <2>2
    <2>5. TimesOK'
      BY <1>0, <2>1, <2>2, <2>3, <2>4 DEF TimesOK
    <2>6. ASSUME NEW t \in 0..MaxClock, t <= clock
          PROVE  Before(t)' \in SUBSET Before(t)
      BY <2>2, <2>4, <2>6 DEF Before, T!Slots
    <2>7. T!RefusedForRecent'
      <3> SUFFICES ASSUME T!Throttled
                   PROVE  Cardinality({i \in DOMAIN flagged : flagged[i] + Window > clock}) >= MaxFlagged
        BY <2>1, SameCount DEF T!RefusedForRecent
      <3> DEFINE w == bucket.resetAt - Window
                 recent == {i \in DOMAIN flagged : flagged[i] + Window > clock}
      <3>1. bucket.resetAt > clock /\ bucket.count >= MaxFlagged /\ bucket.count \in Nat
            /\ bucket.resetAt \in 0..(MaxClock + Window)
        BY <1>0 DEF T!Throttled, TimesOK
      <3>2. bucket.count > 0
        BY <3>1, WindowsAssumption
      <3>3. bucket.count <= Cardinality(T!Since(w))
        BY <1>0, <3>2 DEF WindowOK
      <3>4. T!Since(w) \in SUBSET recent
        <4>1. \A i \in DOMAIN flagged : flagged[i] \in Nat
          BY <1>0, CountedSets
        <4> QED BY <2>2, <3>1, <4>1, WindowsAssumption DEF T!Since
      <3>5. IsFiniteSet(recent)
        <4>1. Len(flagged) \in Int /\ 1 \in Int /\ DOMAIN flagged = 1..Len(flagged)
          BY <1>0, CountedSets
        <4>2. IsFiniteSet(1..Len(flagged))
          BY <4>1, FS_Interval, Zenon
        <4>3. recent \in SUBSET (1..Len(flagged))
          BY <4>1
        <4> QED BY <4>2, <4>3, FS_Subset
      <3>6. PICK a \in Nat : a = Cardinality(T!Since(w))
        BY <1>0, CountedSets
      <3>7. PICK b \in Nat : b = Cardinality(recent)
        BY <3>5, FS_CardinalityType
      <3>8. a <= b
        BY <3>4, <3>5, <3>6, <3>7, FS_Subset
      <3> QED BY <3>1, <3>3, <3>6, <3>7, <3>8, WindowsAssumption
    <2> QED BY <1>1, <2>1, <2>5, <2>6, <2>7
  <1>4. ASSUME NEW s \in T!Slots, T!Finish(s)
        PROVE  ThrottleInv'
    <2>1. CASE T!Counted(open[s]) /\ flagged' = Append(flagged, clock)
      BY <1>4, <2>1, FlaggedKeeps DEF T!Finish
    <2>2. CASE UNCHANGED <<bucket, flagged>>
      <3>1. /\ UNCHANGED <<clock, bucket, flagged>> /\ refused' = FALSE
            /\ open' = [open EXCEPT ![s] = T!Free] /\ open[s] # T!Free
        BY <1>4, <2>2 DEF T!Finish
      <3>2. T!Free \in 0..T!Free
        BY WindowsAssumption DEF T!Free
      <3>3. TimesOK'
        BY <1>0, <3>1, <3>2 DEF TimesOK
      <3>4. ASSUME NEW t \in 0..MaxClock
            PROVE  Before(t)' \in SUBSET Before(t)
        <4>1. Before(t)' = Before(t) \ {s}
          BY <1>0, <3>1, Finished
        <4> QED BY <4>1
      <3> QED BY <1>1, <3>1, <3>3, <3>4 DEF T!RefusedForRecent
    <2> QED BY <1>4, <2>1, <2>2 DEF T!Finish
  <1>5. CASE T!Tick
    <2>1. /\ clock < MaxClock /\ clock' = clock + 1 /\ refused' = FALSE
          /\ UNCHANGED <<bucket, open, flagged>> /\ clock \in 0..MaxClock
      BY <1>0, <1>5 DEF T!Tick, TimesOK
    <2>2. clock' \in 0..MaxClock /\ clock' > clock /\ clock \in Nat
      BY <2>1, WindowsAssumption
    <2>3. /\ \A i \in DOMAIN flagged : flagged[i] \in Nat /\ flagged[i] < clock'
          /\ \A r \in T!Slots : open[r] \in Nat /\ (open[r] <= clock' \/ open[r] = T!Free)
      BY <1>0, <2>1, <2>2, CountedSets DEF TimesOK
    <2>4. TimesOK'
      <3>1. \A i \in DOMAIN flagged : flagged[i] <= clock'
        BY <2>2, <2>3
      <3>2. refused' \in BOOLEAN
        BY <2>1
      <3> QED BY <1>0, <2>1, <2>2, <2>3, <3>1, <3>2 DEF TimesOK
    <2>5. WindowOK' /\ CountsMost'
      <3>1. bucket.resetAt \in Nat
        BY <1>0, WindowsAssumption DEF TimesOK
      <3>2. bucket.resetAt <= clock' + Window
        BY <1>0, <2>1, <2>2, <3>1, WindowsAssumption DEF WindowOK
      <3> QED BY <1>0, <2>1, <3>2 DEF WindowOK, CountsMost, T!Since
    <2>6. OldAreFew'
      <3> SUFFICES ASSUME NEW t \in 0..MaxClock, t <= clock', bucket.count = 0 \/ bucket.resetAt <= t
                   PROVE  Cardinality(T!Since(t)) + Cardinality(Before(t)) <= MaxOpen
        BY <2>1 DEF OldAreFew, T!Since, Before
      <3>1. CASE t <= clock
        BY <1>0, <3>1 DEF OldAreFew
      <3>2. CASE t = clock + 1
        <4>1. T!Since(t) = {}
          BY <2>1, <2>2, <2>3, <3>2 DEF T!Since
        <4>2. Cardinality(Before(t)) \in 0..MaxOpen
          BY <1>0, CountedSets
        <4> QED BY <4>1, <4>2, FS_EmptySet, WindowsAssumption
      <3> QED BY <2>1, <2>2, <3>1, <3>2
    <2> QED BY <2>1, <2>4, <2>5, <2>6 DEF ThrottleInv, T!RefusedForRecent
  <1> QED BY <1>2, <1>3, <1>4, <1>5 DEF T!ThrottleNext

LEMMA ThrottleIsSound == ThrottleInv => T!ThrottleSound
  <1> SUFFICES ASSUME ThrottleInv PROVE T!ThrottleSound
    OBVIOUS
  <1>1. T!ThrottleTypeOK
    BY DEF ThrottleInv, TimesOK, T!ThrottleTypeOK
  <1>2. T!OffendersWait
    BY SameCount DEF ThrottleInv, CountsMost, T!OffendersWait
  <1> QED BY <1>1, <1>2 DEF T!ThrottleSound, ThrottleInv

-------------------------------------------------------------------------------
(* Amounts: digits, read from the first, and the powers of ten. *)
LEMMA LeastOf == ASSUME NEW Some \in SUBSET Nat, Some # {}
                 PROVE  \E m \in Some : \A n \in Some : m <= n
  <1>1. IsWellFoundedOn(OpToRel(<, Nat), Nat)
    BY NatLessThanWellFounded, Zenon
  <1>2. PICK m \in Some : \A n \in Some : ~(<<n, m>> \in OpToRel(<, Nat))
    BY <1>1, WFMin, Zenon
  <1>3. ASSUME NEW n \in Some PROVE m <= n
    <2>1. ~(n < m)
      BY <1>2, Zenon DEF OpToRel
    <2> QED BY <2>1
  <1> QED BY <1>3

LEMMA GreatestOf ==
  ASSUME NEW n \in Nat, NEW s \in SUBSET (1..n), s # {}
  PROVE  /\ A!Max(s) \in s /\ \A x \in s : x <= A!Max(s)
         /\ s \ {A!Max(s)} \in SUBSET (1..n - 1)
  <1> DEFINE Below == {n - x : x \in s}
  <1>0. \A x \in s : x \in 1..n /\ x \in Int /\ n - x \in Nat
    OBVIOUS
  <1>1. PICK m \in Below : \A y \in Below : m <= y
    <2>1. Below \in SUBSET Nat
      BY <1>0
    <2>2. Below # {}
      OBVIOUS
    <2> HIDE DEF Below
    <2> QED BY <2>1, <2>2, LeastOf
  <1>2. PICK l \in s : m = n - l
    OBVIOUS
  <1>3. \A x \in s : l >= x
    <2> TAKE x \in s
    <2>1. m <= n - x
      BY <1>1
    <2> QED BY <1>0, <1>2, <2>1
  <1> HIDE DEF Below
  <1>4. A!Max(s) \in s /\ \A x \in s : A!Max(s) >= x
    BY <1>3 DEF A!Max
  <1>5. \A x \in s : x <= A!Max(s)
    BY <1>0, <1>4
  <1>6. \A x \in s \ {A!Max(s)} : x \in 1..n - 1
    <2> DEFINE top == A!Max(s)
    <2> SUFFICES ASSUME NEW x \in s, x # top PROVE x \in 1..n - 1
      OBVIOUS
    <2>1. x \in 1..n /\ top \in 1..n /\ x <= top /\ n \in Nat
      BY <1>0, <1>4, <1>5
    <2> HIDE DEF top
    <2> QED BY <2>1
  <1> QED BY <1>4, <1>5, <1>6

\* What a number is by the digits from the first, and the fold of the community modules.
Reads(g, h, d) ==
    g \in [0..d -> Nat] /\ g[0] = 0 /\ \A j \in 1..d : g[j] = 10 * g[j - 1] + h[j]
Folds10(it, h, s) ==
    it[s] = IF s = {} THEN 0 ELSE 10 * it[s \ {A!Max(s)}] + h[A!Max(s)]

LEMMA FoldExists ==
  ASSUME NEW k \in Nat, NEW h, \A x \in 1..k : h[x] \in 0..9
  PROVE  \E it \in [SUBSET (1..k) -> Nat] : \A s \in SUBSET (1..k) : Folds10(it, h, s)
  <1> DEFINE Good(n) == \E it \in [SUBSET (1..n) -> Nat] :
                            \A s \in SUBSET (1..n) : Folds10(it, h, s)
             Bad == {n \in 0..k : ~Good(n)}
  <1> SUFFICES ASSUME ~Good(k) PROVE FALSE
    OBVIOUS
  <1>0. Bad # {}
    <2>1. k \in 0..k
      OBVIOUS
    <2> HIDE DEF Good
    <2> QED BY <2>1
  <1>1. PICK m \in Bad : \A n \in Bad : m <= n
    <2>1. Bad \in SUBSET Nat
      OBVIOUS
    <2> HIDE DEF Bad
    <2> QED BY <1>0, <2>1, LeastOf
  <1>2. m \in 0..k /\ ~Good(m)
    OBVIOUS
  <1>3. m # 0
    <2> SUFFICES ASSUME m = 0 PROVE FALSE
      OBVIOUS
    <2> DEFINE it == [s \in SUBSET (1..0) |-> 0]
    <2>1. it \in [SUBSET (1..0) -> Nat] /\ \A s \in SUBSET (1..0) : s = {} /\ it[s] = 0
      OBVIOUS
    <2> HIDE DEF it
    <2>2. \A s \in SUBSET (1..0) : Folds10(it, h, s)
      BY <2>1 DEF Folds10
    <2> QED BY <1>2, <2>1, <2>2
  <1>4. m - 1 \in 0..k /\ Good(m - 1)
    <2>1. m - 1 \in 0..k /\ ~(m <= m - 1)
      BY <1>2, <1>3
    <2>2. m - 1 \notin Bad
      BY <1>1, <2>1
    <2> QED BY <2>1, <2>2
  <1>5. PICK prev \in [SUBSET (1..m - 1) -> Nat] :
               \A s \in SUBSET (1..m - 1) : Folds10(prev, h, s)
    BY <1>4
  <1> DEFINE it == [s \in SUBSET (1..m) |->
                       IF s = {} THEN 0 ELSE 10 * prev[s \ {A!Max(s)}] + h[A!Max(s)]]
  <1>6. \A s \in SUBSET (1..m) :
           s # {} => /\ A!Max(s) \in 1..m /\ h[A!Max(s)] \in 0..9
                     /\ s \ {A!Max(s)} \in SUBSET (1..m - 1)
    <2> SUFFICES ASSUME NEW s \in SUBSET (1..m), s # {}
                 PROVE  /\ A!Max(s) \in 1..m /\ h[A!Max(s)] \in 0..9
                        /\ s \ {A!Max(s)} \in SUBSET (1..m - 1)
      OBVIOUS
    <2>1. m \in Nat /\ \A x \in 1..m : x \in 1..k
      BY <1>2
    <2>2. A!Max(s) \in s /\ s \ {A!Max(s)} \in SUBSET (1..m - 1)
      BY <2>1, GreatestOf
    <2> QED BY <2>1, <2>2
  <1>7. it \in [SUBSET (1..m) -> Nat]
    <2>1. \A s \in SUBSET (1..m) : s # {} => prev[s \ {A!Max(s)}] \in Nat
      BY <1>5, <1>6
    <2> QED BY <1>6, <2>1
  <1>8. \A s \in SUBSET (1..m - 1) : s \in SUBSET (1..m) /\ it[s] = prev[s]
    <2> TAKE s \in SUBSET (1..m - 1)
    <2>1. s \in SUBSET (1..m)
      BY <1>2
    <2>2. Folds10(prev, h, s)
      BY <1>5
    <2> QED BY <2>1, <2>2 DEF Folds10
  <1>9. \A s \in SUBSET (1..m) : Folds10(it, h, s)
    <2> TAKE s \in SUBSET (1..m)
    <2>1. it[s] = IF s = {} THEN 0 ELSE 10 * prev[s \ {A!Max(s)}] + h[A!Max(s)]
      OBVIOUS
    <2>2. s # {} => it[s \ {A!Max(s)}] = prev[s \ {A!Max(s)}]
      BY <1>6, <1>8
    <2> HIDE DEF it
    <2> QED BY <2>1, <2>2 DEF Folds10
  <1> HIDE DEF it
  <1> QED BY <1>2, <1>7, <1>9

\* The number of digits is what they read as.
LEMMA NumberReads ==
  ASSUME NEW s \in Seq(0..9)
  PROVE  \E g : Reads(g, s, Len(s)) /\ A!Number(s) = g[Len(s)]
  <1> DEFINE k == Len(s)
             Rule(it) == [S \in SUBSET (1..k) |-> IF S = {} THEN 0
                          ELSE 10 * it[S \ {A!Max(S)}] + s[A!Max(S)]]
             fold == CHOOSE it : it = Rule(it)
             g == [j \in 0..k |-> fold[1..j]]
  <1>0. k \in Nat /\ DOMAIN s = 1..k /\ \A x \in 1..k : s[x] \in 0..9
    OBVIOUS
  <1>1. A!Number(s) = fold[1..k]
    BY <1>0 DEF A!Number, A!FoldLeft, A!MapThenFoldSet
  <1> HIDE DEF k
  <1>2. PICK it \in [SUBSET (1..k) -> Nat] : \A S \in SUBSET (1..k) : Folds10(it, s, S)
    BY <1>0, FoldExists
  <1>3. it = Rule(it)
    BY <1>2 DEF Folds10
  <1>4. fold = Rule(fold)
    BY <1>3
  <1> HIDE DEF fold
  <1>5. \A j \in 1..k : A!Max(1..j) = j /\ (1..j) \ {j} = 1..j - 1 /\ 1..j \in SUBSET (1..k)
    <2> TAKE j \in 1..k
    <2> DEFINE S == 1..j
    <2>1. j \in Nat /\ j \in S /\ S # {} /\ S \in SUBSET (1..j) /\ S \in SUBSET (1..k)
      <3>1. j \in Nat /\ j <= k /\ 1 <= j
        BY <1>0
      <3>2. \A x \in 1..j : x \in 1..k
        BY <1>0, <3>1
      <3>3. S \in SUBSET (1..k)
        BY <3>2, Zenon
      <3>4. j \in S
        BY <3>1
      <3> HIDE DEF S
      <3> QED BY <3>1, <3>3, <3>4, Zenon DEF S
    <2>2. A!Max(S) \in S /\ j <= A!Max(S)
      <3> HIDE DEF S
      <3> QED BY <2>1, GreatestOf
    <2>3. A!Max(S) = j
      <3> DEFINE m == A!Max(S)
      <3>1. m \in 1..j /\ j <= m
        BY <2>2
      <3> HIDE DEF m
      <3>2. m = j
        BY <2>1, <3>1
      <3> QED BY <3>2 DEF m
    <2>4. (1..j) \ {j} = 1..j - 1
      BY <2>1
    <2> QED BY <2>1, <2>3, <2>4
  <1>6. fold[1..0] = 0
    <2>1. 1..0 = {} /\ 1..0 \in SUBSET (1..k)
      OBVIOUS
    <2> QED BY <1>4, <2>1
  <1>7. \A j \in 1..k : fold[1..j] = 10 * fold[1..j - 1] + s[j]
    <2> TAKE j \in 1..k
    <2>1. 1..j # {}
      OBVIOUS
    <2>2. fold[1..j] = 10 * fold[(1..j) \ {A!Max(1..j)}] + s[A!Max(1..j)]
      BY <1>4, <1>5, <2>1
    <2> QED BY <1>5, <2>2
  <1>8. \A j \in 0..k : fold[1..j] \in Nat
    <2> DEFINE Bad == {j \in 0..k : fold[1..j] \notin Nat}
    <2> SUFFICES ASSUME Bad # {} PROVE FALSE
      OBVIOUS
    <2>1. PICK m \in Bad : \A n \in Bad : m <= n
      <3>1. Bad \in SUBSET Nat
        OBVIOUS
      <3> HIDE DEF Bad
      <3> QED BY <3>1, LeastOf
    <2>2. m \in 1..k /\ m - 1 \in 0..k /\ ~(m <= m - 1)
      BY <1>0, <1>6
    <2>3. fold[1..m - 1] \in Nat
      BY <2>1, <2>2
    <2>4. s[m] \in Nat /\ fold[1..m] = 10 * fold[1..m - 1] + s[m]
      <3>1. s[m] \in 0..9
        BY <1>0, <2>2
      <3> HIDE DEF Bad
      <3> QED BY <1>7, <2>2, <3>1, Z3
    <2>5. fold[1..m] \in Nat
      BY <2>3, <2>4
    <2> QED BY <2>5
  <1>9. Reads(g, s, k)
    <2>1. g \in [0..k -> Nat]
      BY <1>8
    <2>2. \A j \in 0..k : g[j] = fold[1..j]
      OBVIOUS
    <2>3. \A j \in 1..k : j \in 0..k /\ j - 1 \in 0..k
      BY <1>0
    <2> HIDE DEF g
    <2>4. g[0] = 0
      BY <1>0, <1>6, <2>2
    <2>5. \A j \in 1..k : g[j] = 10 * g[j - 1] + s[j]
      BY <1>7, <2>2, <2>3
    <2> QED BY <2>1, <2>4, <2>5 DEF Reads
  <1>10. A!Number(s) = g[k]
    BY <1>0, <1>1
  <1> HIDE DEF g
  <1> QED BY <1>9, <1>10 DEF k

\* Equal digits read alike.
LEMMA SameDigits ==
  ASSUME NEW d \in Nat, NEW e \in Nat, NEW g, NEW h, NEW f, NEW i,
         Reads(g, h, d), Reads(f, i, e),
         NEW k \in Nat, k <= d, k <= e, \A x \in 1..k : h[x] = i[x]
  PROVE  g[k] = f[k]
  <1> DEFINE Bad == {j \in 0..k : g[j] # f[j]}
  <1> SUFFICES ASSUME g[k] # f[k] PROVE FALSE
    OBVIOUS
  <1>1. PICK m \in Bad : \A n \in Bad : m <= n
    <2>1. Bad \in SUBSET Nat
      OBVIOUS
    <2>2. Bad # {}
      OBVIOUS
    <2> HIDE DEF Bad
    <2> QED BY <2>1, <2>2, LeastOf
  <1>2. m \in 0..k /\ g[m] # f[m] /\ m # 0
    BY DEF Reads
  <1>3. m \in 1..k /\ m \in 1..d /\ m \in 1..e /\ m - 1 \in 0..k /\ ~(m <= m - 1)
    BY <1>2
  <1>4. g[m - 1] = f[m - 1]
    BY <1>1, <1>3
  <1> QED BY <1>2, <1>3, <1>4 DEF Reads

\* The powers of ten, as the module takes them.
Ten(k) == IF k > 9 THEN 10^9 * 10^(k - 9) ELSE 10^k

LEMMA Powers ==
  /\ 10^0 = 1 /\ 10^1 = 10 /\ 10^2 = 100 /\ 10^3 = 1000 /\ 10^4 = 10000 /\ 10^5 = 100000
  /\ 10^6 = 1000000 /\ 10^7 = 10000000 /\ 10^8 = 100000000 /\ 10^9 = 1000000000
  OBVIOUS

LEMMA SmallPower ==
  ASSUME NEW n \in 0..9
  PROVE  10^n \in Nat \ {0} /\ (n # 0 => 10^n = 10 * 10^(n - 1))
  <1>0. CASE n = 0
    BY <1>0, Powers
  <1>1. CASE n = 1
    <2>1. n - 1 = 0
      BY <1>1
    <2> QED BY <1>1, <2>1, Powers
  <1>2. CASE n = 2
    <2>1. n - 1 = 1
      BY <1>2
    <2> QED BY <1>2, <2>1, Powers
  <1>3. CASE n = 3
    <2>1. n - 1 = 2
      BY <1>3
    <2> QED BY <1>3, <2>1, Powers
  <1>4. CASE n = 4
    <2>1. n - 1 = 3
      BY <1>4
    <2> QED BY <1>4, <2>1, Powers
  <1>5. CASE n = 5
    <2>1. n - 1 = 4
      BY <1>5
    <2> QED BY <1>5, <2>1, Powers
  <1>6. CASE n = 6
    <2>1. n - 1 = 5
      BY <1>6
    <2> QED BY <1>6, <2>1, Powers
  <1>7. CASE n = 7
    <2>1. n - 1 = 6
      BY <1>7
    <2> QED BY <1>7, <2>1, Powers
  <1>8. CASE n = 8
    <2>1. n - 1 = 7
      BY <1>8
    <2> QED BY <1>8, <2>1, Powers
  <1>9. CASE n = 9
    <2>1. n - 1 = 8
      BY <1>9
    <2> QED BY <1>9, <2>1, Powers
  <1> QED BY <1>0, <1>1, <1>2, <1>3, <1>4, <1>5, <1>6, <1>7, <1>8, <1>9

LEMMA PowerFacts ==
  ASSUME NEW n \in 0..18
  PROVE  Ten(n) \in Nat \ {0} /\ Ten(0) = 1 /\ (n # 0 => Ten(n) = 10 * Ten(n - 1))
  <1>0. Ten(0) = 1
    BY Powers DEF Ten
  <1>1. CASE n <= 9
    <2>1. n \in 0..9 /\ ~(n > 9) /\ ~(n - 1 > 9)
      BY <1>1
    <2> QED BY <1>0, <2>1, SmallPower DEF Ten
  <1>2. CASE n = 10
    <2>1. n > 9 /\ n - 9 = 1 /\ n - 1 = 9 /\ ~(9 > 9)
      BY <1>2
    <2> QED BY <1>0, <2>1, Powers DEF Ten
  <1>3. CASE n > 10
    <2> DEFINE a == 10^9
               b == 10^(n - 9)
               c == 10^(n - 9 - 1)
    <2>1. n - 9 \in 0..9 /\ n - 9 # 0 /\ n - 9 - 1 \in 0..9 /\ n - 1 - 9 = n - 9 - 1
          /\ n > 9 /\ n - 1 > 9
      BY <1>3
    <2>2. b \in Nat \ {0} /\ c \in Nat \ {0} /\ b = 10 * c /\ a \in Nat \ {0}
      <3>1. a \in Nat \ {0}
        BY Powers
      <3> HIDE DEF a
      <3> QED BY <2>1, <3>1, SmallPower
    <2>3. Ten(n) = a * b /\ Ten(n - 1) = a * c
      BY <2>1 DEF Ten
    <2> HIDE DEF a, b, c
    <2>4. a * c \in Nat \ {0} /\ a * (10 * c) = 10 * (a * c)
      BY <2>2
    <2> QED BY <1>0, <2>2, <2>3, <2>4
  <1> QED BY <1>1, <1>2, <1>3

LEMMA Remainder ==
  ASSUME NEW y \in Nat \ {0}, NEW z \in Nat
  PROVE  z \div y \in Nat /\ z % y \in 0..y - 1 /\ z = (z \div y) * y + (z % y)
  OBVIOUS

LEMMA Multiples ==
  ASSUME NEW y \in Nat \ {0}, NEW a \in Nat, NEW b \in Nat
  PROVE  /\ a * y \in Nat /\ (a + 1) * y = a * y + y
         /\ a < b => (a + 1) * y <= b * y
  OBVIOUS

LEMMA DividedBy ==
  ASSUME NEW y \in Nat \ {0}, NEW z \in Nat, NEW q \in Nat, q * y <= z, z < (q + 1) * y
  PROVE  z \div y = q
  <1> DEFINE k == z \div y
             r == z % y
  <1>1. k \in Nat /\ r \in 0..y - 1 /\ z = k * y + r
    BY Remainder
  <1> HIDE DEF k, r
  <1>2. k * y \in Nat /\ (k + 1) * y = k * y + y /\ q * y \in Nat /\ (q + 1) * y = q * y + y
    BY <1>1, Multiples
  <1>3. ~(k < q)
    BY <1>1, <1>2, Multiples
  <1>4. ~(q < k)
    BY <1>1, <1>2, Multiples
  <1>5. k = q
    BY <1>1, <1>3, <1>4
  <1> QED BY <1>5 DEF k

\* Dividing by two numbers in turn, and what that leaves.
Twice(x, y, z) ==
    /\ z \div x \in Nat /\ z \div (x * y) \in Nat
    /\ (z \div x) \div y = z \div (x * y)
    /\ ((z \div x) % y) * x + (z % x) = z % (x * y)
    /\ z \div x = y * (z \div (x * y)) + ((z \div x) % y)
LEMMA DividedTwice ==
  ASSUME NEW x \in Nat \ {0}, NEW y \in Nat \ {0}, NEW z \in Nat
  PROVE  Twice(x, y, z)
  <1> DEFINE q == z \div x
             r == z % x
             k == q \div y
             l == q % y
             w == x * y
             t == z % w
  <1>1. q \in Nat /\ r \in 0..x - 1 /\ z = q * x + r
    BY Remainder
  <1> HIDE DEF q, r
  <1>2. k \in Nat /\ l \in 0..y - 1 /\ q = k * y + l
    BY <1>1, Remainder
  <1> HIDE DEF k, l
  <1>3. w \in Nat \ {0}
    OBVIOUS
  <1>4. q * x = k * w + l * x /\ k * w \in Nat /\ l * x \in Nat /\ (k + 1) * w = k * w + w
    <2>1. (k * y + l) * x = k * (x * y) + l * x
      BY <1>2
    <2> QED BY <1>2, <1>3, <2>1
  <1>5. l * x + x <= w
    <2>1. l \in Nat /\ l < y
      BY <1>2
    <2>2. (l + 1) * x <= y * x /\ (l + 1) * x = l * x + x
      BY <2>1, Multiples
    <2>3. y * x = x * y
      OBVIOUS
    <2> QED BY <2>2, <2>3
  <1> HIDE DEF w
  <1>6. k * w <= z /\ z < (k + 1) * w
    BY <1>1, <1>2, <1>3, <1>4, <1>5
  <1>7. z \div w = k
    BY <1>2, <1>3, <1>6, DividedBy
  <1>8. t \in 0..w - 1 /\ z = k * w + t
    BY <1>3, <1>7, Remainder
  <1> HIDE DEF t
  <1>9. l * x + r = t
    BY <1>1, <1>2, <1>3, <1>4, <1>8
  <1>10. q = y * k + l
    BY <1>2
  <1> QED BY <1>1, <1>2, <1>3, <1>7, <1>9, <1>10 DEF k, l, q, r, w, t, Twice

\* The module's steps are the arithmetic they stand for.
LEMMA StepsAre ==
  ASSUME NEW z \in Nat, NEW k \in 0..18
  PROVE  /\ A!Scaled(z, k) = z * Ten(k) /\ A!Above(z, k) = z \div Ten(k)
         /\ A!Below(z, k) = z % Ten(k)
  <1>1. CASE k > 9
    <2> DEFINE a == 10^9
               b == 10^(k - 9)
    <2>1. a \in Nat \ {0} /\ b \in Nat \ {0}
      <3>1. k - 9 \in 0..9 /\ 9 \in 0..9
        BY <1>1
      <3> QED BY <3>1, SmallPower
    <2>2. Ten(k) = a * b /\ A!Scaled(z, k) = z * a * b /\ A!Above(z, k) = (z \div a) \div b
          /\ A!Below(z, k) = ((z \div a) % b) * a + (z % a)
      BY <1>1 DEF Ten, A!Scaled, A!Above, A!Below
    <2> HIDE DEF a, b
    <2>3. z * a * b = z * (a * b)
      BY <2>1
    <2>4. Twice(a, b, z)
      BY <2>1, DividedTwice
    <2> QED BY <2>2, <2>3, <2>4 DEF Twice
  <1>2. CASE ~(k > 9)
    BY <1>2 DEF Ten, A!Scaled, A!Above, A!Below
  <1> QED BY <1>1, <1>2

\* The first digits, moved left by the number of those that follow.
LEMMA Shifted ==
  ASSUME NEW d \in 0..18, NEW g, NEW h, Reads(g, h, d), \A x \in 1..d : h[x] \in 0..9,
         NEW i \in 0..d
  PROVE  /\ g[i] \in Nat /\ g[d] \in Nat
         /\ g[i] * Ten(d - i) <= g[d] /\ g[d] < (g[i] + 1) * Ten(d - i)
         /\ (\A x \in 1..d : x > i => h[x] = 0) => g[d] = g[i] * Ten(d - i)
  <1> DEFINE Zero == \A x \in 1..d : x > i => h[x] = 0
             Good(j) == /\ g[i] * Ten(j - i) <= g[j] /\ g[j] < (g[i] + 1) * Ten(j - i)
                        /\ Zero => g[j] = g[i] * Ten(j - i)
             Bad == {j \in i..d : ~Good(j)}
  <1>0. \A j \in 0..d : g[j] \in Nat
    BY DEF Reads
  <1> SUFFICES ASSUME ~Good(d) PROVE FALSE
    BY <1>0
  <1>1. PICK m \in Bad : \A n \in Bad : m <= n
    <2>1. Bad \in SUBSET Nat
      OBVIOUS
    <2>2. d \in i..d
      OBVIOUS
    <2>3. Bad # {}
      <3> HIDE DEF Good
      <3> QED BY <2>2
    <2> HIDE DEF Bad
    <2> QED BY <2>1, <2>3, LeastOf
  <1>2. m \in i..d /\ ~Good(m)
    OBVIOUS
  <1>3. Good(i)
    <2>1. i - i = 0 /\ g[i] \in Nat
      BY <1>0
    <2>2. Ten(i - i) = 1
      BY <2>1, PowerFacts
    <2> HIDE DEF Zero
    <2> QED BY <2>1, <2>2
  <1>4. m # i
    BY <1>2, <1>3
  <1>5. m \in 1..d /\ m - 1 \in i..d /\ ~(m <= m - 1) /\ m - i \in 1..18 /\ m - 1 - i = (m - i) - 1
    BY <1>2, <1>4
  <1>6. Good(m - 1)
    <2> HIDE DEF Good
    <2> QED BY <1>1, <1>5
  <1> DEFINE y == Ten((m - i) - 1)
             G == g[m - 1]
  <1>7. y \in Nat /\ Ten(m - i) = 10 * y
    <2>1. m - i \in 0..18 /\ m - i # 0 /\ (m - i) - 1 \in 0..18
      BY <1>5
    <2> QED BY <2>1, PowerFacts
  <1>8. g[m] = 10 * G + h[m] /\ h[m] \in 0..9 /\ G \in Nat /\ (Zero => h[m] = 0)
    <2>1. m > i /\ m - 1 \in 0..d
      BY <1>5
    <2> QED BY <1>0, <1>5, <2>1 DEF Reads
  <1>9. g[i] * y <= G /\ G < (g[i] + 1) * y /\ (Zero => G = g[i] * y)
    <2> HIDE DEF Zero, y, G
    <2> QED BY <1>5, <1>6 DEF y, G
  <1> HIDE DEF Zero, y, G
  <1>10. g[i] \in Nat
    BY <1>0
  <1>11. g[i] * (10 * y) = 10 * (g[i] * y) /\ (g[i] + 1) * (10 * y) = 10 * ((g[i] + 1) * y)
         /\ g[i] * y \in Nat /\ (g[i] + 1) * y \in Nat
    BY <1>7, <1>10
  <1>12. Good(m)
    <2>1. 10 * (g[i] * y) <= g[m]
      BY <1>8, <1>9, <1>11
    <2>2. g[m] < 10 * ((g[i] + 1) * y)
      BY <1>8, <1>9, <1>11
    <2>3. Zero => g[m] = 10 * (g[i] * y)
      BY <1>8, <1>9, <1>11
    <2> QED BY <1>7, <1>11, <2>1, <2>2, <2>3
  <1> QED BY <1>2, <1>12

\* The digits of a number are those it reads as.
LEMMA DigitsRead ==
  ASSUME NEW d \in 0..18, NEW g, NEW h, Reads(g, h, d), h \in [1..d -> 0..9]
  PROVE  g[d] \in 0..Ten(d) - 1 /\ A!Digits(g[d], d) = h
  <1>0. \A x \in 1..d : h[x] \in 0..9
    OBVIOUS
  <1>1. g[d] \in 0..Ten(d) - 1
    <2>1. 0 \in 0..d /\ d - 0 = d /\ g[0] = 0 /\ Ten(d) \in Nat
      <3>1. g[0] = 0
        BY DEF Reads
      <3>2. Ten(d) \in Nat
        BY PowerFacts
      <3> QED BY <3>1, <3>2
    <2>2. g[d] \in Nat /\ g[d] < (g[0] + 1) * Ten(d - 0)
      BY <1>0, <2>1, Shifted
    <2> QED BY <2>1, <2>2
  <1>2. ASSUME NEW i \in 1..d
        PROVE  A!Above(g[d], d - i) % 10 = h[i]
    <2>1. i \in 0..d /\ i - 1 \in 0..d /\ d - i \in 0..18
      OBVIOUS
    <2>2. /\ g[i] \in Nat /\ g[d] \in Nat
          /\ g[i] * Ten(d - i) <= g[d] /\ g[d] < (g[i] + 1) * Ten(d - i)
      BY <1>0, <2>1, Shifted
    <2>3. A!Above(g[d], d - i) = g[i]
      <3> DEFINE y == Ten(d - i)
      <3>1. y \in Nat \ {0} /\ A!Above(g[d], d - i) = g[d] \div y
        BY <2>1, <2>2, PowerFacts, StepsAre
      <3>2. g[i] * y <= g[d] /\ g[d] < (g[i] + 1) * y
        BY <2>2
      <3> HIDE DEF y
      <3> QED BY <2>2, <3>1, <3>2, DividedBy
    <2>4. g[i] = 10 * g[i - 1] + h[i] /\ g[i - 1] \in Nat /\ h[i] \in 0..9
      BY <1>0, <2>1 DEF Reads
    <2>5. (10 * g[i - 1] + h[i]) % 10 = h[i]
      BY <2>4
    <2> QED BY <2>3, <2>4, <2>5
  <1>3. A!Digits(g[d], d) = h
    BY <1>2 DEF A!Digits
  <1> QED BY <1>1, <1>3

LEMMA DigitsAre ==
  ASSUME NEW d \in 0..18, NEW r \in 0..Ten(d) - 1
  PROVE  /\ A!Digits(r, d) \in Seq(0..9) /\ Len(A!Digits(r, d)) = d
         /\ \E g : Reads(g, A!Digits(r, d), d) /\ g[d] = r
  <1> DEFINE h == A!Digits(r, d)
             g == [i \in 0..d |-> r \div Ten(d - i)]
  <1>1. r \in Nat /\ Ten(d) \in Nat \ {0}
    BY PowerFacts
  <1>2. ASSUME NEW i \in 1..d
        PROVE  h[i] = (r \div Ten(d - i)) % 10
    <2>1. d - i \in 0..18
      OBVIOUS
    <2>2. A!Above(r, d - i) = r \div Ten(d - i)
      BY <1>1, <2>1, StepsAre
    <2> QED BY <2>2 DEF A!Digits
  <1>3. ASSUME NEW i \in 1..d
        PROVE  /\ r \div Ten(d - i) \in Nat /\ r \div Ten(d - (i - 1)) \in Nat
               /\ r \div Ten(d - i) = 10 * (r \div Ten(d - (i - 1))) + h[i]
               /\ h[i] \in 0..9
    <2> DEFINE n == d - (i - 1)
    <2>1. n \in 1..18 /\ d - i = n - 1
      OBVIOUS
    <2> HIDE DEF n, h
    <2>2. /\ r \div Ten(n) \in Nat /\ r \div Ten(n - 1) \in Nat
          /\ r \div Ten(n - 1) = 10 * (r \div Ten(n)) + ((r \div Ten(n - 1)) % 10)
      <3> DEFINE y == Ten(n - 1)
      <3>1. n \in 0..18 /\ n - 1 \in 0..18 /\ n # 0
        BY <2>1
      <3>2. y \in Nat \ {0} /\ Ten(n) = 10 * y
        BY <3>1, PowerFacts
      <3> HIDE DEF y
      <3>3. 10 * y = y * 10
        BY <3>2
      <3>4. /\ r \div y \in Nat /\ r \div (y * 10) \in Nat
            /\ r \div y = 10 * (r \div (y * 10)) + ((r \div y) % 10)
        <4> DEFINE x == 10
        <4>1. x \in Nat \ {0}
          OBVIOUS
        <4> HIDE DEF x
        <4>2. Twice(y, x, r)
          BY <1>1, <3>2, <4>1, DividedTwice
        <4> QED BY <4>2 DEF Twice, x
      <3> QED BY <3>2, <3>3, <3>4 DEF y
    <2>3. h[i] = (r \div Ten(n - 1)) % 10
      BY <1>2, <2>1
    <2>4. (r \div Ten(n - 1)) % 10 \in 0..9
      <3> DEFINE q == r \div Ten(n - 1)
      <3>1. q \in Nat
        BY <2>2
      <3> HIDE DEF q
      <3>2. q % 10 \in 0..9
        BY <3>1
      <3> QED BY <3>2 DEF q
    <2> QED BY <2>1, <2>2, <2>3, <2>4 DEF n
  <1>4. h \in [1..d -> 0..9] /\ h \in Seq(0..9) /\ Len(h) = d
    <2>1. h = [i \in 1..d |-> h[i]]
      BY DEF A!Digits
    <2> HIDE DEF h
    <2>2. h \in [1..d -> 0..9]
      BY <1>3, <2>1
    <2> QED BY <2>2
  <1>5. r \div Ten(d - 0) = 0 /\ r \div Ten(d - d) = r
    <2>1. d - 0 = d /\ d - d = 0 /\ Ten(0) = 1
      BY PowerFacts
    <2>2. r \div Ten(d) = 0
      <3> DEFINE y == Ten(d)
      <3>1. r < y /\ y \in Nat \ {0}
        BY <1>1
      <3> HIDE DEF y
      <3>2. 0 * y <= r /\ r < (0 + 1) * y
        BY <1>1, <3>1
      <3>3. r \div y = 0
        BY <1>1, <3>1, <3>2, DividedBy
      <3> QED BY <3>3 DEF y
    <2> QED BY <1>1, <2>1, <2>2
  <1>6. \A i \in 0..d : r \div Ten(d - i) \in Nat
    <2> TAKE i \in 0..d
    <2>1. CASE i = 0
      BY <1>5, <2>1
    <2>2. CASE i \in 1..d
      BY <1>3, <2>2
    <2> QED BY <2>1, <2>2
  <1>7. g \in [0..d -> Nat] /\ \A i \in 0..d : g[i] = r \div Ten(d - i)
    BY <1>6
  <1>8. \A i \in 1..d : i \in 0..d /\ i - 1 \in 0..d
    OBVIOUS
  <1>9. 0 \in 0..d /\ d \in 0..d
    OBVIOUS
  <1> HIDE DEF g, h
  <1>10. g[0] = 0 /\ g[d] = r
    BY <1>5, <1>7, <1>9
  <1>11. \A i \in 1..d : g[i] = 10 * g[i - 1] + h[i]
    BY <1>3, <1>7, <1>8
  <1>12. Reads(g, h, d)
    BY <1>7, <1>10, <1>11 DEF Reads
  <1> QED BY <1>4, <1>10, <1>12 DEF h

\* Trimming leaves the digits up to the last that counts.
LEMMA TrimmedIs ==
  ASSUME NEW s \in Seq(0..9)
  PROVE  \E l \in 0..Len(s) :
            /\ A!Trimmed(s) = SubSeq(s, 1, l)
            /\ \A x \in 1..Len(s) : x > l => s[x] = 0
            /\ l # 0 => s[l] # 0
  <1> DEFINE kept == {i \in DOMAIN s : s[i] # 0}
  <1>0. Len(s) \in Nat /\ DOMAIN s = 1..Len(s) /\ \A x \in 1..Len(s) : s[x] \in 0..9
    OBVIOUS
  <1>1. CASE kept = {}
    <2>1. A!Trimmed(s) = SubSeq(s, 1, 0)
      BY <1>1 DEF A!Trimmed
    <2>2. \A x \in 1..Len(s) : s[x] = 0
      BY <1>0, <1>1
    <2> QED BY <1>0, <2>1, <2>2
  <1>2. CASE kept # {}
    <2> DEFINE l == CHOOSE i \in kept : \A j \in kept : j <= i
    <2>1. A!Trimmed(s) = SubSeq(s, 1, l)
      BY <1>2 DEF A!Trimmed
    <2>2. \E i \in kept : \A j \in kept : j <= i
      <3>1. kept \in SUBSET (1..Len(s))
        BY <1>0
      <3> HIDE DEF kept
      <3> QED BY <1>0, <1>2, <3>1, GreatestOf
    <2>3. l \in kept /\ \A j \in kept : j <= l
      <3> HIDE DEF kept
      <3> QED BY <2>2
    <2> HIDE DEF l
    <2>4. l \in 1..Len(s) /\ s[l] # 0
      BY <1>0, <2>3
    <2>5. \A x \in 1..Len(s) : x > l => s[x] = 0
      <3> TAKE x \in 1..Len(s)
      <3>1. x \in kept => x <= l
        BY <2>3
      <3>2. s[x] # 0 => x \in kept
        BY <1>0
      <3> HIDE DEF kept
      <3> QED BY <1>0, <2>4, <3>1, <3>2
    <2>6. l \in 0..Len(s)
      BY <1>0, <2>4
    <2> QED BY <2>1, <2>4, <2>5, <2>6
  <1> QED BY <1>1, <1>2

LEMMA TrimmedReads ==
  ASSUME NEW d \in 0..18, NEW r \in 0..Ten(d) - 1
  PROVE  LET t == A!Trimmed(A!Digits(r, d))
         IN  t \in Seq(0..9) /\ Len(t) \in 0..d /\ A!Scaled(A!Number(t), d - Len(t)) = r
  <1> DEFINE h == A!Digits(r, d)
             t == A!Trimmed(h)
  <1>1. PICK g : h \in Seq(0..9) /\ Len(h) = d /\ Reads(g, h, d) /\ g[d] = r
    BY DigitsAre
  <1> HIDE DEF h
  <1>2. PICK l \in 0..d : t = SubSeq(h, 1, l) /\ \A x \in 1..d : x > l => h[x] = 0
    BY <1>1, TrimmedIs
  <1> HIDE DEF t
  <1>3. t \in Seq(0..9) /\ Len(t) = l /\ \A x \in 1..l : h[x] = t[x]
    BY <1>1, <1>2
  <1>4. PICK f : Reads(f, t, l) /\ A!Number(t) = f[l]
    BY <1>3, NumberReads
  <1>5. l \in Nat /\ l <= d /\ l <= l /\ d \in Nat
    OBVIOUS
  <1>6. g[l] = f[l]
    BY <1>1, <1>3, <1>4, <1>5, SameDigits
  <1>7. \A x \in 1..d : h[x] \in 0..9
    BY <1>1
  <1>8. g[d] = g[l] * Ten(d - l) /\ g[l] \in Nat
    BY <1>1, <1>2, <1>7, Shifted
  <1>9. d - l \in 0..18
    OBVIOUS
  <1>10. A!Scaled(g[l], d - l) = r
    BY <1>1, <1>8, <1>9, StepsAre
  <1> QED BY <1>3, <1>4, <1>6, <1>10 DEF h, t

\* A fraction as long as the token has decimals.
Padded(f, d) == [i \in 1..d |-> IF i <= Len(f) THEN f[i] ELSE 0]
LEMMA PaddedIs ==
  ASSUME NEW d \in 0..18, NEW f \in Seq(0..9), Len(f) <= d
  PROVE  LET v == A!Scaled(A!Number(f), d - Len(f))
         IN  /\ v \in 0..Ten(d) - 1 /\ A!Digits(v, d) = Padded(f, d)
             /\ A!Trimmed(Padded(f, d)) = A!Trimmed(f)
  <1> DEFINE p == Padded(f, d)
             k == Len(f)
  <1>1. k \in Nat /\ k <= d /\ k \in 0..d /\ d \in Nat /\ \A x \in 1..k : f[x] \in 0..9
    OBVIOUS
  <1>2. /\ p \in [1..d -> 0..9] /\ \A x \in 1..k : p[x] = f[x]
        /\ \A x \in 1..d : x > k => p[x] = 0
    BY <1>1 DEF Padded
  <1> HIDE DEF p
  <1>4. p \in Seq(0..9) /\ Len(p) = d /\ \A x \in 1..d : p[x] \in 0..9
    BY <1>1, <1>2
  <1>5. PICK g : Reads(g, p, d)
    BY <1>4, NumberReads
  <1>6. PICK e : Reads(e, f, k) /\ A!Number(f) = e[k]
    BY NumberReads
  <1>7. g[k] = e[k]
    BY <1>1, <1>2, <1>5, <1>6, SameDigits
  <1>8. g[d] = A!Scaled(g[k], d - k)
    <2>1. \A x \in 1..d : x > k => p[x] = 0
      BY <1>2
    <2>2. \A x \in 1..d : p[x] \in 0..9
      BY <1>4
    <2> HIDE DEF k
    <2>3. g[d] = g[k] * Ten(d - k) /\ g[k] \in Nat
      BY <1>1, <1>5, <2>1, <2>2, Shifted
    <2>4. d - k \in 0..18
      BY <1>1
    <2> QED BY <2>3, <2>4, StepsAre
  <1>9. g[d] \in 0..Ten(d) - 1 /\ A!Digits(g[d], d) = p
    BY <1>2, <1>5, DigitsRead
  <1>10. PICK l \in 0..d : /\ A!Trimmed(p) = SubSeq(p, 1, l)
                           /\ \A x \in 1..d : x > l => p[x] = 0
                           /\ l # 0 => p[l] # 0
    BY <1>4, TrimmedIs
  <1>11. PICK m \in 0..k : /\ A!Trimmed(f) = SubSeq(f, 1, m)
                           /\ \A x \in 1..k : x > m => f[x] = 0
                           /\ m # 0 => f[m] # 0
    BY TrimmedIs
  <1>12. l = m
    <2>1. ~(l > m)
      BY <1>1, <1>2, <1>10, <1>11
    <2>2. ~(m > l)
      BY <1>1, <1>2, <1>10, <1>11
    <2> QED BY <1>1, <2>1, <2>2
  <1>13. SubSeq(p, 1, m) = SubSeq(f, 1, m)
    BY <1>1, <1>2, <1>4, <1>12
  <1> QED BY <1>6, <1>7, <1>8, <1>9, <1>10, <1>11, <1>12, <1>13 DEF p

\* What was typed is parsed with the SDK's decimals, and what is shown or sent was made
\* of it.
AmountsInv ==
    /\ typed \in A!Texts
    /\ units \in {{}, A!ParseTokenAmount(typed, A!SdkDecimals(asset))}
    /\ shown = {} \/ \E n \in units : shown = {A!FormatTokenAmount(n, A!SdkDecimals(asset))}
    /\ sent = {} \/ \E n \in units : n >= 0 /\ sent = {A!ToWholeUnits(n, asset)}

LEMMA AmountsInit == A!Init => AmountsInv
  BY Zenon DEF A!Init, AmountsInv

LEMMA AmountsKeep == AmountsInv /\ [A!AmountNext]_amountVars => AmountsInv'
  <1> SUFFICES ASSUME AmountsInv, [A!AmountNext]_amountVars PROVE AmountsInv'
    OBVIOUS
  <1> USE DEF AmountsInv
  <1>1. CASE A!Parse
    BY <1>1, Zenon DEF A!Parse
  <1>2. CASE A!Show
    BY <1>2, Zenon DEF A!Show
  <1>3. CASE A!Withdraw
    BY <1>3, Zenon DEF A!Withdraw
  <1>4. CASE UNCHANGED amountVars
    BY <1>4, Zenon DEF amountVars
  <1> QED BY <1>1, <1>2, <1>3, <1>4 DEF A!AmountNext

\* What the SDK makes of a text: the digits before the point and, padded, those after it.
Fraction(d) == A!Scaled(A!Number(typed.fraction), d - Len(typed.fraction))
Total(d) == A!Scaled(typed.whole, d) + Fraction(d)
LEMMA Parsed ==
  ASSUME typed \in A!Texts, NEW d \in 0..18, NEW n \in A!ParseTokenAmount(typed, d)
  PROVE  /\ Total(d) \in Nat /\ n \in Int /\ A!Magnitude(n) = Total(d)
         /\ A!ParseTokenAmount(typed, d) = {n}
         /\ n < 0 <=> typed.negative /\ n # 0
         /\ A!Above(Total(d), d) = typed.whole
         /\ A!Digits(A!Below(Total(d), d), d) = Padded(typed.fraction, d)
         /\ A!Trimmed(Padded(typed.fraction, d)) = A!Trimmed(typed.fraction)
  <1> DEFINE f == typed.fraction
             w == typed.whole
             v == Fraction(d)
             y == Ten(d)
  <1>1. f \in Seq(0..9) /\ w \in Nat /\ typed.negative \in BOOLEAN
    BY TypedAssumption DEF A!Texts, A!Text
  <1>2. Len(f) <= d /\ A!ParseTokenAmount(typed, d) = {n}
        /\ n = A!Signed(typed.negative, Total(d))
    BY DEF A!ParseTokenAmount, Total, Fraction
  <1>3. v \in 0..y - 1 /\ A!Digits(v, d) = Padded(f, d) /\ A!Trimmed(Padded(f, d)) = A!Trimmed(f)
    <2> HIDE DEF f
    <2>1. v = A!Scaled(A!Number(f), d - Len(f))
      BY DEF f, Fraction
    <2> QED BY <1>1, <1>2, <2>1, PaddedIs
  <1>4. y \in Nat \ {0} /\ Total(d) = w * y + v
    BY <1>1, PowerFacts, StepsAre DEF Total
  <1>5. Total(d) \div y = w /\ Total(d) % y = v /\ Total(d) \in Nat
    <2> HIDE DEF f, w, v
    <2> DEFINE t == Total(d)
    <2>0. w * y \in Nat /\ (w + 1) * y = w * y + y
      <3> HIDE DEF y
      <3> QED BY <1>1, <1>4
    <2>1. t \in Nat /\ w * y <= t /\ t < (w + 1) * y
      <3> HIDE DEF y
      <3> QED BY <1>3, <1>4, <2>0
    <2>2. t \div y = w
      <3> HIDE DEF t, y
      <3> QED BY <1>1, <1>4, <2>1, DividedBy
    <2>3. t = (t \div y) * y + (t % y) /\ t % y \in 0..y - 1
      <3> HIDE DEF t, y
      <3> QED BY <1>4, <2>1, Remainder
    <2>4. t % y = v
      <3> DEFINE q == t % y
      <3>1. q \in 0..y - 1 /\ w * y + v = w * y + q
        BY <1>4, <2>2, <2>3
      <3> HIDE DEF q, t, y
      <3>2. q = v
        BY <1>3, <1>4, <2>0, <3>1
      <3> QED BY <3>2 DEF q
    <2> QED BY <2>1, <2>2, <2>4
  <1>6. n \in Int /\ A!Magnitude(n) = Total(d) /\ (n < 0 <=> typed.negative /\ n # 0)
    BY <1>1, <1>2, <1>5 DEF A!Signed, A!Magnitude
  <1>7. A!Above(Total(d), d) = w /\ A!Below(Total(d), d) = v
    BY <1>5, StepsAre
  <1> QED BY <1>2, <1>3, <1>5, <1>6, <1>7

LEMMA ShownIsTyped == AmountsInv => A!ShownAsTyped
  <1> SUFFICES ASSUME AmountsInv, NEW text \in shown
               PROVE  /\ A!Trimmed(text.fraction) = A!Trimmed(typed.fraction)
                      /\ text.whole = typed.whole
                      /\ text.negative = (typed.negative /\ units # {0})
    BY DEF A!ShownAsTyped
  <1> DEFINE d == A!SdkDecimals(asset)
  <1>1. d \in 0..18
    BY DEF A!SdkDecimals
  <1>2. PICK n \in units : text = A!FormatTokenAmount(n, d)
    BY DEF AmountsInv
  <1>3. typed \in A!Texts /\ units = A!ParseTokenAmount(typed, d)
    BY <1>2 DEF AmountsInv
  <1> HIDE DEF d
  <1>4. /\ units = {n} /\ A!Magnitude(n) = Total(d)
        /\ n < 0 <=> typed.negative /\ n # 0
        /\ A!Above(Total(d), d) = typed.whole
        /\ A!Digits(A!Below(Total(d), d), d) = Padded(typed.fraction, d)
        /\ A!Trimmed(Padded(typed.fraction, d)) = A!Trimmed(typed.fraction)
    BY <1>1, <1>2, <1>3, Parsed
  <1>5. /\ text.negative = (n < 0) /\ text.whole = A!Above(Total(d), d)
        /\ text.fraction = A!Digits(A!Below(Total(d), d), d)
    BY <1>2, <1>4 DEF A!FormatTokenAmount, A!Decimal, A!Text
  <1>6. typed.negative \in BOOLEAN
    BY <1>3 DEF A!Texts, A!Text
  <1>7. (n # 0) <=> (units # {0})
    BY <1>4
  <1>8. text.negative = (typed.negative /\ units # {0})
    BY <1>4, <1>5, <1>6, <1>7
  <1> QED BY <1>4, <1>5, <1>8

LEMMA ToldIsTyped == AmountsInv => A!ToldAsTyped
  <1> DEFINE sdk == A!SdkDecimals(asset)
             api == A!ApiDecimals(asset)
  <1> SUFFICES ASSUME AmountsInv, NEW text \in sent
               PROVE  /\ sdk = api =>
                             text = A!Text(FALSE, typed.whole, A!Trimmed(typed.fraction))
                      /\ A!ParseTokenAmount(text, api) = units
    BY DEF A!ToldAsTyped
  <1>1. sdk \in 0..18 /\ api \in 0..18
    BY DEF A!SdkDecimals, A!ApiDecimals
  <1>2. PICK n \in units : n >= 0 /\ text = A!ToWholeUnits(n, asset)
    BY DEF AmountsInv
  <1>3. typed \in A!Texts /\ units = A!ParseTokenAmount(typed, sdk)
    BY <1>2 DEF AmountsInv
  <1> DEFINE m == Total(sdk)
             t == A!Trimmed(A!Digits(A!Below(m, api), api))
  <1>4. text = A!Text(n < 0, A!Above(A!Magnitude(n), api),
                      A!Trimmed(A!Digits(A!Below(A!Magnitude(n), api), api)))
    BY <1>2 DEF A!ToWholeUnits, A!Decimal, A!Text
  <1> HIDE DEF sdk, api
  <1>5. /\ m \in Nat /\ n \in Int /\ A!Magnitude(n) = m /\ units = {n}
        /\ A!Above(m, sdk) = typed.whole
        /\ A!Digits(A!Below(m, sdk), sdk) = Padded(typed.fraction, sdk)
        /\ A!Trimmed(Padded(typed.fraction, sdk)) = A!Trimmed(typed.fraction)
    BY <1>1, <1>2, <1>3, Parsed
  <1> HIDE DEF m
  <1>6. n = m /\ (n < 0) = FALSE
    BY <1>2, <1>5 DEF A!Magnitude
  <1>7. text = A!Text(FALSE, A!Above(m, api), t)
    BY <1>4, <1>5, <1>6
  <1>8. /\ A!Above(m, api) \in Nat /\ A!Below(m, api) \in 0..Ten(api) - 1
        /\ m = A!Scaled(A!Above(m, api), api) + A!Below(m, api)
    <2> DEFINE y == Ten(api)
    <2>1. y \in Nat \ {0} /\ A!Above(m, api) = m \div y /\ A!Below(m, api) = m % y
      BY <1>1, <1>5, PowerFacts, StepsAre
    <2> HIDE DEF y
    <2>2. m \div y \in Nat /\ m % y \in 0..y - 1 /\ m = (m \div y) * y + (m % y)
      BY <1>5, <2>1, Remainder
    <2>3. A!Scaled(m \div y, api) = (m \div y) * y
      BY <1>1, <2>2, StepsAre DEF y
    <2> QED BY <2>1, <2>2, <2>3 DEF y
  <1>9. Len(t) \in 0..api /\ A!Scaled(A!Number(t), api - Len(t)) = A!Below(m, api)
    BY <1>1, <1>8, TrimmedReads
  <1> HIDE DEF t
  <1>10. A!ParseTokenAmount(text, api) = {m}
    <2>1. text.negative = FALSE /\ text.whole = A!Above(m, api) /\ text.fraction = t
      BY <1>7 DEF A!Text
    <2>2. Len(t) <= api
      BY <1>1, <1>9
    <2>3. A!Signed(FALSE, m) = m
      BY DEF A!Signed
    <2>4. A!Scaled(text.whole, api) + A!Scaled(A!Number(text.fraction), api - Len(text.fraction)) = m
      BY <1>8, <1>9, <2>1
    <2>5. \A fits : fits \in {TRUE} \cap {Len(text.fraction) <= api} <=> fits = TRUE
      BY <2>1, <2>2
    <2> QED BY <2>1, <2>3, <2>4, <2>5, Zenon DEF A!ParseTokenAmount
  <1>11. sdk = api => text = A!Text(FALSE, typed.whole, A!Trimmed(typed.fraction))
    BY <1>5, <1>7 DEF t
  <1> QED BY <1>5, <1>6, <1>10, <1>11

-------------------------------------------------------------------------------
(* The parts together. *)
ClientInv ==
    /\ WithdrawalInv /\ DiagnosisInv /\ PageInv /\ AmountsInv
    /\ MockInv /\ OnrampInv /\ ThrottleInv

LEMMA ClientInit == Starts => ClientInv
  BY WithdrawalInit, DiagnosisInit, PageInit, AmountsInit, MockInit, OnrampInit, ThrottleInit,
     Zenon
     DEF Starts, ClientInv

\* A step of one part is none of another.
LEMMA StepsApart ==
  ASSUME [Step]_clientVars
  PROVE  /\ [Next]_vars /\ [D!DiagnosisNext]_diagnosisVars /\ [P!PageNext]_pageVars
         /\ [A!AmountNext]_amountVars /\ [M!MockNext]_mockVars
         /\ [Q!OnrampNext]_onrampVars /\ [T!ThrottleNext]_throttleVars
  <1> USE DEF diagnosisVars, pageVars, amountVars, mockVars, onrampVars, throttleVars, dataVars, serverVars
  <1>1. CASE Step
    BY <1>1, Zenon DEF Step
  <1>2. CASE UNCHANGED clientVars
    BY <1>2, Zenon DEF clientVars
  <1> QED BY <1>1, <1>2

LEMMA ClientNext == ClientInv /\ [Step]_clientVars => ClientInv'
  <1> SUFFICES ASSUME ClientInv, [Step]_clientVars PROVE ClientInv'
    OBVIOUS
  <1> QED BY StepsApart, WithdrawalNext, DiagnosisKeeps, PageKeeps, AmountsKeep,
             MockNextKeeps, OnrampKeeps, ThrottleKeeps, Zenon DEF ClientInv

LEMMA Client == Calling => []ClientInv
  BY ClientInit, ClientNext, PTL DEF Calling

\* Whoever is told that a withdrawal was created has had one ordered with its own key, those who
\* share one are told the same, and never two of one caller are in flight at a process: for any
\* calls, processes and keys, whatever is retried, times out, restarts, or is joined to
\* another's request (routes/cex.ts, cex.ts).
THEOREM WithdrawalsOwned == Calling => []WithdrawalsAreOwn
  <1>1. ClientInv => WithdrawalsAreOwn
    BY WithdrawalOwn DEF ClientInv
  <1> QED BY <1>1, Client, PTL

\* A revoked key gets no request past the process that revoked it, restarts that seed the
\* key store anew included: what they seed does not have the scope.
THEOREM RevokedAreOut == Calling => RevokedStaysOut
  <1> DEFINE Out == \A n \in Numbers :
                        (attempts[n].stage = "sent" /\ attempts'[n].stage = "admitted")
                            => <<attempts[n].process, KeyOf(n)>> \notin barred
  <1>1. ClientInv /\ [Step]_clientVars => [Out]_vars
    <2> SUFFICES ASSUME ClientInv, [Step]_clientVars PROVE Out
      OBVIOUS
    <2>1. WithdrawalInv /\ [Next]_vars
      BY StepsApart DEF ClientInv
    <2> HIDE DEF ClientInv
    <2> QED BY <2>1, AdmittedHasScope
  <1> QED BY <1>1, Client, PTL DEF Calling, RevokedStaysOut

\* A diagnosis never passes an endpoint that was gone for two lifetimes of a cache entry,
\* nor fails one that served throughout, for any lifetime; and pages of any sizes, negative
\* ones included, are collected in order, none twice, and completely.
THEOREM ReportsTrue == Calling => []ReportsAreTrue
  <1>1. ClientInv => ReportsAreTrue
    BY Zenon DEF ClientInv, ReportsAreTrue, DiagnosisInv, PageInv
  <1> QED BY <1>1, Client, PTL

\* For any number and any digits after the point, what the SDK accepts is shown as it was
\* typed, and the exchange is told the same amount of smallest units, whatever the
\* decimals of the two sides: as it was typed where they agree.
THEOREM AmountsTold == Calling => []AmountsAreTold
  <1>1. ClientInv => AmountsAreTold
    BY ShownIsTyped, ToldIsTyped, Zenon DEF ClientInv, AmountsAreTold, A!AmountsSound
  <1> QED BY <1>1, Client, PTL

\* For any offers, the best that came is the first; for any window, limit and number of
\* requests handled at once, who is refused has misbehaved in the window, and who did so
\* often enough is refused; for any declarations, the mock answers with the last one.
THEOREM RoutesFair == Calling => []RoutesAreFair
  <1>1. ClientInv => RoutesAreFair
    BY ThrottleIsSound, Zenon DEF ClientInv, RoutesAreFair, OnrampInv, MockInv
  <1> QED BY <1>1, Client, PTL
===============================================================================
