---------------------------- MODULE ProviderOrders ----------------------------
(***************************************************************************)
(* What the onramp providers tell the API about one order: a webhook is    *)
(* verified, looked up among the signatures seen lately, noted there, and  *)
(* written to the row of its order.  The provider, which is external,      *)
(* sends an event again as long as it has not been answered 200, perhaps   *)
(* while an earlier copy is still on its way, and its events overtake each *)
(* other.  The table comes and goes with the migrations (Deployment).      *)
(*                                                                         *)
(* Left out: amounts and names, the cryptography (a delivery is validly    *)
(* signed), the provider that is not configured or configured without      *)
(* secret, whose webhooks are all refused, and the other orders.           *)
(***************************************************************************)
EXTENDS Integers

CONSTANTS
    Slots,         \* webhooks the API works on at the same time
    Events,        \* the statuses the order goes through
    Completing,    \* those among them that set completed_at
    MaxFaults      \* bound on failing writes, and on crashes of the API

VARIABLES
    tables,      \* the tables of the database, see Migrations
    row,         \* the order's row, Absent, or its status and completed_at
    seen,        \* events whose signature is in Redis
    slot,        \* the webhooks in progress
    answered,    \* events the provider has had a 200 for
    excused,     \* answered 200 though the write failed, or dropped with the table
    cut,         \* noted as seen by a process that died before it had written
    faults

vars == <<tables, row, seen, slot, answered, excused, cut, faults>>

NoRow == [status |-> "none", completed |-> FALSE]
Free  == [stage |-> "free", event |-> "none"]
Stages == {"free", "get", "setex", "save", "answer"}

Init == /\ row = NoRow /\ seen = {} /\ answered = {} /\ excused = {} /\ cut = {}
        /\ slot = [d \in Slots |-> Free]
    
Goes(d, stage) == slot' = [slot EXCEPT ![d].stage = stage]
HasTable == "provider_orders" \in tables

-------------------------------------------------------------------------------
\* A copy of an event arrives and its signature is right.
Deliver(d, e) ==
    /\ slot[d] = Free /\ e \notin answered
    /\ slot' = [slot EXCEPT ![d] = [stage |-> "get", event |-> e]]
    /\ UNCHANGED <<tables, row, seen, answered, excused, cut, faults>>

\* The GET of checkReplaySignature: 401 when the signature was seen.
LookUp(d) ==
    /\ slot[d].stage = "get"
    /\ IF slot[d].event \in seen
       THEN slot' = [slot EXCEPT ![d] = Free]
       ELSE Goes(d, "setex")
    /\ UNCHANGED <<tables, row, seen, answered, excused, cut, faults>>

\* Its SETEX, in a call of its own: a copy that looked up in between passes too.
Note(d) ==
    /\ slot[d].stage = "setex"
    /\ seen' = seen \cup {slot[d].event}
    /\ Goes(d, "save")
    /\ UNCHANGED <<tables, row, answered, excused, cut, faults>>

\* An absent or failing Redis refuses nobody.  A copy that MoonPay signed again,
\* with a later time, has another key and passes as well.
PassUnchecked(d) ==
    /\ slot[d].stage \in {"get", "setex"}
    /\ Goes(d, "save")
    /\ UNCHANGED <<tables, row, seen, answered, excused, cut, faults>>

KeyExpires(e) ==
    /\ e \in seen
    /\ seen' = seen \ {e}
    /\ UNCHANGED <<tables, row, slot, answered, excused, cut, faults>>

\* Faulty variant of Upserted: no COALESCE.
UpsertedAnew(e) == [status |-> e, completed |-> e \in Completing]

\* INSERT ... ON CONFLICT DO UPDATE: the status is the event's, whatever came
\* before it; completed_at stays once it is set.
Upserted(e) == [status |-> e, completed |-> e \in Completing \/ row.completed]

\* saveProviderOrder: an error, a missing table among them, is logged and
\* swallowed.  The route answers 200 either way.
Save(d) ==
    /\ slot[d].stage = "save" /\ HasTable
    /\ row' = Upserted(slot[d].event)
    /\ Goes(d, "answer")
    /\ cut' = cut \ {slot[d].event}
    /\ UNCHANGED <<tables, seen, answered, excused, faults>>
SaveFails(d) ==
    /\ slot[d].stage = "save"
    /\ ~HasTable \/ faults < MaxFaults
    /\ faults' = IF HasTable THEN faults + 1 ELSE faults
    /\ excused' = excused \cup {slot[d].event}
    /\ Goes(d, "answer")
    /\ UNCHANGED <<tables, row, seen, answered, cut>>

\* invalidateStatusCache and the 200.
Answer(d) ==
    /\ slot[d].stage = "answer"
    /\ answered' = answered \cup {slot[d].event}
    /\ slot' = [slot EXCEPT ![d] = Free]
    /\ UNCHANGED <<tables, row, seen, excused, cut, faults>>

\* The API's process dies: what was in progress is gone, the keys in Redis are not.
Crash ==
    /\ faults < MaxFaults
    /\ \E d \in Slots : slot[d] # Free
    /\ cut' = cut \cup {slot[d].event : d \in {x \in Slots : slot[x].stage = "save"}}
    /\ slot' = [d \in Slots |-> Free]
    /\ faults' = faults + 1
    /\ UNCHANGED <<tables, row, seen, answered, excused>>

Next ==
    \/ \E d \in Slots : \/ \E e \in Events : Deliver(d, e)
                        \/ LookUp(d) \/ Note(d) \/ PassUnchecked(d)
                        \/ Save(d) \/ SaveFails(d) \/ Answer(d)
    \/ \E e \in Events : KeyExpires(e)
    \/ Crash

\* What a migration does to the orders: a dropped table takes the row along.
Migrated ==
    /\ UNCHANGED <<seen, slot, answered, cut>>
    /\ IF HasTable /\ "provider_orders" \notin tables'
       THEN /\ row' = NoRow
            /\ excused' = excused \cup answered \cup seen
                 \cup {slot[d].event : d \in {x \in Slots : slot[x].stage = "answer"}}
       ELSE UNCHANGED <<row, excused>>

-------------------------------------------------------------------------------
TypeOK ==
    /\ row \in [status : Events \cup {"none"}, completed : BOOLEAN]
    /\ \A s \in {seen, answered, excused, cut} : s \subseteq Events \cup {"none"}
    /\ \A d \in Slots : slot[d].stage \in Stages
    /\ faults \in 0..MaxFaults

Writing(e) == \E d \in Slots : slot[d].event = e /\ slot[d].stage \in {"save", "answer"}
InRow(e)   == row # NoRow /\ (e \in Completing => row.completed)

\* A 200 is kept: the order is there, and completed if the event said so, even
\* when older events arrive after it, in any number of copies; a failed write
\* and a dropped table excuse it.
AnsweredIsStored == \A e \in answered \ excused : InRow(e)

\* "webhook already processed" (webhookVerification.ts:132) is true of every
\* signature that is refused, or a copy is being processed now; only a process
\* that died in between leaves one that was not.
SeenIsTaken == \A e \in seen \ (excused \cup cut) : InRow(e) \/ Writing(e)
===============================================================================
