------------------------------ MODULE Pagination ------------------------------
\* PaginationHelper of the SDK over GET /transactions: an iteration that follows cursors,
\* with pauses, while the caller may abort it at any moment.
EXTENDS Integers, Sequences

CONSTANTS
    MaxTransactions,  \* bound of the instance: transactions that match the filter
    PageSizes         \* what callers pass as pageSize

VARIABLES
    total,       \* the store holds the transactions 1..total, which never change
    size,        \* limit of the requests
    cursor,      \* id of the last transaction of the page before, 0 if undefined
    phase,       \* "fetching", "yielded", "pausing", then "returned" or "rejected"
    collected,   \* results of all()
    aborted      \* the caller's signal

pageVars == <<total, size, cursor, phase, collected, aborted>>

PageTypeOK ==
    /\ total \in 0..MaxTransactions /\ size \in PageSizes /\ cursor \in 0..total
    /\ phase \in {"fetching", "yielded", "pausing", "returned", "rejected"}
    /\ collected \in Seq(1..total) /\ aborted \in BOOLEAN

Init ==
    /\ total \in 0..MaxTransactions /\ size \in PageSizes
    /\ cursor = 0 /\ phase = "fetching" /\ collected = <<>> /\ aborted = FALSE

\* Array.prototype.slice: a negative end counts from the end.
Slice(from, to) ==
    LET end == IF to < 0 THEN total + to ELSE IF to < total THEN to ELSE total
    IN  [i \in 1..(IF end > from THEN end - from ELSE 0) |-> from + i]

\* Faulty variant of ListTransactions: a page begins with the cursor's own transaction.
ListInclusive(c, limit) ==
    LET from == IF c = 0 THEN 0 ELSE c - 1
        page == Slice(from, from + limit)
        hasMore == from + limit < total
    IN  [data |-> page, nextCursor |-> IF hasMore /\ page # <<>> THEN page[Len(page)] ELSE 0]

\* listTransactions: what comes after the cursor, and the cursor of the next page.
ListTransactions(c, limit) ==
    LET page == Slice(c, c + limit)
        hasMore == c + limit < total
    IN  [data |-> page, nextCursor |-> IF hasMore /\ page # <<>> THEN page[Len(page)] ELSE 0]

-------------------------------------------------------------------------------
\* pages: the request of the next page, unless the signal is aborted by then.
Fetch ==
    /\ phase = "fetching"
    /\ IF aborted THEN phase' = "returned" /\ UNCHANGED <<cursor, collected>>
       ELSE LET page == ListTransactions(cursor, size)
            IN  /\ collected' = collected \o page.data /\ cursor' = page.nextCursor
                /\ phase' = "yielded"
    /\ UNCHANGED <<total, size, aborted>>

\* After the page: the pause, if there is a throttle, or the next turn of the loop.
NextPage ==
    /\ phase = "yielded"
    /\ IF cursor = 0 THEN phase' = "returned" ELSE phase' \in {"pausing", "fetching"}
    /\ UNCHANGED <<total, size, cursor, collected, aborted>>

\* delayWithSignal resolves, or rejects as soon as the signal is aborted.
Pause ==
    /\ phase = "pausing"
    /\ phase' = IF aborted THEN "rejected" ELSE "fetching"
    /\ UNCHANGED <<total, size, cursor, collected, aborted>>

Abort ==
    /\ ~aborted /\ phase \notin {"returned", "rejected"}
    /\ aborted' = TRUE
    /\ UNCHANGED <<total, size, cursor, phase, collected>>

PageNext == Fetch \/ NextPage \/ Pause \/ Abort

-------------------------------------------------------------------------------
\* What is collected is the transactions in their order, each once, however the pages cut
\* them; and it is all of them when all() returns, unless the caller aborted or asked for
\* pages without transactions.
CollectedInOrder ==
    /\ \A i \in DOMAIN collected : collected[i] = i
    /\ phase = "returned" /\ ~aborted /\ size > 0 => Len(collected) = total

PagesSound == PageTypeOK /\ CollectedInOrder
===============================================================================
