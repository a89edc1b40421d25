----------------------------- MODULE Transaction -----------------------------
\* One transaction as the API sees it: what the network has made of it, and the
\* time bounds SorobanService remembers to tell an expired one from a pending one.
\* The modules that submit transactions and follow them share these variables.
VARIABLES
    chain,     \* "unknown" until a provider accepts it, then its fate
    elapsed,   \* the clock passed its time bounds
    tracked,   \* submittedTxTimeBounds has its hash
    lagging    \* a provider may not have the verdict yet

Verdicts == {"success", "failed"}
Statuses == Verdicts \cup {"pending", "expired"}

TransactionTypeOK ==
    /\ chain \in Verdicts \cup {"unknown", "pending"}
    /\ elapsed \in BOOLEAN
    /\ tracked \in BOOLEAN
    /\ lagging \in BOOLEAN

\* The network applies what was accepted, within its time bounds.
LedgerCloses ==
    /\ chain = "pending" /\ ~elapsed
    /\ chain' \in Verdicts
    /\ UNCHANGED <<elapsed, tracked, lagging>>

TimeBoundsPass ==
    /\ ~elapsed
    /\ elapsed' = TRUE
    /\ UNCHANGED <<chain, tracked, lagging>>

CatchUp ==
    /\ chain \in Verdicts /\ lagging
    /\ lagging' = FALSE
    /\ UNCHANGED <<chain, elapsed, tracked>>

TransactionStep == LedgerCloses \/ TimeBoundsPass \/ CatchUp

\* getTransactionStatus answers status: a verdict, or for NOT_FOUND what the bounds it
\* remembers make of that. Who is told of the expiry makes it forget them.
Found(status) ==
    /\ chain \in Verdicts /\ status = chain
    /\ tracked' = FALSE

\* Faulty variant of NotFound: an expired transaction is called failed.
NotFoundFailed(status) ==
    /\ chain \notin Verdicts \/ lagging
    /\ IF tracked /\ elapsed
       THEN status = "failed" /\ tracked' = FALSE
       ELSE status = "pending" /\ UNCHANGED tracked

NotFound(status) ==
    /\ chain \notin Verdicts \/ lagging
    /\ IF tracked /\ elapsed
       THEN status = "expired" /\ tracked' = FALSE
       ELSE status = "pending" /\ UNCHANGED tracked

GetTransactionStatus(status) ==
    /\ Found(status) \/ NotFound(status)
    /\ UNCHANGED <<chain, elapsed, lagging>>
===============================================================================
