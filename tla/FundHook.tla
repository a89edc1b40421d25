------------------------------- MODULE FundHook -------------------------------
\* useFund of the React hooks: prepare, submit and reset in any order, with answers that
\* come back late. What becomes of a submission is the subject of Submission.
EXTENDS Integers

CONSTANTS
    MaxAttempts,   \* bounds of the instance: prepare and reset calls,
    MaxCalls       \* and calls of the client under way

VARIABLES
    attempt,    \* attemptRef
    step,
    prepared,   \* the attempt whose envelope is shown for signing, 0 if none
    result,     \* the attempt whose submission is shown, 0 if none
    failed,     \* the attempt whose error is shown, 0 if none
    key,        \* idempotencyKey, 0 if none
    made,       \* keys made so far (history)
    calls,      \* under way: [id, kind, attempt]
    sent        \* submissions so far: [attempt, key] (history)

fundVars == <<attempt, step, prepared, result, failed, key, made, calls, sent>>

Attempts == 0..MaxAttempts
Steps == {"idle", "preparing", "prepared", "submitting", "submitted", "error"}
Calls == [id : 1..MaxCalls, kind : {"prepare", "submit"}, attempt : Attempts]

FundTypeOK ==
    /\ attempt \in Attempts /\ step \in Steps
    /\ {prepared, result, failed} \subseteq Attempts \cup {-1}
    /\ key \in 0..made /\ calls \subseteq Calls
    /\ sent \subseteq [attempt : Attempts, key : 1..made]

None == -1
Shows(p, r, f) == prepared' = p /\ result' = r /\ failed' = f
Current(c) == c.attempt = attempt
FreeIds == 1..MaxCalls \ {c.id : c \in calls}
Free == FreeIds # {}
Began(kind) ==
    calls' = calls \cup {[id |-> CHOOSE i \in FreeIds : \A j \in FreeIds : i <= j,
                         kind |-> kind, attempt |-> attempt']}

Init ==
    /\ attempt = 0 /\ step = "idle"
    /\ prepared = None /\ result = None /\ failed = None
    /\ key = 0 /\ made = 0 /\ calls = {} /\ sent = {}

-------------------------------------------------------------------------------
\* prepare starts a new attempt with a key of its own, and shows nothing of the old one.
Prepare ==
    /\ attempt < MaxAttempts /\ Free
    /\ attempt' = attempt + 1
    /\ made' = made + 1 /\ key' = made'
    /\ step' = "preparing" /\ Shows(None, None, None)
    /\ Began("prepare")
    /\ UNCHANGED sent

\* submit keeps the key of the attempt, or makes one; again with the same envelope too.
Submit ==
    /\ Free
    /\ IF key = 0 THEN made' = made + 1 /\ key' = made' ELSE UNCHANGED <<key, made>>
    /\ step' = "submitting" /\ Shows(prepared, result, None)
    /\ UNCHANGED attempt
    /\ Began("submit")
    /\ sent' = sent \cup {[attempt |-> attempt, key |-> key']}

Reset ==
    /\ attempt < MaxAttempts
    /\ attempt' = attempt + 1 /\ key' = 0
    /\ step' = "idle" /\ Shows(None, None, None)
    /\ UNCHANGED <<made, calls, sent>>

\* Faulty variant of Succeeds: an answer is shown whichever attempt it belongs to.
SucceedsAnyway(c) ==
    /\ IF c.kind = "prepare" THEN step' = "prepared" /\ Shows(c.attempt, result, failed)
                             ELSE step' = "submitted" /\ Shows(prepared, c.attempt, failed)
    /\ calls' = calls \ {c}
    /\ UNCHANGED <<attempt, key, made, sent>>

\* An answer: one of an abandoned attempt is ignored.
Succeeds(c) ==
    /\ IF ~Current(c) THEN UNCHANGED <<step, prepared, result, failed>>
       ELSE IF c.kind = "prepare" THEN step' = "prepared" /\ Shows(attempt, result, failed)
                                  ELSE step' = "submitted" /\ Shows(prepared, attempt, failed)
    /\ calls' = calls \ {c}
    /\ UNCHANGED <<attempt, key, made, sent>>

\* fail
Fails(c) ==
    /\ IF ~Current(c) THEN UNCHANGED <<step, prepared, result, failed>>
       ELSE step' = "error" /\ Shows(prepared, result, attempt)
    /\ calls' = calls \ {c}
    /\ UNCHANGED <<attempt, key, made, sent>>

FundNext ==
    \/ Prepare \/ Submit \/ Reset
    \/ \E c \in calls : Succeeds(c) \/ Fails(c)

-------------------------------------------------------------------------------
\* What is shown belongs to the current attempt, however late the answers of others come;
\* and the page waits only while a call of this attempt is under way.
ShowsCurrent ==
    /\ {prepared, result, failed} \subseteq {attempt, None}
    /\ step = "preparing" => \E c \in calls : Current(c) /\ c.kind = "prepare"
    /\ step = "submitting" => \E c \in calls : Current(c) /\ c.kind = "submit"
    /\ step = "submitted" => result = attempt
    /\ step = "error" => failed = attempt

\* The submissions of one attempt share a key, so that the server takes them for one, and
\* two attempts never do.
KeyPerAttempt == \A s, t \in sent : s.attempt = t.attempt <=> s.key = t.key

FundHookSound == FundTypeOK /\ ShowsCurrent /\ KeyPerAttempt
===============================================================================
