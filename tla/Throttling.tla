------------------------------ MODULE Throttling -------------------------------
\* suspiciousRateLimiting for one address: a request is let in or refused when it comes,
\* and counted, if a detector flagged it, when its response is finished, with the time at
\* which it came; in between others come and finish, and windows end.
EXTENDS Naturals, Sequences, FiniteSets

CONSTANTS
    Window,       \* SUSPICIOUS_WINDOW_MS
    MaxFlagged,   \* SUSPICIOUS_MAX_PER_WINDOW
    MaxClock,     \* bounds of the instance: the clock,
    MaxOpen       \* and requests being handled at once

VARIABLES
    clock,
    bucket,     \* [count, resetAt], count 0 if there is none
    open,       \* [slot -> when the request came], Free for none
    flagged,    \* when flagged requests finished (history)
    refused     \* the last request was refused (history)

throttleVars == <<clock, bucket, open, flagged, refused>>

Slots == 1..MaxOpen
Free == MaxClock + 1
NoBucket == [count |-> 0, resetAt |-> 0]

ThrottleTypeOK ==
    /\ clock \in 0..MaxClock
    /\ bucket.count \in Nat /\ bucket.resetAt \in 0..(MaxClock + Window)
    /\ open \in [Slots -> 0..Free]
    /\ flagged \in Seq(0..MaxClock) /\ refused \in BOOLEAN

Init ==
    /\ clock = 0 /\ bucket = NoBucket
    /\ open = [s \in Slots |-> Free]
    /\ flagged = <<>> /\ refused = FALSE

-------------------------------------------------------------------------------
Throttled == bucket.resetAt > clock /\ bucket.count >= MaxFlagged

Arrive(s) ==
    /\ open[s] = Free
    /\ refused' = Throttled
    /\ open' = IF Throttled THEN open ELSE [open EXCEPT ![s] = clock]
    /\ UNCHANGED <<clock, bucket, flagged>>

\* Faulty variant of Counted: the window is not looked at.
CountedForever(came) ==
    bucket' = IF bucket.count = 0 THEN [count |-> 1, resetAt |-> came + Window]
              ELSE [count |-> bucket.count + 1, resetAt |-> clock + Window]

\* The window is compared with the time the request came, not with the present one.
Counted(came) ==
    bucket' = IF bucket.count = 0 \/ bucket.resetAt <= came
              THEN [count |-> 1, resetAt |-> came + Window]
              ELSE [bucket EXCEPT !.count = @ + 1]

\* 'finish', of a request that a detector flagged or of a clean one.
Finish(s) ==
    /\ open[s] # Free
    /\ open' = [open EXCEPT ![s] = Free]
    /\ refused' = FALSE
    /\ UNCHANGED clock
    /\ \/ Counted(open[s]) /\ flagged' = Append(flagged, clock)
       \/ UNCHANGED <<bucket, flagged>>

Tick ==
    /\ clock < MaxClock /\ clock' = clock + 1 /\ refused' = FALSE
    /\ UNCHANGED <<bucket, open, flagged>>

ThrottleNext == (\E s \in Slots : Arrive(s) \/ Finish(s)) \/ Tick

-------------------------------------------------------------------------------
\* Nobody is refused for what is long past: a refusal follows MaxFlagged flagged requests
\* that finished within one window, however long requests take and windows overlap.
RefusedForRecent ==
    refused => Cardinality({i \in DOMAIN flagged : flagged[i] + Window > clock}) >= MaxFlagged

\* And who was flagged that often within the window that began with the first of them is
\* refused until it ends: requests that were slow, or came before the window, do not end it.
Since(t) == {i \in DOMAIN flagged : flagged[i] >= t}
OffendersWait ==
    bucket.count > 0 /\ bucket.resetAt > clock
        => bucket.count >= Cardinality(Since(bucket.resetAt - Window)) - MaxOpen

ThrottleSound == ThrottleTypeOK /\ RefusedForRecent /\ OffendersWait
===============================================================================
