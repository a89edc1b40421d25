------------------------------ MODULE MockServer ------------------------------
\* The mock server the SDK gives to those who test against it: it takes the place of
\* globalThis.fetch, and answers from routes that tests register, reset and override
\* while requests of theirs are still waiting for a delayed answer.
EXTENDS Naturals, Sequences

CONSTANTS
    Paths,        \* a method and a path of a request
    Known,        \* those a default handler matches
    Matchers,     \* what builders match: one path each, or all with a prefix
    Outcomes,     \* what tests declare: a reply, a network error, or no answer at all
    MaxRoutes,    \* bounds of the instance: overrides registered at once,
    MaxRequests   \* and requests recorded

VARIABLES
    fetch,        \* globalThis.fetch: "real" or "mock"
    original,     \* originalFetch, "none" if undefined
    overrides,    \* registered routes, the first to look at first
    recorded,     \* _requests: their paths
    delayed,      \* requests that wait: [path, outcome, due], due as below
    answered,     \* the last answer, likewise, NoAnswer before the first
    last,         \* [Paths -> the outcome declared last for it since the reset] (history)
    nested        \* install was called while installed (history)

mockVars == <<fetch, original, overrides, recorded, delayed, answered, last, nested>>

Given == Outcomes \cup {"fixture", "not found"}
Answer == [path : Paths, outcome : Given, due : Given]
NoAnswer == [path |-> "none", outcome |-> "none", due |-> "none"]
Default(p) == IF p \in Known THEN "fixture" ELSE "not found"

MockTypeOK ==
    /\ fetch \in {"real", "mock"} /\ original \in {"none", "real", "mock"}
    /\ overrides \in Seq([matches : Matchers, outcome : Outcomes, waits : BOOLEAN])
    /\ recorded \in Seq(Paths)
    /\ delayed \subseteq Answer /\ answered \in Answer \cup {NoAnswer}
    /\ last \in [Paths -> Given] /\ nested \in BOOLEAN

Init ==
    /\ fetch = "real" /\ original = "none"
    /\ overrides = <<>> /\ recorded = <<>> /\ delayed = {} /\ answered = NoAnswer
    /\ last = [p \in Paths |-> Default(p)]
    /\ nested = FALSE

-------------------------------------------------------------------------------
Install ==
    /\ original' = fetch /\ fetch' = "mock"
    /\ nested' = (nested \/ fetch = "mock")
    /\ UNCHANGED <<overrides, recorded, delayed, answered, last>>

\* Faulty variant of Uninstall: the saved function is put back, and kept as well.
UninstallAgain ==
    /\ original # "none"
    /\ fetch' = original /\ original' = "mock"
    /\ UNCHANGED <<overrides, recorded, delayed, answered, last, nested>>

Uninstall ==
    /\ original # "none"
    /\ fetch' = original /\ original' = "none"
    /\ UNCHANGED <<overrides, recorded, delayed, answered, last, nested>>

\* The routes and the history go; requests that wait are answered all the same.
Reset ==
    /\ overrides' = <<>> /\ recorded' = <<>>
    /\ last' = [p \in Paths |-> Default(p)]
    /\ UNCHANGED <<fetch, original, delayed, answered, nested>>

\* _register
Registered(route) == overrides' = <<route>> \o overrides

\* onQuote, onStatus, onRoute ... with delay, and then reply, networkError or timeout.
On(matches, outcome, waits) ==
    /\ Len(overrides) < MaxRoutes
    /\ Registered([matches |-> matches, outcome |-> outcome, waits |-> waits])
    /\ last' = [p \in Paths |-> IF p \in matches THEN outcome ELSE last[p]]
    /\ UNCHANGED <<fetch, original, recorded, delayed, answered, nested>>

-------------------------------------------------------------------------------
\* _resolve: the first override that matches, or the default handlers.
Matching(p) == {i \in DOMAIN overrides : p \in overrides[i].matches}
Resolve(p) ==
    IF Matching(p) = {} THEN [matches |-> {}, outcome |-> Default(p), waits |-> FALSE]
    ELSE overrides[CHOOSE i \in Matching(p) : \A j \in Matching(p) : i <= j]

\* _interceptFetch up to the delay: what will be answered is settled before it. A route
\* without an answer leaves the caller waiting.
Fetch(p) ==
    /\ fetch = "mock" /\ Len(recorded) < MaxRequests
    /\ recorded' = Append(recorded, p)
    /\ LET route == Resolve(p)
           answer == [path |-> p, outcome |-> route.outcome, due |-> last[p]]
       IN  IF route.waits THEN delayed' = delayed \cup {answer} /\ UNCHANGED answered
                          ELSE answered' = answer /\ UNCHANGED delayed
    /\ UNCHANGED <<fetch, original, overrides, last, nested>>

\* The delay is over.
Reply(a) ==
    /\ delayed' = delayed \ {a} /\ answered' = a
    /\ UNCHANGED <<fetch, original, overrides, recorded, last, nested>>

MockNext ==
    \/ Install \/ Uninstall \/ Reset
    \/ \E m \in Matchers, o \in Outcomes, w \in BOOLEAN : On(m, o, w)
    \/ \E p \in Paths : Fetch(p)
    \/ \E a \in delayed : Reply(a)

-------------------------------------------------------------------------------
\* A test that tears down what it set up has the application's own fetch back, and while
\* the mock is installed that one is not lost; unless install was called twice in a row,
\* after which the mock takes itself for the original.
FetchIsRestored ==
    ~nested => (original = "real" <=> fetch = "mock") /\ original # "mock"

\* Every request is answered with what was declared last for its path when it was sent,
\* by exact path or by prefix, whatever was declared or reset while the answer was due.
AnswersAsDeclared ==
    \A a \in delayed \cup ({answered} \ {NoAnswer}) : a.outcome = a.due

MockSound == MockTypeOK /\ FetchIsRestored /\ AnswersAsDeclared
===============================================================================
