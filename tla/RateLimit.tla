----------------------------- MODULE RateLimit -----------------------------
(***************************************************************************)
(* The rate_limit fault: scenarios.Store.RateLimited, called by the HTTP   *)
(* handler once per request with the key of the fault's owner.  time.Now() *)
(* is read just before the store's mutex is taken; both are one instant    *)
(* here.  The window of a key starts with the first request that finds     *)
(* none younger than a second and then stands still: it does not slide.    *)
(***************************************************************************)
EXTENDS Integers, Functions

CONSTANTS
    Keys,           \* "http:global" and "http:mock:<id>"
    Limit,          \* requestsPerSecond of each key
    Second,         \* ticks in a second
    MaxTime,        \* bound: the clock stops here
    MaxPerTick      \* bound: requests per key and tick

VARIABLES
    now,            \* time.Now()
    rateWindows,    \* key -> [start, count], NoWindow before its first request
    passed,         \* key -> time -> requests that were let through
    seen            \* key -> requests in this tick, for the bound

vars == <<now, rateWindows, passed, seen>>

NoWindow == [start |-> -1, count |-> 0]

\* Broken variant of CurrentWindow: a window lasts one tick, the unit of the
\* clock, instead of a second.
CurrentWindowShort(k) ==
    LET w == rateWindows[k]
    IN  IF w = NoWindow \/ now - w.start >= 1
          THEN [start |-> now, count |-> 0]
          ELSE w

\* The window the request counts in: a new one when there is none or when a
\* second has passed since it started.
CurrentWindow(k) ==
    LET w == rateWindows[k]
    IN  IF w = NoWindow \/ now - w.start >= Second
          THEN [start |-> now, count |-> 0]
          ELSE w

RateLimited(k, w) == w.count > Limit[k]

\* A request asks for key k; a limit of 0 disables the fault.
Request(k) ==
    LET c == CurrentWindow(k)
        w == [c EXCEPT !.count = @ + 1]
    IN  /\ seen[k] < MaxPerTick
        /\ seen' = [seen EXCEPT ![k] = @ + 1]
        /\ IF Limit[k] = 0
             THEN /\ passed' = [passed EXCEPT ![k][now] = @ + 1]
                  /\ UNCHANGED rateWindows
             ELSE /\ rateWindows' = [rateWindows EXCEPT ![k] = w]
                  /\ passed' = IF RateLimited(k, w) THEN passed
                               ELSE [passed EXCEPT ![k][now] = @ + 1]
        /\ UNCHANGED now

Tick ==
    /\ now < MaxTime
    /\ now' = now + 1
    /\ seen' = [k \in Keys |-> 0]
    /\ UNCHANGED <<rateWindows, passed>>

Init ==
    /\ now = 0
    /\ rateWindows = [k \in Keys |-> NoWindow]
    /\ passed = [k \in Keys |-> [t \in 0 .. MaxTime |-> 0]]
    /\ seen = [k \in Keys |-> 0]

Next == Tick \/ \E k \in Keys : Request(k)

Spec == Init /\ [][Next]_vars

-----------------------------------------------------------------------------
(* Properties *)

\* Requests for k let through in the second that ends with tick t.
PassedInSecondTo(k, t) ==
    LET ticks == {u \in 0 .. MaxTime : t - Second < u /\ u <= t}
    IN  SumFunctionOnSet(passed[k], ticks)

\* In no second, wherever it starts, do more than twice the configured number
\* of requests get through: a second meets at most two windows of a key.
AtMostTwoWindowsPerSecond ==
    \A k \in Keys : Limit[k] > 0 =>
        \A t \in 0 .. now : PassedInSecondTo(k, t) <= 2 * Limit[k]

\* A limited key lets its full allowance through: a request is refused only
\* if Limit requests got through in the second before it.
NoEarlyRefusal ==
    [][\A k \in Keys :
         (seen'[k] = seen[k] + 1 /\ passed' = passed)
            => PassedInSecondTo(k, now) >= Limit[k]]_vars

=============================================================================
