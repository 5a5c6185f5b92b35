------------------------------ MODULE Webhook ------------------------------
(* Outbound webhooks (internal/webhook/webhook.go): a matched mock starts a  *)
(* goroutine for each of its webhooks, the management API runs one in the    *)
(* request itself.  The call is tried until it succeeds or the retries are   *)
(* used up; each try leaves a record in a bounded history that the API may   *)
(* clear at any moment.                                                      *)
EXTENDS Integers, Sequences

CONSTANTS
    Dispatches,    \* dispatches that may run at one time
    Retries,       \* values of the webhook's retries setting
    MaxSize        \* capacity of the history

ASSUME WebhookAssumption == Retries \subseteq Int /\ MaxSize \in Nat \ {0}

VARIABLES
    call,          \* each dispatch: pc, retries, attempt
    history,       \* records, oldest first
    received       \* external: how often the callback's receiver saw each dispatch

hookVars == <<call, history, received>>

NewCall == [pc |-> "new", retries |-> 0, attempt |-> 1]

add(rec) == history' = LET h == Append(history, rec) IN IF Len(h) > MaxSize THEN Tail(h) ELSE h

\* The URL renders, and after the delay the first attempt is due; or it does
\* not, and a record says that the call was skipped.
Dispatch(d) ==
    /\ call[d].pc = "new"
    /\ \E n \in Retries :
        \/ /\ call' = [call EXCEPT ![d] = [pc |-> IF n + 1 >= 1 THEN "try" ELSE "done", retries |-> n, attempt |-> 1]]
           /\ UNCHANGED history
        \/ /\ call' = [call EXCEPT ![d] = [pc |-> "done", retries |-> n, attempt |-> 1]]
           /\ add([of |-> d, attempt |-> 1, outcome |-> "skipped"])
    /\ UNCHANGED received

\* An attempt fails before the receiver has it, is answered, or times out after
\* the receiver got it.
Outcomes == {"refused", "ok", "client error", "server error", "timeout"}

Succeeded(outcome) == outcome \in {"ok", "client error"}

AfterOneMore(d, outcome) ==
    IF Succeeded(outcome) \/ call[d].attempt > call[d].retries + 1 THEN [call[d] EXCEPT !.pc = "done"]
    ELSE [call[d] EXCEPT !.pc = "wait"]

\* What follows an attempt: the end, or a pause and the next attempt.
After(d, outcome) ==
    IF Succeeded(outcome) \/ call[d].attempt = call[d].retries + 1 THEN [call[d] EXCEPT !.pc = "done"]
    ELSE [call[d] EXCEPT !.pc = "wait"]

AttemptWithoutTimeout(d) ==
    /\ call[d].pc = "try"
    /\ \E outcome \in Outcomes :
        /\ IF outcome = "timeout"
           THEN call' = [call EXCEPT ![d].pc = "sent"] /\ UNCHANGED history
           ELSE /\ add([of |-> d, attempt |-> call[d].attempt, outcome |-> outcome])
                /\ call' = [call EXCEPT ![d] = After(d, outcome)]
        /\ received' = IF outcome = "refused" THEN received ELSE [received EXCEPT ![d] = @ + 1]

Attempt(d) ==
    /\ call[d].pc = "try"
    /\ \E outcome \in Outcomes :
        /\ add([of |-> d, attempt |-> call[d].attempt, outcome |-> outcome])
        /\ call' = [call EXCEPT ![d] = After(d, outcome)]
        /\ received' = IF outcome = "refused" THEN received ELSE [received EXCEPT ![d] = @ + 1]

Pause(d) ==
    /\ call[d].pc = "wait"
    /\ call' = [call EXCEPT ![d].pc = "try", ![d].attempt = @ + 1]
    /\ UNCHANGED <<history, received>>

\* DELETE /api/webhooks.
ClearHistory ==
    /\ history # <<>>
    /\ history' = <<>>
    /\ UNCHANGED <<call, received>>

HookInit ==
    /\ call = [d \in Dispatches |-> NewCall]
    /\ history = <<>>
    /\ received = [d \in Dispatches |-> 0]

DispatchStep(d) == Attempt(d) \/ Pause(d)

HookNext == ClearHistory \/ \E d \in Dispatches : Dispatch(d) \/ DispatchStep(d)

\* Each dispatch is a goroutine (or a request) of its own and every attempt has
\* a timeout.
HookFairness == \A d \in Dispatches : WF_hookVars(DispatchStep(d))

HookSpec == HookInit /\ [][HookNext]_hookVars

----------------------------------------------------------------------------
\* Record j of the history is the next one of the dispatch that left record i.
Follows(i, j) ==
    /\ i < j /\ history[i].of = history[j].of
    /\ \A k \in (i + 1)..(j - 1) : history[k].of # history[i].of

\* The records of one dispatch that the history still has are consecutive
\* attempts in their order, and none but the last was a success, whatever other
\* dispatches add in between and whenever the history is cleared.
HistoryIsCoherent ==
    \A i, j \in DOMAIN history :
        Follows(i, j) => /\ history[j].attempt = history[i].attempt + 1
                         /\ history[i].outcome \notin {"ok", "client error", "skipped"}

\* The receiver sees a callback at most once more than there are retries, even
\* when its answers are lost; a success in the history means that it saw it.
DeliveredWithinRetries ==
    \A d \in Dispatches :
        /\ call[d].pc # "new" /\ call[d].retries >= 0 => received[d] <= call[d].retries + 1
        /\ \A i \in DOMAIN history : history[i].of = d /\ history[i].outcome = "ok" => received[d] > 0

\* Webhook: the history has a dispatch's attempts in order, none after a
\* success, and the receiver sees a callback at most once more than its retries
\* (Dispatch's loop, Store.add).
DispatchesAreCoherent == HistoryIsCoherent /\ DeliveredWithinRetries

\* A dispatch that has begun comes to an end, after a bounded number of tries.
DispatchesEnd == \A d \in Dispatches : (call[d].pc \in {"try", "wait"}) ~> (call[d].pc = "done")
=============================================================================
