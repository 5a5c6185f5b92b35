------------------------------- MODULE Logger -------------------------------
(***************************************************************************)
(* logger.Logger: the request log every protocol server writes to, its     *)
(* broadcast to subscribers, WaitFor (behind POST /api/calls/http/{id}/    *)
(* wait) and ServeSSE (the log stream of the management API).              *)
(*                                                                         *)
(* Log appends under the mutex, takes a snapshot of the subscriber map and *)
(* sends after it released the mutex; a subscription ends by deleting the  *)
(* map entry under the mutex and closing the channel after it.  Writers    *)
(* are goroutines that log, readers are calls of WaitFor and ServeSSE.     *)
(* Subscription ids come from a nanosecond clock and are taken as unique,  *)
(* so a reader stands for its id and for its channel.                      *)
(***************************************************************************)
EXTENDS Integers, FiniteSets, Sequences

CONSTANTS
    Writers,        \* goroutines that call Log
    Waiters,        \* calls of WaitFor
    Streams,        \* calls of ServeSSE
    Mocks,          \* values of Entry.MatchedID
    Watched,        \* the mock each waiter waits for
    Want,           \* the count each waiter waits for
    MaxEntries,     \* maxEntries, after New's default
    ChanCap,        \* capacity of a subscriber channel (64 in the code)
    MaxLogs         \* bound: how many entries are ever logged

Readers == Waiters \cup Streams

ASSUME LoggerAssumption ==
    /\ MaxEntries \in Nat \ {0}
    /\ ChanCap \in Nat \ {0}
    /\ MaxLogs \in Nat
    /\ Watched \in [Waiters -> Mocks]
    /\ Want \in [Waiters -> Nat]

VARIABLES
    entries,        \* Logger.entries: the sequence is sorted by id, so a set
    logged,         \* number of entries logged so far, which numbers them
    subscribers,    \* Logger.subscribers
    chan,           \* reader -> buffered notifications
    closed,         \* channels that were closed
    sending,        \* writer -> id of the entry it is broadcasting
    targets,        \* writer -> channels of its snapshot it has still to try
    panicked,       \* writers that sent on a closed channel
    pc,             \* reader -> where it is in WaitFor or ServeSSE
    streamed        \* stream -> ids of the entries written to its client

vars == <<entries, logged, subscribers, chan, closed, sending, targets,
          panicked, pc, streamed>>

log == <<entries, logged>>
writers == <<sending, targets, panicked>>

Entry == [id : 1 .. MaxLogs, mock : Mocks]

\* Entries() without all but the MaxEntries most recent ones.
MostRecent(es) ==
    {e \in es : Cardinality({f \in es : f.id >= e.id}) <= MaxEntries}

EntriesByMockID(m) == {e \in entries : e.mock = m}

CountReached(r) == Cardinality(EntriesByMockID(Watched[r])) >= Want[r]

New ==
    /\ entries = {}
    /\ subscribers = {}

-----------------------------------------------------------------------------
(* Log *)

\* Append, trim and snapshot: the critical section of Log.
Log(w, m) ==
    LET e == [id |-> logged + 1, mock |-> m]
    IN  /\ logged < MaxLogs
        /\ w \notin panicked
        /\ targets[w] = {}
        /\ entries' = MostRecent(entries \cup {e})
        /\ logged' = logged + 1
        /\ sending' = [sending EXCEPT ![w] = e.id]
        /\ targets' = [targets EXCEPT ![w] = subscribers]
        /\ UNCHANGED <<subscribers, chan, closed, panicked, pc, streamed>>

\* Broken variant of Broadcast: a target stays in the snapshot after a send.
BroadcastTwice(w, r) ==
    /\ r \in targets[w] \ closed
    /\ w \notin panicked
    /\ Len(chan[r]) < ChanCap
    /\ chan' = [chan EXCEPT ![r] = Append(@, sending[w])]
    /\ UNCHANGED <<log, subscribers, closed, writers, pc, streamed>>

\* Broken variant of Broadcast: a full channel blocks the writer before
\* it reaches the others.
BroadcastBlocking(w, r) ==
    /\ r \in targets[w]
    /\ w \notin panicked
    /\ IF r \in closed
         THEN /\ panicked' = panicked \cup {w}
              /\ UNCHANGED <<targets, chan>>
         ELSE /\ \A x \in targets[w] \ closed : Len(chan[x]) < ChanCap
              /\ targets' = [targets EXCEPT ![w] = @ \ {r}]
              /\ chan' = [chan EXCEPT ![r] = Append(@, sending[w])]
              /\ UNCHANGED panicked
    /\ UNCHANGED <<log, subscribers, closed, sending, pc, streamed>>

\* One iteration of Log's broadcast loop, over a Go map's keys and so in any
\* order: a full channel drops the entry, a closed one panics.
Broadcast(w, r) ==
    /\ r \in targets[w]
    /\ w \notin panicked
    /\ IF r \in closed
         THEN /\ panicked' = panicked \cup {w}
              /\ UNCHANGED <<targets, chan>>
         ELSE /\ targets' = [targets EXCEPT ![w] = @ \ {r}]
              /\ chan' = IF Len(chan[r]) < ChanCap
                           THEN [chan EXCEPT ![r] = Append(@, sending[w])]
                           ELSE chan
              /\ UNCHANGED panicked
    /\ UNCHANGED <<log, subscribers, closed, sending, pc, streamed>>

Clear ==
    /\ entries' = {}
    /\ UNCHANGED <<logged, subscribers, chan, closed, writers, pc, streamed>>

ClearByMockID(m) ==
    /\ entries' = entries \ EntriesByMockID(m)
    /\ UNCHANGED <<logged, subscribers, chan, closed, writers, pc, streamed>>

-----------------------------------------------------------------------------
(* WaitFor and ServeSSE *)

\* Broken variant of Subscribe: no look at the log once registered.
SubscribeWithoutCheck(r) ==
    /\ pc[r] = "idle"
    /\ subscribers' = subscribers \cup {r}
    /\ pc' = [pc EXCEPT ![r] = "waiting"]
    /\ UNCHANGED <<log, chan, closed, writers, streamed>>

\* Registers the channel; a waiter checks the log only after that.
Subscribe(r) ==
    /\ pc[r] = "idle"
    /\ subscribers' = subscribers \cup {r}
    /\ pc' = [pc EXCEPT ![r] = IF r \in Waiters THEN "checking" ELSE "waiting"]
    /\ UNCHANGED <<log, chan, closed, writers, streamed>>

\* EntriesByMockID and the comparison with count, on entry and after every
\* notification.
Check(r) ==
    /\ r \in Waiters
    /\ pc[r] = "checking"
    /\ pc' = [pc EXCEPT ![r] = IF CountReached(r) THEN "returning" ELSE "waiting"]
    /\ UNCHANGED <<log, subscribers, chan, closed, writers, streamed>>

\* The channel case of the select statement of WaitFor and of ServeSSE.
Receive(r) ==
    /\ pc[r] = "waiting"
    /\ chan[r] # << >>
    /\ chan' = [chan EXCEPT ![r] = Tail(@)]
    /\ IF r \in Waiters
         THEN /\ pc' = [pc EXCEPT ![r] = "checking"]
              /\ UNCHANGED streamed
         ELSE /\ streamed' = [streamed EXCEPT ![r] = Append(@, Head(chan[r]))]
              /\ UNCHANGED pc
    /\ UNCHANGED <<log, subscribers, closed, writers>>

\* The ctx.Done case of the select: the timeout fired or the client left.
\* select picks any ready case, so a filled channel does not prevent it, and
\* the log that WaitFor reads to answer with may have reached the count.
Expire(r) ==
    /\ pc[r] = "waiting"
    /\ pc' = [pc EXCEPT ![r] = "returning"]
    /\ UNCHANGED <<log, subscribers, chan, closed, writers, streamed>>

\* The deferred cancel, under the mutex and then outside it.
Unsubscribe(r) ==
    /\ pc[r] = "returning"
    /\ subscribers' = subscribers \ {r}
    /\ pc' = [pc EXCEPT ![r] = "closing"]
    /\ UNCHANGED <<log, chan, closed, writers, streamed>>

CloseChannel(r) ==
    /\ pc[r] = "closing"
    /\ closed' = closed \cup {r}
    /\ pc' = [pc EXCEPT ![r] = "done"]
    /\ UNCHANGED <<log, subscribers, chan, writers, streamed>>

-----------------------------------------------------------------------------

Init ==
    /\ New
    /\ logged = 0
    /\ chan = [r \in Readers |-> << >>]
    /\ closed = {}
    /\ sending = [w \in Writers |-> 0]
    /\ targets = [w \in Writers |-> {}]
    /\ panicked = {}
    /\ pc = [r \in Readers |-> "idle"]
    /\ streamed = [r \in Streams |-> << >>]

Writer(w) == \/ \E m \in Mocks : Log(w, m)
             \/ \E r \in Readers : Broadcast(w, r)

Reader(r) == \/ Subscribe(r)
             \/ Check(r)
             \/ Receive(r)
             \/ Expire(r)
             \/ Unsubscribe(r)
             \/ CloseChannel(r)

Next == \/ \E w \in Writers : Writer(w)
        \/ \E r \in Readers : Reader(r)
        \/ Clear
        \/ \E m \in Mocks : ClearByMockID(m)

Spec == Init /\ [][Next]_vars

\* Goroutines that can run do run: a broadcast goes on, a waiter reads its
\* channel and the log.  Nothing makes a client log again or a timeout fire.
Fairness ==
    /\ \A w \in Writers, r \in Readers : WF_vars(Broadcast(w, r))
    /\ \A r \in Waiters : WF_vars(Check(r)) /\ WF_vars(Receive(r))

FairSpec == Spec /\ Fairness

-----------------------------------------------------------------------------
(* Properties *)

\* Type invariant; the log never holds more than maxEntries entries.
TypeOK ==
    /\ entries \subseteq Entry
    /\ IsFiniteSet(entries)
    /\ Cardinality(entries) <= MaxEntries
    /\ logged \in 0 .. MaxLogs
    /\ subscribers \subseteq Readers
    /\ chan \in [Readers -> Seq(0 .. MaxLogs)]
    /\ closed \subseteq Readers
    /\ sending \in [Writers -> 0 .. MaxLogs]
    /\ targets \in [Writers -> SUBSET Readers]
    /\ panicked \subseteq Writers
    /\ pc \in [Readers -> {"idle", "checking", "waiting",
                           "returning", "closing", "done"}]
    /\ streamed \in [Streams -> Seq(0 .. MaxLogs)]

\* A waiter never sleeps on a count that was reached: if WaitFor is blocked
\* with nothing in its channel and no Log call still holds that channel in
\* its snapshot, the log has fewer than count matching entries.  Subscribing
\* before the first check and sending after the append make it so, although
\* full channels drop entries and other waiters and clears interfere.
NoLostWakeup ==
    \A r \in Waiters :
        /\ pc[r] = "waiting"
        /\ chan[r] = << >>
        /\ \A w \in Writers : r \notin targets[w]
        => ~CountReached(r)

\* A log stream never repeats an entry, and carries no entry that is not
\* logged, whatever order concurrent broadcasts reach its channel in.
StreamsDoNotRepeat ==
    \A r \in Streams :
        LET s == streamed[r] \o chan[r]
        IN  /\ \A i, j \in DOMAIN s : s[i] = s[j] => i = j
            /\ \A i \in DOMAIN s : s[i] \in 1 .. logged

\* WaitFor returns on its own once the count is reached for good: only a
\* panic of a broadcasting goroutine can keep a waiter on its channel until
\* its timeout.
EventuallyWoken ==
    \A r \in Waiters :
        <>[](pc[r] \in {"checking", "waiting"} /\ CountReached(r))
            => <>(panicked # {})

\* "Log appends an entry and broadcasts it": the goroutine that logs survives
\* the broadcast, so no send ever meets a channel that a concurrent cancel
\* has closed.
LogSurvivesBroadcast == panicked = {}

=============================================================================
