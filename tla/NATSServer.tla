----------------------------- MODULE NATSServer ----------------------------
(***************************************************************************)
(* The subscriptions behind the NATS mocks (natsserver): Start connects    *)
(* the internal client and subscribes, SetMocks replaces the mocks under   *)
(* the lock and subscribes anew outside it, and a message finds the mocks  *)
(* through the subscriptions it meets.  The embedded broker is external.   *)
(*                                                                         *)
(* Start and several calls of SetMocks interleave.  matchPlainMock reads   *)
(* Server.mocks without the lock: a message that comes during SetMocks may *)
(* see parts of two lists, and any plain mock, or none, may answer it.     *)
(***************************************************************************)
EXTENDS Naturals, Sequences

CONSTANTS
    Setters,        \* concurrent calls of SetMocks
    QueueMocks,     \* mocks with a queue group
    PlainMocks,     \* the others
    MockLists,      \* what SetMocks may install: sequences of mocks
    MaxMessages

ASSUME NATSAssumption == MockLists \subseteq Seq(QueueMocks \cup PlainMocks)

VARIABLES
    natsMocks,      \* Server.mocks
    connected,      \* Server.nc # nil
    startPC,        \* "connect", "subscribe", "ready", "failed"
    setter,         \* setter -> "idle", "resubscribe"
    queueSubs,      \* mocks with a queue subscription
    catchAll,       \* the subscription to ">"
    intact,         \* the last resubscribe met no error
    met,            \* the last message: the mocks that handled it
    messages        \* bounds the model

natsVars == <<natsMocks, connected, startPC, setter, queueSubs, catchAll, intact,
              met, messages>>

Elements(ms) == {ms[i] : i \in DOMAIN ms}

NATSInit ==
    /\ natsMocks \in MockLists
    /\ connected = FALSE /\ startPC = "connect"
    /\ setter = [p \in Setters |-> "idle"]
    /\ queueSubs = {} /\ catchAll = FALSE /\ intact = TRUE
    /\ met = {} /\ messages = 0

\* The old queue subscriptions are not dropped.
resubscribeAdds(ms) ==
    /\ queueSubs' = queueSubs \cup (Elements(ms) \cap QueueMocks)
    /\ catchAll' = (Elements(ms) \cap PlainMocks # {})
    /\ intact' = TRUE

\* resubscribe, under the lock: all subscriptions are dropped and made anew
\* in the order of the mocks, the catch-all last.  The first error ends it with
\* those before the failing one.
resubscribe(ms) ==
    \/ /\ queueSubs' = Elements(ms) \cap QueueMocks
       /\ catchAll' = (Elements(ms) \cap PlainMocks # {})
       /\ intact' = TRUE
    \/ /\ \/ \E i \in DOMAIN ms :
                /\ ms[i] \in QueueMocks
                /\ queueSubs' = Elements(SubSeq(ms, 1, i - 1)) \cap QueueMocks
          \/ /\ Elements(ms) \cap PlainMocks # {}
             /\ queueSubs' = Elements(ms) \cap QueueMocks
       /\ catchAll' = FALSE
       /\ intact' = FALSE

(***************************************************************************)
(* Start: the connection is published before the first subscriptions.      *)
(***************************************************************************)
Connect ==
    /\ startPC = "connect"
    /\ connected' = TRUE /\ startPC' = "subscribe"
    /\ UNCHANGED <<natsMocks, setter, queueSubs, catchAll, intact, met, messages>>

Subscribe ==
    /\ startPC = "subscribe"
    /\ resubscribe(natsMocks)
    /\ startPC' = IF intact' THEN "ready" ELSE "failed"
    /\ UNCHANGED <<natsMocks, connected, setter, met, messages>>

(***************************************************************************)
(* SetMocks: the lock is released before resubscribe takes it again.       *)
(***************************************************************************)
NATSSetMocks(p, ms) ==
    /\ setter[p] = "idle"
    /\ natsMocks' = ms
    /\ setter' = [setter EXCEPT ![p] = IF connected THEN "resubscribe" ELSE "idle"]
    /\ UNCHANGED <<connected, startPC, queueSubs, catchAll, intact, met, messages>>

\* A failure is logged only.
Resubscribe(p) ==
    /\ setter[p] = "resubscribe"
    /\ resubscribe(natsMocks)
    /\ setter' = [setter EXCEPT ![p] = "idle"]
    /\ UNCHANGED <<natsMocks, connected, startPC, met, messages>>

\* A message whose subject the mocks in S match: each queue subscription
\* handles it with the mock it was made for, the catch-all with the first
\* plain mock of the current list.  What matchPlainMock may return, as a set:
matchPlainMock(S) ==
    LET hits == {i \in DOMAIN natsMocks : natsMocks[i] \in S \cap PlainMocks} IN
    IF \E p \in Setters : setter[p] # "idle" THEN {{}} \cup {{m} : m \in S \cap PlainMocks}
    ELSE {{natsMocks[i] : i \in {i \in hits : \A j \in hits : i <= j}}}

Message(S) ==
    /\ connected /\ startPC # "failed" /\ messages < MaxMessages
    /\ messages' = messages + 1
    /\ \E m \in matchPlainMock(S) : met' = (queueSubs \cap S) \cup (IF catchAll THEN m ELSE {})
    /\ UNCHANGED <<natsMocks, connected, startPC, setter, queueSubs, catchAll, intact>>

NATSNext ==
    \/ Connect \/ Subscribe
    \/ \E p \in Setters :
          \/ \E ms \in MockLists : NATSSetMocks(p, ms)
          \/ Resubscribe(p)
    \/ \E S \in SUBSET (QueueMocks \cup PlainMocks) : Message(S)

NATSSpec == NATSInit /\ [][NATSNext]_natsVars

----------------------------------------------------------------------------
Settled == startPC = "ready" /\ \A p \in Setters : setter[p] = "idle"

\* The subscriptions are those of the installed mocks.  They must be once
\* Start is ready and no SetMocks is under way, whichever call came last and
\* whether or not it overtook Start, unless the last resubscribe met an error.
SubscriptionsMatchMocks ==
    /\ queueSubs = Elements(natsMocks) \cap QueueMocks
    /\ catchAll = (Elements(natsMocks) \cap PlainMocks # {})

\* Even then, and after an error too, no message is handled by a mock that
\* was removed before it came.
RemovedMocksAreSilent ==
    [][messages' # messages /\ Settled => met' \subseteq Elements(natsMocks)]_natsVars

\* NATS: however SetMocks and Start overlap, the subscriptions end up those of
\* the installed mocks, and a removed mock handles no later message, not even
\* when resubscribe failed.
SubscriptionsFollowMocks ==
    [](Settled /\ intact => SubscriptionsMatchMocks) /\ RemovedMocksAreSilent
=============================================================================
