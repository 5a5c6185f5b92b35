--------------------------- MODULE BrokersProofs ----------------------------
(***************************************************************************)
(* The servers through which clients reach each other or the mocks of a    *)
(* subject, for every number of clients, channels, connections, mocks and  *)
(* messages, and the buffer that keeps what they capture.                  *)
(*                                                                         *)
(* STOMP: the two maps of the broker agree, and a SEND reaches the         *)
(* subscribers it found.  The second needs the first: what deliver finds   *)
(* in the server's map are the clients' subscriptions only because the     *)
(* maps agree at that moment.  Both speak of the ids that were not used    *)
(* again while in use.                                                     *)
(*                                                                         *)
(* NATS: the subscriptions follow the mocks.  WebSocket: a connection      *)
(* keeps its mock.  AMQP: publishes are captured whole and answered once.  *)
(* The ring buffer keeps the MaxSize most recent items.                    *)
(***************************************************************************)
EXTENDS STOMPServer, NATSServer, WSServer, AMQPServer, RingBuffer, ListLemmas,
        SequenceTheorems, TLAPS

\* A leaf that names no prover is tried with these, in this order.
USE SMT, Zenon, SMTT(30)

-----------------------------------------------------------------------------
(* STOMP *)

Subscribers == Clients \X SubIDs

STOMPTypes ==
    /\ open \subseteq Clients
    /\ DOMAIN subs = Clients
    /\ \A c \in Clients : \A i \in DOMAIN subs[c] : i \in SubIDs /\ subs[c][i] \in Dests
    /\ subscriptions \subseteq Dests \X Clients \X SubIDs
    /\ sending \in [Clients -> SUBSET Subscribers]
    /\ started \in [Clients -> SUBSET Subscribers]

\* What is still to be written was there at the SEND; who was there at the SEND
\* and is still connected has its frame or will get it.
Underway ==
    \A c \in Clients :
        /\ sending[c] \ reused \subseteq started[c]
        /\ \A s \in started[c] :
              s[1] \in open => s \in sending[c] \/ <<s[1], s[2], c>> \in outbox

STOMPInv == STOMPTypes /\ SubscriptionMapsAgree /\ Underway

LEMMA InitSTOMP == STOMPInit => STOMPInv
BY DEF STOMPInit, STOMPInv, STOMPTypes, SubscriptionMapsAgree, Underway, Subscribers

\* SUBSCRIBE
LEMMA AddStep ==
    ASSUME STOMPInv, NEW c \in Clients, NEW id \in SubIDs, NEW d \in Dests, addSubscription(c, id, d)
    PROVE  STOMPInv'
<1> USE DEF STOMPInv, addSubscription, Reads, delivery
<1>1. STOMPTypes' BY DEF STOMPTypes, Subscribers
<1>2. SubscriptionMapsAgree' BY DEF STOMPTypes, SubscriptionMapsAgree
<1>3. Underway' BY Zenon DEF Underway
<1> QED BY <1>1, <1>2, <1>3, Zenon

\* One subscription is dropped from both maps, by UNSUBSCRIBE or removeClient.
LEMMA DropStep ==
    ASSUME STOMPInv, NEW c \in Clients, NEW id \in SubIDs, Drop(c, id),
           UNCHANGED <<open, reused, delivery>>
    PROVE  STOMPInv'
<1> USE DEF STOMPInv, Drop, delivery
<1>1. STOMPTypes' BY Zenon DEF STOMPTypes, Subscribers
<1>2. SubscriptionMapsAgree'
  <2>1. ASSUME NEW s \in subscriptions', <<s[2], s[3]>> \notin reused PROVE
          s[3] \in DOMAIN subs'[s[2]] /\ subs'[s[2]][s[3]] = s[1]
    <3>1. s \in subscriptions /\ s = <<s[1], s[2], s[3]>>
      BY DEF STOMPTypes
    <3>2. s[3] \in DOMAIN subs[s[2]] /\ subs[s[2]][s[3]] = s[1]
      BY <2>1, <3>1, Zenon DEF SubscriptionMapsAgree
    <3>3. ~(s[2] = c /\ s[3] = id)
      BY <3>1, <3>2, Zenon
    <3> QED BY <3>2, <3>3, Zenon DEF STOMPTypes
  <2>2. ASSUME NEW e \in Clients, NEW i \in DOMAIN subs'[e] PROVE
          <<subs'[e][i], e, i>> \in subscriptions'
    <3>1. i \in DOMAIN subs[e] /\ subs'[e][i] = subs[e][i] /\ ~(e = c /\ i = id)
      BY Zenon DEF STOMPTypes
    <3> QED BY <3>1 DEF SubscriptionMapsAgree
  <2> QED BY <2>1, <2>2, Zenon DEF SubscriptionMapsAgree
<1>3. Underway' BY Zenon DEF Underway
<1> QED BY <1>1, <1>2, <1>3, Zenon

\* The end of a connection
LEMMA RemoveClientStep ==
    ASSUME STOMPInv, NEW c \in Clients, Break(c) \/ Leave(c) \/ removeClient(c)
    PROVE  STOMPInv'
<1>1. ASSUME NEW id \in DOMAIN subs[c], Drop(c, id), UNCHANGED <<open, reused, delivery>>
      PROVE  STOMPInv'
  <2>1. id \in SubIDs BY Zenon DEF STOMPInv, STOMPTypes
  <2> QED BY <1>1, <2>1, DropStep, Zenon
<1>2. ASSUME open' \subseteq open, UNCHANGED <<subs, subscriptions, reused, delivery>>
      PROVE  STOMPInv'
  BY <1>2, Zenon DEF STOMPInv, STOMPTypes, SubscriptionMapsAgree, Underway, Subscribers, delivery
<1>3. CASE Break(c) \/ Leave(c) BY <1>2, <1>3, Zenon DEF Break, Leave
<1>4. CASE removeClient(c) BY <1>1, <1>2, <1>4, Zenon DEF removeClient
<1> QED BY <1>3, <1>4, Zenon

\* SEND
LEMMA DeliverStep ==
    ASSUME STOMPInv, NEW c \in Clients, NEW d \in Dests, deliver(c, d)
    PROVE  STOMPInv'
<1> USE DEF STOMPInv, deliver, Reads
<1>1. STOMPTypes' BY DEF STOMPTypes, Subscribers
<1>2. SubscriptionMapsAgree' BY Zenon DEF SubscriptionMapsAgree
<1>3. Underway'
  <2>1. sending'[c] \ reused' \subseteq started'[c]
    BY DEF STOMPTypes, SubscriptionMapsAgree
  <2>2. ASSUME NEW s \in started'[c], s[1] \in open PROVE s \in sending'[c]
    <3>1. /\ s \in Clients \X SubIDs /\ s[2] \in DOMAIN subs[s[1]] /\ subs[s[1]][s[2]] = d
      BY <2>2, Zenon DEF STOMPTypes
    <3>2. <<d, s[1], s[2]>> \in subscriptions
      BY <2>2, <3>1, Zenon DEF SubscriptionMapsAgree
    <3>3. <<s[1], s[2]>> \in sending'[c]
      BY <3>2 DEF STOMPTypes
    <3> QED BY <3>1, <3>3
  <2>3. ASSUME NEW e \in Clients \ {c} PROVE
          /\ sending'[e] = sending[e] /\ started'[e] = started[e]
          /\ \A s : <<s[1], s[2], e>> \in outbox => <<s[1], s[2], e>> \in outbox'
    BY <2>3, Zenon DEF STOMPTypes
  <2> QED BY <2>1, <2>2, <2>3, Zenon DEF Underway
<1> QED BY <1>1, <1>2, <1>3, Zenon

\* One MESSAGE frame
LEMMA WriteStep ==
    ASSUME STOMPInv, NEW c \in Clients, writeFrame(c)
    PROVE  STOMPInv'
<1> USE DEF STOMPInv, writeFrame
<1>1. STOMPTypes' BY DEF STOMPTypes, Subscribers
<1>2. SubscriptionMapsAgree' BY Zenon DEF SubscriptionMapsAgree
<1>3. Underway' BY DEF Underway, STOMPTypes, Subscribers
<1> QED BY <1>1, <1>2, <1>3, Zenon

LEMMA NextSTOMP == STOMPInv /\ [STOMPNext]_stompVars => STOMPInv'
<1> SUFFICES ASSUME STOMPInv, [STOMPNext]_stompVars PROVE STOMPInv'
  BY Zenon
<1>1. CASE UNCHANGED stompVars
  BY <1>1, Zenon DEF stompVars, delivery, STOMPInv, STOMPTypes, SubscriptionMapsAgree, Underway, Subscribers
<1>2. ASSUME NEW c \in Clients, NEW id \in SubIDs, removeSubscription(c, id) PROVE STOMPInv'
  BY <1>2, DropStep, Zenon DEF removeSubscription
<1> QED BY <1>1, <1>2, AddStep, RemoveClientStep, DeliverStep, WriteStep, Zenon DEF STOMPNext

\* However SUBSCRIBE, UNSUBSCRIBE, SEND and the ends of connections interleave,
\* the server's subscriptions are exactly those of the clients, but for ids that
\* were used again while in use; a SEND is delivered to those who were subscribed
\* when it was handled, and when it is done to all that are still connected.
THEOREM SubscribersServed == STOMPSpec => []SubscribersAreServed
<1>1. STOMPInv => SubscriptionMapsAgree BY Zenon DEF STOMPInv
<1>2. STOMPInv => DeliveredToSubscribers
  BY Zenon DEF STOMPInv, Underway, STOMPTypes, Subscribers, DeliveredToSubscribers
<1>3. STOMPInv => SubscribersAreServed BY <1>1, <1>2, Zenon DEF SubscribersAreServed
<1> QED BY <1>3, InitSTOMP, NextSTOMP, PTL DEF STOMPSpec
-----------------------------------------------------------------------------
(* NATS *)

\* Once settled, only mocks of the current list have a queue subscription, and
\* all of them have when the last resubscribe met no error.  Start sets the
\* connection before it subscribes: a SetMocks that finds none comes before
\* Subscribe, which then reads its list.
NATSInv ==
    /\ natsMocks \in Seq(QueueMocks \cup PlainMocks)
    /\ setter \in [Setters -> {"idle", "resubscribe"}]
    /\ startPC = "connect" <=> ~connected
    /\ Settled => queueSubs \subseteq Elements(natsMocks)
    /\ Settled /\ intact => SubscriptionsMatchMocks

LEMMA InitNATS == NATSInit => NATSInv
BY NATSAssumption, Zenon DEF NATSInit, NATSInv, Settled, SubscriptionsMatchMocks

\* The mocks before the i-th are mocks of the list.
LEMMA PrefixElements ==
    ASSUME NEW S, NEW ms \in Seq(S), NEW i \in DOMAIN ms
    PROVE  Elements(SubSeq(ms, 1, i - 1)) \subseteq Elements(ms)
<1> DEFINE t == SubSeq(ms, 1, i - 1)
<1>1. DOMAIN t = 1 .. i - 1 /\ \A j \in 1 .. i - 1 : t[j] = ms[j] /\ j \in DOMAIN ms
  OBVIOUS
<1> HIDE DEF t
<1>2. Elements(t) \subseteq Elements(ms)
  BY <1>1, Zenon DEF Elements
<1> QED BY <1>2, Zenon DEF t

\* resubscribe leaves the subscriptions of the list it reads, or some of them.
LEMMA Resubscribed ==
    ASSUME natsMocks \in Seq(QueueMocks \cup PlainMocks), resubscribe(natsMocks)
    PROVE  /\ queueSubs' \subseteq Elements(natsMocks)
           /\ intact' => /\ queueSubs' = Elements(natsMocks) \cap QueueMocks
                         /\ catchAll' = (Elements(natsMocks) \cap PlainMocks # {})
<1>1. CASE /\ queueSubs' = Elements(natsMocks) \cap QueueMocks
           /\ catchAll' = (Elements(natsMocks) \cap PlainMocks # {})
  BY <1>1, Zenon
<1>2. CASE /\ \E i \in DOMAIN natsMocks :
                 /\ natsMocks[i] \in QueueMocks
                 /\ queueSubs' = Elements(SubSeq(natsMocks, 1, i - 1)) \cap QueueMocks
           /\ intact' = FALSE
  BY <1>2, PrefixElements, Zenon
<1>3. CASE queueSubs' = Elements(natsMocks) \cap QueueMocks /\ intact' = FALSE
  BY <1>3, Zenon
<1> QED BY <1>1, <1>2, <1>3, Zenon DEF resubscribe

LEMMA NextNATS == NATSInv /\ [NATSNext]_natsVars => NATSInv'
<1> SUFFICES ASSUME NATSInv, [NATSNext]_natsVars PROVE NATSInv'
  BY Zenon
<1>1. CASE Connect
  BY <1>1, Zenon DEF Connect, NATSInv, Settled, SubscriptionsMatchMocks
<1>2. CASE Subscribe
  <2>1. resubscribe(natsMocks) /\ UNCHANGED <<natsMocks, setter, connected>>
        /\ startPC = "subscribe" /\ startPC' # "connect"
    BY <1>2, Zenon DEF Subscribe
  <2>2. /\ queueSubs' \subseteq Elements(natsMocks)
        /\ intact' => /\ queueSubs' = Elements(natsMocks) \cap QueueMocks
                      /\ catchAll' = (Elements(natsMocks) \cap PlainMocks # {})
    BY <2>1, Resubscribed, Zenon DEF NATSInv
  <2> QED BY <2>1, <2>2, Zenon DEF NATSInv, Settled, SubscriptionsMatchMocks
<1>3. ASSUME NEW p \in Setters, NEW ms \in MockLists, NATSSetMocks(p, ms) PROVE NATSInv'
  <2>1. ~Settled'
    <3>1. CASE connected
      BY <1>3, <3>1, Zenon DEF NATSSetMocks, Settled, NATSInv
    <3>2. CASE ~connected
      BY <1>3, <3>2, Zenon DEF NATSSetMocks, Settled, NATSInv
    <3> QED BY <3>1, <3>2, Zenon
  <2>2. natsMocks' \in Seq(QueueMocks \cup PlainMocks)
    BY <1>3, NATSAssumption, Zenon DEF NATSSetMocks
  <2>3. setter' \in [Setters -> {"idle", "resubscribe"}]
    BY <1>3, Zenon DEF NATSSetMocks, NATSInv
  <2> QED BY <1>3, <2>1, <2>2, <2>3, Zenon DEF NATSSetMocks, NATSInv, SubscriptionsMatchMocks
<1>4. ASSUME NEW p \in Setters, Resubscribe(p) PROVE NATSInv'
  <2>1. resubscribe(natsMocks) /\ UNCHANGED <<natsMocks, connected, startPC>>
    BY <1>4, Zenon DEF Resubscribe
  <2>2. /\ queueSubs' \subseteq Elements(natsMocks)
        /\ intact' => /\ queueSubs' = Elements(natsMocks) \cap QueueMocks
                      /\ catchAll' = (Elements(natsMocks) \cap PlainMocks # {})
    BY <2>1, Resubscribed, Zenon DEF NATSInv
  <2>3. setter' \in [Setters -> {"idle", "resubscribe"}]
    BY <1>4, Zenon DEF Resubscribe, NATSInv
  <2> QED BY <2>1, <2>2, <2>3, Zenon DEF NATSInv, SubscriptionsMatchMocks
<1>5. ASSUME NEW S \in SUBSET (QueueMocks \cup PlainMocks), Message(S) PROVE NATSInv'
  BY <1>5, Zenon DEF Message, NATSInv, Settled, SubscriptionsMatchMocks
<1>6. CASE UNCHANGED natsVars
  BY <1>6, Zenon DEF natsVars, NATSInv, Settled, SubscriptionsMatchMocks
<1> QED BY <1>1, <1>2, <1>3, <1>4, <1>5, <1>6, Zenon DEF NATSNext

\* A message that comes when the subscriptions are settled meets mocks of the
\* current list only.
LEMMA SilentStep ==
    ASSUME NATSInv, [NATSNext]_natsVars, messages' # messages, Settled
    PROVE  met' \subseteq Elements(natsMocks)
<1>1. PICK S \in SUBSET (QueueMocks \cup PlainMocks) : Message(S)
  BY Zenon DEF NATSNext, natsVars, Connect, Subscribe, NATSSetMocks, Resubscribe
<1>2. PICK m \in matchPlainMock(S) :
         met' = (queueSubs \cap S) \cup (IF catchAll THEN m ELSE {})
  BY <1>1, Zenon DEF Message
<1>3. m \subseteq Elements(natsMocks)
  BY Zenon DEF matchPlainMock, Elements, Settled
<1> QED BY <1>2, <1>3, Zenon DEF NATSInv

\* NATS: for any mocks and any number of overlapping calls of SetMocks, beside
\* Start too, the subscriptions end up those of the installed mocks, and a
\* removed mock handles no later message (resubscribe, SetMocks).
THEOREM SubscriptionsFollow == NATSSpec => SubscriptionsFollowMocks
<1>1. NATSInv => (Settled /\ intact => SubscriptionsMatchMocks)
  BY Zenon DEF NATSInv
<1>2. NATSInv /\ [NATSNext]_natsVars =>
        [messages' # messages /\ Settled => met' \subseteq Elements(natsMocks)]_natsVars
  BY SilentStep, Zenon
<1> QED BY <1>1, <1>2, InitNATS, NextNATS, PTL
        DEF NATSSpec, SubscriptionsFollowMocks, RemovedMocksAreSilent

-----------------------------------------------------------------------------
(* WebSocket *)

Conn == [path : WSPaths \cup {"none"}, version : Nat,
         at : {"idle", "read", "rule", "closed"}, frames : Nat, fault : BOOLEAN]

\* What is logged of a connection is logged once it is open, and under the
\* version it began with.
WSInv ==
    /\ wsMocks \in [WSPaths -> Nat] /\ routes \in [WSPaths -> Nat] /\ changes \in Nat
    /\ ws \in [WSConns -> Conn]
    /\ \A e \in log : /\ e[1] \in WSConns /\ ws[e[1]].at # "idle"
                      /\ e[2] = ws[e[1]].version

LEMMA InitWS == WSInit => WSInv
<1> SUFFICES ASSUME WSInit PROVE WSInv
  BY Zenon
<1>1. Unconnected \in Conn
  BY Zenon DEF Unconnected, Conn, Absent
<1>2. wsMocks \in [WSPaths -> Nat]
  BY DEF WSInit, Absent
<1> QED BY <1>1, <1>2, Zenon DEF WSInit, WSInv, Absent

\* A connection changes, and keeps its version unless it begins.
LEMMA ConnStep ==
    ASSUME WSInv, NEW c \in WSConns, NEW r \in Conn, ws' = [ws EXCEPT ![c] = r],
           ws[c].at # "idle" => r.version = ws[c].version, r.at # "idle",
           UNCHANGED <<wsMocks, changes, routes>>,
           log' = log \/ log' = log \cup {<<c, r.version>>}
    PROVE  WSInv'
<1>1. ws' \in [WSConns -> Conn] /\ ws'[c] = r /\ \A d \in WSConns \ {c} : ws'[d] = ws[d]
  BY Zenon DEF WSInv
<1>2. ASSUME NEW e \in log'
      PROVE  e[1] \in WSConns /\ ws'[e[1]].at # "idle" /\ e[2] = ws'[e[1]].version
  <2>1. CASE e \in log
    BY <1>1, <2>1, Zenon DEF WSInv
  <2>2. CASE e = <<c, r.version>>
    BY <1>1, <2>2, Zenon
  <2> QED BY <2>1, <2>2, Zenon
<1> QED BY <1>1, <1>2, Zenon DEF WSInv

\* The record an open connection has next.
LEMMA OpenStep ==
    ASSUME WSInv, NEW c \in WSConns, NEW p \in WSPaths, Open(c, p)
    PROVE  WSInv'
<1> DEFINE r == [Unconnected EXCEPT !.path = p, !.version = RouteOf(p), !.at = "read"]
<1>1. RouteOf(p) \in Nat
  BY Zenon DEF WSInv, RouteOf
<1>2. r \in Conn /\ r.version = RouteOf(p) /\ r.at = "read"
  BY <1>1, Zenon DEF Unconnected, Conn, Absent
<1>3. /\ ws' = [ws EXCEPT ![c] = r] /\ ws[c].at = "idle" /\ log' = log \cup {<<c, RouteOf(p)>>}
      /\ UNCHANGED <<wsMocks, changes, routes>>
  BY Zenon DEF Open
<1> HIDE DEF r
<1> QED BY <1>2, <1>3, ConnStep, Zenon

LEMMA FrameStep ==
    ASSUME WSInv, NEW c \in WSConns, NEW f \in BOOLEAN, Frame(c, f)
    PROVE  WSInv'
<1> DEFINE k == ws[c].frames + 1
           r == [ws[c] EXCEPT !.at = "rule", !.fault = f, !.frames = k]
<1>1. ws[c] \in Conn
  BY Zenon DEF WSInv
<1>4. k \in Nat
  BY <1>1 DEF Conn
<1>5. ws' = [ws EXCEPT ![c] = r]
  BY Zenon DEF Frame, WSInv
<1> HIDE DEF k
<1>2. r \in Conn /\ r.version = ws[c].version /\ r.at = "rule"
  BY <1>1, <1>4, Zenon DEF Conn
<1>3. UNCHANGED <<wsMocks, changes, routes, log>>
  BY Zenon DEF Frame
<1> HIDE DEF r
<1> QED BY <1>2, <1>3, <1>5, ConnStep, Zenon

LEMMA RuleStep ==
    ASSUME WSInv, NEW c \in WSConns, NEW what, Rule(c, what)
    PROVE  WSInv'
<1> DEFINE a == IF what \in {"fault", "close"} THEN "closed" ELSE "read"
           r == [ws[c] EXCEPT !.at = a, !.fault = FALSE]
<1>1. ws[c] \in Conn /\ a \in {"closed", "read"}
  BY Zenon DEF WSInv
<1>4. ws' = [ws EXCEPT ![c] = r]
  BY Zenon DEF Rule, WSInv
<1> HIDE DEF a
<1>2. r \in Conn /\ r.version = ws[c].version /\ r.at # "idle"
  BY <1>1, Zenon DEF Conn
<1>3. /\ UNCHANGED <<wsMocks, changes, routes>>
      /\ log' = log \/ log' = log \cup {<<c, ws[c].version>>}
  BY Zenon DEF Rule, RulesOf
<1> HIDE DEF r
<1> QED BY <1>2, <1>3, <1>4, ConnStep, Zenon

LEMMA ClosesStep ==
    ASSUME WSInv, NEW c \in WSConns, ClientCloses(c)
    PROVE  WSInv'
<1> DEFINE r == [ws[c] EXCEPT !.at = "closed"]
<1>1. ws[c] \in Conn
  BY Zenon DEF WSInv
<1>2. r \in Conn /\ r.version = ws[c].version /\ r.at # "idle"
  BY <1>1, Zenon DEF Conn
<1>3. ws' = [ws EXCEPT ![c] = r] /\ UNCHANGED <<wsMocks, changes, routes, log>>
  BY Zenon DEF ClientCloses, WSInv
<1> HIDE DEF r
<1> QED BY <1>2, <1>3, ConnStep, Zenon

LEMMA NextWS == WSInv /\ [WSNext]_wsVars => WSInv'
<1> SUFFICES ASSUME WSInv, [WSNext]_wsVars PROVE WSInv'
  BY Zenon
<1>1. CASE Start
  BY <1>1, Zenon DEF Start, WSInv
<1>2. ASSUME NEW p \in WSPaths, NEW remove \in BOOLEAN, WSSetMocks(p, remove) PROVE WSInv'
  BY <1>2 DEF WSSetMocks, WSInv, Absent
<1>3. ASSUME NEW c \in WSConns,
             \/ \E p \in WSPaths : Open(c, p)
             \/ \E f \in BOOLEAN : Frame(c, f)
             \/ \E what \in {"none", "fault", "close", "respond"} : Rule(c, what)
             \/ ClientCloses(c)
      PROVE  WSInv'
  BY <1>3, OpenStep, FrameStep, RuleStep, ClosesStep, Zenon
<1>4. CASE UNCHANGED wsVars
  BY <1>4, Zenon DEF wsVars, WSInv
<1> QED BY <1>1, <1>2, <1>3, <1>4, Zenon DEF WSNext

\* A connection that begins is one that Open makes.
LEMMA BeginStep ==
    ASSUME WSInv, [WSNext]_wsVars, NEW c \in WSConns, ws[c].at = "idle", ws'[c].at = "read",
           routes[ws'[c].path] = Absent
    PROVE  ws'[c].version = wsMocks[ws'[c].path] /\ wsMocks[ws'[c].path] # Absent
<1>1. \E p \in WSPaths : Open(c, p)
  <2>1. ws' # ws
    BY Zenon
  <2>2. PICK d \in WSConns :
          \/ \E p \in WSPaths : Open(d, p)
          \/ \E f \in BOOLEAN : Frame(d, f)
          \/ \E what \in {"none", "fault", "close", "respond"} : Rule(d, what)
          \/ ClientCloses(d)
    BY <2>1, Zenon DEF WSNext, wsVars, Start, WSSetMocks
  <2>3. d = c
    BY <2>2, Zenon DEF Open, Frame, Rule, ClientCloses, WSInv
  <2> QED BY <2>2, <2>3, Zenon DEF Frame, Rule, ClientCloses
<1>2. PICK p \in WSPaths : Open(c, p)
  BY <1>1, Zenon
<1>3. ws'[c] = [Unconnected EXCEPT !.path = p, !.version = RouteOf(p), !.at = "read"]
  BY <1>2, Zenon DEF Open, WSInv
<1>4. ws'[c].path = p /\ ws'[c].version = RouteOf(p) /\ RouteOf(p) # Absent
  BY <1>2, <1>3, Zenon DEF Open, Unconnected
<1> QED BY <1>4, Zenon DEF RouteOf

\* WebSocket: for any paths, connections and changes of the mocks, a connection
\* is answered and logged by the mock it began with (handleConn), and a path
\* without a route of Start's is served by its current mock (handleDynamic).
THEOREM ConnectionsKeep == WSSpec => ConnectionsKeepTheirMock
<1>1. WSInv => \A e1, e2 \in log : e1[1] = e2[1] => e1[2] = e2[2]
  BY Zenon DEF WSInv
<1>2. WSInv /\ [WSNext]_wsVars =>
        [\A c \in WSConns : ws[c].at = "idle" /\ ws'[c].at = "read" =>
           LET p == ws'[c].path IN
           routes[p] = Absent => ws'[c].version = wsMocks[p] /\ wsMocks[p] # Absent]_wsVars
  BY BeginStep, Zenon
<1> QED BY <1>1, <1>2, InitWS, NextWS, PTL
        DEF WSSpec, ConnectionsKeepTheirMock, DynamicPathsAreCurrent

-----------------------------------------------------------------------------
(* AMQP *)

Pub == [id : Nat \ {0}, header : BOOLEAN, bodySize : Nat, body : Seq(Nat)]

Proc == [id : Nat \ {0}, channel : Channels, queues : Seq(Queues \cup RoutingKeys)]

AMQPTypes ==
    /\ topology \in BOOLEAN
    /\ sent \in Seq([key : RoutingKeys, size : Nat])
    /\ publishes \in [Channels -> Pub \cup {NoPublish}]
    /\ proc \in Proc \cup {NoPublish}
    /\ stored \in Seq([id : Nat \ {0}, body : Seq(Nat)])
    /\ delivered \in [Deliveries -> Nat]

Captured == {stored[i].id : i \in DOMAIN stored}

Distinct(s) == \A i, j \in DOMAIN s : i # j => s[i] # s[j]

\* A channel's publish is one that was sent and not captured, no other
\* channel's, with body units of its own only.
Pending(c) ==
    publishes[c] # NoPublish =>
        /\ publishes[c].id \in 1 .. Len(sent) /\ publishes[c].id \notin Captured
        /\ publishes[c].header => publishes[c].bodySize = sent[publishes[c].id].size
        /\ \A j \in 1 .. Len(publishes[c].body) : publishes[c].body[j] = publishes[c].id
        /\ \A d \in Channels \ {c} : publishes[d] # NoPublish => publishes[d].id # publishes[c].id

\* What is answered was captured and not dropped, and a queue that the
\* publish in processPublish is still to be routed to was not answered.
Answers ==
    /\ dropped \subseteq Captured
    /\ \A d \in Deliveries : delivered[d] > 0 => d[1] \in Captured
    /\ proc # NoPublish =>
         /\ proc.id \in Captured
         /\ Distinct(proc.queues)
         /\ \A d \in Deliveries : delivered[d] > 0 /\ d[1] = proc.id /\ proc.queues # <<>> =>
               topology /\ d[2] \notin Range(proc.queues)

AMQPInv ==
    /\ AMQPTypes
    /\ \A c \in Channels : Pending(c)
    /\ Captured \subseteq 1 .. Len(sent)
    /\ Answers
    /\ PublishesAreWhole

LEMMA NoneIsNone == NoPublish \notin Pub /\ NoPublish \notin Proc
BY Zenon DEF NoPublish, Pub, Proc

\* The loop of routeToQueues: what it has after each binding.
Routes(out, k, n) ==
    out = [i \in 0 .. n |->
             IF i = 0 THEN <<>>
             ELSE IF k \in Bindings[i].keys /\ Bindings[i].queue \notin Range(out[i - 1])
               THEN Append(out[i - 1], Bindings[i].queue)
             ELSE out[i - 1]]

LEMMA RoutesExist ==
    ASSUME NEW k, NEW n \in Nat
    PROVE  \E out : Routes(out, k, n)
<1> DEFINE T == {i \in Nat : \E out : Routes(out, k, i)}
<1>1. 0 \in T
  <2>1. Routes([i \in 0 .. 0 |-> <<>>], k, 0)
    BY DEF Routes
  <2> QED BY <2>1, Zenon
<1>2. ASSUME NEW m \in 0 .. n - 1, m \in T PROVE m + 1 \in T
  <2>1. PICK f : Routes(f, k, m)
    BY <1>2, Zenon
  <2> DEFINE step(i, v) == IF k \in Bindings[i].keys /\ Bindings[i].queue \notin Range(v)
                           THEN Append(v, Bindings[i].queue) ELSE v
             g == [i \in 0 .. m + 1 |-> IF i = m + 1 THEN step(i, f[m]) ELSE f[i]]
  <2>2. ASSUME NEW i \in 0 .. m + 1
        PROVE  g[i] = IF i = 0 THEN <<>> ELSE step(i, g[i - 1])
    <3>0. /\ m + 1 \in 0 .. m + 1 /\ m \in 0 .. m + 1 /\ m # m + 1 /\ m + 1 - 1 = m
          /\ 0 \in 0 .. m + 1 /\ 0 \in 0 .. m /\ 0 # m + 1
          /\ (i = m + 1 \/ i = 0 \/ i \in 1 .. m)
      OBVIOUS
    <3>1. CASE i = m + 1
      <4>1. g[m + 1] = step(m + 1, f[m]) /\ g[m] = f[m]
        BY <3>0, Zenon
      <4>2. i - 1 = m /\ i # 0
        BY <3>1
      <4> HIDE DEF g, step
      <4> QED BY <3>1, <4>1, <4>2, Zenon
    <3>2. CASE i = 0
      <4>1. g[0] = f[0] /\ f[0] = <<>>
        BY <2>1, <3>0, Zenon DEF Routes
      <4> QED BY <3>2, <4>1, Zenon
    <3>3. CASE i \in 1 .. m
      <4>1. f[i] = step(i, f[i - 1])
        <5>1. i \in 0 .. m /\ i # 0
          BY <1>2, <3>3
        <5> QED BY <2>1, <5>1, Zenon DEF Routes
      <4>2. g[i] = f[i] /\ g[i - 1] = f[i - 1]
        BY <1>2, <3>3
      <4> QED BY <3>3, <4>1, <4>2
    <3> QED BY <3>0, <3>1, <3>2, <3>3, Zenon
  <2>3. g = [i \in 0 .. m + 1 |-> g[i]]
    BY Zenon
  <2> HIDE DEF g
  <2>4. Routes(g, k, m + 1)
    BY <2>2, <2>3, Zenon DEF Routes
  <2> QED BY <1>2, <2>4
<1> HIDE DEF T
<1>3. 0 .. n \subseteq T
  BY <1>1, <1>2, InductionUpTo, Zenon
<1>4. n \in T
  BY <1>3
<1> QED BY <1>4, Zenon DEF T

\* A queue that is not in the list goes to its end.
LEMMA AppendDistinct ==
    ASSUME NEW s \in Seq(Queues), Distinct(s), NEW q \in Queues, q \notin Range(s)
    PROVE  Append(s, q) \in Seq(Queues) /\ Distinct(Append(s, q))
<1> DEFINE t == Append(s, q)
<1>1. /\ Len(s) \in Nat /\ t \in Seq(Queues) /\ DOMAIN s = 1 .. Len(s)
      /\ DOMAIN t = 1 .. Len(s) + 1 /\ t[Len(s) + 1] = q
      /\ \A i \in 1 .. Len(s) : t[i] = s[i]
  OBVIOUS
<1> HIDE DEF t
<1>2. \A i \in DOMAIN t : (i \in DOMAIN s /\ t[i] = s[i]) \/ (i = Len(s) + 1 /\ t[i] = q)
  <2>1. \A i \in DOMAIN t : i \in 1 .. Len(s) \/ i = Len(s) + 1
    BY <1>1
  <2> QED BY <1>1, <2>1, Zenon
<1>3. \A i \in DOMAIN s : s[i] # q
  BY Zenon DEF Range
<1>4. Distinct(t)
  BY <1>2, <1>3, Zenon DEF Distinct
<1> QED BY <1>1, <1>4, Zenon DEF t

\* routeToQueues returns a queue once, however many bindings lead to it.
LEMMA RoutedOnce ==
    ASSUME NEW k
    PROVE  routeToQueues(k) \in Seq(Queues) /\ Distinct(routeToQueues(k))
<1> DEFINE n == Len(Bindings)
           out == CHOOSE f : Routes(f, k, n)
           T == {i \in 0 .. n : out[i] \in Seq(Queues) /\ Distinct(out[i])}
<1>1. n \in Nat
  BY AMQPAssumption
<1>2. Routes(out, k, n)
  BY <1>1, RoutesExist, Zenon
<1>3. routeToQueues(k) = out[n]
  BY Zenon DEF routeToQueues, Routes
<1> HIDE DEF out
<1>4. 0 \in T
  <2>1. out[0] = <<>>
    BY <1>1, <1>2 DEF Routes
  <2>2. <<>> \in Seq(Queues) /\ Distinct(<<>>)
    BY DEF Distinct
  <2>3. out[0] \in Seq(Queues) /\ Distinct(out[0])
    BY <2>1, <2>2, Zenon
  <2>4. 0 \in 0 .. n
    BY <1>1
  <2> QED BY <2>3, <2>4, Zenon
<1>5. ASSUME NEW m \in 0 .. n - 1, m \in T PROVE m + 1 \in T
  <2> DEFINE b == Bindings[m + 1]
  <2>1. m + 1 \in 0 .. n /\ m + 1 # 0 /\ (m + 1) - 1 = m /\ m + 1 \in 1 .. n
    BY <1>1, <1>5
  <2>2. out[m + 1] = IF k \in b.keys /\ b.queue \notin Range(out[(m + 1) - 1])
                     THEN Append(out[(m + 1) - 1], b.queue) ELSE out[(m + 1) - 1]
    BY <1>2, <2>1, Zenon DEF Routes
  <2>3. b.queue \in Queues
    <3>1. b \in [keys : SUBSET STRING, queue : Queues]
      BY <2>1, AMQPAssumption, ElementOfSeq, Zenon
    <3> QED BY <3>1, Zenon
  <2> HIDE DEF b
  <2>4. out[m + 1] = IF k \in b.keys /\ b.queue \notin Range(out[m])
                     THEN Append(out[m], b.queue) ELSE out[m]
    BY <2>1, <2>2, Zenon
  <2>5. CASE k \in b.keys /\ b.queue \notin Range(out[m])
    BY <1>5, <2>1, <2>3, <2>4, <2>5, AppendDistinct, Zenon
  <2>6. CASE ~(k \in b.keys /\ b.queue \notin Range(out[m]))
    BY <1>5, <2>1, <2>4, <2>6, Zenon
  <2> QED BY <2>5, <2>6, Zenon
<1> HIDE DEF T
<1>6. 0 .. n \subseteq T
  BY <1>1, <1>4, <1>5, InductionUpTo, Zenon
<1>7. n \in T
  BY <1>1, <1>6
<1> QED BY <1>3, <1>7, Zenon DEF T

LEMMA InitAMQP == AMQPInit => AMQPInv
<1> SUFFICES ASSUME AMQPInit PROVE AMQPInv
  BY Zenon
<1>1. /\ <<>> \in Seq([key : RoutingKeys, size : Nat])
      /\ <<>> \in Seq([id : Nat \ {0}, body : Seq(Nat)])
      /\ DOMAIN <<>> = {}
  OBVIOUS
<1>2. AMQPTypes
  <2>1. sent \in Seq([key : RoutingKeys, size : Nat])
    BY <1>1, Zenon DEF AMQPInit
  <2>2. stored \in Seq([id : Nat \ {0}, body : Seq(Nat)])
    BY <1>1, Zenon DEF AMQPInit
  <2> QED BY <2>1, <2>2, Zenon DEF AMQPInit, AMQPTypes
<1>3. Captured = {} /\ \A c \in Channels : publishes[c] = NoPublish
  BY <1>1, Zenon DEF AMQPInit, Captured
<1>4. Answers
  BY <1>3 DEF AMQPInit, Answers
<1>5. PublishesAreWhole
  BY <1>1 DEF AMQPInit, PublishesAreWhole, MessagesAreWhole, OneDeliveryPerConsumer,
              DropIsAllOrNothing
<1> QED BY <1>2, <1>3, <1>4, <1>5, Zenon DEF AMQPInv, Pending

\* Consumers and mocks come and go.
LEMMA UntouchedStep ==
    ASSUME AMQPInv, UNCHANGED <<topology, publishes, sent, proc, stored, delivered, dropped>>
    PROVE  AMQPInv'
<1>1. Captured' = Captured
  BY Zenon DEF Captured
<1>2. AMQPTypes'
  BY Zenon DEF AMQPInv, AMQPTypes
<1>3. \A c \in Channels : Pending(c)'
  BY <1>1, Zenon DEF AMQPInv, Pending
<1>4. Answers'
  BY <1>1, Zenon DEF AMQPInv, Answers
<1>5. PublishesAreWhole'
  BY DEF AMQPInv, PublishesAreWhole, MessagesAreWhole, OneDeliveryPerConsumer,
         DropIsAllOrNothing
<1> QED BY <1>1, <1>2, <1>3, <1>4, <1>5, Zenon DEF AMQPInv

\* A channel's publish gets its header or a unit of its body.
LEMMA AssembleStep ==
    ASSUME AMQPInv, NEW c \in Channels, NEW r \in Pub,
           publishes' = [publishes EXCEPT ![c] = r],
           publishes[c] # NoPublish, r.id = publishes[c].id,
           r.header => r.bodySize = sent[r.id].size,
           \A j \in 1 .. Len(r.body) : r.body[j] = r.id,
           UNCHANGED <<topology, sent, proc, stored, delivered, dropped>>
    PROVE  AMQPInv'
<1>1. /\ publishes' \in [Channels -> Pub \cup {NoPublish}] /\ publishes'[c] = r
      /\ \A d \in Channels \ {c} : publishes'[d] = publishes[d]
  BY Zenon DEF AMQPInv, AMQPTypes
<1>2. Captured' = Captured
  BY Zenon DEF Captured
<1>3. AMQPTypes'
  BY <1>1, Zenon DEF AMQPInv, AMQPTypes
<1>4. \A d \in Channels : Pending(d)
  BY Zenon DEF AMQPInv
<1>5. ASSUME NEW d \in Channels PROVE Pending(d)'
  <2>1. CASE d = c
    BY <1>1, <1>2, <1>4, <2>1 DEF Pending
  <2>2. CASE d # c
    BY <1>1, <1>2, <1>4, <2>2 DEF Pending
  <2> QED BY <2>1, <2>2, Zenon
<1>6. Answers'
  BY <1>2, Zenon DEF AMQPInv, Answers
<1>7. PublishesAreWhole'
  BY Zenon DEF AMQPInv, PublishesAreWhole, MessagesAreWhole, OneDeliveryPerConsumer,
         DropIsAllOrNothing
<1> QED BY <1>2, <1>3, <1>5, <1>6, <1>7, Zenon DEF AMQPInv

\* The client begins a message.
LEMMA PublishStep ==
    ASSUME AMQPInv, NEW c \in Channels, NEW k \in RoutingKeys, NEW n \in 0 .. MaxBody,
           Publish(c, k, n)
    PROVE  AMQPInv'
<1> DEFINE x == [key |-> k, size |-> n]
           r == [id |-> Len(sent) + 1, header |-> FALSE, bodySize |-> 0, body |-> <<>>]
<1>1. /\ sent \in Seq([key : RoutingKeys, size : Nat]) /\ Len(sent) \in Nat
      /\ x \in [key : RoutingKeys, size : Nat]
  BY AMQPAssumption DEF AMQPInv, AMQPTypes
<1>2. r \in Pub /\ r.id = Len(sent) + 1 /\ r.header = FALSE /\ Len(r.body) = 0
  BY <1>1 DEF Pub
<1>3. /\ sent' = Append(sent, x) /\ publishes' = [publishes EXCEPT ![c] = r]
      /\ UNCHANGED <<topology, proc, stored, delivered, dropped>>
  BY Zenon DEF Publish
<1> HIDE DEF x, r
<1>4. /\ sent' \in Seq([key : RoutingKeys, size : Nat]) /\ Len(sent') = Len(sent) + 1
      /\ \A i \in 1 .. Len(sent) : sent'[i] = sent[i]
  BY <1>1, <1>3
<1>5. /\ publishes' \in [Channels -> Pub \cup {NoPublish}] /\ publishes'[c] = r
      /\ \A d \in Channels \ {c} : publishes'[d] = publishes[d]
  BY <1>2, <1>3, Zenon DEF AMQPInv, AMQPTypes
<1>6. Captured' = Captured /\ Captured \subseteq 1 .. Len(sent)
  BY <1>3, Zenon DEF Captured, AMQPInv
<1>7. AMQPTypes'
  BY <1>3, <1>4, <1>5, Zenon DEF AMQPInv, AMQPTypes
<1>8. Len(sent) + 1 \notin 1 .. Len(sent) /\ 1 .. Len(sent) \subseteq 1 .. Len(sent) + 1
      /\ Len(sent) + 1 \in 1 .. Len(sent) + 1
  BY <1>1
<1>9. \A d \in Channels : Pending(d)
  BY Zenon DEF AMQPInv
<1>10. ASSUME NEW d \in Channels PROVE Pending(d)'
  <2>1. CASE d = c
    <3>1. \A e \in Channels \ {c} : publishes[e] # NoPublish => publishes[e].id # r.id
      BY <1>2, <1>8, <1>9 DEF Pending
    <3>2. r.id \notin Captured' /\ r.id \in 1 .. Len(sent') /\ ~r.header
          /\ 1 .. Len(r.body) = {}
      <4>1. 1 .. 0 = {}
        OBVIOUS
      <4> QED BY <1>2, <1>4, <1>6, <1>8, <4>1, Zenon
    <3> QED BY <1>5, <2>1, <3>1, <3>2, Zenon DEF Pending
  <2>2. CASE d # c
    <3>1. publishes[d] # NoPublish => publishes[d].id \in 1 .. Len(sent)
      BY <1>9, Zenon DEF Pending
    <3>2. publishes[d] # NoPublish => publishes[d].id # r.id
      BY <1>2, <1>8, <3>1, Zenon
    <3>3. publishes[d] # NoPublish => /\ publishes[d].id \in 1 .. Len(sent')
                                      /\ sent'[publishes[d].id] = sent[publishes[d].id]
      BY <1>4, <1>8, <3>1, Zenon
    <3>4. publishes'[d] = publishes[d] /\ Pending(d)
      BY <1>5, <1>9, <2>2, Zenon
    <3>5. publishes[d] # NoPublish =>
            \A e \in Channels \ {d} : publishes'[e] # NoPublish => publishes'[e].id # publishes[d].id
      BY <1>5, <3>2, <3>4, Zenon DEF Pending
    <3> QED BY <1>6, <3>3, <3>4, <3>5, Zenon DEF Pending
  <2> QED BY <2>1, <2>2, Zenon
<1>11. Answers'
  BY <1>3, <1>6, Zenon DEF AMQPInv, Answers
<1>12. PublishesAreWhole'
  <2>1. \A i \in DOMAIN stored : sent'[stored[i].id] = sent[stored[i].id]
    BY <1>4, <1>6, Zenon DEF Captured
  <2> QED BY <1>3, <2>1, ZenonT(30) DEF AMQPInv, PublishesAreWhole, MessagesAreWhole,
                            OneDeliveryPerConsumer, DropIsAllOrNothing
<1>13. Captured' \subseteq 1 .. Len(sent')
  BY <1>4, <1>6, <1>8, Zenon
<1> QED BY <1>7, <1>10, <1>11, <1>12, <1>13, Zenon DEF AMQPInv

LEMMA HeaderStep ==
    ASSUME AMQPInv, NEW c \in Channels, Header(c)
    PROVE  AMQPInv'
<1> DEFINE p == publishes[c]
           size == sent[p.id].size
           r == [p EXCEPT !.header = TRUE, !.bodySize = size]
<1>1. p \in Pub /\ p # NoPublish /\ Pending(c)
  BY Zenon DEF AMQPInv, AMQPTypes, Header
<1>2. size \in Nat
  <2>1. p.id \in 1 .. Len(sent) /\ sent \in Seq([key : RoutingKeys, size : Nat])
    BY <1>1, Zenon DEF Pending, AMQPInv, AMQPTypes
  <2>2. sent[p.id] \in [key : RoutingKeys, size : Nat]
    BY <2>1, ElementOfSeq, Zenon
  <2> QED BY <2>2, Zenon
<1>3. /\ publishes' = [publishes EXCEPT ![c] = r]
      /\ UNCHANGED <<topology, sent, proc, stored, delivered, dropped>>
  BY Zenon DEF Header, AMQPInv, AMQPTypes
<1>4. \A j \in 1 .. Len(p.body) : p.body[j] = p.id
  BY <1>1, Zenon DEF Pending
<1>6. size = sent[p.id].size
  BY Zenon
<1> HIDE DEF size
<1>5. r \in Pub /\ r.id = p.id /\ r.bodySize = size /\ r.body = p.body
  BY <1>1, <1>2, Zenon DEF Pub
<1> HIDE DEF r
<1> QED BY <1>1, <1>3, <1>4, <1>5, <1>6, AssembleStep, Zenon

\* The channel's publish with one more unit of body.
LEMMA BodyUnit ==
    ASSUME NEW p \in Pub, \A j \in 1 .. Len(p.body) : p.body[j] = p.id,
           NEW r, r = [p EXCEPT !.body = Append(@, p.id)]
    PROVE  /\ r \in Pub /\ r.id = p.id /\ r.header = p.header /\ r.bodySize = p.bodySize
           /\ Len(r.body) = Len(p.body) + 1
           /\ \A j \in 1 .. Len(r.body) : r.body[j] = r.id
<1> DEFINE b == Append(p.body, p.id)
<1>1. p.body \in Seq(Nat) /\ p.id \in Nat
  BY Zenon DEF Pub
<1>2. /\ b \in Seq(Nat) /\ Len(b) = Len(p.body) + 1 /\ Len(p.body) \in Nat
      /\ \A j \in 1 .. Len(p.body) + 1 : b[j] = p.id
  BY <1>1
<1>3. r = [p EXCEPT !.body = b]
  BY Zenon
<1> HIDE DEF b
<1>4. r \in Pub /\ r.id = p.id /\ r.header = p.header /\ r.bodySize = p.bodySize /\ r.body = b
  BY <1>2, <1>3, Zenon DEF Pub
<1> QED BY <1>2, <1>4, Zenon

\* The message is complete: it is captured and its answers begin.
LEMMA CaptureStep ==
    ASSUME AMQPInv, NEW c \in Channels, publishes[c] # NoPublish, NEW r \in Pub,
           r.id = publishes[c].id, \A j \in 1 .. Len(r.body) : r.body[j] = r.id,
           Len(r.body) = sent[r.id].size, NEW drop \in BOOLEAN, StartProcess(c, r, drop),
           UNCHANGED <<topology, sent, delivered>>
    PROVE  AMQPInv'
<1> DEFINE x == [id |-> r.id, body |-> r.body]
           qs == IF topology THEN routeToQueues(sent[r.id].key) ELSE <<sent[r.id].key>>
           pr == [id |-> r.id, channel |-> c, queues |-> qs]
<1>1. /\ sent \in Seq([key : RoutingKeys, size : Nat]) /\ r.id \in 1 .. Len(sent)
      /\ r.id \notin Captured /\ r.id \in Nat \ {0} /\ r.body \in Seq(Nat)
      /\ stored \in Seq([id : Nat \ {0}, body : Seq(Nat)])
  BY Zenon DEF AMQPInv, AMQPTypes, Pending, Pub
<1>2. qs \in Seq(Queues \cup RoutingKeys) /\ Distinct(qs)
  <2>1. sent[r.id].key \in RoutingKeys
    <3>1. sent[r.id] \in [key : RoutingKeys, size : Nat]
      BY <1>1, ElementOfSeq, Zenon
    <3> QED BY <3>1, Zenon
  <2>2. CASE topology
    <3>1. qs = routeToQueues(sent[r.id].key)
      BY <2>2, Zenon
    <3>2. qs \in Seq(Queues) /\ Distinct(qs)
      BY <3>1, RoutedOnce, Zenon
    <3> HIDE DEF qs
    <3> QED BY <3>2
  <2>3. CASE ~topology
    <3> DEFINE k == sent[r.id].key
    <3>1. qs = <<k>> /\ k \in RoutingKeys
      BY <2>1, <2>3, Zenon
    <3> HIDE DEF qs, k
    <3> QED BY <3>1 DEF Distinct
  <2> QED BY <2>2, <2>3, Zenon
<1>3. /\ stored' = Append(stored, x) /\ proc' = pr
      /\ dropped' = dropped \/ dropped' = dropped \cup {r.id}
      /\ publishes' = [publishes EXCEPT ![c] = NoPublish]
  BY Zenon DEF StartProcess, PendingOf
<1> HIDE DEF qs
<1>4. pr \in Proc /\ pr.id = r.id /\ pr.queues = qs
  BY <1>1, <1>2, Zenon DEF Proc
<1>5. x \in [id : Nat \ {0}, body : Seq(Nat)] /\ x.id = r.id /\ x.body = r.body
  BY <1>1, Zenon
<1> HIDE DEF x, pr
<1>6. /\ stored' \in Seq([id : Nat \ {0}, body : Seq(Nat)]) /\ Len(stored) \in Nat
      /\ DOMAIN stored = 1 .. Len(stored)
      /\ DOMAIN stored' = 1 .. Len(stored) + 1 /\ stored'[Len(stored) + 1] = x
      /\ \A i \in 1 .. Len(stored) : stored'[i] = stored[i]
  BY <1>1, <1>3, <1>5
<1>7. \A i \in DOMAIN stored' : \/ i \in DOMAIN stored /\ stored'[i] = stored[i]
                                \/ i = Len(stored) + 1 /\ stored'[i] = x
  <2>1. \A i \in DOMAIN stored' : i \in 1 .. Len(stored) \/ i = Len(stored) + 1
    BY <1>6
  <2> QED BY <1>6, <2>1, Zenon
<1>8. Captured' = Captured \cup {r.id}
  <2>1. \A i \in DOMAIN stored : i \in DOMAIN stored' /\ stored'[i] = stored[i]
    BY <1>6
  <2>2. Len(stored) + 1 \in DOMAIN stored'
    BY <1>6
  <2>3. ASSUME NEW i \in Captured' PROVE i \in Captured \cup {r.id}
    BY <1>5, <1>7, Zenon DEF Captured
  <2>4. ASSUME NEW i \in Captured \cup {r.id} PROVE i \in Captured'
    <3>1. CASE i \in Captured
      BY <2>1, <3>1, Zenon DEF Captured
    <3>2. CASE i = r.id
      BY <1>5, <1>6, <2>2, <3>2, Zenon DEF Captured
    <3> QED BY <2>4, <3>1, <3>2, Zenon
  <2> QED BY <2>3, <2>4, Zenon
<1>9. /\ publishes' \in [Channels -> Pub \cup {NoPublish}] /\ publishes'[c] = NoPublish
      /\ \A d \in Channels \ {c} : publishes'[d] = publishes[d]
  BY <1>3, Zenon DEF AMQPInv, AMQPTypes
<1>10. AMQPTypes'
  BY <1>3, <1>4, <1>6, <1>9, Zenon DEF AMQPInv, AMQPTypes
<1>11. ASSUME NEW d \in Channels PROVE Pending(d)'
  <2>1. CASE d = c
    BY <1>9, <2>1, Zenon DEF Pending
  <2>2. CASE d # c
    <3>1. Pending(d)
      BY Zenon DEF AMQPInv
    <3>2. publishes[d] # NoPublish => publishes[d].id # r.id
      BY <2>2, <3>1, Zenon DEF Pending
    <3> QED BY <1>8, <1>9, <2>2, <3>1, <3>2, Zenon DEF Pending
  <2> QED BY <2>1, <2>2, Zenon
<1>12. Captured' \subseteq 1 .. Len(sent')
  BY <1>1, <1>8, Zenon DEF AMQPInv
<1>13. \A d \in Deliveries : delivered[d] > 0 => d[1] \in Captured /\ d[1] # r.id
  BY <1>1, Zenon DEF AMQPInv, Answers
<1>14. Answers'
  <2>1. dropped' \subseteq Captured'
    BY <1>3, <1>8, Zenon DEF AMQPInv, Answers
  <2>2. /\ proc'.id \in Captured' /\ Distinct(proc'.queues)
        /\ \A d \in Deliveries : delivered[d] > 0 => d[1] # proc'.id
    BY <1>2, <1>3, <1>4, <1>8, <1>13, Zenon
  <2> QED BY <1>8, <1>13, <2>1, <2>2, Zenon DEF Answers
<1>15. PublishesAreWhole'
  <2>1. DropIsAllOrNothing'
    BY <1>3, <1>13, Zenon DEF AMQPInv, PublishesAreWhole, DropIsAllOrNothing
  <2>2. OneDeliveryPerConsumer'
    BY Zenon DEF AMQPInv, PublishesAreWhole, OneDeliveryPerConsumer
  <2>3. x.body = [j \in 1 .. sent[x.id].size |-> x.id]
    <3>0. r.body \in [1 .. Len(r.body) -> Nat]
      BY <1>1, LenProperties, Zenon
    <3>1. r.body = [j \in 1 .. Len(r.body) |-> r.body[j]]
      BY <3>0, Zenon
    <3>2. [j \in 1 .. Len(r.body) |-> r.body[j]] = [j \in 1 .. Len(r.body) |-> r.id]
      BY Zenon
    <3> QED BY <1>5, <3>1, <3>2, Zenon
  <2>4. \A i \in DOMAIN stored' :
           stored'[i].body = [j \in 1 .. sent[stored'[i].id].size |-> stored'[i].id]
    <3>1. \A i \in DOMAIN stored :
             stored[i].body = [j \in 1 .. sent[stored[i].id].size |-> stored[i].id]
      BY Zenon DEF AMQPInv, PublishesAreWhole, MessagesAreWhole
    <3> DEFINE Whole(m) == m.body = [j \in 1 .. sent[m.id].size |-> m.id]
    <3>2. Whole(x) /\ \A i \in DOMAIN stored : Whole(stored[i])
      BY <2>3, <3>1, Zenon
    <3> SUFFICES ASSUME NEW i \in DOMAIN stored' PROVE Whole(stored'[i])
      BY Zenon
    <3> HIDE DEF Whole
    <3> QED BY <1>7, <3>2, Zenon
  <2>5. \A i \in DOMAIN stored : stored[i].id # x.id
    BY <1>1, <1>5, Zenon DEF Captured
  <2>6. \A i, j \in DOMAIN stored' : i # j => stored'[i].id # stored'[j].id
    BY <1>7, <2>5 DEF AMQPInv, PublishesAreWhole, MessagesAreWhole
  <2> QED BY <2>1, <2>2, <2>4, <2>6, Zenon DEF PublishesAreWhole, MessagesAreWhole
<1> QED BY <1>10, <1>11, <1>12, <1>14, <1>15, Zenon DEF AMQPInv

LEMMA BodyStep ==
    ASSUME AMQPInv, NEW c \in Channels, Body(c)
    PROVE  AMQPInv'
<1> DEFINE p == publishes[c]
           r == [p EXCEPT !.body = Append(@, p.id)]
<1>1. /\ p \in Pub /\ p # NoPublish /\ p.header /\ Pending(c)
      /\ Len(p.body) < sent[p.id].size
  BY Zenon DEF AMQPInv, AMQPTypes, Body, Sending
<1>2. p.bodySize = sent[p.id].size /\ \A j \in 1 .. Len(p.body) : p.body[j] = p.id
  BY <1>1, Zenon DEF Pending
<1>3. p.bodySize \in Nat /\ Len(p.body) \in Nat
  BY <1>1 DEF Pub
<1>4. /\ IF BodyComplete(r) THEN \E drop \in BOOLEAN : StartProcess(c, r, drop)
         ELSE publishes' = [publishes EXCEPT ![c] = r] /\ UNCHANGED <<stored, proc, dropped>>
      /\ UNCHANGED <<topology, sent, delivered>>
  BY Zenon DEF Body, PendingOf
<1>5. /\ r \in Pub /\ r.id = p.id /\ r.header = p.header /\ r.bodySize = p.bodySize
      /\ Len(r.body) = Len(p.body) + 1
      /\ \A j \in 1 .. Len(r.body) : r.body[j] = r.id
  BY <1>1, <1>2, BodyUnit, Zenon
<1> HIDE DEF r
<1>6. CASE BodyComplete(r)
  <2>1. Len(r.body) = sent[r.id].size
    <3>1. Len(p.body) < p.bodySize /\ sent[r.id].size = p.bodySize
      BY <1>1, <1>2, <1>5, Zenon
    <3>2. Len(r.body) >= p.bodySize
      BY <1>5, <1>6, Zenon DEF BodyComplete
    <3> HIDE DEF p
    <3> QED BY <1>3, <1>5, <3>1, <3>2
  <2>2. PICK drop \in BOOLEAN : StartProcess(c, r, drop)
    BY <1>4, <1>6, Zenon
  <2> QED BY <1>1, <1>4, <1>5, <2>1, <2>2, CaptureStep, Zenon
<1>7. CASE ~BodyComplete(r)
  BY <1>1, <1>2, <1>4, <1>5, <1>7, AssembleStep, Zenon
<1> QED BY <1>6, <1>7, Zenon

\* The rest of a list of distinct queues.
LEMMA RestDistinct ==
    ASSUME NEW S, NEW s \in Seq(S), s # <<>>, Distinct(s)
    PROVE  /\ Tail(s) \in Seq(S) /\ Distinct(Tail(s))
           /\ Range(Tail(s)) \subseteq Range(s)
           /\ Head(s) \in Range(s) /\ Head(s) \notin Range(Tail(s))
<1> DEFINE t == Tail(s)
<1>1. /\ Len(s) \in Nat \ {0} /\ t \in Seq(S) /\ Head(s) = s[1]
      /\ DOMAIN s = 1 .. Len(s) /\ DOMAIN t = 1 .. Len(s) - 1
      /\ \A i \in 1 .. Len(s) - 1 : t[i] = s[i + 1]
  OBVIOUS
<1> HIDE DEF t
<1>2. \A i \in DOMAIN t : i + 1 \in DOMAIN s /\ i + 1 # 1 /\ t[i] = s[i + 1]
  BY <1>1
<1>3. 1 \in DOMAIN s /\ \A i, j \in DOMAIN t : i # j => i + 1 # j + 1
  BY <1>1
<1>4. Distinct(t)
  BY <1>2, <1>3 DEF Distinct
<1>5. Range(t) \subseteq Range(s) /\ Head(s) \in Range(s)
  BY <1>1, <1>2, <1>3 DEF Range
<1>6. Head(s) \notin Range(t)
  BY <1>1, <1>2, <1>3 DEF Range, Distinct
<1> QED BY <1>1, <1>4, <1>5, <1>6, Zenon DEF t

\* A round of the answers: the consumers of q get the publish, or none does,
\* and the queues qs are left.
LEMMA AnswerStep ==
    ASSUME AMQPInv, proc # NoPublish, proc.queues # <<>>, NEW q,
           NEW qs \in Seq(Queues \cup RoutingKeys), Distinct(qs),
           proc' = [proc EXCEPT !.queues = qs],
           qs # <<>> => q \notin Range(qs) /\ Range(qs) \subseteq Range(proc.queues),
           topology => q \in Range(proc.queues), ~topology => qs = <<>>,
           delivered' \in [Deliveries -> Nat],
           \A d \in Deliveries :
              \/ delivered'[d] = delivered[d]
              \/ /\ d[1] = proc.id /\ d[2] = q /\ proc.id \notin dropped
                 /\ delivered'[d] = delivered[d] + 1,
           UNCHANGED <<topology, publishes, sent, stored, dropped>>
    PROVE  AMQPInv'
<1>1. proc \in Proc /\ Answers /\ delivered \in [Deliveries -> Nat]
  BY Zenon DEF AMQPInv, AMQPTypes
<1>2. proc' \in Proc /\ proc'.id = proc.id /\ proc'.queues = qs
  BY <1>1, Zenon DEF Proc
<1>3. Captured' = Captured
  BY Zenon DEF Captured
<1>4. \A d \in Deliveries : delivered'[d] # delivered[d] => delivered[d] = 0
  <2>1. ASSUME NEW d \in Deliveries, delivered'[d] # delivered[d] PROVE ~(delivered[d] > 0)
    BY <1>1, <2>1, Zenon DEF Answers
  <2>2. \A d \in Deliveries : delivered[d] \in Nat
    BY <1>1, Zenon
  <2>3. \A n \in Nat : ~(n > 0) => n = 0
    OBVIOUS
  <2> QED BY <2>1, <2>2, <2>3, Zenon
<1>5. AMQPTypes'
  BY <1>2, Zenon DEF AMQPInv, AMQPTypes
<1>6. \A c \in Channels : Pending(c)'
  BY <1>3, Zenon DEF AMQPInv, Pending
<1>7. Answers'
  <2>1. proc.id \in Captured
    BY <1>1, Zenon DEF Answers
  <2>2. ASSUME NEW d \in Deliveries, delivered'[d] > 0 PROVE d[1] \in Captured
    BY <1>1, <2>1, <2>2, Zenon DEF Answers
  <2>3. ASSUME NEW d \in Deliveries, delivered'[d] > 0, d[1] = proc.id, qs # <<>>
        PROVE  topology /\ d[2] \notin Range(qs)
    <3>1. CASE delivered'[d] = delivered[d]
      BY <1>1, <2>3, <3>1, Zenon DEF Answers
    <3>2. CASE d[2] = q
      BY <2>3, <3>2, Zenon
    <3> QED BY <3>1, <3>2, Zenon
  <2>4. dropped \subseteq Captured
    BY <1>1, Zenon DEF Answers
  <2> QED BY <1>2, <1>3, <2>1, <2>2, <2>3, <2>4 DEF Answers
<1>8. PublishesAreWhole'
  <2>1. OneDeliveryPerConsumer'
    <3> SUFFICES ASSUME NEW d \in Deliveries PROVE delivered'[d] <= 1
      BY Zenon DEF OneDeliveryPerConsumer
    <3>1. delivered[d] <= 1 /\ delivered[d] \in Nat
      BY <1>1, Zenon DEF AMQPInv, PublishesAreWhole, OneDeliveryPerConsumer
    <3>2. delivered'[d] = delivered[d] \/ delivered'[d] = delivered[d] + 1
      BY Zenon
    <3> QED BY <1>4, <3>1, <3>2
  <2>2. DropIsAllOrNothing'
    BY Zenon DEF AMQPInv, PublishesAreWhole, DropIsAllOrNothing
  <2>3. MessagesAreWhole'
    BY DEF AMQPInv, PublishesAreWhole, MessagesAreWhole
  <2> QED BY <2>1, <2>2, <2>3, Zenon DEF PublishesAreWhole
<1> QED BY <1>3, <1>5, <1>6, <1>7, <1>8, Zenon DEF AMQPInv

\* What deliverTo changes.
LEMMA Delivered ==
    ASSUME NEW q, NEW cs, deliverTo(q, cs), delivered \in [Deliveries -> Nat]
    PROVE  /\ delivered' \in [Deliveries -> Nat]
           /\ \A d \in Deliveries :
                 \/ delivered'[d] = delivered[d]
                 \/ d[1] = proc.id /\ d[2] = q /\ delivered'[d] = delivered[d] + 1
BY DEF deliverTo

LEMMA RouteStep ==
    ASSUME AMQPInv, Route
    PROVE  AMQPInv'
<1> DEFINE q == Head(proc.queues)
           qs == Tail(proc.queues)
<1>1. proc # NoPublish /\ topology /\ proc.queues # <<>>
  BY Zenon DEF Route, Reading
<1>2. proc \in Proc /\ Distinct(proc.queues) /\ delivered \in [Deliveries -> Nat]
  BY <1>1, Zenon DEF AMQPInv, AMQPTypes, Answers
<1>3. proc.queues \in Seq(Queues \cup RoutingKeys)
  BY <1>2, Zenon DEF Proc
<1>4. /\ qs \in Seq(Queues \cup RoutingKeys) /\ Distinct(qs)
      /\ Range(qs) \subseteq Range(proc.queues) /\ q \in Range(proc.queues)
      /\ q \notin Range(qs)
  BY <1>1, <1>2, <1>3, RestDistinct, Zenon
<1>5. /\ proc' = [proc EXCEPT !.queues = qs]
      /\ UNCHANGED <<topology, publishes, sent, stored, dropped>>
      /\ IF Answered(q) THEN deliverTo(q, consumersForQueue(q)) ELSE UNCHANGED delivered
  BY Zenon DEF Route
<1> HIDE DEF q, qs
<1>6. /\ delivered' \in [Deliveries -> Nat]
      /\ \A d \in Deliveries :
            \/ delivered'[d] = delivered[d]
            \/ /\ d[1] = proc.id /\ d[2] = q /\ proc.id \notin dropped
               /\ delivered'[d] = delivered[d] + 1
  <2>1. CASE Answered(q)
    BY <1>2, <1>5, <2>1, Delivered, Zenon DEF Answered
  <2>2. CASE ~Answered(q)
    BY <1>2, <1>5, <2>2, Zenon
  <2> QED BY <2>1, <2>2, Zenon
<1> QED BY <1>1, <1>4, <1>5, <1>6, AnswerStep, Zenon

LEMMA FlatStep ==
    ASSUME AMQPInv, Flat
    PROVE  AMQPInv'
<1>1. /\ proc # NoPublish /\ ~topology /\ proc.queues # <<>>
      /\ proc' = [proc EXCEPT !.queues = <<>>]
      /\ UNCHANGED <<topology, publishes, sent, stored, dropped>>
  BY Zenon DEF Flat, Reading
<1>2. delivered \in [Deliveries -> Nat]
  BY Zenon DEF AMQPInv, AMQPTypes
<1>3. <<>> \in Seq(Queues \cup RoutingKeys) /\ Distinct(<<>>)
  BY DEF Distinct
<1>4. CASE Answered(Head(proc.queues)) /\ FlatConsumers # {}
  <2>1. PICK c \in FlatConsumers : deliverTo(consumers[c], {c})
    BY <1>4, Zenon DEF Flat
  <2>2. proc.id \notin dropped
    BY <1>4, Zenon DEF Answered
  <2>3. /\ delivered' \in [Deliveries -> Nat]
        /\ \A d \in Deliveries :
              \/ delivered'[d] = delivered[d]
              \/ /\ d[1] = proc.id /\ d[2] = consumers[c]
                 /\ delivered'[d] = delivered[d] + 1
    BY <1>2, <2>1, Delivered, Zenon
  <2> QED BY <1>1, <1>3, <2>2, <2>3, AnswerStep, Zenon
<1>5. CASE ~(Answered(Head(proc.queues)) /\ FlatConsumers # {})
  <2>1. UNCHANGED delivered
    BY <1>5, Zenon DEF Flat
  <2> QED BY <1>1, <1>2, <1>3, <2>1, AnswerStep, Zenon
<1> QED BY <1>4, <1>5, Zenon

LEMMA ProcessedStep ==
    ASSUME AMQPInv, Processed
    PROVE  AMQPInv'
<1>1. proc' = NoPublish /\ UNCHANGED <<topology, publishes, sent, stored, delivered, dropped>>
  BY Zenon DEF Processed
<1>2. Captured' = Captured
  BY <1>1, Zenon DEF Captured
<1>3. AMQPTypes'
  BY <1>1, Zenon DEF AMQPInv, AMQPTypes
<1>4. \A c \in Channels : Pending(c)'
  BY <1>1, <1>2, Zenon DEF AMQPInv, Pending
<1>5. Answers'
  BY <1>1, <1>2, Zenon DEF AMQPInv, Answers
<1>6. PublishesAreWhole'
  BY <1>1, ZenonT(30) DEF AMQPInv, PublishesAreWhole, MessagesAreWhole, OneDeliveryPerConsumer,
              DropIsAllOrNothing
<1> QED BY <1>1, <1>2, <1>3, <1>4, <1>5, <1>6, Zenon DEF AMQPInv

LEMMA NextAMQP == AMQPInv /\ [AMQPNext]_amqpVars => AMQPInv'
<1> SUFFICES ASSUME AMQPInv, [AMQPNext]_amqpVars PROVE AMQPInv'
  BY Zenon
<1>1. ASSUME NEW c \in Channels, Header(c) \/ Body(c) PROVE AMQPInv'
  BY <1>1, HeaderStep, BodyStep, Zenon
<1>2. ASSUME NEW c \in Channels, NEW q \in Queues, Consume(c, q) PROVE AMQPInv'
  BY <1>2, UntouchedStep, Zenon DEF Consume
<1>3. ASSUME NEW c \in Channels, NEW k \in RoutingKeys, NEW n \in 0 .. MaxBody,
             Publish(c, k, n)
      PROVE  AMQPInv'
  BY <1>3, PublishStep, Zenon
<1>4. CASE Route \/ Flat \/ Processed
  BY <1>4, RouteStep, FlatStep, ProcessedStep, Zenon
<1>5. ASSUME NEW r \in SUBSET Targets, AMQPSetMocks(r) PROVE AMQPInv'
  BY <1>5, UntouchedStep, Zenon DEF AMQPSetMocks
<1>6. CASE UNCHANGED amqpVars
  BY <1>6, UntouchedStep, Zenon DEF amqpVars
<1> QED BY <1>1, <1>2, <1>3, <1>4, <1>5, <1>6, Zenon DEF AMQPNext

\* AMQP: for any channels, keys, queues and bindings, and any interleaving of
\* the channels' frames with changes of the mocks, a message is captured once
\* and whole (handleConn), reaches a consumer at most once (routeToQueues), and
\* is dropped for all its queues or for none (processPublish).
THEOREM PublishesWhole == AMQPSpec => []PublishesAreWhole
<1>1. AMQPInv => PublishesAreWhole
  BY Zenon DEF AMQPInv
<1> QED BY <1>1, InitAMQP, NextAMQP, PTL DEF AMQPSpec

-----------------------------------------------------------------------------
(* The ring buffer *)

\* The only use the code makes of %: an index below 2 * MaxSize wraps once.
LEMMA WrapOnce ==
    ASSUME NEW k \in Nat, k < 2 * MaxSize
    PROVE  k % MaxSize = IF k < MaxSize THEN k ELSE k - MaxSize
<1>1. MaxSize \in Nat /\ MaxSize > 0
  BY RingAssumption
<1>2. CASE k < MaxSize
  BY <1>1, <1>2
<1>3. CASE k >= MaxSize
  BY <1>1, <1>3
<1> QED BY <1>1, <1>2, <1>3

\* An offset of at most MaxSize from a slot is a slot again, with % resolved.
LEMMA Offset ==
    ASSUME NEW h \in Slots, NEW c \in 0 .. MaxSize
    PROVE  /\ (h + c) % MaxSize = IF h + c < MaxSize THEN h + c ELSE h + c - MaxSize
           /\ (h + c) % MaxSize \in Slots
<1>1. h + c \in Nat /\ h + c < 2 * MaxSize
  BY RingAssumption DEF Slots
<1> QED BY <1>1, WrapOnce, RingAssumption DEF Slots

\* The slot Add writes and the slot head moves to are slots of the buffer.
LEMMA IndexInRange ==
    ASSUME RingTypeOK
    PROVE  /\ (head + count) % MaxSize =
                 IF head + count < MaxSize THEN head + count
                                           ELSE head + count - MaxSize
           /\ (head + 1) % MaxSize = IF head + 1 < MaxSize THEN head + 1 ELSE 0
           /\ (head + count) % MaxSize \in Slots
           /\ (head + 1) % MaxSize \in Slots
<1>1. head \in Slots /\ count \in 0 .. MaxSize /\ 1 \in 0 .. MaxSize
  BY RingAssumption DEF RingTypeOK
<1>2. /\ (head + count) % MaxSize = IF head + count < MaxSize
                                    THEN head + count ELSE head + count - MaxSize
      /\ (head + count) % MaxSize \in Slots
  BY <1>1, Offset, Zenon
<1>3. /\ (head + 1) % MaxSize = IF head + 1 < MaxSize
                                  THEN head + 1 ELSE head + 1 - MaxSize
      /\ (head + 1) % MaxSize \in Slots
  BY <1>1, Offset, Zenon
<1>4. ~(head + 1 < MaxSize) => head + 1 - MaxSize = 0
  BY <1>1, RingAssumption DEF Slots
<1> QED BY <1>2, <1>3, <1>4, Zenon

\* What All() reads for its i-th item, with % resolved.
LEMMA SlotOf ==
    ASSUME NEW h \in Slots, NEW i \in 1 .. MaxSize
    PROVE  /\ (h + i - 1) % MaxSize = IF h + i - 1 < MaxSize
                                        THEN h + i - 1 ELSE h + i - 1 - MaxSize
           /\ (h + i - 1) % MaxSize \in Slots
<1>1. i - 1 \in 0 .. MaxSize /\ h + (i - 1) = h + i - 1
  BY RingAssumption DEF Slots
<1> QED BY <1>1, Offset, Zenon

\* Every step of the ring buffer keeps head and count in range.
LEMMA TypeStep == RingTypeOK /\ [RingNext]_ringVars => RingTypeOK'
<1> SUFFICES ASSUME RingTypeOK, [RingNext]_ringVars PROVE RingTypeOK'
  BY Zenon
<1>1. ASSUME NEW x \in Item, Add(x) PROVE RingTypeOK'
  BY <1>1, IndexInRange, RingAssumption DEF Add, RingTypeOK, Slots
<1>2. CASE Clear
  BY <1>2, RingAssumption DEF Clear, RingTypeOK, Slots
<1>3. CASE UNCHANGED ringVars
  BY <1>3, Zenon DEF ringVars, RingTypeOK
<1> QED BY <1>1, <1>2, <1>3, Zenon DEF RingNext

\* head stays a slot index and count at most the capacity.
THEOREM TypeCorrect == RingSpec => []RingTypeOK
<1>1. RingInit => RingTypeOK
  BY RingAssumption DEF RingInit, NewStore, RingTypeOK, Slots
<1> QED BY <1>1, TypeStep, PTL DEF RingSpec

\* Append, item by item.
LEMMA AppendedItems ==
    ASSUME NEW S, NEW l \in Seq(S), NEW x \in S
    PROVE  Append(l, x) = [i \in 1 .. Len(l) + 1 |-> IF i <= Len(l) THEN l[i] ELSE x]
<1> DEFINE a == Append(l, x)
<1>1. Len(l) \in Nat /\ a \in Seq(S) /\ Len(a) = Len(l) + 1
  OBVIOUS
<1>2. ASSUME NEW i \in 1 .. Len(l) + 1 PROVE a[i] = IF i <= Len(l) THEN l[i] ELSE x
  BY <1>1
<1> HIDE DEF a
<1>3. a = [i \in 1 .. Len(a) |-> a[i]]
  BY <1>1
<1>4. a = [i \in 1 .. Len(l) + 1 |-> IF i <= Len(l) THEN l[i] ELSE x]
  BY <1>1, <1>2, <1>3, Zenon
<1> QED BY <1>4, Zenon DEF a

\* Adding to a buffer that is not full appends to what All() returns.
LEMMA AddNotFull ==
    ASSUME RingTypeOK, NEW x \in Item, Add(x), count < MaxSize
    PROVE  All' = Store!MostRecent(Append(All, x))
<1> USE RingAssumption DEF RingTypeOK, Slots
<1>1. head' = head /\ count' = count + 1
  BY DEF Add
<1>2. All \in Seq(Item \cup {Zero}) /\ Len(All) = count
  <2>1. \A i \in 1 .. count : (head + i - 1) % MaxSize \in Slots
    BY SlotOf
  <2>2. \A i \in 1 .. count : buf[(head + i - 1) % MaxSize] \in Item \cup {Zero}
    BY <2>1, Zenon
  <2> QED BY <2>2 DEF All
<1>3. Store!MostRecent(Append(All, x)) = Append(All, x)
  BY <1>2 DEF Store!MostRecent
<1>4. ASSUME NEW i \in 1 .. count
      PROVE  buf'[(head + i - 1) % MaxSize] = buf[(head + i - 1) % MaxSize]
  <2>1. (head + i - 1) % MaxSize # (head + count) % MaxSize
    BY SlotOf, IndexInRange
  <2> QED BY <2>1, SlotOf DEF Add
<1>5. buf'[(head + count) % MaxSize] = x
  BY IndexInRange, Zenon DEF Add
<1>6. All' = [i \in 1 .. count + 1 |-> buf'[(head + i - 1) % MaxSize]]
  BY <1>1, Zenon DEF All
<1>7. Append(All, x) = [i \in 1 .. count + 1 |-> IF i <= count THEN All[i] ELSE x]
  BY <1>2, AppendedItems
<1>8. ASSUME NEW i \in 1 .. count + 1
      PROVE  buf'[(head + i - 1) % MaxSize] = IF i <= count THEN All[i] ELSE x
  <2>1. CASE i <= count
    <3>1. i \in 1 .. count
      BY <2>1
    <3>2. All[i] = buf[(head + i - 1) % MaxSize]
      BY <3>1, Zenon DEF All
    <3> QED BY <2>1, <3>1, <3>2, <1>4, Zenon
  <2>2. CASE i = count + 1
    BY <2>2, <1>5
  <2>3. i <= count \/ i = count + 1
    OBVIOUS
  <2> QED BY <2>1, <2>2, <2>3, Zenon
<1> QED BY <1>3, <1>6, <1>7, <1>8, Zenon

\* Adding to a full buffer drops the oldest item All() returned.
LEMMA AddFull ==
    ASSUME RingTypeOK, NEW x \in Item, Add(x), count = MaxSize
    PROVE  All' = Store!MostRecent(Append(All, x))
<1> USE RingAssumption DEF RingTypeOK, Slots
<1>1. head' = (head + 1) % MaxSize /\ head' \in Slots /\ count' = count
  BY IndexInRange, Zenon DEF Add
<1>2. All \in Seq(Item \cup {Zero}) /\ Len(All) = MaxSize
  <2>1. \A i \in 1 .. count : (head + i - 1) % MaxSize \in Slots
    BY SlotOf, Zenon
  <2>2. \A i \in 1 .. count : buf[(head + i - 1) % MaxSize] \in Item \cup {Zero}
    BY <2>1, Zenon
  <2> QED BY <2>2 DEF All
<1>3. Store!MostRecent(Append(All, x)) =
        [i \in 1 .. MaxSize |-> IF i < MaxSize THEN All[i + 1] ELSE x]
  <2> DEFINE a == All
             b == Append(All, x)
  <2>1. /\ b \in Seq(Item \cup {Zero}) /\ Len(b) = MaxSize + 1 /\ b[MaxSize + 1] = x
        /\ \A i \in 1 .. MaxSize : b[i] = a[i]
    BY <1>2
  <2> HIDE DEF a, b
  <2>2. Store!MostRecent(b) = [i \in 1 .. MaxSize |-> b[i + 1]]
    <3>1. Len(b) > MaxSize /\ Len(b) - MaxSize + 1 = 2 /\ Len(b) = MaxSize + 1
      BY <2>1
    <3>2. Store!MostRecent(b) = SubSeq(b, 2, MaxSize + 1)
      BY <3>1, Zenon DEF Store!MostRecent
    <3>3. SubSeq(b, 2, MaxSize + 1) = [i \in 1 .. MaxSize |-> b[i + 1]]
      BY <2>1
    <3> QED BY <3>2, <3>3, Zenon
  <2>3. \A i \in 1 .. MaxSize : b[i + 1] = IF i < MaxSize THEN a[i + 1] ELSE x
    <3>1. \A i \in 1 .. MaxSize : (i < MaxSize => i + 1 \in 1 .. MaxSize)
                                /\ (~(i < MaxSize) => i = MaxSize)
      OBVIOUS
    <3> QED BY <2>1, <3>1, Zenon
  <2>4. Store!MostRecent(b) = [i \in 1 .. MaxSize |-> IF i < MaxSize THEN a[i + 1] ELSE x]
    BY <2>2, <2>3, Zenon
  <2> QED BY <2>4, Zenon DEF a, b
<1>4. (head + count) % MaxSize = head
  BY IndexInRange
<1>5. buf' = [buf EXCEPT ![head] = x]
  BY <1>4, Zenon DEF Add
<1>6. ASSUME NEW i \in 1 .. MaxSize, i < MaxSize
      PROVE  buf'[(head' + i - 1) % MaxSize] = All[i + 1]
  <2>1. (head' + i - 1) % MaxSize = (head + (i + 1) - 1) % MaxSize
    <3>1. (head' + i - 1) % MaxSize = IF head' + i - 1 < MaxSize
                               THEN head' + i - 1 ELSE head' + i - 1 - MaxSize
      BY <1>1, SlotOf, Zenon
    <3>2. (head + (i + 1) - 1) % MaxSize = IF head + i < MaxSize
                               THEN head + i ELSE head + i - MaxSize
      BY <1>6, SlotOf
    <3>3. head' = IF head + 1 < MaxSize THEN head + 1 ELSE 0
      BY <1>1, IndexInRange, Zenon
    <3> QED BY <3>1, <3>2, <3>3, <1>6
  <2>2. (head + (i + 1) - 1) % MaxSize \in Slots \ {head}
    BY <1>6, SlotOf
  <2> QED BY <2>1, <2>2, <1>5, <1>6 DEF All
<1>7. buf'[(head' + MaxSize - 1) % MaxSize] = x
  <2>1. (head' + MaxSize - 1) % MaxSize = head
    BY <1>1, SlotOf, IndexInRange
  <2> QED BY <2>1, <1>5, Zenon
<1>8. All' = [i \in 1 .. MaxSize |-> buf'[(head' + i - 1) % MaxSize]]
  BY <1>1, Zenon DEF All
<1>9. \A i \in 1 .. MaxSize : i < MaxSize \/ (i = MaxSize /\ ~(MaxSize < MaxSize))
  OBVIOUS
<1>10. \A i \in 1 .. MaxSize :
         buf'[(head' + i - 1) % MaxSize] = IF i < MaxSize THEN All[i + 1] ELSE x
  BY <1>6, <1>7, <1>9, Zenon
<1> QED BY <1>3, <1>8, <1>10, Zenon

\* webhook.Store, smtpserver.Inbox and the MQTT and NATS message stores hold
\* exactly the MaxSize most recent items since the last Clear, oldest first.
THEOREM RingBufferRefines == RingSpec => RefinesBoundedStore
<1>1. RingInit => Store!Init
  BY RingAssumption DEF RingInit, NewStore, Store!Init, All
<1>2. RingTypeOK /\ [RingNext]_ringVars => [Store!Next]_All
  <2> SUFFICES ASSUME RingTypeOK, [RingNext]_ringVars PROVE [Store!Next]_All
    BY Zenon
  <2>1. ASSUME NEW x \in Item, Add(x) PROVE Store!Next
    <3>1. count < MaxSize \/ count = MaxSize
      BY RingAssumption DEF RingTypeOK
    <3>2. All' = Store!MostRecent(Append(All, x))
      BY <2>1, <3>1, AddFull, AddNotFull, Zenon
    <3> QED BY <3>2, Zenon DEF Store!Next, Store!Add
  <2>2. CASE Clear
    <3>1. count' = 0
      BY <2>2, Zenon DEF Clear
    <3> QED BY <3>1 DEF All, Store!Next, Store!Clear
  <2>3. CASE UNCHANGED ringVars
    BY <2>3, Zenon DEF ringVars, All
  <2> QED BY <2>1, <2>2, <2>3, Zenon DEF RingNext
<1> QED BY <1>1, <1>2, TypeCorrect, PTL DEF RingSpec, RefinesBoundedStore, Store!Spec

=============================================================================
