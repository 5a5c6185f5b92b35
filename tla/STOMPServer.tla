----------------------------- MODULE STOMPServer ---------------------------
(***************************************************************************)
(* The STOMP broker's subscriptions (stompserver): each client's own map   *)
(* from ids to destinations, the server's map from destinations to         *)
(* subscriptions, and the delivery of a mock's response, which copies the  *)
(* subscribers under the lock and writes to them after releasing it.       *)
(* Nothing keeps a client from using the id of a subscription again: its   *)
(* own map then forgets the first one, the server's does not.              *)
(***************************************************************************)
EXTENDS Naturals, FiniteSets

CONSTANTS Clients, SubIDs, Dests, MaxFrames

VARIABLES
    open,           \* clients whose connection is open
    handled,        \* clients whose handleConn has not returned
    subs,           \* client -> clientConn.subs: id -> destination
    subscriptions,  \* Server.subscriptions: destination, client, id
    reused,         \* client, id: subscribed again while the id was in use
    sending,        \* client -> subscribers its SEND has still to write to
    started,        \* client -> subscriptions that were there at its SEND
    outbox,         \* MESSAGE frames of each client's last SEND: to whom, id, sender
    frames          \* SUBSCRIBE and SEND frames so far; bounds the model

delivery == <<sending, started, outbox>>
stompVars == <<open, handled, subs, subscriptions, reused, delivery, frames>>

STOMPInit ==
    /\ open = Clients /\ handled = Clients
    /\ subs = [c \in Clients |-> <<>>]
    /\ subscriptions = {} /\ reused = {} /\ outbox = {}
    /\ sending = [c \in Clients |-> {}] /\ started = [c \in Clients |-> {}]
    /\ frames = 0

\* The handler of c reads its next frame.
Reads(c) == c \in handled /\ sending[c] = {}

addSubscription(c, id, d) ==
    /\ Reads(c) /\ frames < MaxFrames
    /\ frames' = frames + 1
    /\ subs' = [subs EXCEPT ![c] = [i \in DOMAIN @ \cup {id} |-> IF i = id THEN d ELSE @[i]]]
    /\ subscriptions' = subscriptions \cup {<<d, c, id>>}
    /\ reused' = IF id \in DOMAIN subs[c] /\ subs[c][id] # d THEN reused \cup {<<c, id>>} ELSE reused
    /\ UNCHANGED <<open, handled, delivery>>

\* Broken variant of Drop: the server keeps its entry.
DropOwnOnly(c, id) ==
    /\ subs' = [subs EXCEPT ![c] = [i \in DOMAIN @ \ {id} |-> @[i]]]
    /\ UNCHANGED subscriptions

\* removeSubscription's changes to the two maps.
Drop(c, id) ==
    /\ subs' = [subs EXCEPT ![c] = [i \in DOMAIN @ \ {id} |-> @[i]]]
    /\ subscriptions' = subscriptions \ {<<subs[c][i], c, i>> : i \in {id} \cap DOMAIN subs[c]}

removeSubscription(c, id) ==
    /\ Reads(c)
    /\ Drop(c, id)
    /\ UNCHANGED <<open, handled, reused, delivery, frames>>

\* The client closes its connection or loses it; handleConn learns of it when
\* it next reads.
Break(c) ==
    /\ c \in open
    /\ open' = open \ {c}
    /\ UNCHANGED <<handled, subs, subscriptions, reused, delivery, frames>>

\* handleConn returns: DISCONNECT, a read error, or a fault that answers a SEND
\* with ERROR.
Leave(c) ==
    /\ Reads(c)
    /\ handled' = handled \ {c}
    /\ UNCHANGED <<open, subs, subscriptions, reused, delivery, frames>>

\* removeClient, deferred by handleConn: one subscription after the other, each
\* under the lock, and then the connection is closed.
removeClient(c) ==
    /\ c \notin handled
    /\ \/ \E id \in DOMAIN subs[c] : Drop(c, id) /\ UNCHANGED open
       \/ /\ DOMAIN subs[c] = {} /\ c \in open
          /\ open' = open \ {c}
          /\ UNCHANGED <<subs, subscriptions>>
    /\ UNCHANGED <<handled, reused, delivery, frames>>

\* SEND that a mock answers: the message is captured, then deliver copies the
\* subscribers of the response's destination.
deliver(c, d) ==
    /\ Reads(c) /\ frames < MaxFrames
    /\ frames' = frames + 1
    /\ sending' = [sending EXCEPT ![c] = {<<s[2], s[3]>> : s \in {s \in subscriptions : s[1] = d}}]
    /\ started' = [started EXCEPT ![c] =
           {s \in Clients \X SubIDs : s[2] \in DOMAIN subs[s[1]] /\ subs[s[1]][s[2]] = d}]
    /\ outbox' = {o \in outbox : o[3] # c}
    /\ UNCHANGED <<open, handled, subs, subscriptions, reused>>

\* One MESSAGE frame; a write to a closed connection is lost.
writeFrame(c) ==
    \E s \in sending[c] :
        /\ sending' = [sending EXCEPT ![c] = @ \ {s}]
        /\ outbox' = IF s[1] \in open THEN outbox \cup {<<s[1], s[2], c>>} ELSE outbox
        /\ UNCHANGED <<open, handled, subs, subscriptions, reused, started, frames>>

STOMPNext ==
    \E c \in Clients :
        \/ \E id \in SubIDs : removeSubscription(c, id)
        \/ \E id \in SubIDs, d \in Dests : addSubscription(c, id, d)
        \/ Break(c) \/ Leave(c) \/ removeClient(c)
        \/ \E d \in Dests : deliver(c, d)
        \/ writeFrame(c)

STOMPSpec == STOMPInit /\ [][STOMPNext]_stompVars

----------------------------------------------------------------------------
\* The two maps agree: whatever SUBSCRIBE, UNSUBSCRIBE and the ends of
\* connections do, each client's subscriptions are the server's, and the server
\* has no other, so none outlives its UNSUBSCRIBE or its client; unless the
\* client had used the id of a subscription for another destination.
SubscriptionMapsAgree ==
    /\ \A s \in subscriptions :
          <<s[2], s[3]>> \notin reused => s[3] \in DOMAIN subs[s[2]] /\ subs[s[2]][s[3]] = s[1]
    /\ \A c \in Clients : \A i \in DOMAIN subs[c] : <<subs[c][i], c, i>> \in subscriptions

\* A SEND is delivered to no one who was not subscribed when it was handled
\* (with the same exception), and a finished one to everyone who was and is
\* still connected (deliver, writeFrame).
DeliveredToSubscribers ==
    \A c \in Clients : \A s \in Clients \X SubIDs :
        /\ s \in sending[c] \ reused => s \in started[c]
        /\ sending[c] = {} /\ s \in started[c] /\ s[1] \in open => <<s[1], s[2], c>> \in outbox

\* Subscriptions last from SUBSCRIBE to UNSUBSCRIBE or the end of the connection,
\* and a SEND goes to those that are there.
SubscribersAreServed == SubscriptionMapsAgree /\ DeliveredToSubscribers
=============================================================================
