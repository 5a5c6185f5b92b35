----------------------------- MODULE AMQPServer ----------------------------
(***************************************************************************)
(* A connection of the AMQP broker (amqpserver.handleConn): messages are   *)
(* assembled per channel from a method frame, a header frame and body      *)
(* frames, then captured and answered to the connection's consumers, while *)
(* the management API replaces the mocks.  A routing key stands for the    *)
(* exchange and key of a publish; a body frame carries one unit of body.   *)
(***************************************************************************)
EXTENDS Naturals, Sequences, Functions

CONSTANTS
    Channels, RoutingKeys, Queues,
    Bindings,       \* cfg.Bindings: records of a set of keys and a queue
    MaxPublishes, MaxBody

ASSUME AMQPAssumption ==
    /\ Bindings \in Seq([keys : SUBSET STRING, queue : Queues])
    /\ MaxPublishes \in Nat /\ MaxBody \in Nat

Nil == "nil"            \* no consumer
NoPublish == [id |-> 0]

VARIABLES
    topology,       \* len(cfg.Bindings) > 0
    responders,     \* Server.mocks: queues (or keys) with a response
    consumers,      \* connState.consumers: channel -> queue, or Nil
    publishes,      \* connState.publishes: channel -> publish or NoPublish
    sent,           \* publishes made: sequence of key and size
    proc,           \* the publish in processPublish, or NoPublish
    stored,         \* MessageStore: publish and body units
    delivered,      \* <<publish, queue, channel>> -> times it was delivered
    dropped         \* publishes a fault kept from being answered

amqpVars == <<topology, responders, consumers, publishes, sent, proc, stored,
              delivered, dropped>>

Deliveries == (1 .. MaxPublishes) \X Queues \X Channels

\* What a mock is found by: its queue, or exchange and key.
Targets == IF topology THEN Queues ELSE RoutingKeys

AMQPInit ==
    /\ topology \in BOOLEAN
    /\ responders \in SUBSET Targets
    /\ consumers = [c \in Channels |-> Nil]
    /\ publishes = [c \in Channels |-> NoPublish]
    /\ sent = <<>> /\ proc = NoPublish /\ stored = <<>> /\ dropped = {}
    /\ delivered = [d \in Deliveries |-> 0]

Reading == proc = NoPublish

(***************************************************************************)
(* Frames.  A well-behaved client finishes a message on a channel before   *)
(* it begins the next there; an empty one has no body frame.               *)
(***************************************************************************)
Finished(c) ==
    publishes[c] # NoPublish => publishes[c].header /\ sent[publishes[c].id].size = 0

\* A method frame with Basic.Consume: one consumer per channel is kept.
Consume(c, q) ==
    /\ Reading /\ Finished(c)
    /\ consumers' = [consumers EXCEPT ![c] = q]
    /\ UNCHANGED <<topology, responders, publishes, sent, proc, stored, delivered, dropped>>

\* A method frame with Basic.Publish: what the channel had begun is forgotten.
Publish(c, k, n) ==
    /\ Reading /\ Finished(c) /\ Len(sent) < MaxPublishes
    /\ sent' = Append(sent, [key |-> k, size |-> n])
    /\ publishes' = [publishes EXCEPT ![c] =
                       [id |-> Len(sent) + 1, header |-> FALSE, bodySize |-> 0, body |-> <<>>]]
    /\ UNCHANGED <<topology, responders, consumers, proc, stored, delivered, dropped>>

Header(c) ==
    /\ Reading /\ publishes[c] # NoPublish /\ ~publishes[c].header
    /\ publishes' = [publishes EXCEPT ![c].header = TRUE,
                                      ![c].bodySize = sent[publishes[c].id].size]
    /\ UNCHANGED <<topology, responders, consumers, sent, proc, stored, delivered, dropped>>

\* The client has body units left to send for the channel's publish.
Sending(c) == publishes[c] # NoPublish /\ publishes[c].header
              /\ Len(publishes[c].body) < sent[publishes[c].id].size

BodyComplete(pub) == Len(pub.body) >= pub.bodySize

\* Some channel's publish.
PendingOfAny(c) == CHOOSE d \in Channels : publishes[d] # NoPublish

\* The publish a body frame is added to: its channel's.
PendingOf(c) == c

(***************************************************************************)
(* routeToQueues: the bound queues, each once, in the order of the bindings*)
(***************************************************************************)
routeToQueues(k) ==
    LET queues[i \in 0 .. Len(Bindings)] ==
            IF i = 0 THEN <<>>
            ELSE IF /\ k \in Bindings[i].keys
                    /\ Bindings[i].queue \notin Range(queues[i - 1])
              THEN Append(queues[i - 1], Bindings[i].queue)
            ELSE queues[i - 1]
    IN  queues[Len(Bindings)]

consumersForQueue(q) == {c \in Channels : consumers[c] = q}

\* processPublish up to the choice of the answers: the fault is read, the
\* message captured, and the fault rolled once for the whole publish.
StartProcess(c, pub, drop) ==
    /\ stored' = Append(stored, [id |-> pub.id, body |-> pub.body])
    /\ proc' = [id |-> pub.id, channel |-> c,
                queues |-> IF topology THEN routeToQueues(sent[pub.id].key)
                                       ELSE <<sent[pub.id].key>>]
    /\ dropped' = IF drop THEN dropped \cup {pub.id} ELSE dropped
    /\ publishes' = [publishes EXCEPT ![PendingOf(c)] = NoPublish]

Body(c) ==
    LET at == PendingOf(c)
        pub == [publishes[at] EXCEPT !.body = Append(@, publishes[c].id)] IN
    /\ Reading /\ Sending(c)
    /\ IF BodyComplete(pub)
       THEN \E drop \in BOOLEAN : StartProcess(c, pub, drop)
       ELSE publishes' = [publishes EXCEPT ![at] = pub] /\ UNCHANGED <<stored, proc, dropped>>
    /\ UNCHANGED <<topology, responders, consumers, sent, delivered>>

(***************************************************************************)
(* The answers.                                                            *)
(***************************************************************************)
deliverTo(q, cs) ==
    delivered' = [d \in Deliveries |->
                    IF d \in {<<proc.id, q, c>> : c \in cs} THEN delivered[d] + 1
                                                            ELSE delivered[d]]

\* Without bindings the answer goes to the channel's consumer, or to any.
FlatConsumers ==
    IF consumers[proc.channel] # Nil THEN {proc.channel}
    ELSE {c \in Channels : consumers[c] # Nil}

\* A queue whose mock has a response is answered, unless the fault struck.
Answered(q) == q \in responders /\ proc.id \notin dropped

\* One round of routePublish's loop: the queue's mock is looked up anew.
Route ==
    /\ ~Reading /\ topology /\ proc.queues # <<>>
    /\ LET q == Head(proc.queues) IN
       IF Answered(q) THEN deliverTo(q, consumersForQueue(q)) ELSE UNCHANGED delivered
    /\ proc' = [proc EXCEPT !.queues = Tail(@)]
    /\ UNCHANGED <<topology, responders, consumers, publishes, sent, stored, dropped>>

\* processPublish without bindings: one mock, one consumer.
Flat ==
    /\ ~Reading /\ ~topology /\ proc.queues # <<>>
    /\ IF Answered(Head(proc.queues)) /\ FlatConsumers # {}
       THEN \E c \in FlatConsumers : deliverTo(consumers[c], {c})
       ELSE UNCHANGED delivered
    /\ proc' = [proc EXCEPT !.queues = <<>>]
    /\ UNCHANGED <<topology, responders, consumers, publishes, sent, stored, dropped>>

\* The publish is logged and the next frame read.
Processed ==
    /\ ~Reading /\ proc.queues = <<>>
    /\ proc' = NoPublish
    /\ UNCHANGED <<topology, responders, consumers, publishes, sent, stored, delivered, dropped>>

AMQPSetMocks(r) ==
    /\ responders' = r
    /\ UNCHANGED <<topology, consumers, publishes, sent, proc, stored, delivered, dropped>>

AMQPNext ==
    \/ \E c \in Channels :
          \/ Header(c) \/ Body(c)
          \/ \E q \in Queues : Consume(c, q)
          \/ \E k \in RoutingKeys, n \in 0 .. MaxBody : Publish(c, k, n)
    \/ Route \/ Flat \/ Processed
    \/ \E r \in SUBSET Targets : AMQPSetMocks(r)

AMQPSpec == AMQPInit /\ [][AMQPNext]_amqpVars

----------------------------------------------------------------------------
\* A message is captured once, whole, and with body units of its own publish
\* only, whatever the other channels of the connection send in between.
MessagesAreWhole ==
    /\ \A i \in DOMAIN stored :
          stored[i].body = [j \in 1 .. sent[stored[i].id].size |-> stored[i].id]
    /\ \A i, j \in DOMAIN stored : i # j => stored[i].id # stored[j].id

\* A publish reaches a consumer at most once, although several bindings may
\* lead to its queue.
OneDeliveryPerConsumer ==
    \A d \in Deliveries : delivered[d] <= 1

\* A fault drops a publish as a whole: none of its queues is answered.
DropIsAllOrNothing ==
    \A d \in Deliveries : delivered[d] > 0 => d[1] \notin dropped

\* AMQP: a message is captured once, whole, and with no other channel's body
\* (handleConn); it reaches a consumer at most once (routeToQueues); a fault
\* drops the answers for all its queues or for none (processPublish).
PublishesAreWhole ==
    MessagesAreWhole /\ OneDeliveryPerConsumer /\ DropIsAllOrNothing
=============================================================================
