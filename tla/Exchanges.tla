----------------------------- MODULE Exchanges -----------------------------
(***************************************************************************)
(* What the servers do with one request or message, in the order of their  *)
(* code: when they read the fault in force, capture the message, look for  *)
(* a mock, roll the fault, answer and log.  Every server has its own order *)
(* and its own early returns, given here as a program of small steps; one  *)
(* step is one access to state that others share.  Several exchanges run   *)
(* at once, while the management API replaces the mock that would match    *)
(* and changes the fault and the scenario patch.                           *)
(***************************************************************************)
EXTENDS Naturals, Sequences

CONSTANTS
    Exchanging,     \* exchanges that run at once
    Mocks,          \* what may be installed for the request
    Mute            \* mocks without a response, a subset of Mocks

NoMock == "no mock"

Do(op) == [op |-> op, alt |-> <<>>]
If(op, alt) == [op |-> op, alt |-> alt]

(***************************************************************************)
(* The programs.  "miss" leaves by its alternative without a mock, "mute"  *)
(* with one that has no response, "patch" under a scenario patch that      *)
(* answers, "roll" when the fault strikes.                                 *)
(***************************************************************************)
\* tcpserver.handleConn: an unmatched message is logged and ends it.
tcp ==
    <<Do("fault"), Do("match"), If("miss", <<Do("log")>>),
      If("roll", <<Do("refuse")>>), Do("answer"), Do("log")>>

\* dnsserver.handleQuery: the answer is collected and logged before the roll.
dns ==
    <<Do("fault"), Do("match"), If("miss", <<If("roll", <<Do("refuse")>>), Do("answer")>>),
      Do("log"), If("roll", <<Do("refuse")>>), Do("answer")>>

\* coapserver.handlePacket for a packet it can parse: 4.04 without a mock.
coap ==
    <<Do("fault"), If("roll", <<Do("refuse")>>), Do("match"), Do("answer"), Do("log")>>

\* sipserver.handlePacket for a request but ACK, which is only logged: logged
\* on arrival and again with the answer.
sip ==
    <<Do("fault"), Do("log"), If("roll", <<Do("refuse")>>), Do("match"), Do("answer"), Do("log")>>

\* graphqlserver.handleGraphQL for a query that is no introspection, with a
\* mock that has no stream: what a scenario patch answers is not logged.
graphql ==
    <<Do("fault"), Do("match"), If("miss", <<Do("answer"), Do("log")>>),
      If("patch", <<Do("patched")>>),
      If("roll", <<Do("refuse")>>), Do("answer"), Do("log")>>

\* grpcserver.unknownServiceHandler for a unary method: a fault is logged
\* with the mock it hid.
grpc ==
    <<Do("fault"), Do("match"), If("roll", <<Do("log"), Do("refuse")>>),
      If("miss", <<Do("log"), Do("answer")>>), Do("answer"), Do("log")>>

\* redisserver.handleCommand for a command that is left to the mocks.
redis ==
    <<Do("fault"), Do("match"), If("roll", <<Do("refuse"), Do("log unmatched")>>),
      If("miss", <<Do("answer"), Do("log")>>), Do("answer"), Do("log")>>

\* kafkaserver.handleProduce, one partition: captured before the roll.
produce ==
    <<Do("fault"), Do("capture"), Do("log"), If("roll", <<Do("refuse")>>), Do("answer")>>

\* kafkaserver.handleFetch, one topic: not logged.
fetch ==
    <<Do("fault"), Do("match"), If("roll", <<Do("refuse")>>), Do("answer")>>

\* Broken variant of mqtt: a fault comes before the capture.
mqttRollsFirst ==
    <<Do("fault"), If("roll", <<Do("drop")>>), Do("capture"), Do("log"), Do("match"),
      If("miss", <<Do("drop")>>), If("mute", <<Do("drop")>>), Do("answer"), Do("log")>>

\* mqttserver.OnPublish.
mqtt ==
    <<Do("fault"), Do("capture"), Do("log"), Do("match"),
      If("miss", <<Do("drop")>>), If("mute", <<Do("drop")>>),
      If("roll", <<Do("drop")>>), Do("answer"), Do("log")>>

\* natsserver, one callback of a queue group: handleMessage with the mock that
\* the subscription was made for.
natsQueue ==
    <<Do("bound"), Do("fault"), Do("capture"), Do("log"),
      If("mute", <<Do("drop")>>), If("roll", <<Do("drop")>>), Do("answer"), Do("log answer")>>

\* natsserver, one callback of the catch-all, which finds the mock first.
nats ==
    <<Do("match"), If("miss", <<Do("capture"), Do("log"), Do("drop")>>),
      Do("fault"), Do("capture"), Do("log"),
      If("mute", <<Do("drop")>>), If("roll", <<Do("drop")>>), Do("answer"), Do("log answer")>>

\* stompserver.handleConn, SEND: captured, never logged.
stomp ==
    <<Do("fault"), Do("capture"), Do("match"), If("roll", <<Do("refuse")>>),
      If("miss", <<Do("drop")>>), If("mute", <<Do("drop")>>), Do("answer")>>

Program == [tcp |-> tcp, dns |-> dns, coap |-> coap, sip |-> sip, graphql |-> graphql,
            grpc |-> grpc, redis |-> redis, produce |-> produce, fetch |-> fetch,
            mqtt |-> mqtt, nats |-> nats, natsQueue |-> natsQueue, stomp |-> stomp]

----------------------------------------------------------------------------
VARIABLES
    installed,      \* the mock that would match now
    fault,          \* a fault is in force
    patch,          \* a scenario patch answers for the mock
    ex              \* exchange -> its program and what it has done

exVars == <<installed, fault, patch, ex>>

Fresh(p) ==
    [proto |-> p, rest |-> Program[p], fault |-> FALSE, mock |-> NoMock,
     captured |-> 0, entries |-> <<>>, outcome |-> "open"]

ExInit ==
    /\ installed = NoMock /\ fault = FALSE /\ patch = FALSE
    /\ \E p \in DOMAIN Program : ex = [r \in Exchanging |-> Fresh(p)]

Op(r) == Head(ex[r].rest).op
At(r, op) == ex[r].rest # <<>> /\ Op(r) = op
Then(r, e) == ex' = [ex EXCEPT ![r] = [e EXCEPT !.rest = Tail(@)]]
Alternative(r) == ex' = [ex EXCEPT ![r].rest = Head(@).alt]
API == <<installed, fault, patch>>

ReadFault(r) == At(r, "fault") /\ Then(r, [ex[r] EXCEPT !.fault = fault]) /\ UNCHANGED API

MatchMock(r) == At(r, "match") /\ Then(r, [ex[r] EXCEPT !.mock = installed]) /\ UNCHANGED API

BoundMock(r) ==
    /\ At(r, "bound")
    /\ \E m \in Mocks : Then(r, [ex[r] EXCEPT !.mock = m])
    /\ UNCHANGED API

Capture(r) == At(r, "capture") /\ Then(r, [ex[r] EXCEPT !.captured = @ + 1]) /\ UNCHANGED API

\* An exchange is logged with the mock it has found so far, if any.
Log(r) ==
    /\ At(r, "log") \/ At(r, "log answer") \/ At(r, "log unmatched")
    /\ Then(r, [ex[r] EXCEPT !.entries =
                  Append(@, IF Op(r) = "log unmatched" THEN NoMock ELSE ex[r].mock)])
    /\ UNCHANGED API

Finish(r) ==
    \E o \in {"answer", "patched", "refuse", "drop"} :
        At(r, o) /\ Then(r, [ex[r] EXCEPT !.outcome = o]) /\ UNCHANGED API

Takes(r) ==
    CASE Op(r) = "miss" -> {ex[r].mock = NoMock}
      [] Op(r) = "mute" -> {ex[r].mock \in Mute}
      [] Op(r) = "patch" -> {patch}
      [] Op(r) = "roll" -> IF ex[r].fault THEN BOOLEAN ELSE {FALSE}

Branch(r) ==
    /\ At(r, "miss") \/ At(r, "mute") \/ At(r, "patch") \/ At(r, "roll")
    /\ \E take \in Takes(r) : IF take THEN Alternative(r) ELSE Then(r, ex[r])
    /\ UNCHANGED API

ChangeMock(m) == installed' = m /\ UNCHANGED <<fault, patch, ex>>
ChangeFault == fault' = ~fault /\ UNCHANGED <<installed, patch, ex>>
ChangePatch == patch' = ~patch /\ UNCHANGED <<installed, fault, ex>>

ExNext ==
    \/ \E r \in Exchanging : ReadFault(r) \/ MatchMock(r) \/ BoundMock(r) \/ Capture(r) \/ Log(r)
                             \/ Finish(r) \/ Branch(r)
    \/ \E m \in Mocks \cup {NoMock} : ChangeMock(m)
    \/ ChangeFault \/ ChangePatch

----------------------------------------------------------------------------
Done(r) == ex[r].rest = <<>>
Credited(r) == SelectSeq(ex[r].entries, LAMBDA m : m # NoMock)

NATSCallbacks == {"nats", "natsQueue"}

\* A fault drops or refuses the answer, never the message: whatever MQTT, STOMP
\* and Kafka's produce answer, they have captured the message exactly once, and
\* so has each callback of NATS.  A NATS message is thus captured once for each
\* subscription that it meets, and not at all when it meets none.
MessagesAreCaptured ==
    \A r \in Exchanging :
        Done(r) /\ ex[r].proto \in NATSCallbacks \cup {"mqtt", "stomp", "produce"} =>
        ex[r].captured = 1

\* An exchange that a mock answered is logged with that mock's id, although
\* the mock may have been replaced since; NATS logs it twice, before and with
\* the answer; STOMP and Kafka's fetch do not log.
AnswersAreLogged ==
    \A r \in Exchanging :
        Done(r) /\ ex[r].outcome = "answer" /\ ex[r].mock # NoMock
            /\ ex[r].proto \notin {"stomp", "fetch"} =>
        Credited(r) = IF ex[r].proto \in NATSCallbacks
                      THEN <<ex[r].mock, ex[r].mock>> ELSE <<ex[r].mock>>

\* An exchange that a fault refused is not credited to a mock; DNS and gRPC
\* log it with the mock that would have answered.
RefusalsAreNotCredited ==
    \A r \in Exchanging :
        Done(r) /\ ex[r].outcome = "refuse" /\ ex[r].proto \notin {"dns", "grpc"} =>
        Credited(r) = <<>>
=============================================================================
