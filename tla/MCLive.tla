------------------------------- MODULE MCLive -------------------------------
(***************************************************************************)
(* What must come to an end or come about, for TLC: the SNMP agent's       *)
(* restarts (SNMPServer), streamed responses (Streams), the start and the  *)
(* end of the program (Lifecycle) and outbound webhooks (Webhook).  They   *)
(* share no data, so a behaviour is one of one of them ("part") while the  *)
(* others stay as they were at first, and each is fair to its own steps.   *)
(***************************************************************************)
EXTENDS SNMPServer, Streams, Lifecycle, Webhook, TLC

CONSTANTS sse, page, quiet, sub, feed, rpc, chat, talk

VARIABLE part

\* Per protocol a stream that is kept open and one that is not; events that do
\* not fit the response type; two streams of one mock, two subscriptions; more
\* pushes to one stream than its channel holds.
StreamMocks == {sse, page, quiet, sub, feed, rpc, chat, talk}

StreamProtocol ==
    [m \in {sse, page, quiet} |-> "http"] @@ (sub :> "graphql")
        @@ [m \in {feed, rpc} |-> "grpc"] @@ [m \in {chat, talk} |-> "bidi"]
StreamEvents ==
    [m \in {sse, page} |-> <<"ok", "ok">>] @@ [m \in {quiet, sub} |-> <<"ok">>]
        @@ [m \in {feed, rpc} |-> <<"ok", "bad">>]
        @@ (chat :> <<"ok">>) @@ (talk :> <<"ok", "unsendable">>)
StreamKeepOpen == [m \in StreamMocks |-> m \notin {page, rpc, talk}]
StreamMaxOpen == [m \in StreamMocks |-> IF m \in {quiet, sub} THEN 2 ELSE 1]
StreamMaxCalls ==
    [m \in StreamMocks |-> CASE m = sse -> 3
                             [] m \in {quiet, sub, chat} -> 1
                             [] OTHER -> 2]

\* Every server once, in pairs.
ServerPairs ==
    {{"http", "nats"}, {"tcp", "api"}, {"amqp", "redis"}, {"ftp", "ws"}, {"sip", "smtp"},
     {"coap", "graphql"}, {"imap", "dns"}, {"kafka", "mqtt"}, {"ldap", "grpc"},
     {"memcached", "stomp"}}

\* With a negative number of retries no attempt is made.
WebhookRetries == {-1, 0, 1}

mcVars == <<vars, streamVars, lifeVars, hookVars, part>>

MCInit ==
    /\ part \in {"snmp", "stream", "life", "hook"}
    /\ Init /\ StreamInit
    /\ LifeInit /\ (part # "life" => DOMAIN srv = {"tcp", "api"})
    /\ HookInit

SNMPStep == part = "snmp" /\ Next /\ UNCHANGED <<streamVars, lifeVars, hookVars, part>>
StreamStep == part = "stream" /\ StreamNext /\ UNCHANGED <<vars, lifeVars, hookVars, part>>
LifeStep == part = "life" /\ LifeNext /\ UNCHANGED <<vars, streamVars, hookVars, part>>
HookStep == part = "hook" /\ HookNext /\ UNCHANGED <<vars, streamVars, lifeVars, part>>

MCNext == SNMPStep \/ StreamStep \/ LifeStep \/ HookStep

\* SNMPServer's Fairness.
SNMPFairness ==
    /\ WF_vars(part = "snmp" /\ buildAndListen)
    /\ WF_vars(part = "snmp" /\ listenUDP)
    /\ WF_vars(part = "snmp" /\ Capture)
    /\ WF_vars(part = "snmp" /\ StartRestart)
    /\ WF_vars(part = "snmp" /\ StartServeError)
    /\ \A c \in Callers : WF_vars(part = "snmp" /\ SetMocksSignal(c))

\* Those of Streams, Lifecycle and Webhook.
PartStreamFairness ==
    \A s \in Streams :
        /\ WF_streamVars(part = "stream" /\ Serve(s))
        /\ WF_streamVars(part = "stream" /\ SelectReturns(s))
        /\ WF_streamVars(part = "stream" /\ TimerFires(s))
        /\ WF_streamVars(part = "stream" /\ Receiver(s))
OtherFairness ==
    /\ WF_lifeVars(part = "life" /\ RunServersReturns)
    /\ WF_lifeVars(part = "life" /\ ServersProgress)
    /\ \A d \in Dispatches : WF_hookVars(part = "hook" /\ DispatchStep(d))

MCSpec == MCInit /\ [][MCNext]_mcVars /\ SNMPFairness /\ PartStreamFairness /\ OtherFairness
=============================================================================
