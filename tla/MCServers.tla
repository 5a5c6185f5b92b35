---------------------------- MODULE MCServers ------------------------------
(***************************************************************************)
(* The protocol servers, for TLC, and the stores that all of them use:     *)
(* the scenarios with the faults they inject, the rate limiter, and the    *)
(* ring buffers.  They share no data, so a behaviour is one of one of them *)
(* ("part") while the others stay as they were at first.  "match" takes no *)
(* steps: its initial states are the questions put to the matchers.        *)
(***************************************************************************)
EXTENDS Scenarios, RingBuffer, FTPServer, Memcached, IMAPServer, LDAPServer, SMTPServer,
        AMQPServer, NATSServer, STOMPServer, WSServer, TLC

CONSTANTS c1, c2, alice, bob, p1, f1, f2, m1, m2, box, spam, promo, work,
          m, http, kv, f, g, global, mock

VARIABLES installed, fault, patch, ex
VARIABLES data, now, reply
VARIABLES oids, values, walk, set
VARIABLE probe
VARIABLES time, rateWindows, passed, seen
VARIABLE part

MCAllowed == (alice :> {f1}) @@ (bob :> {})
MCCatalogs == {p1 :> f1, p1 :> f2}

MCAllowedMockIDs == (alice :> {m1}) @@ (bob :> {})
MCLDAPConfigs == {<<m1, m2>>, <<m2>>, <<>>}

MCRuleSets == {{}, {<<alice, promo>>}}

MCBindings == <<[keys |-> {"k1"}, queue |-> "q1"], [keys |-> {"k1", "k2"}, queue |-> "q2"],
                [keys |-> {"k1"}, queue |-> "q1"]>>

MCMockLists == {<<"q1", "p1">>, <<"q2", "q1">>, <<"p2">>, <<>>}

OIDs == {<<1>>, <<1, 2>>, <<1, 10>>, <<2>>}
Tables == {<<>>, <<<<2>>, <<1, 10>>, <<1, 2>>>>, <<<<1, 10>>, <<1>>>>,
           <<<<1, 2>>, <<2>>, <<1, 2>>>>}

\* Three scenarios over two protocols, with and without faults and patches.
MCDefinitions == {
    [patches |-> {m}, faults |-> (http :> f) @@ (kv :> NoFault)],
    [patches |-> {m}, faults |-> (http :> g) @@ (kv :> g)],
    [patches |-> {},  faults |-> (http :> NoFault) @@ (kv :> NoFault)]}

Rates == INSTANCE RateLimit WITH Keys <- {global, mock}, now <- time,
                                 Limit <- (global :> 2) @@ (mock :> 0),
                                 Second <- 3, MaxTime <- 4, MaxPerTick <- 2
Exchange == INSTANCE Exchanges WITH Exchanging <- {1}, Mocks <- {"loud", "mute"},
                                    Mute <- {"mute"}
Redis == INSTANCE RedisData WITH RKeys <- {"k"}, Fields <- {"f", "g"}, MaxInt <- 3,
                                 MaxTime <- 4, MaxLen <- 3
SNMP == INSTANCE SNMPAgent WITH MaxSets <- 2, MaxReps <- 4, MaxSeen <- 4
Match == INSTANCE Matching WITH Literals <- {"a", "b"}, Captures <- {"{x}", "{y}"},
                                Letters <- {"a", "b"}, MaxLength <- 3

scenarioVars == <<scenarios, active, direct, updating>>
rateVars == <<time, rateWindows, passed, seen>>
exVars == <<installed, fault, patch, ex>>
redisVars == <<data, now, reply>>
snmpVars == <<oids, values, walk, set>>
matchVars == <<probe>>

mcVars == <<scenarioVars, rateVars, ringVars, ftpVars, memVars, imapVars, ldapVars, smtpVars,
            amqpVars, natsVars, stompVars, exVars, wsVars, redisVars, snmpVars, matchVars, part>>

Parts == {"scenario", "rate", "ring", "ftp", "mem", "imap", "ldap", "smtp", "amqp",
          "nats", "stomp", "ex", "ws", "redis", "snmp", "match"}

MCInit ==
    /\ part \in Parts
    /\ Init /\ (part # "scenario" => DOMAIN scenarios = {})
    /\ Rates!Init
    /\ RingInit
    /\ FTPInit /\ (part # "ftp" => users = {} /\ files[p1] = f1)
    /\ MemInit
    /\ IMAPInit /\ (part # "imap" => mailUsers = {})
    /\ LDAPInit /\ (part # "ldap" => ldapUsers = {} /\ ldapMocks = <<>>)
    /\ SMTPInit /\ (part # "smtp" => rejected = {})
    /\ AMQPInit /\ (part # "amqp" => topology /\ responders = {})
    /\ NATSInit /\ (part # "nats" => natsMocks = <<>>)
    /\ STOMPInit
    /\ Exchange!ExInit /\ (part # "ex" => ex[1].proto = "tcp")
    /\ WSInit /\ (part # "ws" => wsMocks["a"] = 0 /\ wsMocks["b"] = 0)
    /\ Redis!RedisInit
    /\ SNMP!AgentInit /\ (part # "snmp" => oids = <<>> /\ walk.from = <<1>> /\ ~walk.v1)
    /\ Match!MatchingInit /\ (part # "match" => probe = [pattern |-> <<"a">>, subject |-> <<"a">>])

\* A step of part p leaves the others alone.
Only(p) ==
    /\ part = p
    /\ UNCHANGED part
    /\ IF p = "scenario" THEN TRUE ELSE UNCHANGED scenarioVars
    /\ IF p = "rate" THEN TRUE ELSE UNCHANGED rateVars
    /\ IF p = "ring" THEN TRUE ELSE UNCHANGED ringVars
    /\ IF p = "ftp" THEN TRUE ELSE UNCHANGED ftpVars
    /\ IF p = "mem" THEN TRUE ELSE UNCHANGED memVars
    /\ IF p = "imap" THEN TRUE ELSE UNCHANGED imapVars
    /\ IF p = "ldap" THEN TRUE ELSE UNCHANGED ldapVars
    /\ IF p = "smtp" THEN TRUE ELSE UNCHANGED smtpVars
    /\ IF p = "amqp" THEN TRUE ELSE UNCHANGED amqpVars
    /\ IF p = "nats" THEN TRUE ELSE UNCHANGED natsVars
    /\ IF p = "stomp" THEN TRUE ELSE UNCHANGED stompVars
    /\ IF p = "ex" THEN TRUE ELSE UNCHANGED exVars
    /\ IF p = "ws" THEN TRUE ELSE UNCHANGED wsVars
    /\ IF p = "redis" THEN TRUE ELSE UNCHANGED redisVars
    /\ IF p = "snmp" THEN TRUE ELSE UNCHANGED snmpVars
    /\ IF p = "match" THEN TRUE ELSE UNCHANGED matchVars

\* Without configured users every name is as good as any other.
OneName == users = {} => \A c \in FTPConns : sess'[c].pendingUser # bob

ScenariosStep == Only("scenario") /\ Next
RatesStep == Only("rate") /\ Rates!Next
RingStep == Only("ring") /\ RingNext
FTPStep == Only("ftp") /\ FTPNext /\ OneName
MemStep == Only("mem") /\ MemNext
IMAPStep == Only("imap") /\ IMAPNext
LDAPStep == Only("ldap") /\ LDAPNext
SMTPStep == Only("smtp") /\ SMTPNext
AMQPStep == Only("amqp") /\ AMQPNext
NATSStep == Only("nats") /\ NATSNext
STOMPStep == Only("stomp") /\ STOMPNext
ExchangeStep == Only("ex") /\ Exchange!ExNext
WSStep == Only("ws") /\ WSNext
RedisStep == Only("redis") /\ Redis!RedisNext
SNMPStep == Only("snmp") /\ SNMP!AgentNext

MCNext == ScenariosStep \/ RatesStep \/ RingStep \/ FTPStep \/ MemStep \/ IMAPStep \/ LDAPStep
          \/ SMTPStep \/ AMQPStep \/ NATSStep \/ STOMPStep \/ ExchangeStep \/ WSStep \/ RedisStep \/ SNMPStep

MCSpec == MCInit /\ [][MCNext]_mcVars

\* Connections, and callers of SetMocks, are interchangeable.
Symmetry == Permutations({c1, c2})

----------------------------------------------------------------------------
\* In no second do more than twice the configured number of requests get
\* through, and none is refused before the limit is used up (RateLimited).
RateLimitIsKept == [](part = "rate" => Rates!AtMostTwoWindowsPerSecond) /\ Rates!NoEarlyRefusal

\* MQTT, STOMP, Kafka and each callback of NATS capture the message they handle
\* exactly once, whatever fault strikes; an exchange that a mock answered is
\* logged with that mock's id, and one that a fault refused is credited to none,
\* except by DNS and gRPC.
ExchangesAreAccounted ==
    part = "ex" => /\ Exchange!MessagesAreCaptured
                   /\ Exchange!AnswersAreLogged
                   /\ Exchange!RefusalsAreNotCredited

\* Redis: a key past its expiry is never answered from (getLocked), a command
\* that fails leaves the key as it was, one that modifies a value keeps its
\* expiry, and LRANGE answers the elements between the two indexes, negative
\* ones counted from the end, where it answers at all.
KeysAreAsWritten ==
    /\ Redis!ExpiredKeysAreGone /\ Redis!FailuresChangeNothing /\ Redis!LifetimeIsKept
    /\ [](part = "redis" => Redis!LRangeAnswersAreRight)

\* SNMP: GETNEXT and GETBULK walks visit every later OID once, in order, GETBULK
\* answers what repeated GETNEXT requests would, and the response to SET tells
\* which variables were written.
AgentAnswersAreRight ==
    part = "snmp" => SNMP!WalksAreComplete /\ SNMP!BulkIsRepeatedNext /\ SNMP!SetAnswersAreTrue

\* The matchers do what their definitions say: AMQP's topics are shared out
\* among the segments, the matchers of MQTT, NATS and HTTP agree with AMQP's
\* where both apply, captures rebuild the subject, and a glob matches the keys
\* its star stands for and those in which its two ends overlap.
MatchersAreRight ==
    part = "match" => /\ Match!TopicsAreSharedOut /\ Match!MatchersAgree
                      /\ Match!CapturesRebuildTheSubject /\ Match!GlobsAreRight
=============================================================================
