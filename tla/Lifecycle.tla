----------------------------- MODULE Lifecycle -----------------------------
(* mockly start: the protocol servers and the management API are launched    *)
(* each on a goroutine of its own, and the program ends when a signal        *)
(* cancels the context or when the first of them returns                     *)
(* (cmd/mockly/start.go).                                                    *)
(*                                                                           *)
(* What a server's Start does is a program, a sequence of steps:             *)
(*   listen      bind the port, or return the error                          *)
(*   tls         wrap the listener, or return the error                      *)
(*   ready       close the channel that says the port is bound               *)
(*   closer      start a goroutine that closes the listener once ctx is done *)
(*   accept      accept until that fails: nil if ctx is done, else the error *)
(*   serve       start a goroutine that serves a bound listener              *)
(*   bindserve   start a goroutine that binds the port itself and serves     *)
(*   select      until ctx is done, or the serving goroutine gives its error *)
(*   wait        until ctx is done                                           *)
(*   shutdown    stop serving once the requests in flight have been answered,*)
(*               or after five seconds, and close the listener               *)
(*   graceful    the same without a limit                                    *)
(*   close       close the listener and every connection                     *)
(*   tempdir     create a temporary directory, removed when Start returns    *)
EXTENDS Naturals, Sequences

CONSTANTS
    Configurations,\* sets of servers that may be enabled together
    Listeners      \* listeners of the HTTP server: its own and the named ones

tcpStart == <<"listen", "tls", "closer", "accept">>
amqpStart == <<"listen", "ready", "closer", "accept">>

ftpStart == <<"listen", "ready", "closer", "accept">>

sipStart == <<"listen", "ready", "closer", "accept">>

coapStart == <<"listen", "closer", "accept">>

imapStart == <<"listen", "closer", "accept">>

kafkaStart == <<"listen", "closer", "accept">>

ldapStart == <<"listen", "closer", "accept">>

memcachedStart == <<"listen", "closer", "accept">>

stompStart == <<"listen", "closer", "accept">>

grpcStart == <<"listen", "serve", "select", "graceful">>

wsStart == <<"listen", "tls", "serve", "select", "shutdown">>

graphqlStart == <<"listen", "tls", "serve", "select", "shutdown">>

apiStart == <<"listen", "tls", "serve", "select", "shutdown">>

redisStart == <<"bindserve", "select", "close">>

smtpStart == <<"bindserve", "select", "close">>

dnsStart == <<"bindserve", "select", "close">>

mqttStart == <<"listen", "serve", "ready", "wait", "close">>

natsStart == <<"tempdir", "listen", "ready", "wait", "close">>

\* Every listener is bound and wrapped in turn before any of them serves.
httpStart ==
    [i \in 1..(2 * Listeners + 3) |->
        IF i > 2 * Listeners THEN <<"serve", "select", "shutdown">>[i - 2 * Listeners]
        ELSE IF i % 2 = 1 THEN "listen" ELSE "tls"]

StartOf ==
    [tcp |-> tcpStart, amqp |-> amqpStart, ftp |-> ftpStart, sip |-> sipStart, coap |-> coapStart,
     imap |-> imapStart, kafka |-> kafkaStart, ldap |-> ldapStart, memcached |-> memcachedStart,
     stomp |-> stompStart, grpc |-> grpcStart, ws |-> wsStart, graphql |-> graphqlStart, api |-> apiStart,
     redis |-> redisStart, smtp |-> smtpStart, dns |-> dnsStart, mqtt |-> mqttStart, nats |-> natsStart,
     http |-> httpStart]

ASSUME LifecycleAssumption ==
    Configurations \subseteq SUBSET DOMAIN StartOf /\ Listeners \in Nat \ {0}

VARIABLES
    done,      \* the context is cancelled: a signal came
    srv,       \* each enabled server: next step, listeners bound, goroutines, what Start returned
    errCh,     \* results that main has not received
    process    \* "up", or how it ended: "ok", "error", "panic"

lifeVars == <<done, srv, errCh, process>>

NotStarted == [at |-> 1, bound |-> 0, closer |-> FALSE, serving |-> "no", busy |-> FALSE,
               ready |-> FALSE, temp |-> FALSE, result |-> "none"]

StepOf(s) == StartOf[s][srv[s].at]

Launched == DOMAIN srv

At(s, step) == process = "up" /\ srv[s].result = "none" /\ StepOf(s) = step

SetServer(s, rec) == srv' = [srv EXCEPT ![s] = rec]

Advance(s) == [srv[s] EXCEPT !.at = @ + 1]

\* Start returns; launch hands its result to errCh, and deferred calls run.
Return(s, rec, result) ==
    /\ SetServer(s, [rec EXCEPT !.result = result, !.temp = FALSE])
    /\ errCh' = Append(errCh, result)
    /\ UNCHANGED <<done, process>>

Continue(s, rec) == SetServer(s, rec) /\ UNCHANGED <<done, errCh, process>>

----------------------------------------------------------------------------
(* The steps.                                                                *)

ListenLeavesOthersBound(s) ==
    /\ At(s, "listen")
    /\ \/ Continue(s, [Advance(s) EXCEPT !.bound = @ + 1])
       \/ Return(s, srv[s], "error")

\* The HTTP server gives back the listeners it has bound when one cannot be.
Listen(s) ==
    /\ At(s, "listen")
    /\ \/ Continue(s, [Advance(s) EXCEPT !.bound = @ + 1])
       \/ Return(s, [srv[s] EXCEPT !.bound = 0], "error")

\* WrapListener returns a nil listener with its error.  The HTTP server calls
\* Close on it, which panics; the others return and leave the port bound.
WrapTLS(s) ==
    /\ At(s, "tls")
    /\ \/ Continue(s, Advance(s))
       \/ /\ s = "http"
          /\ process' = "panic"
          /\ UNCHANGED <<done, srv, errCh>>
       \/ /\ s # "http"
          /\ Return(s, srv[s], "error")

Ready(s) == At(s, "ready") /\ Continue(s, [Advance(s) EXCEPT !.ready = TRUE])

SpawnCloser(s) == At(s, "closer") /\ Continue(s, [Advance(s) EXCEPT !.closer = TRUE])

SpawnServe(s) == At(s, "serve") /\ Continue(s, [Advance(s) EXCEPT !.serving = "yes"])

SpawnBind(s) == At(s, "bindserve") /\ Continue(s, [Advance(s) EXCEPT !.serving = "binding"])

MakeTempDir(s) == At(s, "tempdir") /\ Continue(s, [Advance(s) EXCEPT !.temp = TRUE])

\* Accept fails: because the listener was closed, or for a reason of its own,
\* when the listener stays open.
AcceptFails(s) ==
    /\ At(s, "accept")
    /\ Return(s, srv[s], IF done THEN "nil" ELSE "error")

\* The goroutine that waits for ctx and then closes the listener.
CloserCloses(s) ==
    /\ process = "up" /\ srv[s].closer /\ done
    /\ Continue(s, [srv[s] EXCEPT !.closer = FALSE, !.bound = 0])

\* A serving goroutine that binds the port itself reports a failure to errCh of
\* Start, as does one whose Serve ends by itself; the MQTT broker's tells nobody.
Binds(s) ==
    /\ process = "up" /\ srv[s].serving = "binding"
    /\ \/ Continue(s, [srv[s] EXCEPT !.serving = "yes", !.bound = 1])
       \/ Continue(s, [srv[s] EXCEPT !.serving = "failed"])

ServeFails(s) ==
    /\ process = "up" /\ srv[s].serving = "yes" /\ srv[s].result = "none"
    /\ Continue(s, [srv[s] EXCEPT !.serving = "failed"])

\* select: the context first or the error first, whichever is there.  One HTTP
\* listener that fails takes the others down with it; of the two DNS servers
\* the other one goes on, and an error that speaks of a closed connection or a
\* shutdown is taken for none (isDNSServerClosed).
Select(s) ==
    /\ At(s, "select")
    /\ \/ done /\ Continue(s, Advance(s))
       \/ /\ srv[s].serving = "failed"
          /\ \E result \in IF s = "dns" THEN {"nil", "error"} ELSE {"error"} :
                Return(s, [srv[s] EXCEPT !.bound = IF s = "dns" THEN @ ELSE 0], result)

Wait(s) == At(s, "wait") /\ done /\ Continue(s, Advance(s))

\* A request comes in and is answered.
Request(s) ==
    /\ process = "up" /\ srv[s].serving = "yes" /\ srv[s].bound > 0
    /\ Continue(s, [srv[s] EXCEPT !.busy = ~@])

\* Requests in flight are waited for; after five seconds Shutdown gives up on
\* them with an error.
Shutdown(s) ==
    /\ At(s, "shutdown")
    /\ Return(s, [srv[s] EXCEPT !.bound = 0, !.serving = "no", !.busy = FALSE],
              IF srv[s].busy THEN "error" ELSE "nil")

GracefulStop(s) ==
    /\ At(s, "graceful") /\ ~srv[s].busy
    /\ Return(s, [srv[s] EXCEPT !.bound = 0, !.serving = "no"], "nil")

Close(s) ==
    /\ At(s, "close")
    /\ Return(s, [srv[s] EXCEPT !.bound = 0, !.serving = "no", !.busy = FALSE], "nil")

ServerStep(s) ==
    \/ Listen(s) \/ WrapTLS(s) \/ Ready(s) \/ SpawnCloser(s) \/ SpawnServe(s) \/ SpawnBind(s) \/ MakeTempDir(s)
    \/ AcceptFails(s) \/ CloserCloses(s) \/ Binds(s) \/ ServeFails(s)
    \/ Select(s) \/ Wait(s) \/ Shutdown(s) \/ GracefulStop(s) \/ Close(s) \/ Request(s)

Signal ==
    /\ process = "up" /\ ~done
    /\ done' = TRUE
    /\ UNCHANGED <<srv, errCh, process>>

RunServersHearsOnlySignals ==
    /\ process = "up" /\ done
    /\ process' = "ok"
    /\ UNCHANGED <<done, srv, errCh>>

\* runServers waits for the signal or for the first result, and then returns,
\* which ends the process with whatever still runs in it.
RunServersReturns ==
    /\ process = "up"
    /\ \/ /\ done
          /\ process' = "ok" /\ UNCHANGED errCh
       \/ /\ errCh # <<>>
          /\ process' = IF Head(errCh) = "error" THEN "error" ELSE "ok"
          /\ errCh' = Tail(errCh)
    /\ UNCHANGED <<done, srv>>

LifeInit ==
    /\ done = FALSE
    /\ \E enabled \in Configurations : srv = [s \in enabled |-> NotStarted]
    /\ errCh = <<>>
    /\ process = "up"

LifeNext == Signal \/ RunServersReturns \/ \E s \in Launched : ServerStep(s)

\* The Go scheduler runs every goroutine: main, and each server's own steps,
\* of which each server has finitely many.
Progress(s) == Listen(s) \/ Ready(s) \/ SpawnCloser(s) \/ SpawnServe(s) \/ SpawnBind(s) \/ Binds(s) \/ Select(s)

ServersProgress == \E s \in Launched : Progress(s)

LifeSpec == LifeInit /\ [][LifeNext]_lifeVars

LifeFairness == WF_lifeVars(RunServersReturns) /\ WF_lifeVars(ServersProgress)

----------------------------------------------------------------------------
MayEndQuietly == done \/ ("dns" \in Launched /\ srv["dns"].result = "nil")

\* The program reports success only after a signal: of all servers, only DNS can
\* stop by itself and end it quietly.
QuietEndNeedsSignal == process = "ok" => MayEndQuietly

\* A server that could not start, or stopped serving, ends the program; only an
\* MQTT broker that no longer accepts goes unnoticed, for its Start just waits.
FailureEndsProgram ==
    (\E s \in Launched : srv[s].result = "error" \/ (srv[s].serving = "failed" /\ s # "mqtt"))
        ~> (process # "up")

\* A server that has announced that it is ready has its port, until it is told
\* to stop or its own accept loop fails.
ReadyMeansBound == \A s \in Launched : srv[s].ready /\ ~done /\ srv[s].result = "none" => srv[s].bound > 0

\* Once the HTTP server has returned it holds none of its listeners, however
\* many of them it had bound when one failed.
HTTPGivesItsListenersBack == "http" \in Launched /\ srv["http"].result # "none" => srv["http"].bound = 0

\* What the program says of itself is true: a server that is ready has its port
\* (Start of each server), the HTTP server that has returned holds none of its
\* listeners, and success is reported only after a signal (runServers, errCh),
\* or when the DNS server took the error it stopped with for a shutdown.
StatusIsTrue == ReadyMeansBound /\ HTTPGivesItsListenersBack /\ QuietEndNeedsSignal
=============================================================================
