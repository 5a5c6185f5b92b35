------------------------------ MODULE Streams ------------------------------
(***************************************************************************)
(* Streamed responses and the API that steers them: streamregistry.        *)
(* Registry, the send loops of the HTTP server (writeStream), of GraphQL   *)
(* subscriptions (handleSubscriptionConn, runSubscription) and of gRPC     *)
(* (serveServerStream, serveBidiStream), and PushStream / CloseStream.     *)
(*                                                                         *)
(* A keep-open stream registers two buffered channels; API calls look the  *)
(* stream up under the registry's lock and send on the channels after they *)
(* released it, so a stream can end between the two.  Its loop selects     *)
(* over the request's context, the two channels and a timer for the next   *)
(* configured event, which is stopped and made anew in every iteration.    *)
(* A stream that is not kept open writes its events and returns.           *)
(*                                                                         *)
(* Each protocol server has a registry of its own; as ids and mocks of two *)
(* protocols never meet, one map stands for the three.  Messages are       *)
(* numbers: event n of the mock, push n of the API.                        *)
(***************************************************************************)
EXTENDS Integers, Sequences, Functions

CONSTANTS
    Mocks,      \* mocks with a stream
    Protocol,   \* mock -> "http", "graphql", "grpc" or "bidi"
    Events,     \* mock -> its stream: a sequence of "ok", "bad", "unsendable"
    KeepOpen,   \* mock -> keep_open (GraphQL subscriptions always are)
    APICallers, \* API requests being served
    PushCap,    \* capacity of pushCh
    MaxOpen,    \* bound: mock -> streams opened; one mock in a behaviour
    MaxStreams, \* the largest of these
    MaxCalls,   \* bound: mock -> API calls
    MaxSends    \* bound: messages a bidi client sends

NoMock == "none"

ASSUME StreamsAssumption ==
    /\ Protocol \in [Mocks -> {"http", "graphql", "grpc", "bidi"}]
    /\ Events \in [Mocks -> Seq({"ok", "bad", "unsendable"})]
    /\ NoMock \notin Mocks
    /\ PushCap \in Nat /\ MaxStreams \in Nat

\* Streams are numbered in the order in which they are opened.
Streams == 1..MaxStreams

VARIABLES
    conns,      \* Registry.conns: id -> stream
    online,     \* whether the subscriptions' WebSocket is connected
    active,     \* handleSubscriptionConn's active: id -> subscription
    mockID,     \* stream -> the mock it is served from
    at,         \* stream -> where its goroutine is
    gone,       \* stream -> its context is done
    idx,        \* stream -> configured events sent
    timer,      \* stream -> timer for event idx: "off", "running", "fired"
    pushCh,     \* stream -> pushes not yet written
    closeCh,    \* stream -> close request (1: as an error), at most one
    pushed,     \* stream -> pushes written to its client
    events,     \* stream -> configured events written to its client
    last,       \* stream -> the message that ended it
    log,        \* stream -> its log entries
    inbox,      \* stream -> messages of a bidi client, -1 for its half-close
    recv,       \* stream -> bidi receiver goroutine
    apiCall,    \* caller -> the API call it is in
    calls,      \* API calls begun
    accepted,   \* stream -> pushes whose caller was told they were sent
    told        \* stream -> whether a close was reported to have reached it

chans == <<pushCh, closeCh, accepted, told>>
api == <<apiCall, calls>>
bidi == <<inbox, recv>>
wire == <<pushed, events, last>>
streamVars == <<conns, online, active, mockID, at, gone, idx, timer, chans, wire, log, bidi, api>>

NoCall == [op |-> "none", todo |-> {}]

StreamInit ==
    /\ conns = <<>>
    /\ online = TRUE
    /\ active = <<>>
    /\ mockID = [s \in Streams |-> NoMock]
    /\ at = [s \in Streams |-> "idle"]
    /\ gone = [s \in Streams |-> FALSE]
    /\ idx = [s \in Streams |-> 0]
    /\ timer = [s \in Streams |-> "off"]
    /\ pushCh = [s \in Streams |-> <<>>]
    /\ closeCh = [s \in Streams |-> <<>>]
    /\ pushed = [s \in Streams |-> <<>>]
    /\ events = [s \in Streams |-> <<>>]
    /\ last = [s \in Streams |-> "none"]
    /\ log = [s \in Streams |-> <<>>]
    /\ inbox = [s \in Streams |-> <<>>]
    /\ recv = [s \in Streams |-> "off"]
    /\ apiCall = [c \in APICallers |-> NoCall]
    /\ calls = 0
    /\ accepted = [s \in Streams |-> <<>>]
    /\ told = [s \in Streams |-> FALSE]

Is(s, protocol) == mockID[s] # NoMock /\ Protocol[mockID[s]] = protocol
Length(s) == IF mockID[s] = NoMock THEN 0 ELSE Len(Events[mockID[s]])

\* The registry's id of a stream.  Those of HTTP and gRPC are unique; the one
\* of a subscription holds the id its client chose, and the clients of this
\* model use one id for every subscription.
ConnID(s) == IF Is(s, "graphql") THEN 0 ELSE s

\* delete(m, k) and m[k] = v on a Go map
Without(m, k) == [i \in DOMAIN m \ {k} |-> m[i]]
With(m, k, v) == [i \in DOMAIN m \cup {k} |-> IF i = k THEN v ELSE m[i]]

(***************************************************************************)
(* What the loops share.                                                   *)
(***************************************************************************)
Goto(s, label) == at' = [at EXCEPT ![s] = label]
Log(s, entries) == log' = [log EXCEPT ![s] = @ \o entries]
WritePush(s, data) ==
    pushed' = [pushed EXCEPT ![s] = Append(@, data)] /\ UNCHANGED <<events, last>>
WriteEvent(s, n) ==
    events' = [events EXCEPT ![s] = Append(@, n)] /\ UNCHANGED <<pushed, last>>
WriteLast(s, message) ==
    last' = [last EXCEPT ![s] = message] /\ UNCHANGED <<pushed, events>>

\* The timer at the top of the loop, for the stream's i-th event.
Arm(s, i) ==
    timer' = [timer EXCEPT ![s] =
        IF ~Is(s, "bidi") /\ i < Length(s) THEN "running" ELSE "off"]

TimerFires(s) ==
    /\ timer[s] = "running" /\ at[s] = "loop"
    /\ timer' = [timer EXCEPT ![s] = "fired"]
    /\ UNCHANGED <<conns, online, active, mockID, at, gone, idx, chans, wire, log, bidi, api>>

\* Registry.Register
Register(s) ==
    /\ conns' = With(conns, ConnID(s), s)
    /\ Goto(s, "loop")
    /\ Arm(s, 0)

UnregisterUnlessGone(s) ==
    /\ at[s] = "ending"
    /\ conns' = IF gone[s] THEN conns ELSE Without(conns, ConnID(s))
    /\ Goto(s, IF Is(s, "graphql") THEN "cleanup" ELSE "ended")
    /\ UNCHANGED <<online, mockID, active, gone, idx, timer, chans, wire, log, bidi, api>>

\* The deferred unregister: it removes whatever is registered under the id.
Unregister(s) ==
    /\ at[s] = "ending"
    /\ conns' = Without(conns, ConnID(s))
    /\ Goto(s, IF Is(s, "graphql") THEN "cleanup" ELSE "ended")
    /\ UNCHANGED <<online, mockID, active, gone, idx, timer, chans, wire, log, bidi, api>>

LoopReturns(s, entries) ==
    /\ Goto(s, "ending")
    /\ Log(s, entries)
    /\ timer' = [timer EXCEPT ![s] = "off"]

\* case <-ctx.Done()
CtxDone(s, entries) ==
    /\ gone[s]
    /\ LoopReturns(s, entries)
    /\ UNCHANGED <<idx, chans, wire, bidi>>

\* case errMsg := <-closeCh: the loop says so to the client and returns.
TakeClose(s, message, entries) ==
    /\ closeCh[s] # <<>>
    /\ closeCh' = [closeCh EXCEPT ![s] = <<>>]
    /\ WriteLast(s, message)
    /\ LoopReturns(s, entries)
    /\ UNCHANGED <<idx, pushCh, accepted, told, bidi>>

\* A send on a gRPC call whose client left fails.
SendFails(s) == gone[s] /\ (Is(s, "grpc") \/ Is(s, "bidi"))

StopsTimerForGood(s) ==
    /\ pushCh[s] # <<>>
    /\ pushCh' = [pushCh EXCEPT ![s] = Tail(@)]
    /\ WritePush(s, Head(pushCh[s]))
    /\ timer' = [timer EXCEPT ![s] = "off"]
    /\ UNCHANGED <<at, log, idx, closeCh, accepted, told, bidi>>

\* case data := <-pushCh: written; the timer is stopped and starts again.
TakePush(s) ==
    /\ pushCh[s] # <<>>
    /\ pushCh' = [pushCh EXCEPT ![s] = Tail(@)]
    /\ IF SendFails(s)
       THEN LoopReturns(s, <<>>) /\ UNCHANGED wire
       ELSE /\ WritePush(s, Head(pushCh[s]))
            /\ Arm(s, idx[s])
            /\ UNCHANGED <<at, log>>
    /\ UNCHANGED <<idx, closeCh, accepted, told, bidi>>

\* What becomes of the next configured event.
Outcome(s) ==
    LET ev == Events[mockID[s]][idx[s] + 1] IN
    IF ev = "ok" /\ SendFails(s) THEN "unsendable" ELSE ev

\* The next configured event is sent, or it ends the stream: "bad" is an event
\* that ends it with an error (a gRPC error message, an event of a subscription
\* that is not JSON), "unsendable" one that cannot be marshalled or sent.
SendEvent(s, errors) ==
    /\ idx' = [idx EXCEPT ![s] = @ + 1]
    /\ CASE Outcome(s) = "ok" ->
                /\ WriteEvent(s, idx[s] + 1)
                /\ Arm(s, idx[s] + 1)
                /\ UNCHANGED <<at, log>>
         [] Outcome(s) = "bad" ->
                WriteLast(s, "error") /\ LoopReturns(s, errors)
         [] Outcome(s) = "unsendable" ->
                LoopReturns(s, <<>>) /\ UNCHANGED wire
    /\ UNCHANGED chans

\* case <-timerC
TakeTimer(s, errors) ==
    /\ timer[s] = "fired"
    /\ SendEvent(s, errors)
    /\ UNCHANGED bidi

(***************************************************************************)
(* The four loops.                                                         *)
(***************************************************************************)
HTTPLoop(s) ==
    /\ Is(s, "http") /\ at[s] = "loop"
    /\ \/ CtxDone(s, <<>>)
       \/ TakeClose(s, IF closeCh[s] = <<1>> THEN "error" ELSE "none", <<>>)
       \/ TakePush(s)
       \/ TakeTimer(s, <<>>)
    /\ UNCHANGED <<conns, online, mockID, active, gone, api>>

\* A push is never invalid JSON: PushStream refuses it.
GraphQLLoop(s) ==
    /\ Is(s, "graphql") /\ at[s] = "loop"
    /\ \/ CtxDone(s, <<>>)
       \/ TakeClose(s, IF closeCh[s] = <<1>> THEN "error" ELSE "complete", <<"OK">>)
       \/ TakePush(s)
       \/ TakeTimer(s, <<"OK">>)
    /\ UNCHANGED <<conns, online, mockID, active, gone, api>>

ServerStreamLoop(s) ==
    /\ Is(s, "grpc") /\ at[s] = "loop"
    /\ \/ CtxDone(s, <<"OK">>)
       \/ TakeClose(s, "status",
                    <<IF closeCh[s] = <<1>> THEN "Aborted" ELSE "OK">>)
       \/ TakePush(s)
       \/ TakeTimer(s, <<"error">>)
    /\ UNCHANGED <<conns, online, mockID, active, gone, api>>

\* case res := <-rc: an answer per message while there are any; what the
\* client sends afterwards is dropped, and its half-close ends nothing.
TakeMessage(s) ==
    /\ recv[s] \in {"message", "eof"}
    /\ recv' = [recv EXCEPT ![s] = IF @ = "eof" THEN "exited" ELSE "reading"]
    /\ IF recv[s] = "message" /\ idx[s] < Length(s)
       THEN SendEvent(s, <<"error">>)
       ELSE UNCHANGED <<idx, wire, at, log, timer, chans>>
    /\ UNCHANGED inbox

BidiLoop(s) ==
    /\ Is(s, "bidi") /\ at[s] = "loop"
    /\ \/ CtxDone(s, <<"OK">>)
       \/ TakeClose(s, "status",
                    <<IF closeCh[s] = <<1>> THEN "Aborted" ELSE "OK">>)
       \/ TakePush(s)
       \/ TakeMessage(s)
    /\ UNCHANGED <<conns, online, mockID, active, gone, api>>

\* RecvMsg: the next message, or an error after the half-close, when the
\* client left and when the call is over.
RecvMsg(s) ==
    /\ recv[s] = "reading"
    /\ \/ /\ inbox[s] # <<>>
          /\ inbox' = [inbox EXCEPT ![s] = Tail(@)]
          /\ recv' = [recv EXCEPT ![s] = IF Head(inbox[s]) = -1 THEN "eof" ELSE "message"]
       \/ /\ gone[s] \/ at[s] = "ended"
          /\ recv' = [recv EXCEPT ![s] = "eof"]
          /\ UNCHANGED inbox

\* case <-recvStop: the loop has returned.
RecvStop(s) ==
    /\ recv[s] \in {"message", "eof"} /\ at[s] \in {"ending", "ended"}
    /\ recv' = [recv EXCEPT ![s] = "exited"]
    /\ UNCHANGED inbox

\* The goroutine that hands the messages of a bidi call to its loop.
Receiver(s) ==
    /\ RecvMsg(s) \/ RecvStop(s)
    /\ UNCHANGED <<conns, online, active, mockID, at, gone, idx, timer, chans, wire, log, api>>

(***************************************************************************)
(* Streams that are not kept open.  HTTP writes on when the client left.   *)
(***************************************************************************)
PlainSend(s, errors) ==
    /\ idx[s] < Length(s)
    /\ idx' = [idx EXCEPT ![s] = @ + 1]
    /\ CASE Outcome(s) = "ok" -> WriteEvent(s, idx[s] + 1) /\ UNCHANGED <<at, log>>
         [] Outcome(s) = "bad" ->
                WriteLast(s, "error") /\ Goto(s, "ended") /\ Log(s, errors)
         [] Outcome(s) = "unsendable" -> Goto(s, "ended") /\ UNCHANGED <<wire, log>>

PlainEnd(s, entries) ==
    Goto(s, "ended") /\ Log(s, entries) /\ UNCHANGED <<idx, wire>>

PlainHTTP(s) ==
    /\ Is(s, "http") /\ at[s] = "plain"
    /\ PlainSend(s, <<>>) \/ (idx[s] = Length(s) /\ PlainEnd(s, <<>>))
    /\ UNCHANGED <<conns, online, mockID, active, gone, timer, chans, bidi, api>>

PlainServerStream(s) ==
    /\ Is(s, "grpc") /\ at[s] = "plain"
    /\ PlainSend(s, <<"error">>) \/ (idx[s] = Length(s) /\ PlainEnd(s, <<"OK">>))
    /\ UNCHANGED <<conns, online, mockID, active, gone, timer, chans, bidi, api>>

PlainBidi(s) ==
    /\ Is(s, "bidi") /\ at[s] = "plain"
    /\ \/ /\ inbox[s] # <<>> /\ Head(inbox[s]) # -1
          /\ inbox' = [inbox EXCEPT ![s] = Tail(@)]
          /\ PlainSend(s, <<"error">>) \/ (idx[s] = Length(s) /\ UNCHANGED <<idx, wire, at, log>>)
       \/ /\ gone[s] \/ (inbox[s] # <<>> /\ Head(inbox[s]) = -1)
          /\ PlainEnd(s, <<"OK">>)
          /\ UNCHANGED inbox
    /\ UNCHANGED <<conns, online, mockID, active, gone, timer, chans, recv, api>>

(***************************************************************************)
(* Clients.                                                                *)
(***************************************************************************)
Begins(s, m) ==
    /\ at[s] = "idle" /\ s <= MaxOpen[m]
    /\ \A t \in 1..(s - 1) : mockID[t] = m
    /\ mockID' = [mockID EXCEPT ![s] = m]

\* A request is matched and its response is a stream: the mock has events.
Open(s, m) ==
    /\ Begins(s, m) /\ Protocol[m] # "graphql" /\ Events[m] # <<>>
    /\ IF KeepOpen[m]
       THEN /\ conns' = With(conns, s, s)
            /\ Goto(s, "loop")
            /\ timer' = [timer EXCEPT ![s] =
                   IF Protocol[m] # "bidi" THEN "running" ELSE "off"]
            /\ recv' = [recv EXCEPT ![s] = IF Protocol[m] = "bidi" THEN "reading" ELSE @]
       ELSE Goto(s, "plain") /\ UNCHANGED <<conns, timer, recv>>
    /\ UNCHANGED <<online, active, gone, idx, chans, wire, log, inbox, api>>

\* The client's context: it closes the connection or cancels the call.
Leave(s) ==
    /\ ~Is(s, "graphql") /\ at[s] \in {"plain", "loop"} /\ ~gone[s]
    /\ gone' = [gone EXCEPT ![s] = TRUE]
    /\ UNCHANGED <<conns, online, mockID, active, at, idx, timer, chans, wire, log, bidi, api>>

\* A bidi client sends a message, or half-closes.
ClientSend(s) ==
    /\ Is(s, "bidi") /\ at[s] \in {"plain", "loop"} /\ ~gone[s]
    /\ Len(inbox[s]) + idx[s] < MaxSends
    /\ -1 \notin Range(inbox[s])
    /\ recv[s] \notin {"eof", "exited"}
    /\ \E x \in {1, -1} : inbox' = [inbox EXCEPT ![s] = Append(@, x)]
    /\ UNCHANGED <<conns, online, active, mockID, at, gone, idx, timer, chans, wire, log, recv, api>>

\* "subscribe": the subscription replaces whatever active holds for its id.
Subscribe(s, m) ==
    /\ Begins(s, m) /\ Protocol[m] = "graphql" /\ online
    /\ active' = With(active, 0, s)
    /\ Goto(s, "starting")
    /\ UNCHANGED <<conns, online, gone, idx, timer, chans, wire, log, bidi, api>>

\* runSubscription up to its loop: no mock with events matches or a fault is
\* injected, the context ends during the fault's delay, or the subscription is
\* registered.
StartSubscription(s) ==
    /\ at[s] = "starting"
    /\ \/ WriteLast(s, "error") /\ Goto(s, "cleanup") /\ UNCHANGED <<conns, timer>>
       \/ gone[s] /\ Goto(s, "cleanup") /\ UNCHANGED <<conns, timer, wire>>
       \/ Length(s) > 0 /\ Register(s) /\ UNCHANGED wire
    /\ UNCHANGED <<online, mockID, active, gone, idx, chans, log, bidi, api>>

\* The goroutine's deferred function: it removes the id, then cancels.
Cleanup(s) ==
    /\ at[s] = "cleanup"
    /\ active' = Without(active, ConnID(s))
    /\ gone' = [gone EXCEPT ![s] = TRUE]
    /\ Goto(s, "ended")
    /\ UNCHANGED <<conns, online, mockID, idx, timer, chans, wire, log, bidi, api>>

\* "complete"
Complete(id) ==
    /\ online
    /\ gone' = [gone EXCEPT ![active[id]] = TRUE]
    /\ active' = Without(active, id)
    /\ UNCHANGED <<conns, online, mockID, at, idx, timer, chans, wire, log, bidi, api>>

\* The WebSocket is closed: every active subscription is cancelled, and the
\* handler's return ends the request's context, of which all theirs are made.
Disconnect ==
    /\ online
    /\ online' = FALSE
    /\ gone' = [s \in Streams |-> gone[s] \/ (Is(s, "graphql") /\ at[s] # "idle")]
    /\ active' = <<>>
    /\ UNCHANGED <<conns, mockID, at, idx, timer, chans, wire, log, bidi, api>>

(***************************************************************************)
(* The management API: PushStream and CloseStream.                         *)
(***************************************************************************)
find(id) == {conns[id]}
byMock(mock) == {conns[i] : i \in {i \in DOMAIN conns : mockID[conns[i]] = mock}}

\* Registry.find or byMock: the targets are a snapshot.  Without any the call
\* is refused, which changes nothing.
BeginCall(c) ==
    /\ apiCall[c] = NoCall
    /\ \E op \in {"push", "close", "abort"}, id \in DOMAIN conns :
          /\ calls < MaxCalls[mockID[conns[id]]]
          /\ \E todo \in {find(id), byMock(mockID[conns[id]])} :
              apiCall' = [apiCall EXCEPT ![c] =
                  [op |-> op, data |-> IF op = "push" THEN calls + 1 ELSE 0, todo |-> todo]]
    /\ calls' = calls + 1
    /\ UNCHANGED <<conns, online, active, mockID, at, gone, idx, timer, chans, wire, log, bidi>>

PushesInFront(s, data) ==
    /\ IF Len(pushCh[s]) < PushCap
       THEN /\ pushCh' = [pushCh EXCEPT ![s] = <<data>> \o @]
            /\ accepted' = [accepted EXCEPT ![s] = Append(@, data)]
       ELSE UNCHANGED <<pushCh, accepted>>
    /\ UNCHANGED <<closeCh, told>>

\* Connection.Push: it fails when the buffer is full.
PushTo(s, data) ==
    /\ IF Len(pushCh[s]) < PushCap
       THEN /\ pushCh' = [pushCh EXCEPT ![s] = Append(@, data)]
            /\ accepted' = [accepted EXCEPT ![s] = Append(@, data)]
       ELSE UNCHANGED <<pushCh, accepted>>
    /\ UNCHANGED <<closeCh, told>>

\* Connection.Close: dropped when an earlier one is waiting.
CloseOf(s, err) ==
    /\ told' = [told EXCEPT ![s] = TRUE]
    /\ closeCh' = [closeCh EXCEPT ![s] = IF @ = <<>> THEN <<err>> ELSE @]
    /\ UNCHANGED <<pushCh, accepted>>

\* One iteration of Push's or CloseConn's loop over the targets.
Deliver(c, s) ==
    /\ s \in apiCall[c].todo
    /\ CASE apiCall[c].op = "push" -> PushTo(s, apiCall[c].data)
         [] apiCall[c].op = "close" -> CloseOf(s, 0)
         [] apiCall[c].op = "abort" -> CloseOf(s, 1)
    /\ LET left == apiCall[c].todo \ {s} IN
       apiCall' = [apiCall EXCEPT ![c] =
           IF left = {} THEN NoCall ELSE [apiCall[c] EXCEPT !.todo = left]]
    /\ UNCHANGED <<conns, online, active, mockID, at, gone, idx, timer, wire, log, bidi, calls>>

Serve(s) ==
    \/ HTTPLoop(s) \/ GraphQLLoop(s) \/ ServerStreamLoop(s) \/ BidiLoop(s)
    \/ PlainHTTP(s) \/ PlainServerStream(s) \/ PlainBidi(s)
    \/ Unregister(s) \/ StartSubscription(s) \/ Cleanup(s)

StreamNext ==
    \/ \E s \in Streams : \/ Serve(s) \/ TimerFires(s) \/ Receiver(s)
                          \/ Leave(s) \/ ClientSend(s)
                          \/ \E m \in Mocks : Open(s, m) \/ Subscribe(s, m)
    \/ \E id \in DOMAIN active : Complete(id)
    \/ Disconnect
    \/ \E c \in APICallers : BeginCall(c) \/ \E s \in Streams : Deliver(c, s)

StreamSpec == StreamInit /\ [][StreamNext]_streamVars

\* A case of the loop's select that makes it return.
SelectReturns(s) == at[s] = "loop" /\ Serve(s) /\ at'[s] = "ending"

\* A goroutine that can run does, and a running timer fires.  Of the cases that
\* are ready select takes one at random, so one that stays ready is taken.
StreamFairness == \A s \in Streams : /\ WF_streamVars(Serve(s)) /\ WF_streamVars(SelectReturns(s))
                               /\ WF_streamVars(TimerFires(s)) /\ WF_streamVars(Receiver(s))

----------------------------------------------------------------------------
\* The variables have the types the code gives them.
StreamsTypeOK ==
    /\ \A id \in DOMAIN conns : conns[id] \in Streams /\ ConnID(conns[id]) = id
    /\ \A id \in DOMAIN active : active[id] \in Streams /\ ConnID(active[id]) = id
    /\ at \in [Streams -> {"idle", "plain", "starting", "loop", "ending", "cleanup", "ended"}]
    /\ timer \in [Streams -> {"off", "running", "fired"}]
    /\ \A s \in Streams : /\ Len(pushCh[s]) <= PushCap /\ Len(closeCh[s]) <= 1
                          /\ idx[s] <= Length(s)

\* Every push a caller was told was sent is written, in the order in which
\* they were accepted, unless the stream ends first: in an open stream what
\* was accepted is what was written followed by what waits in pushCh, in an
\* ended one what was written is the beginning of it.
PushesInOrder ==
    \A s \in Streams :
        /\ Len(pushed[s]) <= Len(accepted[s])
        /\ \A i \in DOMAIN pushed[s] : pushed[s][i] = accepted[s][i]
        /\ at[s] = "loop" => accepted[s] = pushed[s] \o pushCh[s]

\* Pushes are written between the configured events and replace none of them:
\* at every moment the events written are the first ones, each once.
EventsInOrder ==
    \A s \in Streams :
        /\ \A i \in DOMAIN events[s] : events[s][i] = i
        /\ at[s] \in {"plain", "loop"} => Len(events[s]) = idx[s]

\* The registry never keeps a stream that has ended, also when a client used
\* the id of a subscription again (the deferred unregister).
NoEndedStreamIsListed ==
    \A id \in DOMAIN conns : at[conns[id]] \in {"loop", "ending"}

OtherOfSameID(s) == {t \in Streams \ {s} : ConnID(t) = ConnID(s) /\ at[t] # "idle"}

\* An open stream can be listed, pushed to and closed through the API, and an
\* active subscription can be completed, unless its id was used again.
OpenStreamsAreReachable ==
    \A s \in Streams :
        OtherOfSameID(s) = {} =>
            /\ at[s] = "loop" => ConnID(s) \in DOMAIN conns /\ conns[ConnID(s)] = s
            /\ (Is(s, "graphql") /\ at[s] \in {"starting", "loop"} /\ ~gone[s]) =>
                   ConnID(s) \in DOMAIN active /\ active[ConnID(s)] = s

\* Streams: a push that was accepted is written, in order, unless the stream
\* ends first (Connection.Push and the loops' pushCh case), and pushes displace
\* no configured event (writeStream, runSubscription, serveServerStream).
ClientsSeeStreamsInOrder == PushesInOrder /\ EventsInOrder

\* Streams: the registry keeps no stream that has ended, and an open one can be
\* pushed to and closed through the API, or completed by its client
\* (Register's unregister, Registry.find, active).
RegistryHasOpenStreams == StreamsTypeOK /\ NoEndedStreamIsListed /\ OpenStreamsAreReachable

\* A close that was reported to have reached a stream ends it, whatever waits
\* in its buffers (Connection.Close and the loops' closeCh case); and a stream
\* whose client leaves ends, as does a subscription whose WebSocket closes,
\* also one that active no longer holds (the loops' ctx.Done case).
ClosedStreamsEnd ==
    \A s \in Streams :
        (told[s] \/ gone[s] \/ (Is(s, "graphql") /\ ~online)) ~> at[s] = "ended"

\* Once pushes cease every configured event of an open stream is sent: a push
\* stops the timer and the next iteration starts it again.
EventsAreSent ==
    \A s \in Streams : (at[s] = "loop" /\ ~Is(s, "bidi")) ~>
                           (idx[s] = Length(s) \/ at[s] # "loop")

\* The receiver of a bidi call does not outlive it (recvStop).
ReceiversExit == \A s \in Streams : at[s] = "ended" ~> recv[s] \in {"off", "exited"}

\* A stream that was closed, or whose client left, ends, and so does the
\* receiver of a bidi call (ctx.Done, recvStop); until then it sends every
\* configured event (timerC).
StreamsProceed == ClosedStreamsEnd /\ ReceiversExit /\ EventsAreSent
=============================================================================
