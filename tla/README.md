# TLA+ models of mockly

mockly is a mock server for some twenty protocols (HTTP, WebSocket, gRPC,
GraphQL, Redis, SMTP, MQTT, NATS, SNMP, ...) in one process. A management API
changes mocks, scenarios, faults and state while clients talk to the protocol
servers. Each component guards its state with a mutex of its own and no lock
spans two components, so the questions worth a model are about what happens
*between* two critical sections: a handler that reads a copy and writes it back,
a fault read before and a patch read after a match, a channel captured after the
data it stands for, a subscription that outlives what it was made from.

This directory holds the models, the configurations TLC checks them with, and
proofs for TLAPS. `PROJECT.json` links every definition to the source lines it
models and lists runs, findings, hazards and theorems.

## The parts of the system

| Part | Source (under `src/`) | Here |
|---|---|---|
| Capture stores (webhook history, SMTP inbox, MQTT and NATS messages) | `internal/webhook`, `internal/protocols/{smtp,mqtt,nats}server` | `BoundedStore`, `RingBuffer` |
| Request log, WaitFor, log stream | `internal/logger` | `Logger` |
| Scenarios, faults, rate limiting | `internal/scenarios` | `Scenarios`, `RateLimit` |
| Key-value state with ttl | `internal/state` | `StateStore` |
| HTTP request pipeline and the API calls that interfere with it | `internal/protocols/httpserver`, `internal/api` | `HTTPServer` |
| HTTP matching, diagnosis and record mode | `internal/engine/matcher.go`, `httpserver/record.go` | `Recording` |
| Mock lists of the management API, all protocols | `internal/api/server.go`, `protocols_extra.go` | `MockAdmin` |
| Keep-open streams | `internal/streamregistry`, the HTTP, GraphQL and gRPC servers | `Streams` |
| Webhook delivery | `internal/webhook` | `Webhook` |
| SNMP agent | `internal/protocols/snmpserver` | `SNMPServer` (restart), `SNMPAgent` (GETNEXT, GETBULK, SET) |
| Configuration: load, expand, merge, validate, watch | `internal/config`, `internal/configgen`, `cmd/mockly/watch.go` | `ConfigFiles`, `ConfigTexts`, `ConfigWatch` |
| Start and end of the program | `cmd/mockly/start.go`, `Start` of every server | `Lifecycle` |
| Patterns of paths, topics, subjects and keys | `internal/engine`, the AMQP, MQTT, NATS and Redis servers | `Matching` |
| Sessions of FTP, IMAP, LDAP, SMTP, Memcached | their servers | a module each |
| WebSocket, NATS, AMQP, STOMP | their servers | a module each |
| Redis data store | `redisserver` | `RedisData` |
| One request to TCP, DNS, CoAP, SIP, GraphQL, gRPC, Redis, Kafka, MQTT, NATS, STOMP | their servers | `Exchanges` |

## How the modules correspond to the code

A critical section of a mutex is one action; what a goroutine does between two
of them belongs to the action before or after. Each module's header says what it
leaves out. Operators keep the names of the Go functions. An operator that a
comment calls a broken variant, or that nothing refers to, is a plausible bug in
the function defined after it: it is not part of the specification, and shows
that a property notices the bug.

**Shared stores.** `RingBuffer` has `NewStore`, `add` and `Clear` as the four
copies of the code have them; `All` is the refinement mapping to `BoundedStore`,
which says what a store promises: the most recent items since the last clear.
In `Logger`, `Log` is an action up to its unlock, then one `Broadcast` per
channel; `WaitFor` and `ServeSSE` subscribe, check, receive, expire and cancel,
and cancel deletes the map entry and closes the channel in two steps. `Scenarios`
has the store's methods, with `updateScenario` in two parts, and `effectiveFault`
over every order of a Go map. `RateLimit` has the fixed windows on a discrete
clock. In `StateStore`, `Get` is a read and a later delete, `All` takes the time
before the lock, `setState` writes key by key.

**HTTP and the API.** `HTTPServer`: `ReadFault`, `Match`, `Count`, `ReadPatch`,
`Answer` and `Log` are the locked sections of `handleRequest`, and `Record` that of
`recordAndServe` for a request the upstream answered; `reset` and `clearCalls` are
one step per store they touch. `Recording`: `Try` is one mock of
`HTTPMatch`'s walk, with its own read of the state store; `HTTPDiagnose` walks
once more; a proxied request is captured under the recorder's lock and installed
under the server's; a failed save leaves the file as it was, empty or cut short;
calls of the API edit or delete recorded mocks in copies of the list (`CopyList`,
`InstallCopy`).
`MockAdmin`: every handler is `GetMocks`, a change of the copy, `SetMocks`; header
maps and `on_connect` actions are cells, because shallow copies share them and so
do the pages that one `body.dir` was expanded to.
`Streams`: a stream's loop selects over context, close, push and timer; API calls
look connections up under the lock and send later; GraphQL subscriptions may
reuse ids; a bidirectional gRPC call has a receiver goroutine.

**Configuration and process.** `ConfigFiles` has the operators that turn files
into mocks (`loadFile`, `ExpandHTTPMocks`, `walkDirMock`, `mergeByID`, `Validate`),
`ConfigWatch` the reload that uses them, one file per step, with the debounce
timer, overlapping reloads, editors and directories not yet watched;
`ConfigTexts` has the contents the files may have. `Lifecycle` gives each server's
`Start` as a sequence of steps (listen, tls, ready, accept, shutdown, ...) and runs
two servers at a time under `runServers`. `Webhook` dispatches with retries;
answers may be lost after the receiver handled the call. `SNMPServer` swaps and
closes restart channels around build, bind, capture and select.

**Protocols.** `FTPServer`, `IMAPServer`, `LDAPServer`, `SMTPServer` and
`Memcached` model a session's commands while the API replaces what they read.
`AMQPServer` assembles frames per channel and fans a publish out. `NATSServer`
interleaves `Start`, `SetMocks` and messages, with errors in `resubscribe`; its
unlocked read of the mock list may return anything while `SetMocks` runs.
`STOMPServer` keeps the two maps of subscriptions, dropped one at a time when a
connection ends. `WSServer` has the routes made at start and the catch-all.
`RedisData` has the stateful commands, with integers of a small width that wrap.
`Exchanges` gives each server's handler as a program of accesses to shared state
and runs it against API calls between any two; NATS has one for a callback of the
catch-all and one for that of a queue group. `SNMPAgent` answers walks from a
table sorted by OID. `Matching` compares the matchers with declarative
definitions and with each other.

`MC*.tla` give the constants values. `MCMocks`, `MCLive`, `MCServers` and
`MCHTTPServer` put several parts that share no data under one run: a variable
`part`, chosen at first and never changed, says which one moves. No behaviour
mixes two parts, so nothing is claimed about their interaction; parts that do
interact are in one module.

## What is checked

A property of a run may have several parts. They are operators of the modules,
each with its own comment, and the run checks their conjunction; the table names
the conjunction.

| Run, part | Property | Says |
|---|---|---|
| `logger` | `NoLostWakeup` | A waiter never sleeps on a count that was reached without a notification unread or on its way. |
| | `EventuallyWoken` | A waiter whose count stays reached is woken, unless a broadcast panicked. |
| | `StreamsDoNotRepeat` | No entry is streamed twice, even when full channels drop some. |
| `http` | `CallNumbersExact` | Call numbers have neither gaps nor duplicates between two counter resets. |
| | `LoopIsShared` | A looping sequence is shared evenly. |
| | `CallsNeverExceedCount` | The calls endpoint shows no more calls than its count and the requests that were proxied, until the counters are first reset. |
| | `CountedCallsAreLogged` | A counted call is logged unless a fault cuts it off or its mock is disabled. |
| `mocks`, admin | `ListsStayCoherent` | An upserting list never holds an id twice, mocks share no map they were not configured with, and what reset removed comes back only by a call that overlapped it. |
| | `LoneCallTouchesOnlyItsMock` | A call that nothing overtook leaves the other mocks alone, but for a header map they were configured with. |
| `mocks`, state | `RemovalIsSafe` | Lazy expiry removes no key that nobody gave a ttl; `All` drops no live entry. |
| `mocks`, watch | `SettledConfigIsServed` | A watcher that caught up serves what the last file says. |
| | `LoadedConfigIsValid` | However reloads overlap, no server holds an invalid configuration, and a generated page shares its path with no other GET mock of its file. |
| `mocks`, record | `RecordingsAreKept` | An endpoint is recorded once, what was recorded keeps its answer unless the API edits it in the list, and the file has a beginning of it. |
| | `MatchesAreExplained` | The mock that answers is the first that matched, and a diagnosis names mocks that came closest. |
| `live`, snmp | `OvertakenAgentIsRebuilt` | A `SetMocks` that overtakes the waiting loop leads to a rebuild, or `Start` returns. |
| `live`, stream | `ClientsSeeStreamsInOrder` | Accepted pushes are written in order and displace no configured event. |
| | `RegistryHasOpenStreams` | The registry has no stream that ended, and open ones can be reached. |
| | `StreamsProceed` | Closed streams and their receivers end; open ones send every event. |
| `live`, life | `FailureEndsProgram` | A failed server, but for an MQTT broker that stops accepting, ends the program. |
| | `StatusIsTrue` | A server that says it is ready has its port, the HTTP server gives all listeners back, and the program ends quietly only after a signal or by the DNS server's hand. |
| `live`, hook | `DispatchesAreCoherent` | The history has attempts in order, and the receiver sees at most retries + 1 although answers are lost. |
| | `DispatchesEnd` | Every dispatch ends. |
| `servers`, stores | `ActiveAreDefined` | Active scenarios are defined although updates race deletes. |
| | `FaultInForceIsDetermined` | The fault in force does not depend on map order. |
| | `RateLimitIsKept` | At most two windows' worth of requests pass in a second, and none is refused early. |
| | `RefinesBoundedStore` | The ring buffer implements the abstract bounded store. |
| `servers`, ftp | `AccessIsAllowed` | Files need the rights of the user whose password was right, but for one put in place between the two locks of DELE. |
| | `NoListenerLeaks` | A session has at most the passive listener it knows of. |
| `servers`, mem | `FramingIsKept` | Data blocks are read as commands only after a storage command that was answered early or gave no usable length, and answers stay paired until then. |
| `servers`, imap | `MailIsAsSelected` | Mail needs a login, and is shown as SELECT announced it. |
| `servers`, ldap | `SearchesAreExact` | A search answers with one state of the mocks under the rights of its own bind. |
| `servers`, smtp | `StoredMailIsOwn` | A stored email has the last sender and the recipients of its own transaction, and each recipient was accepted. |
| `servers`, amqp | `PublishesAreWhole` | Messages are whole, delivered once per consumer, and a fault drops all answers or none. |
| `servers`, nats | `SubscriptionsFollowMocks` | Subscriptions end up those of the mocks, and removed mocks are silent. |
| `servers`, stomp | `SubscribersAreServed` | The two maps agree, and a SEND reaches its subscribers. |
| `servers`, ex | `ExchangesAreAccounted` | Messages are captured once, by NATS once per subscription they meet; answers are logged with their mock, refusals credited to none. |
| `servers`, ws | `ConnectionsKeepTheirMock` | A connection keeps one mock, and paths added later are current. |
| `servers`, redis | `KeysAreAsWritten` | Expired keys are gone, failures change nothing, commands keep lifetimes, LRANGE answers rightly where it answers. |
| `servers`, snmp | `AgentAnswersAreRight` | Walks visit every later OID once, GETBULK is repeated GETNEXT, SET's answer is true. |
| `servers`, match | `MatchersAreRight` | The matchers agree with their definitions and with each other. |

Seven runs end in a counterexample to something a comment or a document says:

| Run | What the code does |
|---|---|
| `logger_panic` | `Log` may send on a channel that `cancel` has closed. |
| `state_store_get` | `Get` may delete a value set after the expired one it read. |
| `mock_admin_reset` | A header patch writes into the configuration and survives reset. |
| `snmp_lost` | A `SetMocks` before the channel is captured is lost until the next one. |
| `redis_lrange` | `LRANGE` with both indexes before the start of the list makes a slice of negative length, and panics. |
| `ws_routes` | A path configured at start keeps its old mock after `SetMocks`. |
| `config_index` | The `index.html` of a subdirectory answers for the root of its `body.dir`. |

The code does less than its documentation says in other places, some of which
the models show. No run is kept for them; what does hold is checked instead:

- `WaitFor` may return a timeout with enough entries: it reads the log again
  after the context ended (`Expire`), while `logger.go:126-128` has the error only
  for a count that was not reached. What holds is `NoLostWakeup`: the
  notification is unread or on its way at that moment.
- `scenarios.Store.All` does not sort, while `store.go:48` says it does.
- Rate windows are fixed, not trailing as `docs/testing/fault-injection.md:75`
  says: `AtMostTwoWindowsPerSecond`, a part of `RateLimitIsKept`, is the bound
  that holds.
- A request that overlaps an activation can see a scenario's patch without its
  fault (`ReadFault` and `ReadPatch` are different steps), while
  `docs/testing/scenarios.md:43` calls activation atomic.
- A call that an abort or truncate fault cuts off is counted but not logged, so a
  wait for N calls (`docs/reference/management-api.md:36`) does not see it:
  `CountedCallsAreLogged` names the exceptions.
- A handler that took its copy before a reset, or before another call, brings
  back what it copied (`docs/reference/management-api.md:162`, `README.md:35`):
  `ListsStayCoherent` and `LoneCallTouchesOnlyItsMock` say what holds.
- An SNMP restart that coincides with a read error finds its own port bound
  (`portTaken` in `listenUDP`), while `snmpserver/server.go:180-181` prefers the
  restart over a fatal error: `OvertakenAgentIsRebuilt` admits that end.
- A STOMP client that subscribes again under an id in use, to another
  destination, leaves the first entry in the server's map, where neither
  UNSUBSCRIBE nor the end of the connection finds it. `SubscribersAreServed`
  excepts such ids. A GraphQL subscription whose id is used again loses its entry
  in `active` to the newer one, and `OpenStreamsAreReachable` excepts it.
- Two reloads that overlap may apply in the wrong order; a failed reload returns
  before it watches newly included directories; schema files are never watched;
  entries without an id override one another in `mergeByID`;
  `validateHTTPListeners` checks no mock's listener when none is declared,
  although its comment (`validate.go:71-76`) speaks of every mock.
  `SettledConfigIsServed` names what it excepts.
- An AMQP message with an empty body has no body frame and is never captured.
- IMAP `FETCH` slices its arguments from the second on without looking at their
  number; FTP `Accept` has no deadline; a webhook with negative retries is never
  sent; an SNMP table with an OID twice keeps a walk in place; when TLS fails the
  HTTP server calls `Close` on the listener `WrapListener` returned, which is nil.
- Record mode logs a proxied request as a call of the recorded mock and does not
  count it (`recordAndServe`), so the calls endpoint may list a call and say
  `count: 0`: `CallsNeverExceedCount` has the proxied requests on its right side.
  The recorder and the list share a recorded mock's header map, which `Recording`
  leaves out; a mock edited through the API may be recorded again beside itself.
- All pages of a `body.dir` have one header map (`httpbody.go:394`), so that a
  patch of one page's headers shows in the others. A hand-written mock for any
  method is not refused at the path of a page, while `httpbody.go:274-277` says
  that a collision is always caught: `collides` compares method and path as
  written, in upper case.
- `os.WriteFile` truncates the `save_to` file before it writes, so a failed save
  may lose what was saved before, until the next one succeeds.
- FTP's `DELE` looks the file up under one lock and deletes by path under another:
  a file that `SetFiles` puts there in between is deleted unseen.
- A Memcached length that is no number is taken for 0, and unknown storage commands
  (`cas`, `append`, `prepend`) are answered without reading their block: the block
  is then read as commands, as it is after an injected fault.
- A second SMTP MAIL replaces the sender and keeps the recipients of the first.
- A NATS message that meets a queue group and the catch-all is captured by both,
  and with neither it is not captured at all.
- The DNS server's `Start` returns nil when one of its listeners stops with an error
  that speaks of a closed connection or a shutdown, and the program then ends
  without an error; an MQTT broker that stops accepting is not noticed.
- `updateScenario` looks a scenario up and sets it later: a delete in between is
  undone. `ActiveAreDefined` says that no id is left active without a definition.
- A glob's two ends may overlap in the key (`a*a` matches `a`); `GlobsAreRight`
  says exactly when.
- Frequent pushes put the next event of a stream off, each by the event's whole
  delay: `EventsAreSent`, a part of `StreamsProceed`, is about pushes that cease.

### Bounds

Every bound is a constant or a definition with a name, in a `.cfg` or an MC module.

- `Logger`: channels of capacity 1 (64 in the code) so that drops happen, a log of
  two entries so that it trims, three `Log` calls (`MaxLogs`) of two writers so
  that broadcasts overlap.
- `RingBuffer`: three slots and three items; adds and clears are unbounded, so the
  ring wraps and is cleared at every position of its head.
- `Scenarios`: three ids, two protocols, two faults, one update in progress; any
  number of calls.
- `RateLimit`: three ticks to a second, time up to 4 (`MaxTime`), at most two
  requests per tick and key (`MaxPerTick`): two windows and their boundary.
- `StateStore`: time up to 4 with ttls -2, 0 and 1; one `Get`, `All` and `setState`
  in progress at a time, any number in sequence.
- `HTTPServer`: two handlers, one counter reset (`MaxResets`); two requests with
  scenarios, NTLM, a rate limit and `reset` while mock `a` stays, or three with an
  abort fault, an API reader and the calls that clear counters and remove `a`, or
  three that the upstream answers or a recorded mock, with an API reader.
- `MockAdmin`: three ids, three calls (`MaxCalls`) of two callers, three cells
  (`MaxCells`), any number of resets; four protocols, whose handlers' calls include
  those of every other kind; the two configured HTTP mocks share a header map.
- `ConfigWatch`: two reloads at a time, three edits (`MaxEdits`), the texts of
  `ConfigTexts`, among them broken ones, includes of another directory and a
  `body.dir`. `Recording`: two clients, two changes of the list or the state; with
  the recorder on, one configured mock and no diagnosis, with it off no edits.
- `SNMPServer`: three `SetMocks` calls (`MaxSets`) of two callers.
- `Streams`: push buffers of two (16 in the code), so that pushes queue up, and one
  event stream with three API calls, so that the buffer overflows; two streams of
  one mock or two subscriptions of one connection with one API call, or one stream
  of each other kind with two; two messages from the client of a bidirectional call. The
  bidirectional call whose messages can all be sent has one API call.
- `Lifecycle`: every server once, in pairs, and two HTTP listeners: what a server
  does at start depends on the others only through the first error.
- `Webhook`: two dispatches with retries -1, 0 and 1, a history of three records,
  which two dispatches overflow.
- Sessions: two FTP connections and users (one name where no user is configured,
  `OneName`), one path, one port of the passive range so that it runs out; three
  Memcached requests; three versions of the IMAP mailboxes; two LDAP searches over
  up to two entries; two SMTP sessions and senders, two recipients per
  transaction and two MAIL commands.
- Brokers: two AMQP publishes of up to two body units on two channels, two queues
  of which one is bound twice; two NATS `SetMocks` around a start and one message;
  two STOMP clients, ids and destinations, four frames (`MaxFrames`); two WebSocket
  connections, three changes of the mocks; one exchange of each kind against one
  API change between any two of its accesses.
- Data: one Redis key, integers up to 3 that wrap, lists of three; four OIDs, among
  them `1.2` and `1.10` whose order as numbers differs from that as text, in four
  tables; all patterns and subjects of up to three segments.

Deadlock is not checked in `mocks`, `live` and `servers`: calls, edits and time run
out there, servers return, and `match` takes no step. It is checked in `logger` and
`http`. Symmetry is used for handlers, callers and clients in runs without
liveness; no property names one of them.

### Fairness

Weak fairness only, and only for what the scheduler or the runtime does by itself:

- `Logger`: a broadcast goes on, a waiter reads its channel and the log.
- `SNMPServer`: `SetMocks` closes the channel it took, `Start` takes its next step.
- `Streams`: a serving goroutine and a receiver run, a running timer fires, and a
  case of `select` that stays ready is taken.
- `Lifecycle`: a server's goroutine takes its next step, `runServers` receives from
  a channel that is ready.
- `Webhook`: a dispatch goes on; its HTTP client has a timeout, so an attempt ends.

Nothing makes a client call, a context end or a socket fail.

## What is proved

For every value of the constants that satisfies the named assumptions, any number
of goroutines, clients, mocks and calls included. TLC checks the same properties
on the instances above. A proof module holds the proofs of components whose
modules can be extended together, each in a section of its own; `ListLemmas` has
what several of them need.

Each proof has the same outline: an inductive invariant holds at first, every
action keeps it, and it implies the property (for an action property, every step
from it is one the property allows). The invariant is what carries the argument:

| Theorem | Property | Invariant and why it is needed |
|---|---|---|
| `LoggerProofs!` `WaitForNotLost` | `NoLostWakeup` | `IInv`: types, a reader is registered from Subscribe to its cancel (`Registered`), and the property. `Log`, the step that makes a count reached, notifies only whom it finds in the map. `TrimBound` bounds the log, `CountShrinks` covers the clears. |
| `StreamsNeverRepeat` | `StreamsDoNotRepeat` | `Fresh`: an entry still to be sent to a stream is neither in its channel nor written (`Carried`), since `Log` sends each entry to each channel once. |
| `RemovalSafe` | `RemovalIsSafe` | `StateInv`: an expiry, in the store or in the hands of a `Get`, belongs to a key once given a ttl; a time taken by `All` is not in the future. |
| `WebhooksAreCoherent` | `DispatchesAreCoherent` | `HookInv`: the history is coherent, its last record of a dispatch says where the dispatch is (`Recorded`), and the receiver has seen no more than the attempts made (`Counted`): without it a lost answer and a retry could not be bounded together. |
| `HTTPServerProofs!` `SequenceStepsExact` | `CallNumbersExact` | `NumbersInv`: no number above the counter was handed out in the current epoch, without which the next number might not be new. |
| `CallsWithinCount` | `CallsNeverExceedCount` | `CountInv`: logged entries and counted calls still to be logged do not exceed the counter and the proxied requests (`LogWithinCount`); a request yet to be matched or recorded has no mock. |
| `CountedAreLogged` | `CountedCallsAreLogged` | `CallInv`: no two handlers serve one request, and a counted one keeps its mock unless a patch disables it. |
| `LoopShared` | `LoopIsShared` | `SharesInv`: with c calls counted, the first c % length answers were served once more than the others. |
| `MockAdminProofs!` `ListsCoherent`, `LoneCalls` | `ListsStayCoherent`, `LoneCallTouchesOnlyItsMock` | `AdminInv`: the list, and the copy of every call in progress, are `Good`: ids once where the handler upserts, cells that exist and are shared only as configured, only ids that were configured or touched. The copies are part of it because they come back by `SetMocks`. |
| `ProgramTellsTheTruth` | `StatusIsTrue` | `LifeInv`: a server is past its wait only when the context is done, past its listen it holds its port until it stops, and a nil result is in `errCh` only after a signal or from the DNS server. |
| `RecordingProofs!` `ActiveDefined` | `ActiveAreDefined` | `ScenInv`: types and the property; every path that deletes a definition deactivates it in the same critical section. |
| `FaultDetermined` | `FaultInForceIsDetermined` | By induction over the rounds of `effectiveFault`'s loop (`WinnerSoFar`): after n rounds the winner is the greatest id among the n visited, in whatever order. |
| `MatchesExplained` | `MatchesAreExplained` | `RecInv`: while the state key keeps its value, the mocks a walk has passed fail a check, and the diagnosis has their depths (`WalkOf`). `SortExists` and `SortIsOnto` show that the sorted report exists and has every entry once. |
| `RecordingsKept` | `RecordingsAreKept` | `RecInv` again: a request about to be installed holds a mock of the recorder, of its own kind, and the copies that API calls hold have each recorded answer once, as the list does (`OnceIn`): they come back by `InstallCopy`. |
| `LiveProofs!` `SNMPTypeCorrect` | – | No restart channel is closed twice. `AgentInv`: a channel still to be closed is older than the current one, open, and held by one caller. |
| `StreamsKeepOrder` | `ClientsSeeStreamsInOrder` | `StreamInv`: while the loop runs, what was written followed by what is in the channel is what was accepted, and the events written are the first ones. |
| `OpenStreamsAreFound` | `RegistryHasOpenStreams` | `StreamInv`: an entry leads to a stream that is still in its loop or just leaving it, and a stream that shares its id with no other has its entry. |
| `SessionsProofs!` `OnlyAllowedFiles` | `AccessIsAllowed` | `Rights`: an authenticated session acts for the user whose password was right, also while it waits for a data connection; USER alone changes no rights, and a DELE that no `SetFiles` overtook still finds the file it looked up. |
| `ListenersAreOwned` | `NoListenerLeaks` | `Owned`: a session's listeners are the passive one it remembers, and ports of the range are held once. |
| `MailAsSelected` | `MailIsAsSelected` | `IMAPInv`: a state past LOGIN had one, and the copy read is the one the last SELECT announced. |
| `StoredMail` | `StoredMailIsOwn` | `SMTPInv`: an envelope is what was said since the transaction began, and while DATA runs the verdicts are about its recipients, in order. |
| `SearchesExact` | `SearchesAreExact` | `LDAPInv`: what is written and what is pending make up the answer computed from one snapshot under the rights of the bind. |
| `FramingKept` | `FramingIsKept` | `MemInv`: what is unread is in the order line, block, line; the current request's block is in it only while it is waited for, or after a refusal or a length that is no number. |
| `BrokersProofs!` `RingBufferRefines` | `RefinesBoundedStore` | `RingTypeOK` is inductive (`TypeCorrect`). `WrapOnce` resolves `%`; `AddNotFull` and `AddFull` show that `All'` is the most recent part of `Append(All, x)`. |
| `SubscribersServed` | `SubscribersAreServed` | `STOMPInv`: the maps agree, and whoever a SEND started with is still to be written to, was written to, or has gone (`Underway`). |
| `SubscriptionsFollow` | `SubscriptionsFollowMocks` | `NATSInv`: a `SetMocks` that finds no connection comes before `Subscribe`, which then reads its list. |
| `ConnectionsKeep` | `ConnectionsKeepTheirMock` | `WSInv`: what is logged of a connection is logged under the version it began with. |
| `PublishesWhole` | `PublishesAreWhole` | `AMQPInv`: a channel's publish is one that was sent and not captured, no other channel's, with body units of its own (`Pending`); a queue still to be routed to was not answered (`Answers`). |

The type invariants of `RingBuffer`, `Logger`, `Scenarios`, `StateStore`,
`HTTPServer` and `SNMPServer` are proved as well (`TypeCorrect`, `LogTypeCorrect`,
`ActiveDefined`, `StateTypeCorrect`, `HTTPTypeCorrect`, `SNMPTypeCorrect`); no run
spends its time on them. The other invariants have the types in them.

Where a model has a loop of the code as a recursive function (the search for a
winner in `Scenarios`, the filters of `LDAPServer` and `MockAdmin`, the insertion
sort that shows a report exists), what it computes is shown by induction over its
rounds. The library's induction theorems take an operator as a parameter, which
the provers cannot instantiate; `ListLemmas` therefore states induction for sets
of numbers, from the fact that a set of naturals has a least element, and each
proof defines the set of the rounds after which its claim holds.

The assumptions are the ones the modules name, `RingAssumption` to
`RecordingAssumption`; TLC evaluates them in the runs. They say that capacities
are positive, bounds are numbers and constant functions have their types, and:

- `HTTPServer`: the handlers are finitely many (their number is in the counting
  argument), and `NoMock` is no mock;
- `MockAdmin`: the configured mocks of the protocols whose add replaces a mock of
  the same id have distinct ids, if any, as `validateDuplicateIDs` requires;
- `Lifecycle`: a configuration names servers that have a start sequence;
- `LDAPServer`, `Recording`, `Streams`, `Scenarios`, `RingBuffer`: the value that
  stands for none is not one of the real ones; in `Scenarios` ids are numbers, for
  their order;
- `FTPServer`: ports are numbers.

Only model-checked:

- liveness (`EventuallyWoken`, `OvertakenAgentIsRebuilt`, `StreamsProceed`,
  `FailureEndsProgram`, `DispatchesEnd`), since the prover does not reason about
  fairness;
- `SettledConfigIsServed` and `LoadedConfigIsValid`: a configuration is folded
  from nested files, and what the folds compute is an induction over their data;
- `MatchersAreRight`, `KeysAreAsWritten` and `AgentAnswersAreRight`: recursive
  definitions over patterns, values and OIDs, for the same reason;
- `RateLimitIsKept` and `ExchangesAreAccounted`: they compare counts over a
  history selected from a sequence, of which the prover has no theory.

## Not modelled

- Templates and response rendering, importers and generators (OpenAPI, AsyncAPI,
  protobuf, presets, schema examples): one-shot text processing without state.
- The clients in eight languages, the command-line client and the UI: they call
  the management API and keep nothing that another call could disturb.
- Wire formats: BER, AMQP and Kafka framing below the frame, DNS, CoAP and SIP
  packets, the USM cryptography and traps of SNMP, TLS certificates. A packet that
  does not parse is answered or dropped before any state is touched.
- The embedded brokers (NATS with JetStream, MQTT) and the metrics library: they
  are libraries; the models have the calls mockly makes.
- The capture stores of AMQP, Kafka and STOMP append to a slice and cut its front;
  each is one critical section, so that only `Add` and `All` would remain.
- Regular expressions, header, query and JSON conditions of the matcher: one
  verdict per condition in `Recording`. A mock's own fault and delays: they change
  one response and no state.
- GraphQL introspection and query parsing, gRPC descriptors.
- The interaction of parts that run under different selectors: a scenario that
  changes while an FTP session runs, say, is a nondeterministic fault in the
  session's model and not a step of `Scenarios`.
