----------------------------- MODULE HTTPServer -----------------------------
(***************************************************************************)
(* The HTTP mock server's request pipeline (httpserver.Server.             *)
(* handleRequest) under concurrent requests, with the management API       *)
(* changing mocks, faults, scenarios, counters and the log meanwhile.      *)
(*                                                                         *)
(* A request takes the locks of three stores one after the other: it reads *)
(* the effective fault (scenarios.Store), takes a snapshot of the mock     *)
(* list (Server.mu), counts its call (Server.mu again), reads the patch    *)
(* (scenarios.Store again), and logs (logger.Logger) after it answered.    *)
(* Each locked section is an action; what happens between two of them is   *)
(* part of the action before or after it.                                  *)
(*                                                                         *)
(* In record mode a request that nothing matches is sent to the upstream,  *)
(* and the answer becomes a mock; how it is recorded is the subject of     *)
(* Recording.                                                              *)
(*                                                                         *)
(* Left out: matching by anything but the mock (a request stands for the   *)
(* mock it asks for), rendering, headers, listeners, streams, webhooks,    *)
(* and a mock's own fault, which only delays or replaces the response (its *)
(* rate window is a key of RateLimit).  The log keeps only how many        *)
(* entries each MatchedID has; trimming is the subject of Logger.          *)
(***************************************************************************)
EXTENDS Integers, FiniteSets

CONSTANTS
    Handlers,       \* goroutines serving requests, one request at a time
    Mocks,          \* mock ids
    ConfigMocks,    \* the ids in the startup configuration
    NTLMMocks,      \* mocks with NTLM auth
    RecordMode,     \* whether Server.recorder is set
    RecordedAs,     \* mock -> the id that the answer to a request for it is recorded as
    SeqLen,         \* mock -> length of its sequence, 0 if it has none
    Exhausted,      \* mock -> its sequence_exhausted policy
    ScenarioIDs,    \* naturals, ordered as the id strings are
    ScenarioFault,  \* scenario -> its HTTP fault
    ScenarioPatch,  \* scenario -> mock -> its patch
    DirectFaults,   \* HTTP faults the API may set
    APIReaders,     \* calls of getHTTPCalls
    MaxRequests,    \* bound: requests served
    MaxResets       \* bound: times the counters are reset

NoMock == "NoMock"                              \* the empty MatchedID

FaultKinds == {"none", "limit", "delay", "status", "truncate", "abort"}
PatchKinds == {"none", "patch", "disabled"}
Policies == {"hold_last", "loop", "not_found"}
Tokens == {"none", "type1", "type3", "bearer"}   \* Authorization header

ASSUME HTTPServerAssumption ==
    /\ IsFiniteSet(Handlers)
    /\ NoMock \notin Mocks
    /\ ConfigMocks \subseteq Mocks
    /\ NTLMMocks \subseteq Mocks
    /\ RecordMode \in BOOLEAN
    /\ RecordedAs \in [Mocks -> Mocks]
    /\ SeqLen \in [Mocks -> Nat]
    /\ Exhausted \in [Mocks -> Policies]
    /\ ScenarioIDs \subseteq Nat
    /\ ScenarioFault \in [ScenarioIDs -> FaultKinds]
    /\ ScenarioPatch \in [ScenarioIDs -> [Mocks -> PatchKinds]]
    /\ DirectFaults \subseteq FaultKinds
    /\ MaxRequests \in Nat
    /\ MaxResets \in Nat

VARIABLES
    mocks,          \* Server.mocks: ids that are installed
    callCounts,     \* Server.callCounts
    logged,         \* MatchedID -> entries in the log
    active,         \* active scenarios
    direct,         \* the direct HTTP fault
    pc,             \* handler -> where it is in handleRequest
    req,            \* handler -> the request it serves
    started,        \* number of requests started
    epoch,          \* number of times callCounts was reset
    taken,          \* history: the call numbers that were handed out
    proxied,        \* history: mock -> requests the upstream answered in its name
    view,           \* reader -> its answer so far
    resetting       \* where the reset handler is, and what it has left

vars == <<mocks, callCounts, logged, active, direct, pc, req, started,
          epoch, taken, proxied, view, resetting>>

server == <<mocks, callCounts, epoch>>
history == <<taken, proxied>>
scen == <<active, direct>>
api == <<view, resetting>>

\* A request: what it asks for, and what its handler has found out so far.
Requests == [id : Nat, mock : Mocks \cup {NoMock}, token : Tokens,
             fault : FaultKinds, patch : PatchKinds,
             matched : Mocks \cup {NoMock}, resp : Int]

Idle == [id |-> 0, mock |-> NoMock, token |-> "none",
         fault |-> "none", patch |-> "none", matched |-> NoMock, resp |-> 0]

-----------------------------------------------------------------------------
(* scenarios.Store, as its module shows it to behave *)

\* The faults that may be in force with the scenarios in A active and d the
\* direct fault: the one of the greatest id that has a fault wins.
FaultsUnder(A, d) ==
    LET holders == {s \in A : ScenarioFault[s] # "none"}
        top == {s \in holders : \A t \in holders : t <= s}
    IN  IF holders = {} THEN {d} ELSE {ScenarioFault[s] : s \in top}

\* PatchFor: the patch of any scenario in A that has one for the mock.
PatchesUnder(A, m) ==
    LET found == {ScenarioPatch[s][m] : s \in A} \ {"none"}
    IN  IF found = {} THEN {"none"} ELSE found

-----------------------------------------------------------------------------
(* Responses.  A positive number is an entry of the mock's sequence. *)

OwnResponse == 0
NotFound == -1
PatchedResponse == -2
FaultResponse == -3
ProxiedResponse == -4

\* Broken variant of SequenceResponse: the loop starts over one step late.
SequenceResponseLate(m, n) ==
    LET len == SeqLen[m]
    IN  IF len = 0 THEN OwnResponse
        ELSE IF n <= len THEN n
        ELSE IF Exhausted[m] = "loop" THEN (n % len) + 1
        ELSE len

\* Which response the n-th call of m gets, before patches and faults.
SequenceResponse(m, n) ==
    LET len == SeqLen[m]
    IN  IF len = 0 THEN OwnResponse
        ELSE IF n <= len THEN n
        ELSE IF Exhausted[m] = "loop" THEN ((n - 1) % len) + 1
        ELSE IF Exhausted[m] = "not_found" THEN NotFound
        ELSE len

-----------------------------------------------------------------------------
(* handleRequest *)

\* A request arrives and reads the effective fault.
ReadFault(h, m, token) ==
    /\ pc[h] = "idle"
    /\ started < MaxRequests
    /\ m \notin NTLMMocks => token = "none"      \* otherwise the token is ignored
    /\ started' = started + 1
    /\ \E f \in FaultsUnder(active, direct) :
         /\ req' = [req EXCEPT ![h] = [Idle EXCEPT !.id = started + 1, !.mock = m,
                                                   !.token = token, !.fault = f]]
         /\ \/ /\ f = "limit"                          \* over the limit
               /\ pc' = [pc EXCEPT ![h] = "log"]
            \/ pc' = [pc EXCEPT ![h] = "match"]
    /\ UNCHANGED <<server, logged, scen, history, api>>

\* The mock list the request sees is the one of this moment.  A mock with NTLM
\* auth answers 401 itself until the client sends a type-3 token; another
\* authorization scheme does not match it.  If both the mock and a recorded
\* one match, either may be the first in the list.  In record mode a request
\* without a match goes to the upstream, or is not found if that fails.
Match(h) ==
    LET m == req[h].mock
        handshake == m \in mocks \cap NTLMMocks /\ req[h].token \in {"none", "type1"}
        matching == {k \in {m, RecordedAs[m]} \cap mocks :
                        k \in NTLMMocks => req[h].token = "type3"}
    IN  /\ pc[h] = "match"
        /\ \/ /\ handshake
              /\ pc' = [pc EXCEPT ![h] = "idle"]
              /\ req' = [req EXCEPT ![h] = Idle]
           \/ /\ ~handshake
              /\ pc' = [pc EXCEPT ![h] = "count"]
              /\ \E k \in matching : req' = [req EXCEPT ![h].matched = k]
           \/ /\ ~handshake /\ matching = {} /\ RecordMode
              /\ pc' = [pc EXCEPT ![h] = "record"]
              /\ UNCHANGED req
           \/ /\ ~handshake /\ matching = {}
              /\ pc' = [pc EXCEPT ![h] = "answer"]
              /\ req' = [req EXCEPT ![h].resp = NotFound]
        /\ UNCHANGED <<server, logged, scen, started, history, api>>

\* recordAndServe, once the upstream has answered: the recorded mock joins the
\* list, unless one with the same request is there by now.  The request is
\* logged as a call of the recorded mock but not counted, and no fault or
\* patch applies to it.
Record(h) ==
    LET m == req[h].mock
        r == RecordedAs[m]
    IN  /\ pc[h] = "record"
        /\ mocks' = mocks \cup {r} \/ (m \in mocks /\ mocks' = mocks)
        /\ proxied' = [proxied EXCEPT ![r] = @ + 1]
        /\ req' = [req EXCEPT ![h].matched = r, ![h].resp = ProxiedResponse]
        /\ pc' = [pc EXCEPT ![h] = "log"]
        /\ UNCHANGED <<callCounts, epoch, logged, scen, started, taken, api>>

\* Broken variant of Count: without the lock, a concurrent increment may
\* overwrite this one.
CountUnlocked(h) ==
    LET m == req[h].matched
        n == callCounts[m] + 1
    IN  /\ pc[h] = "count"
        /\ \E c \in {n, callCounts[m]} : callCounts' = [callCounts EXCEPT ![m] = c]
        /\ taken' = taken \cup {[id |-> req[h].id, mock |-> m, epoch |-> epoch, n |-> n]}
        /\ req' = [req EXCEPT ![h].resp = SequenceResponse(m, n)]
        /\ pc' = [pc EXCEPT ![h] = "patch"]
        /\ UNCHANGED <<mocks, epoch, logged, scen, started, proxied, api>>

\* Takes the next call number, under the lock, and selects the response.
Count(h) ==
    LET m == req[h].matched
        n == callCounts[m] + 1
    IN  /\ pc[h] = "count"
        /\ callCounts' = [callCounts EXCEPT ![m] = n]
        /\ taken' = taken \cup {[id |-> req[h].id, mock |-> m, epoch |-> epoch, n |-> n]}
        /\ req' = [req EXCEPT ![h].resp = SequenceResponse(m, n)]
        /\ pc' = [pc EXCEPT ![h] = "patch"]
        /\ UNCHANGED <<mocks, epoch, logged, scen, started, proxied, api>>

\* Applies the patch of an active scenario; a disabled mock answers 404 and
\* is logged as if nothing had matched.
ReadPatch(h) ==
    /\ pc[h] = "patch"
    /\ \E p \in PatchesUnder(active, req[h].matched) :
         req' = [req EXCEPT ![h] =
           CASE p = "none"     -> @
             [] p = "patch"    -> [@ EXCEPT !.patch = p, !.resp = PatchedResponse]
             [] p = "disabled" -> [@ EXCEPT !.patch = p, !.resp = NotFound,
                                            !.matched = NoMock]]
    /\ pc' = [pc EXCEPT ![h] = "answer"]
    /\ UNCHANGED <<server, logged, scen, started, history, api>>

\* Rolls the fault read at the start and answers.  A connection that is
\* aborted or truncated ends the handler there: the request is not logged.
Answer(h) ==
    /\ pc[h] = "answer"
    /\ \/ /\ pc' = [pc EXCEPT ![h] = "log"]            \* no fault, or it does not fire
          /\ UNCHANGED req
       \/ /\ req[h].fault = "status"
          /\ req' = [req EXCEPT ![h].resp = FaultResponse]
          /\ pc' = [pc EXCEPT ![h] = "log"]
       \/ /\ req[h].fault \in {"abort", "truncate"}
          /\ req' = [req EXCEPT ![h] = Idle]
          /\ pc' = [pc EXCEPT ![h] = "idle"]
    /\ UNCHANGED <<server, logged, scen, started, history, api>>

\* Broken variant of Log: the entry does not name the matched mock.
LogUnmatched(h) ==
    /\ pc[h] = "log"
    /\ logged' = [logged EXCEPT ![NoMock] = @ + 1]
    /\ req' = [req EXCEPT ![h] = Idle]
    /\ pc' = [pc EXCEPT ![h] = "idle"]
    /\ UNCHANGED <<server, scen, started, history, api>>

Log(h) ==
    /\ pc[h] = "log"
    /\ logged' = [logged EXCEPT ![req[h].matched] = @ + 1]
    /\ req' = [req EXCEPT ![h] = Idle]
    /\ pc' = [pc EXCEPT ![h] = "idle"]
    /\ UNCHANGED <<server, scen, started, history, api>>

-----------------------------------------------------------------------------
(* The management API *)

ZeroCounts == [m \in Mocks |-> 0]

\* SetMocks replaces the list and resets all counters.
SetMocks(S) ==
    /\ epoch < MaxResets
    /\ mocks' = S
    /\ callCounts' = ZeroCounts
    /\ epoch' = epoch + 1

ResetCallCounts ==
    /\ epoch < MaxResets
    /\ callCounts' = ZeroCounts
    /\ epoch' = epoch + 1
    /\ UNCHANGED mocks

\* Adding, updating and deleting mocks all end in SetMocks.
changeMocks(S) ==
    /\ SetMocks(S)
    /\ UNCHANGED <<logged, scen, pc, req, started, history, api>>

activateScenario(s) ==
    /\ active' = active \cup {s}
    /\ UNCHANGED <<server, logged, direct, pc, req, started, history, api>>

deactivateScenario(s) ==
    /\ active' = active \ {s}
    /\ UNCHANGED <<server, logged, direct, pc, req, started, history, api>>

setProtocolFault(f) ==
    /\ direct' = f
    /\ UNCHANGED <<server, logged, active, pc, req, started, history, api>>

clearLogs ==
    /\ logged' = [m \in DOMAIN logged |-> 0]
    /\ UNCHANGED <<server, scen, pc, req, started, history, api>>

\* clearAllHTTPCalls and clearHTTPMockCalls clear the log, or the mock's part
\* of it, and then all counters.
clearCalls(S) ==
    /\ resetting.at = "idle"
    /\ logged' = [m \in DOMAIN logged |-> IF m \in S THEN 0 ELSE logged[m]]
    /\ resetting' = [resetting EXCEPT !.at = "counts"]
    /\ UNCHANGED <<server, scen, pc, req, started, history, view>>

clearCallsCounts ==
    /\ resetting.at = "counts"
    /\ ResetCallCounts
    /\ resetting' = [resetting EXCEPT !.at = "idle"]
    /\ UNCHANGED <<logged, scen, pc, req, started, history, view>>

\* reset, one store after the other: the log, the direct faults, the
\* scenarios that were active when it looked, the mock list.
reset ==
    /\ resetting.at = "idle"
    /\ logged' = [m \in DOMAIN logged |-> 0]
    /\ resetting' = [resetting EXCEPT !.at = "faults"]
    /\ UNCHANGED <<server, scen, pc, req, started, history, view>>

resetFaults ==
    /\ resetting.at = "faults"
    /\ direct' = "none"
    /\ resetting' = [at |-> "active", todo |-> {}]
    /\ UNCHANGED <<server, logged, active, pc, req, started, history, view>>

resetActiveIDs ==
    /\ resetting.at = "active"
    /\ resetting' = [at |-> "scenarios", todo |-> active]
    /\ UNCHANGED <<server, logged, scen, pc, req, started, history, view>>

resetDeactivate(s) ==
    /\ resetting.at = "scenarios"
    /\ s \in resetting.todo
    /\ active' = active \ {s}
    /\ resetting' = [resetting EXCEPT !.todo = @ \ {s}]
    /\ UNCHANGED <<server, logged, direct, pc, req, started, history, view>>

resetMocks ==
    /\ resetting.at = "scenarios"
    /\ resetting.todo = {}
    /\ SetMocks(ConfigMocks)
    /\ resetting' = [resetting EXCEPT !.at = "idle"]
    /\ UNCHANGED <<logged, scen, pc, req, started, history, view>>

NoView == [mock |-> NoMock, calls |-> 0, proxied |-> 0, count |-> 0, at |-> "idle"]

\* Broken variant of getHTTPCalls: the counter is read first.
getHTTPCallsCountFirst(r, m) ==
    /\ view[r].at = "idle"
    /\ \E c \in 0 .. callCounts[m] :
         view' = [view EXCEPT ![r] = [mock |-> m, calls |-> logged[m], proxied |-> proxied[m],
                                      count |-> c, at |-> "done"]]
    /\ UNCHANGED <<server, logged, scen, pc, req, started, history, resetting>>

\* getHTTPCalls reads the log, then the counter.
getHTTPCalls(r, m) ==
    /\ view[r].at = "idle"
    /\ view' = [view EXCEPT ![r] = [mock |-> m, calls |-> logged[m], proxied |-> proxied[m],
                                    count |-> 0, at |-> "counting"]]
    /\ UNCHANGED <<server, logged, scen, pc, req, started, history, resetting>>

getHTTPCallsCount(r) ==
    /\ view[r].at = "counting"
    /\ view' = [view EXCEPT ![r].count = callCounts[view[r].mock], ![r].at = "done"]
    /\ UNCHANGED <<server, logged, scen, pc, req, started, history, resetting>>

-----------------------------------------------------------------------------

Init ==
    /\ mocks = ConfigMocks
    /\ callCounts = ZeroCounts
    /\ logged = [m \in Mocks \cup {NoMock} |-> 0]
    /\ active = {}
    /\ direct = "none"
    /\ pc = [h \in Handlers |-> "idle"]
    /\ req = [h \in Handlers |-> Idle]
    /\ started = 0
    /\ epoch = 0
    /\ taken = {}
    /\ proxied = ZeroCounts
    /\ view = [r \in APIReaders |-> NoView]
    /\ resetting = [at |-> "idle", todo |-> {}]

handleRequest(h) ==
    \/ \E m \in Mocks, t \in Tokens : ReadFault(h, m, t)
    \/ Match(h)
    \/ Record(h)
    \/ Count(h)
    \/ ReadPatch(h)
    \/ Answer(h)
    \/ Log(h)

API ==
    \/ \E S \in SUBSET Mocks : changeMocks(S)
    \/ \E s \in ScenarioIDs : activateScenario(s) \/ deactivateScenario(s)
    \/ \E f \in DirectFaults \cup {"none"} : setProtocolFault(f)
    \/ clearLogs
    \/ clearCalls(Mocks \cup {NoMock})
    \/ \E m \in Mocks : clearCalls({m})
    \/ clearCallsCounts
    \/ reset
    \/ resetFaults
    \/ resetActiveIDs
    \/ \E s \in ScenarioIDs : resetDeactivate(s)
    \/ resetMocks
    \/ \E r \in APIReaders, m \in Mocks : getHTTPCalls(r, m)
    \/ \E r \in APIReaders : getHTTPCallsCount(r)

Next == API \/ \E h \in Handlers : handleRequest(h)

Spec == Init /\ [][Next]_vars

-----------------------------------------------------------------------------
(* Properties *)

\* Type invariant.
TypeOK ==
    /\ mocks \subseteq Mocks
    /\ callCounts \in [Mocks -> Nat]
    /\ logged \in [Mocks \cup {NoMock} -> Nat]
    /\ active \subseteq ScenarioIDs
    /\ direct \in FaultKinds
    /\ pc \in [Handlers -> {"idle", "match", "record", "count", "patch", "answer", "log"}]
    /\ req \in [Handlers -> Requests]
    /\ \A h \in Handlers : /\ pc[h] \in {"match", "record"} => req[h].mock \in Mocks
                           /\ pc[h] \in {"count", "patch"} => req[h].matched \in Mocks
    /\ started \in Nat
    /\ epoch \in Nat
    /\ taken \subseteq [id : Nat, mock : Mocks, epoch : Nat, n : Nat]
    /\ proxied \in [Mocks -> Nat]
    /\ view \in [APIReaders -> [mock : Mocks \cup {NoMock}, calls : Nat,
                                proxied : Nat, count : Nat,
                                at : {"idle", "counting", "done"}]]
    /\ \A r \in APIReaders : view[r].at = "counting" => view[r].mock \in Mocks
    /\ resetting \in [at : {"idle", "counts", "faults", "active", "scenarios"},
                      todo : SUBSET ScenarioIDs]

\* Between two resets of the counters every mock hands out the call numbers
\* 1, 2, 3, ... without a gap and each of them to one request, however the
\* requests interleave with each other and with the API: so no two requests
\* get the same step of a sequence, and no step is skipped.
CallNumbersExact ==
    /\ \A x, y \in taken :
         (x.mock = y.mock /\ x.epoch = y.epoch /\ x.n = y.n) => x.id = y.id
    /\ \A m \in Mocks : \A n \in 1 .. callCounts[m] :
         \E x \in taken : x.mock = m /\ x.epoch = epoch /\ x.n = n

\* The requests that got step i of m's sequence since the last reset.
Served(m, i) ==
    {x \in taken : x.mock = m /\ x.epoch = epoch /\ SequenceResponse(m, x.n) = i}

\* Concurrent requests share a looping sequence evenly: no step is served
\* again before all later ones were, so an earlier step is at most one ahead
\* of a later one and never behind it.
LoopIsShared ==
    \A m \in Mocks : Exhausted[m] = "loop" =>
        \A i, j \in 1 .. SeqLen[m] : i < j =>
            /\ Cardinality(Served(m, j)) <= Cardinality(Served(m, i))
            /\ Cardinality(Served(m, i)) <= Cardinality(Served(m, j)) + 1

\* Until the first reset, getHTTPCalls never answers with more calls than its
\* count, but for the ones that the upstream answered until then, which are
\* logged without being counted: requests count themselves before they log,
\* and the API reads the log before the counter.
CallsNeverExceedCount ==
    epoch = 0 =>
        \A r \in APIReaders :
            view[r].at = "done" => view[r].calls <= view[r].count + view[r].proxied

\* A request that was counted as a call of a mock is also logged as one when
\* its handler ends, so that a wait for N calls, which looks at the log, sees
\* it.  Two kinds of request are the exception: one that an abort or truncate
\* fault cuts off, and one that finds its mock disabled.
CountedCallsAreLogged ==
    [][\A h \in Handlers :
         /\ pc[h] # "idle" /\ pc'[h] = "idle"
         /\ req[h].fault \notin {"abort", "truncate"}
         /\ req[h].patch # "disabled"
         => \A x \in taken : x.id = req[h].id => logged'[x.mock] = logged[x.mock] + 1]_vars

=============================================================================
