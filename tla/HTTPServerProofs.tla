-------------------------- MODULE HTTPServerProofs --------------------------
(***************************************************************************)
(* For any number of requests, mocks, scenarios and resets: the call       *)
(* numbers of a mock are handed out exactly once and without gaps, the     *)
(* calls API never reports more calls than it counted, a counted call is   *)
(* logged unless a fault cuts it off or its mock is disabled, and requests *)
(* share a looping sequence evenly.                                        *)
(***************************************************************************)
EXTENDS HTTPServer, FiniteSetTheorems, TLAPS

\* A leaf that names no prover is tried with these, in this order.
USE SMT, Zenon, SMTT(30)

\* What the reads of the scenario store can return.
LEMMA ScenarioReads ==
    ASSUME active \subseteq ScenarioIDs, direct \in FaultKinds
    PROVE  /\ FaultsUnder(active, direct) \subseteq FaultKinds
           /\ \A m \in Mocks : PatchesUnder(active, m) \subseteq PatchKinds
<1>1. FaultsUnder(active, direct) \subseteq FaultKinds
  BY HTTPServerAssumption DEF FaultsUnder
<1>2. ASSUME NEW m \in Mocks PROVE PatchesUnder(active, m) \subseteq PatchKinds
  <2>1. \A s \in active : ScenarioPatch[s][m] \in PatchKinds
    BY HTTPServerAssumption
  <2> QED BY <2>1, Zenon DEF PatchesUnder, PatchKinds
<1> QED BY <1>1, <1>2, Zenon

\* The response selected for a call is a number.
LEMMA ResponseType ==
    ASSUME NEW m \in Mocks, NEW n \in Nat
    PROVE  SequenceResponse(m, n) \in Int
<1>1. SeqLen[m] \in Nat
  BY HTTPServerAssumption, Zenon
<1>2. SeqLen[m] > 0 => (n - 1) % SeqLen[m] \in Int
  BY <1>1
<1> QED BY <1>1, <1>2 DEF SequenceResponse, OwnResponse, NotFound

\* How the steps of a handler rewrite its request.
LEMMA RequestUpdates ==
    /\ Idle \in Requests
    /\ \A i \in Nat, m \in Mocks, t \in Tokens, f \in FaultKinds :
         [Idle EXCEPT !.id = i, !.mock = m, !.token = t, !.fault = f] \in Requests
    /\ \A q \in Requests :
         /\ q.id \in Nat
         /\ q.mock \in Mocks \cup {NoMock}
         /\ q.matched \in Mocks \cup {NoMock}
         /\ \A r \in Int : /\ [q EXCEPT !.resp = r] \in Requests
                           /\ [q EXCEPT !.resp = r].matched = q.matched
         /\ \A m \in Mocks \cup {NoMock} : /\ [q EXCEPT !.matched = m] \in Requests
                                           /\ [q EXCEPT !.matched = m].matched = m
         /\ \A p \in PatchKinds, r \in Int :
              /\ [q EXCEPT !.patch = p, !.resp = r] \in Requests
              /\ [q EXCEPT !.patch = p, !.resp = r, !.matched = NoMock] \in Requests
         /\ \A m \in Mocks, r \in Int :
              /\ [q EXCEPT !.matched = m, !.resp = r] \in Requests
              /\ [q EXCEPT !.matched = m, !.resp = r].matched = m
<1>1. Idle \in Requests
  BY DEF Idle, Requests, Tokens, FaultKinds, PatchKinds
<1>2. ASSUME NEW i \in Nat, NEW m \in Mocks, NEW t \in Tokens, NEW f \in FaultKinds
      PROVE  [Idle EXCEPT !.id = i, !.mock = m, !.token = t, !.fault = f] \in Requests
  BY <1>1, Zenon DEF Requests
<1>3. ASSUME NEW q \in Requests
      PROVE  q.id \in Nat /\ q.mock \in Mocks \cup {NoMock}
             /\ q.matched \in Mocks \cup {NoMock}
  BY Zenon DEF Requests
<1>4. ASSUME NEW q \in Requests, NEW r \in Int
      PROVE  [q EXCEPT !.resp = r] \in Requests /\ [q EXCEPT !.resp = r].matched = q.matched
  BY Zenon DEF Requests
<1>5. ASSUME NEW q \in Requests, NEW m \in Mocks \cup {NoMock}
      PROVE  [q EXCEPT !.matched = m] \in Requests /\ [q EXCEPT !.matched = m].matched = m
  BY Zenon DEF Requests
<1>6. ASSUME NEW q \in Requests, NEW p \in PatchKinds, NEW r \in Int
      PROVE  /\ [q EXCEPT !.patch = p, !.resp = r] \in Requests
             /\ [q EXCEPT !.patch = p, !.resp = r, !.matched = NoMock] \in Requests
  BY Zenon DEF Requests
<1>7. ASSUME NEW q \in Requests, NEW m \in Mocks, NEW r \in Int
      PROVE  /\ [q EXCEPT !.matched = m, !.resp = r] \in Requests
             /\ [q EXCEPT !.matched = m, !.resp = r].matched = m
  BY Zenon DEF Requests
<1> QED BY <1>1, <1>2, <1>3, <1>4, <1>5, <1>6, <1>7, Zenon

\* Where a handler can be.
PCs == {"idle", "match", "record", "count", "patch", "answer", "log"}

\* Every step of a request keeps the types.
LEMMA HandlerType ==
    ASSUME TypeOK, NEW h \in Handlers, handleRequest(h)
    PROVE  TypeOK'
<1>1. req \in [Handlers -> Requests] /\ req[h] \in Requests /\ Idle \in Requests
  BY RequestUpdates, Zenon DEF TypeOK
<1>0. /\ pc \in [Handlers -> PCs]
      /\ callCounts \in [Mocks -> Nat] /\ logged \in [Mocks \cup {NoMock} -> Nat]
      /\ taken \subseteq [id : Nat, mock : Mocks, epoch : Nat, n : Nat]
      /\ \A g \in Handlers : pc[g] \in {"count", "patch"} => req[g].matched \in Mocks
      /\ \A g \in Handlers : pc[g] \in {"match", "record"} => req[g].mock \in Mocks
      /\ proxied \in [Mocks -> Nat]
      /\ mocks \subseteq Mocks /\ started \in Nat /\ epoch \in Nat
      /\ active \subseteq ScenarioIDs /\ direct \in FaultKinds
  BY Zenon DEF TypeOK, PCs
<1>8. /\ NotFound \in Int /\ PatchedResponse \in Int /\ FaultResponse \in Int
      /\ ProxiedResponse \in Int /\ started + 1 \in Nat
  BY <1>0 DEF NotFound, PatchedResponse, FaultResponse, ProxiedResponse
<1>2. ASSUME NEW m \in Mocks, NEW t \in Tokens, ReadFault(h, m, t) PROVE TypeOK'
  <2>1. PICK f \in FaultsUnder(active, direct) :
          req' = [req EXCEPT ![h] = [Idle EXCEPT !.id = started + 1, !.mock = m,
                                                 !.token = t, !.fault = f]]
    BY <1>2, Zenon DEF ReadFault
  <2> DEFINE q == [Idle EXCEPT !.id = started + 1, !.mock = m, !.token = t, !.fault = f]
  <2>2. q \in Requests /\ q.mock = m
    <3>1. f \in FaultKinds
      BY <1>0, <2>1, ScenarioReads, Zenon
    <3>2. q \in Requests
      BY <1>8, <1>2, <3>1, RequestUpdates, Zenon
    <3>3. q.mock = m
      BY Zenon DEF Idle
    <3> QED BY <3>2, <3>3, Zenon
  <2>3. req' = [req EXCEPT ![h] = q]
    BY <2>1, Zenon
  <2> HIDE DEF q
  <2>4. /\ req' \in [Handlers -> Requests] /\ \A g \in Handlers \ {h} : req'[g] = req[g]
        /\ req'[h].mock \in Mocks
    BY <1>1, <2>2, <2>3, Zenon
  <2>5. /\ pc' \in [Handlers -> PCs]
        /\ \A g \in Handlers : pc'[g] \in {"count", "patch"} =>
                               g # h /\ pc[g] \in {"count", "patch"}
        /\ \A g \in Handlers \ {h} : pc'[g] = pc[g]
    BY <1>0, <1>2, Zenon DEF ReadFault, PCs
  <2>6. started' \in Nat /\ UNCHANGED <<server, logged, scen, history, api>>
    BY <1>2, <1>8, Zenon DEF ReadFault
  <2> QED BY <1>0, <2>4, <2>5, <2>6, Zenon DEF TypeOK, server, scen, api, history, PCs
<1>3. CASE Match(h)
  <2>1. CASE pc' = [pc EXCEPT ![h] = "idle"] /\ req' = [req EXCEPT ![h] = Idle]
    BY <1>0, <1>1, <1>3, <2>1, Zenon DEF TypeOK, server, scen, api, history, PCs, Match
  <2>2. ASSUME NEW k \in mocks, pc' = [pc EXCEPT ![h] = "count"],
               req' = [req EXCEPT ![h].matched = k]
        PROVE  TypeOK'
    <3>1. /\ [req[h] EXCEPT !.matched = k] \in Requests
          /\ [req[h] EXCEPT !.matched = k].matched \in Mocks
      <4>1. k \in Mocks /\ k \in Mocks \cup {NoMock}
        BY <1>0, <2>2, Zenon
      <4> QED BY <1>1, <4>1, RequestUpdates, Zenon
    <3> QED BY <1>0, <1>1, <1>3, <2>2, <3>1, Zenon DEF TypeOK, server, scen, api, history, PCs, Match
  <2>3. CASE /\ pc' = [pc EXCEPT ![h] = "answer"]
             /\ req' = [req EXCEPT ![h].resp = NotFound]
    <3>1. [req[h] EXCEPT !.resp = NotFound] \in Requests
      BY <1>1, <1>8, RequestUpdates, Zenon
    <3> QED BY <1>0, <1>1, <1>3, <2>3, <3>1, Zenon DEF TypeOK, server, scen, api, history, PCs, Match
  <2>4. CASE pc' = [pc EXCEPT ![h] = "record"] /\ req' = req
    <3>1. req[h].mock \in Mocks
      BY <1>0, <1>3, Zenon DEF Match
    <3> QED BY <1>0, <1>1, <1>3, <2>4, <3>1, Zenon DEF TypeOK, server, scen, api, history, PCs, Match
  <2> QED BY <1>3, <2>1, <2>2, <2>3, <2>4, Zenon DEF Match
<1>9. CASE Record(h)
  <2> DEFINE r == RecordedAs[req[h].mock]
             q == [req[h] EXCEPT !.matched = r, !.resp = ProxiedResponse]
  <2>1. req[h].mock \in Mocks /\ r \in Mocks
    BY <1>0, <1>9, HTTPServerAssumption, Zenon DEF Record
  <2>2. q \in Requests
    BY <1>1, <1>8, <2>1, RequestUpdates, Zenon
  <2>3. req' = [req EXCEPT ![h] = q] /\ proxied' = [proxied EXCEPT ![r] = @ + 1]
        /\ mocks' \subseteq mocks \cup {r}
    BY <1>1, <1>9, Zenon DEF Record
  <2> HIDE DEF q, r
  <2>4. req' \in [Handlers -> Requests] /\ \A g \in Handlers \ {h} : req'[g] = req[g]
    BY <1>1, <2>2, <2>3, Zenon
  <2>5. /\ pc' \in [Handlers -> PCs]
        /\ \A g \in Handlers \ {h} : pc'[g] = pc[g]
        /\ pc'[h] = "log"
    BY <1>0, <1>9, Zenon DEF Record, PCs
  <2>6. mocks' \subseteq Mocks /\ proxied' \in [Mocks -> Nat]
    BY <1>0, <2>1, <2>3
  <2> QED BY <1>0, <1>9, <2>4, <2>5, <2>6, Zenon DEF TypeOK, server, scen, api, Record, PCs
<1>4. CASE Count(h)
  <2> DEFINE m == req[h].matched
             n == callCounts[m] + 1
             r == SequenceResponse(m, n)
             x == [id |-> req[h].id, mock |-> m, epoch |-> epoch, n |-> n]
  <2>1. m \in Mocks /\ n \in Nat
    BY <1>0, <1>4 DEF Count
  <2>2. r \in Int
    BY <2>1, ResponseType, Zenon
  <2>3. /\ callCounts' = [callCounts EXCEPT ![m] = n]
        /\ taken' = taken \cup {x}
        /\ req' = [req EXCEPT ![h] = [req[h] EXCEPT !.resp = r]]
    BY <1>1, <1>4, Zenon DEF Count
  <2>4. x \in [id : Nat, mock : Mocks, epoch : Nat, n : Nat]
    BY <1>0, <1>1, <2>1, RequestUpdates, Zenon
  <2>5. [req[h] EXCEPT !.resp = r] \in Requests /\ [req[h] EXCEPT !.resp = r].matched = m
    BY <1>1, <2>2, RequestUpdates, Zenon
  <2> HIDE DEF n, r, x
  <2>6. callCounts' \in [Mocks -> Nat] /\ taken' \subseteq [id : Nat, mock : Mocks, epoch : Nat, n : Nat]
    BY <1>0, <2>1, <2>3, <2>4, Zenon
  <2>7. /\ req' \in [Handlers -> Requests] /\ \A g \in Handlers : req'[g].matched = req[g].matched
        /\ \A g \in Handlers \ {h} : req'[g] = req[g]
    BY <1>0, <1>1, <2>3, <2>5, Zenon
  <2>8. /\ pc' \in [Handlers -> PCs] /\ \A g \in Handlers \ {h} : pc'[g] = pc[g]
        /\ pc[h] = "count" /\ pc'[h] = "patch"
    BY <1>0, <1>4, Zenon DEF Count, PCs
  <2>9. \A g \in Handlers : /\ pc'[g] \in {"match", "record"} => req'[g].mock \in Mocks
                            /\ pc'[g] \in {"count", "patch"} => req'[g].matched \in Mocks
    <3>1. ASSUME NEW g \in Handlers, g # h
          PROVE  /\ pc'[g] \in {"match", "record"} => req'[g].mock \in Mocks
                 /\ pc'[g] \in {"count", "patch"} => req'[g].matched \in Mocks
      <4>1. req'[g] = req[g] /\ pc'[g] = pc[g]
        BY <2>7, <2>8, <3>1, Zenon
      <4> QED BY <1>0, <4>1, Zenon
    <3>2. pc'[h] = "patch" /\ req'[h].matched \in Mocks
      BY <2>1, <2>7, <2>8, Zenon
    <3> QED BY <3>1, <3>2, Zenon
  <2> QED BY <1>0, <1>4, <2>6, <2>7, <2>8, <2>9, Zenon DEF TypeOK, server, scen, api, Count, PCs
<1>5. CASE ReadPatch(h)
  <2>1. req[h].matched \in Mocks
    BY <1>0, <1>5, Zenon DEF ReadPatch
  <2>2. PICK p \in PatchesUnder(active, req[h].matched) :
         req' = [req EXCEPT ![h] =
           CASE p = "none"     -> @
             [] p = "patch"    -> [@ EXCEPT !.patch = p, !.resp = PatchedResponse]
             [] p = "disabled" -> [@ EXCEPT !.patch = p, !.resp = NotFound,
                                            !.matched = NoMock]]
    BY <1>5, Zenon DEF ReadPatch
  <2>3. p \in PatchKinds
    BY <1>0, <2>1, <2>2, ScenarioReads, Zenon
  <2>4. /\ [req[h] EXCEPT !.patch = p, !.resp = PatchedResponse] \in Requests
        /\ [req[h] EXCEPT !.patch = p, !.resp = NotFound, !.matched = NoMock] \in Requests
    BY <1>1, <1>8, <2>3, RequestUpdates, Zenon
  <2>5. \E q \in Requests : req' = [req EXCEPT ![h] = q]
    BY <1>1, <2>2, <2>3, <2>4, Zenon DEF PatchKinds
  <2>6. req' \in [Handlers -> Requests] /\ \A g \in Handlers \ {h} : req'[g] = req[g]
    BY <1>1, <2>5, Zenon
  <2>7. /\ pc' \in [Handlers -> PCs]
        /\ \A g \in Handlers \ {h} : pc'[g] = pc[g]
        /\ pc'[h] \notin {"match", "record", "count", "patch"}
    BY <1>0, <1>5, Zenon DEF ReadPatch, PCs
  <2> QED BY <1>0, <1>5, <2>6, <2>7, Zenon DEF TypeOK, server, scen, api, history, ReadPatch, PCs
<1>6. CASE Answer(h)
  <2>1. [req[h] EXCEPT !.resp = FaultResponse] \in Requests
    BY <1>1, <1>8, RequestUpdates, Zenon
  <2>2. \E q \in Requests : req' = [req EXCEPT ![h] = q]
    BY <1>1, <1>6, <2>1, Zenon DEF Answer
  <2>3. req' \in [Handlers -> Requests] /\ \A g \in Handlers \ {h} : req'[g] = req[g]
    BY <1>1, <2>2, Zenon
  <2>4. /\ pc' \in [Handlers -> PCs]
        /\ \A g \in Handlers \ {h} : pc'[g] = pc[g]
        /\ pc'[h] \notin {"match", "record", "count", "patch"}
    BY <1>0, <1>6, Zenon DEF Answer, PCs
  <2> QED BY <1>0, <1>6, <2>3, <2>4, Zenon DEF TypeOK, server, scen, api, history, Answer, PCs
<1>7. CASE Log(h)
  <2>1. req[h].matched \in Mocks \cup {NoMock}
    BY <1>1, RequestUpdates, Zenon
  <2>2. logged' \in [Mocks \cup {NoMock} -> Nat]
    BY <1>0, <1>7, <2>1 DEF Log
  <2>3. req' \in [Handlers -> Requests] /\ \A g \in Handlers \ {h} : req'[g] = req[g]
    BY <1>1, <1>7, Zenon DEF Log
  <2>4. /\ pc' \in [Handlers -> PCs]
        /\ \A g \in Handlers \ {h} : pc'[g] = pc[g]
        /\ pc'[h] \notin {"match", "record", "count", "patch"}
    BY <1>0, <1>7, Zenon DEF Log, PCs
  <2> QED BY <1>0, <1>7, <2>2, <2>3, <2>4, Zenon DEF TypeOK, server, scen, api, history, Log, PCs
<1> QED BY <1>2, <1>3, <1>4, <1>5, <1>6, <1>7, <1>9, Zenon DEF handleRequest

\* Every step of the management API keeps the types.
LEMMA APIType ==
    ASSUME TypeOK, API
    PROVE  TypeOK'
<1> USE DEF TypeOK, server, scen, api, history
<1>1. ZeroCounts \in [Mocks -> Nat]
  BY Zenon DEF ZeroCounts
<1>2. ASSUME NEW S \in SUBSET Mocks, changeMocks(S) PROVE TypeOK'
  BY <1>1, <1>2 DEF changeMocks, SetMocks
<1>3. ASSUME NEW s \in ScenarioIDs, activateScenario(s) \/ deactivateScenario(s)
      PROVE  TypeOK'
  BY <1>3, Zenon DEF activateScenario, deactivateScenario
<1>4. ASSUME NEW f \in DirectFaults \cup {"none"}, setProtocolFault(f) PROVE TypeOK'
  BY <1>4, HTTPServerAssumption, Zenon DEF setProtocolFault, FaultKinds
<1>5. CASE clearLogs
  BY <1>5, Zenon DEF clearLogs
<1>6. ASSUME NEW S, clearCalls(S) PROVE TypeOK'
  BY <1>6, Zenon DEF clearCalls
<1>7. CASE clearCallsCounts
  <2>1. mocks' \subseteq Mocks /\ callCounts' \in [Mocks -> Nat] /\ epoch' \in Nat
    BY <1>1, <1>7 DEF clearCallsCounts, ResetCallCounts
  <2> QED BY <1>7, <2>1, Zenon DEF clearCallsCounts
<1>8. CASE reset
  BY <1>8, Zenon DEF reset
<1>9. CASE resetFaults
  BY <1>9, Zenon DEF resetFaults, FaultKinds
<1>10. CASE resetActiveIDs
  BY <1>10, Zenon DEF resetActiveIDs
<1>11. ASSUME NEW s \in ScenarioIDs, resetDeactivate(s) PROVE TypeOK'
  BY <1>11, Zenon DEF resetDeactivate
<1>12. CASE resetMocks
  <2>1. mocks' \subseteq Mocks /\ callCounts' \in [Mocks -> Nat] /\ epoch' \in Nat
    BY <1>1, <1>12, HTTPServerAssumption DEF resetMocks, SetMocks
  <2> QED BY <1>12, <2>1, Zenon DEF resetMocks
<1>13. ASSUME NEW r \in APIReaders, NEW m \in Mocks, getHTTPCalls(r, m) PROVE TypeOK'
  BY <1>13, Zenon DEF getHTTPCalls
<1>14. ASSUME NEW r \in APIReaders, getHTTPCallsCount(r) PROVE TypeOK'
  <2>1. callCounts[view[r].mock] \in Nat
    BY <1>1, <1>14, Zenon DEF getHTTPCallsCount
  <2> QED BY <1>1, <1>14, <2>1 DEF getHTTPCallsCount
<1> QED BY <1>2, <1>3, <1>4, <1>5, <1>6, <1>7, <1>8, <1>9, <1>10, <1>11,
          <1>12, <1>13, <1>14, Zenon DEF API

\* Initially the types hold.
LEMMA InitType ==
    ASSUME Init
    PROVE  TypeOK
<1>1. \A h \in Handlers : req[h] \in Requests
  BY RequestUpdates, Zenon DEF Init
<1> QED BY <1>1, HTTPServerAssumption, Zenon DEF Init, TypeOK, ZeroCounts, NoView, FaultKinds

\* THEOREM: every reachable state has the types the code declares, and a
\* handler that counts a call has matched a mock.
THEOREM HTTPTypeCorrect == Spec => []TypeOK
<1>1. Init => TypeOK
  BY InitType, Zenon
<1>2. TypeOK /\ [Next]_vars => TypeOK'
  <2>1. CASE UNCHANGED vars
    BY <2>1, Zenon DEF TypeOK, vars
  <2> QED BY <2>1, HandlerType, APIType, Zenon DEF Next
<1> QED BY <1>1, <1>2, PTL DEF Spec

-----------------------------------------------------------------------------
(* Call numbers *)

\* No call number is ahead of its mock's counter.
NumbersBelow ==
    \A x \in taken : /\ x.epoch <= epoch
                     /\ x.epoch = epoch => x.n <= callCounts[x.mock]

\* The inductive invariant behind CallNumbersExact: uniqueness of the next
\* number needs to know that no number above the counter was handed out.
NumbersInv == TypeOK /\ NumbersBelow /\ CallNumbersExact

\* A call number record.
LEMMA NumberFields ==
    ASSUME TypeOK, NEW x \in taken
    PROVE  x.epoch \in Nat /\ x.n \in Nat /\ x.mock \in Mocks /\ callCounts[x.mock] \in Nat
BY Zenon DEF TypeOK

\* A counter reset keeps the numbers exact: the new epoch has none.
LEMMA ResetNumbers ==
    ASSUME NumbersInv, callCounts' = ZeroCounts, epoch' = epoch + 1, taken' = taken
    PROVE  NumbersBelow' /\ CallNumbersExact'
<1>1. epoch \in Nat
  BY Zenon DEF NumbersInv, TypeOK
<1>2. \A x \in taken : x.epoch <= epoch /\ x.epoch \in Nat
  BY NumberFields, Zenon DEF NumbersInv, NumbersBelow
<1>3. \A m \in Mocks : callCounts'[m] = 0
  BY Zenon DEF ZeroCounts
<1>4. NumbersBelow'
  BY <1>1, <1>2 DEF NumbersBelow
<1>5. CallNumbersExact'
  BY <1>3 DEF NumbersInv, CallNumbersExact
<1> QED BY <1>4, <1>5, Zenon

\* Counting a call takes the one number that is next.
LEMMA CountNumbers ==
    ASSUME NumbersInv, NEW h \in Handlers, Count(h)
    PROVE  NumbersBelow' /\ CallNumbersExact'
<1> DEFINE m == req[h].matched
           n == callCounts[m] + 1
           c == [id |-> req[h].id, mock |-> m, epoch |-> epoch, n |-> n]
<1>1. /\ m \in Mocks /\ callCounts \in [Mocks -> Nat] /\ epoch \in Nat
      /\ \A x \in taken : /\ x.mock \in Mocks /\ x.n \in Nat /\ x.epoch \in Nat
                           /\ x.epoch <= epoch
                           /\ x.epoch = epoch => x.n <= callCounts[x.mock]
  BY NumberFields, Zenon DEF NumbersInv, NumbersBelow, TypeOK, Count
<1>2. /\ callCounts' = [callCounts EXCEPT ![m] = n]
      /\ taken' = taken \cup {c}
      /\ epoch' = epoch
  BY Zenon DEF Count
<1>3. c.mock = m /\ c.epoch = epoch /\ c.n = n
  BY Zenon
<1>4. n \in Nat /\ callCounts[m] \in Nat /\ n = callCounts[m] + 1
  BY <1>1
<1> HIDE DEF m, n, c
<1>5. NumbersBelow'
  <2> SUFFICES ASSUME NEW x \in taken'
               PROVE  x.epoch <= epoch /\ (x.epoch = epoch => x.n <= callCounts'[x.mock])
    BY <1>2, Zenon DEF NumbersBelow
  <2>1. CASE x = c
    BY <1>1, <1>2, <1>3, <1>4, <2>1
  <2>2. CASE x \in taken
    <3>1. /\ x.mock \in Mocks /\ x.n \in Nat /\ callCounts[x.mock] \in Nat
      BY <2>2, NumberFields, Zenon DEF NumbersInv
    <3>2. /\ x.epoch <= epoch
          /\ x.epoch = epoch => x.n <= callCounts[x.mock]
      BY <2>2, Zenon DEF NumbersInv, NumbersBelow
    <3> DEFINE k == x.mock
               i == x.n
    <3> HIDE DEF k, i
    <3>3. callCounts[k] <= callCounts'[k] /\ callCounts'[k] \in Nat
      BY <1>1, <1>2, <1>4, <3>1 DEF k
    <3>4. i <= callCounts[k] => i <= callCounts'[k]
      BY <3>1, <3>3 DEF i, k
    <3> QED BY <3>2, <3>4, Zenon DEF i, k
  <2> QED BY <1>2, <2>1, <2>2, Zenon
<1>6. ASSUME NEW x \in taken', NEW y \in taken',
             x.mock = y.mock, x.epoch = y.epoch, x.n = y.n
      PROVE  x.id = y.id
  <2>1. \A z \in taken : ~(z.mock = m /\ z.epoch = epoch /\ z.n = n)
    BY <1>1, <1>4
  <2>2. CASE x = c /\ y = c
    BY <2>2, Zenon
  <2>3. CASE x \in taken /\ y \in taken
    BY <1>6, <2>3, Zenon DEF NumbersInv, CallNumbersExact
  <2> QED BY <1>2, <1>3, <1>6, <2>1, <2>2, <2>3, Zenon
<1>7. ASSUME NEW k \in Mocks, NEW i \in 1 .. callCounts'[k]
      PROVE  \E x \in taken' : x.mock = k /\ x.epoch = epoch' /\ x.n = i
  <2>1. CASE k = m /\ i = n
    BY <1>2, <1>3, <2>1, Zenon
  <2>2. CASE ~(k = m /\ i = n)
    <3>1. i \in 1 .. callCounts[k]
      BY <1>1, <1>2, <1>4, <2>2
    <3> QED BY <1>2, <3>1 DEF NumbersInv, CallNumbersExact
  <2> QED BY <2>1, <2>2, Zenon
<1> QED BY <1>5, <1>6, <1>7, Zenon DEF CallNumbersExact

\* What a step may do to the counters.
LEMMA NumberSteps ==
    ASSUME [Next]_vars
    PROVE  \/ UNCHANGED <<callCounts, epoch, taken>>
           \/ callCounts' = ZeroCounts /\ epoch' = epoch + 1 /\ taken' = taken
           \/ \E h \in Handlers : Count(h)
<1>1. ASSUME NEW h \in Handlers, handleRequest(h)
      PROVE  Count(h) \/ UNCHANGED <<callCounts, epoch, taken>>
  BY <1>1, Zenon DEF handleRequest, ReadFault, Match, Record, ReadPatch, Answer, Log, server, history
<1>2. ASSUME API
      PROVE  \/ UNCHANGED <<callCounts, epoch, taken>>
             \/ callCounts' = ZeroCounts /\ epoch' = epoch + 1 /\ taken' = taken
  BY <1>2, Zenon DEF API, changeMocks, SetMocks, activateScenario,
     deactivateScenario, setProtocolFault, clearLogs, clearCalls, clearCallsCounts,
     ResetCallCounts, reset, resetFaults, resetActiveIDs, resetDeactivate,
     resetMocks, getHTTPCalls, getHTTPCallsCount, server, history
<1> QED BY <1>1, <1>2, Zenon DEF Next, vars

\* Every step keeps the numbers exact.
LEMMA NumbersStep ==
    ASSUME NumbersInv, [Next]_vars
    PROVE  NumbersInv'
<1>1. TypeOK'
  <2>1. CASE UNCHANGED vars
    BY <2>1, Zenon DEF NumbersInv, TypeOK, vars
  <2> QED BY <2>1, HandlerType, APIType, Zenon DEF Next, NumbersInv
<1>2. CASE UNCHANGED <<callCounts, epoch, taken>>
  BY <1>1, <1>2 DEF NumbersInv, NumbersBelow, CallNumbersExact
<1>3. CASE callCounts' = ZeroCounts /\ epoch' = epoch + 1 /\ taken' = taken
  BY <1>1, <1>3, ResetNumbers, Zenon DEF NumbersInv
<1>4. ASSUME NEW h \in Handlers, Count(h) PROVE NumbersInv'
  BY <1>1, <1>4, CountNumbers, Zenon DEF NumbersInv
<1> QED BY <1>2, <1>3, <1>4, NumberSteps, Zenon

\* THEOREM: whatever the requests and the API do, between two resets of the
\* counters each mock's call numbers are 1, 2, 3, ..., each taken by one
\* request.
THEOREM SequenceStepsExact == Spec => []CallNumbersExact
<1>1. Init => NumbersInv
  BY InitType DEF Init, NumbersInv, NumbersBelow, CallNumbersExact, ZeroCounts
<1>2. NumbersInv /\ [Next]_vars => NumbersInv'
  BY NumbersStep, Zenon
<1>3. NumbersInv => CallNumbersExact
  BY Zenon DEF NumbersInv
<1> QED BY <1>1, <1>2, <1>3, PTL DEF Spec

-----------------------------------------------------------------------------
(* Calls and counts *)

\* The requests that have been counted as a call of m, or proxied in its name,
\* and may yet be logged.
Counted(m) == {h \in Handlers : pc[h] \in {"patch", "answer", "log"} /\ req[h].matched = m}

\* Until the first reset: what is logged, and what may yet be, is counted or
\* proxied; and so is what a reader has seen in the log.
LogWithinCount ==
    epoch = 0 =>
        /\ \A m \in Mocks : logged[m] + Cardinality(Counted(m)) <= callCounts[m] + proxied[m]
        /\ \A r \in APIReaders :
             view[r].at = "counting" => view[r].calls <= callCounts[view[r].mock] + view[r].proxied

\* A request that is still to be matched has no mock.
Unmatched == \A h \in Handlers : pc[h] \in {"match", "record"} => req[h].matched = NoMock

\* The inductive invariant behind CallsNeverExceedCount.
CountInv == TypeOK /\ Unmatched /\ LogWithinCount /\ CallsNeverExceedCount

\* The sets of counted requests are finite.
LEMMA CountedFinite ==
    ASSUME NEW m
    PROVE  IsFiniteSet(Counted(m)) /\ Cardinality(Counted(m)) \in Nat
<1>1. Counted(m) \subseteq Handlers /\ IsFiniteSet(Handlers)
  BY HTTPServerAssumption, Zenon DEF Counted
<1> QED BY <1>1, FS_Subset, FS_CardinalityType, Zenon

\* Initially nothing is logged or counted.
LEMMA InitCount ==
    ASSUME Init
    PROVE  CountInv
<1>1. TypeOK
  BY InitType, Zenon
<1>2. ASSUME NEW m \in Mocks PROVE logged[m] + Cardinality(Counted(m)) <= callCounts[m] + proxied[m]
  <2>1. Counted(m) = {}
    BY Zenon DEF Init, Counted
  <2>2. logged[m] = 0 /\ callCounts[m] = 0 /\ proxied[m] = 0
    BY Zenon DEF Init, ZeroCounts
  <2>3. Cardinality(Counted(m)) = 0 BY <2>1, FS_EmptySet, Zenon
  <2> QED BY <2>2, <2>3
<1> QED BY <1>1, <1>2, Zenon DEF CountInv, Unmatched, LogWithinCount,
     CallsNeverExceedCount, Init, NoView, Idle

\* A handler step moves one request in or out of Counted, and keeps the sum.
LEMMA HandlerCount ==
    ASSUME CountInv, NEW h \in Handlers, handleRequest(h), epoch = 0, NEW m \in Mocks
    PROVE  /\ logged'[m] + Cardinality(Counted(m)') <= callCounts'[m] + proxied'[m]
           /\ callCounts[m] <= callCounts'[m]
<1>1. TypeOK /\ TypeOK' /\ logged[m] + Cardinality(Counted(m)) <= callCounts[m] + proxied[m]
  BY HandlerType, Zenon DEF CountInv, LogWithinCount
<1>2. /\ logged[m] \in Nat /\ callCounts[m] \in Nat /\ logged'[m] \in Nat
      /\ callCounts'[m] \in Nat /\ proxied[m] \in Nat /\ proxied \in [Mocks -> Nat]
      /\ pc \in [Handlers -> PCs] /\ req \in [Handlers -> Requests]
      /\ logged \in [Mocks \cup {NoMock} -> Nat] /\ callCounts \in [Mocks -> Nat]
      /\ m # NoMock
  BY <1>1, HTTPServerAssumption, Zenon DEF TypeOK, PCs
<1>3. Cardinality(Counted(m)) \in Nat /\ IsFiniteSet(Counted(m))
  BY CountedFinite, Zenon
<1>4. CASE /\ Counted(m)' \subseteq Counted(m)
           /\ logged'[m] = logged[m] /\ callCounts'[m] = callCounts[m]
           /\ proxied'[m] = proxied[m]
  <2>1. Cardinality(Counted(m)') <= Cardinality(Counted(m)) /\ Cardinality(Counted(m)') \in Nat
    BY <1>3, <1>4, FS_Subset, FS_CardinalityType, Zenon
  <2> QED BY <1>1, <1>2, <1>3, <1>4, <2>1
<1>5. ASSUME NEW k \in Mocks, NEW t \in Tokens, ReadFault(h, k, t)
      PROVE  Counted(m)' \subseteq Counted(m) /\ UNCHANGED <<logged, callCounts, proxied>>
  <2>1. PICK f : req' = [req EXCEPT ![h] = [Idle EXCEPT !.id = started + 1, !.mock = k,
                                                 !.token = t, !.fault = f]]
    BY <1>5, Zenon DEF ReadFault
  <2> DEFINE q == [Idle EXCEPT !.id = started + 1, !.mock = k, !.token = t, !.fault = f]
  <2>2. q.matched = NoMock
    BY Zenon DEF Idle
  <2>3. req' = [req EXCEPT ![h] = q]
    BY <2>1, Zenon
  <2> HIDE DEF q
  <2>4. req'[h].matched # m /\ \A g \in Handlers \ {h} : req'[g] = req[g] /\ pc'[g] = pc[g]
    BY <1>2, <1>5, <2>2, <2>3, Zenon DEF ReadFault
  <2> QED BY <1>5, <2>4, Zenon DEF ReadFault, Counted, server, history
<1>6. CASE Match(h)
  <2>1. /\ pc'[h] \in {"idle", "count", "record"} \/ req'[h].matched = NoMock
        /\ \A g \in Handlers \ {h} : req'[g] = req[g] /\ pc'[g] = pc[g]
    <3>1. [req[h] EXCEPT !.resp = NotFound].matched = req[h].matched
      BY <1>2, Zenon DEF Requests
    <3>2. pc[h] = "match" /\ req[h].matched = NoMock
      BY <1>6, Zenon DEF Match, CountInv, Unmatched
    <3> QED BY <1>2, <1>6, <3>1, <3>2, Zenon DEF Match
  <2>2. Counted(m)' \subseteq Counted(m)
    BY <1>2, <2>1, Zenon DEF Counted
  <2> QED BY <1>4, <1>6, <2>2, Zenon DEF Match, server, history
<1>11. CASE Record(h)
  <2> DEFINE k == RecordedAs[req[h].mock]
             q == [req[h] EXCEPT !.matched = k, !.resp = ProxiedResponse]
  <2>1. /\ k \in Mocks /\ logged' = logged /\ callCounts' = callCounts
        /\ proxied' = [proxied EXCEPT ![k] = @ + 1]
        /\ pc[h] = "record" /\ pc' = [pc EXCEPT ![h] = "log"]
        /\ req' = [req EXCEPT ![h] = q]
    BY <1>1, <1>2, <1>11, HTTPServerAssumption, Zenon DEF Record, TypeOK
  <2>2. q.matched = k
    BY <1>2, Zenon DEF Requests
  <2> HIDE DEF q, k
  <2>3. CASE k = m
    <3>1. Counted(m)' = Counted(m) \cup {h} /\ h \notin Counted(m)
      BY <1>2, <2>1, <2>2, <2>3, Zenon DEF Counted
    <3>2. Cardinality(Counted(m)') = Cardinality(Counted(m)) + 1
      BY <1>3, <3>1, FS_AddElement, Zenon
    <3>3. logged'[m] = logged[m] /\ callCounts'[m] = callCounts[m] /\ proxied'[m] = proxied[m] + 1
      BY <1>2, <2>1, <2>3, Zenon
    <3> QED BY <1>1, <1>2, <1>3, <3>2, <3>3
  <2>4. CASE k # m
    <3>1. Counted(m)' = Counted(m)
      BY <1>2, <2>1, <2>2, <2>4, Zenon DEF Counted
    <3>2. proxied'[m] = proxied[m]
      BY <1>2, <2>1, <2>4, Zenon
    <3> QED BY <1>4, <2>1, <3>1, <3>2, Zenon
  <2> QED BY <2>3, <2>4, Zenon
<1>7. CASE Count(h)
  <2> DEFINE k == req[h].matched
             r == SequenceResponse(k, callCounts[k] + 1)
  <2>1. /\ k \in Mocks
        /\ logged' = logged /\ proxied' = proxied
        /\ callCounts' = [callCounts EXCEPT ![k] = callCounts[k] + 1]
        /\ pc[h] = "count" /\ pc' = [pc EXCEPT ![h] = "patch"]
        /\ req' = [req EXCEPT ![h] = [req[h] EXCEPT !.resp = r]]
    BY <1>1, <1>2, <1>7, Zenon DEF Count, TypeOK
  <2>2. [req[h] EXCEPT !.resp = r].matched = k
    <3>1. r \in Int
      BY <1>2, <2>1, ResponseType
    <3> QED BY <1>2, <3>1, RequestUpdates, Zenon
  <2> HIDE DEF r
  <2>3. \A g \in Handlers : req'[g].matched = req[g].matched
    BY <1>2, <2>1, <2>2, Zenon
  <2>4. CASE k = m
    <3>1. Counted(m)' = Counted(m) \cup {h} /\ h \notin Counted(m)
      BY <1>2, <2>1, <2>3, <2>4, Zenon DEF Counted
    <3>2. Cardinality(Counted(m)') = Cardinality(Counted(m)) + 1
      BY <1>3, <3>1, FS_AddElement, Zenon
    <3> QED BY <1>1, <1>2, <1>3, <2>1, <2>4, <3>2
  <2>5. CASE k # m
    <3>1. Counted(m)' = Counted(m)
      BY <1>2, <2>1, <2>3, <2>5, Zenon DEF Counted
    <3> QED BY <1>2, <1>4, <2>1, <2>5, <3>1, Zenon
  <2> QED BY <2>4, <2>5, Zenon
<1>8. CASE ReadPatch(h)
  <2>1. PICK p \in PatchesUnder(active, req[h].matched) :
         req' = [req EXCEPT ![h] =
           CASE p = "none"     -> @
             [] p = "patch"    -> [@ EXCEPT !.patch = p, !.resp = PatchedResponse]
             [] p = "disabled" -> [@ EXCEPT !.patch = p, !.resp = NotFound,
                                            !.matched = NoMock]]
    BY <1>8, Zenon DEF ReadPatch
  <2>2. p \in PatchKinds /\ pc[h] = "patch"
    BY <1>1, <1>8, <2>1, ScenarioReads, Zenon DEF TypeOK, ReadPatch
  <2>3. /\ [req[h] EXCEPT !.patch = p, !.resp = PatchedResponse].matched = req[h].matched
        /\ [req[h] EXCEPT !.patch = p, !.resp = NotFound, !.matched = NoMock].matched = NoMock
    BY <1>2, Zenon DEF Requests
  <2>4. req'[h].matched \in {req[h].matched, NoMock}
    BY <1>2, <2>1, <2>2, <2>3, Zenon DEF PatchKinds
  <2>5. \A g \in Handlers \ {h} : req'[g] = req[g] /\ pc'[g] = pc[g]
    BY <1>2, <1>8, <2>1, Zenon DEF ReadPatch
  <2>6. Counted(m)' \subseteq Counted(m)
    BY <1>2, <2>2, <2>4, <2>5, Zenon DEF Counted
  <2> QED BY <1>4, <1>8, <2>6, Zenon DEF ReadPatch, server, history
<1>9. CASE Answer(h)
  <2>1. [req[h] EXCEPT !.resp = FaultResponse].matched = req[h].matched
    BY <1>2, Zenon DEF Requests
  <2>2. /\ pc[h] = "answer" /\ (pc'[h] = "idle" \/ req'[h].matched = req[h].matched)
        /\ \A g \in Handlers \ {h} : req'[g] = req[g] /\ pc'[g] = pc[g]
    BY <1>2, <1>9, <2>1, Zenon DEF Answer
  <2>3. Counted(m)' \subseteq Counted(m)
    BY <1>2, <2>2, Zenon DEF Counted
  <2> QED BY <1>4, <1>9, <2>3, Zenon DEF Answer, server, history
<1>10. CASE Log(h)
  <2>1. /\ pc[h] = "log" /\ pc' = [pc EXCEPT ![h] = "idle"]
        /\ logged' = [logged EXCEPT ![req[h].matched] = @ + 1]
        /\ req' = [req EXCEPT ![h] = Idle]
        /\ callCounts' = callCounts /\ proxied' = proxied
    BY <1>10, Zenon DEF Log, server, history
  <2>2. Counted(m)' = Counted(m) \ {h}
    BY <1>2, <2>1, Zenon DEF Counted
  <2>3. CASE req[h].matched = m
    <3>1. h \in Counted(m)
      BY <2>1, <2>3, Zenon DEF Counted
    <3>2. Cardinality(Counted(m)') = Cardinality(Counted(m)) - 1
      BY <1>3, <2>2, <3>1, FS_RemoveElement, Zenon
    <3>3. logged'[m] = logged[m] + 1 /\ callCounts'[m] = callCounts[m] /\ proxied'[m] = proxied[m]
      BY <1>2, <2>1, <2>3, Zenon
    <3>4. /\ logged[m] \in Nat /\ callCounts[m] \in Nat /\ Cardinality(Counted(m)) \in Nat
          /\ proxied[m] \in Nat
          /\ logged[m] + Cardinality(Counted(m)) <= callCounts[m] + proxied[m]
      BY <1>1, <1>2, <1>3, Zenon
    <3> QED BY <3>2, <3>3, <3>4
  <2>4. CASE req[h].matched # m
    BY <1>2, <1>4, <2>1, <2>2, <2>4, Zenon
  <2> QED BY <2>3, <2>4, Zenon
<1> QED BY <1>4, <1>5, <1>6, <1>7, <1>8, <1>9, <1>10, <1>11, Zenon DEF handleRequest

\* A request that is still to be matched has no mock, after any step.
LEMMA UnmatchedStep ==
    ASSUME TypeOK, Unmatched, [Next]_vars
    PROVE  Unmatched'
<1>1. pc \in [Handlers -> PCs] /\ req \in [Handlers -> Requests]
  BY Zenon DEF TypeOK, PCs
<1>2. ASSUME NEW h \in Handlers, handleRequest(h) PROVE Unmatched'
  <2>1. \A g \in Handlers \ {h} : req'[g] = req[g] /\ pc'[g] = pc[g]
    BY <1>1, <1>2, Zenon DEF handleRequest, ReadFault, Match, Record, Count, ReadPatch, Answer, Log
  <2>2. pc'[h] \in {"match", "record"} => req'[h].matched = NoMock
    <3>1. ASSUME NEW m \in Mocks, NEW t \in Tokens, ReadFault(h, m, t)
          PROVE  req'[h].matched = NoMock
      BY <1>1, <3>1, Zenon DEF ReadFault, Idle
    <3>2. CASE Record(h) \/ Count(h) \/ ReadPatch(h) \/ Answer(h) \/ Log(h)
      BY <1>1, <3>2, Zenon DEF Record, Count, ReadPatch, Answer, Log
    <3>3. CASE Match(h)
      BY <1>1, <3>3, Zenon DEF Match, Unmatched
    <3> QED BY <1>2, <3>1, <3>2, <3>3, Zenon DEF handleRequest
  <2> QED BY <2>1, <2>2, Zenon DEF Unmatched
<1>3. CASE API
  BY <1>3, Zenon DEF API, changeMocks, activateScenario, deactivateScenario,
     setProtocolFault, clearLogs, clearCalls, clearCallsCounts, reset, resetFaults,
     resetActiveIDs, resetDeactivate, resetMocks, getHTTPCalls, getHTTPCallsCount,
     Unmatched
<1>4. CASE UNCHANGED vars
  BY <1>4, Zenon DEF vars, Unmatched
<1> QED BY <1>2, <1>3, <1>4, Zenon DEF Next

\* An API step that does not reset the counters can only shrink the log.
LEMMA APILog ==
    ASSUME TypeOK, API, epoch' = 0
    PROVE  /\ UNCHANGED <<callCounts, pc, req, epoch, proxied>>
           /\ \A m \in Mocks : logged'[m] <= logged[m]
<1>1. epoch \in Nat /\ logged \in [Mocks \cup {NoMock} -> Nat]
  BY Zenon DEF TypeOK
<1>2. UNCHANGED <<callCounts, pc, req, epoch, proxied>>
  <2>1. epoch' # epoch + 1
    BY <1>1
  <2> QED BY <2>1, Zenon DEF API, changeMocks, SetMocks, activateScenario, deactivateScenario,
     setProtocolFault, clearLogs, clearCalls, clearCallsCounts, ResetCallCounts, reset,
     resetFaults, resetActiveIDs, resetDeactivate, resetMocks, getHTTPCalls,
     getHTTPCallsCount, server, history
<1>3. ASSUME NEW S, clearCalls(S) PROVE \A m \in Mocks : logged'[m] <= logged[m]
  BY <1>1, <1>3 DEF clearCalls
<1>4. ASSUME clearLogs \/ reset PROVE \A m \in Mocks : logged'[m] <= logged[m]
  BY <1>1, <1>4 DEF clearLogs, reset
<1>5. ASSUME logged' = logged PROVE \A m \in Mocks : logged'[m] <= logged[m]
  BY <1>1, <1>5
<1>6. \/ logged' = logged
      \/ clearLogs
      \/ \E S : clearCalls(S)
      \/ reset
  BY Zenon DEF API, changeMocks, SetMocks, activateScenario, deactivateScenario,
     setProtocolFault, clearCallsCounts, resetFaults, resetActiveIDs,
     resetDeactivate, resetMocks, getHTTPCalls, getHTTPCallsCount
<1> QED BY <1>2, <1>3, <1>4, <1>5, <1>6, Zenon

\* What a step may do to a reader.
LEMMA ViewStep ==
    ASSUME TypeOK, [Next]_vars, NEW r \in APIReaders
    PROVE  \/ view'[r] = view[r]
           \/ /\ view'[r].at = "counting" /\ view'[r].mock \in Mocks
              /\ view'[r].calls = logged[view'[r].mock]
              /\ view'[r].proxied = proxied[view'[r].mock]
              /\ UNCHANGED callCounts
           \/ /\ view[r].at = "counting" /\ view'[r].at = "done"
              /\ view'[r].calls = view[r].calls /\ view'[r].proxied = view[r].proxied
              /\ view'[r].count = callCounts[view[r].mock]
<1>1. view \in [APIReaders -> [mock : Mocks \cup {NoMock}, calls : Nat,
                              proxied : Nat, count : Nat,
                              at : {"idle", "counting", "done"}]]
  BY Zenon DEF TypeOK
<1>2. ASSUME NEW q \in APIReaders, NEW m \in Mocks, getHTTPCalls(q, m)
      PROVE  \/ view'[r] = view[r]
             \/ /\ view'[r].at = "counting" /\ view'[r].mock \in Mocks
                /\ view'[r].calls = logged[view'[r].mock]
                /\ view'[r].proxied = proxied[view'[r].mock]
                /\ UNCHANGED callCounts
  BY <1>1, <1>2, Zenon DEF getHTTPCalls, server
<1>3. ASSUME NEW q \in APIReaders, getHTTPCallsCount(q)
      PROVE  \/ view'[r] = view[r]
             \/ /\ view[r].at = "counting" /\ view'[r].at = "done"
                /\ view'[r].calls = view[r].calls /\ view'[r].proxied = view[r].proxied
                /\ view'[r].count = callCounts[view[r].mock]
  BY <1>1, <1>3, Zenon DEF getHTTPCallsCount
<1>4. \/ view' = view
      \/ \E q \in APIReaders, m \in Mocks : getHTTPCalls(q, m)
      \/ \E q \in APIReaders : getHTTPCallsCount(q)
  BY Zenon DEF Next, API, changeMocks, SetMocks, activateScenario, deactivateScenario,
     setProtocolFault, clearLogs, clearCalls, clearCallsCounts, reset, resetFaults,
     resetActiveIDs, resetDeactivate, resetMocks, handleRequest, ReadFault, Match, Record,
     Count, ReadPatch, Answer, Log, api, vars
<1> QED BY <1>2, <1>3, <1>4, Zenon

\* Every step keeps the log, and what readers saw of it, within the counters.
LEMMA CountStep ==
    ASSUME CountInv, [Next]_vars
    PROVE  CountInv'
<1>1. TypeOK /\ TypeOK' /\ Unmatched'
  <2>1. CASE UNCHANGED vars
    BY <2>1, UnmatchedStep, Zenon DEF CountInv, TypeOK, vars
  <2> QED BY <2>1, HandlerType, APIType, UnmatchedStep, Zenon DEF Next, CountInv
<1>2. CASE epoch' # 0
  BY <1>1, <1>2, Zenon DEF CountInv, LogWithinCount, CallsNeverExceedCount
<1>3. CASE epoch' = 0
  <2>1. epoch = 0
    <3>1. ASSUME NEW h \in Handlers, handleRequest(h) PROVE epoch' = epoch
      BY <3>1, Zenon DEF handleRequest, ReadFault, Match, Record, Count, ReadPatch, Answer, Log, server
    <3> QED BY <1>1, <1>3, <3>1, APILog, Zenon DEF Next, vars
  <2>2. ASSUME NEW m \in Mocks
        PROVE  /\ logged'[m] + Cardinality(Counted(m)') <= callCounts'[m] + proxied'[m]
               /\ callCounts[m] <= callCounts'[m]
    <3>1. ASSUME NEW h \in Handlers, handleRequest(h)
          PROVE  /\ logged'[m] + Cardinality(Counted(m)') <= callCounts'[m] + proxied'[m]
                 /\ callCounts[m] <= callCounts'[m]
      BY <2>1, <3>1, HandlerCount, Zenon
    <3>2. ASSUME UNCHANGED <<callCounts, pc, req, proxied>>, logged'[m] <= logged[m]
          PROVE  /\ logged'[m] + Cardinality(Counted(m)') <= callCounts'[m] + proxied'[m]
                 /\ callCounts[m] <= callCounts'[m]
      <4>1. Counted(m)' = Counted(m)
        BY <3>2, Zenon DEF Counted
      <4>2. /\ logged[m] \in Nat /\ logged'[m] \in Nat /\ callCounts[m] \in Nat
            /\ Cardinality(Counted(m)) \in Nat /\ proxied[m] \in Nat
        BY <1>1, CountedFinite, Zenon DEF TypeOK
      <4>3. /\ logged[m] + Cardinality(Counted(m)) <= callCounts[m] + proxied[m]
            /\ callCounts'[m] = callCounts[m] /\ proxied'[m] = proxied[m]
        BY <2>1, <3>2, Zenon DEF CountInv, LogWithinCount
      <4>4. Cardinality(Counted(m)') = Cardinality(Counted(m))
        BY <4>1, Zenon
      <4> QED BY <3>2, <4>2, <4>3, <4>4
    <3>3. ASSUME API PROVE UNCHANGED <<callCounts, pc, req, proxied>> /\ logged'[m] <= logged[m]
      BY <1>1, <1>3, <3>3, APILog, Zenon
    <3>4. ASSUME UNCHANGED vars
          PROVE  UNCHANGED <<callCounts, pc, req, proxied>> /\ logged'[m] <= logged[m]
      <4>1. logged[m] \in Nat BY <1>1, Zenon DEF TypeOK
      <4> QED BY <3>4, <4>1 DEF vars
    <3> QED BY <3>1, <3>2, <3>3, <3>4, Zenon DEF Next
  <2>3. ASSUME NEW m \in Mocks PROVE logged[m] <= callCounts[m] + proxied[m]
    <3>1. /\ logged[m] \in Nat /\ callCounts[m] \in Nat /\ Cardinality(Counted(m)) \in Nat
          /\ proxied[m] \in Nat
      BY <1>1, CountedFinite, Zenon DEF TypeOK
    <3>2. logged[m] + Cardinality(Counted(m)) <= callCounts[m] + proxied[m]
      BY <2>1, Zenon DEF CountInv, LogWithinCount
    <3> QED BY <3>1, <3>2
  <2>4. ASSUME NEW r \in APIReaders
        PROVE  /\ view'[r].at = "counting" =>
                     view'[r].calls <= callCounts'[view'[r].mock] + view'[r].proxied
               /\ view'[r].at = "done" => view'[r].calls <= view'[r].count + view'[r].proxied
    <3>1. /\ view[r].at = "counting" =>
               /\ view[r].mock \in Mocks
               /\ view[r].calls <= callCounts[view[r].mock] + view[r].proxied
          /\ view[r].at = "done" => view[r].calls <= view[r].count + view[r].proxied
          /\ view[r].calls \in Nat /\ view[r].proxied \in Nat
      BY <1>1, <2>1, Zenon DEF CountInv, LogWithinCount, CallsNeverExceedCount, TypeOK
    <3>2. ASSUME view'[r] = view[r], view[r].at = "counting"
          PROVE  view[r].calls <= callCounts'[view[r].mock] + view[r].proxied
      <4>1. callCounts[view[r].mock] \in Nat /\ callCounts'[view[r].mock] \in Nat
        BY <1>1, <3>1, <3>2, Zenon DEF TypeOK
      <4>2. /\ callCounts[view[r].mock] <= callCounts'[view[r].mock]
            /\ view[r].calls <= callCounts[view[r].mock] + view[r].proxied
        BY <2>2, <3>1, <3>2, Zenon
      <4> QED BY <3>1, <4>1, <4>2
    <3>3. CASE view'[r] = view[r]
      BY <3>1, <3>2, <3>3, Zenon
    <3>4. CASE /\ view'[r].at = "counting" /\ view'[r].mock \in Mocks
               /\ view'[r].calls = logged[view'[r].mock] /\ UNCHANGED callCounts
               /\ view'[r].proxied = proxied[view'[r].mock]
      BY <2>3, <3>4, Zenon
    <3>5. CASE /\ view[r].at = "counting" /\ view'[r].at = "done"
               /\ view'[r].calls = view[r].calls /\ view'[r].proxied = view[r].proxied
               /\ view'[r].count = callCounts[view[r].mock]
      BY <3>1, <3>5, Zenon
    <3> QED BY <1>1, <3>3, <3>4, <3>5, ViewStep, Zenon
  <2> QED BY <1>1, <2>2, <2>4, Zenon DEF CountInv, LogWithinCount, CallsNeverExceedCount
<1> QED BY <1>2, <1>3, Zenon

\* THEOREM: until counters are first reset, getHTTPCalls never answers with
\* more calls than its count and the requests that the upstream answered in
\* record mode, for any number of readers and requests.
THEOREM CallsWithinCount == Spec => []CallsNeverExceedCount
<1>1. Init => CountInv
  BY InitCount, Zenon
<1>2. CountInv /\ [Next]_vars => CountInv'
  BY CountStep, Zenon
<1>3. CountInv => CallsNeverExceedCount
  BY Zenon DEF CountInv
<1> QED BY <1>1, <1>2, <1>3, PTL DEF Spec

-----------------------------------------------------------------------------
(* Counted calls and the log *)

\* Requests are numbered, and no two handlers serve the same one.
RequestIDs ==
    /\ \A x \in taken : x.id \in 1 .. started
    /\ \A h \in Handlers : pc[h] # "idle" => req[h].id \in 1 .. started
    /\ \A g, h \in Handlers :
         pc[g] # "idle" /\ pc[h] # "idle" /\ req[g].id = req[h].id => g = h

\* The calls that h's request was counted as.
CallsOf(h) == {x \in taken : x.id = req[h].id}

\* A request that was counted as x is past Count, and is still matched with
\* the mock it was counted for unless that is disabled.
KeepsMock(h, x) ==
    /\ pc[h] \in {"patch", "answer", "log"}
    /\ pc[h] = "patch" \/ req[h].patch # "disabled" => req[h].matched = x.mock

CountedKeepMock ==
    \A h \in Handlers : pc[h] # "idle" => \A x \in CallsOf(h) : KeepsMock(h, x)

\* The inductive invariant behind CountedCallsAreLogged.
CallInv == TypeOK /\ RequestIDs /\ CountedKeepMock

\* Updating one field of a request keeps the others.
LEMMA RequestFields ==
    ASSUME NEW q \in Requests, NEW r, NEW m, NEW p
    PROVE  /\ [q EXCEPT !.resp = r].id = q.id
           /\ [q EXCEPT !.resp = r].mock = q.mock
           /\ [q EXCEPT !.resp = r].matched = q.matched
           /\ [q EXCEPT !.resp = r].patch = q.patch
           /\ [q EXCEPT !.matched = m].id = q.id
           /\ [q EXCEPT !.matched = m].mock = q.mock
           /\ [q EXCEPT !.matched = m].matched = m
           /\ [q EXCEPT !.patch = p, !.resp = r].id = q.id
           /\ [q EXCEPT !.patch = p, !.resp = r].mock = q.mock
           /\ [q EXCEPT !.patch = p, !.resp = r].matched = q.matched
           /\ [q EXCEPT !.patch = p, !.resp = r, !.matched = m].id = q.id
           /\ [q EXCEPT !.patch = p, !.resp = r, !.matched = m].mock = q.mock
           /\ [q EXCEPT !.patch = p, !.resp = r, !.matched = m].patch = p
BY Zenon DEF Requests

\* What a handler may do to its request: it takes a new one, ...
Arrives(h) ==
    /\ pc[h] = "idle" /\ pc'[h] \in {"match", "log"}
    /\ started' = started + 1 /\ taken' = taken
    /\ req'[h].id = started + 1

\* ... counts it, ...
Counts(h) ==
    /\ pc[h] = "count" /\ pc'[h] = "patch"
    /\ started' = started
    /\ \E x : taken' = taken \cup {x} /\ x.id = req[h].id /\ x.mock = req[h].matched
    /\ req'[h].id = req[h].id /\ req'[h].matched = req[h].matched

\* ... goes on with it, ...
GoesOn(h) ==
    /\ \/ pc[h] = "match" /\ pc'[h] \in {"count", "record", "answer"}
       \/ pc[h] = "record" /\ pc'[h] = "log"
       \/ /\ pc[h] = "patch" /\ pc'[h] = "answer"
          /\ req'[h].patch = "disabled" \/ req'[h].matched = req[h].matched
       \/ /\ pc[h] = "answer" /\ pc'[h] = "log"
          /\ req'[h].matched = req[h].matched /\ req'[h].patch = req[h].patch
    /\ started' = started /\ taken' = taken
    /\ req'[h].id = req[h].id

\* ... or ends it.
Ends(h) ==
    /\ pc[h] # "idle" /\ pc'[h] = "idle"
    /\ started' = started /\ taken' = taken
    /\ \/ pc[h] = "match"
       \/ pc[h] = "answer" /\ req[h].fault \in {"abort", "truncate"}
       \/ pc[h] = "log" /\ logged' = [logged EXCEPT ![req[h].matched] = @ + 1]

\* Each step of handleRequest is one of the four, and leaves the requests of
\* the other handlers alone.
LEMMA HandlerEffect ==
    ASSUME TypeOK, NEW h \in Handlers, handleRequest(h)
    PROVE  /\ \A g \in Handlers \ {h} : req'[g] = req[g] /\ pc'[g] = pc[g]
           /\ Arrives(h) \/ Counts(h) \/ GoesOn(h) \/ Ends(h)
<1>1. pc \in [Handlers -> PCs] /\ req \in [Handlers -> Requests] /\ req[h] \in Requests
  BY Zenon DEF TypeOK, PCs
<1>2. \A g \in Handlers \ {h} : req'[g] = req[g] /\ pc'[g] = pc[g]
  BY <1>1, Zenon DEF handleRequest, ReadFault, Match, Record, Count, ReadPatch, Answer, Log
<1>3. ASSUME NEW m \in Mocks, NEW t \in Tokens, ReadFault(h, m, t) PROVE Arrives(h)
  <2>1. req'[h].id = started + 1
    BY <1>1, <1>3, Zenon DEF ReadFault, Idle
  <2> QED BY <1>1, <1>3, <2>1, Zenon DEF ReadFault, Arrives, history
<1>4. CASE Match(h)
  <2>0. pc[h] = "match" /\ started' = started /\ taken' = taken
    BY <1>4, Zenon DEF Match, history
  <2>1. CASE pc'[h] = "idle"
    BY <1>2, <2>0, <2>1, Zenon DEF Ends
  <2>2. CASE pc'[h] # "idle"
    <3>1. \/ req'[h] = req[h]
          \/ req'[h] = [req[h] EXCEPT !.resp = NotFound]
          \/ \E k : req'[h] = [req[h] EXCEPT !.matched = k]
      BY <1>1, <1>4, <2>2, Zenon DEF Match
    <3>2. req'[h].id = req[h].id
      <4>1. CASE req'[h] = req[h]
        BY <4>1, Zenon
      <4>2. CASE req'[h] = [req[h] EXCEPT !.resp = NotFound]
        BY <1>1, <4>2, RequestFields
      <4>3. ASSUME NEW k, req'[h] = [req[h] EXCEPT !.matched = k] PROVE req'[h].id = req[h].id
        BY <1>1, <4>3, RequestFields
      <4> QED BY <3>1, <4>1, <4>2, <4>3, Zenon
    <3>3. pc'[h] \in {"count", "record", "answer"}
      BY <1>1, <1>4, <2>2, Zenon DEF Match
    <3> QED BY <1>2, <2>0, <3>2, <3>3, Zenon DEF GoesOn
  <2> QED BY <2>1, <2>2, Zenon
<1>9. CASE Record(h)
  <2>1. PICK k : req'[h] = [req[h] EXCEPT !.matched = k, !.resp = ProxiedResponse]
    BY <1>1, <1>9, Zenon DEF Record
  <2>2. [req[h] EXCEPT !.matched = k, !.resp = ProxiedResponse].id = req[h].id
    BY <1>1, Zenon DEF Requests
  <2> QED BY <1>1, <1>9, <2>1, <2>2, Zenon DEF Record, GoesOn
<1>5. CASE Count(h)
  <2>1. \E r : req'[h] = [req[h] EXCEPT !.resp = r]
    BY <1>1, <1>5, Zenon DEF Count
  <2>2. req'[h].id = req[h].id /\ req'[h].matched = req[h].matched
    BY <1>1, <2>1, RequestFields
  <2>3. \E x : taken' = taken \cup {x} /\ x.id = req[h].id /\ x.mock = req[h].matched
    <3> DEFINE x == [id |-> req[h].id, mock |-> req[h].matched, epoch |-> epoch,
                     n |-> callCounts[req[h].matched] + 1]
    <3>1. taken' = taken \cup {x}
      BY <1>5, Zenon DEF Count
    <3>2. x.id = req[h].id /\ x.mock = req[h].matched
      BY Zenon
    <3> HIDE DEF x
    <3> QED BY <3>1, <3>2, Zenon
  <2> QED BY <1>1, <1>5, <2>2, <2>3, Zenon DEF Count, Counts
<1>6. CASE ReadPatch(h)
  <2>1. req[h].matched \in Mocks
    BY <1>6, Zenon DEF ReadPatch, TypeOK
  <2>2. PICK p \in PatchesUnder(active, req[h].matched) :
         req' = [req EXCEPT ![h] =
           CASE p = "none"     -> @
             [] p = "patch"    -> [@ EXCEPT !.patch = p, !.resp = PatchedResponse]
             [] p = "disabled" -> [@ EXCEPT !.patch = p, !.resp = NotFound,
                                            !.matched = NoMock]]
    BY <1>6, Zenon DEF ReadPatch
  <2>3. p \in PatchKinds
    BY <2>1, <2>2, ScenarioReads, Zenon DEF TypeOK
  <2>4. \/ req'[h] = req[h]
        \/ req'[h] = [req[h] EXCEPT !.patch = p, !.resp = PatchedResponse]
        \/ /\ p = "disabled"
           /\ req'[h] = [req[h] EXCEPT !.patch = p, !.resp = NotFound, !.matched = NoMock]
    BY <1>1, <2>2, <2>3, Zenon DEF PatchKinds
  <2>5. /\ req'[h].id = req[h].id
        /\ req'[h].patch = "disabled" \/ req'[h].matched = req[h].matched
    <3>1. CASE req'[h] = req[h]
      BY <3>1, Zenon
    <3>2. CASE req'[h] = [req[h] EXCEPT !.patch = p, !.resp = PatchedResponse]
      BY <1>1, <3>2, RequestFields
    <3>3. CASE /\ p = "disabled"
               /\ req'[h] = [req[h] EXCEPT !.patch = p, !.resp = NotFound, !.matched = NoMock]
      BY <1>1, <3>3, RequestFields
    <3> QED BY <2>4, <3>1, <3>2, <3>3, Zenon
  <2> QED BY <1>1, <1>6, <2>5, Zenon DEF ReadPatch, GoesOn, history
<1>7. CASE Answer(h)
  <2>1. CASE pc'[h] = "idle"
    BY <1>1, <1>7, <2>1, Zenon DEF Answer, Ends, history
  <2>2. CASE pc'[h] # "idle"
    <3>1. req'[h] = req[h] \/ req'[h] = [req[h] EXCEPT !.resp = FaultResponse]
      BY <1>1, <1>7, <2>2, Zenon DEF Answer
    <3>2. /\ req'[h].id = req[h].id
          /\ req'[h].matched = req[h].matched /\ req'[h].patch = req[h].patch
      <4>1. CASE req'[h] = req[h]
        BY <4>1, Zenon
      <4>2. CASE req'[h] = [req[h] EXCEPT !.resp = FaultResponse]
        BY <1>1, <4>2, RequestFields
      <4> QED BY <3>1, <4>1, <4>2, Zenon
    <3> QED BY <1>1, <1>7, <2>2, <3>2, Zenon DEF Answer, GoesOn, history
  <2> QED BY <2>1, <2>2, Zenon
<1>8. CASE Log(h)
  BY <1>1, <1>8, Zenon DEF Log, Ends, history
<1> QED BY <1>2, <1>3, <1>4, <1>5, <1>6, <1>7, <1>8, <1>9, Zenon DEF handleRequest

\* Each of the four keeps the invariant.
LEMMA CallStep ==
    ASSUME CallInv, NEW h \in Handlers, handleRequest(h)
    PROVE  CallInv'
<1>1. TypeOK /\ TypeOK' /\ RequestIDs /\ CountedKeepMock
  BY HandlerType, Zenon DEF CallInv
<1>2. /\ \A g \in Handlers \ {h} : req'[g] = req[g] /\ pc'[g] = pc[g]
      /\ Arrives(h) \/ Counts(h) \/ GoesOn(h) \/ Ends(h)
  BY <1>1, HandlerEffect, Zenon
<1>3. started \in Nat /\ \A g \in Handlers : req[g].id \in Nat
  BY <1>1, RequestUpdates, Zenon DEF TypeOK
<1>8. ASSUME NEW g \in Handlers, g # h, pc'[g] # "idle", NEW x \in CallsOf(g)
      PROVE  KeepsMock(g, x)'
  <2>1. req'[g] = req[g] /\ pc'[g] = pc[g]
    BY <1>2, <1>8, Zenon
  <2>2. KeepsMock(g, x)
    BY <1>1, <1>8, <2>1, Zenon DEF CountedKeepMock
  <2> QED BY <2>1, <2>2, Zenon DEF KeepsMock
<1>4. CASE Arrives(h)
  <2>1. RequestIDs'
    BY <1>1, <1>2, <1>3, <1>4 DEF Arrives, RequestIDs
  <2>2. CountedKeepMock'
    <3>1. CallsOf(h)' = {}
      BY <1>1, <1>2, <1>3, <1>4 DEF Arrives, RequestIDs, CallsOf
    <3>2. ASSUME NEW g \in Handlers, g # h PROVE CallsOf(g)' = CallsOf(g)
      BY <1>2, <1>4, <3>2, Zenon DEF Arrives, CallsOf
    <3>3. ASSUME NEW g \in Handlers, pc'[g] # "idle", NEW y \in CallsOf(g)' PROVE KeepsMock(g, y)'
      <4>1. g # h
        BY <3>1, <3>3, Zenon
      <4>2. y \in CallsOf(g)
        BY <3>2, <3>3, <4>1, Zenon
      <4> QED BY <1>8, <3>3, <4>1, <4>2, Zenon
    <3> QED BY <3>3, Zenon DEF CountedKeepMock
  <2> QED BY <1>1, <2>1, <2>2, Zenon DEF CallInv
<1>0. ASSUME started' = started,
             \A g \in Handlers : pc'[g] # "idle" => pc[g] # "idle" /\ req'[g].id = req[g].id,
             \A x \in taken' : x \in taken \/ (pc[h] # "idle" /\ x.id = req[h].id)
      PROVE  RequestIDs'
  <2>1. \A x \in taken' : x.id \in 1 .. started'
    BY <1>0, <1>1, Zenon DEF RequestIDs
  <2>2. \A g \in Handlers : pc'[g] # "idle" => req'[g].id \in 1 .. started'
    BY <1>0, <1>1, Zenon DEF RequestIDs
  <2>3. \A f, g \in Handlers :
          pc'[f] # "idle" /\ pc'[g] # "idle" /\ req'[f].id = req'[g].id => f = g
    BY <1>0, <1>1, Zenon DEF RequestIDs
  <2> QED BY <2>1, <2>2, <2>3, Zenon DEF RequestIDs
<1>5. CASE Counts(h)
  <2>0. PICK x : taken' = taken \cup {x} /\ x.id = req[h].id /\ x.mock = req[h].matched
    BY <1>5, Zenon DEF Counts
  <2>1. RequestIDs'
    BY <1>0, <1>2, <1>5, <2>0, Zenon DEF Counts
  <2>2. ASSUME NEW g \in Handlers, g # h, pc[g] # "idle" PROVE CallsOf(g)' = CallsOf(g)
    <3>1. req'[g].id = req[g].id /\ req[g].id # req[h].id
      BY <1>1, <1>2, <1>5, <2>2, Zenon DEF Counts, RequestIDs
    <3> QED BY <2>0, <3>1, Zenon DEF CallsOf
  <2>3. CallsOf(h)' = {x}
    <3>1. pc[h] = "count" /\ req'[h].id = req[h].id
      BY <1>5, Zenon DEF Counts
    <3>2. CallsOf(h) = {}
      BY <1>1, <3>1, Zenon DEF CountedKeepMock, KeepsMock
    <3> QED BY <2>0, <3>1, <3>2, Zenon DEF CallsOf
  <2>4. ASSUME NEW g \in Handlers, pc'[g] # "idle", NEW y \in CallsOf(g)'
        PROVE  KeepsMock(g, y)'
    <3>1. CASE g = h
      <4>1. y = x /\ pc'[h] = "patch" /\ req'[h].matched = x.mock
        BY <1>5, <2>0, <2>3, <2>4, <3>1, Zenon DEF Counts
      <4> QED BY <3>1, <4>1, Zenon DEF KeepsMock
    <3>2. CASE g # h
      <4>1. pc[g] # "idle"
        BY <1>2, <2>4, <3>2, Zenon
      <4>2. y \in CallsOf(g)
        BY <2>2, <2>4, <3>2, <4>1, Zenon
      <4> QED BY <1>8, <2>4, <3>2, <4>2, Zenon
    <3> QED BY <3>1, <3>2, Zenon
  <2>5. CountedKeepMock'
    BY <2>4, Zenon DEF CountedKeepMock
  <2> QED BY <1>1, <2>1, <2>5, Zenon DEF CallInv
<1>6. CASE GoesOn(h)
  <2>1. RequestIDs'
    BY <1>0, <1>2, <1>6, Zenon DEF GoesOn
  <2>2. \A g \in Handlers : req'[g].id = req[g].id
    BY <1>2, <1>6, Zenon DEF GoesOn
  <2>3. \A g \in Handlers : CallsOf(g)' = CallsOf(g)
    BY <1>6, <2>2, Zenon DEF GoesOn, CallsOf
  <2>4. ASSUME NEW g \in Handlers, pc'[g] # "idle", NEW y \in CallsOf(g)
        PROVE  KeepsMock(g, y)'
    <3>1. CASE g = h
      <4>0. pc[h] # "idle"
        BY <1>6, Zenon DEF GoesOn
      <4>1. KeepsMock(h, y)
        BY <1>1, <2>4, <3>1, <4>0, Zenon DEF CountedKeepMock
      <4>2. CASE pc[h] = "patch"
        <5>1. /\ pc'[h] = "answer"
              /\ req'[h].patch = "disabled" \/ req'[h].matched = req[h].matched
          BY <1>6, <4>2, Zenon DEF GoesOn
        <5> QED BY <3>1, <4>1, <4>2, <5>1, Zenon DEF KeepsMock
      <4>3. CASE pc[h] = "answer"
        <5>1. /\ pc'[h] = "log"
              /\ req'[h].matched = req[h].matched /\ req'[h].patch = req[h].patch
          BY <1>6, <4>3, Zenon DEF GoesOn
        <5> QED BY <3>1, <4>1, <4>3, <5>1, Zenon DEF KeepsMock
      <4> QED BY <1>6, <4>1, <4>2, <4>3, Zenon DEF GoesOn, KeepsMock
    <3>2. CASE g # h
      BY <1>8, <2>4, <3>2, Zenon
    <3> QED BY <3>1, <3>2, Zenon
  <2>5. CountedKeepMock'
    BY <2>3, <2>4, Zenon DEF CountedKeepMock
  <2> QED BY <1>1, <2>1, <2>5, Zenon DEF CallInv
<1>7. CASE Ends(h)
  <2>1. RequestIDs'
    BY <1>0, <1>2, <1>7, Zenon DEF Ends
  <2>2. CountedKeepMock'
    <3>1. \A g \in Handlers \ {h} : CallsOf(g)' = CallsOf(g)
      BY <1>2, <1>7, Zenon DEF Ends, CallsOf
    <3>2. pc'[h] = "idle"
      BY <1>7, Zenon DEF Ends
    <3>3. ASSUME NEW g \in Handlers, pc'[g] # "idle", NEW y \in CallsOf(g)' PROVE KeepsMock(g, y)'
      BY <1>8, <3>1, <3>2, <3>3, Zenon
    <3> QED BY <3>3, Zenon DEF CountedKeepMock
  <2> QED BY <1>1, <2>1, <2>2, Zenon DEF CallInv
<1> QED BY <1>2, <1>4, <1>5, <1>6, <1>7, Zenon

\* The API never touches a request in progress.
LEMMA APIRequests ==
    ASSUME API
    PROVE  UNCHANGED <<pc, req, started, taken>>
BY Zenon DEF API, changeMocks, activateScenario, deactivateScenario, setProtocolFault,
   clearLogs, clearCalls, clearCallsCounts, reset, resetFaults, resetActiveIDs,
   resetDeactivate, resetMocks, getHTTPCalls, getHTTPCallsCount, history

\* A counted request is logged, in the step that ends its handler.
LEMMA CountedIsLogged ==
    ASSUME CallInv, [Next]_vars, NEW h \in Handlers,
           pc[h] # "idle", pc'[h] = "idle", NEW x \in CallsOf(h),
           req[h].fault \notin {"abort", "truncate"}, req[h].patch # "disabled"
    PROVE  logged'[x.mock] = logged[x.mock] + 1
<1>1. PICK g \in Handlers : handleRequest(g)
  BY APIRequests, Zenon DEF Next, vars
<1>2. g = h /\ (Arrives(h) \/ Counts(h) \/ GoesOn(h) \/ Ends(h))
  BY <1>1, HandlerEffect, Zenon DEF CallInv
<1>3. Ends(h)
  BY <1>2, Zenon DEF Arrives, Counts, GoesOn
<1>4. pc[h] \in {"patch", "answer", "log"} /\ req[h].matched = x.mock
  BY Zenon DEF CallInv, CountedKeepMock, KeepsMock
<1>5. /\ logged \in [Mocks \cup {NoMock} -> Nat]
      /\ req[h].matched \in Mocks \cup {NoMock}
  BY RequestUpdates, Zenon DEF CallInv, TypeOK
<1> QED BY <1>3, <1>4, <1>5, Zenon DEF Ends

\* A handler that ends after it counted its call has logged it, unless a fault
\* cut the connection or the mock was disabled: the calls API and its wait
\* miss no other request, whatever resets, clears and mock changes came
\* between the count and the log.
THEOREM CountedAreLogged == Spec => CountedCallsAreLogged
<1>1. Init => CallInv
  BY InitType, Zenon DEF Init, CallInv, RequestIDs, CountedKeepMock
<1>2. CallInv /\ [Next]_vars => CallInv'
  <2>1. ASSUME CallInv, UNCHANGED <<pc, req, started, taken>>, TypeOK' PROVE CallInv'
    BY <2>1, Zenon DEF CallInv, RequestIDs, CountedKeepMock, KeepsMock, CallsOf
  <2>2. ASSUME CallInv, API PROVE CallInv'
    BY <2>1, <2>2, APIRequests, APIType, Zenon DEF CallInv
  <2>3. ASSUME CallInv, UNCHANGED vars PROVE CallInv'
    BY <2>1, <2>3, Zenon DEF vars, TypeOK, CallInv
  <2> QED BY <2>2, <2>3, CallStep, Zenon DEF Next
<1>3. ASSUME CallInv, [Next]_vars
      PROVE  [\A h \in Handlers :
                /\ pc[h] # "idle" /\ pc'[h] = "idle"
                /\ req[h].fault \notin {"abort", "truncate"}
                /\ req[h].patch # "disabled"
                => \A x \in taken : x.id = req[h].id =>
                     logged'[x.mock] = logged[x.mock] + 1]_vars
  BY <1>3, CountedIsLogged, Zenon DEF CallsOf
<1> QED BY <1>1, <1>2, <1>3, PTL DEF Spec, CountedCallsAreLogged

-----------------------------------------------------------------------------
(* Sharing a looping sequence *)

\* Division with remainder.
LEMMA Quotient ==
    ASSUME NEW c \in Int, NEW n \in Int, n > 0
    PROVE  c = n * (c \div n) + (c % n) /\ c \div n \in Int /\ c % n \in 0 .. n - 1
<1>1. c = n * (c \div n) + (c % n)
  OBVIOUS
<1>2. c \div n \in Int /\ c % n \in 0 .. n - 1
  OBVIOUS
<1> QED BY <1>1, <1>2, Zenon

LEMMA Remainder ==
    ASSUME NEW n \in Int, n > 0, NEW d \in Int, NEW r \in 0 .. n - 1
    PROVE  (n * d + r) % n = r /\ (n * d) % n = 0
OBVIOUS

LEMMA NextRemainder ==
    ASSUME NEW c \in Int, NEW n \in Int, n > 0
    PROVE  (c + 1) % n = IF c % n = n - 1 THEN 0 ELSE (c % n) + 1
<1> DEFINE r == c % n
           d == c \div n
<1>1. r \in 0 .. n - 1 /\ d \in Int /\ c = n * d + r
  BY Quotient, Zenon
<1> HIDE DEF r, d
<1>2. ASSUME r = n - 1 PROVE (c + 1) % n = 0
  <2>1. PICK e \in Int : c + 1 = n * e
    <3>1. c + 1 = n * (d + 1) /\ d + 1 \in Int
      BY <1>1, <1>2
    <3> QED BY <3>1, Zenon
  <2>2. (n * e) % n = 0
    BY <1>1, Remainder, Zenon
  <2> QED BY <2>1, <2>2, Zenon
<1>3. ASSUME r # n - 1 PROVE (c + 1) % n = r + 1
  <2>1. c + 1 = n * d + (r + 1) /\ r + 1 \in 0 .. n - 1
    BY <1>1, <1>3
  <2>2. (n * d + (r + 1)) % n = r + 1
    BY <1>1, <2>1, Remainder, Zenon
  <2> QED BY <2>1, <2>2, Zenon
<1> QED BY <1>2, <1>3, Zenon DEF r

Looping(m) == Exhausted[m] = "loop" /\ SeqLen[m] > 0

\* The step that follows c calls of a looping sequence.
LEMMA LoopStep ==
    ASSUME NEW m \in Mocks, Looping(m), NEW c \in Nat
    PROVE  SequenceResponse(m, c + 1) = (c % SeqLen[m]) + 1
<1>1. SeqLen[m] \in Nat /\ SeqLen[m] > 0 /\ Exhausted[m] = "loop"
  BY HTTPServerAssumption, Zenon DEF Looping
<1> DEFINE n == SeqLen[m]
<1>2. n \in Int /\ n > 0 /\ SeqLen[m] = n
  BY <1>1
<1>3. SequenceResponse(m, c + 1) = IF c + 1 <= n THEN c + 1 ELSE (((c + 1) - 1) % n) + 1
  BY <1>1 DEF SequenceResponse
<1> HIDE DEF n
<1>4. CASE c + 1 <= n
  <2>1. c \in 0 .. n - 1
    BY <1>2, <1>4
  <2>2. (n * 0 + c) % n = c
    BY <1>2, <2>1, Remainder
  <2>3. n * 0 + c = c
    BY <1>2
  <2> QED BY <1>2, <1>3, <1>4, <2>2, <2>3, Zenon
<1>5. CASE ~(c + 1 <= n)
  <2>1. (c + 1) - 1 = c
    OBVIOUS
  <2> QED BY <1>2, <1>3, <1>5, <2>1, Zenon
<1> QED BY <1>4, <1>5, Zenon

\* With c calls counted, the first c % len steps of a loop of length len were
\* served once more than the rest.
Shares ==
    /\ IsFiniteSet(taken)
    /\ \A m \in Mocks : Looping(m) =>
         \E k \in Nat : \A i \in 1 .. SeqLen[m] :
             Cardinality(Served(m, i)) =
                 IF i <= callCounts[m] % SeqLen[m] THEN k + 1 ELSE k

\* The inductive invariant behind LoopIsShared.
SharesInv == NumbersInv /\ Shares

\* A counter reset starts every loop over.
LEMMA ResetShares ==
    ASSUME SharesInv, callCounts' = ZeroCounts, epoch' = epoch + 1, taken' = taken
    PROVE  Shares'
<1>1. \A x \in taken : x.epoch <= epoch /\ x.epoch \in Nat /\ epoch \in Nat
  BY NumberFields, Zenon DEF SharesInv, NumbersInv, NumbersBelow, TypeOK
<1>2. \A m, i : Served(m, i)' = {}
  BY <1>1 DEF Served
<1>3. ASSUME NEW m \in Mocks, Looping(m), NEW i \in 1 .. SeqLen[m]
      PROVE  /\ Cardinality(Served(m, i)') = 0
             /\ ~(i <= callCounts'[m] % SeqLen[m])
  <2>1. Cardinality(Served(m, i)') = 0
    BY <1>2, FS_EmptySet, Zenon
  <2>2. SeqLen[m] \in Int /\ SeqLen[m] > 0 /\ callCounts'[m] = 0
    BY <1>3, HTTPServerAssumption DEF Looping, ZeroCounts
  <2>3. 0 % SeqLen[m] = 0
    <3> DEFINE n == SeqLen[m]
    <3>1. n \in Int /\ n > 0 BY <2>2, Zenon
    <3> HIDE DEF n
    <3>2. 0 % n = 0
      BY <3>1
    <3> QED BY <3>2, Zenon DEF n
  <2> DEFINE r == callCounts'[m] % SeqLen[m]
  <2>4. r = 0
    BY <2>2, <2>3, Zenon
  <2> HIDE DEF r
  <2>5. ~(i <= r)
    BY <2>2, <2>4
  <2> QED BY <2>1, <2>5, Zenon DEF r
<1>4. ASSUME NEW m \in Mocks, Looping(m)
      PROVE  \A i \in 1 .. SeqLen[m] :
               Cardinality(Served(m, i)') =
                 IF i <= callCounts'[m] % SeqLen[m] THEN 0 + 1 ELSE 0
  BY <1>3, <1>4, Zenon
<1>5. IsFiniteSet(taken')
  BY Zenon DEF SharesInv, Shares
<1> QED BY <1>4, <1>5, Zenon DEF Shares

\* Counting a call serves the step that is next.
LEMMA CountShares ==
    ASSUME SharesInv, NEW h \in Handlers, Count(h)
    PROVE  Shares'
<1>0. PICK k, c, x : /\ k = req[h].matched
                     /\ c = callCounts[k]
                     /\ x = [id |-> req[h].id, mock |-> k, epoch |-> epoch, n |-> c + 1]
  BY Zenon
<1>1. /\ k \in Mocks /\ c \in Nat /\ callCounts \in [Mocks -> Nat]
      /\ \A y \in taken : /\ y.mock \in Mocks /\ y.n \in Nat
                           /\ y.epoch = epoch => y.n <= callCounts[y.mock]
  BY <1>0, NumberFields, Zenon DEF SharesInv, NumbersInv, NumbersBelow, TypeOK, Count
<1>2. /\ callCounts' = [callCounts EXCEPT ![k] = c + 1]
      /\ taken' = taken \cup {x}
      /\ epoch' = epoch
  BY <1>0, Zenon DEF Count
<1>3. x.mock = k /\ x.epoch = epoch /\ x.n = c + 1
  BY <1>0, Zenon
<1>4. x \notin taken
  <2> SUFFICES ASSUME x \in taken PROVE FALSE
    BY Zenon
  <2>1. x.n <= callCounts[x.mock]
    BY <1>1, <1>3
  <2> QED BY <1>0, <1>1, <1>3, <2>1
<1>5. IsFiniteSet(taken) /\ IsFiniteSet(taken')
  BY <1>2, FS_AddElement, Zenon DEF SharesInv, Shares
<1>6. ASSUME NEW m \in Mocks, NEW i
      PROVE  /\ m # k => Served(m, i)' = Served(m, i)
             /\ SequenceResponse(k, c + 1) # i => Served(k, i)' = Served(k, i)
             /\ SequenceResponse(k, c + 1) = i =>
                  Cardinality(Served(k, i)') = Cardinality(Served(k, i)) + 1
  <2> DEFINE Is(l, y) == y.mock = l /\ y.epoch = epoch /\ SequenceResponse(l, y.n) = i
  <2>0. \A l, y : /\ y \in Served(l, i)' <=> (y \in taken \/ y = x) /\ Is(l, y)
                  /\ y \in Served(l, i) <=> y \in taken /\ Is(l, y)
    BY <1>2, Zenon DEF Served
  <2>1. ASSUME m # k PROVE Served(m, i)' = Served(m, i)
    <3>1. ~Is(m, x)
      BY <1>3, <2>1, Zenon
    <3> HIDE DEF Is
    <3> QED BY <2>0, <3>1, Zenon
  <2>2. ASSUME SequenceResponse(k, c + 1) # i PROVE Served(k, i)' = Served(k, i)
    <3>1. ~Is(k, x)
      BY <1>3, <2>2, Zenon
    <3> HIDE DEF Is
    <3>2. \A y : y \in Served(k, i)' <=> y \in Served(k, i)
      BY <2>0, <3>1, Zenon
    <3> QED BY <3>2, Zenon
  <2>3. ASSUME SequenceResponse(k, c + 1) = i
        PROVE  Cardinality(Served(k, i)') = Cardinality(Served(k, i)) + 1
    <3>1. Served(k, i)' = Served(k, i) \cup {x} /\ x \notin Served(k, i)
      <4>1. Is(k, x)
        BY <1>3, <2>3, Zenon
      <4> HIDE DEF Is
      <4>2. \A y : y \in Served(k, i)' <=> y \in Served(k, i) \cup {x}
        BY <2>0, <4>1, Zenon
      <4>3. x \notin Served(k, i)
        BY <1>4, <2>0, Zenon
      <4> QED BY <4>2, <4>3, Zenon
    <3>2. IsFiniteSet(Served(k, i))
      BY <1>5, FS_Subset, Zenon DEF Served
    <3> QED BY <3>1, <3>2, FS_AddElement, Zenon
  <2> QED BY <2>1, <2>2, <2>3, Zenon
<1>7. ASSUME NEW m \in Mocks, Looping(m), m # k
      PROVE  \E j \in Nat : \A i \in 1 .. SeqLen[m] :
               Cardinality(Served(m, i)') =
                 IF i <= callCounts'[m] % SeqLen[m] THEN j + 1 ELSE j
  <2>1. callCounts'[m] = callCounts[m]
    BY <1>1, <1>2, <1>7, Zenon
  <2>2. \A i \in 1 .. SeqLen[m] : Served(m, i)' = Served(m, i)
    BY <1>6, <1>7, Zenon
  <2> QED BY <1>7, <2>1, <2>2, Zenon DEF SharesInv, Shares
<1>8. ASSUME Looping(k)
      PROVE  \E j \in Nat : \A i \in 1 .. SeqLen[k] :
               Cardinality(Served(k, i)') =
                 IF i <= callCounts'[k] % SeqLen[k] THEN j + 1 ELSE j
  <2> DEFINE n == SeqLen[k]
             r == c % n
             s == (c + 1) % n
  <2>1. n \in Int /\ n > 0 /\ n = SeqLen[k]
    BY <1>1, <1>8, HTTPServerAssumption DEF Looping
  <2> HIDE DEF n
  <2>2. r \in 0 .. n - 1 /\ s = IF r = n - 1 THEN 0 ELSE r + 1
    BY <1>1, <2>1, Quotient, NextRemainder
  <2>3. SequenceResponse(k, c + 1) = r + 1
    BY <1>1, <1>8, LoopStep, Zenon DEF n
  <2>4. callCounts'[k] = c + 1 /\ callCounts[k] = c
    BY <1>0, <1>1, <1>2, Zenon
  <2>5. callCounts'[k] % SeqLen[k] = s /\ callCounts[k] % SeqLen[k] = r
    BY <2>4, Zenon DEF n
  <2> HIDE DEF r, s
  <2>6. PICK j \in Nat : \A i \in 1 .. n : Cardinality(Served(k, i)) = IF i <= r THEN j + 1 ELSE j
    BY <1>1, <1>8, <2>5, Zenon DEF SharesInv, Shares, n
  <2>7. ASSUME NEW i \in 1 .. n
        PROVE  Cardinality(Served(k, i)') = IF i <= r + 1 THEN j + 1 ELSE j
    <3>1. CASE i = r + 1
      BY <1>1, <1>6, <2>2, <2>3, <2>6, <3>1
    <3>2. CASE i # r + 1
      <4>1. Served(k, i)' = Served(k, i)
        BY <1>1, <1>6, <2>3, <3>2, Zenon
      <4>2. Cardinality(Served(k, i)) = IF i <= r THEN j + 1 ELSE j
        BY <2>6, Zenon
      <4>3. (i <= r + 1) <=> (i <= r)
        BY <2>1, <2>2, <3>2
      <4> QED BY <4>1, <4>2, <4>3, Zenon
    <3> QED BY <3>1, <3>2, Zenon
  <2>8. CASE r = n - 1
    <3>1. s = 0
      BY <2>2, <2>8, Zenon
    <3>2. \A i \in 1 .. n : i <= r + 1 /\ ~(i <= s)
      BY <2>1, <2>8, <3>1
    <3>3. \A i \in 1 .. n :
            Cardinality(Served(k, i)') = IF i <= s THEN (j + 1) + 1 ELSE j + 1
      BY <2>7, <3>2, Zenon
    <3>4. PICK q \in Nat : q = j + 1
      OBVIOUS
    <3>5. \A i \in 1 .. n : Cardinality(Served(k, i)') = IF i <= s THEN q + 1 ELSE q
      BY <3>3, <3>4, Zenon
    <3> QED BY <2>5, <3>5, Zenon DEF n
  <2>9. CASE r # n - 1
    <3>1. s = r + 1
      BY <2>2, <2>9, Zenon
    <3> QED BY <2>5, <2>7, <3>1, Zenon DEF n
  <2> QED BY <2>8, <2>9, Zenon
<1>9. ASSUME NEW m \in Mocks, Looping(m)
      PROVE  \E j \in Nat : \A i \in 1 .. SeqLen[m] :
               Cardinality(Served(m, i)') =
                 IF i <= callCounts'[m] % SeqLen[m] THEN j + 1 ELSE j
  <2>1. CASE m = k
    BY <1>8, <1>9, <2>1, Zenon
  <2> QED BY <1>7, <1>9, <2>1, Zenon
<1> QED BY <1>5, <1>9, Zenon DEF Shares, Looping

\* Concurrent requests share a looping sequence evenly, for a sequence of any
\* length, any number of requests and whenever the counters are reset.
THEOREM LoopShared == Spec => []LoopIsShared
<1>1. Init => SharesInv
  <2> SUFFICES ASSUME Init PROVE SharesInv
    BY Zenon
  <2>1. NumbersInv
    BY InitType DEF Init, NumbersInv, NumbersBelow, CallNumbersExact, ZeroCounts
  <2>2. IsFiniteSet(taken)
    BY FS_EmptySet, Zenon DEF Init
  <2>3. ASSUME NEW m \in Mocks, Looping(m), NEW i \in 1 .. SeqLen[m]
        PROVE  Cardinality(Served(m, i)) = 0 /\ ~(i <= callCounts[m] % SeqLen[m])
    <3>1. Served(m, i) = {} /\ Cardinality({}) = 0 /\ callCounts[m] = 0
      BY FS_EmptySet, Zenon DEF Init, Served, ZeroCounts
    <3>2. SeqLen[m] \in Int /\ SeqLen[m] > 0
      BY <2>3, HTTPServerAssumption DEF Looping
    <3>3. ASSUME NEW n \in Int, n > 0 PROVE 0 % n = 0
      BY <3>3
    <3> QED BY <3>1, <3>2, <3>3
  <2>4. ASSUME NEW m \in Mocks, Looping(m)
        PROVE  \A i \in 1 .. SeqLen[m] :
                 Cardinality(Served(m, i)) =
                   IF i <= callCounts[m] % SeqLen[m] THEN 0 + 1 ELSE 0
    BY <2>3, <2>4, Zenon
  <2> QED BY <2>1, <2>2, <2>4, Zenon DEF SharesInv, Shares
<1>2. SharesInv /\ [Next]_vars => SharesInv'
  <2> SUFFICES ASSUME SharesInv, [Next]_vars PROVE SharesInv'
    BY Zenon
  <2>1. NumbersInv'
    BY NumbersStep, Zenon DEF SharesInv
  <2>2. CASE UNCHANGED <<callCounts, epoch, taken>>
    <3>1. \A m, i : Served(m, i)' = Served(m, i)
      BY <2>2, Zenon DEF Served
    <3>2. Shares'
      BY <2>2, <3>1, Zenon DEF SharesInv, Shares
    <3> QED BY <2>1, <3>2, Zenon DEF SharesInv
  <2> QED BY <2>1, <2>2, ResetShares, CountShares, NumberSteps, Zenon DEF SharesInv
<1>3. SharesInv => LoopIsShared
  <2> SUFFICES ASSUME SharesInv, NEW m \in Mocks, Exhausted[m] = "loop",
                      NEW i \in 1 .. SeqLen[m], NEW j \in 1 .. SeqLen[m], i < j
               PROVE  /\ Cardinality(Served(m, j)) <= Cardinality(Served(m, i))
                      /\ Cardinality(Served(m, i)) <= Cardinality(Served(m, j)) + 1
    BY Zenon DEF LoopIsShared
  <2>1. SeqLen[m] \in Int /\ SeqLen[m] > 0 /\ Looping(m) /\ callCounts[m] \in Int
    BY HTTPServerAssumption DEF Looping, SharesInv, NumbersInv, TypeOK
  <2> DEFINE r == callCounts[m] % SeqLen[m]
  <2>2. r \in Int
    BY <2>1, Quotient
  <2>3. PICK k \in Nat : \A l \in 1 .. SeqLen[m] :
             Cardinality(Served(m, l)) = IF l <= r THEN k + 1 ELSE k
    BY <2>1, Zenon DEF SharesInv, Shares
  <2> HIDE DEF r
  <2>4. /\ Cardinality(Served(m, i)) = IF i <= r THEN k + 1 ELSE k
        /\ Cardinality(Served(m, j)) = IF j <= r THEN k + 1 ELSE k
    BY <2>3, Zenon
  <2>5. i \in Int /\ j \in Int /\ (j <= r => i <= r)
    BY <2>1, <2>2
  <2> QED BY <2>4, <2>5
<1> QED BY <1>1, <1>2, <1>3, PTL DEF Spec
=============================================================================
