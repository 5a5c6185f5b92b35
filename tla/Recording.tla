------------------------------ MODULE Recording ------------------------------
(***************************************************************************)
(* How the HTTP server finds the mock of a request, explains that there is *)
(* none, and records the upstream's answer as a new mock (record mode).    *)
(* HTTPMatch and HTTPDiagnose walk a copy of the mock list without a lock  *)
(* and read the state store afresh for every mock, so that the store, the  *)
(* list and the recorder may change between two of their steps.            *)
(*                                                                         *)
(* An answer is a status and a body.  Left out is the header map, which    *)
(* the recorder and the list share, so that a patch of a recorded mock's   *)
(* headers changes it in both.                                             *)
(***************************************************************************)
EXTENDS Naturals, Sequences, FiniteSets, Functions

CONSTANTS
    Clients,     \* goroutines serving one request each at a time
    Kinds,       \* method, path and query of a request
    Configured,  \* ids of the mocks that are not recorded
    Rejects,     \* [Configured -> [Kinds -> the checks that fail]]
    Exact,       \* [Configured -> the kind that is its request literally, or ""]
    When,        \* [Configured -> the value of the state key it needs, or ""]
    Lists,       \* mock lists that SetMocks may install
    StateValues, \* values of the state key
    Recorders,   \* whether record mode may be on
    MaxChanges   \* bound: the changes of the store, the list and the upstream

\* httpDiagnoseTopN, and the order in which both functions check a mock.
httpDiagnoseTopN == 3
Checks == <<"method", "path", "headers", "query", "body", "body_json", "body_form",
            "body_multipart", "body_xml", "state", "auth">>

\* A mock that was not recorded.
Given(id) == [id |-> id, kind |-> "", answer |-> 0]

\* The checks are the code's, and no kind of request is the empty name, which
\* stands for a mock that was not recorded.
ASSUME RecordingAssumption ==
    /\ "" \notin Kinds
    /\ Rejects \in [Configured -> [Kinds -> SUBSET Range(Checks)]]
    /\ Exact \in [Configured -> Kinds \cup {""}]
    /\ When \in [Configured -> StateValues \cup {""}]
    /\ Lists \subseteq Seq({Given(id) : id \in Configured})
    /\ Recorders \subseteq BOOLEAN
    /\ MaxChanges \in Nat

VARIABLES
    live,      \* s.mocks
    store,     \* the value of the state key
    recorder,  \* s.recorder # nil
    recorded,  \* rec.recorded; the id of an entry is its position (rec.counter)
    saved,     \* the mocks that can be read in the save_to file
    copies,    \* the lists that calls of the management API hold
    upstream,  \* what the target answers now
    changes,   \* how many of those there have been
    req        \* per client: the request and where its handler is

recVars == <<live, store, recorder, recorded, saved, copies, upstream, changes, req>>

\* A goroutine that serves no request.
AtRest == [stage |-> "idle", kind |-> "", view |-> <<>>, i |-> 0, near |-> <<>>,
         got |-> 0, mock |-> Given(0), steady |-> TRUE]

\* The checks of mock m that a request of kind k fails now.  A recorded mock
\* has the method, path and query of the request it was recorded for.
Failing(m, k) ==
    IF m.kind # "" THEN IF m.kind = k THEN {} ELSE {"path"}
    ELSE Rejects[m.id][k] \cup (IF When[m.id] \in {"", store} THEN {} ELSE {"state"})

\* The number of checks that m passes before its first failing one.
Depth(m, k) ==
    Cardinality({n \in DOMAIN Checks : \A j \in 1..n : Checks[j] \notin Failing(m, k)})

RecInit ==
    /\ live \in Lists
    /\ store \in StateValues
    /\ recorder \in Recorders
    /\ recorded = <<>> /\ saved = <<>> /\ copies = {}
    /\ upstream = 1 /\ changes = 0
    /\ req = [c \in Clients |-> AtRest]

Goes(c, r) == req' = [req EXCEPT ![c] = r]

\* handleRequest copies the slice header of s.mocks.
Arrive(c, k) ==
    /\ req[c].stage = "idle"
    /\ Goes(c, [AtRest EXCEPT !.stage = "match", !.kind = k, !.view = live, !.i = 1])
    /\ UNCHANGED <<live, store, recorder, recorded, saved, copies, upstream, changes>>

\* A plausible bug: a later match replaces an earlier one.
TryAll(c) ==
    LET r == req[c]
    IN  /\ r.stage = "match"
        /\ IF r.i > Len(r.view)
           THEN Goes(c, [r EXCEPT !.i = 1,
                                  !.stage = IF r.mock # Given(0) THEN "matched"
                                            ELSE IF recorder THEN "forward" ELSE "diagnose"])
           ELSE Goes(c, [r EXCEPT !.i = r.i + 1,
                                  !.mock = IF Failing(r.view[r.i], r.kind) = {} THEN r.view[r.i] ELSE @])
        /\ UNCHANGED <<live, store, recorder, recorded, saved, copies, upstream, changes>>

\* One round of HTTPMatch's loop.
Try(c) ==
    LET r == req[c]
    IN  /\ r.stage = "match"
        /\ IF r.i > Len(r.view)
           THEN Goes(c, [r EXCEPT !.stage = IF recorder THEN "forward" ELSE "diagnose", !.i = 1])
           ELSE IF Failing(r.view[r.i], r.kind) = {}
           THEN Goes(c, [r EXCEPT !.stage = "matched", !.mock = r.view[r.i]])
           ELSE Goes(c, [r EXCEPT !.i = r.i + 1])
        /\ UNCHANGED <<live, store, recorder, recorded, saved, copies, upstream, changes>>

\* forward: the target answers, or cannot be reached and the request goes the
\* way of an unmatched one.
Forward(c) ==
    /\ req[c].stage = "forward"
    /\ \/ Goes(c, [req[c] EXCEPT !.stage = "capture", !.got = upstream])
       \/ Goes(c, [req[c] EXCEPT !.stage = "diagnose"])
    /\ UNCHANGED <<live, store, recorder, recorded, saved, copies, upstream, changes>>

\* capture, under rec.mu: an equivalent request that was recorded before keeps
\* its answer; persistLocked writes every mock recorded so far.  When that
\* fails the file may have been emptied, and a beginning written.
Capture(c) ==
    LET r == req[c]
        old == {m \in Range(recorded) : m.kind = r.kind}
        new == [id |-> Len(recorded) + 1, kind |-> r.kind, answer |-> r.got]
    IN  /\ r.stage = "capture"
        /\ IF old # {}
           THEN /\ Goes(c, [r EXCEPT !.stage = "install", !.mock = CHOOSE m \in old : TRUE])
                /\ UNCHANGED <<recorded, saved>>
           ELSE /\ recorded' = Append(recorded, new)
                /\ saved' \in {saved} \cup {SubSeq(recorded', 1, n) : n \in 0..Len(recorded')}
                /\ Goes(c, [r EXCEPT !.stage = "install", !.mock = new])
        /\ UNCHANGED <<live, store, recorder, copies, upstream, changes>>

\* hasEquivalentMockLocked: a mock, recorded or not, with this very request.
Equivalent(m, k) == k = IF m.kind # "" THEN m.kind ELSE Exact[m.id]

\* A plausible bug: the list is not searched again after the proxy call.
InstallUnchecked(c) ==
    /\ req[c].stage = "install"
    /\ live' = Append(live, req[c].mock)
    /\ Goes(c, [req[c] EXCEPT !.stage = "recorded"])
    /\ UNCHANGED <<store, recorder, recorded, saved, copies, upstream, changes>>

\* recordAndServe, under s.mu; the client gets the upstream's own answer.
Install(c) ==
    /\ req[c].stage = "install"
    /\ live' = IF \E m \in Range(live) : Equivalent(m, req[c].kind) THEN live
               ELSE Append(live, req[c].mock)
    /\ Goes(c, [req[c] EXCEPT !.stage = "recorded"])
    /\ UNCHANGED <<store, recorder, recorded, saved, copies, upstream, changes>>

\* sort.SliceStable by depth, then the first httpDiagnoseTopN.
Report(near) ==
    LET before(i, j) == near[i].depth > near[j].depth \/ (near[i].depth = near[j].depth /\ i < j)
        order == CHOOSE s \in [1..Len(near) -> 1..Len(near)] :
                     \A i, j \in 1..Len(near) : i < j => before(s[i], s[j])
        top == IF Len(near) > httpDiagnoseTopN THEN httpDiagnoseTopN ELSE Len(near)
    IN  [n \in 1..top |-> near[order[n]]]

\* One round of HTTPDiagnose's loop, over the same copy of the list; it runs
\* only when the client asked for it.
Diagnose(c) ==
    LET r == req[c]
    IN  /\ r.stage = "diagnose"
        /\ IF r.i > Len(r.view)
           THEN Goes(c, [r EXCEPT !.stage = "diagnosed", !.near = Report(r.near)])
           ELSE \/ Goes(c, [r EXCEPT !.i = r.i + 1,
                                     !.near = Append(r.near, [id |-> r.view[r.i].id,
                                                              depth |-> Depth(r.view[r.i], r.kind)])])
                \/ r.i = 1 /\ Goes(c, [r EXCEPT !.stage = "unmatched"])
        /\ UNCHANGED <<live, store, recorder, recorded, saved, copies, upstream, changes>>

\* The response is written and the goroutine is free for another request.
Respond(c) ==
    /\ req[c].stage \in {"matched", "recorded", "diagnosed", "unmatched"}
    /\ Goes(c, AtRest)
    /\ UNCHANGED <<live, store, recorder, recorded, saved, copies, upstream, changes>>

Change == changes < MaxChanges /\ changes' = changes + 1

\* The state endpoint changes the key under the walks that are going on.
SetState(v) ==
    /\ v # store
    /\ store' = v
    /\ req' = [c \in Clients |-> [req[c] EXCEPT !.steady = req[c].stage = "idle"]]
    /\ Change
    /\ UNCHANGED <<live, recorder, recorded, saved, copies, upstream>>

\* A reload or a reset replaces the list, recorded mocks and all; the recorder
\* keeps what it recorded.
ReplaceList(list) ==
    /\ live # list
    /\ live' = list
    /\ Change
    /\ UNCHANGED <<store, recorder, recorded, saved, copies, upstream, req>>

\* A handler of the management API takes a copy of the list (GetMocks).
CopyList ==
    /\ copies' = copies \cup {live}
    /\ Change
    /\ UNCHANGED <<live, store, recorder, recorded, saved, upstream, req>>

\* The recorded mocks of a copy that a call finds by their id: the first ones.
Found(list) ==
    {i \in DOMAIN list : list[i].kind # "" /\ \A j \in 1..(i - 1) : list[j].id # list[i].id}

\* One of them was put or patched: it has the caller's answer, and perhaps
\* another request.
Edited(list) ==
    {[list EXCEPT ![i] = [id |-> list[i].id, kind |-> k, answer |-> 0]] :
        i \in Found(list), k \in Kinds}

\* A copy without the mocks named id; f tells where the others are.
Deleted(list, id) ==
    LET kept == {i \in DOMAIN list : list[i].id # id}
        n == Cardinality(kept)
    IN  {[i \in 1..n |-> list[f[i]]] :
            f \in {g \in [1..n -> kept] : \A i, j \in 1..n : i < j => g[i] < g[j]}}

\* The handler changes a mock in its copy, or deletes one, and installs it,
\* over whatever was recorded meanwhile (SetMocks).
InstallCopy(list) ==
    /\ live' \in Edited(list) \cup UNION {Deleted(list, m.id) : m \in Range(list)}
    /\ copies' = copies \ {list}
    /\ UNCHANGED <<store, recorder, recorded, saved, upstream, changes, req>>

\* The target's answer changes.
UpstreamChanges ==
    /\ upstream' = upstream + 1
    /\ Change
    /\ UNCHANGED <<live, store, recorder, recorded, saved, copies, req>>

Serve(c) ==
    \/ \E k \in Kinds : Arrive(c, k)
    \/ Try(c) \/ Forward(c) \/ Capture(c) \/ Install(c) \/ Diagnose(c) \/ Respond(c)

RecNext ==
    \/ \E c \in Clients : Serve(c)
    \/ \E v \in StateValues : SetState(v)
    \/ \E list \in Lists : ReplaceList(list)
    \/ CopyList
    \/ \E list \in copies : InstallCopy(list)
    \/ UpstreamChanges

RecSpec == RecInit /\ [][RecNext]_recVars

----------------------------------------------------------------------------
\* t starts with s.
Continues(t, s) == Len(s) <= Len(t) /\ SubSeq(t, 1, Len(s)) = s

Handled(r) == {r.view[i] : i \in DOMAIN r.view}
Passing(r) == {i \in DOMAIN r.view : Failing(r.view[i], r.kind) = {}}

\* What list has of the recorder's answers is in rec, and it has one for a
\* request.  (Mocks that were edited through the API have the caller's.)
OnceIn(list, rec) ==
    \A i, j \in DOMAIN list : list[i].answer # 0 =>
        /\ list[i] \in Range(rec)
        /\ list[j].answer # 0 /\ list[i].kind = list[j].kind => i = j

\* A request is recorded once however many clients raced for it, and the
\* recorder and the server never hold two of its answers: ids are positions,
\* and a recorded answer that is served is the recorder's own, also after a
\* call of the API put back an old list (capture, recordAndServe).
RecordedOnce ==
    /\ \A i, j \in DOMAIN recorded :
          recorded[i].id = i /\ (recorded[i].kind = recorded[j].kind => i = j)
    /\ OnceIn(live, recorded)

\* A recorded answer is never replaced while the server runs (capture returns
\* what it finds).
AnswersAreKept == [][Continues(recorded', recorded)]_recVars

\* A request is recorded once, however many clients make it; what can be read
\* in the save_to file is a beginning of what was recorded, whichever writes
\* failed; and a recorded answer is not replaced by a later one (capture,
\* persistLocked, hasEquivalentMockLocked).
RecordingsAreKept == [](Continues(recorded, saved) /\ RecordedOnce) /\ AnswersAreKept

\* While the state key does not change under a request, it is answered by the
\* first mock of its list that passes every check, and goes to the upstream
\* or unanswered only if there is none (HTTPMatch).
FirstMatchAnswers ==
    \A c \in Clients : req[c].steady =>
        /\ req[c].stage = "matched" =>
              \E i \in Passing(req[c]) : /\ req[c].view[i] = req[c].mock
                                         /\ \A j \in Passing(req[c]) : i <= j
        /\ req[c].stage \in {"forward", "diagnose"} => Passing(req[c]) = {}

\* A diagnosis lists the mocks that came closest, closest first, in the order
\* of the list where they tie; while the state key does not change, none of
\* them is reported as passing every check (HTTPDiagnose repeats HTTPMatch).
DiagnosisIsHonest ==
    \A c \in Clients : (req[c].stage = "diagnosed" /\ req[c].steady) =>
        LET near == req[c].near
        IN  /\ \A n \in DOMAIN near : near[n].depth < Len(Checks)
            /\ \A n \in 1..(Len(near) - 1) : near[n].depth >= near[n + 1].depth
            /\ \A m \in Handled(req[c]) :
                  \/ \E n \in DOMAIN near : near[n].id = m.id
                  \/ /\ Len(near) = httpDiagnoseTopN
                     /\ \A n \in DOMAIN near : near[n].depth >= Depth(m, req[c].kind)

\* A request is answered by the first mock that matches it, if nothing changed
\* meanwhile, and the explanation of one without a match names mocks that came
\* closest (HTTPMatch, HTTPDiagnose).
MatchesAreExplained == FirstMatchAnswers /\ DiagnosisIsHonest
=============================================================================
