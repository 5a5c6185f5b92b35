------------------------------ MODULE WSServer -----------------------------
(***************************************************************************)
(* The WebSocket server (wsserver): Start makes a route for every mock it  *)
(* finds, with a copy of the mock; any other path goes to handleDynamic,   *)
(* which looks the mock up in the current list.  A connection keeps the    *)
(* mock it began with.  A mock is a path and the version of its rules.     *)
(***************************************************************************)
EXTENDS Naturals

CONSTANTS WSPaths, WSConns, MaxChanges, MaxWSFrames

Absent == 0

VARIABLES
    wsMocks,        \* Server.mocks: path -> version, Absent without a mock
    changes,        \* bounds the model, and the version of the next mock
    routes,         \* what Start's routes hold: path -> version or Absent
    serving,        \* Start has made the routes
    ws,             \* connection -> path, version, where it is
    log             \* entries: connection, version the entry's id stands for

wsVars == <<wsMocks, changes, routes, serving, ws, log>>

Unconnected == [path |-> "none", version |-> Absent, at |-> "idle", frames |-> 0, fault |-> FALSE]

WSInit ==
    /\ \E S \in SUBSET WSPaths : wsMocks = [p \in WSPaths |-> IF p \in S THEN 1 ELSE Absent]
    /\ changes = 1
    /\ routes = [p \in WSPaths |-> Absent] /\ serving = FALSE
    /\ ws = [c \in WSConns |-> Unconnected]
    /\ log = {}

Start ==
    /\ ~serving /\ serving' = TRUE
    /\ routes' = wsMocks
    /\ UNCHANGED <<wsMocks, changes, ws, log>>

\* SetMocks: one path gets a new mock or loses its mock.
WSSetMocks(p, remove) ==
    /\ changes < MaxChanges
    /\ changes' = changes + 1
    /\ wsMocks' = [wsMocks EXCEPT ![p] = IF remove THEN Absent ELSE changes + 1]
    /\ UNCHANGED <<routes, serving, ws, log>>

(***************************************************************************)
(* The mock a request is served by: the route's copy, or the current one.  *)
(***************************************************************************)
RouteOf(p) == IF routes[p] # Absent THEN routes[p] ELSE wsMocks[p]

\* A connection is upgraded, greeted and logged; without a mock, 404.
Open(c, p) ==
    /\ serving /\ ws[c].at = "idle" /\ RouteOf(p) # Absent
    /\ ws' = [ws EXCEPT ![c] = [Unconnected EXCEPT !.path = p, !.version = RouteOf(p),
                                                   !.at = "read"]]
    /\ log' = log \cup {<<c, RouteOf(p)>>}
    /\ UNCHANGED <<wsMocks, changes, routes, serving>>

\* A frame is read, and then the fault.
Frame(c, fault) ==
    /\ ws[c].at = "read" /\ ws[c].frames < MaxWSFrames
    /\ ws' = [ws EXCEPT ![c].at = "rule", ![c].fault = fault, ![c].frames = @ + 1]
    /\ UNCHANGED <<wsMocks, changes, routes, serving, log>>

\* The rules are looked up again for every frame.
RulesOfCurrent(c) == wsMocks[ws[c].path]

RulesOf(c) == ws[c].version

\* The rules of the connection's mock decide: none matches, the fault closes
\* the connection, the rule closes it, or its response is written and logged.
Rule(c, what) ==
    /\ ws[c].at = "rule"
    /\ what = "fault" => ws[c].fault
    /\ ws' = [ws EXCEPT ![c].at = IF what \in {"fault", "close"} THEN "closed" ELSE "read",
                        ![c].fault = FALSE]
    /\ log' = IF what = "respond" THEN log \cup {<<c, RulesOf(c)>>} ELSE log
    /\ UNCHANGED <<wsMocks, changes, routes, serving>>

ClientCloses(c) ==
    /\ ws[c].at = "read"
    /\ ws' = [ws EXCEPT ![c].at = "closed"]
    /\ UNCHANGED <<wsMocks, changes, routes, serving, log>>

WSNext ==
    \/ Start
    \/ \E p \in WSPaths, remove \in BOOLEAN : WSSetMocks(p, remove)
    \/ \E c \in WSConns :
          \/ \E p \in WSPaths : Open(c, p)
          \/ \E f \in BOOLEAN : Frame(c, f)
          \/ \E what \in {"none", "fault", "close", "respond"} : Rule(c, what)
          \/ ClientCloses(c)

WSSpec == WSInit /\ [][WSNext]_wsVars

----------------------------------------------------------------------------
\* A path that had no mock when the server started is served by the mock it
\* has when the client connects, and by none once that is removed.
DynamicPathsAreCurrent ==
    [][\A c \in WSConns : ws[c].at = "idle" /\ ws'[c].at = "read" =>
          LET p == ws'[c].path IN
          routes[p] = Absent => ws'[c].version = wsMocks[p] /\ wsMocks[p] # Absent]_wsVars

\* A client that connects is served by a mock that is installed, as for the
\* other protocols whose mocks the management API replaces.
ConnectionsUseInstalledMocks ==
    [][\A c \in WSConns : ws[c].at = "idle" /\ ws'[c].at = "read" =>
          ws'[c].version = wsMocks[ws'[c].path]]_wsVars

\* WebSocket: a connection is answered by the mock it began with (handleConn),
\* and a path that Start made no route for gets its current one (handleDynamic).
ConnectionsKeepTheirMock ==
    /\ [](\A e1, e2 \in log : e1[1] = e2[1] => e1[2] = e2[2])
    /\ DynamicPathsAreCurrent
=============================================================================
