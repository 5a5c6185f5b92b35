----------------------------- MODULE SNMPServer -----------------------------
(***************************************************************************)
(* The restart protocol of the SNMP agent (snmpserver.Server).  SetMocks   *)
(* swaps the restart channel under the mutex and closes the old one after  *)
(* it; the loop of Start reads the mocks, binds the port, picks up the     *)
(* restart channel, and serves until the context ends, that channel is     *)
(* closed, or reading the socket fails.                                    *)
(*                                                                         *)
(* A mock list is the number of the SetMocks call that installed it, and a *)
(* restart channel the number of calls that came before it was made.  The  *)
(* requests the agent answers, the values of its OIDs and the traps it     *)
(* sends are left out: none of them touches the restart protocol.          *)
(***************************************************************************)
EXTENDS Integers, FiniteSets

CONSTANTS
    Callers,        \* goroutines of the management API that call SetMocks
    MaxSets         \* bound: calls of SetMocks

ASSUME SNMPServerAssumption == MaxSets \in Nat

VARIABLES
    mocks,          \* Server.mocks
    restart,        \* Server.restart
    closing,        \* caller -> the channel it is about to close, or None
    closes,         \* history: channel -> how often it was closed
    pc,             \* where Start is
    built,          \* the mock list the agent is built from
    restartCh,      \* the channel Start waits for
    bound,          \* whether the UDP port is bound by this server
    serving         \* serveForever: "no", "running", or "failed" in errCh

vars == <<mocks, restart, closing, closes, pc, built, restartCh, bound, serving>>

None == -1

Closed == {c \in DOMAIN closes : closes[c] > 0}

-----------------------------------------------------------------------------
(* SetMocks *)

SetMocks(c) ==
    /\ closing[c] = None
    /\ mocks < MaxSets
    /\ mocks' = mocks + 1
    /\ restart' = restart + 1
    /\ closing' = [closing EXCEPT ![c] = restart]
    /\ UNCHANGED <<closes, pc, built, restartCh, bound, serving>>

\* close(oldRestart), outside the mutex.
SetMocksSignal(c) ==
    /\ closing[c] # None
    /\ closes' = [closes EXCEPT ![closing[c]] = @ + 1]
    /\ closing' = [closing EXCEPT ![c] = None]
    /\ UNCHANGED <<mocks, restart, pc, built, restartCh, bound, serving>>

-----------------------------------------------------------------------------
(* Start *)

\* buildAndListen reads the mock list ...
buildAndListen ==
    /\ pc = "build"
    /\ built' = mocks
    /\ pc' = "listen"
    /\ UNCHANGED <<mocks, restart, closing, closes, restartCh, bound, serving>>

\* ... and binds the port, which fails if the port is taken, by this server
\* or another.  Start returns the error.
listenUDP ==
    /\ pc = "listen"
    /\ \/ /\ ~bound
          /\ bound' = TRUE
          /\ pc' = "capture"
       \/ /\ pc' = IF bound THEN "portTaken" ELSE "returned"
          /\ UNCHANGED bound
    /\ UNCHANGED <<mocks, restart, closing, closes, built, restartCh, serving>>

\* The restart channel is read, and serveForever is started.
Capture ==
    /\ pc = "capture"
    /\ restartCh' = restart
    /\ pc' = "select"
    /\ serving' = "running"
    /\ UNCHANGED <<mocks, restart, closing, closes, built, bound>>

\* A read of the socket fails other than by its being closed.
serveForeverFails ==
    /\ serving = "running"
    /\ serving' = "failed"
    /\ UNCHANGED <<mocks, restart, closing, closes, pc, built, restartCh, bound>>

\* ctx.Done
StartCancelled ==
    /\ pc = "select"
    /\ bound' = FALSE
    /\ serving' = "no"
    /\ pc' = "returned"
    /\ UNCHANGED <<mocks, restart, closing, closes, built, restartCh>>

\* Broken variant of StartRestart: the mocks are not read again.
StartRestartListenOnly ==
    /\ pc = "select"
    /\ restartCh \in Closed
    /\ bound' = FALSE
    /\ serving' = "no"
    /\ pc' = "listen"
    /\ UNCHANGED <<mocks, restart, closing, closes, built, restartCh>>

\* <-restartCh: the listener is closed and serveForever has ended before the
\* loop goes on.
StartRestart ==
    /\ pc = "select"
    /\ restartCh \in Closed
    /\ bound' = FALSE
    /\ serving' = "no"
    /\ pc' = "build"
    /\ UNCHANGED <<mocks, restart, closing, closes, built, restartCh>>

\* <-errCh: a restart is preferred to the error; the listener stays open.
StartServeError ==
    /\ pc = "select"
    /\ serving = "failed"
    /\ serving' = "no"
    /\ pc' = IF restartCh \in Closed THEN "build" ELSE "returned"
    /\ UNCHANGED <<mocks, restart, closing, closes, built, restartCh, bound>>

-----------------------------------------------------------------------------

Init ==
    /\ mocks = 0
    /\ restart = 0
    /\ closing = [c \in Callers |-> None]
    /\ closes = [n \in 0 .. MaxSets |-> 0]
    /\ pc = "build"
    /\ built = None
    /\ restartCh = None
    /\ bound = FALSE
    /\ serving = "no"

Start == \/ buildAndListen
         \/ listenUDP
         \/ Capture
         \/ StartCancelled
         \/ StartRestart
         \/ StartServeError

Next == \/ \E c \in Callers : SetMocks(c) \/ SetMocksSignal(c)
        \/ Start
        \/ serveForeverFails

Spec == Init /\ [][Next]_vars

\* The goroutine of Start runs when it can, and a caller that swapped the
\* channel closes it.  The context need not end, and the socket need not fail.
Fairness ==
    /\ WF_vars(buildAndListen)
    /\ WF_vars(listenUDP)
    /\ WF_vars(Capture)
    /\ WF_vars(StartRestart)
    /\ WF_vars(StartServeError)
    /\ \A c \in Callers : WF_vars(SetMocksSignal(c))

FairSpec == Spec /\ Fairness

-----------------------------------------------------------------------------
(* Properties *)

Returned == pc \in {"portTaken", "returned"}

\* Type invariant; no restart channel is closed twice, which would panic,
\* however many SetMocks calls overlap.
TypeOK ==
    /\ mocks \in 0 .. MaxSets
    /\ restart \in 0 .. MaxSets
    /\ closing \in [Callers -> 0 .. MaxSets \cup {None}]
    /\ closes \in [0 .. MaxSets -> 0 .. 1]
    /\ pc \in {"build", "listen", "capture", "select", "portTaken", "returned"}
    /\ built \in 0 .. MaxSets \cup {None}
    /\ restartCh \in 0 .. MaxSets \cup {None}
    /\ bound \in BOOLEAN
    /\ serving \in {"no", "running", "failed"}

\* A SetMocks call that overtakes the channel Start waits for takes effect:
\* the agent is rebuilt from that mock list or a later one, or Start returns.
OvertakenAgentIsRebuilt ==
    \A n \in 1 .. MaxSets :
        (pc = "select" /\ restartCh < restart /\ mocks = n)
            ~> (built >= n \/ Returned)

\* "Capture the restart channel that corresponds to *this* build", to avoid
\* "permanently losing the restart signal": the agent ends up built from the
\* last mock list, unless Start returns.
RestartSignalNotLost ==
    \A n \in 1 .. MaxSets : (mocks = n) ~> (built >= n \/ Returned)

=============================================================================
