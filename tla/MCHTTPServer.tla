---------------------------- MODULE MCHTTPServer ----------------------------
(***************************************************************************)
(* The request pipeline, for TLC.  A behaviour has two requests and        *)
(* everything the API can change ("changes"), three requests for a with an *)
(* API reader but without scenarios and reset ("calls"), or three requests *)
(* that nothing but recorded mocks match ("record"): all at once would     *)
(* only multiply the states.                                               *)
(***************************************************************************)
EXTENDS HTTPServer, TLC

CONSTANTS a, b, c

VARIABLE part

\* a has a sequence of two responses, b has NTLM auth, and c is recorded for
\* requests that ask for b.
MCRecordedAs == [m \in Mocks |-> IF m = b THEN c ELSE m]
MCSeqLen == [m \in Mocks |-> IF m = a THEN 2 ELSE 0]
MCExhausted == [m \in Mocks |-> IF m = a THEN "loop" ELSE "hold_last"]

\* One scenario that makes requests fail, patches a and disables b.
MCScenarioFault == [s \in ScenarioIDs |-> "status"]
MCScenarioPatch ==
    [s \in ScenarioIDs |-> [m \in Mocks |-> IF m = a THEN "patch" ELSE "disabled"]]

MCInit == Init /\ part \in {"changes", "calls", "record"}

\* What each part leaves out.
InChanges == /\ started' <= 2 /\ direct' # "abort" /\ view' = view
             /\ a \in mocks' /\ c \notin mocks'
             /\ \A h \in Handlers : pc'[h] # "record" /\ req'[h].mock # c
InCalls == /\ mocks' \subseteq {a} /\ active' = {} /\ direct' # "limit"
           /\ resetting'.at \in {"idle", "counts"}
           /\ \A h \in Handlers : pc'[h] # "record" /\ req'[h].mock \notin {b, c}
           /\ \A r \in APIReaders : view'[r].mock \notin {b, c}
InRecord == /\ a \in mocks' /\ active' = {} /\ direct' = "none"
            /\ resetting' = resetting /\ logged'[c] >= logged[c]
            /\ \A h \in Handlers : /\ req'[h].mock \in {NoMock, b}
                                    /\ req'[h].token \in {"none", "bearer"}
            /\ \A r \in APIReaders : view'[r].mock \in {NoMock, c}

MCNext == /\ Next
          /\ CASE part = "changes" -> InChanges
               [] part = "calls" -> InCalls
               [] part = "record" -> InRecord
          /\ UNCHANGED part

MCSpec == MCInit /\ [][MCNext]_<<vars, part>>

HandlerSymmetry == Permutations(Handlers)
=============================================================================
