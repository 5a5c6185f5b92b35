----------------------------- MODULE Scenarios -----------------------------
(***************************************************************************)
(* scenarios.Store without its rate limiter (RateLimit): the scenario      *)
(* definitions, the set of active ones and the direct faults, with the     *)
(* management API's handlers on top.  Each store method is atomic under    *)
(* the store's mutex; updateScenario is two of them.  Go iterates over its *)
(* maps in any order, so a read that loops over one takes the order as a   *)
(* parameter.  Which patch PatchFor finds is modelled in HTTPServer.       *)
(***************************************************************************)
EXTENDS Integers, FiniteSets, Sequences, Functions

CONSTANTS
    IDs,            \* scenario ids; naturals, ordered as the strings are
    Mocks,          \* mock ids a patch may target
    Protocols,      \* the protocol names of config.ProtocolFaults
    Faults,         \* fault values
    NoFault,        \* a nil fault pointer
    Definitions,    \* scenario bodies: [patches, faults]
    Updaters        \* concurrent calls of updateScenario

NoID == -1

FaultConfig == [Protocols -> Faults \cup {NoFault}]

ASSUME ScenariosAssumption ==
    /\ IDs \subseteq Nat
    /\ NoFault \notin Faults
    /\ Definitions \subseteq [patches : SUBSET Mocks, faults : FaultConfig]

VARIABLES
    scenarios,      \* id -> definition, for the ids that are defined
    active,         \* ids marked active
    direct,         \* the direct faults
    updating        \* updater -> id it has looked up, or NoID

vars == <<scenarios, active, direct, updating>>

NoFaults == [p \in Protocols |-> NoFault]

New(initial) ==
    /\ scenarios = initial
    /\ active = {}
    /\ direct = NoFaults

-----------------------------------------------------------------------------
(* Operations of the store *)

\* Set: creates or replaces; an active scenario stays active.
Set(id, d) ==
    scenarios' = [i \in DOMAIN scenarios \cup {id} |->
                    IF i = id THEN d ELSE scenarios[i]]

createScenario(id, d) ==
    /\ Set(id, d)
    /\ UNCHANGED <<active, direct, updating>>

\* updateScenario looks the id up, decodes the body and only then sets it.
updateScenarioGet(u, id) ==
    /\ updating[u] = NoID
    /\ id \in DOMAIN scenarios
    /\ updating' = [updating EXCEPT ![u] = id]
    /\ UNCHANGED <<scenarios, active, direct>>

updateScenarioSet(u, d) ==
    /\ updating[u] # NoID
    /\ Set(updating[u], d)
    /\ updating' = [updating EXCEPT ![u] = NoID]
    /\ UNCHANGED <<active, direct>>

\* The other outcome of updateScenario: the body does not decode.
updateScenarioBadRequest(u) ==
    /\ updating[u] # NoID
    /\ updating' = [updating EXCEPT ![u] = NoID]
    /\ UNCHANGED <<scenarios, active, direct>>

\* Broken variant of Delete: the id stays in the active set.
DeleteKeepingActive(id) ==
    /\ id \in DOMAIN scenarios
    /\ scenarios' = Restrict(scenarios, DOMAIN scenarios \ {id})
    /\ UNCHANGED <<active, direct, updating>>

Delete(id) ==
    /\ id \in DOMAIN scenarios
    /\ scenarios' = Restrict(scenarios, DOMAIN scenarios \ {id})
    /\ active' = active \ {id}
    /\ UNCHANGED <<direct, updating>>

Activate(id) ==
    /\ id \in DOMAIN scenarios
    /\ active' = active \cup {id}
    /\ UNCHANGED <<scenarios, direct, updating>>

\* deactivateScenario: its lookup before Deactivate only picks the reply,
\* for no id that is not defined is active.
Deactivate(id) ==
    /\ id \in active
    /\ active' = active \ {id}
    /\ UNCHANGED <<scenarios, direct, updating>>

SetDirectProtocolFault(p, f) ==
    /\ direct' = [direct EXCEPT ![p] = f]
    /\ UNCHANGED <<scenarios, active, updating>>

ClearDirectProtocolFault(p) ==
    /\ direct' = [direct EXCEPT ![p] = NoFault]
    /\ UNCHANGED <<scenarios, active, updating>>

ClearDirectFaults ==
    /\ direct' = NoFaults
    /\ UNCHANGED <<scenarios, active, updating>>

-----------------------------------------------------------------------------
(* Reads *)

\* The orders in which a loop may visit a map with these keys.
Orders(S) == Bijection(1 .. Cardinality(S), S)

\* Broken variant of effectiveFault: the first fault found wins.
effectiveFaultFirst(p, order) ==
    LET found == {n \in DOMAIN order : scenarios[order[n]].faults[p] # NoFault}
    IN  IF found = {} THEN direct[p]
        ELSE LET n == CHOOSE n \in found : \A k \in found : n <= k
             IN  scenarios[order[n]].faults[p]

\* The loop of effectiveFault over the active ids in the given order: the
\* winner so far gives way to a greater id with a fault for the protocol.
effectiveFault(p, order) ==
    LET fault(id) == IF id \in DOMAIN scenarios
                       THEN scenarios[id].faults[p] ELSE NoFault
        winner[n \in 0 .. Len(order)] ==
            IF n = 0 THEN NoID
            ELSE IF fault(order[n]) # NoFault
                      /\ (winner[n - 1] = NoID \/ order[n] > winner[n - 1])
                   THEN order[n]
                   ELSE winner[n - 1]
        w == winner[Len(order)]
    IN  IF w # NoID THEN fault(w) ELSE direct[p]

-----------------------------------------------------------------------------

Init ==
    /\ \E D \in SUBSET IDs : \E initial \in [D -> Definitions] : New(initial)
    /\ updating = [u \in Updaters |-> NoID]

Next ==
    \/ \E id \in IDs, d \in Definitions : createScenario(id, d)
    \/ \E u \in Updaters, id \in IDs : updateScenarioGet(u, id)
    \/ \E u \in Updaters, d \in Definitions : updateScenarioSet(u, d)
    \/ \E u \in Updaters : updateScenarioBadRequest(u)
    \/ \E id \in IDs : Delete(id) \/ Activate(id) \/ Deactivate(id)
    \/ \E p \in Protocols, f \in Faults : SetDirectProtocolFault(p, f)
    \/ \E p \in Protocols : ClearDirectProtocolFault(p)
    \/ ClearDirectFaults

Spec == Init /\ [][Next]_vars

-----------------------------------------------------------------------------
(* Properties *)

\* Type invariant.
TypeOK ==
    /\ DOMAIN scenarios \subseteq IDs
    /\ scenarios \in [DOMAIN scenarios -> Definitions]
    /\ active \subseteq IDs
    /\ direct \in FaultConfig
    /\ updating \in [Updaters -> IDs \cup {NoID}]

\* Only defined scenarios are active, even when an update that looked a
\* scenario up sets it again after it was deleted: a scenario that comes back
\* this way does not come back active.
ActiveAreDefined == active \subseteq DOMAIN scenarios

\* The fault in force does not depend on the order in which Go iterates over
\* the active set: it is the one of the active scenario with the greatest id
\* among those with a fault for the protocol, and the direct one if none has.
FaultInForceIsDetermined ==
    \A p \in Protocols :
        LET holders == {id \in active : scenarios[id].faults[p] # NoFault}
        IN  \A order \in Orders(active) :
              IF holders = {}
                THEN effectiveFault(p, order) = direct[p]
                ELSE \E top \in holders :
                       /\ \A id \in holders : id <= top
                       /\ effectiveFault(p, order) = scenarios[top].faults[p]

=============================================================================
