----------------------------- MODULE MockAdmin -----------------------------
(***************************************************************************)
(* The management API's handlers on a protocol's mock list: add, update,   *)
(* delete, patch and reset (api.Server).  Every protocol has its own list  *)
(* and its own copy of the handlers, so one list is modelled and the       *)
(* descriptors below say in what the copies differ.                        *)
(*                                                                         *)
(* A handler takes a copy of the list with GetMocks, changes the copy, and *)
(* installs it with SetMocks.  Each of the two holds the server's mutex,   *)
(* and nothing spans both.  The copy is shallow: a response's header map   *)
(* and a WebSocket mock's on_connect action stay shared with the list and  *)
(* with the configuration.  They are cells here, and a mock names its own. *)
(*                                                                         *)
(* The pages of a body.dir are configured with one header map for all.     *)
(*                                                                         *)
(* Left out: bodies that do not decode and protocols that are not enabled  *)
(* (the handler answers with an error and changes nothing), the ids the    *)
(* API makes up for mocks without one (any id may be added), the defaults  *)
(* that SMTP's add and FTP's SetFiles fill in, and the mocks that record   *)
(* mode adds (Recording).                                                  *)
(***************************************************************************)
EXTENDS Integers, Sequences, Functions

CONSTANTS
    Protocols,      \* the protocols to consider
    IDs,            \* mock ids
    Bodies,         \* what a mock and a cell may hold
    ConfigMocks,    \* protocol -> its configured list
    ConfigCells,    \* the contents of its cells, numbered from 1
    Callers,        \* goroutines serving API requests
    MaxCalls,       \* bound: calls made
    MaxCells        \* bound: cells allocated

Nil == 0            \* no header map, no on_connect action

NoID == ""          \* configured mocks may have no id

Mock == [id : IDs \cup {NoID}, body : Bodies, cell : 0 .. MaxCells]

VARIABLES
    proto,          \* the protocol whose list this is
    mocks,          \* the server's list
    cells,          \* the contents of the cells allocated so far
    call,           \* caller -> the call it serves
    calls,          \* number of calls so far
    touched         \* history: ids calls asked for since the last reset, or
                    \* held in a copy when it came

vars == <<proto, mocks, cells, call, calls, touched>>

-----------------------------------------------------------------------------
(* The copies of the handlers *)

CRUD == {"add", "update", "delete"}

\* patchHTTPMock sets fields of the response, and keys of its header map.
HTTP == [ops |-> CRUD \cup {"patch"}, upsert |-> TRUE,
         patch |-> SUBSET {"value", "cell"}]

\* patchWSMock writes through the on_connect pointer only, and makes the
\* action even if the patch is empty.
WebSocket == [ops |-> CRUD \cup {"patch"}, upsert |-> FALSE, patch |-> {{"cell"}}]

\* patchGRPCMock replaces the response map, the error and the delay.
GRPC == [ops |-> CRUD \cup {"patch"}, upsert |-> FALSE, patch |-> SUBSET {"value"}]

\* addSNMPTrap is the only handler that changes the trap list.
SNMPTraps == [ops |-> {"add"}, upsert |-> FALSE, patch |-> {}]

\* addDNSMock, updateDNSMock and deleteDNSMock, and their copies: the
\* handlers of the other protocols differ from them in names only.
Plain == [ops |-> CRUD, upsert |-> FALSE, patch |-> {}]

GraphQL == Plain
TCP == Plain
Redis == Plain
SMTP == Plain
MQTT == Plain
NATS == Plain
SNMP == Plain
AMQP == Plain
Kafka == Plain
LDAP == Plain
IMAP == Plain
FTP == Plain
Memcached == Plain
STOMP == Plain
CoAP == Plain
SIP == Plain

\* The protocols, in the order in which reset restores them.
Handlers ==
    [http |-> HTTP, ws |-> WebSocket, grpc |-> GRPC, graphql |-> GraphQL,
     tcp |-> TCP, redis |-> Redis, smtp |-> SMTP, mqtt |-> MQTT, nats |-> NATS,
     snmp |-> SNMP, traps |-> SNMPTraps, dns |-> Plain, amqp |-> AMQP,
     kafka |-> Kafka, ldap |-> LDAP, imap |-> IMAP, ftp |-> FTP,
     memcached |-> Memcached, stomp |-> STOMP, coap |-> CoAP, sip |-> SIP]

\* Of the configured HTTP mocks no two have one id (validateDuplicateIDs).
ASSUME MockAdminAssumption ==
    /\ MaxCalls \in Nat
    /\ MaxCells \in Nat
    /\ NoID \notin IDs
    /\ ConfigMocks \in [Protocols -> Seq(Mock)]
    /\ ConfigCells \in Seq(Bodies)
    /\ \A p \in Protocols : \A i \in DOMAIN ConfigMocks[p] :
         /\ ConfigMocks[p][i].cell <= Len(ConfigCells)
         /\ \A j \in DOMAIN ConfigMocks[p] :
              (/\ Handlers[p].upsert
               /\ ConfigMocks[p][i].id = ConfigMocks[p][j].id
               /\ ConfigMocks[p][i].id # NoID) => i = j

-----------------------------------------------------------------------------
(* What a handler does to its copy of the list *)

Positions(list, id) == {i \in DOMAIN list : list[i].id = id}

First(list, id) ==
    CHOOSE i \in Positions(list, id) : \A j \in Positions(list, id) : i <= j

Replace(list, m) == [list EXCEPT ![First(list, m.id)] = m]

Add(list, m) ==
    IF Handlers[proto].upsert /\ Positions(list, m.id) # {}
      THEN Replace(list, m) ELSE Append(list, m)

\* The mocks with other ids, appended one by one to a new slice.
Without(list, id) ==
    LET kept[i \in 0 .. Len(list)] ==
            IF i = 0 THEN << >>
            ELSE IF list[i].id # id THEN Append(kept[i - 1], list[i])
            ELSE kept[i - 1]
    IN  kept[Len(list)]

\* Broken variant of Remove: the loop stops at the mock it looks for.
RemoveRest(list, id) == SubSeq(list, 1, First(list, id) - 1)

Remove(list, id) == Without(list, id)

-----------------------------------------------------------------------------
(* The handlers *)

NoCall == [op |-> "none"]

\* GetMocks.  All but add answer 404 if the id is not in the copy.
Get(c, op, id, b) ==
    /\ call[c] = NoCall
    /\ calls < MaxCalls
    /\ op \in Handlers[proto].ops
    /\ op = "add" \/ Positions(mocks, id) # {}
    /\ call' = [call EXCEPT ![c] = [op |-> op, id |-> id, body |-> b, list |-> mocks]]
    /\ calls' = calls + 1
    /\ UNCHANGED <<proto, mocks, cells, touched>>

\* SetMocks, the end of every handler.
SetMocks(c, list) ==
    /\ mocks' = list
    /\ call' = [call EXCEPT ![c] = NoCall]
    /\ touched' = touched \cup {call[c].id}
    /\ UNCHANGED <<proto, calls>>

\* The mock that was decoded from the request's body, with a cell of its own
\* or none; the cells after it was decoded.
Decoded(c, fresh) ==
    [id |-> call[c].id, body |-> call[c].body,
     cell |-> IF fresh THEN Len(cells) + 1 ELSE Nil]

CellsWith(c, fresh) == IF fresh THEN Append(cells, call[c].body) ELSE cells

addMock(c, fresh) ==
    /\ call[c].op = "add"
    /\ fresh => Len(cells) < MaxCells
    /\ cells' = CellsWith(c, fresh)
    /\ SetMocks(c, Add(call[c].list, Decoded(c, fresh)))

updateMock(c, fresh) ==
    /\ call[c].op = "update"
    /\ fresh => Len(cells) < MaxCells
    /\ cells' = CellsWith(c, fresh)
    /\ SetMocks(c, Replace(call[c].list, Decoded(c, fresh)))

deleteMock(c) ==
    /\ call[c].op = "delete"
    /\ SetMocks(c, Remove(call[c].list, call[c].id))
    /\ UNCHANGED cells

\* A patch changes values in the copy.  What is behind a pointer it changes
\* where it is; a cell is made first if the mock has none.
patchMock(c, fields) ==
    LET i == First(call[c].list, call[c].id)
        old == call[c].list[i]
        make == "cell" \in fields /\ old.cell = Nil
        m == [old EXCEPT !.body = IF "value" \in fields THEN call[c].body ELSE @,
                         !.cell = IF make THEN Len(cells) + 1 ELSE @]
    IN  /\ call[c].op = "patch"
        /\ make => Len(cells) < MaxCells
        /\ cells' = IF make THEN Append(cells, call[c].body)
                    ELSE IF "cell" \in fields THEN [cells EXCEPT ![old.cell] = call[c].body]
                    ELSE cells
        /\ SetMocks(c, [call[c].list EXCEPT ![i] = m])

\* The ids in the copies that calls in progress hold.
Held == {m.id : m \in UNION {Range(call[c].list) : c \in {d \in Callers : call[d] # NoCall}}}

\* Broken variant of reset: the configured mocks are put back, and added ones
\* are kept.
resetMerging ==
    /\ mocks' = ConfigMocks[proto] \o SelectSeq(mocks, LAMBDA m : Positions(ConfigMocks[proto], m.id) = {})
    /\ touched' = Held
    /\ UNCHANGED <<proto, cells, call, calls>>

\* reset installs the configured list.
reset ==
    /\ mocks' = ConfigMocks[proto]
    /\ touched' = Held
    /\ UNCHANGED <<proto, cells, call, calls>>

Set(c) == \/ \E fresh \in BOOLEAN : addMock(c, fresh) \/ updateMock(c, fresh)
          \/ deleteMock(c)
          \/ \E fields \in Handlers[proto].patch : patchMock(c, fields)

Init ==
    /\ proto \in Protocols
    /\ mocks = ConfigMocks[proto]
    /\ cells = ConfigCells
    /\ call = [c \in Callers |-> NoCall]
    /\ calls = 0
    /\ touched = {}

Next == \/ \E c \in Callers :
             \/ \E op \in Handlers[proto].ops, id \in IDs, b \in Bodies : Get(c, op, id, b)
             \/ Set(c)
        \/ reset

Spec == Init /\ [][Next]_vars

-----------------------------------------------------------------------------
(* Properties *)

\* Type invariant; every cell a mock names has been allocated.
TypeOK ==
    /\ proto \in Protocols
    /\ mocks \in Seq(Mock)
    /\ cells \in Seq(Bodies)
    /\ \A i \in DOMAIN mocks : mocks[i].cell \in 0 .. Len(cells)
    /\ calls \in 0 .. MaxCalls
    /\ touched \subseteq IDs \cup {NoID}

\* A protocol whose add handler upserts never lists an id twice, whichever
\* stale copies overlapping calls install: the update and delete endpoints
\* reach every mock that has an id.
UpsertKeepsIDsUnique ==
    Handlers[proto].upsert =>
        \A i, j \in DOMAIN mocks :
            mocks[i].id = mocks[j].id /\ mocks[i].id # NoID => i = j

\* The configuration gave mock m's cell to m and to the mock named id.
ConfigShares(p, m, id) ==
    \E i, j \in DOMAIN ConfigMocks[p] :
        /\ ConfigMocks[p][i].id = m.id /\ ConfigMocks[p][i].cell = m.cell
        /\ ConfigMocks[p][j].id = id /\ ConfigMocks[p][j].cell = m.cell

\* A call that nothing overtook, whose copy is still the list it installs its
\* change over, leaves the other mocks, their order and their cells alone: a
\* patch shows in another mock only where the configuration gave the two one
\* header map, as it does to the pages of a body.dir.
LoneCallTouchesOnlyItsMock ==
    [][\A c \in Callers :
         (Set(c) /\ call[c].list = mocks) =>
            /\ Without(mocks', call[c].id) = Without(mocks, call[c].id)
            /\ \A i \in DOMAIN mocks :
                 (/\ mocks[i].id # call[c].id /\ mocks[i].cell # Nil
                  /\ ~ConfigShares(proto, mocks[i], call[c].id)) =>
                    cells'[mocks[i].cell] = cells[mocks[i].cell]]_vars

\* Calls make no two mocks with different ids share a header map or on_connect
\* action: those that do were configured with it.
CellsAreNotShared ==
    \A i, j \in DOMAIN mocks :
        (mocks[i].cell = mocks[j].cell /\ mocks[i].cell # Nil)
            => mocks[i].id = mocks[j].id \/ ConfigShares(proto, mocks[i], mocks[j].id)

\* "Restore each protocol's mocks to the values from the original config":
\* after reset the configured mocks have the configured contents.
ResetRestoresConfig ==
    [][reset => \A n \in DOMAIN ConfigCells : cells'[n] = ConfigCells[n]]_vars

\* Resetting removes dynamically added mocks: one that is not configured is
\* listed only if a call for its id finished since the last reset, or if a
\* call overlapped the reset and held the mock in its copy.
ResetRemovesDynamicMocks ==
    \A i \in DOMAIN mocks :
        \/ mocks[i].id \in touched
        \/ Positions(ConfigMocks[proto], mocks[i].id) # {}

\* Whatever calls overlap, a protocol's list is one that calls made one after the
\* other could explain: ids are unique where the handlers keep them so, no two
\* mocks share a map unless they were configured with it (expandDirMock), and
\* what reset removed does not come back by itself.
ListsStayCoherent ==
    TypeOK /\ UpsertKeepsIDsUnique /\ CellsAreNotShared /\ ResetRemovesDynamicMocks

=============================================================================
