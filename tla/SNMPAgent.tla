----------------------------- MODULE SNMPAgent ------------------------------
(***************************************************************************)
(* What the SNMP agent answers: the table of OIDs that buildOIDs makes of  *)
(* the mocks and newAgent sorts, GETNEXT and GETBULK over it, and SET.  A  *)
(* client walks the table while another one sets variables of it.          *)
(*                                                                         *)
(* An OID is the sequence of its components.  The table does not change    *)
(* while the agent serves: SetMocks has a new agent built (SNMPServer).    *)
(* The version 3 messages around a request (users, keys, digests, times)   *)
(* and the values GET returns are left out.  A variable's value is 0 if    *)
(* its mock gave it, and i if it was the i-th one of the last SET.         *)
(***************************************************************************)
EXTENDS Naturals, Sequences, FiniteSets, SequencesExt

CONSTANTS
    OIDs,       \* the OIDs that mocks and requests may name
    Tables,     \* the lists of mocks' OIDs, in the order of the configuration
    MaxSets,    \* bound: the variables of a SET
    MaxReps,    \* bound: the max-repetitions of GETBULK
    MaxSeen     \* bound: the variables a walk collects

VARIABLES
    oids,       \* agent.oids
    values,     \* Server.values, for the OIDs of the table
    walk,       \* the client's walk: where it began, its version and what it saw
    set         \* the SET of another client: its request, response and the values before it

agentVars == <<oids, values, walk, set>>

Before(a, b) ==
    \/ IsStrictPrefix(a, b)
    \/ \E i \in 1..Len(a) : /\ i <= Len(b)
                            /\ a[i] < b[i]
                            /\ \A j \in 1..(i - 1) : a[j] = b[j]

\* sort.Slice is not stable, but items that compare equal have one OID.
sortOIDs(table) == SortSeq(table, Before)

\* The exact match, if there is one, and its index or the insertion index.
findOID(items, oid) ==
    LET AtLeast == {i \in 1..Len(items) : ~Before(items[i], oid)}
        idx == IF AtLeast = {} THEN Len(items) + 1 ELSE Min(AtLeast)
    IN  [found |-> idx <= Len(items) /\ items[idx] = oid, idx |-> idx]

\* A plausible bug: the match itself is not stepped over.
SuccessorIndexStays(items, query) == findOID(items, query).idx

\* "if item != nil { idx++ }"
SuccessorIndex(items, query) ==
    LET at == findOID(items, query) IN IF at.found THEN at.idx + 1 ELSE at.idx

Variable(oid) == [end |-> FALSE, oid |-> oid]

endOfMibView(query) == [end |-> TRUE, oid |-> query]

\* A GETNEXT carries no max-repetitions, so one item is returned.  Version 1 has
\* no endOfMibView: the response is the error noSuchName.
serveGetNext(query, v1) ==
    LET idx == SuccessorIndex(oids, query)
    IN  IF idx > Len(oids)
        THEN [error |-> IF v1 THEN "noSuchName" ELSE "noError",
              variables |-> IF v1 THEN <<Variable(query)>> ELSE <<endOfMibView(query)>>]
        ELSE [error |-> "noError", variables |-> <<Variable(oids[idx])>>]

NonRepeaters(queries) ==
    [i \in DOMAIN queries |->
        LET idx == SuccessorIndex(oids, queries[i])
        IN  IF idx > Len(oids) THEN endOfMibView(queries[i]) ELSE Variable(oids[idx])]

\* One round of the repeaters; endOfMibView is sent once for each of them.
Round(queries, rep) ==
    FlattenSeq([k \in DOMAIN queries |->
        LET next == SuccessorIndex(oids, queries[k]) + rep
        IN  IF next <= Len(oids) THEN <<Variable(oids[next])>>
            ELSE IF rep = 0 \/ next - 1 <= Len(oids) THEN <<endOfMibView(queries[k])>>
            ELSE <<>>])

serveGetBulk(queries, nonRepeaters, maxRepetitions) ==
    LET n == IF nonRepeaters > Len(queries) THEN Len(queries) ELSE nonRepeaters
        reps == IF maxRepetitions > Len(oids) THEN Len(oids) ELSE maxRepetitions
    IN  NonRepeaters(SubSeq(queries, 1, n))
            \o FlattenSeq([r \in 1..reps |-> Round(SubSeq(queries, n + 1, Len(queries)), r - 1)])

----------------------------------------------------------------------------
(* The walk of one client.  It goes on from the last variable it was given *)
(* and ends at endOfMibView, at an error or at an empty response.          *)

At == IF walk.seen = <<>> THEN walk.from ELSE Last(walk.seen)

Collect(error, variables) ==
    LET news == [i \in DOMAIN SelectSeq(variables, LAMBDA v : ~v.end) |->
                    SelectSeq(variables, LAMBDA v : ~v.end)[i].oid]
        over == error # "noError" \/ variables = <<>> \/ \E i \in DOMAIN variables : variables[i].end
    IN  walk' = [walk EXCEPT !.seen = IF error # "noError" THEN @ ELSE @ \o news,
                             !.over = over]

WalkNext ==
    /\ ~walk.over /\ Len(walk.seen) < MaxSeen
    /\ LET resp == serveGetNext(At, walk.v1) IN Collect(resp.error, resp.variables)
    /\ UNCHANGED <<oids, values, set>>

WalkBulk(maxRepetitions) ==
    /\ ~walk.over /\ Len(walk.seen) < MaxSeen
    /\ ~walk.v1
    /\ Collect("noError", serveGetBulk(<<At>>, 0, maxRepetitions))
    /\ UNCHANGED <<oids, values, set>>

----------------------------------------------------------------------------
(* SET by another client. *)

\* Every mock's item has an onSet, so only an OID that is not there cannot
\* be written.
Written(v) == findOID(oids, v).found

\* Each variable is written as it comes, whatever becomes of the others;
\* "failed" are the ones whose onSet returns an injected fault.  The error
\* names the first variable that is missing, and with version 1 the response
\* repeats the request.
serveSet(variables, v1, failed) ==
    LET missing == {i \in DOMAIN variables : ~Written(variables[i])}
        stored == {i \in DOMAIN variables \ missing : i \notin failed}
        error == IF missing = {} THEN "noError" ELSE IF v1 THEN "noSuchName" ELSE "notWritable"
        lastFor(o) == {i \in stored : findOID(oids, variables[i]).idx
                                         = findOID(oids, o).idx}
    IN  /\ values' = [o \in DOMAIN values |->
                         IF lastFor(o) = {} THEN values[o] ELSE Max(lastFor(o))]
        /\ set' = [request |-> variables,
                   error |-> error,
                   index |-> IF missing = {} THEN 0 ELSE Min(missing),
                   answers |-> [i \in DOMAIN variables |->
                       IF i \in stored \/ (v1 /\ missing # {}) THEN "value"
                       ELSE IF i \in missing THEN "noSuchInstance" ELSE "ERROR"],
                   v1 |-> v1,
                   before |-> values]

Set ==
    /\ set.request = <<>>
    /\ \E n \in 1..MaxSets : \E variables \in [1..n -> OIDs] :
          \E v1 \in BOOLEAN, failed \in SUBSET (1..n) : serveSet(variables, v1, failed)
    /\ UNCHANGED <<oids, walk>>

----------------------------------------------------------------------------

\* buildOIDs stores the value of each mock under its OID.
AgentInit ==
    /\ \E table \in Tables :
          /\ oids = sortOIDs(table)
          /\ values = [o \in ToSet(table) |-> 0]
    /\ walk \in [from : OIDs, v1 : BOOLEAN, seen : {<<>>}, over : {FALSE}]
    /\ set = [request |-> <<>>, error |-> "noError", index |-> 0, answers |-> <<>>,
              v1 |-> FALSE, before |-> values]

AgentNext == \/ WalkNext
             \/ \E m \in 1..MaxReps : WalkBulk(m)
             \/ Set

----------------------------------------------------------------------------
(* Properties *)

Distinct == IsInjective(oids)

\* However GETNEXT and GETBULK requests are mixed, a walk meets the OIDs of
\* the table that come after its start in order, leaves none out, meets none
\* twice, and ends only after the last one: if the mocks' OIDs are distinct.
WalksAreComplete ==
    LET rest == SelectSeq(oids, LAMBDA o : Before(walk.from, o))
    IN  Distinct => /\ IsPrefix(walk.seen, rest)
                    /\ walk.over => walk.seen = rest

\* "Repeaters behave like repeated GetNext calls": row by row, the response
\* to GETBULK is what as many rounds of GETNEXT would have found, each OID's
\* successor being the least OID after it, until every repeater is at the end.
BulkIsRepeatedNext ==
    LET Later(o) == {i \in DOMAIN oids : Before(o, oids[i])}
        Nth(o, r) == IF Cardinality(Later(o)) < r THEN endOfMibView(o)
                     ELSE Variable(oids[Min(Later(o)) + r - 1])
        Rows(qs, m) == FlattenSeq([r \in 1..m |->
                         FlattenSeq([k \in DOMAIN qs |->
                           IF r > 1 /\ Nth(qs[k], r - 1).end THEN <<>> ELSE <<Nth(qs[k], r)>>])])
    IN  Distinct /\ walk.seen = <<>> /\ set.request = <<>> =>
           \A qs \in [1..2 -> OIDs], m \in 1..MaxReps :
              /\ IsPrefix(serveGetBulk(qs, 0, m), Rows(qs, m))
              /\ m <= Len(oids) => serveGetBulk(qs, 0, m) = Rows(qs, m)
              /\ m <= Len(oids) =>
                    serveGetBulk(qs, 1, m) = <<Nth(qs[1], 1)>> \o Rows(<<qs[2]>>, m)

\* The response to SET tells what was written: a variable answered with its
\* value holds the last value that was answered for it, one that was not
\* keeps the value it had, and the error names the first that is missing.
SetAnswersAreTrue ==
    LET valued(o) == {i \in DOMAIN set.request : set.request[i] = o
                                                   /\ set.answers[i] = "value"}
    IN  ~(set.v1 /\ set.error # "noError") =>
           /\ \A o \in DOMAIN values :
                 values[o] = IF valued(o) = {} THEN set.before[o]
                             ELSE Max(valued(o))
           /\ \A i \in DOMAIN set.request :
                 set.request[i] \notin DOMAIN values =>
                     set.error = "notWritable" /\ set.index <= i
=============================================================================
