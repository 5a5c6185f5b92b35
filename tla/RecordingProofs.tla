-------------------------- MODULE RecordingProofs ---------------------------
(***************************************************************************)
(* What a request meets.  For any mocks, kinds of requests and number of   *)
(* clients: a request is answered by the first mock that matches it or told *)
(* those that came closest, and what is recorded is recorded once and kept. *)
(* For any scenarios, protocols and concurrent updates: the scenario store *)
(* keeps its types, no scenario is active that is not defined, and the fault *)
(* in force does not depend on the order in which Go visits the active ones. *)
(***************************************************************************)
EXTENDS Recording, Scenarios, ListLemmas, FiniteSetTheorems, SequenceTheorems, TLAPS

\* A leaf that names no prover is tried with these, in this order.
USE SMT, Zenon, SMTT(30)

-----------------------------------------------------------------------------
(* The scenario store *)

\* The inductive invariant: types and ActiveAreDefined need each other only
\* through the domain of scenarios; that finitely many scenarios are active,
\* whatever IDs is, is what lets effectiveFault's loop end.
ScenInv == TypeOK /\ ActiveAreDefined /\ IsFiniteSet(active)

\* Set defines the scenario and keeps all others.
LEMMA SetDefines ==
    ASSUME ScenInv, NEW id \in IDs, NEW d \in Definitions, Set(id, d)
    PROVE  /\ DOMAIN scenarios' = DOMAIN scenarios \cup {id}
           /\ DOMAIN scenarios' \subseteq IDs
           /\ scenarios' \in [DOMAIN scenarios' -> Definitions]
BY Zenon DEF ScenInv, TypeOK, Set

\* Every step of the store keeps the invariant.
LEMMA NextScenarios ==
    ASSUME ScenInv, [Next]_vars
    PROVE  ScenInv'
<1> USE DEF ScenInv, TypeOK, ActiveAreDefined
<1>1. NoFaults \in FaultConfig
  BY Zenon DEF NoFaults, FaultConfig
<1>2. ASSUME NEW id \in IDs, NEW d \in Definitions, createScenario(id, d) PROVE ScenInv'
  <2>1. Set(id, d)
    BY <1>2, Zenon DEF createScenario
  <2> QED BY <1>2, <2>1, SetDefines, Zenon DEF createScenario
<1>3. ASSUME NEW u \in Updaters, NEW id \in IDs, updateScenarioGet(u, id) PROVE ScenInv'
  BY <1>3, Zenon DEF updateScenarioGet
<1>4. ASSUME NEW u \in Updaters, NEW d \in Definitions, updateScenarioSet(u, d) PROVE ScenInv'
  <2>1. updating[u] \in IDs /\ Set(updating[u], d)
    BY <1>4, Zenon DEF updateScenarioSet
  <2>2. updating' \in [Updaters -> IDs \cup {NoID}]
    BY <1>4, Zenon DEF updateScenarioSet
  <2> QED BY <1>4, <2>1, <2>2, SetDefines, Zenon DEF updateScenarioSet
<1>5. ASSUME NEW u \in Updaters, updateScenarioBadRequest(u) PROVE ScenInv'
  BY <1>5, Zenon DEF updateScenarioBadRequest
<1>6. ASSUME NEW id \in IDs, Delete(id) PROVE ScenInv'
  <2>1. /\ DOMAIN scenarios' = DOMAIN scenarios \ {id}
        /\ scenarios' \in [DOMAIN scenarios' -> Definitions]
    BY <1>6, Zenon DEF Delete, Restrict
  <2>2. IsFiniteSet(active')
    BY <1>6, FS_RemoveElement, Zenon DEF Delete
  <2> QED BY <1>6, <2>1, <2>2, Zenon DEF Delete
<1>7. ASSUME NEW id \in IDs, Activate(id) \/ Deactivate(id) PROVE ScenInv'
  <2>1. active' = active \cup {id} \/ active' = active \ {id}
    BY <1>7, Zenon DEF Activate, Deactivate
  <2>2. IsFiniteSet(active')
    BY <2>1, FS_AddElement, FS_RemoveElement
  <2> QED BY <1>7, <2>2, Zenon DEF Activate, Deactivate
<1>8. ASSUME NEW p \in Protocols, NEW f \in Faults, SetDirectProtocolFault(p, f)
      PROVE  ScenInv'
  BY <1>8, Zenon DEF SetDirectProtocolFault, FaultConfig
<1>9. ASSUME NEW p \in Protocols, ClearDirectProtocolFault(p) PROVE ScenInv'
  BY <1>9, Zenon DEF ClearDirectProtocolFault, FaultConfig
<1>10. CASE ClearDirectFaults
  BY <1>1, <1>10, Zenon DEF ClearDirectFaults
<1>11. CASE UNCHANGED vars
  BY <1>11, Zenon DEF vars
<1> QED BY <1>2, <1>3, <1>4, <1>5, <1>6, <1>7, <1>8, <1>9, <1>10, <1>11, Zenon DEF Next

\* The store starts with nothing active.
LEMMA InitScenarios ==
    ASSUME Init
    PROVE  ScenInv
<1>1. PICK D \in SUBSET IDs : \E initial \in [D -> Definitions] : New(initial)
  BY Zenon DEF Init
<1>2. DOMAIN scenarios = D /\ scenarios \in [D -> Definitions] /\ active = {}
      /\ direct = NoFaults
  BY <1>1, Zenon DEF New
<1>3. NoFaults \in FaultConfig
  BY Zenon DEF NoFaults, FaultConfig
<1>4. updating \in [Updaters -> IDs \cup {NoID}]
  BY Zenon DEF Init
<1> QED BY <1>2, <1>3, <1>4, FS_EmptySet, Zenon DEF ScenInv, TypeOK, ActiveAreDefined

\* Only defined scenarios are active, whichever way deletes race
\* with updates that looked the scenario up before, and the store keeps its
\* types.
THEOREM ActiveDefined == Spec => [](TypeOK /\ ActiveAreDefined)
<1>1. Init => ScenInv
  BY InitScenarios, Zenon
<1>2. ScenInv /\ [Next]_vars => ScenInv'
  BY NextScenarios, Zenon
<1> QED BY <1>1, <1>2, PTL DEF Spec, ScenInv

-----------------------------------------------------------------------------
(* The fault in force *)

\* The fault of a scenario for protocol p, as effectiveFault looks it up.
FaultOf(p, id) ==
    IF id \in DOMAIN scenarios THEN scenarios[id].faults[p] ELSE NoFault

\* w is effectiveFault's loop over the first n ids of order: the winner so far.
Winners(w, order, p, n) ==
    w = [i \in 0 .. n |->
           IF i = 0 THEN NoID
           ELSE IF FaultOf(p, order[i]) # NoFault
                     /\ (w[i - 1] = NoID \/ order[i] > w[i - 1])
                  THEN order[i]
                  ELSE w[i - 1]]

\* The loop is defined, for any number of ids.
LEMMA WinnersExist ==
    ASSUME NEW order, NEW p, NEW n \in Nat
    PROVE  \E w : Winners(w, order, p, n)
<1> DEFINE T == {i \in Nat : \E w : Winners(w, order, p, i)}
<1>1. 0 \in T
  <2>1. Winners([i \in 0 .. 0 |-> NoID], order, p, 0)
    BY DEF Winners
  <2> QED BY <2>1, Zenon
<1>2. ASSUME NEW k \in 0 .. n - 1, k \in T PROVE k + 1 \in T
  <2>1. PICK w : Winners(w, order, p, k)
    BY <1>2, Zenon
  <2> DEFINE step(i, v) == IF FaultOf(p, order[i]) # NoFault /\ (v = NoID \/ order[i] > v)
                             THEN order[i] ELSE v
             g == [i \in 0 .. k + 1 |-> IF i = k + 1 THEN step(i, w[k]) ELSE w[i]]
  <2>2. ASSUME NEW i \in 0 .. k + 1
        PROVE  g[i] = IF i = 0 THEN NoID ELSE step(i, g[i - 1])
    <3>1. CASE i = k + 1
      BY <1>2, <3>1
    <3>2. CASE i = 0
      BY <1>2, <2>1, <3>2 DEF Winners
    <3>3. CASE i \in 1 .. k
      <4>1. w[i] = step(i, w[i - 1])
        <5>1. i \in 0 .. k /\ i # 0
          BY <1>2, <3>3
        <5> QED BY <2>1, <5>1, Zenon DEF Winners
      <4>2. g[i] = w[i] /\ g[i - 1] = w[i - 1]
        BY <1>2, <3>3
      <4> QED BY <3>3, <4>1, <4>2
    <3> QED BY <1>2, <3>1, <3>2, <3>3
  <2>3. g = [i \in 0 .. k + 1 |-> g[i]]
    BY Zenon
  <2> HIDE DEF g
  <2>4. Winners(g, order, p, k + 1)
    BY <2>2, <2>3, Zenon DEF Winners
  <2> QED BY <1>2, <2>4
<1> HIDE DEF T
<1>3. 0 .. n \subseteq T
  BY <1>1, <1>2, InductionUpTo, Zenon
<1>4. n \in T
  BY <1>3
<1> QED BY <1>4, Zenon DEF T

\* The active scenarios with a fault for protocol p.
Holders(p) == {id \in active : FaultOf(p, id) # NoFault}

\* v is the winner among the first i ids of order: none of them holds a fault,
\* or v is the greatest that does.
WinsAmong(v, order, p, i) ==
    \/ v = NoID /\ \A j \in 1 .. i : order[j] \notin Holders(p)
    \/ v \in Holders(p) /\ \A j \in 1 .. i : order[j] \in Holders(p) => order[j] <= v

\* What the loop has found after each id.
LEMMA WinnerSoFar ==
    ASSUME active \subseteq Nat, NEW n \in Nat, NEW order \in [1 .. n -> active],
           NEW p, NEW w, Winners(w, order, p, n)
    PROVE  WinsAmong(w[n], order, p, n)
<1> DEFINE T == {i \in 0 .. n : WinsAmong(w[i], order, p, i)}
<1>1. 0 \in T
  <2>1. w[0] = NoID
    BY DEF Winners
  <2> QED BY <2>1 DEF WinsAmong
<1>2. ASSUME NEW k \in 0 .. n - 1, k \in T PROVE k + 1 \in T
  <2> DEFINE x == order[k + 1]
             v == w[k]
  <2>1. WinsAmong(v, order, p, k) /\ k + 1 \in 1 .. n
    BY <1>2
  <2>2. x \in active /\ x \in Nat
    BY <2>1, Zenon
  <2>3. w[k + 1] = IF FaultOf(p, x) # NoFault /\ (v = NoID \/ x > v) THEN x ELSE v
    <3>1. k + 1 \in 0 .. n /\ k + 1 # 0 /\ (k + 1) - 1 = k
      BY <1>2
    <3> HIDE DEF x, v
    <3>2. w[k + 1] = IF FaultOf(p, order[k + 1]) # NoFault
                          /\ (w[(k + 1) - 1] = NoID \/ order[k + 1] > w[(k + 1) - 1])
                       THEN order[k + 1] ELSE w[(k + 1) - 1]
      BY <3>1, Zenon DEF Winners
    <3> QED BY <3>1, <3>2, Zenon DEF x, v
  <2>4. \A j \in 1 .. k + 1 : j \in 1 .. k \/ j = k + 1
    BY <1>2
  <2>5. Holders(p) \subseteq Nat /\ (x \in Holders(p) <=> FaultOf(p, x) # NoFault)
    BY <2>2, Zenon DEF Holders
  <2>6. WinsAmong(w[k + 1], order, p, k + 1)
    <3> HIDE DEF v
    <3>1. CASE x \notin Holders(p)
      BY <2>1, <2>3, <2>4, <2>5, <3>1, Zenon DEF WinsAmong
    <3>2. CASE x \in Holders(p) /\ v = NoID
      <4>1. w[k + 1] = x /\ v \notin Holders(p)
        BY <2>3, <2>5, <3>2 DEF NoID
      <4> QED BY <2>1, <2>2, <2>4, <3>2, <4>1 DEF WinsAmong
    <3>3. CASE x \in Holders(p) /\ v # NoID
      <4>1. v \in Holders(p) /\ v \in Nat
        BY <2>1, <2>5, <3>3, Zenon DEF WinsAmong
      <4>2. w[k + 1] = IF x > v THEN x ELSE v
        BY <2>3, <2>5, <3>3, Zenon
      <4>3. \A j \in 1 .. k : order[j] \in Holders(p) => order[j] <= v /\ order[j] \in Nat
        BY <2>1, <2>5, <3>3, Zenon DEF WinsAmong
      <4> QED BY <2>2, <2>4, <3>3, <4>1, <4>2, <4>3 DEF WinsAmong
    <3> QED BY <3>1, <3>2, <3>3, Zenon
  <2> QED BY <1>2, <2>6
<1> HIDE DEF T
<1>3. 0 .. n \subseteq T
  BY <1>1, <1>2, InductionUpTo, Zenon
<1>4. n \in T
  BY <1>3
<1> QED BY <1>4, Zenon DEF T

\* What effectiveFault answers for any order of the active ids.
LEMMA FaultFound ==
    ASSUME ScenInv, NEW p \in Protocols, NEW order \in Orders(active)
    PROVE  IF Holders(p) = {} THEN effectiveFault(p, order) = direct[p]
           ELSE \E top \in Holders(p) :
                  /\ \A id \in Holders(p) : id <= top
                  /\ effectiveFault(p, order) = FaultOf(p, top)
<1> DEFINE n == Cardinality(active)
           w == CHOOSE f : Winners(f, order, p, n)
<1>1. n \in Nat
  BY FS_CardinalityType, Zenon DEF ScenInv
<1>2. /\ order \in [1 .. n -> active] /\ Len(order) = n
      /\ \A id \in active : \E j \in 1 .. n : order[j] = id
  <2>1. order \in Bijection(1 .. n, active)
    BY Zenon DEF Orders
  <2>2. order \in [1 .. n -> active]
    BY <2>1, Zenon DEF Bijection, Injection
  <2>3. \A id \in active : \E j \in 1 .. n : order[j] = id
    BY <2>1, Zenon DEF Bijection, Surjection
  <2>4. order \in Seq(active) /\ Len(order) = n
    BY <1>1, <2>2
  <2> QED BY <2>2, <2>3, <2>4, Zenon
<1>3. Winners(w, order, p, n)
  BY <1>1, WinnersExist, Zenon
<1>4. effectiveFault(p, order) = IF w[n] # NoID THEN FaultOf(p, w[n]) ELSE direct[p]
  BY <1>2 DEF effectiveFault, Winners, FaultOf
<1> HIDE DEF w, n
<1>5. active \subseteq Nat
  BY ScenariosAssumption, Zenon DEF ScenInv, TypeOK
<1>6. WinsAmong(w[n], order, p, n)
  BY <1>1, <1>2, <1>3, <1>5, WinnerSoFar, Zenon
<1>7. Holders(p) \subseteq active
  BY Zenon DEF Holders
<1>8. NoID \notin Holders(p)
  BY <1>5, <1>7 DEF NoID
<1> QED BY <1>2, <1>4, <1>6, <1>7, <1>8 DEF WinsAmong

\* effectiveFault answers the fault of the greatest active id that has one,
\* and the direct fault if none has, in whatever order Go's map iteration
\* visits the active scenarios, of which there may be any number.
THEOREM FaultDetermined == Spec => []FaultInForceIsDetermined
<1>1. Init => ScenInv
  BY InitScenarios, Zenon
<1>2. ScenInv /\ [Next]_vars => ScenInv'
  BY NextScenarios, Zenon
<1>3. ScenInv => FaultInForceIsDetermined
  <2> SUFFICES ASSUME ScenInv, NEW p \in Protocols, NEW order \in Orders(active)
               PROVE  LET holders == {id \in active : scenarios[id].faults[p] # NoFault}
                      IN  IF holders = {} THEN effectiveFault(p, order) = direct[p]
                          ELSE \E top \in holders :
                                 /\ \A id \in holders : id <= top
                                 /\ effectiveFault(p, order) = scenarios[top].faults[p]
    BY Zenon DEF FaultInForceIsDetermined
  <2>1. \A id \in active : FaultOf(p, id) = scenarios[id].faults[p]
    BY Zenon DEF ScenInv, ActiveAreDefined, FaultOf
  <2>2. Holders(p) = {id \in active : scenarios[id].faults[p] # NoFault}
    BY <2>1, Zenon DEF Holders
  <2> QED BY <2>1, <2>2, FaultFound, Zenon
<1> QED BY <1>1, <1>2, <1>3, PTL DEF Spec

-----------------------------------------------------------------------------
(* Recording: sorting a diagnosis *)

\* Entry i of d comes before entry j: the greater one first, and of two equal
\* ones the one that was first.
ComesFirst(d, i, j) == d[i] > d[j] \/ (d[i] = d[j] /\ i < j)

\* s puts the n entries of d in that order.
Sorts(s, d, n) ==
    s \in [1 .. n -> 1 .. n] /\ \A i, j \in 1 .. n : i < j => ComesFirst(d, s[i], s[j])

\* One more entry can be put into a sorted list: before the first one that is
\* less close.
LEMMA SortInsert ==
    ASSUME NEW n \in Nat, NEW d \in [1 .. n + 1 -> Nat], NEW s, Sorts(s, d, n)
    PROVE  \E t : Sorts(t, d, n + 1)
<1> DEFINE e == n + 1
           P == {p \in 1 .. n : d[s[p]] < d[e]} \cup {e}
<1>1. PICK q \in P : \A p \in P : q <= p
  <2>1. P \in SUBSET Nat /\ P # {}
    OBVIOUS
  <2> HIDE DEF P
  <2> QED BY <2>1, LeastElement, Zenon
<1>2. q \in 1 .. e
  BY <1>1
<1>a. s \in [1 .. n -> 1 .. n]
  BY Zenon DEF Sorts
<1>b. \A i \in 1 .. n : s[i] \in 1 .. n
  BY <1>a, Zenon
<1>c. \A i \in 1 .. e : d[i] \in Nat
  BY Zenon
<1>d. \A i \in 1 .. n : d[s[i]] \in Nat /\ d[e] \in Nat /\ s[i] < e
  BY <1>b, <1>c
<1>3. \A i, j \in 1 .. n : i < j => ComesFirst(d, s[i], s[j])
  BY Zenon DEF Sorts
<1>4. ASSUME NEW p \in 1 .. n, p < q PROVE ComesFirst(d, s[p], e)
  <2>3. ~(p \in P)
    BY <1>1, <1>2, <1>4
  <2>4. ~(d[s[p]] < d[e])
    BY <2>3, Zenon
  <2> QED BY <1>d, <2>4 DEF ComesFirst
<1>5. ASSUME NEW p \in 1 .. n, q <= p PROVE ComesFirst(d, e, s[p])
  <2>0. q \in 1 .. n /\ q # e
    BY <1>2, <1>5
  <2>1. d[s[q]] < d[e]
    BY <1>1, <2>0, Zenon
  <2>2. d[s[q]] \in Nat /\ d[s[p]] \in Nat /\ d[e] \in Nat
    BY <1>d, <2>0, Zenon
  <2>3. d[s[p]] <= d[s[q]]
    <3>1. CASE p = q
      BY <2>2, <3>1
    <3>2. CASE p # q
      <4>1. ComesFirst(d, s[q], s[p])
        BY <1>3, <1>5, <2>0, <3>2
      <4> QED BY <4>1, <2>2 DEF ComesFirst
    <3> QED BY <3>1, <3>2, Zenon
  <2> QED BY <2>1, <2>2, <2>3 DEF ComesFirst
<1> DEFINE t == [p \in 1 .. e |-> IF p < q THEN s[p] ELSE IF p = q THEN e ELSE s[p - 1]]
<1>6. ASSUME NEW p \in 1 .. e
      PROVE  /\ p < q => p \in 1 .. n /\ t[p] = s[p]
             /\ p = q => t[p] = e
             /\ p > q => p - 1 \in 1 .. n /\ q <= p - 1 /\ t[p] = s[p - 1]
             /\ p < q \/ p = q \/ p > q
  BY <1>2
<1>7. t \in [1 .. e -> 1 .. e]
  <2>0. ASSUME NEW p \in 1 .. n PROVE s[p] \in 1 .. e
    BY <1>b
  <2>1. ASSUME NEW p \in 1 .. e PROVE t[p] \in 1 .. e
    <3>1. CASE p < q
      BY <1>6, <2>0, <3>1, Zenon
    <3>2. CASE p = q
      BY <1>6, <3>2
    <3>3. CASE p > q
      BY <1>6, <2>0, <3>3, Zenon
    <3> QED BY <1>6, <3>1, <3>2, <3>3, Zenon
  <2> QED BY <2>1, Zenon
<1> HIDE DEF t
<1>8. ASSUME NEW i \in 1 .. e, NEW j \in 1 .. e, i < j PROVE ComesFirst(d, t[i], t[j])
  <2>0. i \in Nat /\ j \in Nat /\ q \in Nat
    BY <1>2
  <2>1. CASE j < q
    <3>1. i < q
      BY <2>0, <2>1, <1>8
    <3> QED BY <1>3, <1>6, <1>8, <2>1, <3>1, Zenon
  <2>2. CASE j = q
    <3>1. i < q
      BY <2>0, <2>2, <1>8, Zenon
    <3> QED BY <1>4, <1>6, <2>2, <3>1, Zenon
  <2>3. CASE j > q /\ i = q
    BY <1>5, <1>6, <2>3
  <2>4. CASE j > q /\ i < q
    <3>1. i < j - 1
      BY <2>0, <2>4
    <3> QED BY <1>3, <1>6, <2>4, <3>1, Zenon
  <2>5. CASE j > q /\ i > q
    <3>1. i - 1 < j - 1
      BY <2>0, <1>8
    <3> QED BY <1>3, <1>6, <2>5, <3>1, Zenon
  <2> QED BY <1>6, <2>1, <2>2, <2>3, <2>4, <2>5, Zenon
<1>9. Sorts(t, d, n + 1)
  BY <1>7, <1>8, Zenon DEF Sorts
<1> QED BY <1>9, Zenon

\* A list of any length can be sorted.
LEMMA SortExists ==
    ASSUME NEW n \in Nat, NEW d \in [1 .. n -> Nat]
    PROVE  \E s : Sorts(s, d, n)
<1> DEFINE T == {k \in Nat : k <= n => \E s : Sorts(s, [i \in 1 .. k |-> d[i]], k)}
<1>1. 0 \in T
  <2>1. Sorts([i \in 1 .. 0 |-> 0], [i \in 1 .. 0 |-> d[i]], 0)
    BY DEF Sorts
  <2> QED BY <2>1, Zenon
<1>2. ASSUME NEW k \in 0 .. n - 1, k \in T PROVE k + 1 \in T
  <2> DEFINE a == [i \in 1 .. k |-> d[i]]
             b == [i \in 1 .. k + 1 |-> d[i]]
  <2>1. k \in Nat /\ k <= n /\ k + 1 <= n /\ k + 1 \in Nat
    OBVIOUS
  <2>2. PICK s : Sorts(s, a, k)
    BY <1>2, <2>1, Zenon
  <2>3. b \in [1 .. k + 1 -> Nat]
    BY <2>1
  <2>4. Sorts(s, b, k)
    <3>1. \A i \in 1 .. k : a[i] = b[i]
      BY <2>1
    <3> HIDE DEF a, b
    <3>2. s \in [1 .. k -> 1 .. k] /\ \A i, j \in 1 .. k : i < j => ComesFirst(a, s[i], s[j])
      BY <2>2, Zenon DEF Sorts
    <3>3. ASSUME NEW i \in 1 .. k, NEW j \in 1 .. k, i < j PROVE ComesFirst(b, s[i], s[j])
      <4>1. s[i] \in 1 .. k /\ s[j] \in 1 .. k /\ ComesFirst(a, s[i], s[j])
        BY <3>2, <3>3, Zenon
      <4>2. a[s[i]] = b[s[i]] /\ a[s[j]] = b[s[j]]
        BY <3>1, <4>1, Zenon
      <4> QED BY <4>1, <4>2, Zenon DEF ComesFirst
    <3> QED BY <3>2, <3>3, Zenon DEF Sorts
  <2>5. \E t : Sorts(t, b, k + 1)
    <3> HIDE DEF b
    <3> QED BY <2>1, <2>3, <2>4, SortInsert, Zenon
  <2> QED BY <2>1, <2>5, Zenon
<1>3. n \in T
  <2> HIDE DEF T
  <2>1. 0 .. n \subseteq T
    BY <1>1, <1>2, InductionUpTo, Zenon
  <2> QED BY <2>1
<1>4. [i \in 1 .. n |-> d[i]] = d
  BY Zenon
<1> QED BY <1>3, <1>4

\* The same, with what d and n are.
Sorted(s, d, n) == n \in Nat /\ d \in [1 .. n -> Nat] /\ Sorts(s, d, n)

\* A sorted list has every entry.
LEMMA SortIsOnto ==
    ASSUME NEW n, NEW d, NEW s, Sorted(s, d, n)
    PROVE  \A i \in 1 .. n : \E p \in 1 .. n : s[p] = i
<1>0. n \in Nat /\ d \in [1 .. n -> Nat] /\ Sorts(s, d, n)
  BY Zenon DEF Sorted
<1>1. s \in [1 .. n -> 1 .. n] /\ \A p, q \in 1 .. n : p < q => ComesFirst(d, s[p], s[q])
  BY <1>0, Zenon DEF Sorts
<1>2. ASSUME NEW p \in 1 .. n, NEW q \in 1 .. n, s[p] = s[q] PROVE p = q
  <2>1. ASSUME NEW x \in 1 .. n PROVE ~ComesFirst(d, x, x)
    BY <1>0 DEF ComesFirst
  <2>2. ~(p < q) /\ ~(q < p)
    BY <1>1, <1>2, <2>1, Zenon
  <2> QED BY <1>0, <2>2
<1>3. s \in Injection(1 .. n, 1 .. n)
  BY <1>1, <1>2, Zenon DEF Injection, IsInjective
<1>4. IsFiniteSet(1 .. n)
  BY <1>0, FS_Interval
<1>5. s \in Surjection(1 .. n, 1 .. n)
  BY <1>3, <1>4, FS_Injection, Zenon
<1> QED BY <1>5, Zenon DEF Surjection

-----------------------------------------------------------------------------
(* Recording: what Report makes of the mocks that came near *)

\* How close each entry came.
Depths(near) == [i \in 1 .. Len(near) |-> near[i].depth]

\* The entries of a list, one by one.
LEMMA Entries ==
    ASSUME NEW X, NEW near \in Seq([id : X, depth : Nat])
    PROVE  /\ Len(near) \in Nat /\ DOMAIN near = 1 .. Len(near)
           /\ \A i \in 1 .. Len(near) : near[i] \in [id : X, depth : Nat] /\ near[i].depth \in Nat
           /\ Depths(near) \in [1 .. Len(near) -> Nat]
           /\ \A i \in 1 .. Len(near) : Depths(near)[i] = near[i].depth
<1> DEFINE E == [id : X, depth : Nat]
<1>1. \A e \in E : e.depth \in Nat
  BY Zenon
<1> HIDE DEF E
<1>2. near \in Seq(E)
  BY Zenon DEF E
<1>3. Len(near) \in Nat /\ DOMAIN near = 1 .. Len(near) /\ \A i \in 1 .. Len(near) : near[i] \in E
  BY <1>2, LenProperties, ElementOfSeq, Zenon
<1>4. \A i \in 1 .. Len(near) : near[i].depth \in Nat
  BY <1>1, <1>3, Zenon
<1>5. /\ Depths(near) \in [1 .. Len(near) -> Nat]
      /\ \A i \in 1 .. Len(near) : Depths(near)[i] = near[i].depth
  BY <1>4, Zenon DEF Depths
<1> QED BY <1>3, <1>4, <1>5, Zenon DEF E

\* The order that Report chooses sorts the entries.
LEMMA OrderOfReport ==
    ASSUME NEW X, NEW near \in Seq([id : X, depth : Nat])
    PROVE  \E s : /\ Sorted(s, Depths(near), Len(near))
                  /\ Report(near) = [n \in 1 .. (IF Len(near) > 3 THEN 3 ELSE Len(near))
                                         |-> near[s[n]]]
<1> DEFINE N == Len(near)
           d == Depths(near)
           G(s) == \A i, j \in 1 .. N : i < j =>
                       \/ near[s[i]].depth > near[s[j]].depth
                       \/ near[s[i]].depth = near[s[j]].depth /\ s[i] < s[j]
<1>1. N \in Nat
  BY Entries, Zenon
<1>2. d \in [1 .. N -> Nat] /\ \A i \in 1 .. N : d[i] = near[i].depth
  BY Entries, Zenon
<1> HIDE DEF N, d
<1>3. ASSUME NEW s \in [1 .. N -> 1 .. N] PROVE G(s) <=> Sorts(s, d, N)
  <2>1. ASSUME NEW i \in 1 .. N PROVE d[s[i]] = near[s[i]].depth
    BY <1>2, Zenon
  <2> QED BY <2>1 DEF Sorts, ComesFirst
<1>4. \E s \in [1 .. N -> 1 .. N] : G(s)
  <2>1. PICK s : Sorts(s, d, N)
    BY <1>1, <1>2, SortExists, Zenon
  <2>2. s \in [1 .. N -> 1 .. N]
    BY <2>1, Zenon DEF Sorts
  <2> HIDE DEF G
  <2> QED BY <1>3, <2>1, <2>2, Zenon
<1> DEFINE order == CHOOSE s \in [1 .. N -> 1 .. N] : G(s)
<1>5. order \in [1 .. N -> 1 .. N] /\ G(order)
  <2> HIDE DEF G
  <2> QED BY <1>4, Zenon
<1>6. Sorted(order, d, N)
  <2> HIDE DEF G, order
  <2> QED BY <1>1, <1>2, <1>3, <1>5, Zenon DEF Sorted
<1>7. Report(near) = [n \in 1 .. (IF N > 3 THEN 3 ELSE N) |-> near[order[n]]]
  BY Zenon DEF Report, httpDiagnoseTopN, N
<1> HIDE DEF order
<1> QED BY <1>6, <1>7, Zenon DEF N, d

\* What a report of entries says: they are entries, the closest come first,
\* and one that is left out came no closer than any that is named.
LEMMA ReportOfEntries ==
    ASSUME NEW X, NEW near \in Seq([id : X, depth : Nat])
    PROVE  /\ Report(near) \in Seq([id : X, depth : Nat])
           /\ \A n \in 1 .. Len(Report(near)) : \E i \in 1 .. Len(near) : Report(near)[n] = near[i]
           /\ \A n \in 1 .. (Len(Report(near)) - 1) :
                 Report(near)[n].depth >= Report(near)[n + 1].depth
           /\ \A i \in 1 .. Len(near) :
                 \/ \E n \in 1 .. Len(Report(near)) : Report(near)[n] = near[i]
                 \/ /\ Len(Report(near)) = 3
                    /\ \A n \in 1 .. Len(Report(near)) : Report(near)[n].depth >= near[i].depth
<1> DEFINE N == Len(near)
           d == Depths(near)
           top == IF N > 3 THEN 3 ELSE N
           rep == Report(near)
<1>1. PICK s : Sorted(s, d, N) /\ rep = [n \in 1 .. top |-> near[s[n]]]
  BY OrderOfReport, Zenon
<1>0. N \in Nat
  BY Entries, Zenon
<1>2. N \in Nat /\ top \in 0 .. N /\ (top = N \/ top = 3)
  BY <1>0
<1>3. d \in [1 .. N -> Nat] /\ \A i \in 1 .. N : d[i] = near[i].depth
  BY Entries, Zenon
<1>4. \A i \in 1 .. N : near[i] \in [id : X, depth : Nat]
  BY Entries, Zenon
<1> HIDE DEF N, d, top, rep
<1>5. /\ \A n \in 1 .. N : s[n] \in 1 .. N
      /\ \A i, j \in 1 .. N : i < j => ComesFirst(d, s[i], s[j])
  BY <1>1, Zenon DEF Sorted, Sorts
<1>6. \A n \in 1 .. top : n \in 1 .. N /\ rep[n] = near[s[n]]
  BY <1>1, <1>2
<1>7. rep \in Seq([id : X, depth : Nat]) /\ Len(rep) = top
  <2> DEFINE E == [id : X, depth : Nat]
  <2>1. \A n \in 1 .. top : near[s[n]] \in E
    BY <1>4, <1>5, <1>6, Zenon
  <2> HIDE DEF E
  <2>2. rep \in [1 .. top -> E] /\ top \in Nat
    <3>1. top \in Nat
      BY <1>2
    <3> QED BY <1>1, <2>1, <3>1, Zenon
  <2>3. rep \in Seq(E) /\ Len(rep) = top
    BY ONLY <2>2
  <2> QED BY <2>3, Zenon DEF E
<1>8. ASSUME NEW i \in 1 .. N, NEW j \in 1 .. N, i <= j
      PROVE  near[s[i]].depth >= near[s[j]].depth
  <2>1. d[s[i]] = near[s[i]].depth /\ d[s[j]] = near[s[j]].depth
    BY <1>3, <1>5, Zenon
  <2>2. d[s[i]] \in Nat /\ d[s[j]] \in Nat
    BY <1>3, <1>5, Zenon
  <2>3. CASE i = j
    BY <2>1, <2>2, <2>3
  <2>4. CASE i < j
    <3>1. ComesFirst(d, s[i], s[j])
      BY <1>5, <2>4, Zenon
    <3>2. d[s[i]] >= d[s[j]]
      BY <2>2, <3>1 DEF ComesFirst
    <3> QED BY <2>1, <3>2, Zenon
  <2> QED BY <1>8, <2>3, <2>4
<1>9. \A n \in 1 .. top : \E i \in 1 .. N : rep[n] = near[i]
  BY <1>5, <1>6, Zenon
<1>10. \A n \in 1 .. (top - 1) : rep[n].depth >= rep[n + 1].depth
  <2>1. ASSUME NEW n \in 1 .. (top - 1) PROVE rep[n].depth >= rep[n + 1].depth
    <3>1. n \in 1 .. top /\ n + 1 \in 1 .. top /\ n <= n + 1
      BY <1>2
    <3> QED BY <1>6, <1>8, <3>1, Zenon
  <2> QED BY <2>1, Zenon
<1>11. \A i \in 1 .. N : \E p \in 1 .. N : s[p] = i
  <2>1. Sorted(s, d, N)
    BY <1>1, Zenon
  <2> QED BY ONLY <2>1, SortIsOnto
<1>12. ASSUME NEW i \in 1 .. N
       PROVE  \/ \E n \in 1 .. top : rep[n] = near[i]
              \/ top = 3 /\ \A n \in 1 .. top : rep[n].depth >= near[i].depth
  <2>1. PICK p \in 1 .. N : s[p] = i
    BY <1>11, Zenon
  <2>2. CASE p <= top
    <3>1. p \in 1 .. top
      BY <1>2, <2>2
    <3> QED BY <1>6, <2>1, <3>1, Zenon
  <2>3. CASE p > top
    <3>1. top = 3
      BY <1>2, <2>3
    <3>2. ASSUME NEW n \in 1 .. top PROVE rep[n].depth >= near[i].depth
      <4>1. n \in 1 .. N /\ n <= p /\ rep[n] = near[s[n]]
        BY <1>2, <1>6, <2>3
      <4> QED BY <1>8, <2>1, <4>1, Zenon
    <3> QED BY <3>1, <3>2, Zenon
  <2>4. p <= top \/ p > top
    BY <1>2
  <2> QED BY <2>2, <2>3, <2>4, Zenon
<1> QED BY <1>7, <1>9, <1>10, <1>12, Zenon DEF N, rep

-----------------------------------------------------------------------------
(* Recording: the walks over the list *)

\* Failing and Depth when the state key has the value v.
FailingAt(v, m, k) ==
    IF m.kind # "" THEN IF m.kind = k THEN {} ELSE {"path"}
    ELSE Rejects[m.id][k] \cup (IF When[m.id] \in {"", v} THEN {} ELSE {"state"})

DepthAt(v, m, k) ==
    Cardinality({n \in DOMAIN Checks : \A j \in 1..n : Checks[j] \notin FailingAt(v, m, k)})

\* They are Failing and Depth at the value the key has.
LEMMA AtStore ==
    \A m, k : Failing(m, k) = FailingAt(store, m, k) /\ Depth(m, k) = DepthAt(store, m, k)
<1>1. \A m, k : Failing(m, k) = FailingAt(store, m, k)
  BY Zenon DEF Failing, FailingAt
<1>2. ASSUME NEW m, NEW k PROVE Depth(m, k) = DepthAt(store, m, k)
  BY Zenon DEF Depth, DepthAt, Failing, FailingAt
<1> QED BY <1>1, <1>2, Zenon

\* The mocks the recorder makes, those it finds, and those a list may have.
RecordedMock == [id : Nat, kind : Kinds, answer : Nat]
GivenMock == {Given(id) : id \in Configured}
ListedMock == GivenMock \cup RecordedMock

\* The checks that fail are checks.
LEMMA FailingIsChecks ==
    ASSUME NEW v, NEW m \in ListedMock, NEW k \in Kinds
    PROVE  FailingAt(v, m, k) \subseteq Range(Checks)
<1>1. "path" \in Range(Checks) /\ "state" \in Range(Checks)
  <2>1. 2 \in DOMAIN Checks /\ Checks[2] = "path" /\ 10 \in DOMAIN Checks /\ Checks[10] = "state"
    BY DEF Checks
  <2> QED BY <2>1, Zenon DEF Range
<1>2. CASE m.kind # ""
  BY <1>1, <1>2, Zenon DEF FailingAt
<1>3. CASE m.kind = ""
  <2>1. PICK id \in Configured : m = Given(id)
    BY <1>3, RecordingAssumption, Zenon DEF ListedMock, GivenMock, RecordedMock
  <2>2. m.id = id
    BY <2>1, Zenon DEF Given
  <2>3. Rejects[id][k] \subseteq Range(Checks)
    <3>1. Rejects \in [Configured -> [Kinds -> SUBSET Range(Checks)]]
      BY RecordingAssumption, Zenon
    <3>2. Rejects[id] \in [Kinds -> SUBSET Range(Checks)]
      BY <3>1, Zenon
    <3> QED BY <3>2, Zenon
  <2> QED BY <1>1, <1>3, <2>2, <2>3, Zenon DEF FailingAt
<1> QED BY <1>2, <1>3, Zenon

\* A mock that fails a check is not reported as passing all of them.
LEMMA DepthBound ==
    ASSUME NEW v, NEW m \in ListedMock, NEW k \in Kinds
    PROVE  /\ DepthAt(v, m, k) \in Nat
           /\ FailingAt(v, m, k) # {} => DepthAt(v, m, k) < Len(Checks)
<1> DEFINE F == FailingAt(v, m, k)
           D == {n \in DOMAIN Checks : \A j \in 1..n : Checks[j] \notin F}
<1>1. Len(Checks) = 11 /\ DOMAIN Checks = 1 .. 11
  BY DEF Checks
<1>2. F \subseteq Range(Checks)
  BY FailingIsChecks, Zenon
<1> HIDE DEF F
<1>3. D \in SUBSET (1 .. 11)
  BY <1>1, Zenon
<1>4. IsFiniteSet(1 .. 11) /\ IsFiniteSet(1 .. 10) /\ Cardinality(1 .. 10) = 10
  <2>1. ASSUME NEW n \in Nat PROVE IsFiniteSet(1 .. n) /\ Cardinality(1 .. n) = n
    BY FS_Interval
  <2>2. 10 \in Nat /\ 11 \in Nat
    BY Zenon
  <2> QED BY <2>1, <2>2, Zenon
<1>5. ASSUME F # {} PROVE D \in SUBSET (1 .. 10)
  <2>1. PICK e : e \in F
    BY <1>5, Zenon
  <2>2. PICK j \in 1 .. 11 : Checks[j] = e
    BY <1>1, <1>2, <2>1, Zenon DEF Range
  <2>3. 11 \notin D
    BY <2>1, <2>2, Zenon
  <2> QED BY <1>3, <2>3
<1> HIDE DEF D
<1>6. Cardinality(D) \in Nat
  <2>1. IsFiniteSet(D)
    BY <1>3, <1>4, FS_Subset, Zenon
  <2> QED BY <2>1, FS_CardinalityType, Zenon
<1>7. F # {} => Cardinality(D) <= 10
  BY <1>4, <1>5, FS_Subset
<1>8. DepthAt(v, m, k) = Cardinality(D)
  BY Zenon DEF DepthAt, D, F
<1> QED BY <1>1, <1>6, <1>7, <1>8 DEF F

-----------------------------------------------------------------------------
(* Recording: the invariant *)

\* An entry of a diagnosis, and a request with all it has seen.
Near == [id : Nat \cup Configured, depth : Nat]
Stages == {"idle", "match", "matched", "forward", "capture", "install", "recorded",
           "diagnose", "diagnosed", "unmatched"}
Request == [stage : Stages, kind : Kinds \cup {""}, view : Seq(ListedMock), i : Nat,
            near : Seq(Near), got : Nat, mock : ListedMock \cup {Given(0)}, steady : BOOLEAN]

\* The entry of a diagnosis for mock m.
Entry(v, m, k) == [id |-> m.id, depth |-> DepthAt(v, m, k)]

\* Every mock of r's list before its n-th fails a check.
FailBefore(r, v, n) == \A j \in 1 .. Len(r.view) : j < n => FailingAt(v, r.view[j], r.kind) # {}

\* near has the entries of the first n mocks of r's list.
EntriesUpTo(r, v, near, n) == Len(near) = n /\ \A j \in 1 .. n : near[j] = Entry(v, r.view[j], r.kind)

\* How far a walk has come, while the state key keeps its value v.
WalkOf(r, v) ==
    /\ r.stage = "match" => FailBefore(r, v, r.i) /\ r.near = << >>
    /\ r.stage = "matched" => /\ r.i \in 1 .. Len(r.view) /\ FailBefore(r, v, r.i)
                              /\ r.mock = r.view[r.i] /\ FailingAt(v, r.mock, r.kind) = {}
    /\ r.stage \in {"forward", "diagnose", "diagnosed"} => FailBefore(r, v, Len(r.view) + 1)
    /\ r.stage = "forward" => r.near = << >>
    /\ r.stage = "diagnose" => EntriesUpTo(r, v, r.near, r.i - 1)
    /\ r.stage = "diagnosed" =>
          \E all \in Seq(Near) : EntriesUpTo(r, v, all, Len(r.view)) /\ r.near = Report(all)

\* What holds of one request, given the state key and the recorder.
Sound(r, v, rec) ==
    /\ r.stage # "idle" => r.kind \in Kinds
    /\ r.stage \in {"match", "diagnose"} => r.i \in 1 .. Len(r.view) + 1
    /\ r.stage = "forward" => r.i = 1
    /\ r.steady => WalkOf(r, v)
    /\ r.stage = "install" => r.mock \in Range(rec) /\ r.mock.kind = r.kind

\* The types.
RecTypes ==
    /\ live \in Seq(ListedMock)
    /\ recorded \in Seq(RecordedMock) /\ saved \in Seq(RecordedMock)
    /\ copies \subseteq Seq(ListedMock)
    /\ upstream \in Nat
    /\ req \in [Clients -> Request]

\* What is recorded, saved and served; a copy that was taken earlier is as good
\* as the list, and may be put back.
OnceAndSaved ==
    /\ Continues(recorded, saved) /\ RecordedOnce
    /\ \A list \in copies : OnceIn(list, recorded)

\* The inductive invariant.
RecInv ==
    /\ RecTypes
    /\ OnceAndSaved
    /\ \A c \in Clients : Sound(req[c], store, recorded)

\* OnceAndSaved does not depend on the rest of the state.
LEMMA OnceStays ==
    ASSUME OnceAndSaved, recorded' = recorded, saved' = saved, live' = live, copies' = copies
    PROVE  OnceAndSaved'
BY ZenonT(30) DEF OnceAndSaved, RecordedOnce

\* A step of client c that makes its request r and leaves the others alone.
Serves(c, r) == r \in Request /\ req' = [req EXCEPT ![c] = r]

\* The requests of the other clients, and what they have seen, stay as they are.
LEMMA OthersStay ==
    ASSUME RecInv, NEW c \in Clients, NEW r, Serves(c, r), Sound(r, store, recorded'),
           store' = store, Range(recorded) \subseteq Range(recorded')
    PROVE  /\ req' \in [Clients -> Request]
           /\ \A d \in Clients : Sound(req'[d], store', recorded')
<1>1. req' \in [Clients -> Request] /\ \A d \in Clients : req'[d] = IF d = c THEN r ELSE req[d]
  BY Zenon DEF RecInv, RecTypes, Serves
<1>2. ASSUME NEW d \in Clients PROVE Sound(req'[d], store', recorded')
  <2>1. CASE d = c
    BY <1>1, <2>1, Zenon
  <2>2. CASE d # c
    <3>1. req'[d] = req[d] /\ Sound(req[d], store, recorded)
      BY <1>1, <2>2, Zenon DEF RecInv
    <3> QED BY <3>1, Zenon DEF Sound
  <2> QED BY <2>1, <2>2, Zenon
<1> QED BY <1>1, <1>2, Zenon

\* A client that waits for nothing satisfies the invariant.
LEMMA RestIsSound ==
    /\ AtRest \in Request
    /\ AtRest.stage = "idle" /\ AtRest.near = << >> /\ AtRest.steady = TRUE
    /\ \A v, rec : Sound(AtRest, v, rec)
<1>1. /\ AtRest \in Request
      /\ AtRest.stage = "idle" /\ AtRest.near = << >> /\ AtRest.steady = TRUE
  BY DEF AtRest, Request, Stages
<1>2. ASSUME NEW v, NEW rec PROVE Sound(AtRest, v, rec)
  BY <1>1, Zenon DEF Sound, WalkOf
<1> QED BY <1>1, <1>2, Zenon

\* The invariant holds at start.
LEMMA RecInitInv == RecInit => RecInv
<1> SUFFICES ASSUME RecInit PROVE RecInv
  BY Zenon
<1>1. live \in Lists /\ recorded = << >> /\ saved = << >> /\ copies = {} /\ upstream = 1
      /\ req = [c \in Clients |-> AtRest]
  BY Zenon DEF RecInit
<1>2. live \in Seq(GivenMock) /\ live \in Seq(ListedMock)
  <2>1. live \in Seq(GivenMock)
    BY <1>1, RecordingAssumption, Zenon DEF GivenMock
  <2> QED BY <2>1, SeqMonotonic, Zenon DEF ListedMock
<1>3. ASSUME NEW i \in DOMAIN live PROVE live[i].answer = 0
  <2>1. live[i] \in GivenMock
    BY <1>2, <1>3
  <2>2. PICK id \in Configured : live[i] = Given(id)
    BY <2>1, Zenon DEF GivenMock
  <2>3. Given(id).answer = 0
    BY Zenon DEF Given
  <2> QED BY <2>2, <2>3, Zenon
<1>4. OnceAndSaved
  <2>1. Continues(recorded, saved)
    BY <1>1 DEF Continues
  <2>2. DOMAIN recorded = {}
    BY <1>1
  <2> QED BY <1>1, <1>3, <2>1, <2>2, Zenon DEF OnceAndSaved, RecordedOnce, OnceIn
<1>5. AtRest \in Request /\ Sound(AtRest, store, recorded)
  BY RestIsSound, Zenon
<1>6. RecTypes /\ \A c \in Clients : req[c] = AtRest
  <2>1. req \in [Clients -> Request] /\ \A c \in Clients : req[c] = AtRest
    BY <1>1, <1>5, Zenon
  <2>2. recorded \in Seq(RecordedMock) /\ saved \in Seq(RecordedMock) /\ upstream \in Nat
    BY <1>1
  <2> QED BY <1>1, <1>2, <2>1, <2>2, Zenon DEF RecTypes
<1> QED BY <1>4, <1>5, <1>6, Zenon DEF RecInv

-----------------------------------------------------------------------------
(* Recording: the steps *)

\* What the invariant says of one request.
LEMMA RequestFields ==
    ASSUME RecInv, NEW c \in Clients
    PROVE  /\ req[c] \in Request
           /\ req[c].stage \in Stages /\ req[c].kind \in Kinds \cup {""}
           /\ req[c].view \in Seq(ListedMock) /\ req[c].i \in Nat
           /\ req[c].near \in Seq(Near) /\ req[c].got \in Nat
           /\ req[c].mock \in ListedMock \cup {Given(0)} /\ req[c].steady \in BOOLEAN
           /\ Sound(req[c], store, recorded)
           /\ req \in [Clients -> Request]
<1>1. req[c] \in Request /\ req \in [Clients -> Request] /\ Sound(req[c], store, recorded)
  BY Zenon DEF RecInv, RecTypes
<1> QED BY <1>1, Zenon DEF Request

\* A request arrives, and takes the list as it is (HTTPMatch).
LEMMA ArriveStep ==
    ASSUME RecInv, NEW c \in Clients, NEW k \in Kinds, Arrive(c, k)
    PROVE  \E q : Serves(c, q) /\ Sound(q, store, recorded)
<1> DEFINE q == [AtRest EXCEPT !.stage = "match", !.kind = k, !.view = live, !.i = 1]
<1>1. req' = [req EXCEPT ![c] = q]
  BY Zenon DEF Arrive, Goes
<1>2. live \in Seq(ListedMock)
  BY Zenon DEF RecInv, RecTypes
<1>3. /\ q \in Request /\ q.stage = "match" /\ q.kind = k /\ q.view = live /\ q.i = 1
      /\ q.near = << >>
  BY <1>2, RestIsSound, Zenon DEF Request, Stages
<1> HIDE DEF q
<1>4. Len(live) \in Nat
  BY <1>2
<1>5. FailBefore(q, store, q.i)
  BY <1>3, <1>4 DEF FailBefore
<1>6. WalkOf(q, store)
  BY <1>3, <1>5, Zenon DEF WalkOf
<1>7. Sound(q, store, recorded)
  BY <1>3, <1>4, <1>6 DEF Sound
<1> QED BY <1>1, <1>3, <1>7, Zenon DEF Serves

\* The walk tries one mock: the first that matches ends it.
LEMMA TryStep ==
    ASSUME RecInv, NEW c \in Clients, Try(c)
    PROVE  \E q : Serves(c, q) /\ Sound(q, store, recorded)
<1> DEFINE r == req[c]
           n == Len(r.view)
<1>0. r \in Request /\ r.view \in Seq(ListedMock) /\ r.i \in Nat
  BY RequestFields, Zenon
<1>1. r.stage = "match" /\ r.kind \in Kinds /\ (r.steady => WalkOf(r, store))
      /\ n \in Nat /\ r.i \in 1 .. n + 1
  <2>1. r.stage = "match" /\ Sound(r, store, recorded)
    BY RequestFields, Zenon DEF Try
  <2>2. n \in Nat
    BY <1>0
  <2> QED BY <2>1, <2>2, Zenon DEF Sound
<1> HIDE DEF n
<1>2. CASE r.i > n
  <2> DEFINE st == IF recorder THEN "forward" ELSE "diagnose"
             q == [r EXCEPT !.stage = st, !.i = 1]
  <2>1. req' = [req EXCEPT ![c] = q]
    BY <1>2, Zenon DEF Try, Goes, n
  <2>2. st \in {"forward", "diagnose"}
    BY Zenon
  <2> HIDE DEF st
  <2>3. q \in Request /\ q.stage = st /\ q.i = 1 /\ q.view = r.view /\ q.kind = r.kind
        /\ q.near = r.near /\ q.steady = r.steady
    BY <1>0, <2>2, Zenon DEF Request, Stages
  <2> HIDE DEF q
  <2>4. ASSUME r.steady PROVE WalkOf(q, store)
    <3>1. r.i = n + 1
      BY <1>0, <1>1, <1>2
    <3>2. FailBefore(r, store, n + 1) /\ r.near = << >>
      BY <1>1, <2>4, <3>1, Zenon DEF WalkOf
    <3>3. FailBefore(q, store, Len(q.view) + 1)
      BY <2>3, <3>2, Zenon DEF FailBefore, n
    <3>4. EntriesUpTo(q, store, q.near, q.i - 1)
      BY <2>3, <3>2 DEF EntriesUpTo
    <3> QED BY <2>2, <2>3, <3>2, <3>3, <3>4, Zenon DEF WalkOf
  <2>5. Sound(q, store, recorded)
    <3>1. 1 \in 1 .. n + 1
      BY <1>1
    <3> QED BY <1>1, <2>2, <2>3, <2>4, <3>1, Zenon DEF Sound, n
  <2> QED BY <2>1, <2>3, <2>5, Zenon DEF Serves
<1>3. CASE ~(r.i > n) /\ Failing(r.view[r.i], r.kind) = {}
  <2> DEFINE q == [r EXCEPT !.stage = "matched", !.mock = r.view[r.i]]
  <2>1. req' = [req EXCEPT ![c] = q]
    BY <1>3, Zenon DEF Try, Goes, n
  <2>2. r.i \in 1 .. n
    BY <1>1, <1>3
  <2>3. r.view[r.i] \in ListedMock
    BY <1>0, <2>2, ElementOfSeq, Zenon DEF n
  <2>4. q \in Request /\ q.stage = "matched" /\ q.mock = r.view[r.i] /\ q.i = r.i /\ q.view = r.view
        /\ q.kind = r.kind /\ q.steady = r.steady
    BY <1>0, <2>3, Zenon DEF Request, Stages
  <2> HIDE DEF q
  <2>5. FailingAt(store, r.view[r.i], r.kind) = {}
    BY <1>3, AtStore, Zenon
  <2>6. ASSUME r.steady PROVE WalkOf(q, store)
    <3>1. FailBefore(r, store, r.i)
      BY <1>1, <2>6, Zenon DEF WalkOf
    <3>2. FailBefore(q, store, q.i)
      BY <2>4, <3>1, Zenon DEF FailBefore
    <3> QED BY <2>2, <2>4, <2>5, <3>2, Zenon DEF WalkOf, n
  <2>7. Sound(q, store, recorded)
    BY <1>1, <2>4, <2>6, Zenon DEF Sound
  <2> QED BY <2>1, <2>4, <2>7, Zenon DEF Serves
<1>4. CASE ~(r.i > n) /\ Failing(r.view[r.i], r.kind) # {}
  <2> DEFINE q == [r EXCEPT !.i = r.i + 1]
  <2>1. req' = [req EXCEPT ![c] = q]
    BY <1>4, Zenon DEF Try, Goes, n
  <2>2. r.i \in 1 .. n
    BY <1>1, <1>4
  <2>4. q \in Request /\ q.stage = "match" /\ q.i = r.i + 1 /\ q.view = r.view
        /\ q.kind = r.kind /\ q.steady = r.steady /\ q.near = r.near
    <3> DEFINE k == r.i + 1
    <3>1. k \in Nat
      BY <1>0
    <3> HIDE DEF k
    <3>2. q = [r EXCEPT !.i = k]
      BY Zenon DEF k
    <3> HIDE DEF q
    <3>3. q \in Request /\ q.i = k
      BY <1>0, <3>1, <3>2, Zenon DEF Request
    <3>4. q.stage = r.stage /\ q.view = r.view /\ q.kind = r.kind /\ q.steady = r.steady /\ q.near = r.near
      BY <1>0, <3>2, Zenon DEF Request
    <3> QED BY <1>1, <3>3, <3>4, Zenon DEF k
  <2> HIDE DEF q
  <2>5. FailingAt(store, r.view[r.i], r.kind) # {}
    BY <1>4, AtStore, Zenon
  <2>6. ASSUME r.steady PROVE WalkOf(q, store)
    <3>1. FailBefore(r, store, r.i) /\ r.near = << >>
      BY <1>1, <2>6, Zenon DEF WalkOf
    <3>2. FailBefore(q, store, q.i)
      <4>1. ASSUME NEW j \in 1 .. Len(q.view), j < q.i PROVE FailingAt(store, q.view[j], q.kind) # {}
        <5>1. j < r.i \/ j = r.i
          BY <1>0, <2>4, <4>1
        <5> QED BY <2>4, <2>5, <3>1, <5>1, Zenon DEF FailBefore
      <4> QED BY <4>1, Zenon DEF FailBefore
    <3> QED BY <2>4, <3>1, <3>2, Zenon DEF WalkOf
  <2>7. r.i + 1 \in 1 .. n + 1
    BY <1>1, <2>2
  <2>8. Sound(q, store, recorded)
    BY <1>1, <2>4, <2>6, <2>7, Zenon DEF Sound, n
  <2> QED BY <2>1, <2>4, <2>8, Zenon DEF Serves
<1> QED BY <1>2, <1>3, <1>4, Zenon

\* The recorder asks the target.
LEMMA ForwardStep ==
    ASSUME RecInv, NEW c \in Clients, Forward(c)
    PROVE  \E q : Serves(c, q) /\ Sound(q, store, recorded)
<1> DEFINE r == req[c]
<1>0. r \in Request /\ upstream \in Nat /\ r.view \in Seq(ListedMock)
  BY RequestFields, Zenon DEF RecInv, RecTypes
<1>1. r.stage = "forward" /\ r.kind \in Kinds /\ r.i = 1 /\ (r.steady => WalkOf(r, store))
  BY RequestFields, Zenon DEF Forward, Sound
<1>2. CASE req' = [req EXCEPT ![c] = [r EXCEPT !.stage = "capture", !.got = upstream]]
  <2> DEFINE q == [r EXCEPT !.stage = "capture", !.got = upstream]
  <2>1. q \in Request /\ q.stage = "capture" /\ q.kind = r.kind
    BY <1>0, Zenon DEF Request, Stages
  <2>2. Sound(q, store, recorded)
    <3> HIDE DEF q
    <3> QED BY <1>1, <2>1, Zenon DEF Sound, WalkOf
  <2> QED BY <1>2, <2>1, <2>2, Zenon DEF Serves
<1>3. CASE req' = [req EXCEPT ![c] = [r EXCEPT !.stage = "diagnose"]]
  <2> DEFINE q == [r EXCEPT !.stage = "diagnose"]
  <2>1. q \in Request /\ q.stage = "diagnose" /\ q.kind = r.kind /\ q.i = r.i /\ q.view = r.view
        /\ q.near = r.near /\ q.steady = r.steady
    BY <1>0, Zenon DEF Request, Stages
  <2> HIDE DEF q
  <2>2. ASSUME r.steady PROVE WalkOf(q, store)
    <3>1. FailBefore(r, store, Len(r.view) + 1) /\ r.near = << >>
      BY <1>1, <2>2, Zenon DEF WalkOf
    <3>2. FailBefore(q, store, Len(q.view) + 1)
      BY <2>1, <3>1, Zenon DEF FailBefore
    <3>3. EntriesUpTo(q, store, q.near, q.i - 1)
      BY <1>1, <2>1, <3>1 DEF EntriesUpTo
    <3> QED BY <2>1, <3>2, <3>3, Zenon DEF WalkOf
  <2>3. 1 \in 1 .. Len(r.view) + 1
    BY <1>0
  <2>4. Sound(q, store, recorded)
    BY <1>1, <2>1, <2>2, <2>3, Zenon DEF Sound
  <2> QED BY <1>3, <2>1, <2>4, Zenon DEF Serves, q
<1> QED BY <1>2, <1>3, Zenon DEF Forward, Goes

\* The walk of the diagnosis takes one mock, and sorts at the end.
LEMMA DiagnoseStep ==
    ASSUME RecInv, NEW c \in Clients, Diagnose(c)
    PROVE  \E q : Serves(c, q) /\ Sound(q, store, recorded)
<1> DEFINE r == req[c]
           n == Len(r.view)
<1>0. r \in Request /\ r.view \in Seq(ListedMock) /\ r.i \in Nat /\ r.near \in Seq(Near)
  BY RequestFields, Zenon
<1>1. r.stage = "diagnose" /\ r.kind \in Kinds /\ (r.steady => WalkOf(r, store))
      /\ n \in Nat /\ r.i \in 1 .. n + 1
  <2>1. r.stage = "diagnose" /\ Sound(r, store, recorded)
    BY RequestFields, Zenon DEF Diagnose
  <2>2. n \in Nat
    BY <1>0
  <2> QED BY <2>1, <2>2, Zenon DEF Sound
<1> HIDE DEF n
<1>2. CASE r.i > n
  <2> DEFINE q == [r EXCEPT !.stage = "diagnosed", !.near = Report(r.near)]
  <2>1. req' = [req EXCEPT ![c] = q]
    BY <1>2, Zenon DEF Diagnose, Goes, n
  <2>2. Report(r.near) \in Seq(Near)
    BY <1>0, ReportOfEntries, Zenon DEF Near
  <2>3. q \in Request /\ q.stage = "diagnosed" /\ q.near = Report(r.near) /\ q.kind = r.kind
        /\ q.view = r.view /\ q.steady = r.steady
    BY <1>0, <2>2, Zenon DEF Request, Stages
  <2> HIDE DEF q
  <2>4. ASSUME r.steady PROVE WalkOf(q, store)
    <3>1. r.i - 1 = n
      BY <1>0, <1>1, <1>2
    <3>2. FailBefore(r, store, n + 1) /\ EntriesUpTo(r, store, r.near, n)
      BY <1>1, <2>4, <3>1, Zenon DEF WalkOf, n
    <3>3. FailBefore(q, store, Len(q.view) + 1)
      BY <2>3, <3>2, Zenon DEF FailBefore, n
    <3>4. EntriesUpTo(q, store, r.near, Len(q.view))
      BY <2>3, <3>2, Zenon DEF EntriesUpTo, n
    <3> QED BY <1>0, <2>3, <3>3, <3>4, Zenon DEF WalkOf
  <2>5. Sound(q, store, recorded)
    BY <1>1, <2>3, <2>4, Zenon DEF Sound
  <2> QED BY <2>1, <2>3, <2>5, Zenon DEF Serves
<1>3. CASE ~(r.i > n)
  <2> DEFINE e == [id |-> r.view[r.i].id, depth |-> Depth(r.view[r.i], r.kind)]
             k == r.i + 1
             near == Append(r.near, e)
  <2>0. r.i \in 1 .. n /\ k \in Nat /\ k \in 1 .. n + 1 /\ k - 1 = r.i
    BY <1>1, <1>3
  <2>1. r.view[r.i] \in ListedMock
    BY <1>0, <2>0, ElementOfSeq, Zenon DEF n
  <2>2. e = Entry(store, r.view[r.i], r.kind)
    BY AtStore, Zenon DEF Entry
  <2>3. e \in Near
    <3>1. DepthAt(store, r.view[r.i], r.kind) \in Nat
      BY <1>1, <2>1, DepthBound, Zenon
    <3>2. ASSUME NEW m \in ListedMock PROVE m.id \in Nat \cup Configured
      <4>1. CASE m \in RecordedMock
        BY <4>1, Zenon DEF RecordedMock
      <4>2. CASE m \in GivenMock
        <5>1. PICK id \in Configured : m = Given(id)
          BY <4>2, Zenon DEF GivenMock
        <5>2. Given(id).id = id
          BY Zenon DEF Given
        <5> QED BY <5>1, <5>2, Zenon
      <4> QED BY <4>1, <4>2, Zenon DEF ListedMock
    <3>3. r.view[r.i].id \in Nat \cup Configured
      BY <2>1, <3>2, Zenon
    <3> QED BY <2>2, <3>1, <3>3, Zenon DEF Entry, Near
  <2> HIDE DEF e, k
  <2>4. near \in Seq(Near) /\ Len(near) = Len(r.near) + 1
        /\ \A j \in 1 .. Len(near) : near[j] = IF j = Len(r.near) + 1 THEN e ELSE r.near[j]
    BY <1>0, <2>3
  <2> HIDE DEF near
  <2>5. CASE req' = [req EXCEPT ![c] = [r EXCEPT !.i = k, !.near = near]]
    <3> DEFINE q == [r EXCEPT !.i = k, !.near = near]
    <3>1. q \in Request /\ q.i = k /\ q.near = near /\ q.kind = r.kind /\ q.view = r.view
          /\ q.steady = r.steady /\ q.stage = "diagnose"
      BY <1>0, <1>1, <2>0, <2>4, Zenon DEF Request
    <3> HIDE DEF q
    <3>2. ASSUME r.steady PROVE WalkOf(q, store)
      <4>1. FailBefore(r, store, n + 1) /\ EntriesUpTo(r, store, r.near, r.i - 1)
        BY <1>1, <3>2, Zenon DEF WalkOf, n
      <4>2. FailBefore(q, store, Len(q.view) + 1)
        BY <3>1, <4>1, Zenon DEF FailBefore, n
      <4>3. Len(r.near) = r.i - 1 /\ \A j \in 1 .. r.i - 1 : r.near[j] = Entry(store, r.view[j], r.kind)
        BY <4>1, Zenon DEF EntriesUpTo
      <4>4. Len(near) = r.i
        BY <1>0, <2>4, <4>3
      <4>5. ASSUME NEW j \in 1 .. r.i PROVE near[j] = Entry(store, r.view[j], r.kind)
        <5>1. CASE j = r.i
          BY <1>0, <2>2, <2>4, <4>3, <4>4, <5>1, Zenon
        <5>2. CASE j # r.i
          <6>1. j \in 1 .. r.i - 1 /\ j # Len(r.near) + 1
            BY <1>0, <4>3, <5>2
          <6> QED BY <2>4, <4>3, <4>4, <6>1, Zenon
        <5> QED BY <5>1, <5>2, Zenon
      <4>6. EntriesUpTo(q, store, q.near, q.i - 1)
        BY <2>0, <3>1, <4>4, <4>5, Zenon DEF EntriesUpTo
      <4> QED BY <3>1, <4>2, <4>6, Zenon DEF WalkOf
    <3>3. Sound(q, store, recorded)
      BY <1>1, <2>0, <3>1, <3>2, Zenon DEF Sound, n
    <3> QED BY <2>5, <3>1, <3>3, Zenon DEF Serves, q
  <2>6. CASE req' = [req EXCEPT ![c] = [r EXCEPT !.stage = "unmatched"]]
    <3> DEFINE q == [r EXCEPT !.stage = "unmatched"]
    <3>1. q \in Request /\ q.stage = "unmatched" /\ q.kind = r.kind
      BY <1>0, Zenon DEF Request, Stages
    <3>2. Sound(q, store, recorded)
      <4> HIDE DEF q
      <4> QED BY <1>1, <3>1, Zenon DEF Sound, WalkOf
    <3> QED BY <2>6, <3>1, <3>2, Zenon DEF Serves
  <2> QED BY <1>3, <2>5, <2>6, Zenon DEF Diagnose, Goes, n, e, k, near
<1> QED BY <1>2, <1>3, Zenon

\* What Capture appends has a kind that no recorded mock has.
LEMMA AppendRecorded ==
    ASSUME RecInv, NEW k \in Kinds, NEW a \in Nat, \A m \in Range(recorded) : m.kind # k,
           recorded' = Append(recorded, [id |-> Len(recorded) + 1, kind |-> k, answer |-> a]),
           saved' \in {saved} \cup {SubSeq(recorded', 1, i) : i \in 0 .. Len(recorded')},
           live' = live, copies' = copies
    PROVE  /\ recorded' \in Seq(RecordedMock) /\ saved' \in Seq(RecordedMock)
           /\ OnceAndSaved'
           /\ Range(recorded) \subseteq Range(recorded')
           /\ [id |-> Len(recorded) + 1, kind |-> k, answer |-> a] \in Range(recorded')
<1> DEFINE n == Len(recorded)
           new == [id |-> n + 1, kind |-> k, answer |-> a]
<1>1. recorded \in Seq(RecordedMock) /\ saved \in Seq(RecordedMock) /\ n \in Nat
  BY DEF RecInv, RecTypes
<1>2. new \in RecordedMock /\ new.kind = k /\ new.id = n + 1
  BY <1>1 DEF RecordedMock
<1>3. recorded' = Append(recorded, new)
  BY Zenon
<1> HIDE DEF new
<1>4. /\ recorded' \in Seq(RecordedMock) /\ Len(recorded') = n + 1 /\ DOMAIN recorded' = 1 .. n + 1
      /\ \A i \in 1 .. n : recorded'[i] = recorded[i]
      /\ recorded'[n + 1] = new /\ DOMAIN recorded = 1 .. n
  BY <1>1, <1>2, <1>3
<1>5. saved' \in Seq(RecordedMock)
  <2>1. ASSUME NEW i \in 0 .. Len(recorded') PROVE SubSeq(recorded', 1, i) \in Seq(RecordedMock)
    BY <1>1, <1>4
  <2> QED BY <1>1, <2>1, Zenon
<1>6. Range(recorded) \subseteq Range(recorded') /\ new \in Range(recorded')
  <2>1. n + 1 \in 1 .. n + 1 /\ \A i \in 1 .. n : i \in 1 .. n + 1
    BY <1>1
  <2> QED BY <1>4, <2>1, Zenon DEF Range
<1> HIDE DEF n
<1>7. Continues(recorded', saved')
  <2>1. ASSUME NEW i \in 0 .. Len(recorded'), saved' = SubSeq(recorded', 1, i)
        PROVE  Continues(recorded', saved')
    <3>1. Len(SubSeq(recorded', 1, i)) = i /\ i <= Len(recorded')
      BY <1>1, <1>4
    <3> QED BY <2>1, <3>1, Zenon DEF Continues
  <2>2. CASE saved' = saved
    <3>1. Len(saved) \in Nat /\ Len(saved) <= n /\ SubSeq(recorded, 1, Len(saved)) = saved
      <4>1. Continues(recorded, saved)
        BY Zenon DEF RecInv, OnceAndSaved, RecordedOnce
      <4>2. Len(saved) \in Nat
        BY <1>1
      <4> QED BY <4>1, <4>2, Zenon DEF Continues, n
    <3>2. SubSeq(recorded', 1, Len(saved)) = SubSeq(recorded, 1, Len(saved))
      <4> DEFINE s == SubSeq(recorded', 1, Len(saved))
                 t == SubSeq(recorded, 1, Len(saved))
      <4>1. s \in Seq(RecordedMock) /\ t \in Seq(RecordedMock) /\ Len(s) = Len(saved) /\ Len(t) = Len(saved)
        BY <1>1, <1>4, <3>1 DEF n
      <4>2. \A i \in 1 .. Len(s) : s[i] = t[i]
        BY <1>1, <1>4, <3>1, <4>1 DEF n
      <4> HIDE DEF s, t
      <4>3. s = t
        BY <4>1, <4>2, SeqEqual, Zenon
      <4> QED BY <4>3, Zenon DEF s, t
    <3> QED BY <1>1, <1>4, <2>2, <3>1, <3>2 DEF Continues, n
  <2> QED BY <2>1, <2>2, Zenon
<1>8. \A i, j \in DOMAIN recorded' :
         recorded'[i].id = i /\ (recorded'[i].kind = recorded'[j].kind => i = j)
  <2>1. \A i, j \in 1 .. n : recorded[i].id = i /\ (recorded[i].kind = recorded[j].kind => i = j)
    BY <1>4, Zenon DEF RecInv, OnceAndSaved, RecordedOnce
  <2>2. \A i \in 1 .. n : recorded[i].kind # k
    BY <1>4, Zenon DEF Range
  <2>3. \A i \in 1 .. n + 1 : i \in 1 .. n \/ i = n + 1
    BY <1>1
  <2> QED BY <1>2, <1>4, <2>1, <2>2, <2>3
<1>9. \A list : OnceIn(list, recorded) => OnceIn(list, recorded')
  BY <1>6, Zenon DEF OnceIn
<1>10. OnceIn(live, recorded) /\ \A list \in copies : OnceIn(list, recorded)
  BY Zenon DEF RecInv, OnceAndSaved, RecordedOnce
<1> QED BY <1>4, <1>5, <1>6, <1>7, <1>8, <1>9, <1>10, Zenon DEF OnceAndSaved, RecordedOnce, new, n

\* The recorder saves what it heard, unless the kind was recorded before.
LEMMA CaptureStep ==
    ASSUME RecInv, NEW c \in Clients, Capture(c)
    PROVE  /\ \E q : Serves(c, q) /\ Sound(q, store, recorded')
           /\ recorded' \in Seq(RecordedMock) /\ saved' \in Seq(RecordedMock)
           /\ OnceAndSaved'
           /\ Range(recorded) \subseteq Range(recorded')
<1> DEFINE r == req[c]
           old == {m \in Range(recorded) : m.kind = r.kind}
           new == [id |-> Len(recorded) + 1, kind |-> r.kind, answer |-> r.got]
<1>0. r \in Request /\ recorded \in Seq(RecordedMock) /\ saved \in Seq(RecordedMock) /\ r.got \in Nat
  BY RequestFields, Zenon DEF RecInv, RecTypes
<1>1. r.stage = "capture" /\ r.kind \in Kinds /\ live' = live /\ copies' = copies
  BY RequestFields, Zenon DEF Capture, Sound
<1>2. \A m \in Range(recorded) : m \in ListedMock
  BY <1>0 DEF Range, ListedMock
<1>3. ASSUME NEW m \in Range(recorded'), m \in ListedMock, m.kind = r.kind,
             req' = [req EXCEPT ![c] = [r EXCEPT !.stage = "install", !.mock = m]]
      PROVE  \E q : Serves(c, q) /\ Sound(q, store, recorded')
  <2> DEFINE q == [r EXCEPT !.stage = "install", !.mock = m]
  <2>1. q \in Request /\ q.stage = "install" /\ q.mock = m /\ q.kind = r.kind
    BY <1>0, <1>3, Zenon DEF Request, Stages
  <2>2. Sound(q, store, recorded')
    <3> HIDE DEF q
    <3> QED BY <1>1, <1>3, <2>1, Zenon DEF Sound, WalkOf
  <2> QED BY <1>3, <2>1, <2>2, Zenon DEF Serves
<1>4. CASE old # {}
  <2> DEFINE m == CHOOSE x \in old : TRUE
  <2>1. m \in Range(recorded) /\ m.kind = r.kind
    BY <1>4, Zenon
  <2>2. /\ req' = [req EXCEPT ![c] = [r EXCEPT !.stage = "install", !.mock = m]]
        /\ recorded' = recorded /\ saved' = saved
    BY <1>4, Zenon DEF Capture, Goes
  <2> HIDE DEF m
  <2>3. \E q : Serves(c, q) /\ Sound(q, store, recorded')
    BY <1>2, <1>3, <2>1, <2>2, Zenon
  <2>4. OnceAndSaved'
    BY <1>1, <2>2, OnceStays, Zenon DEF RecInv
  <2> QED BY <1>0, <2>2, <2>3, <2>4, Zenon
<1>5. CASE old = {}
  <2>1. /\ req' = [req EXCEPT ![c] = [r EXCEPT !.stage = "install", !.mock = new]]
        /\ recorded' = Append(recorded, new)
        /\ saved' \in {saved} \cup {SubSeq(recorded', 1, i) : i \in 0 .. Len(recorded')}
    BY <1>5, Zenon DEF Capture, Goes
  <2>2. \A m \in Range(recorded) : m.kind # r.kind
    BY <1>5, Zenon
  <2>3. /\ recorded' \in Seq(RecordedMock) /\ saved' \in Seq(RecordedMock)
        /\ OnceAndSaved' /\ Range(recorded) \subseteq Range(recorded') /\ new \in Range(recorded')
    BY <1>0, <1>1, <2>1, <2>2, AppendRecorded, Zenon
  <2>4. new \in ListedMock /\ new.kind = r.kind
    BY <1>0, <1>1 DEF ListedMock, RecordedMock
  <2> HIDE DEF new
  <2>5. \E q : Serves(c, q) /\ Sound(q, store, recorded')
    BY <1>3, <2>1, <2>3, <2>4, Zenon
  <2> QED BY <2>3, <2>5, Zenon
<1> QED BY <1>4, <1>5, Zenon

\* The recorded mock joins the list of the server.
LEMMA AddRecordedStep ==
    ASSUME RecInv, NEW c \in Clients, Install(c)
    PROVE  /\ \E q : Serves(c, q) /\ Sound(q, store, recorded)
           /\ live' \in Seq(ListedMock)
           /\ OnceAndSaved'
<1> DEFINE r == req[c]
           n == Len(live)
<1>0. r \in Request /\ live \in Seq(ListedMock) /\ recorded' = recorded /\ saved' = saved
      /\ recorded \in Seq(RecordedMock) /\ copies' = copies
  BY RequestFields, Zenon DEF RecInv, RecTypes, Install
<1>1. r.stage = "install" /\ r.kind \in Kinds /\ r.mock \in Range(recorded) /\ r.mock.kind = r.kind
  BY RequestFields, Zenon DEF Install, Sound
<1>2. \E q : Serves(c, q) /\ Sound(q, store, recorded)
  <2> DEFINE q == [r EXCEPT !.stage = "recorded"]
  <2>1. q \in Request /\ q.stage = "recorded" /\ q.kind = r.kind
    BY <1>0, Zenon DEF Request, Stages
  <2>2. req' = [req EXCEPT ![c] = q]
    BY Zenon DEF Install, Goes
  <2> HIDE DEF q
  <2>3. Sound(q, store, recorded)
    BY <1>1, <2>1, Zenon DEF Sound, WalkOf
  <2> QED BY <2>1, <2>2, <2>3, Zenon DEF Serves
<1>3. r.mock \in ListedMock /\ r.kind # ""
  <2>1. r.mock \in RecordedMock
    BY <1>0, <1>1 DEF Range
  <2> QED BY <1>1, <2>1, RecordingAssumption, Zenon DEF ListedMock
<1>4. CASE \E m \in Range(live) : Equivalent(m, r.kind)
  <2>1. live' = live
    BY <1>4, Zenon DEF Install
  <2>2. OnceAndSaved'
    BY <1>0, <2>1, OnceStays, Zenon DEF RecInv
  <2> QED BY <1>0, <1>2, <2>1, <2>2, Zenon
<1>5. CASE ~\E m \in Range(live) : Equivalent(m, r.kind)
  <2>1. live' = Append(live, r.mock)
    BY <1>5, Zenon DEF Install
  <2>2. /\ n \in Nat /\ live' \in Seq(ListedMock) /\ DOMAIN live' = 1 .. n + 1 /\ DOMAIN live = 1 .. n
        /\ \A i \in 1 .. n : live'[i] = live[i]
        /\ live'[n + 1] = r.mock
    <3> DEFINE m == r.mock
    <3>1. live \in Seq(ListedMock) /\ m \in ListedMock /\ live' = Append(live, m)
      BY <1>0, <1>3, <2>1, Zenon
    <3> HIDE DEF m
    <3>2. n \in Nat /\ DOMAIN live = 1 .. n
      BY <3>1
    <3>3. live' \in Seq(ListedMock) /\ DOMAIN live' = 1 .. n + 1 /\ live'[n + 1] = m
          /\ \A i \in 1 .. n : live'[i] = live[i]
      BY <3>1, AppendProperties
    <3> QED BY <3>2, <3>3, Zenon DEF m
  <2> HIDE DEF n
  <2>3. ASSUME NEW i \in 1 .. n PROVE live[i].kind # r.kind
    <3>1. live[i] \in Range(live)
      BY <2>2, Zenon DEF Range
    <3> QED BY <1>3, <1>5, <3>1, Zenon DEF Equivalent
  <2>4. \A i, j \in 1 .. n : live[i].answer # 0 =>
          /\ live[i] \in Range(recorded)
          /\ live[j].answer # 0 /\ live[i].kind = live[j].kind => i = j
    BY <2>2, Zenon DEF RecInv, OnceAndSaved, RecordedOnce, OnceIn
  <2>5. \A i \in 1 .. n + 1 : i \in 1 .. n \/ i = n + 1
    BY <2>2
  <2>6. OnceIn(live', recorded')
    <3>1. ASSUME NEW i \in 1 .. n + 1, NEW j \in 1 .. n + 1, live'[i].answer # 0
          PROVE  /\ live'[i] \in Range(recorded)
                 /\ live'[j].answer # 0 /\ live'[i].kind = live'[j].kind => i = j
      <4>1. CASE i \in 1 .. n /\ j \in 1 .. n
        BY <2>2, <2>4, <3>1, <4>1, Zenon
      <4>2. CASE i \in 1 .. n /\ j = n + 1
        BY <1>1, <2>2, <2>3, <2>4, <3>1, <4>2, Zenon
      <4>3. CASE i = n + 1 /\ j \in 1 .. n
        BY <1>1, <2>2, <2>3, <4>3, Zenon
      <4>4. CASE i = n + 1 /\ j = n + 1
        BY <1>1, <2>2, <4>4, Zenon
      <4> QED BY <2>5, <4>1, <4>2, <4>3, <4>4, Zenon
    <3> QED BY <1>0, <2>2, <3>1, Zenon DEF OnceIn
  <2>7. OnceAndSaved'
    BY <1>0, <2>6, ZenonT(30) DEF RecInv, OnceAndSaved, RecordedOnce
  <2> QED BY <1>2, <2>2, <2>7, Zenon
<1> QED BY <1>4, <1>5, Zenon

\* Every step of a client.
LEMMA ServeInv ==
    ASSUME RecInv, NEW c \in Clients, Serve(c)
    PROVE  RecInv'
<1> DEFINE Kept == live' = live /\ store' = store /\ recorded' = recorded /\ saved' = saved
                   /\ copies' = copies /\ upstream' = upstream
<1>0. /\ live \in Seq(ListedMock) /\ recorded \in Seq(RecordedMock) /\ saved \in Seq(RecordedMock)
      /\ copies \subseteq Seq(ListedMock) /\ upstream \in Nat /\ OnceAndSaved
  BY Zenon DEF RecInv, RecTypes
<1>1. ASSUME Kept, \E q : Serves(c, q) /\ Sound(q, store, recorded) PROVE RecInv'
  <2>1. PICK q : Serves(c, q) /\ Sound(q, store, recorded)
    BY <1>1, Zenon
  <2>2. req' \in [Clients -> Request] /\ \A d \in Clients : Sound(req'[d], store', recorded')
    BY <1>1, <2>1, OthersStay, Zenon
  <2>3. OnceAndSaved'
    BY <1>0, <1>1, OnceStays, Zenon
  <2> QED BY <1>0, <1>1, <2>2, <2>3, Zenon DEF RecInv, RecTypes
<1>2. CASE \E k \in Kinds : Arrive(c, k)
  <2>1. PICK k \in Kinds : Arrive(c, k)
    BY <1>2, Zenon
  <2>2. Kept
    BY <2>1, Zenon DEF Arrive
  <2> QED BY <1>1, <2>1, <2>2, ArriveStep, Zenon
<1>3. CASE Try(c)
  <2>1. Kept
    BY <1>3, Zenon DEF Try
  <2> QED BY <1>1, <1>3, <2>1, TryStep, Zenon
<1>4. CASE Forward(c)
  <2>1. Kept
    BY <1>4, Zenon DEF Forward
  <2> QED BY <1>1, <1>4, <2>1, ForwardStep, Zenon
<1>5. CASE Diagnose(c)
  <2>1. Kept
    BY <1>5, Zenon DEF Diagnose
  <2> QED BY <1>1, <1>5, <2>1, DiagnoseStep, Zenon
<1>6. CASE Respond(c)
  <2>1. Kept /\ req' = [req EXCEPT ![c] = AtRest]
    BY <1>6, Zenon DEF Respond, Goes
  <2> QED BY <1>1, <2>1, RestIsSound, Zenon DEF Serves
<1>7. CASE Capture(c)
  <2>1. live' = live /\ store' = store /\ copies' = copies /\ upstream' = upstream
    BY <1>7, Zenon DEF Capture
  <2>2. PICK q : Serves(c, q) /\ Sound(q, store, recorded')
    BY <1>7, CaptureStep, Zenon
  <2>3. /\ recorded' \in Seq(RecordedMock) /\ saved' \in Seq(RecordedMock)
        /\ OnceAndSaved' /\ Range(recorded) \subseteq Range(recorded')
    BY <1>7, CaptureStep, Zenon
  <2>4. req' \in [Clients -> Request] /\ \A d \in Clients : Sound(req'[d], store', recorded')
    BY <2>1, <2>2, <2>3, OthersStay, Zenon
  <2> QED BY <1>0, <2>1, <2>3, <2>4, Zenon DEF RecInv, RecTypes
<1>8. CASE Install(c)
  <2>1. /\ store' = store /\ recorded' = recorded /\ saved' = saved /\ upstream' = upstream
        /\ copies' = copies
    BY <1>8, Zenon DEF Install
  <2>2. PICK q : Serves(c, q) /\ Sound(q, store, recorded)
    BY <1>8, AddRecordedStep, Zenon
  <2>3. live' \in Seq(ListedMock) /\ OnceAndSaved'
    BY <1>8, AddRecordedStep, Zenon
  <2>4. req' \in [Clients -> Request] /\ \A d \in Clients : Sound(req'[d], store', recorded')
    BY <2>1, <2>2, OthersStay, Zenon
  <2> QED BY <1>0, <2>1, <2>3, <2>4, Zenon DEF RecInv, RecTypes
<1> QED BY <1>2, <1>3, <1>4, <1>5, <1>6, <1>7, <1>8, Zenon DEF Serve

\* A list of the API with a mock put or patched is as good as the list was.
LEMMA EditedStays ==
    ASSUME NEW list \in Seq(ListedMock), NEW rec, OnceIn(list, rec), NEW new \in Edited(list)
    PROVE  new \in Seq(ListedMock) /\ OnceIn(new, rec)
<1>1. PICK i \in DOMAIN list, k \in Kinds :
         /\ list[i].kind # ""
         /\ new = [list EXCEPT ![i] = [id |-> list[i].id, kind |-> k, answer |-> 0]]
  <2>1. PICK i \in Found(list), k \in Kinds :
           new = [list EXCEPT ![i] = [id |-> list[i].id, kind |-> k, answer |-> 0]]
    BY DEF Edited
  <2> QED BY <2>1, Zenon DEF Found
<1> DEFINE m == [id |-> list[i].id, kind |-> k, answer |-> 0]
<1>2. m \in ListedMock /\ m.answer = 0
  <2>1. list[i] \in ListedMock
    OBVIOUS
  <2>2. ASSUME list[i] \in GivenMock PROVE FALSE
    <3>1. PICK id \in Configured : list[i] = Given(id)
      BY <2>2, Zenon DEF GivenMock
    <3>2. Given(id).kind = ""
      BY Zenon DEF Given
    <3> QED BY <1>1, <3>1, <3>2, Zenon
  <2>3. list[i].id \in Nat
    BY <2>1, <2>2, Zenon DEF ListedMock, RecordedMock
  <2> QED BY <2>3 DEF ListedMock, RecordedMock
<1> HIDE DEF m
<1>3. new = [list EXCEPT ![i] = m]
  BY <1>1, Zenon DEF m
<1>4. /\ new \in Seq(ListedMock) /\ DOMAIN new = DOMAIN list
      /\ \A j \in DOMAIN list : new[j] = IF j = i THEN m ELSE list[j]
  BY <1>2, <1>3
<1> QED BY <1>2, <1>4, Zenon DEF OnceIn

\* And so is one from which mocks were deleted: what is left kept its order.
LEMMA DeletedStays ==
    ASSUME NEW list \in Seq(ListedMock), NEW rec, OnceIn(list, rec), NEW id, NEW new \in Deleted(list, id)
    PROVE  new \in Seq(ListedMock) /\ OnceIn(new, rec)
<1> DEFINE kept == {i \in DOMAIN list : list[i].id # id}
           n == Cardinality(kept)
<1>1. PICK f \in [1 .. n -> kept] : /\ \A i, j \in 1 .. n : i < j => f[i] < f[j]
                                    /\ new = [i \in 1 .. n |-> list[f[i]]]
  BY Zenon DEF Deleted
<1>2. n \in Nat /\ kept \subseteq DOMAIN list /\ DOMAIN list \subseteq Nat
  <2>1. Len(list) \in Nat /\ DOMAIN list = 1 .. Len(list)
    OBVIOUS
  <2>2. kept \subseteq 1 .. Len(list)
    BY <2>1, Zenon
  <2>3. IsFiniteSet(1 .. Len(list))
    BY <2>1, FS_Interval
  <2>4. IsFiniteSet(kept)
    BY <2>2, <2>3, FS_Subset, Zenon
  <2> HIDE DEF kept
  <2> QED BY <2>1, <2>2, <2>4, FS_CardinalityType
<1> HIDE DEF kept, n
<1>3. \A i \in 1 .. n : f[i] \in DOMAIN list /\ f[i] \in Nat
  BY <1>1, <1>2, Zenon
<1>4. \A i, j \in 1 .. n : f[i] = f[j] => i = j
  <2> SUFFICES ASSUME NEW i \in 1 .. n, NEW j \in 1 .. n, f[i] = f[j], i # j PROVE FALSE
    BY Zenon
  <2>1. i < j \/ j < i
    BY <1>2
  <2>2. f[i] < f[j] \/ f[j] < f[i]
    BY <1>1, <2>1, Zenon
  <2> QED BY <1>3, <2>2
<1>5. DOMAIN new = 1 .. n /\ \A i \in 1 .. n : new[i] = list[f[i]]
  BY <1>1, Zenon
<1>6. new \in Seq(ListedMock)
  <2>1. \A i \in DOMAIN list : list[i] \in ListedMock
    OBVIOUS
  <2>2. new \in [1 .. n -> ListedMock]
    BY <1>1, <1>3, <2>1, Zenon
  <2> QED BY <1>2, <2>2
<1>7. ASSUME NEW i \in 1 .. n, NEW j \in 1 .. n, new[i].answer # 0
      PROVE  /\ new[i] \in Range(rec)
             /\ new[j].answer # 0 /\ new[i].kind = new[j].kind => i = j
  <2>1. new[i] = list[f[i]] /\ new[j] = list[f[j]] /\ f[i] \in DOMAIN list /\ f[j] \in DOMAIN list
    BY <1>3, <1>5, Zenon
  <2>2. list[f[i]].answer # 0
    BY <1>7, <2>1, Zenon
  <2>3. /\ list[f[i]] \in Range(rec)
        /\ list[f[j]].answer # 0 /\ list[f[i]].kind = list[f[j]].kind => f[i] = f[j]
    BY <2>1, <2>2, Zenon DEF OnceIn
  <2> QED BY <1>4, <2>1, <2>3, Zenon
<1> QED BY <1>5, <1>6, <1>7, Zenon DEF OnceIn

\* The state endpoint, reloads, the calls of the API and the target.
LEMMA WorldInv ==
    ASSUME RecInv, \/ \E v \in StateValues : SetState(v)
                   \/ \E list \in Lists : ReplaceList(list)
                   \/ CopyList
                   \/ \E list \in copies : InstallCopy(list)
                   \/ UpstreamChanges
    PROVE  RecInv'
<1>0. /\ live \in Seq(ListedMock) /\ recorded \in Seq(RecordedMock) /\ saved \in Seq(RecordedMock)
      /\ copies \subseteq Seq(ListedMock)
      /\ upstream \in Nat /\ OnceAndSaved /\ req \in [Clients -> Request]
      /\ \A c \in Clients : Sound(req[c], store, recorded)
  BY Zenon DEF RecInv, RecTypes
<1>1. ASSUME NEW v \in StateValues, SetState(v) PROVE RecInv'
  <2>1. /\ live' = live /\ recorded' = recorded /\ saved' = saved /\ upstream' = upstream /\ store' = v
        /\ copies' = copies
        /\ req' = [c \in Clients |-> [req[c] EXCEPT !.steady = req[c].stage = "idle"]]
    BY <1>1, Zenon DEF SetState
  <2>2. ASSUME NEW c \in Clients PROVE req'[c] \in Request /\ Sound(req'[c], v, recorded)
    <3> DEFINE r == req[c]
               b == r.stage = "idle"
               q == [r EXCEPT !.steady = b]
    <3>1. r \in Request /\ Sound(r, store, recorded) /\ req'[c] = q /\ b \in BOOLEAN
      BY <1>0, <2>1, Zenon
    <3> HIDE DEF b
    <3>2. q \in Request /\ q.stage = r.stage /\ q.kind = r.kind /\ q.view = r.view /\ q.i = r.i
          /\ q.mock = r.mock /\ q.steady = b
      BY <3>1, Zenon DEF Request
    <3> HIDE DEF q
    <3>3. b => WalkOf(q, v)
      BY <3>2, Zenon DEF WalkOf, b
    <3>4. Sound(q, v, recorded)
      BY <3>1, <3>2, <3>3, Zenon DEF Sound
    <3> QED BY <3>1, <3>2, <3>4, Zenon
  <2>3. req' \in [Clients -> Request]
    BY <2>1, <2>2, Zenon
  <2>4. OnceAndSaved'
    BY <1>0, <2>1, OnceStays, Zenon
  <2> QED BY <1>0, <2>1, <2>2, <2>3, <2>4, Zenon DEF RecInv, RecTypes
<1>2. ASSUME NEW list \in Lists, ReplaceList(list) PROVE RecInv'
  <2>1. /\ live' = list /\ recorded' = recorded /\ saved' = saved /\ upstream' = upstream
        /\ store' = store /\ req' = req /\ copies' = copies
    BY <1>2, Zenon DEF ReplaceList
  <2>2. list \in Seq(GivenMock) /\ list \in Seq(ListedMock)
    <3>1. list \in Seq(GivenMock)
      BY RecordingAssumption, Zenon DEF GivenMock
    <3> QED BY <3>1, SeqMonotonic, Zenon DEF ListedMock
  <2>3. ASSUME NEW i \in DOMAIN list PROVE list[i].answer = 0
    <3>1. list[i] \in GivenMock
      BY <2>2
    <3>2. PICK id \in Configured : list[i] = Given(id)
      BY <3>1, Zenon DEF GivenMock
    <3>3. Given(id).answer = 0
      BY Zenon DEF Given
    <3> QED BY <3>2, <3>3, Zenon
  <2>4. OnceIn(list, recorded)
    BY <2>3, Zenon DEF OnceIn
  <2>5. OnceAndSaved'
    BY <1>0, <2>1, <2>4, ZenonT(30) DEF OnceAndSaved, RecordedOnce
  <2> QED BY <1>0, <2>1, <2>2, <2>5, Zenon DEF RecInv, RecTypes
<1>3. ASSUME UpstreamChanges PROVE RecInv'
  <2>1. /\ live' = live /\ recorded' = recorded /\ saved' = saved /\ upstream' = upstream + 1
        /\ store' = store /\ req' = req /\ copies' = copies
    BY <1>3, Zenon DEF UpstreamChanges
  <2>2. upstream + 1 \in Nat
    BY <1>0
  <2>3. OnceAndSaved'
    BY <1>0, <2>1, OnceStays, Zenon
  <2> QED BY <1>0, <2>1, <2>2, <2>3, Zenon DEF RecInv, RecTypes
<1>4. ASSUME CopyList PROVE RecInv'
  <2>1. /\ live' = live /\ recorded' = recorded /\ saved' = saved /\ upstream' = upstream
        /\ store' = store /\ req' = req /\ copies' = copies \cup {live}
    BY <1>4, Zenon DEF CopyList
  <2>2. OnceIn(live, recorded) /\ \A list \in copies : OnceIn(list, recorded)
    BY <1>0, Zenon DEF OnceAndSaved, RecordedOnce
  <2>3. OnceAndSaved'
    BY <1>0, <2>1, <2>2, ZenonT(30) DEF OnceAndSaved, RecordedOnce
  <2> QED BY <1>0, <2>1, <2>3, Zenon DEF RecInv, RecTypes
<1>5. ASSUME NEW list \in copies, InstallCopy(list) PROVE RecInv'
  <2>1. /\ recorded' = recorded /\ saved' = saved /\ upstream' = upstream
        /\ store' = store /\ req' = req /\ copies' = copies \ {list}
        /\ live' \in Edited(list) \/ \E id : live' \in Deleted(list, id)
    BY <1>5, Zenon DEF InstallCopy
  <2>2. list \in Seq(ListedMock) /\ OnceIn(list, recorded)
    BY <1>0, Zenon DEF OnceAndSaved
  <2>3. live' \in Seq(ListedMock) /\ OnceIn(live', recorded)
    BY <2>1, <2>2, EditedStays, DeletedStays, Zenon
  <2>4. OnceAndSaved'
    BY <1>0, <2>1, <2>3, ZenonT(30) DEF OnceAndSaved, RecordedOnce
  <2> QED BY <1>0, <2>1, <2>3, <2>4, Zenon DEF RecInv, RecTypes
<1> QED BY <1>1, <1>2, <1>3, <1>4, <1>5, Zenon

\* The invariant holds throughout.
LEMMA RecInvariant == RecSpec => []RecInv
<1>1. RecInit => RecInv
  BY RecInitInv, Zenon
<1>2. RecInv /\ [RecNext]_recVars => RecInv'
  <2> SUFFICES ASSUME RecInv, [RecNext]_recVars PROVE RecInv'
    BY Zenon
  <2>1. ASSUME NEW c \in Clients, Serve(c) PROVE RecInv'
    BY <2>1, ServeInv, Zenon
  <2>2. CASE UNCHANGED recVars
    BY <2>2, OnceStays, Zenon DEF recVars, RecInv, RecTypes
  <2> QED BY <2>1, <2>2, WorldInv, Zenon DEF RecNext
<1> QED BY <1>1, <1>2, PTL DEF RecSpec

\* However many clients make a request at once, whatever is replaced, edited or
\* put back meanwhile and whichever writes fail, it is recorded once, the file
\* has a beginning of what was recorded, the server has the recorder's answer
\* or the API's, and nothing replaces what was recorded (capture,
\* persistLocked, recordAndServe, hasEquivalentMockLocked).
THEOREM RecordingsKept == RecSpec => RecordingsAreKept
<1>1. RecInv => Continues(recorded, saved) /\ RecordedOnce
  BY Zenon DEF RecInv, OnceAndSaved
<1>2. RecInv /\ [RecNext]_recVars => [Continues(recorded', recorded)]_recVars
  <2> SUFFICES ASSUME RecInv, RecNext PROVE Continues(recorded', recorded)
    BY Zenon
  <2>0. recorded \in Seq(RecordedMock)
    BY Zenon DEF RecInv, RecTypes
  <2>1. CASE recorded' = recorded
    BY <2>0, <2>1, SubSeqFull DEF Continues
  <2>2. ASSUME NEW c \in Clients, Capture(c), recorded' # recorded
        PROVE  Continues(recorded', recorded)
    <3> DEFINE new == [id |-> Len(recorded) + 1, kind |-> req[c].kind, answer |-> req[c].got]
               u == SubSeq(recorded', 1, Len(recorded))
    <3>1. recorded' = Append(recorded, new)
      BY <2>2, Zenon DEF Capture
    <3>2. recorded' \in Seq(RecordedMock)
      BY <2>2, CaptureStep, Zenon
    <3> HIDE DEF new
    <3>3. /\ Len(recorded') = Len(recorded) + 1 /\ Len(recorded) \in Nat
          /\ \A i \in 1 .. Len(recorded) : recorded'[i] = recorded[i]
      BY <2>0, <3>1
    <3>4. u \in Seq(RecordedMock) /\ Len(u) = Len(recorded)
      BY <3>2, <3>3
    <3>5. \A i \in 1 .. Len(recorded) : u[i] = recorded'[i]
      BY <3>2, <3>3
    <3> HIDE DEF u
    <3>6. u = recorded
      BY <2>0, <3>3, <3>4, <3>5, SeqEqual, Zenon
    <3> QED BY <3>3, <3>6 DEF Continues, u
  <2>3. recorded' = recorded \/ \E c \in Clients : Capture(c)
    BY Zenon DEF RecNext, Serve, Arrive, Try, Forward, Install, Diagnose, Respond,
                 SetState, ReplaceList, CopyList, InstallCopy, UpstreamChanges
  <2> QED BY <2>1, <2>2, <2>3, Zenon
<1> QED BY <1>1, <1>2, RecInvariant, PTL DEF RecSpec, RecordingsAreKept, AnswersAreKept

\* Whatever else goes on: a request is answered by the first mock of its list
\* that matches it, and one without a match is told the mocks that came
\* closest (HTTPMatch, HTTPDiagnose).
THEOREM MatchesExplained == RecSpec => []MatchesAreExplained
<1>1. ASSUME RecInv PROVE FirstMatchAnswers
  <2> SUFFICES ASSUME NEW c \in Clients, req[c].steady
      PROVE  /\ req[c].stage = "matched" =>
                  \E i \in Passing(req[c]) : /\ req[c].view[i] = req[c].mock
                                             /\ \A j \in Passing(req[c]) : i <= j
             /\ req[c].stage \in {"forward", "diagnose"} => Passing(req[c]) = {}
    BY Zenon DEF FirstMatchAnswers
  <2> DEFINE r == req[c]
             n == Len(r.view)
  <2>1. WalkOf(r, store) /\ r.view \in Seq(ListedMock)
    BY <1>1, RequestFields, Zenon DEF Sound
  <2>2. n \in Nat /\ DOMAIN r.view = 1 .. n
    BY <2>1
  <2> HIDE DEF r
  <2>3. Passing(r) = {i \in 1 .. n : FailingAt(store, r.view[i], r.kind) = {}}
    BY <2>2, AtStore, Zenon DEF Passing
  <2>4. ASSUME r.stage = "matched"
        PROVE  \E i \in Passing(r) : r.view[i] = r.mock /\ \A j \in Passing(r) : i <= j
    <3>1. /\ r.i \in 1 .. n /\ FailBefore(r, store, r.i)
          /\ r.mock = r.view[r.i] /\ FailingAt(store, r.mock, r.kind) = {}
      BY <2>1, <2>4, Zenon DEF WalkOf
    <3>2. r.i \in Passing(r)
      BY <2>3, <3>1, Zenon
    <3>3. ASSUME NEW j \in Passing(r) PROVE r.i <= j
      <4>1. j \in 1 .. n /\ ~(j < r.i)
        BY <2>3, <3>1, Zenon DEF FailBefore
      <4> QED BY <2>2, <3>1, <4>1
    <3> QED BY <3>1, <3>2, <3>3, Zenon
  <2>5. ASSUME r.stage \in {"forward", "diagnose"} PROVE Passing(r) = {}
    <3>1. FailBefore(r, store, n + 1)
      BY <2>1, <2>5, Zenon DEF WalkOf
    <3>2. \A j \in 1 .. n : FailingAt(store, r.view[j], r.kind) # {}
      BY <2>2, <3>1 DEF FailBefore
    <3> QED BY <2>3, <3>2, Zenon
  <2> QED BY <2>4, <2>5, Zenon DEF r
<1>2. ASSUME RecInv PROVE DiagnosisIsHonest
  <2> SUFFICES ASSUME NEW c \in Clients, req[c].stage = "diagnosed", req[c].steady
      PROVE  /\ \A n \in DOMAIN req[c].near : req[c].near[n].depth < Len(Checks)
             /\ \A n \in 1..(Len(req[c].near) - 1) : req[c].near[n].depth >= req[c].near[n + 1].depth
             /\ \A m \in Handled(req[c]) :
                  \/ \E n \in DOMAIN req[c].near : req[c].near[n].id = m.id
                  \/ /\ Len(req[c].near) = httpDiagnoseTopN
                     /\ \A n \in DOMAIN req[c].near : req[c].near[n].depth >= Depth(m, req[c].kind)
    BY Zenon DEF DiagnosisIsHonest
  <2> DEFINE r == req[c]
             n == Len(r.view)
  <2>1. WalkOf(r, store) /\ r.view \in Seq(ListedMock) /\ r.kind \in Kinds /\ r.near \in Seq(Near)
    BY <1>2, RequestFields, Zenon DEF Sound
  <2>2. n \in Nat /\ DOMAIN r.view = 1 .. n /\ \A i \in 1 .. n : r.view[i] \in ListedMock
    BY <2>1
  <2>3. /\ FailBefore(r, store, n + 1)
        /\ \E all \in Seq(Near) : EntriesUpTo(r, store, all, n) /\ r.near = Report(all)
    BY <2>1, Zenon DEF WalkOf
  <2>4. PICK all \in Seq(Near) : EntriesUpTo(r, store, all, n) /\ r.near = Report(all)
    BY <2>3, Zenon
  <2>5. Len(all) = n /\ \A j \in 1 .. n : all[j] = Entry(store, r.view[j], r.kind)
    BY <2>4, Zenon DEF EntriesUpTo
  <2>6. \A j \in 1 .. n : all[j].id = r.view[j].id /\ all[j].depth = DepthAt(store, r.view[j], r.kind)
    <3>1. \A m, k : Entry(store, m, k).id = m.id /\ Entry(store, m, k).depth = DepthAt(store, m, k)
      BY Zenon DEF Entry
    <3> TAKE j \in 1 .. n
    <3> DEFINE m == r.view[j]
               k == r.kind
               e == all[j]
    <3>2. e = Entry(store, m, k)
      BY <2>5, Zenon
    <3> HIDE DEF m, k, e
    <3>3. e.id = m.id /\ e.depth = DepthAt(store, m, k)
      BY ONLY <3>1, <3>2, Zenon
    <3> QED BY <3>3, Zenon DEF e, m, k
  <2>7. \A j \in 1 .. n : all[j].depth < Len(Checks)
    <3>1. \A j \in 1 .. n : FailingAt(store, r.view[j], r.kind) # {}
      BY <2>2, <2>3 DEF FailBefore
    <3> QED BY <2>1, <2>2, <2>6, <3>1, DepthBound, Zenon
  <2> DEFINE near == r.near
  <2>8. /\ \A k \in 1 .. Len(near) : \E i \in 1 .. n : near[k] = all[i]
        /\ \A k \in 1 .. (Len(near) - 1) : near[k].depth >= near[k + 1].depth
        /\ \A i \in 1 .. n : \/ \E k \in 1 .. Len(near) : near[k] = all[i]
                            \/ /\ Len(near) = 3
                               /\ \A k \in 1 .. Len(near) : near[k].depth >= all[i].depth
    <3> DEFINE X == Nat \cup Configured
    <3>1. all \in Seq([id : X, depth : Nat])
      BY Zenon DEF Near
    <3> HIDE DEF X
    <3>2. near = Report(all) /\ n = Len(all)
      BY <2>4, <2>5, Zenon
    <3>3. /\ \A k \in 1 .. Len(Report(all)) : \E i \in 1 .. Len(all) : Report(all)[k] = all[i]
          /\ \A k \in 1 .. (Len(Report(all)) - 1) : Report(all)[k].depth >= Report(all)[k + 1].depth
          /\ \A i \in 1 .. Len(all) :
                \/ \E k \in 1 .. Len(Report(all)) : Report(all)[k] = all[i]
                \/ /\ Len(Report(all)) = 3
                   /\ \A k \in 1 .. Len(Report(all)) : Report(all)[k].depth >= all[i].depth
      BY ONLY <3>1, ReportOfEntries, Zenon
    <3> HIDE DEF near, n, r
    <3> QED BY ONLY <3>2, <3>3, Zenon
  <2>9. DOMAIN near = 1 .. Len(near)
    BY <2>1
  <2> HIDE DEF near, r
  <2>10. \A k \in DOMAIN near : near[k].depth < Len(Checks)
    BY <2>7, <2>8, <2>9, Zenon
  <2>11. ASSUME NEW m \in Handled(r)
         PROVE  \/ \E k \in DOMAIN near : near[k].id = m.id
                \/ /\ Len(near) = httpDiagnoseTopN
                   /\ \A k \in DOMAIN near : near[k].depth >= Depth(m, r.kind)
    <3>1. PICK i \in 1 .. n : m = r.view[i]
      BY <2>2, Zenon DEF Handled
    <3>2. all[i].id = m.id /\ all[i].depth = Depth(m, r.kind)
      BY <2>6, <3>1, AtStore, Zenon
    <3> QED BY <2>8, <2>9, <3>2, Zenon DEF httpDiagnoseTopN
  <2> QED BY <2>8, <2>10, <2>11, Zenon DEF near, r
<1>3. RecInv => MatchesAreExplained
  BY <1>1, <1>2, Zenon DEF MatchesAreExplained
<1> QED BY <1>3, RecInvariant, PTL

=============================================================================
