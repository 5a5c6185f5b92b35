-------------------------- MODULE MockAdminProofs ---------------------------
(***************************************************************************)
(* What the management API and the program around it do.  For any protocol, *)
(* list of mocks and number of overlapping calls: the lists the API installs *)
(* stay coherent, and a call that nothing overtook touches only its own mock. *)
(* For any servers, however their starts fail and end: a server the program *)
(* says is ready has its port, and the program ends quietly only after a   *)
(* signal.                                                                 *)
(***************************************************************************)
EXTENDS MockAdmin, Lifecycle, ListLemmas, SequenceTheorems, TLAPS

\* A leaf that names no prover is tried with these, in this order.
USE SMT, Zenon, SMTT(30)

-----------------------------------------------------------------------------
(* Lists *)

\* f is the loop of Without up to index n: what is kept of the first i mocks.
Keeps(f, list, id, n) ==
    f = [i \in 0 .. n |->
           IF i = 0 THEN << >>
           ELSE IF list[i].id # id THEN Append(f[i - 1], list[i])
           ELSE f[i - 1]]

\* The loop is defined, for a list of any length.
LEMMA LoopExists ==
    ASSUME NEW list, NEW id, NEW n \in Nat
    PROVE  \E f : Keeps(f, list, id, n)
<1> DEFINE T == {i \in Nat : \E f : Keeps(f, list, id, i)}
<1>1. 0 \in T
  <2>1. Keeps([i \in 0 .. 0 |-> << >>], list, id, 0)
    BY DEF Keeps
  <2> QED BY <2>1, Zenon
<1>2. ASSUME NEW k \in 0 .. n - 1, k \in T PROVE k + 1 \in T
  <2>1. PICK f : Keeps(f, list, id, k)
    BY <1>2, Zenon
  <2> DEFINE g == [i \in 0 .. k + 1 |->
                     IF i = k + 1
                       THEN IF list[i].id # id THEN Append(f[k], list[i]) ELSE f[k]
                       ELSE f[i]]
  <2>2. ASSUME NEW i \in 0 .. k + 1
        PROVE  g[i] = IF i = 0 THEN << >>
                      ELSE IF list[i].id # id THEN Append(g[i - 1], list[i])
                      ELSE g[i - 1]
    <3>1. CASE i = k + 1
      BY <1>2, <3>1
    <3>2. CASE i = 0
      BY <1>2, <2>1, <3>2 DEF Keeps
    <3>3. CASE i \in 1 .. k
      <4>1. f[i] = IF list[i].id # id THEN Append(f[i - 1], list[i]) ELSE f[i - 1]
        <5>1. i \in 0 .. k /\ i # 0
          BY <1>2, <3>3
        <5> QED BY <2>1, <5>1, Zenon DEF Keeps
      <4>2. g[i] = f[i] /\ g[i - 1] = f[i - 1]
        BY <1>2, <3>3
      <4> QED BY <3>3, <4>1, <4>2
    <3> QED BY <1>2, <3>1, <3>2, <3>3
  <2>3. DOMAIN g = 0 .. k + 1 /\ g = [i \in 0 .. k + 1 |-> g[i]]
    BY Zenon
  <2> HIDE DEF g
  <2>4. Keeps(g, list, id, k + 1)
    BY <2>2, <2>3, Zenon DEF Keeps
  <2> QED BY <1>2, <2>4
<1> HIDE DEF T
<1>3. 0 .. n \subseteq T
  BY <1>1, <1>2, InductionUpTo, Zenon
<1>4. n \in T
  BY <1>3
<1> QED BY <1>4, Zenon DEF T

\* Without's loop, one iteration at a time.
LEMMA WithoutLoop ==
    ASSUME NEW list \in Seq(Mock), NEW id
    PROVE  \E f : /\ f[0] = << >>
                  /\ \A i \in 1 .. Len(list) :
                       f[i] = IF list[i].id # id THEN Append(f[i - 1], list[i])
                              ELSE f[i - 1]
                  /\ Without(list, id) = f[Len(list)]
<1> DEFINE n == Len(list)
           kept == CHOOSE f : Keeps(f, list, id, n)
<1>1. n \in Nat
  OBVIOUS
<1>2. Keeps(kept, list, id, n)
  BY <1>1, LoopExists, Zenon
<1>3. Without(list, id) = kept[n]
  BY Zenon DEF Without, Keeps
<1> HIDE DEF kept
<1>4. kept[0] = << >>
  BY <1>1, <1>2 DEF Keeps
<1>5. ASSUME NEW i \in 1 .. n
      PROVE  kept[i] = IF list[i].id # id THEN Append(kept[i - 1], list[i])
                       ELSE kept[i - 1]
  <2>1. i \in 0 .. n /\ i # 0
    BY <1>1
  <2> QED BY <1>2, <2>1, Zenon DEF Keeps
<1> QED BY <1>3, <1>4, <1>5, Zenon

\* l has mocks of the first n of list, each of them once, and none named id.
Selects(l, list, n, id) ==
    /\ l \in Seq(Mock)
    /\ \E g \in [DOMAIN l -> 1 .. n] :
         /\ \A i, j \in DOMAIN l : g[i] = g[j] => i = j
         /\ \A i \in DOMAIN l : l[i] = list[g[i]] /\ l[i].id # id

\* Appending the next mock.
LEMMA SelectsNext ==
    ASSUME NEW list \in Seq(Mock), NEW id, NEW n \in Nat, n + 1 <= Len(list),
           NEW l, Selects(l, list, n, id)
    PROVE  /\ Selects(l, list, n + 1, id)
           /\ list[n + 1].id # id => Selects(Append(l, list[n + 1]), list, n + 1, id)
<1>1. l \in Seq(Mock) /\ Len(l) \in Nat /\ DOMAIN l = 1 .. Len(l) /\ list[n + 1] \in Mock
  BY DEF Selects
<1>2. PICK g \in [DOMAIN l -> 1 .. n] :
         /\ \A i, j \in DOMAIN l : g[i] = g[j] => i = j
         /\ \A i \in DOMAIN l : l[i] = list[g[i]] /\ l[i].id # id
  BY Zenon DEF Selects
<1>3. Selects(l, list, n + 1, id)
  <2>1. g \in [DOMAIN l -> 1 .. n + 1]
    BY <1>2
  <2> QED BY <1>1, <1>2, <2>1, Zenon DEF Selects
<1>4. ASSUME list[n + 1].id # id
      PROVE  Selects(Append(l, list[n + 1]), list, n + 1, id)
  <2> DEFINE k == Len(l)
             a == Append(l, list[n + 1])
             h == [i \in 1 .. k + 1 |-> IF i = k + 1 THEN n + 1 ELSE g[i]]
  <2>1. /\ a \in Seq(Mock) /\ DOMAIN a = 1 .. k + 1
        /\ a[k + 1] = list[n + 1]
        /\ \A i \in 1 .. k : a[i] = l[i]
    BY <1>1
  <2>2. k \in Nat /\ DOMAIN l = 1 .. k
    BY <1>1, Zenon
  <2> HIDE DEF k, a
  <2>3. h \in [DOMAIN a -> 1 .. n + 1]
    BY <1>2, <2>1, <2>2
  <2>4. \A i, j \in DOMAIN a : h[i] = h[j] => i = j
    <3>1. \A i \in 1 .. k : g[i] # n + 1
      BY <1>2, <2>2
    <3> QED BY <1>2, <2>1, <2>2, <3>1
  <2>5. \A i \in DOMAIN a : a[i] = list[h[i]] /\ a[i].id # id
    BY <1>2, <1>4, <2>1, <2>2
  <2> HIDE DEF h
  <2> QED BY <2>1, <2>3, <2>4, <2>5, Zenon DEF Selects, a
<1> QED BY <1>3, <1>4, Zenon

\* Without keeps mocks of the list, each once, and none that is named id.
LEMMA WithoutSelects ==
    ASSUME NEW list \in Seq(Mock), NEW id
    PROVE  Selects(Without(list, id), list, Len(list), id)
<1> DEFINE n == Len(list)
<1>1. PICK f : /\ f[0] = << >>
               /\ \A i \in 1 .. n :
                    f[i] = IF list[i].id # id THEN Append(f[i - 1], list[i]) ELSE f[i - 1]
               /\ Without(list, id) = f[n]
  BY WithoutLoop, Zenon
<1> DEFINE T == {i \in Nat : Selects(f[i], list, i, id)}
<1>2. n \in Nat
  OBVIOUS
<1>3. 0 \in T
  <2>1. << >> \in Seq(Mock) /\ DOMAIN << >> = {}
    OBVIOUS
  <2>2. [i \in {} |-> 1] \in [{} -> 1 .. 0]
    BY Zenon
  <2>3. Selects(<< >>, list, 0, id)
    BY <2>1, <2>2, Zenon DEF Selects
  <2> QED BY <1>1, <2>3, Zenon
<1>4. ASSUME NEW i \in 0 .. n - 1, i \in T PROVE i + 1 \in T
  <2>1. i + 1 \in 1 .. n /\ (i + 1) - 1 = i /\ i \in Nat /\ i + 1 <= Len(list)
    BY <1>2
  <2>2. f[i + 1] = IF list[i + 1].id # id THEN Append(f[i], list[i + 1]) ELSE f[i]
    BY <1>1, <2>1, Zenon
  <2>3. Selects(f[i + 1], list, i + 1, id)
    BY <1>4, <2>1, <2>2, SelectsNext, Zenon
  <2> QED BY <2>1, <2>3
<1> HIDE DEF T
<1>5. 0 .. n \subseteq T
  BY <1>2, <1>3, <1>4, InductionUpTo, Zenon
<1>6. n \in T
  BY <1>2, <1>5
<1> QED BY <1>1, <1>6, Zenon DEF T

\* First finds a mock that is there.
LEMMA FirstFinds ==
    ASSUME NEW list \in Seq(Mock), NEW id, Positions(list, id) # {}
    PROVE  First(list, id) \in DOMAIN list /\ list[First(list, id)].id = id
<1>1. Positions(list, id) \in SUBSET Nat
  BY DEF Positions
<1>2. \E x \in Positions(list, id) : \A y \in Positions(list, id) : x <= y
  BY <1>1, LeastElement, Zenon
<1>3. First(list, id) \in Positions(list, id)
  BY <1>2, Zenon DEF First
<1> QED BY <1>3, Zenon DEF Positions

\* What every copy of a list keeps, under protocol p, with n cells allocated and K
\* the ids that may be listed.
Good(p, list, n, K) ==
    /\ list \in Seq(Mock)
    /\ \A i \in DOMAIN list : list[i].cell \in 0 .. n /\ list[i].id \in K
    /\ Handlers[p].upsert =>
         \A i, j \in DOMAIN list : list[i].id = list[j].id /\ list[i].id # NoID => i = j
    /\ \A i, j \in DOMAIN list :
         (list[i].cell = list[j].cell /\ list[i].cell # Nil)
            => list[i].id = list[j].id \/ ConfigShares(p, list[i], list[j].id)

\* More cells and more ids do not matter.
LEMMA GoodGrows ==
    ASSUME NEW p, NEW list, NEW n \in Nat, NEW K, Good(p, list, n, K),
           NEW k \in Nat, n <= k, NEW J, K \subseteq J
    PROVE  Good(p, list, k, J)
<1>1. \A i \in DOMAIN list : list[i].cell \in 0 .. k /\ list[i].id \in J
  BY DEF Good
<1> QED BY <1>1, Zenon DEF Good

\* A mock is replaced by one of the same id, with its cell, a new one or none.
LEMMA GoodReplace ==
    ASSUME NEW p, NEW list, NEW n \in Nat, NEW K, Good(p, list, n, K),
           NEW i \in DOMAIN list, NEW m \in Mock, m.id = list[i].id,
           NEW k \in Nat, n <= k, m.cell \in 0 .. k,
           m.cell \in {Nil, list[i].cell} \/ m.cell > n
    PROVE  Good(p, [list EXCEPT ![i] = m], k, K)
<1> DEFINE l == [list EXCEPT ![i] = m]
<1>1. list \in Seq(Mock) /\ l \in Seq(Mock) /\ DOMAIN l = DOMAIN list
  BY DEF Good
<1>2. l[i] = m /\ \A j \in DOMAIN list \ {i} : l[j] = list[j]
  BY <1>1, Zenon
<1> HIDE DEF l
<1>3. \A j \in DOMAIN l : l[j].id = list[j].id
  BY <1>1, <1>2, Zenon
<1>4. \A j \in DOMAIN l : l[j].cell \in 0 .. k /\ l[j].id \in K
  BY <1>1, <1>2, <1>3 DEF Good
<1>5. Handlers[p].upsert => \A a, b \in DOMAIN l : l[a].id = l[b].id /\ l[a].id # NoID => a = b
  BY <1>1, <1>3, Zenon DEF Good
<1>6. ASSUME NEW a \in DOMAIN l, NEW b \in DOMAIN l,
             l[a].cell = l[b].cell, l[a].cell # Nil
      PROVE  l[a].id = l[b].id \/ ConfigShares(p, l[a], l[b].id)
  <2>1. \A j \in DOMAIN list : list[j].cell \in 0 .. n
    BY Zenon DEF Good
  <2>2. list[a].cell = list[b].cell /\ list[a].cell # Nil
           => list[a].id = list[b].id \/ ConfigShares(p, list[a], list[b].id)
    BY <1>1, <1>6, Zenon DEF Good
  <2>3. CASE a = b
    BY <2>3, Zenon
  <2>4. CASE a # b /\ m.cell > n
    <3>1. ASSUME NEW j \in DOMAIN list PROVE m.cell # list[j].cell
      <4>1. list[j].cell \in 0 .. n
        BY <2>1, Zenon
      <4> QED BY <2>4, <4>1
    <3>2. a # i /\ b # i
      BY <1>1, <1>2, <1>6, <2>4, <3>1, Zenon
    <3>3. l[a] = list[a] /\ l[b] = list[b]
      BY <1>1, <1>2, <3>2, Zenon
    <3> QED BY <1>6, <2>2, <3>3, Zenon
  <2>5. CASE a # b /\ m.cell \in {Nil, list[i].cell}
    <3>1. list[a].cell = l[a].cell \/ l[a].cell = Nil
      BY <1>1, <1>2, <2>5, Zenon
    <3>2. list[b].cell = l[b].cell \/ l[b].cell = Nil
      BY <1>1, <1>2, <2>5, Zenon
    <3>3. l[a].id = list[a].id /\ l[b].id = list[b].id /\ l[a].cell = list[a].cell
      BY <1>1, <1>3, <1>6, <3>1, Zenon
    <3> QED BY <1>6, <2>2, <3>2, <3>3, Zenon DEF ConfigShares
  <2> QED BY <2>3, <2>4, <2>5, Zenon
<1> QED BY <1>1, <1>4, <1>5, <1>6 DEF Good, l

\* A mock is appended, where the handlers upsert only if its id is new.
LEMMA GoodAppend ==
    ASSUME NEW p, NEW list, NEW n \in Nat, NEW K, Good(p, list, n, K), NEW m \in Mock, m.id \in K,
           Handlers[p].upsert => Positions(list, m.id) = {},
           NEW k \in Nat, n <= k, m.cell \in 0 .. k, m.cell = Nil \/ m.cell > n
    PROVE  Good(p, Append(list, m), k, K)
<1> DEFINE l == Append(list, m)
           e == Len(list)
<1>1. /\ list \in Seq(Mock) /\ l \in Seq(Mock) /\ e \in Nat
      /\ DOMAIN list = 1 .. e /\ DOMAIN l = 1 .. e + 1
      /\ l[e + 1] = m /\ \A i \in 1 .. e : l[i] = list[i]
  <2>1. list \in Seq(Mock)
    BY Zenon DEF Good
  <2> QED BY <2>1
<1> HIDE DEF l, e
<1>2. \A i \in 1 .. e : list[i].cell \in 0 .. n /\ list[i].id \in K
  BY <1>1, Zenon DEF Good
<1>3. \A i \in DOMAIN l : i = e + 1 \/ i \in 1 .. e
  BY <1>1
<1>4. \A i \in DOMAIN l : l[i].cell \in 0 .. k /\ l[i].id \in K
  BY <1>1, <1>2, <1>3
<1>5. ASSUME Handlers[p].upsert, NEW i \in DOMAIN l, NEW j \in DOMAIN l,
             l[i].id = l[j].id, l[i].id # NoID
      PROVE  i = j
  <2>1. \A x \in 1 .. e : list[x].id # m.id
    BY <1>1, <1>5, Zenon DEF Positions
  <2>2. \A x, y \in 1 .. e : list[x].id = list[y].id /\ list[x].id # NoID => x = y
    BY <1>1, <1>5, Zenon DEF Good
  <2>3. i = j \/ (i \in 1 .. e /\ j \in 1 .. e)
    BY <1>1, <1>3, <1>5, <2>1, Zenon
  <2> QED BY <1>1, <1>5, <2>2, <2>3, Zenon
<1>6. ASSUME NEW i \in DOMAIN l, NEW j \in DOMAIN l, l[i].cell = l[j].cell, l[i].cell # Nil
      PROVE  l[i].id = l[j].id \/ ConfigShares(p, l[i], l[j].id)
  <2>1. \A x \in 1 .. e : list[x].cell # m.cell \/ m.cell = Nil
    BY <1>2
  <2>2. \A x, y \in 1 .. e :
          (list[x].cell = list[y].cell /\ list[x].cell # Nil)
             => list[x].id = list[y].id \/ ConfigShares(p, list[x], list[y].id)
    BY <1>1, Zenon DEF Good
  <2>3. i = j \/ (i \in 1 .. e /\ j \in 1 .. e)
    BY <1>1, <1>3, <1>6, <2>1, Zenon
  <2> QED BY <1>1, <1>6, <2>2, <2>3, Zenon
<1> QED BY <1>1, <1>4, <1>5, <1>6, Zenon DEF Good, l

\* Mocks are taken out.
LEMMA GoodSelects ==
    ASSUME NEW p, NEW list, NEW n \in Nat, NEW K, Good(p, list, n, K), NEW l, NEW id,
           Selects(l, list, Len(list), id)
    PROVE  Good(p, l, n, K)
<1>1. list \in Seq(Mock) /\ DOMAIN list = 1 .. Len(list) /\ l \in Seq(Mock)
  BY DEF Good, Selects
<1>2. PICK g \in [DOMAIN l -> DOMAIN list] :
         /\ \A i, j \in DOMAIN l : g[i] = g[j] => i = j
         /\ \A i \in DOMAIN l : l[i] = list[g[i]]
  BY <1>1, Zenon DEF Selects
<1>3. \A i \in DOMAIN l : g[i] \in DOMAIN list /\ l[i] = list[g[i]]
  BY <1>2, Zenon
<1>4. \A i \in DOMAIN l : l[i].cell \in 0 .. n /\ l[i].id \in K
  <2>1. \A u \in DOMAIN list : list[u].cell \in 0 .. n /\ list[u].id \in K
    BY Zenon DEF Good
  <2> QED BY <1>3, <2>1
<1>5. ASSUME Handlers[p].upsert, NEW i \in DOMAIN l, NEW j \in DOMAIN l, l[i].id = l[j].id, l[i].id # NoID
      PROVE  i = j
  <2>1. \A u, v \in DOMAIN list : list[u].id = list[v].id /\ list[u].id # NoID => u = v
    BY <1>5, Zenon DEF Good
  <2>2. list[g[i]].id = list[g[j]].id /\ list[g[i]].id # NoID
    BY <1>3, <1>5
  <2> QED BY <1>2, <1>3, <2>1, <2>2, Zenon
<1>6. ASSUME NEW i \in DOMAIN l, NEW j \in DOMAIN l, l[i].cell = l[j].cell, l[i].cell # Nil
      PROVE  l[i].id = l[j].id \/ ConfigShares(p, l[i], l[j].id)
  <2>1. \A u, v \in DOMAIN list :
          (list[u].cell = list[v].cell /\ list[u].cell # Nil)
             => list[u].id = list[v].id \/ ConfigShares(p, list[u], list[v].id)
    BY Zenon DEF Good
  <2>2. list[g[i]].cell = list[g[j]].cell /\ list[g[i]].cell # Nil
    BY <1>3, <1>6
  <2>3. list[g[i]].id = list[g[j]].id \/ ConfigShares(p, list[g[i]], list[g[j]].id)
    BY <1>3, <2>1, <2>2, Zenon
  <2> QED BY <1>3, <2>3, Zenon
<1> QED BY <1>1, <1>4, <1>5, <1>6, Zenon DEF Good

-----------------------------------------------------------------------------
(* The inductive invariant *)

ConfigIDs(p) == {id \in IDs \cup {NoID} : Positions(ConfigMocks[p], id) # {}}

\* A call in progress: its copy is good, and holds the mock it looked up.
InProgress(q) ==
    /\ q.id \in IDs
    /\ q.body \in Bodies
    /\ Good(proto, q.list, Len(cells), touched \cup ConfigIDs(proto))
    /\ q.op # "add" => Positions(q.list, q.id) # {}

AdminInv ==
    /\ proto \in Protocols
    /\ cells \in Seq(Bodies)
    /\ Len(ConfigCells) <= Len(cells)
    /\ calls \in 0 .. MaxCalls
    /\ touched \subseteq IDs \cup {NoID}
    /\ Good(proto, mocks, Len(cells), touched \cup ConfigIDs(proto))
    /\ DOMAIN call = Callers
    /\ \A c \in Callers : call[c] = NoCall \/ InProgress(call[c])

\* The configured list is good.
LEMMA ConfigGood ==
    ASSUME NEW p \in Protocols, NEW n \in Nat, Len(ConfigCells) <= n, NEW K, ConfigIDs(p) \subseteq K
    PROVE  Good(p, ConfigMocks[p], n, K)
<1> DEFINE list == ConfigMocks[p]
<1>1. /\ list \in Seq(Mock) /\ Len(ConfigCells) \in Nat
      /\ \A i \in DOMAIN list : list[i].cell <= Len(ConfigCells)
  BY MockAdminAssumption
<1>2. Handlers[p].upsert =>
        \A i, j \in DOMAIN list : list[i].id = list[j].id /\ list[i].id # NoID => i = j
  BY MockAdminAssumption, Zenon
<1>3. ASSUME NEW i \in DOMAIN list
      PROVE  list[i].cell \in 0 .. n /\ list[i].id \in K
  <2> HIDE DEF list
  <2>1. list[i] \in Mock
    BY <1>1
  <2>2. list[i].cell <= Len(ConfigCells) /\ list[i].cell \in Nat
    BY <1>1, <2>1 DEF Mock
  <2>3. list[i].id \in ConfigIDs(p)
    BY <2>1, Zenon DEF ConfigIDs, Positions, Mock, list
  <2> QED BY <1>1, <2>2, <2>3
<1>4. \A i, j \in DOMAIN list :
        list[i].cell = list[j].cell => ConfigShares(p, list[i], list[j].id)
  BY Zenon DEF ConfigShares
<1> QED BY <1>1, <1>2, <1>3, <1>4, Zenon DEF Good

\* What all handlers have in common: the end of a call installs a good list.
LEMMA InstallStep ==
    ASSUME AdminInv, NEW c \in Callers, NEW list, SetMocks(c, list),
           call[c].id \in IDs, cells' \in Seq(Bodies), Len(cells) <= Len(cells'),
           Good(proto, list, Len(cells'), (touched \cup {call[c].id}) \cup ConfigIDs(proto))
    PROVE  AdminInv'
<1> DEFINE n == Len(cells)
           k == Len(cells')
           K == touched \cup ConfigIDs(proto)
           J == touched' \cup ConfigIDs(proto)
<1>1. /\ mocks' = list /\ call' = [call EXCEPT ![c] = NoCall]
      /\ touched' = touched \cup {call[c].id}
      /\ proto' = proto /\ calls' = calls
  BY Zenon DEF SetMocks
<1>2. n \in Nat /\ k \in Nat /\ n <= k /\ K \subseteq J /\ Len(ConfigCells) \in Nat
  BY <1>1, MockAdminAssumption DEF AdminInv
<1>3. Len(ConfigCells) <= Len(cells')
  BY <1>2 DEF AdminInv
<1>4. ASSUME NEW d \in Callers PROVE call'[d] = NoCall \/ InProgress(call[d])'
  <2>1. CASE d = c
    BY <1>1, <2>1, Zenon DEF AdminInv
  <2>2. CASE d # c
    <3>1. call'[d] = call[d] /\ (call[d] = NoCall \/ InProgress(call[d]))
      BY <1>1, <2>2, Zenon DEF AdminInv
    <3>2. ASSUME InProgress(call[d]) PROVE InProgress(call[d])'
      <4>1. Good(proto, call[d].list, n, K)
        BY <3>2, Zenon DEF InProgress
      <4>2. Good(proto, call[d].list, k, J)
        BY <1>2, <4>1, GoodGrows, Zenon
      <4>3. Good(proto', call'[d].list, Len(cells'), touched' \cup ConfigIDs(proto'))
        BY <1>1, <3>1, <4>2, Zenon
      <4> QED BY <3>1, <3>2, <4>3, Zenon DEF InProgress
    <3> QED BY <3>1, <3>2, Zenon
  <2> QED BY <2>1, <2>2, Zenon
<1>5. Good(proto', mocks', Len(cells'), touched' \cup ConfigIDs(proto'))
  BY <1>1, Zenon
<1> QED BY <1>1, <1>3, <1>4, <1>5, Zenon DEF AdminInv

\* The call that a handler ends.
LEMMA CallOf ==
    ASSUME AdminInv, NEW c \in Callers, call[c].op # "none"
    PROVE  InProgress(call[c])
BY DEF AdminInv, NoCall

\* A decoded mock has a new cell or none.
LEMMA DecodedFits ==
    ASSUME cells \in Seq(Bodies), NEW c, call[c].id \in IDs, call[c].body \in Bodies,
           NEW fresh \in BOOLEAN, fresh => Len(cells) < MaxCells, cells' = CellsWith(c, fresh)
    PROVE  LET m == Decoded(c, fresh)
           IN  /\ m \in Mock /\ m.id = call[c].id
               /\ m.cell = Nil \/ m.cell > Len(cells)
               /\ m.cell \in 0 .. Len(cells')
               /\ cells' \in Seq(Bodies) /\ Len(cells) <= Len(cells')
<1>1. Len(cells) \in Nat /\ MaxCells \in Nat
  BY MockAdminAssumption
<1>2. CASE fresh
  <2>1. cells' = Append(cells, call[c].body) /\ Len(cells') = Len(cells) + 1
    BY <1>2 DEF CellsWith
  <2>2. Decoded(c, fresh) = [id |-> call[c].id, body |-> call[c].body, cell |-> Len(cells) + 1]
    BY <1>2, Zenon DEF Decoded
  <2>3. Len(cells) + 1 \in 0 .. MaxCells
    BY <1>1, <1>2
  <2> QED BY <1>1, <2>1, <2>2, <2>3 DEF Mock
<1>3. CASE ~fresh
  <2>1. cells' = cells
    BY <1>3, Zenon DEF CellsWith
  <2>2. Decoded(c, fresh) = [id |-> call[c].id, body |-> call[c].body, cell |-> Nil]
    BY <1>3, Zenon DEF Decoded
  <2> QED BY <1>1, <2>1, <2>2 DEF Mock, Nil
<1> QED BY <1>2, <1>3, Zenon

\* What the handlers start from: the copy, and what may be listed afterwards.
LEMMA CopyGood ==
    ASSUME AdminInv, NEW c, InProgress(call[c])
    PROVE  LET K == (touched \cup {call[c].id}) \cup ConfigIDs(proto)
           IN  /\ call[c].id \in K
               /\ Good(proto, call[c].list, Len(cells), K)
               /\ call[c].list \in Seq(Mock)
               /\ Len(cells) \in Nat
<1> DEFINE K == touched \cup ConfigIDs(proto)
           J == (touched \cup {call[c].id}) \cup ConfigIDs(proto)
<1>1. Good(proto, call[c].list, Len(cells), K) /\ K \subseteq J /\ Len(cells) \in Nat
  BY DEF InProgress, AdminInv
<1>2. Good(proto, call[c].list, Len(cells), J)
  BY <1>1, GoodGrows
<1> QED BY <1>1, <1>2, Zenon DEF Good

LEMMA AddStep ==
    ASSUME AdminInv, NEW c \in Callers, NEW fresh \in BOOLEAN, addMock(c, fresh)
    PROVE  AdminInv'
<1> DEFINE m == Decoded(c, fresh)
           list == call[c].list
           K == (touched \cup {call[c].id}) \cup ConfigIDs(proto)
<1>1. InProgress(call[c]) /\ call[c].id \in IDs /\ call[c].body \in Bodies
  BY CallOf, Zenon DEF addMock, InProgress
<1>2. /\ call[c].id \in K /\ Good(proto, list, Len(cells), K)
      /\ list \in Seq(Mock) /\ Len(cells) \in Nat
  BY <1>1, CopyGood, Zenon
<1>3. /\ m \in Mock /\ m.id = call[c].id
      /\ m.cell = Nil \/ m.cell > Len(cells)
      /\ m.cell \in 0 .. Len(cells')
      /\ cells' \in Seq(Bodies) /\ Len(cells) <= Len(cells')
  BY <1>1, DecodedFits, Zenon DEF addMock, AdminInv
<1>4. Len(cells') \in Nat /\ SetMocks(c, Add(list, m))
  BY <1>3 DEF addMock
<1> HIDE DEF m, K
<1>5. Good(proto, Add(list, m), Len(cells'), K)
  <2>1. CASE Handlers[proto].upsert /\ Positions(list, m.id) # {}
    <3> DEFINE i == First(list, m.id)
    <3>1. i \in DOMAIN list /\ list[i].id = m.id
      BY <1>2, <2>1, FirstFinds, Zenon
    <3> HIDE DEF i
    <3>2. Good(proto, [list EXCEPT ![i] = m], Len(cells'), K)
      BY <1>2, <1>3, <1>4, <3>1, GoodReplace, Zenon
    <3> QED BY <2>1, <3>2, Zenon DEF Add, Replace, i
  <2>2. CASE ~(Handlers[proto].upsert /\ Positions(list, m.id) # {})
    <3>1. Handlers[proto].upsert => Positions(list, m.id) = {}
      BY <2>2, Zenon
    <3>2. Good(proto, Append(list, m), Len(cells'), K)
      BY <1>2, <1>3, <1>4, <3>1, GoodAppend, Zenon
    <3> QED BY <2>2, <3>2, Zenon DEF Add
  <2> QED BY <2>1, <2>2, Zenon
<1> QED BY <1>1, <1>3, <1>4, <1>5, InstallStep, Zenon DEF K

LEMMA UpdateStep ==
    ASSUME AdminInv, NEW c \in Callers, NEW fresh \in BOOLEAN, updateMock(c, fresh)
    PROVE  AdminInv'
<1> DEFINE m == Decoded(c, fresh)
           list == call[c].list
           i == First(list, call[c].id)
           K == (touched \cup {call[c].id}) \cup ConfigIDs(proto)
<1>1. InProgress(call[c]) /\ call[c].id \in IDs /\ call[c].body \in Bodies
  BY CallOf, Zenon DEF updateMock, InProgress
<1>2. Good(proto, list, Len(cells), K) /\ list \in Seq(Mock) /\ Len(cells) \in Nat
  BY <1>1, CopyGood, Zenon
<1>3. /\ m \in Mock /\ m.id = call[c].id
      /\ m.cell = Nil \/ m.cell > Len(cells)
      /\ m.cell \in 0 .. Len(cells')
      /\ cells' \in Seq(Bodies) /\ Len(cells) <= Len(cells')
  BY <1>1, DecodedFits, Zenon DEF updateMock, AdminInv
<1>4. Len(cells') \in Nat /\ SetMocks(c, [list EXCEPT ![i] = m])
  BY <1>3 DEF updateMock, Replace
<1>5. i \in DOMAIN list /\ list[i].id = call[c].id
  BY <1>1, <1>2, FirstFinds, Zenon DEF updateMock, InProgress
<1> HIDE DEF m, K, i
<1>6. Good(proto, [list EXCEPT ![i] = m], Len(cells'), K)
  BY <1>2, <1>3, <1>4, <1>5, GoodReplace, Zenon
<1> QED BY <1>1, <1>3, <1>4, <1>6, InstallStep, Zenon DEF K

LEMMA DeleteStep ==
    ASSUME AdminInv, NEW c \in Callers, deleteMock(c)
    PROVE  AdminInv'
<1> DEFINE list == call[c].list
           K == (touched \cup {call[c].id}) \cup ConfigIDs(proto)
<1>1. InProgress(call[c]) /\ call[c].id \in IDs
  BY CallOf, Zenon DEF deleteMock, InProgress
<1>2. Good(proto, list, Len(cells), K) /\ list \in Seq(Mock) /\ Len(cells) \in Nat
  BY <1>1, CopyGood, Zenon
<1>3. cells' = cells /\ cells' \in Seq(Bodies) /\ SetMocks(c, Without(list, call[c].id))
  BY Zenon DEF deleteMock, Remove, AdminInv
<1>4. Good(proto, Without(list, call[c].id), Len(cells'), K)
  BY <1>2, <1>3, WithoutSelects, GoodSelects, Zenon
<1> HIDE DEF K
<1>5. Len(cells) <= Len(cells')
  BY <1>2, <1>3
<1> QED BY <1>1, <1>3, <1>4, <1>5, InstallStep, Zenon DEF K

\* A patch writes to the cell of its mock, or to a new one.
LEMMA PatchCells ==
    ASSUME AdminInv, NEW c \in Callers, NEW fields, patchMock(c, fields)
    PROVE  \E i \in DOMAIN call[c].list, m \in Mock :
             /\ i = First(call[c].list, call[c].id)
             /\ call[c].list[i].id = call[c].id /\ m.id = call[c].id
             /\ m.cell \in 0 .. Len(cells')
             /\ m.cell = call[c].list[i].cell \/ m.cell > Len(cells)
             /\ cells' \in Seq(Bodies) /\ Len(cells) <= Len(cells')
             /\ \A n \in 1 .. Len(cells) :
                  n # call[c].list[i].cell => cells'[n] = cells[n]
             /\ SetMocks(c, [call[c].list EXCEPT ![i] = m])
<1> DEFINE list == call[c].list
           i == First(list, call[c].id)
           old == list[i]
           make == "cell" \in fields /\ old.cell = Nil
           b == IF "value" \in fields THEN call[c].body ELSE old.body
           k == IF make THEN Len(cells) + 1 ELSE old.cell
           m == [old EXCEPT !.body = b, !.cell = k]
<1>1. InProgress(call[c]) /\ call[c].id \in IDs /\ call[c].body \in Bodies
  BY CallOf, Zenon DEF patchMock, InProgress
<1>2. /\ list \in Seq(Mock) /\ cells \in Seq(Bodies)
      /\ Len(cells) \in Nat /\ MaxCells \in Nat
      /\ \A j \in DOMAIN list : list[j].cell \in 0 .. Len(cells)
  BY <1>1, MockAdminAssumption DEF InProgress, Good, AdminInv
<1>3. i \in DOMAIN list /\ old.id = call[c].id
  BY <1>1, <1>2, FirstFinds, Zenon DEF patchMock, InProgress
<1>4. old \in Mock /\ old.cell \in 0 .. Len(cells)
  BY <1>2, <1>3
<1>5. /\ make => Len(cells) < MaxCells
      /\ cells' = IF make THEN Append(cells, call[c].body)
                  ELSE IF "cell" \in fields THEN [cells EXCEPT ![old.cell] = call[c].body]
                  ELSE cells
      /\ SetMocks(c, [list EXCEPT ![i] = m])
  BY Zenon DEF patchMock
<1>6. m \in Mock /\ m.id = call[c].id /\ m.cell = k
  <2>1. old.body \in Bodies /\ old.cell \in 0 .. MaxCells /\ old.id \in IDs
    BY <1>1, <1>3, <1>4, Zenon DEF Mock
  <2>2. make => Len(cells) + 1 \in 0 .. MaxCells
    BY <1>2, <1>5
  <2> HIDE DEF old, make
  <2>3. b \in Bodies /\ k \in 0 .. MaxCells
    BY <1>1, <2>1, <2>2, Zenon
  <2> HIDE DEF b, k
  <2> QED BY <1>3, <1>4, <2>1, <2>3, Zenon DEF Mock
<1> HIDE DEF m, old, i
<1>7. CASE make
  <2>1. /\ cells' = Append(cells, call[c].body) /\ cells' \in Seq(Bodies)
        /\ Len(cells') = Len(cells) + 1
        /\ \A n \in 1 .. Len(cells) : cells'[n] = cells[n]
    BY <1>1, <1>2, <1>5, <1>7
  <2>2. k = Len(cells) + 1
    BY <1>7, Zenon
  <2>3. k \in 0 .. Len(cells') /\ k > Len(cells) /\ Len(cells) <= Len(cells')
    BY <1>2, <2>1, <2>2
  <2> HIDE DEF k
  <2> QED BY <1>3, <1>5, <1>6, <2>1, <2>3, Zenon DEF i, old
<1>8. CASE ~make /\ "cell" \in fields
  <2>1. old.cell \in 1 .. Len(cells)
    BY <1>2, <1>4, <1>8 DEF Nil
  <2>2. cells' = [cells EXCEPT ![old.cell] = call[c].body]
    BY <1>5, <1>8, Zenon
  <2>3. /\ cells' \in Seq(Bodies) /\ Len(cells') = Len(cells)
        /\ \A n \in 1 .. Len(cells) : n # old.cell => cells'[n] = cells[n]
    BY <1>1, <1>2, <2>1, <2>2, ExceptSeq
  <2>4. k = old.cell
    BY <1>8, Zenon
  <2>5. k \in 0 .. Len(cells') /\ Len(cells) <= Len(cells')
    BY <1>2, <1>4, <2>3, <2>4
  <2> HIDE DEF k
  <2> QED BY <1>3, <1>5, <1>6, <2>3, <2>4, <2>5, Zenon DEF i, old
<1>9. CASE "cell" \notin fields
  <2>1. cells' = cells /\ k = old.cell
    BY <1>5, <1>9, Zenon
  <2>2. k \in 0 .. Len(cells') /\ Len(cells) <= Len(cells')
    BY <1>2, <1>4, <2>1
  <2> HIDE DEF k
  <2> QED BY <1>2, <1>3, <1>5, <1>6, <2>1, <2>2, Zenon DEF i, old
<1> QED BY <1>7, <1>8, <1>9, Zenon

LEMMA PatchStep ==
    ASSUME AdminInv, NEW c \in Callers, NEW fields, patchMock(c, fields)
    PROVE  AdminInv'
<1> DEFINE list == call[c].list
           K == (touched \cup {call[c].id}) \cup ConfigIDs(proto)
<1>1. InProgress(call[c]) /\ call[c].id \in IDs
  BY CallOf, Zenon DEF patchMock, InProgress
<1>2. Good(proto, list, Len(cells), K) /\ list \in Seq(Mock) /\ Len(cells) \in Nat
  BY <1>1, CopyGood, Zenon
<1>3. PICK i \in DOMAIN list, m \in Mock :
             /\ list[i].id = call[c].id /\ m.id = call[c].id
             /\ m.cell \in 0 .. Len(cells')
             /\ m.cell = list[i].cell \/ m.cell > Len(cells)
             /\ cells' \in Seq(Bodies) /\ Len(cells) <= Len(cells')
             /\ SetMocks(c, [list EXCEPT ![i] = m])
  BY PatchCells, Zenon
<1>4. Len(cells') \in Nat
  BY <1>3
<1> HIDE DEF K
<1>5. Good(proto, [list EXCEPT ![i] = m], Len(cells'), K)
  BY <1>2, <1>3, <1>4, GoodReplace, Zenon
<1> QED BY <1>1, <1>3, <1>5, InstallStep, Zenon DEF K

\* A call that starts copies a good list.
LEMMA GetStep ==
    ASSUME AdminInv, NEW c \in Callers, NEW op, NEW id \in IDs, NEW b \in Bodies,
           Get(c, op, id, b)
    PROVE  AdminInv'
<1> DEFINE q == [op |-> op, id |-> id, body |-> b, list |-> mocks]
<1>1. /\ call' = [call EXCEPT ![c] = q] /\ calls < MaxCalls /\ calls' = calls + 1
      /\ op = "add" \/ Positions(mocks, id) # {}
      /\ UNCHANGED <<proto, mocks, cells, touched>>
  BY Zenon DEF Get
<1>2. InProgress(q)
  BY <1>1, Zenon DEF InProgress, AdminInv
<1>3. \A r : InProgress(r)' <=> InProgress(r)
  BY <1>1, Zenon DEF InProgress
<1> HIDE DEF q
<1>4. \A d \in Callers : call'[d] = NoCall \/ InProgress(call[d])'
  BY <1>1, <1>2, <1>3, Zenon DEF AdminInv
<1>5. calls' \in 0 .. MaxCalls
  BY <1>1, MockAdminAssumption DEF AdminInv
<1> QED BY <1>1, <1>4, <1>5, Zenon DEF AdminInv

\* A reset installs the configured list; what calls in progress hold may come
\* back.
LEMMA ResetStep ==
    ASSUME AdminInv, reset
    PROVE  AdminInv'
<1>1. mocks' = ConfigMocks[proto] /\ touched' = Held /\ UNCHANGED <<proto, cells, call, calls>>
  BY Zenon DEF reset
<1>2. Len(cells) \in Nat /\ Len(ConfigCells) <= Len(cells) /\ proto \in Protocols
  BY DEF AdminInv
<1>3. Good(proto, ConfigMocks[proto], Len(cells), touched' \cup ConfigIDs(proto))
  BY <1>2, ConfigGood, Zenon
<1>4. ASSUME NEW d \in Callers, call[d] # NoCall PROVE InProgress(call[d])'
  <2>1. InProgress(call[d])
    BY <1>4, Zenon DEF AdminInv
  <2>2. Good(proto, call[d].list, Len(cells), touched \cup ConfigIDs(proto))
    BY <2>1, Zenon DEF InProgress
  <2>3. \A i \in DOMAIN call[d].list : call[d].list[i].id \in Held
    <3>1. \A i \in DOMAIN call[d].list : call[d].list[i] \in Range(call[d].list)
      BY Zenon DEF Range
    <3> QED BY <1>4, <3>1, Zenon DEF Held
  <2>4. Good(proto, call[d].list, Len(cells), touched' \cup ConfigIDs(proto))
    BY <1>1, <2>2, <2>3, Zenon DEF Good
  <2> QED BY <1>1, <2>1, <2>4, Zenon DEF InProgress
<1>5. touched' \subseteq IDs \cup {NoID}
  <2> SUFFICES ASSUME NEW x \in Held PROVE x \in IDs \cup {NoID}
    BY <1>1, Zenon
  <2>1. PICK d \in Callers : call[d] # NoCall /\ \E m \in Range(call[d].list) : x = m.id
    BY Zenon DEF Held
  <2>2. call[d].list \in Seq(Mock)
    BY <2>1, Zenon DEF AdminInv, InProgress, Good
  <2>3. PICK m \in Mock : x = m.id
    BY <2>1, <2>2 DEF Range
  <2> QED BY <2>1, <2>3, Zenon DEF Mock
<1>6. \A d \in Callers : call'[d] = NoCall \/ InProgress(call[d])'
  BY <1>1, <1>4, Zenon
<1> QED BY <1>1, <1>3, <1>5, <1>6, Zenon DEF AdminInv

LEMMA InitAdmin == Init => AdminInv
<1> SUFFICES ASSUME Init PROVE AdminInv
  BY Zenon
<1>1. /\ proto \in Protocols /\ mocks = ConfigMocks[proto] /\ cells = ConfigCells
      /\ call = [c \in Callers |-> NoCall] /\ calls = 0 /\ touched = {}
  BY Zenon DEF Init
<1>2. cells \in Seq(Bodies) /\ Len(ConfigCells) \in Nat /\ calls \in 0 .. MaxCalls
  BY <1>1, MockAdminAssumption
<1>3. Len(ConfigCells) <= Len(cells) /\ Len(cells) \in Nat
  BY <1>1, <1>2
<1>4. Good(proto, mocks, Len(cells), touched \cup ConfigIDs(proto))
  BY <1>1, <1>3, ConfigGood, Zenon
<1>5. DOMAIN call = Callers /\ \A c \in Callers : call[c] = NoCall
  BY <1>1, Zenon
<1> QED BY <1>1, <1>2, <1>3, <1>4, <1>5, Zenon DEF AdminInv

LEMMA NextAdmin == AdminInv /\ [Next]_vars => AdminInv'
<1> SUFFICES ASSUME AdminInv, [Next]_vars PROVE AdminInv'
  BY Zenon
<1>1. ASSUME NEW c \in Callers, Set(c) PROVE AdminInv'
  BY <1>1, AddStep, UpdateStep, DeleteStep, PatchStep, Zenon DEF Set
<1>2. CASE UNCHANGED vars
  BY <1>2, Zenon DEF vars, AdminInv, InProgress
<1> QED BY <1>1, <1>2, GetStep, ResetStep, Zenon DEF Next

\* Whatever stale copies overlapping calls install and whenever a reset comes
\* between, the lists stay coherent: HTTP ids stay unique, no two mocks share
\* a header map or action they were not configured with, and what a reset
\* removed comes back only through a call that held it.
THEOREM ListsCoherent == Spec => []ListsStayCoherent
<1>1. AdminInv => ListsStayCoherent
  <2> SUFFICES ASSUME AdminInv PROVE ListsStayCoherent
    BY Zenon
  <2>1. Good(proto, mocks, Len(cells), touched \cup ConfigIDs(proto))
    BY Zenon DEF AdminInv
  <2>2. TypeOK
    BY <2>1, Zenon DEF AdminInv, TypeOK, Good
  <2>3. UpsertKeepsIDsUnique /\ CellsAreNotShared
    BY <2>1, Zenon DEF Good, UpsertKeepsIDsUnique, CellsAreNotShared
  <2>4. ResetRemovesDynamicMocks
    BY <2>1, Zenon DEF Good, ResetRemovesDynamicMocks, ConfigIDs
  <2> QED BY <2>2, <2>3, <2>4, Zenon DEF ListsStayCoherent
<1> QED BY <1>1, InitAdmin, NextAdmin, PTL DEF Spec

-----------------------------------------------------------------------------
(* A call that nothing overtook *)

\* Two lists that agree on all mocks that are not named id.
LEMMA WithoutAgrees ==
    ASSUME NEW l \in Seq(Mock), NEW m \in Seq(Mock), Len(l) = Len(m), NEW id,
           \A i \in DOMAIN l : l[i] = m[i] \/ (l[i].id = id /\ m[i].id = id)
    PROVE  Without(l, id) = Without(m, id)
<1> DEFINE n == Len(l)
<1>1. PICK f : /\ f[0] = << >>
               /\ \A i \in 1 .. n :
                    f[i] = IF l[i].id # id THEN Append(f[i - 1], l[i]) ELSE f[i - 1]
               /\ Without(l, id) = f[n]
  BY WithoutLoop, Zenon
<1>2. PICK g : /\ g[0] = << >>
               /\ \A i \in 1 .. n :
                    g[i] = IF m[i].id # id THEN Append(g[i - 1], m[i]) ELSE g[i - 1]
               /\ Without(m, id) = g[n]
  BY WithoutLoop
<1> DEFINE T == {i \in Nat : f[i] = g[i]}
<1>3. n \in Nat /\ DOMAIN l = 1 .. n /\ 0 \in T
  BY <1>1, <1>2
<1>4. ASSUME NEW i \in 0 .. n - 1, i \in T PROVE i + 1 \in T
  <2>1. i + 1 \in 1 .. n /\ (i + 1) - 1 = i /\ i + 1 \in Nat /\ f[i] = g[i]
    BY <1>3, <1>4
  <2>2. /\ f[i + 1] = IF l[i + 1].id # id THEN Append(f[i], l[i + 1]) ELSE f[i]
        /\ g[i + 1] = IF m[i + 1].id # id THEN Append(g[i], m[i + 1]) ELSE g[i]
    BY <1>1, <1>2, <2>1, Zenon
  <2>3. l[i + 1] = m[i + 1] \/ (l[i + 1].id = id /\ m[i + 1].id = id)
    BY <1>3, <2>1, Zenon
  <2>4. f[i + 1] = g[i + 1]
    BY <2>1, <2>2, <2>3
  <2> QED BY <2>1, <2>4, Zenon
<1> HIDE DEF T
<1>5. 0 .. n \subseteq T
  BY <1>3, <1>4, InductionUpTo, Zenon
<1>6. n \in T
  BY <1>3, <1>5
<1> QED BY <1>1, <1>2, <1>6, Zenon DEF T

\* A mock that is appended under the id itself.
LEMMA WithoutAppended ==
    ASSUME NEW l \in Seq(Mock), NEW x \in Mock
    PROVE  Without(Append(l, x), x.id) = Without(l, x.id)
<1> DEFINE n == Len(l)
           m == Append(l, x)
           id == x.id
<1>0. /\ n \in Nat /\ m \in Seq(Mock) /\ Len(m) = n + 1
      /\ m[n + 1] = x /\ \A i \in 1 .. n : m[i] = l[i]
  OBVIOUS
<1> HIDE DEF m
<1>1. PICK f : /\ f[0] = << >>
               /\ \A i \in 1 .. n :
                    f[i] = IF l[i].id # id THEN Append(f[i - 1], l[i]) ELSE f[i - 1]
               /\ Without(l, id) = f[n]
  BY WithoutLoop, Zenon
<1>2. PICK g : /\ g[0] = << >>
               /\ \A i \in 1 .. n + 1 :
                    g[i] = IF m[i].id # id THEN Append(g[i - 1], m[i]) ELSE g[i - 1]
               /\ Without(m, id) = g[n + 1]
  BY <1>0, WithoutLoop
<1> DEFINE T == {i \in Nat : f[i] = g[i]}
<1>3. 0 \in T
  BY <1>1, <1>2, Zenon
<1>4. ASSUME NEW i \in 0 .. n - 1, i \in T PROVE i + 1 \in T
  <2>1. /\ i + 1 \in 1 .. n /\ i + 1 \in 1 .. n + 1 /\ (i + 1) - 1 = i /\ i + 1 \in Nat
        /\ f[i] = g[i] /\ m[i + 1] = l[i + 1]
    BY <1>0, <1>4
  <2>2. /\ f[i + 1] = IF l[i + 1].id # id THEN Append(f[i], l[i + 1]) ELSE f[i]
        /\ g[i + 1] = IF m[i + 1].id # id THEN Append(g[i], m[i + 1]) ELSE g[i]
    BY <1>1, <1>2, <2>1, Zenon
  <2>3. f[i + 1] = g[i + 1]
    BY <2>1, <2>2, Zenon
  <2> QED BY <2>1, <2>3, Zenon
<1> HIDE DEF T
<1>5. 0 .. n \subseteq T
  BY <1>0, <1>3, <1>4, InductionUpTo, Zenon
<1>6. f[n] = g[n]
  BY <1>0, <1>5 DEF T
<1>7. g[n + 1] = g[n]
  <2>1. n + 1 \in 1 .. n + 1 /\ (n + 1) - 1 = n /\ m[n + 1].id = id
    BY <1>0
  <2> QED BY <1>2, <2>1, Zenon
<1> QED BY <1>1, <1>2, <1>6, <1>7, Zenon DEF m

\* A list without the id loses nothing.
LEMMA WithoutNothing ==
    ASSUME NEW l \in Seq(Mock), NEW id, \A i \in DOMAIN l : l[i].id # id
    PROVE  Without(l, id) = l
<1> DEFINE n == Len(l)
<1>1. PICK f : /\ f[0] = << >>
               /\ \A i \in 1 .. n :
                    f[i] = IF l[i].id # id THEN Append(f[i - 1], l[i]) ELSE f[i - 1]
               /\ Without(l, id) = f[n]
  BY WithoutLoop, Zenon
<1> DEFINE T == {i \in Nat : f[i] = SubSeq(l, 1, i)}
<1>2. n \in Nat /\ DOMAIN l = 1 .. n
  OBVIOUS
<1>3. 0 \in T
  <2>1. SubSeq(l, 1, 0) = << >>
    OBVIOUS
  <2> QED BY <1>1, <2>1, Zenon
<1>4. ASSUME NEW i \in 0 .. n - 1, i \in T PROVE i + 1 \in T
  <2>1. /\ i + 1 \in 1 .. n /\ (i + 1) - 1 = i /\ i + 1 \in Nat
        /\ f[i] = SubSeq(l, 1, i)
    BY <1>2, <1>4
  <2>2. f[i + 1] = Append(SubSeq(l, 1, i), l[i + 1])
    BY <1>1, <1>2, <2>1, Zenon
  <2>3. Append(SubSeq(l, 1, i), l[i + 1]) = SubSeq(l, 1, i + 1)
    BY <1>2, <2>1
  <2> QED BY <2>1, <2>2, <2>3, Zenon
<1> HIDE DEF T
<1>5. 0 .. n \subseteq T
  BY <1>2, <1>3, <1>4, InductionUpTo, Zenon
<1>6. f[n] = SubSeq(l, 1, n)
  BY <1>2, <1>5 DEF T
<1>7. SubSeq(l, 1, n) = l
  OBVIOUS
<1> QED BY <1>1, <1>6, <1>7, Zenon

\* The list a call installs over its own copy differs only in its mock.
LEMMA InstallsOwn ==
    ASSUME AdminInv, NEW c \in Callers, Set(c), call[c].list = mocks
    PROVE  Without(mocks', call[c].id) = Without(mocks, call[c].id)
<1> DEFINE id == call[c].id
<1>1. InProgress(call[c]) /\ id \in IDs /\ call[c].body \in Bodies /\ mocks \in Seq(Mock)
  BY CallOf, Zenon DEF Set, addMock, updateMock, deleteMock, patchMock, InProgress, AdminInv, Good
<1>2. ASSUME NEW i \in DOMAIN mocks, NEW m \in Mock, mocks[i].id = id, m.id = id
      PROVE  Without([mocks EXCEPT ![i] = m], id) = Without(mocks, id)
  <2> DEFINE l == [mocks EXCEPT ![i] = m]
  <2>1. /\ l \in Seq(Mock) /\ Len(l) = Len(mocks) /\ DOMAIN l = DOMAIN mocks
        /\ l[i] = m /\ \A j \in DOMAIN mocks \ {i} : l[j] = mocks[j]
    BY <1>1
  <2> HIDE DEF l
  <2>2. \A j \in DOMAIN l : l[j] = mocks[j] \/ (l[j].id = id /\ mocks[j].id = id)
    BY <1>2, <2>1, Zenon
  <2>3. Without(l, id) = Without(mocks, id)
    BY <1>1, <2>1, <2>2, WithoutAgrees, Zenon
  <2> QED BY <2>3, Zenon DEF l
<1>3. ASSUME NEW fresh \in BOOLEAN, addMock(c, fresh) \/ updateMock(c, fresh)
      PROVE  Without(mocks', id) = Without(mocks, id)
  <2> DEFINE m == Decoded(c, fresh)
             i == First(mocks, id)
  <2>1. m \in Mock /\ m.id = id
    BY <1>1, <1>3, DecodedFits, Zenon DEF addMock, updateMock, AdminInv
  <2>2. ASSUME Positions(mocks, id) # {} PROVE i \in DOMAIN mocks /\ mocks[i].id = id
    BY <1>1, <2>2, FirstFinds, Zenon
  <2>3. \/ mocks' = Append(mocks, m)
        \/ Positions(mocks, id) # {} /\ mocks' = [mocks EXCEPT ![i] = m]
    <3>1. updateMock(c, fresh) => Positions(mocks, id) # {}
      BY <1>1, Zenon DEF updateMock, InProgress
    <3> QED BY <1>3, <2>1, <3>1, Zenon DEF addMock, updateMock, SetMocks, Add, Replace
  <2> HIDE DEF m, i
  <2>4. CASE mocks' = Append(mocks, m)
    BY <1>1, <2>1, <2>4, WithoutAppended, Zenon
  <2>5. CASE Positions(mocks, id) # {} /\ mocks' = [mocks EXCEPT ![i] = m]
    BY <1>2, <2>1, <2>2, <2>5, Zenon
  <2> QED BY <2>3, <2>4, <2>5, Zenon
<1>4. CASE deleteMock(c)
  <2> DEFINE w == Without(mocks, id)
  <2>1. mocks' = w
    BY <1>4, Zenon DEF deleteMock, SetMocks, Remove
  <2>2. w \in Seq(Mock) /\ \A i \in DOMAIN w : w[i].id # id
    BY <1>1, WithoutSelects DEF Selects
  <2> HIDE DEF w
  <2>3. Without(w, id) = w
    BY <2>2, WithoutNothing, Zenon
  <2> QED BY <2>1, <2>3, Zenon DEF w
<1>5. ASSUME NEW fields, patchMock(c, fields)
      PROVE  Without(mocks', id) = Without(mocks, id)
  <2>1. PICK i \in DOMAIN mocks, m \in Mock :
             /\ mocks[i].id = id /\ m.id = id
             /\ SetMocks(c, [mocks EXCEPT ![i] = m])
    BY <1>5, PatchCells, Zenon
  <2>2. mocks' = [mocks EXCEPT ![i] = m]
    BY <2>1, Zenon DEF SetMocks
  <2> QED BY <1>2, <2>1, <2>2, Zenon
<1> QED BY <1>3, <1>4, <1>5, Zenon DEF Set

\* It writes to no cell of another mock.
LEMMA WritesOwn ==
    ASSUME AdminInv, NEW c \in Callers, Set(c), call[c].list = mocks,
           NEW i \in DOMAIN mocks, mocks[i].id # call[c].id, mocks[i].cell # Nil,
           ~ConfigShares(proto, mocks[i], call[c].id)
    PROVE  cells'[mocks[i].cell] = cells[mocks[i].cell]
<1> DEFINE n == mocks[i].cell
<1>1. /\ cells \in Seq(Bodies) /\ Len(cells) \in Nat
      /\ n \in 1 .. Len(cells)
      /\ \A j \in DOMAIN mocks : mocks[j].cell = n => mocks[j].id # call[c].id
  BY DEF AdminInv, Good, Nil
<1>2. ASSUME NEW b \in Bodies PROVE Append(cells, b)[n] = cells[n]
  BY <1>1
<1>3. ASSUME NEW fresh \in BOOLEAN, addMock(c, fresh) \/ updateMock(c, fresh)
      PROVE  cells'[n] = cells[n]
  <2>1. call[c].body \in Bodies
    BY <1>3, CallOf, Zenon DEF addMock, updateMock, InProgress
  <2> QED BY <1>2, <1>3, <2>1, Zenon DEF addMock, updateMock, CellsWith
<1>4. CASE deleteMock(c)
  BY <1>4, Zenon DEF deleteMock
<1>5. ASSUME NEW fields, patchMock(c, fields) PROVE cells'[n] = cells[n]
  <2>1. PICK j \in DOMAIN mocks :
             /\ mocks[j].id = call[c].id
             /\ \A k \in 1 .. Len(cells) : k # mocks[j].cell => cells'[k] = cells[k]
    BY <1>5, PatchCells, Zenon
  <2>2. mocks[j].cell # n
    BY <1>1, <2>1, Zenon
  <2> QED BY <1>1, <2>1, <2>2, Zenon
<1> QED BY <1>3, <1>4, <1>5, Zenon DEF Set

\* A call whose copy is still the list when it installs its change leaves the
\* other mocks, their order and what they point to alone, for every handler
\* and every list; only what the configuration made two mocks share changes in
\* both.
THEOREM LoneCalls == Spec => LoneCallTouchesOnlyItsMock
<1>1. ASSUME AdminInv
      PROVE  [\A c \in Callers :
                (Set(c) /\ call[c].list = mocks) =>
                   /\ Without(mocks', call[c].id) = Without(mocks, call[c].id)
                   /\ \A i \in DOMAIN mocks :
                        (/\ mocks[i].id # call[c].id /\ mocks[i].cell # Nil
                         /\ ~ConfigShares(proto, mocks[i], call[c].id)) =>
                           cells'[mocks[i].cell] = cells[mocks[i].cell]]_vars
  BY <1>1, InstallsOwn, WritesOwn, Zenon
<1> QED BY <1>1, InitAdmin, NextAdmin, PTL DEF Spec, LoneCallTouchesOnlyItsMock

-----------------------------------------------------------------------------
(* The program: its servers start, fail and end *)

ServerRecords ==
    [at : Nat \ {0}, bound : Nat, closer : BOOLEAN,
     serving : {"no", "yes", "binding", "failed"}, busy : BOOLEAN, ready : BOOLEAN,
     temp : BOOLEAN, result : {"none", "nil", "error"}]

\* The steps with which Start returns after the context is done.
LastSteps == {"shutdown", "graceful", "close"}
\* The steps after which Start goes on.
InnerSteps == {"listen", "tls", "ready", "closer", "serve", "bindserve", "tempdir", "select", "wait"}

\* Among the steps before step n of program p is one that binds the port.
Listened(p, n) == \E k \in 1..(n - 1) : p[k] = "listen"

\* The order that every Start keeps: it returns last, it stops only when it has
\* waited for the context, and it says it is ready once it listens.
WellOrdered(p) ==
    /\ 1 \in DOMAIN p /\ p[1] \notin LastSteps
    /\ \A i \in DOMAIN p : /\ i \in Nat
                           /\ p[i] \in InnerSteps => i + 1 \in DOMAIN p
                           /\ p[i] \in {"select", "wait"} \/ i + 1 \notin DOMAIN p
                                \/ p[i + 1] \notin LastSteps
                           /\ p[i] = "ready" => Listened(p, i)

LEMMA ShortPrograms ==
    /\ WellOrdered(<<"listen", "tls", "closer", "accept">>)
    /\ WellOrdered(<<"listen", "ready", "closer", "accept">>)
    /\ WellOrdered(<<"listen", "closer", "accept">>)
    /\ WellOrdered(<<"listen", "serve", "select", "graceful">>)
    /\ WellOrdered(<<"listen", "tls", "serve", "select", "shutdown">>)
    /\ WellOrdered(<<"bindserve", "select", "close">>)
    /\ WellOrdered(<<"listen", "serve", "ready", "wait", "close">>)
    /\ WellOrdered(<<"tempdir", "listen", "ready", "wait", "close">>)
<1>1. WellOrdered(<<"listen", "tls", "closer", "accept">>)
  BY DEF WellOrdered, Listened, LastSteps, InnerSteps
<1>2. WellOrdered(<<"listen", "ready", "closer", "accept">>)
  BY DEF WellOrdered, Listened, LastSteps, InnerSteps
<1>3. WellOrdered(<<"listen", "closer", "accept">>)
  BY DEF WellOrdered, Listened, LastSteps, InnerSteps
<1>4. WellOrdered(<<"listen", "serve", "select", "graceful">>)
  BY DEF WellOrdered, Listened, LastSteps, InnerSteps
<1>5. WellOrdered(<<"listen", "tls", "serve", "select", "shutdown">>)
  BY DEF WellOrdered, Listened, LastSteps, InnerSteps
<1>6. WellOrdered(<<"bindserve", "select", "close">>)
  BY DEF WellOrdered, Listened, LastSteps, InnerSteps
<1>7. WellOrdered(<<"listen", "serve", "ready", "wait", "close">>)
  BY DEF WellOrdered, Listened, LastSteps, InnerSteps
<1>8. WellOrdered(<<"tempdir", "listen", "ready", "wait", "close">>)
  BY DEF WellOrdered, Listened, LastSteps, InnerSteps
<1> QED BY <1>1, <1>2, <1>3, <1>4, <1>5, <1>6, <1>7, <1>8, Zenon

LEMMA HTTPProgram ==
    /\ WellOrdered(httpStart)
    /\ \A i \in DOMAIN httpStart : httpStart[i] \in {"listen", "tls", "serve", "select", "shutdown"}
<1> DEFINE p == httpStart
           n == 2 * Listeners
<1>1. Listeners \in Nat \ {0} /\ n \in Nat /\ n >= 2
  BY LifecycleAssumption
<1>2. DOMAIN p = 1..(n + 3)
  BY Zenon DEF httpStart
<1>3. \A i \in 1..n : p[i] \in {"listen", "tls"}
  BY <1>1 DEF httpStart
<1>4. p[n + 1] = "serve" /\ p[n + 2] = "select" /\ p[n + 3] = "shutdown"
  BY <1>1 DEF httpStart
<1> HIDE DEF p, n
<1>5. \A i \in DOMAIN p : i \in 1..n \/ i = n + 1 \/ i = n + 2 \/ i = n + 3
  BY <1>1, <1>2
<1>6. \A i \in DOMAIN p : p[i] \in {"listen", "tls", "serve", "select", "shutdown"}
  BY <1>3, <1>4, <1>5, Zenon
<1>7. \A i \in DOMAIN p : /\ i \in Nat
                          /\ i # n + 3 => i + 1 \in DOMAIN p
                          /\ p[i] = "select" \/ i + 1 \notin DOMAIN p \/ p[i + 1] # "shutdown"
  <2>1. ASSUME NEW i \in DOMAIN p, i + 1 \in DOMAIN p, p[i + 1] = "shutdown" PROVE i = n + 2
    <3>1. i + 1 = n + 3
      BY <1>3, <1>4, <1>5, <2>1, Zenon
    <3> QED BY <1>1, <1>2, <3>1
  <2> QED BY <1>1, <1>2, <1>4, <2>1
<1>8. 1 \in DOMAIN p /\ 1 \in 1..n
  BY <1>1, <1>2
<1>9. WellOrdered(p)
  BY <1>3, <1>4, <1>6, <1>7, <1>8, Zenon DEF WellOrdered, LastSteps, InnerSteps
<1> QED BY <1>6, <1>9, Zenon DEF p

LEMMA Programs ==
    ASSUME NEW s \in DOMAIN StartOf
    PROVE  /\ WellOrdered(StartOf[s])
           /\ s = "http" => \A i \in DOMAIN StartOf[s] :
                StartOf[s][i] \in {"listen", "tls", "serve", "select", "shutdown"}
<1>1. \/ s = "http" /\ StartOf[s] = httpStart
      \/ s # "http" /\ StartOf[s] \in
           {<<"listen", "tls", "closer", "accept">>, <<"listen", "ready", "closer", "accept">>,
            <<"listen", "closer", "accept">>, <<"listen", "serve", "select", "graceful">>,
            <<"listen", "tls", "serve", "select", "shutdown">>, <<"bindserve", "select", "close">>,
            <<"listen", "serve", "ready", "wait", "close">>,
            <<"tempdir", "listen", "ready", "wait", "close">>}
  <2>1. DOMAIN StartOf = {"tcp", "amqp", "ftp", "sip", "coap", "imap", "kafka", "ldap", "memcached",
          "stomp", "grpc", "ws", "graphql", "api", "redis", "smtp", "dns", "mqtt", "nats", "http"}
    BY Zenon DEF StartOf
  <2>2. CASE s = "http"
    BY <2>2, Zenon DEF StartOf
  <2>3. CASE s \in {"tcp", "amqp", "ftp", "sip"}
    BY <2>3 DEF StartOf, tcpStart, amqpStart, ftpStart, sipStart
  <2>4. CASE s \in {"coap", "imap", "kafka", "ldap", "memcached", "stomp"}
    BY <2>4 DEF StartOf, coapStart, imapStart, kafkaStart, ldapStart, memcachedStart, stompStart
  <2>5. CASE s \in {"grpc", "ws", "graphql", "api"}
    BY <2>5 DEF StartOf, grpcStart, wsStart, graphqlStart, apiStart
  <2>6. CASE s \in {"redis", "smtp", "dns", "mqtt", "nats"}
    BY <2>6 DEF StartOf, redisStart, smtpStart, dnsStart, mqttStart, natsStart
  <2> QED BY <2>1, <2>2, <2>3, <2>4, <2>5, <2>6, Zenon
<1> QED BY <1>1, ShortPrograms, HTTPProgram, Zenon

\* What holds of a server: it is at a step of its program, and past the wait
\* only when the context is done; past its listen it holds a port until it stops;
\* what it says is true.
Fine(s, r, stop) ==
    /\ r \in ServerRecords
    /\ r.at \in DOMAIN StartOf[s]
    /\ StartOf[s][r.at] \in LastSteps => stop
    /\ Listened(StartOf[s], r.at) /\ ~stop /\ r.result = "none" => r.bound > 0
    /\ r.ready => Listened(StartOf[s], r.at)
    /\ s = "http" => r.serving # "binding" /\ (r.result # "none" => r.bound = 0)

\* The inductive invariant: nil is among the results only after a signal, or
\* when the DNS server has returned it.
LifeInv ==
    /\ done \in BOOLEAN /\ errCh \in Seq({"nil", "error"})
    /\ DOMAIN srv \subseteq DOMAIN StartOf /\ srv = [s \in DOMAIN srv |-> srv[s]]
    /\ \A i \in DOMAIN errCh : errCh[i] = "nil" => MayEndQuietly
    /\ QuietEndNeedsSignal
    /\ \A s \in DOMAIN srv : Fine(s, srv[s], done)

LEMMA InitLife == LifeInit => LifeInv
<1> SUFFICES ASSUME LifeInit PROVE LifeInv
  BY Zenon
<1>1. PICK enabled \in Configurations : srv = [s \in enabled |-> NotStarted]
  BY Zenon DEF LifeInit
<1>2. enabled \subseteq DOMAIN StartOf /\ DOMAIN srv = enabled
  BY <1>1, LifecycleAssumption, Zenon
<1>3. ASSUME NEW s \in enabled PROVE Fine(s, NotStarted, FALSE)
  <2>1. /\ NotStarted \in ServerRecords /\ NotStarted.at = 1 /\ NotStarted.ready = FALSE
        /\ NotStarted.serving = "no" /\ NotStarted.result = "none"
    BY DEF NotStarted, ServerRecords
  <2>2. WellOrdered(StartOf[s])
    BY <1>2, Programs, Zenon
  <2>3. ~Listened(StartOf[s], 1)
    BY DEF Listened
  <2> QED BY <2>1, <2>2, <2>3, Zenon DEF Fine, WellOrdered
<1>4. done = FALSE /\ errCh \in Seq({"nil", "error"}) /\ DOMAIN errCh = {} /\ process = "up"
  BY DEF LifeInit
<1> QED BY <1>1, <1>2, <1>3, <1>4, Zenon DEF LifeInv, QuietEndNeedsSignal

\* A server goes on to its next step.
LEMMA AdvancedFine ==
    ASSUME NEW s \in DOMAIN StartOf, NEW r, NEW q \in ServerRecords, NEW stop \in BOOLEAN,
           Fine(s, r, stop), r.result = "none", StartOf[s][r.at] \in InnerSteps,
           StartOf[s][r.at] \in {"select", "wait"} => stop,
           q.at = r.at + 1, q.result = "none", q.bound >= r.bound,
           StartOf[s][r.at] = "listen" => q.bound > 0,
           q.ready => r.ready \/ StartOf[s][r.at] = "ready",
           s = "http" => q.serving # "binding"
    PROVE  Fine(s, q, stop)
<1> DEFINE p == StartOf[s]
           n == r.at
<1>1. WellOrdered(p)
  BY Programs, Zenon
<1>2. r \in ServerRecords /\ n \in DOMAIN p /\ n \in Nat
  BY <1>1, Zenon DEF Fine, WellOrdered
<1>3. r.bound \in Nat /\ q.bound \in Nat
  BY <1>2, Zenon DEF ServerRecords
<1> HIDE DEF p, n
<1>4. Listened(p, n) => Listened(p, n + 1)
  BY <1>2 DEF Listened
<1>5. Listened(p, n + 1) => Listened(p, n) \/ p[n] = "listen"
  BY <1>2 DEF Listened
<1>6. n + 1 \in DOMAIN p
  BY <1>1, <1>2, Zenon DEF WellOrdered, p, n
<1>7. p[n + 1] \in LastSteps => stop
  BY <1>1, <1>2, <1>6, Zenon DEF WellOrdered, p, n
<1>8. p[n] = "ready" => Listened(p, n)
  BY <1>1, <1>2, Zenon DEF WellOrdered
<1>9. /\ Listened(p, n) /\ ~stop => r.bound > 0
      /\ r.ready => Listened(p, n)
  BY Zenon DEF Fine, p, n
<1>10. Listened(p, n + 1) /\ ~stop => q.bound > 0
  BY <1>3, <1>5, <1>9 DEF p, n
<1>11. q.ready => Listened(p, n + 1)
  BY <1>4, <1>8, <1>9, Zenon DEF p, n
<1> QED BY <1>6, <1>7, <1>10, <1>11, Zenon DEF Fine, p, n

\* A server stays where it is, or its Start returns.
LEMMA StayedFine ==
    ASSUME NEW s, NEW r, NEW q \in ServerRecords, NEW stop, Fine(s, r, stop),
           q.at = r.at, q.ready = r.ready,
           \/ q.result = r.result /\ q.bound = r.bound
           \/ q.result = r.result /\ (q.bound = 0 \/ s # "http") /\ (stop \/ q.bound > 0)
           \/ q.result # "none" /\ (s = "http" => q.bound = 0),
           s = "http" => q.serving # "binding"
    PROVE  Fine(s, q, stop)
BY Zenon DEF Fine

\* One server changes, and perhaps hands main a result.
LEMMA SetKeeps ==
    ASSUME LifeInv, NEW s \in DOMAIN srv, NEW r, SetServer(s, r), Fine(s, r, done),
           done' = done, process' = process, srv[s].result # "none" => r.result = srv[s].result,
           \/ errCh' = errCh
           \/ \E x \in {"nil", "error"} :
                 /\ errCh' = Append(errCh, x)
                 /\ x = "nil" => done \/ (s = "dns" /\ r.result = "nil")
    PROVE  LifeInv'
<1>1. /\ DOMAIN srv' = DOMAIN srv /\ srv' = [t \in DOMAIN srv' |-> srv'[t]]
      /\ srv'[s] = r /\ \A t \in DOMAIN srv \ {s} : srv'[t] = srv[t]
  BY Zenon DEF SetServer
<1>2. \A t \in DOMAIN srv' : Fine(t, srv'[t], done')
  BY <1>1, Zenon DEF LifeInv
<1>4. MayEndQuietly \/ (s = "dns" /\ r.result = "nil") => MayEndQuietly'
  BY <1>1, Zenon DEF MayEndQuietly, Launched
<1>3. /\ errCh' \in Seq({"nil", "error"})
      /\ \A i \in DOMAIN errCh' : errCh'[i] = "nil" => MayEndQuietly'
  <2>1. CASE errCh' = errCh
    BY <1>4, <2>1, Zenon DEF LifeInv
  <2>2. CASE errCh' # errCh
    <3>1. PICK x \in {"nil", "error"} : errCh' = Append(errCh, x) /\ (x = "nil" => MayEndQuietly')
      BY <1>4, <2>2, Zenon DEF MayEndQuietly
    <3>2. /\ errCh \in Seq({"nil", "error"})
          /\ \A i \in DOMAIN errCh : errCh[i] = "nil" => MayEndQuietly'
      BY <1>4, Zenon DEF LifeInv
    <3> HIDE DEF MayEndQuietly
    <3> QED BY <3>1, <3>2
  <2> QED BY <2>1, <2>2, Zenon
<1> QED BY <1>1, <1>2, <1>3, <1>4, Zenon DEF LifeInv, QuietEndNeedsSignal

\* The record of a server that goes on to its next step.
LEMMA AdvanceRecord ==
    ASSUME NEW s, srv[s] \in ServerRecords
    PROVE  /\ Advance(s) \in ServerRecords /\ Advance(s).at = srv[s].at + 1
           /\ Advance(s).bound = srv[s].bound /\ Advance(s).closer = srv[s].closer
           /\ Advance(s).serving = srv[s].serving /\ Advance(s).busy = srv[s].busy
           /\ Advance(s).ready = srv[s].ready /\ Advance(s).temp = srv[s].temp
           /\ Advance(s).result = srv[s].result
<1> DEFINE n == srv[s].at + 1
<1>1. n \in Nat \ {0}
  BY DEF ServerRecords
<1> HIDE DEF n
<1>2. Advance(s) = [srv[s] EXCEPT !.at = n]
  BY Zenon DEF Advance, n
<1>3. /\ Advance(s) \in ServerRecords /\ Advance(s).at = n
      /\ Advance(s).bound = srv[s].bound /\ Advance(s).closer = srv[s].closer
      /\ Advance(s).serving = srv[s].serving /\ Advance(s).busy = srv[s].busy
      /\ Advance(s).ready = srv[s].ready /\ Advance(s).temp = srv[s].temp
      /\ Advance(s).result = srv[s].result
  BY <1>1, <1>2, Zenon DEF ServerRecords
<1> QED BY <1>3, Zenon DEF n

\* The steps with which a Start goes on.
LEMMA AdvanceKeeps ==
    ASSUME LifeInv, NEW s \in DOMAIN srv, NEW q \in ServerRecords, Continue(s, q),
           srv[s].result = "none", StepOf(s) \in InnerSteps,
           StepOf(s) \in {"select", "wait"} => done,
           q.at = srv[s].at + 1, q.result = "none", q.bound >= srv[s].bound,
           StepOf(s) = "listen" => q.bound > 0,
           q.ready => srv[s].ready \/ StepOf(s) = "ready",
           s = "http" => q.serving # "binding"
    PROVE  LifeInv'
<1>1. s \in DOMAIN StartOf /\ done \in BOOLEAN /\ Fine(s, srv[s], done)
  BY Zenon DEF LifeInv
<1>2. Fine(s, q, done)
  BY <1>1, AdvancedFine DEF StepOf
<1> QED BY <1>2, SetKeeps, Zenon DEF Continue

LEMMA InnerStepsKeep ==
    ASSUME LifeInv, NEW s \in DOMAIN srv,
           \/ /\ At(s, "listen") /\ Continue(s, [Advance(s) EXCEPT !.bound = @ + 1])
           \/ At(s, "tls") /\ Continue(s, Advance(s))
           \/ Ready(s) \/ SpawnCloser(s) \/ SpawnServe(s) \/ SpawnBind(s) \/ MakeTempDir(s)
           \/ At(s, "select") /\ done /\ Continue(s, Advance(s))
           \/ Wait(s)
    PROVE  LifeInv'
<1> DEFINE a == Advance(s)
<1>1. s \in DOMAIN StartOf /\ Fine(s, srv[s], done)
  BY Zenon DEF LifeInv
<1>2. /\ srv[s] \in ServerRecords /\ srv[s].bound \in Nat
      /\ s = "http" => srv[s].serving # "binding" /\ StepOf(s) # "bindserve"
  <2>1. srv[s] \in ServerRecords /\ srv[s].at \in DOMAIN StartOf[s]
        /\ (s = "http" => srv[s].serving # "binding")
    BY <1>1, Zenon DEF Fine
  <2>2. s = "http" => StepOf(s) # "bindserve"
    BY <1>1, <2>1, Programs, Zenon DEF StepOf
  <2> QED BY <2>1, <2>2, Zenon DEF ServerRecords
<1>3. /\ a \in ServerRecords /\ a.at = srv[s].at + 1 /\ a.bound = srv[s].bound
      /\ a.serving = srv[s].serving /\ a.ready = srv[s].ready /\ a.result = srv[s].result
  BY <1>2, AdvanceRecord, Zenon
<1> HIDE DEF a
<1>4. CASE At(s, "listen") /\ Continue(s, [Advance(s) EXCEPT !.bound = @ + 1])
  <2> DEFINE k == a.bound + 1
             q == [a EXCEPT !.bound = k]
  <2>1. k \in Nat /\ k > 0 /\ k >= srv[s].bound
    BY <1>2, <1>3
  <2>2. Continue(s, q)
    BY <1>4, Zenon DEF a
  <2> HIDE DEF k
  <2>3. /\ q \in ServerRecords /\ q.at = a.at /\ q.bound = k /\ q.serving = a.serving
        /\ q.ready = a.ready /\ q.result = a.result
    BY <1>3, <2>1, Zenon DEF ServerRecords
  <2> HIDE DEF q
  <2>4. srv[s].result = "none" /\ StepOf(s) = "listen" /\ "listen" \in InnerSteps
    BY <1>4, Zenon DEF At, InnerSteps
  <2> QED BY <1>2, <1>3, <2>1, <2>2, <2>3, <2>4, AdvanceKeeps, Zenon
<1>5. CASE At(s, "tls") /\ Continue(s, Advance(s))
  <2>1. srv[s].result = "none" /\ StepOf(s) = "tls" /\ "tls" \in InnerSteps /\ Continue(s, a)
    BY <1>5, Zenon DEF At, InnerSteps, a
  <2> QED BY <1>2, <1>3, <2>1, AdvanceKeeps
<1>6. CASE Ready(s)
  <2> DEFINE q == [a EXCEPT !.ready = TRUE]
  <2>1. srv[s].result = "none" /\ StepOf(s) = "ready" /\ "ready" \in InnerSteps /\ Continue(s, q)
    BY <1>6, Zenon DEF Ready, At, InnerSteps, a
  <2>2. /\ q \in ServerRecords /\ q.at = a.at /\ q.bound = a.bound /\ q.serving = a.serving
        /\ q.result = a.result
    BY <1>3, Zenon DEF ServerRecords
  <2> HIDE DEF q
  <2> QED BY <1>2, <1>3, <2>1, <2>2, AdvanceKeeps
<1>7. CASE SpawnCloser(s)
  <2> DEFINE q == [a EXCEPT !.closer = TRUE]
  <2>1. srv[s].result = "none" /\ StepOf(s) = "closer" /\ "closer" \in InnerSteps /\ Continue(s, q)
    BY <1>7, Zenon DEF SpawnCloser, At, InnerSteps, a
  <2>2. /\ q \in ServerRecords /\ q.at = a.at /\ q.bound = a.bound /\ q.serving = a.serving
        /\ q.result = a.result /\ q.ready = a.ready
    BY <1>3, Zenon DEF ServerRecords
  <2> HIDE DEF q
  <2> QED BY <1>2, <1>3, <2>1, <2>2, AdvanceKeeps
<1>8. CASE SpawnServe(s)
  <2> DEFINE q == [a EXCEPT !.serving = "yes"]
  <2>1. srv[s].result = "none" /\ StepOf(s) = "serve" /\ "serve" \in InnerSteps /\ Continue(s, q)
    BY <1>8, Zenon DEF SpawnServe, At, InnerSteps, a
  <2>2. /\ q \in ServerRecords /\ q.at = a.at /\ q.bound = a.bound /\ q.serving = "yes"
        /\ q.result = a.result /\ q.ready = a.ready
    BY <1>3, Zenon DEF ServerRecords
  <2> HIDE DEF q
  <2> QED BY <1>2, <1>3, <2>1, <2>2, AdvanceKeeps
<1>9. CASE SpawnBind(s)
  <2> DEFINE q == [a EXCEPT !.serving = "binding"]
  <2>1. srv[s].result = "none" /\ StepOf(s) = "bindserve" /\ "bindserve" \in InnerSteps /\ Continue(s, q)
    BY <1>9, Zenon DEF SpawnBind, At, InnerSteps, a
  <2>2. /\ q \in ServerRecords /\ q.at = a.at /\ q.bound = a.bound
        /\ q.result = a.result /\ q.ready = a.ready
    BY <1>3, Zenon DEF ServerRecords
  <2> HIDE DEF q
  <2> QED BY <1>2, <1>3, <2>1, <2>2, AdvanceKeeps
<1>10. CASE MakeTempDir(s)
  <2> DEFINE q == [a EXCEPT !.temp = TRUE]
  <2>1. srv[s].result = "none" /\ StepOf(s) = "tempdir" /\ "tempdir" \in InnerSteps /\ Continue(s, q)
    BY <1>10, Zenon DEF MakeTempDir, At, InnerSteps, a
  <2>2. /\ q \in ServerRecords /\ q.at = a.at /\ q.bound = a.bound /\ q.serving = a.serving
        /\ q.result = a.result /\ q.ready = a.ready
    BY <1>3, Zenon DEF ServerRecords
  <2> HIDE DEF q
  <2> QED BY <1>2, <1>3, <2>1, <2>2, AdvanceKeeps
<1>11. CASE (At(s, "select") /\ done /\ Continue(s, Advance(s))) \/ Wait(s)
  <2>1. /\ srv[s].result = "none" /\ StepOf(s) \in {"select", "wait"} /\ done
        /\ StepOf(s) \in InnerSteps /\ StepOf(s) # "listen" /\ Continue(s, a)
    BY <1>11, Zenon DEF Wait, At, InnerSteps, a
  <2> QED BY <1>2, <1>3, <2>1, AdvanceKeeps
<1> QED BY <1>4, <1>5, <1>6, <1>7, <1>8, <1>9, <1>10, <1>11, Zenon

\* Start returns.
LEMMA ReturnKeeps ==
    ASSUME LifeInv, NEW s \in DOMAIN srv, NEW r \in ServerRecords, NEW result \in {"nil", "error"},
           Return(s, r, result), r.at = srv[s].at, r.ready = srv[s].ready, srv[s].result = "none",
           s = "http" => r.bound = 0 /\ r.serving # "binding", result = "nil" => done \/ s = "dns"
    PROVE  LifeInv'
<1> DEFINE q == [r EXCEPT !.result = result, !.temp = FALSE]
<1>1. /\ q \in ServerRecords /\ q.at = r.at /\ q.ready = r.ready /\ q.bound = r.bound
      /\ q.serving = r.serving /\ q.result = result
  BY Zenon DEF ServerRecords
<1>2. SetServer(s, q) /\ errCh' = Append(errCh, result) /\ done' = done /\ process' = process
  BY Zenon DEF Return
<1> HIDE DEF q
<1>3. Fine(s, q, done)
  BY <1>1, StayedFine, Zenon DEF LifeInv
<1> QED BY <1>1, <1>2, <1>3, SetKeeps, Zenon

\* A goroutine of the server does something while Start stays where it is.
LEMMA GoroutinesKeep ==
    ASSUME LifeInv, NEW s \in DOMAIN srv,
           CloserCloses(s) \/ Binds(s) \/ ServeFails(s) \/ Request(s)
    PROVE  LifeInv'
<1> DEFINE r == srv[s]
<1>1. r \in ServerRecords /\ Fine(s, r, done) /\ (s = "http" => r.serving # "binding")
  BY Zenon DEF LifeInv, Fine
<1>2. PICK q \in ServerRecords :
        /\ Continue(s, q) /\ q.at = r.at /\ q.ready = r.ready /\ q.result = r.result
        /\ \/ q.bound = r.bound
           \/ (q.bound = 0 \/ s # "http") /\ (done \/ q.bound > 0)
        /\ s = "http" => q.serving # "binding"
  <2>1. CASE CloserCloses(s)
    <3> DEFINE q == [r EXCEPT !.closer = FALSE, !.bound = 0]
    <3>1. Continue(s, q) /\ done
      BY <2>1, Zenon DEF CloserCloses
    <3>2. /\ q \in ServerRecords /\ q.at = r.at /\ q.ready = r.ready /\ q.result = r.result
          /\ q.bound = 0 /\ q.serving = r.serving
      BY <1>1, Zenon DEF ServerRecords
    <3> HIDE DEF q
    <3> QED BY <1>1, <3>1, <3>2, Zenon
  <2>2. CASE Binds(s) /\ Continue(s, [srv[s] EXCEPT !.serving = "yes", !.bound = 1])
    <3> DEFINE q == [r EXCEPT !.serving = "yes", !.bound = 1]
    <3>1. Continue(s, q) /\ s # "http"
      BY <1>1, <2>2, Zenon DEF Binds
    <3>2. /\ q \in ServerRecords /\ q.at = r.at /\ q.ready = r.ready /\ q.result = r.result
          /\ q.bound = 1
      BY <1>1, Zenon DEF ServerRecords
    <3> HIDE DEF q
    <3> QED BY <1>1, <3>1, <3>2
  <2>3. CASE Continue(s, [srv[s] EXCEPT !.serving = "failed"])
    <3> DEFINE q == [r EXCEPT !.serving = "failed"]
    <3>1. Continue(s, q)
      BY <2>3, Zenon
    <3>2. /\ q \in ServerRecords /\ q.at = r.at /\ q.ready = r.ready /\ q.result = r.result
          /\ q.bound = r.bound /\ q.serving = "failed"
      BY <1>1, Zenon DEF ServerRecords
    <3> HIDE DEF q
    <3> QED BY <3>1, <3>2, Zenon
  <2>4. CASE Request(s)
    <3> DEFINE q == [r EXCEPT !.busy = ~r.busy]
    <3>1. Continue(s, q)
      BY <2>4, Zenon DEF Request
    <3>2. /\ q \in ServerRecords /\ q.at = r.at /\ q.ready = r.ready /\ q.result = r.result
          /\ q.bound = r.bound /\ q.serving = r.serving
      BY <1>1, Zenon DEF ServerRecords
    <3> HIDE DEF q
    <3> QED BY <1>1, <3>1, <3>2, Zenon
  <2> QED BY <2>1, <2>2, <2>3, <2>4, Zenon DEF Binds, ServeFails
<1>3. Fine(s, q, done)
  BY <1>1, <1>2, StayedFine, Zenon
<1> QED BY <1>2, <1>3, SetKeeps, Zenon DEF Continue

\* The ways in which Start returns.
LEMMA ReturnsKeep ==
    ASSUME LifeInv, NEW s \in DOMAIN srv, srv[s].result = "none",
           \/ At(s, "listen") /\ Return(s, [srv[s] EXCEPT !.bound = 0], "error")
           \/ s # "http" /\ Return(s, srv[s], "error")
           \/ AcceptFails(s)
           \/ \E result \in IF s = "dns" THEN {"nil", "error"} ELSE {"error"} :
                 Return(s, [srv[s] EXCEPT !.bound = IF s = "dns" THEN @ ELSE 0], result)
           \/ Shutdown(s) \/ GracefulStop(s) \/ Close(s)
    PROVE  LifeInv'
<1> DEFINE r == srv[s]
<1>1. r \in ServerRecords /\ Fine(s, r, done) /\ (s = "http" => r.serving # "binding")
      /\ s \in DOMAIN StartOf /\ r.at \in DOMAIN StartOf[s] /\ r.bound \in Nat
  <2>1. r \in ServerRecords /\ Fine(s, r, done) /\ (s = "http" => r.serving # "binding")
        /\ s \in DOMAIN StartOf /\ r.at \in DOMAIN StartOf[s]
    BY Zenon DEF LifeInv, Fine
  <2> QED BY <2>1, Zenon DEF ServerRecords
<1>2. StepOf(s) \in LastSteps => done
  BY <1>1, Zenon DEF Fine, StepOf
<1>3. ASSUME NEW b \in Nat
      PROVE  /\ [r EXCEPT !.bound = b] \in ServerRecords /\ [r EXCEPT !.bound = b].at = r.at
             /\ [r EXCEPT !.bound = b].ready = r.ready /\ [r EXCEPT !.bound = b].bound = b
             /\ [r EXCEPT !.bound = b].serving = r.serving
  BY <1>1, Zenon DEF ServerRecords
<1>4. CASE At(s, "listen") /\ Return(s, [srv[s] EXCEPT !.bound = 0], "error")
  BY <1>1, <1>3, <1>4, ReturnKeeps, Zenon
<1>5. CASE s # "http" /\ Return(s, srv[s], "error")
  BY <1>1, <1>5, ReturnKeeps, Zenon
<1>6. CASE AcceptFails(s)
  <2>1. s # "http"
    BY <1>1, <1>6, Programs, Zenon DEF AcceptFails, At, StepOf
  <2>2. PICK result \in {"nil", "error"} : Return(s, r, result) /\ (result = "nil" => done)
    BY <1>6, Zenon DEF AcceptFails
  <2> QED BY <1>1, <2>1, <2>2, ReturnKeeps, Zenon
<1>7. ASSUME NEW result \in IF s = "dns" THEN {"nil", "error"} ELSE {"error"},
             Return(s, [srv[s] EXCEPT !.bound = IF s = "dns" THEN @ ELSE 0], result)
      PROVE  LifeInv'
  <2>1. PICK b \in Nat : Return(s, [r EXCEPT !.bound = b], result) /\ (s = "http" => b = 0)
    <3>1. CASE s = "dns"
      <4>1. Return(s, [r EXCEPT !.bound = r.bound], result)
        BY <1>7, <3>1, Zenon
      <4> QED BY <1>1, <3>1, <4>1, Zenon
    <3>2. CASE s # "dns"
      <4>1. Return(s, [r EXCEPT !.bound = 0], result)
        BY <1>7, <3>2, Zenon
      <4> QED BY <4>1, Zenon
    <3> QED BY <3>1, <3>2, Zenon
  <2>2. result \in {"nil", "error"} /\ (result = "nil" => s = "dns")
    BY <1>7, Zenon
  <2> DEFINE q == [r EXCEPT !.bound = b]
  <2>3. /\ q \in ServerRecords /\ q.at = r.at /\ q.ready = r.ready
        /\ q.bound = b /\ q.serving = r.serving
    BY <1>3, <2>1, Zenon
  <2>4. Return(s, q, result) /\ (s = "http" => q.bound = 0 /\ q.serving # "binding")
    BY <1>1, <2>1, <2>3, Zenon
  <2> HIDE DEF q
  <2> QED BY <2>2, <2>3, <2>4, ReturnKeeps, Zenon
<1>8. CASE Shutdown(s)
  <2> DEFINE q == [r EXCEPT !.bound = 0, !.serving = "no", !.busy = FALSE]
  <2>1. PICK result \in {"nil", "error"} : Return(s, q, result)
    BY <1>8, Zenon DEF Shutdown
  <2>2. done
    BY <1>2, <1>8, Zenon DEF Shutdown, At, LastSteps
  <2>3. /\ q \in ServerRecords /\ q.at = r.at /\ q.ready = r.ready /\ q.bound = 0
        /\ q.serving = "no"
    BY <1>1, Zenon DEF ServerRecords
  <2> HIDE DEF q
  <2> QED BY <2>1, <2>2, <2>3, ReturnKeeps, Zenon
<1>9. CASE GracefulStop(s)
  <2> DEFINE q == [r EXCEPT !.bound = 0, !.serving = "no"]
  <2>1. Return(s, q, "nil")
    BY <1>9, Zenon DEF GracefulStop
  <2>2. done
    BY <1>2, <1>9, Zenon DEF GracefulStop, At, LastSteps
  <2>3. /\ q \in ServerRecords /\ q.at = r.at /\ q.ready = r.ready /\ q.bound = 0
        /\ q.serving = "no"
    BY <1>1, Zenon DEF ServerRecords
  <2> HIDE DEF q
  <2> QED BY <2>1, <2>2, <2>3, ReturnKeeps, Zenon
<1>10. CASE Close(s)
  <2> DEFINE q == [r EXCEPT !.bound = 0, !.serving = "no", !.busy = FALSE]
  <2>1. Return(s, q, "nil")
    BY <1>10, Zenon DEF Close
  <2>2. done
    BY <1>2, <1>10, Zenon DEF Close, At, LastSteps
  <2>3. /\ q \in ServerRecords /\ q.at = r.at /\ q.ready = r.ready /\ q.bound = 0
        /\ q.serving = "no"
    BY <1>1, Zenon DEF ServerRecords
  <2> HIDE DEF q
  <2> QED BY <2>1, <2>2, <2>3, ReturnKeeps, Zenon
<1> QED BY <1>4, <1>5, <1>6, <1>7, <1>8, <1>9, <1>10, Zenon

\* A signal, the end of the process, and steps that change nothing here.
LEMMA MainKeeps ==
    ASSUME LifeInv,
           \/ Signal \/ RunServersReturns \/ UNCHANGED lifeVars
           \/ process' = "panic" /\ UNCHANGED <<done, srv, errCh>>
    PROVE  LifeInv'
<1>1. CASE Signal
  <2>1. done' = TRUE /\ srv' = srv /\ errCh' = errCh /\ process' = process
    BY <1>1, Zenon DEF Signal
  <2>2. \A s \in DOMAIN srv : Fine(s, srv[s], TRUE)
    <3>1. \A s \in DOMAIN srv : Fine(s, srv[s], done) => Fine(s, srv[s], TRUE)
      BY Zenon DEF Fine
    <3> QED BY <3>1, Zenon DEF LifeInv
  <2> QED BY <2>1, <2>2, Zenon DEF LifeInv, QuietEndNeedsSignal, MayEndQuietly
<1>2. CASE RunServersReturns
  <2>1. done' = done /\ srv' = srv
    BY <1>2, Zenon DEF RunServersReturns
  <2>2. CASE done /\ process' = "ok" /\ UNCHANGED errCh
    BY <2>1, <2>2, Zenon DEF LifeInv, QuietEndNeedsSignal, MayEndQuietly, Launched
  <2>3. CASE /\ errCh # <<>>
             /\ process' = IF Head(errCh) = "error" THEN "error" ELSE "ok"
             /\ errCh' = Tail(errCh)
    <3>0. MayEndQuietly' <=> MayEndQuietly
      BY <2>1, Zenon DEF MayEndQuietly, Launched
    <3>1. /\ errCh \in Seq({"nil", "error"})
          /\ \A i \in DOMAIN errCh : errCh[i] = "nil" => MayEndQuietly
      BY Zenon DEF LifeInv
    <3>2. Head(errCh) \in {"nil", "error"} /\ (Head(errCh) = "nil" => MayEndQuietly)
      BY <2>3, <3>1
    <3>3. /\ errCh' \in Seq({"nil", "error"})
          /\ \A i \in DOMAIN errCh' : errCh'[i] = "nil" => MayEndQuietly
      BY <2>3, <3>1
    <3>4. process' = "ok" => MayEndQuietly
      BY <2>3, <3>2, Zenon
    <3> QED BY <2>1, <3>0, <3>3, <3>4, Zenon DEF LifeInv, QuietEndNeedsSignal
  <2> QED BY <1>2, <2>2, <2>3, Zenon DEF RunServersReturns
<1>3. CASE UNCHANGED lifeVars
  BY <1>3, Zenon DEF lifeVars, LifeInv, QuietEndNeedsSignal, MayEndQuietly, Launched
<1>4. CASE process' = "panic" /\ UNCHANGED <<done, srv, errCh>>
  BY <1>4, Zenon DEF LifeInv, QuietEndNeedsSignal, MayEndQuietly, Launched
<1> QED BY <1>1, <1>2, <1>3, <1>4, Zenon

LEMMA NextLife == LifeInv /\ [LifeNext]_lifeVars => LifeInv'
<1> SUFFICES ASSUME LifeInv, [LifeNext]_lifeVars PROVE LifeInv'
  BY Zenon
<1>1. ASSUME NEW s \in DOMAIN srv, ServerStep(s) PROVE LifeInv'
  <2>1. CASE Listen(s)
    BY <2>1, InnerStepsKeep, ReturnsKeep, Zenon DEF Listen, At
  <2>2. CASE WrapTLS(s)
    BY <2>2, InnerStepsKeep, ReturnsKeep, MainKeeps, Zenon DEF WrapTLS, At
  <2>3. CASE Select(s)
    BY <2>3, InnerStepsKeep, ReturnsKeep, Zenon DEF Select, At
  <2>4. CASE AcceptFails(s) \/ Shutdown(s) \/ GracefulStop(s) \/ Close(s)
    <3>1. srv[s].result = "none"
      BY <2>4, Zenon DEF AcceptFails, Shutdown, GracefulStop, Close, At
    <3> QED BY <2>4, <3>1, ReturnsKeep, Zenon
  <2> QED BY <1>1, <2>1, <2>2, <2>3, <2>4, InnerStepsKeep, GoroutinesKeep, Zenon DEF ServerStep
<1> QED BY <1>1, MainKeeps, Zenon DEF LifeNext, Launched

LEMMA StatusOf == LifeInv => StatusIsTrue
<1> SUFFICES ASSUME LifeInv PROVE StatusIsTrue
  BY Zenon
<1>1. ReadyMeansBound
  BY Zenon DEF LifeInv, Fine, ReadyMeansBound, Launched
<1>2. HTTPGivesItsListenersBack
  BY Zenon DEF LifeInv, Fine, HTTPGivesItsListenersBack, Launched
<1> QED BY <1>1, <1>2, Zenon DEF LifeInv, StatusIsTrue

\* Lifecycle: with any servers enabled and any number of HTTP listeners, a
\* server that is ready has its port, the HTTP server that has returned holds
\* none, and the program reports success only after a signal, or when the DNS
\* server has returned without an error (each Start, launch, runServers).
THEOREM ProgramTellsTheTruth == LifeSpec => []StatusIsTrue
<1>1. LifeSpec => []LifeInv
  BY InitLife, NextLife, PTL DEF LifeSpec
<1> QED BY <1>1, StatusOf, PTL

=============================================================================
