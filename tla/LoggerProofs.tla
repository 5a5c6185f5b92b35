---------------------------- MODULE LoggerProofs ----------------------------
(***************************************************************************)
(* For every number of writers, waiters and streams and every size of log  *)
(* and channel: the log stays within maxEntries, WaitFor never sleeps on a *)
(* count that was reached, and no stream carries an entry twice.  For any  *)
(* number of dispatches, retries and outcomes: the records the webhook     *)
(* sender keeps of a dispatch are coherent, and its receiver sees it no more *)
(* often than its retries allow.  For any keys, ttls and concurrent calls: *)
(* the state store's lazy expiry removes only keys that were once given a  *)
(* ttl, and All only entries that have expired.                            *)
(***************************************************************************)
EXTENDS Logger, Webhook, StateStore, ListLemmas, FiniteSetTheorems, SequenceTheorems, TLAPS

\* A leaf that names no prover is tried with these, in this order.
USE SMT, Zenon, SMTT(30)

-----------------------------------------------------------------------------
(* Logger *)

\* Trimming keeps at most MaxEntries entries: all that it keeps are at least
\* as recent as the oldest one kept.
LEMMA TrimBound ==
    ASSUME NEW es \in SUBSET Entry, IsFiniteSet(es)
    PROVE  /\ MostRecent(es) \subseteq es
           /\ IsFiniteSet(MostRecent(es))
           /\ Cardinality(MostRecent(es)) <= MaxEntries
<1>1. MostRecent(es) \subseteq es
  BY Zenon DEF MostRecent
<1>2. IsFiniteSet(MostRecent(es))
  BY <1>1, FS_Subset, Zenon
<1>3. CASE MostRecent(es) = {}
  BY <1>1, <1>2, <1>3, FS_EmptySet, LoggerAssumption
<1>4. CASE MostRecent(es) # {}
  <2> DEFINE ids == {e.id : e \in MostRecent(es)}
  <2>1. ids \in SUBSET Nat /\ ids # {}
    BY <1>1, <1>4 DEF Entry
  <2>2. PICK k \in ids : \A j \in ids : k <= j
    BY <2>1, LeastElement, Zenon
  <2>3. PICK e \in MostRecent(es) : e.id = k
    BY <2>2, Zenon
  <2> DEFINE newer == {f \in es : f.id >= e.id}
  <2>4. MostRecent(es) \subseteq newer
    BY <1>1, <2>2, <2>3, Zenon DEF Entry
  <2>5. Cardinality(newer) <= MaxEntries
    BY <2>3, Zenon DEF MostRecent
  <2>6. IsFiniteSet(newer)
    BY FS_Subset, Zenon
  <2>7. /\ Cardinality(MostRecent(es)) <= Cardinality(newer)
        /\ Cardinality(MostRecent(es)) \in Nat
        /\ Cardinality(newer) \in Nat
    BY <1>2, <2>4, <2>6, FS_Subset, FS_CardinalityType, Zenon
  <2> QED BY <1>1, <1>2, <2>5, <2>7, LoggerAssumption
<1> QED BY <1>3, <1>4, Zenon

\* Removing entries from the log never makes a count reached.
LEMMA CountShrinks ==
    ASSUME NEW r \in Waiters, TypeOK, entries' \subseteq entries
    PROVE  CountReached(r)' => CountReached(r)
<1> DEFINE A == EntriesByMockID(Watched[r])
           B == {e \in entries' : e.mock = Watched[r]}
<1>1. B \subseteq A /\ A \subseteq entries
  BY Zenon DEF EntriesByMockID
<1>2. IsFiniteSet(A)
  BY <1>1, FS_Subset, Zenon DEF TypeOK
<1>3. /\ Cardinality(B) <= Cardinality(A)
      /\ Cardinality(A) \in Nat
      /\ Cardinality(B) \in Nat
  BY <1>1, <1>2, FS_Subset, FS_CardinalityType, Zenon
<1>4. Want[r] \in Nat
  BY LoggerAssumption, Zenon
<1> QED BY <1>3, <1>4 DEF CountReached, EntriesByMockID

-----------------------------------------------------------------------------

\* Every reader between Subscribe and Unsubscribe is in the subscriber map,
\* so each Log call snapshots it.
Registered ==
    \A r \in Readers :
        pc[r] \in {"checking", "waiting", "returning"}
            => r \in subscribers

\* The inductive invariant.
IInv == TypeOK /\ Registered /\ NoLostWakeup

\* Every step of a writer, a reader or a clear keeps the types.
LEMMA TypeStep == TypeOK /\ [Next]_vars => TypeOK'
<1> SUFFICES ASSUME TypeOK, [Next]_vars PROVE TypeOK'
  BY Zenon
<1>1. ASSUME NEW w \in Writers, NEW m \in Mocks, Log(w, m) PROVE TypeOK'
  <2> DEFINE e == [id |-> logged + 1, mock |-> m]
  <2>1. e \in Entry /\ e.id \in 0 .. MaxLogs
    BY <1>1, LoggerAssumption DEF Log, TypeOK, Entry
  <2>2. entries \cup {e} \in SUBSET Entry /\ IsFiniteSet(entries \cup {e})
    BY <2>1, FS_AddElement, Zenon DEF TypeOK
  <2>3. /\ entries' \subseteq Entry
        /\ IsFiniteSet(entries')
        /\ Cardinality(entries') <= MaxEntries
    BY <1>1, <2>2, TrimBound, Zenon DEF Log
  <2>4. /\ logged' \in 0 .. MaxLogs
        /\ sending' \in [Writers -> 0 .. MaxLogs]
        /\ targets' \in [Writers -> SUBSET Readers]
    BY <1>1, <2>1, LoggerAssumption, Zenon DEF Log, TypeOK
  <2> QED BY <1>1, <2>3, <2>4, Zenon DEF Log, TypeOK
<1>2. ASSUME NEW w \in Writers, NEW r \in Readers, Broadcast(w, r) PROVE TypeOK'
  <2>1. targets' \in [Writers -> SUBSET Readers] /\ panicked' \subseteq Writers
    <3>1. targets[w] \ {r} \in SUBSET Readers
      BY Zenon DEF TypeOK
    <3>2. CASE r \in closed
      BY <1>2, <3>2, Zenon DEF Broadcast, TypeOK
    <3>3. CASE r \notin closed
      BY <1>2, <3>1, <3>3, Zenon DEF Broadcast, TypeOK
    <3> QED BY <3>2, <3>3, Zenon
  <2>2. chan' \in [Readers -> Seq(0 .. MaxLogs)]
    <3>1. sending[w] \in 0 .. MaxLogs /\ chan[r] \in Seq(0 .. MaxLogs)
      BY Zenon DEF TypeOK
    <3>2. Append(chan[r], sending[w]) \in Seq(0 .. MaxLogs)
      BY <3>1
    <3> QED BY <1>2, <3>2, Zenon DEF Broadcast, TypeOK
  <2> QED BY <1>2, <2>1, <2>2, Zenon DEF Broadcast, TypeOK, log
<1>3. ASSUME entries' \subseteq entries,
             UNCHANGED <<logged, subscribers, chan, closed, writers, pc, streamed>>
      PROVE  TypeOK'
  <2>1. IsFiniteSet(entries') /\ Cardinality(entries') <= Cardinality(entries)
    BY <1>3, FS_Subset, Zenon DEF TypeOK
  <2>2. Cardinality(entries') \in Nat /\ Cardinality(entries) \in Nat
    BY <2>1, FS_CardinalityType, Zenon DEF TypeOK
  <2> QED BY <1>3, <2>1, <2>2, LoggerAssumption DEF TypeOK, writers
<1>4. ASSUME NEW r \in Readers, Subscribe(r) PROVE TypeOK'
  BY <1>4, Zenon DEF Subscribe, TypeOK, log, writers
<1>5. ASSUME NEW r \in Readers, Check(r) PROVE TypeOK'
  BY <1>5, Zenon DEF Check, TypeOK, log, writers
<1>6. ASSUME NEW r \in Readers, Receive(r) PROVE TypeOK'
  <2>1. chan[r] \in Seq(0 .. MaxLogs) /\ chan[r] # << >>
    BY <1>6, Zenon DEF Receive, TypeOK
  <2>2. Tail(chan[r]) \in Seq(0 .. MaxLogs) /\ Head(chan[r]) \in 0 .. MaxLogs
    BY <2>1, HeadTailProperties, Zenon
  <2>3. chan' \in [Readers -> Seq(0 .. MaxLogs)]
    BY <1>6, <2>2, Zenon DEF Receive, TypeOK
  <2>4. ASSUME r \in Streams
        PROVE  Append(streamed[r], Head(chan[r])) \in Seq(0 .. MaxLogs)
    BY <2>2, <2>4 DEF TypeOK
  <2>5. streamed' \in [Streams -> Seq(0 .. MaxLogs)]
    BY <1>6, <2>4, Zenon DEF Receive, TypeOK, Readers
  <2> QED BY <1>6, <2>3, <2>5, Zenon DEF Receive, TypeOK, log, writers
<1>7. ASSUME NEW r \in Readers, Expire(r) \/ Unsubscribe(r) \/ CloseChannel(r)
      PROVE  TypeOK'
  BY <1>7, Zenon DEF Expire, Unsubscribe, CloseChannel, TypeOK, log, writers
<1>8. CASE UNCHANGED vars
  BY <1>8, Zenon DEF vars, TypeOK
<1> QED
  BY <1>1, <1>2, <1>3, <1>4, <1>5, <1>6, <1>7, <1>8, Zenon
  DEF Next, Writer, Reader, Clear, ClearByMockID

\* A reader is in the subscriber map from Subscribe to Unsubscribe.
LEMMA RegisteredStep == TypeOK /\ Registered /\ [Next]_vars => Registered'
<1> SUFFICES ASSUME TypeOK, Registered, [Next]_vars,
                    NEW q \in Readers,
                    pc'[q] \in {"checking", "waiting", "returning"}
             PROVE  q \in subscribers'
  BY Zenon DEF Registered
<1> USE DEF Registered, TypeOK
<1>1. ASSUME NEW w \in Writers, NEW m \in Mocks, Log(w, m)
      PROVE  q \in subscribers'
  BY <1>1, Zenon DEF Log
<1>2. ASSUME NEW w \in Writers, NEW r \in Readers, Broadcast(w, r)
      PROVE  q \in subscribers'
  BY <1>2, Zenon DEF Broadcast
<1>3. CASE Clear \/ \E m \in Mocks : ClearByMockID(m)
  BY <1>3, Zenon DEF Clear, ClearByMockID
<1>4. ASSUME NEW r \in Readers, Reader(r) PROVE q \in subscribers'
  <2>1. CASE Subscribe(r)
    BY <2>1, Zenon DEF Subscribe
  <2>2. CASE Check(r)
    BY <2>2, Zenon DEF Check
  <2>3. CASE Receive(r)
    BY <2>3, Zenon DEF Receive
  <2>4. CASE Expire(r)
    BY <2>4, Zenon DEF Expire
  <2>5. CASE Unsubscribe(r) \/ CloseChannel(r)
    BY <2>5, Zenon DEF Unsubscribe, CloseChannel
  <2> QED BY <1>4, <2>1, <2>2, <2>3, <2>4, <2>5, Zenon DEF Reader
<1>5. CASE UNCHANGED vars
  BY <1>5, Zenon DEF vars
<1> QED BY <1>1, <1>2, <1>3, <1>4, <1>5, Zenon DEF Next, Writer

\* No step leaves a waiter blocked, unnotified and satisfied.
LEMMA WakeupStep == IInv /\ [Next]_vars => NoLostWakeup'
<1> SUFFICES ASSUME TypeOK, Registered, NoLostWakeup, [Next]_vars,
                    NEW q \in Waiters,
                    pc'[q] = "waiting",
                    chan'[q] = << >>,
                    \A w \in Writers : q \notin targets'[w],
                    CountReached(q)'
             PROVE  FALSE
  BY Zenon DEF IInv, NoLostWakeup
<1>0. q \in Readers
  BY Zenon DEF Readers
<1>1. ASSUME pc[q] = "waiting", chan[q] = << >>,
             \A w \in Writers : q \notin targets[w],
             entries' \subseteq entries
      PROVE  FALSE
  BY <1>1, CountShrinks, Zenon DEF NoLostWakeup
<1>2. ASSUME NEW w \in Writers, NEW m \in Mocks, Log(w, m) PROVE FALSE
  <2>1. pc[q] = "waiting"
    BY <1>2, Zenon DEF Log
  <2>2. q \in subscribers
    BY <1>0, <2>1, Zenon DEF Registered
  <2>3. q \in targets'[w]
    BY <1>2, <2>2, Zenon DEF Log, TypeOK
  <2> QED BY <2>3, Zenon
<1>3. ASSUME NEW w \in Writers, NEW r \in Readers, Broadcast(w, r) PROVE FALSE
  <2>1. pc[q] = "waiting" /\ entries' = entries
    BY <1>3, Zenon DEF Broadcast, log
  <2>2. CASE r \in closed
    <3>1. chan' = chan /\ targets' = targets
      BY <1>3, <2>2, Zenon DEF Broadcast
    <3> QED BY <1>1, <2>1, <3>1, Zenon
  <2>3. CASE r \notin closed /\ r # q
    <3>1. chan'[q] = chan[q]
      BY <1>0, <1>3, <2>3, Zenon DEF Broadcast, TypeOK
    <3>2. \A v \in Writers : q \in targets[v] => q \in targets'[v]
      BY <1>3, <2>3, Zenon DEF Broadcast, TypeOK
    <3> QED BY <1>1, <2>1, <3>1, <3>2, Zenon
  <2>4. CASE r \notin closed /\ r = q
    <3>1. chan[q] \in Seq(0 .. MaxLogs) /\ sending[w] \in 0 .. MaxLogs
      BY <1>0, Zenon DEF TypeOK
    <3>2. CASE Len(chan[q]) < ChanCap
      <4>1. chan'[q] = Append(chan[q], sending[w])
        BY <1>0, <1>3, <2>4, <3>2, Zenon DEF Broadcast, TypeOK
      <4>2. Append(chan[q], sending[w]) # << >>
        BY <3>1
      <4> QED BY <4>1, <4>2, Zenon
    <3>3. CASE ~(Len(chan[q]) < ChanCap)
      <4>1. chan' = chan
        BY <1>3, <2>4, <3>3, Zenon DEF Broadcast
      <4>2. Len(chan[q]) = 0
        BY <4>1
      <4> QED BY <3>3, <4>2, LoggerAssumption
    <3> QED BY <3>2, <3>3, Zenon
  <2> QED BY <2>2, <2>3, <2>4, Zenon
<1>4. CASE Clear \/ \E m \in Mocks : ClearByMockID(m)
  BY <1>1, <1>4, Zenon DEF Clear, ClearByMockID, writers
<1>5. ASSUME NEW r \in Readers, Reader(r) PROVE FALSE
  <2>1. entries' = entries /\ targets' = targets
    BY <1>5, Zenon DEF Reader, Subscribe, Check, Receive, Expire,
                Unsubscribe, CloseChannel, log, writers
  <2>2. CASE r = q
    <3>1. pc[q] = "checking" => ~Check(q)
      <4>1. CountReached(q)' <=> CountReached(q)
        BY <2>1, Zenon DEF CountReached, EntriesByMockID
      <4> QED BY <1>0, <4>1, Zenon DEF Check, TypeOK
    <3> QED BY <1>0, <1>5, <2>2, <3>1, Zenon
            DEF Reader, Subscribe, Check, Receive, Expire,
                Unsubscribe, CloseChannel, TypeOK
  <2>3. CASE r # q
    <3>1. pc[q] = "waiting" /\ chan[q] = << >>
      BY <1>0, <1>5, <2>3, Zenon
      DEF Reader, Subscribe, Check, Receive, Expire,
          Unsubscribe, CloseChannel, TypeOK
    <3> QED BY <1>1, <2>1, <3>1, Zenon
  <2> QED BY <2>2, <2>3, Zenon
<1>6. CASE UNCHANGED vars
  BY <1>1, <1>6, Zenon DEF vars
<1> QED BY <1>2, <1>3, <1>4, <1>5, <1>6, Zenon DEF Next, Writer

\* The inductive invariant holds when the logger is new.
LEMMA InitIInv == Init => IInv
<1> SUFFICES ASSUME Init PROVE IInv
  BY Zenon
<1>1. IsFiniteSet({}) /\ Cardinality({}) = 0
  BY FS_EmptySet, Zenon
<1>2. TypeOK
  BY <1>1, LoggerAssumption DEF Init, New, TypeOK
<1>3. Registered /\ NoLostWakeup
  BY Zenon DEF Init, Registered, NoLostWakeup, Readers
<1> QED BY <1>2, <1>3, Zenon DEF IInv

\* The request log never grows past maxEntries, under any interleaving of
\* Log, Clear and ClearByMockID.
THEOREM LogTypeCorrect == Spec => []TypeOK
<1>1. Init => TypeOK
  BY InitIInv, Zenon DEF IInv
<1> QED BY <1>1, TypeStep, PTL DEF Spec

\* WaitFor is never blocked, with an empty channel that nobody is about to
\* fill, while the log already holds count matching entries.
THEOREM WaitForNotLost == Spec => []NoLostWakeup
<1>1. IInv /\ [Next]_vars => IInv'
  BY TypeStep, RegisteredStep, WakeupStep, Zenon DEF IInv
<1>2. IInv => NoLostWakeup
  BY Zenon DEF IInv
<1> QED BY InitIInv, <1>1, <1>2, PTL DEF Spec

-----------------------------------------------------------------------------
(* What a log stream carries *)

\* No value twice, and all of them numbers of logged entries.
NoRepeat(s, n) ==
    /\ \A i, j \in DOMAIN s : s[i] = s[j] => i = j
    /\ \A i \in DOMAIN s : s[i] \in 1 .. n

\* x does not occur in s.
Unseen(s, x) == \A i \in DOMAIN s : s[i] # x

\* l is m with x added at the end.
Extends(l, m, x) ==
    \E k \in Nat : /\ DOMAIN m = 1 .. k
                   /\ DOMAIN l = 1 .. k + 1
                   /\ l[k + 1] = x
                   /\ \A i \in 1 .. k : l[i] = m[i]

\* l is m without some of its members.
Thins(l, m) ==
    \E f \in [DOMAIN l -> DOMAIN m] :
        /\ \A i, j \in DOMAIN l : f[i] = f[j] => i = j
        /\ \A i \in DOMAIN l : l[i] = m[f[i]]

\* A send adds the entry at the end of what its stream carries.
LEMMA SendExtends ==
    ASSUME NEW a \in Seq(Nat), NEW b \in Seq(Nat), NEW x \in Nat
    PROVE  Extends(a \o Append(b, x), a \o b, x)
<1> DEFINE m == a \o b
<1>1. m \in Seq(Nat) /\ a \o Append(b, x) = Append(m, x)
  OBVIOUS
<1> HIDE DEF m
<1>2. Extends(Append(m, x), m, x)
  <2>1. /\ DOMAIN Append(m, x) = 1 .. Len(m) + 1
        /\ DOMAIN m = 1 .. Len(m)
        /\ Len(m) \in Nat
        /\ Append(m, x)[Len(m) + 1] = x
        /\ \A i \in 1 .. Len(m) : Append(m, x)[i] = m[i]
    BY <1>1
  <2> QED BY <2>1, Zenon DEF Extends
<1> QED BY <1>1, <1>2, Zenon DEF m

\* A waiter's receive takes an entry away.
LEMMA ReceiveThins ==
    ASSUME NEW a \in Seq(Nat), NEW b \in Seq(Nat), b # << >>
    PROVE  Thins(a \o Tail(b), a \o b)
<1> DEFINE m == a \o b
           l == a \o Tail(b)
           f == [i \in DOMAIN l |-> IF i <= Len(a) THEN i ELSE i + 1]
<1>1. Len(a) \in Nat /\ Len(b) \in Nat \ {0} /\ Tail(b) \in Seq(Nat)
      /\ Len(Tail(b)) = Len(b) - 1
  OBVIOUS
<1>2. /\ DOMAIN l = 1 .. Len(a) + Len(b) - 1
      /\ DOMAIN m = 1 .. Len(a) + Len(b)
  BY <1>1
<1>3. \A i \in 1 .. Len(a) : l[i] = a[i] /\ m[i] = a[i]
  BY <1>1
<1>4. \A i \in 1 .. Len(b) : m[Len(a) + i] = b[i]
  BY <1>1
<1>5. \A i \in 1 .. Len(b) - 1 : l[Len(a) + i] = b[i + 1]
  <2>1. \A i \in 1 .. Len(b) - 1 : l[Len(a) + i] = Tail(b)[i]
    BY <1>1
  <2>2. \A i \in 1 .. Len(b) - 1 : Tail(b)[i] = b[i + 1]
    BY <1>1
  <2> QED BY <2>1, <2>2, Zenon
<1> HIDE DEF m, l
<1>6. \A i \in DOMAIN l : f[i] = IF i <= Len(a) THEN i ELSE i + 1
  BY Zenon
<1>7. DOMAIN f = DOMAIN l /\ f = [i \in DOMAIN l |-> f[i]]
  BY Zenon
<1> HIDE DEF f
<1>8. ASSUME NEW i \in DOMAIN l PROVE l[i] = m[f[i]]
  <2>1. CASE i <= Len(a)
    <3>1. i \in 1 .. Len(a) /\ f[i] = i
      BY <1>1, <1>2, <1>6, <2>1
    <3> QED BY <1>3, <3>1, Zenon
  <2>2. CASE ~(i <= Len(a))
    <3> DEFINE j == i - Len(a)
    <3>1. j \in 1 .. Len(b) - 1 /\ i = Len(a) + j
      BY <1>1, <1>2, <2>2
    <3>2. f[i] = Len(a) + (j + 1) /\ j + 1 \in 1 .. Len(b)
      BY <1>1, <1>6, <2>2, <3>1
    <3> QED BY <1>4, <1>5, <3>1, <3>2, Zenon
  <2> QED BY <2>1, <2>2, Zenon
<1>9. f \in [DOMAIN l -> DOMAIN m]
  <2>1. \A i \in DOMAIN l : f[i] \in DOMAIN m
    BY <1>1, <1>2, <1>6
  <2> QED BY <1>7, <2>1, Zenon
<1>10. \A i, j \in DOMAIN l : f[i] = f[j] => i = j
  BY <1>1, <1>2, <1>6
<1>11. Thins(l, m)
  BY <1>8, <1>9, <1>10, Zenon DEF Thins
<1> QED BY <1>11, Zenon DEF l, m

\* An entry that was not seen may be added; other entries stay unseen.
LEMMA AddEntry ==
    ASSUME NEW l, NEW m, NEW n \in Nat, NEW x \in 1 .. n, Extends(l, m, x)
    PROVE  /\ NoRepeat(m, n) /\ Unseen(m, x) => NoRepeat(l, n)
           /\ \A y : Unseen(m, y) /\ x # y => Unseen(l, y)
<1>1. PICK k \in Nat : /\ DOMAIN m = 1 .. k
                      /\ DOMAIN l = 1 .. k + 1
                      /\ l[k + 1] = x
                      /\ \A i \in 1 .. k : l[i] = m[i]
  BY Zenon DEF Extends
<1>2. \A i \in DOMAIN l : i = k + 1 \/ i \in DOMAIN m
  BY <1>1
<1> QED BY <1>1, <1>2, Zenon DEF NoRepeat, Unseen

\* An entry may be taken away.
LEMMA DropEntry ==
    ASSUME NEW l, NEW m, NEW n \in Nat, Thins(l, m)
    PROVE  /\ NoRepeat(m, n) => NoRepeat(l, n)
           /\ \A y : Unseen(m, y) => Unseen(l, y)
<1>1. PICK f \in [DOMAIN l -> DOMAIN m] :
           /\ \A i, j \in DOMAIN l : f[i] = f[j] => i = j
           /\ \A i \in DOMAIN l : l[i] = m[f[i]]
  BY Zenon DEF Thins
<1> QED BY <1>1 DEF NoRepeat, Unseen

\* What stream r was sent, written to its client or not.
Carried(r) == streamed[r] \o chan[r]

\* An entry that is still being broadcast has a number of its own, and no
\* stream that its writer has still to try has seen it.
Fresh ==
    /\ \A w \in Writers : sending[w] <= logged
    /\ \A w \in Writers : targets[w] # {} => sending[w] >= 1
    /\ \A w, v \in Writers :
         targets[w] # {} /\ targets[v] # {} /\ w # v => sending[w] # sending[v]
    /\ \A w \in Writers : \A r \in targets[w] \cap Streams :
         Unseen(Carried(r), sending[w])

\* The property, stream by stream.
LEMMA StreamsAre == StreamsDoNotRepeat <=> \A r \in Streams : NoRepeat(Carried(r), logged)
BY Zenon DEF StreamsDoNotRepeat, NoRepeat, Carried

\* Log's critical section numbers an entry that no stream has seen.
LEMMA LogFresh ==
    ASSUME TypeOK, Fresh, StreamsDoNotRepeat,
           NEW w \in Writers, NEW m \in Mocks, Log(w, m)
    PROVE  Fresh' /\ StreamsDoNotRepeat'
<1>1. /\ logged' = logged + 1 /\ logged \in Nat
      /\ sending' = [sending EXCEPT ![w] = logged + 1]
      /\ sending \in [Writers -> Nat]
      /\ targets' = [targets EXCEPT ![w] = subscribers]
      /\ targets \in [Writers -> SUBSET Readers]
      /\ chan' = chan /\ streamed' = streamed
  BY LoggerAssumption DEF Log, TypeOK
<1>2. \A r \in Streams : Carried(r)' = Carried(r) /\ NoRepeat(Carried(r), logged)
  BY <1>1, Zenon DEF Carried, StreamsDoNotRepeat, NoRepeat
<1>3. \A r \in Streams : NoRepeat(Carried(r), logged + 1) /\ Unseen(Carried(r), logged + 1)
  BY <1>1, <1>2 DEF NoRepeat, Unseen
<1>4. StreamsDoNotRepeat'
  <2>1. (StreamsDoNotRepeat <=> \A r \in Streams : NoRepeat(Carried(r), logged))'
    BY StreamsAre, PTL
  <2>2. \A r \in Streams : NoRepeat(Carried(r), logged)'
    BY <1>1, <1>2, <1>3, Zenon
  <2> QED BY <2>1, <2>2, Zenon
<1>5. Fresh'
  <2>1. \A v \in Writers : v # w => targets'[v] = targets[v] /\ sending'[v] = sending[v]
    BY <1>1, Zenon
  <2>2. sending'[w] = logged + 1
    BY <1>1, Zenon
  <2>3. /\ \A v \in Writers : sending[v] <= logged /\ sending[v] \in Nat
        /\ \A v \in Writers : targets[v] # {} => sending[v] >= 1
    BY <1>1, Zenon DEF Fresh
  <2>4. /\ \A v \in Writers : sending'[v] <= logged'
        /\ \A v \in Writers : targets'[v] # {} => sending'[v] >= 1
    BY <1>1, <2>1, <2>2, <2>3
  <2>5. ASSUME NEW u \in Writers, NEW v \in Writers,
               targets'[u] # {}, targets'[v] # {}, u # v
        PROVE  sending'[u] # sending'[v]
    BY <1>1, <2>1, <2>2, <2>3, <2>5 DEF Fresh
  <2>6. ASSUME NEW v \in Writers, NEW r \in targets'[v] \cap Streams
        PROVE  Unseen(Carried(r)', sending'[v])
    <3>1. CASE v = w
      BY <1>2, <1>3, <2>2, <2>6, <3>1, Zenon
    <3>2. CASE v # w
      BY <1>2, <2>1, <2>6, <3>2, Zenon DEF Fresh
    <3> QED BY <3>1, <3>2, Zenon
  <2> QED BY <2>4, <2>5, <2>6, Zenon DEF Fresh
<1> QED BY <1>4, <1>5, Zenon

\* A send reaches a stream with an entry that is new to it.
LEMMA BroadcastFresh ==
    ASSUME TypeOK, Fresh, StreamsDoNotRepeat,
           NEW w \in Writers, NEW r \in Readers, Broadcast(w, r)
    PROVE  Fresh' /\ StreamsDoNotRepeat'
<1>1. /\ logged' = logged /\ logged \in Nat
      /\ sending' = sending /\ sending \in [Writers -> Nat]
      /\ targets \in [Writers -> SUBSET Readers]
      /\ r \in targets[w]
      /\ chan \in [Readers -> Seq(Nat)]
      /\ streamed' = streamed /\ streamed \in [Streams -> Seq(Nat)]
  <2>1. Seq(0 .. MaxLogs) \subseteq Seq(Nat) /\ 0 .. MaxLogs \subseteq Nat
    BY LoggerAssumption
  <2> QED BY <2>1, Zenon DEF Broadcast, TypeOK, log
<1>2. /\ \A v \in Writers : targets'[v] \subseteq targets[v]
      /\ chan' # chan => r \notin targets'[w]
      /\ \/ chan' = chan
         \/ chan' = [chan EXCEPT ![r] = Append(@, sending[w])]
  BY <1>1, Zenon DEF Broadcast
<1>3. sending[w] \in 1 .. logged
  BY <1>1 DEF Fresh
<1>4. /\ \A v \in Writers : sending'[v] <= logged'
      /\ \A v \in Writers : targets'[v] # {} => sending'[v] >= 1
      /\ \A u, v \in Writers :
           targets'[u] # {} /\ targets'[v] # {} /\ u # v => sending'[u] # sending'[v]
  BY <1>1, <1>2, Zenon DEF Fresh
<1>5. ASSUME NEW q \in Streams
      PROVE  /\ NoRepeat(Carried(q)', logged)
             /\ \A v \in Writers : q \in targets'[v] => Unseen(Carried(q)', sending[v])
  <2>1. /\ NoRepeat(Carried(q), logged)
        /\ \A v \in Writers : q \in targets[v] => Unseen(Carried(q), sending[v])
    BY Zenon DEF Carried, StreamsDoNotRepeat, NoRepeat, Fresh
  <2>2. q \in Readers
    BY Zenon DEF Readers
  <2>3. CASE chan'[q] = chan[q]
    <3>1. Carried(q)' = Carried(q)
      BY <1>1, <2>3, Zenon DEF Carried
    <3> QED BY <1>2, <2>1, <3>1, Zenon
  <2>4. CASE chan'[q] # chan[q]
    <3>1. q = r /\ chan'[q] = Append(chan[q], sending[w]) /\ q \notin targets'[w]
      BY <1>1, <1>2, <2>2, <2>4, Zenon
    <3>2. Carried(q)' = streamed[q] \o Append(chan[q], sending[w])
      BY <1>1, <3>1, Zenon DEF Carried
    <3>3. streamed[q] \in Seq(Nat) /\ chan[q] \in Seq(Nat) /\ sending[w] \in Nat
      BY <1>1, <2>2, Zenon
    <3>4. Extends(Carried(q)', Carried(q), sending[w])
      BY <3>2, <3>3, SendExtends, Zenon DEF Carried
    <3>5. Unseen(Carried(q), sending[w])
      BY <1>1, <2>1, <3>1, Zenon
    <3>6. NoRepeat(Carried(q)', logged)
      BY <1>1, <1>3, <2>1, <3>4, <3>5, AddEntry, Zenon
    <3>7. ASSUME NEW v \in Writers, q \in targets'[v]
          PROVE  Unseen(Carried(q)', sending[v])
      <4>1. v # w /\ q \in targets[v] /\ q \in targets[w]
        BY <1>1, <1>2, <3>1, <3>7, Zenon
      <4>2. sending[w] # sending[v]
        BY <4>1, Zenon DEF Fresh
      <4>3. Unseen(Carried(q), sending[v])
        BY <2>1, <4>1, Zenon
      <4> QED BY <1>1, <1>3, <3>4, <4>2, <4>3, AddEntry, Zenon
    <3> QED BY <3>6, <3>7, Zenon
  <2> QED BY <2>3, <2>4, Zenon
<1>6. StreamsDoNotRepeat'
  BY <1>1, <1>5, Zenon DEF Carried, StreamsDoNotRepeat, NoRepeat
<1>7. Fresh'
  BY <1>1, <1>4, <1>5, Zenon DEF Fresh
<1> QED BY <1>6, <1>7, Zenon

\* A receive moves the head of a channel to the client, or takes it away.
LEMMA ReceiveFresh ==
    ASSUME TypeOK, Fresh, StreamsDoNotRepeat, NEW r \in Readers, Receive(r)
    PROVE  Fresh' /\ StreamsDoNotRepeat'
<1>1. /\ logged' = logged /\ logged \in Nat
      /\ sending' = sending /\ sending \in [Writers -> Nat]
      /\ targets' = targets
      /\ chan \in [Readers -> Seq(Nat)]
      /\ streamed \in [Streams -> Seq(Nat)]
  <2>1. Seq(0 .. MaxLogs) \subseteq Seq(Nat) /\ 0 .. MaxLogs \subseteq Nat
    BY LoggerAssumption
  <2> QED BY <2>1, Zenon DEF Receive, TypeOK, log, writers
<1>2. ASSUME NEW q \in Streams
      PROVE  /\ NoRepeat(Carried(q)', logged)
             /\ \A y : Unseen(Carried(q), y) => Unseen(Carried(q)', y)
  <2>1. NoRepeat(Carried(q), logged)
    BY Zenon DEF Carried, StreamsDoNotRepeat, NoRepeat
  <2>2. q \in Readers /\ streamed[q] \in Seq(Nat) /\ chan[q] \in Seq(Nat)
    BY <1>1, Zenon DEF Readers
  <2>3. CASE q # r
    <3>1. chan'[q] = chan[q] /\ streamed'[q] = streamed[q]
      BY <1>1, <2>2, <2>3, Zenon DEF Receive
    <3> QED BY <2>1, <3>1, Zenon DEF Carried
  <2>4. CASE q = r /\ r \in Waiters
    <3>1. chan[q] # << >> /\ chan'[q] = Tail(chan[q]) /\ streamed'[q] = streamed[q]
      BY <1>1, <2>2, <2>4, Zenon DEF Receive
    <3>2. Thins(Carried(q)', Carried(q))
      BY <2>2, <3>1, ReceiveThins, Zenon DEF Carried
    <3> QED BY <1>1, <2>1, <3>2, DropEntry, Zenon
  <2>5. CASE q = r /\ r \notin Waiters
    <3>1. /\ chan[q] # << >>
          /\ chan'[q] = Tail(chan[q])
          /\ streamed'[q] = Append(streamed[q], Head(chan[q]))
      BY <1>1, <2>2, <2>5, Zenon DEF Receive
    <3>2. Carried(q)' = Carried(q)
      BY <2>2, <3>1, MoveHead, Zenon DEF Carried
    <3> QED BY <2>1, <3>2, Zenon
  <2> QED BY <2>3, <2>4, <2>5, Zenon
<1>3. StreamsDoNotRepeat'
  BY <1>1, <1>2, Zenon DEF Carried, StreamsDoNotRepeat, NoRepeat
<1>4. Fresh'
  BY <1>1, <1>2, Zenon DEF Fresh
<1> QED BY <1>3, <1>4, Zenon

\* No other step touches a broadcast, a channel or what was streamed.
LEMMA FreshStep ==
    ASSUME TypeOK, Fresh, StreamsDoNotRepeat, [Next]_vars
    PROVE  Fresh' /\ StreamsDoNotRepeat'
<1>1. ASSUME UNCHANGED <<logged, sending, targets, chan, streamed>>
      PROVE  Fresh' /\ StreamsDoNotRepeat'
  <2>1. \A r \in Streams : Carried(r)' = Carried(r)
    BY <1>1, Zenon DEF Carried
  <2>2. (StreamsDoNotRepeat <=> \A r \in Streams : NoRepeat(Carried(r), logged))'
    BY StreamsAre, PTL
  <2>3. StreamsDoNotRepeat'
    BY <1>1, <2>1, <2>2, StreamsAre, Zenon
  <2>4. Fresh'
    BY <1>1, <2>1, Zenon DEF Fresh
  <2> QED BY <2>3, <2>4, Zenon
<1>2. CASE Clear \/ \E m \in Mocks : ClearByMockID(m)
  BY <1>1, <1>2, Zenon DEF Clear, ClearByMockID, writers
<1>3. ASSUME NEW r \in Readers, Reader(r), ~Receive(r)
      PROVE  Fresh' /\ StreamsDoNotRepeat'
  BY <1>1, <1>3, Zenon DEF Reader, Subscribe, Check, Expire, Unsubscribe, CloseChannel,
                    log, writers
<1>4. CASE UNCHANGED vars
  BY <1>1, <1>4, Zenon DEF vars
<1> QED BY <1>2, <1>3, <1>4, LogFresh, BroadcastFresh, ReceiveFresh, Zenon
        DEF Next, Writer, Reader

\* ServeSSE never sends its client an entry twice nor one that was not
\* logged, although Log sends outside the mutex, drops what does not fit the
\* channel and several writers broadcast at once.
THEOREM StreamsNeverRepeat == Spec => []StreamsDoNotRepeat
<1> DEFINE J == TypeOK /\ Fresh /\ StreamsDoNotRepeat
<1>1. Init => J
  <2> SUFFICES ASSUME Init PROVE J
    BY Zenon
  <2>1. TypeOK
    BY InitIInv, Zenon DEF IInv
  <2>2. Fresh
    BY DEF Init, Fresh
  <2>3. \A r \in Streams : streamed[r] \o chan[r] = << >>
    BY DEF Init, Readers
  <2>4. StreamsDoNotRepeat
    <3>1. \A r \in Streams : NoRepeat(Carried(r), logged)
      <4>1. \A i \in DOMAIN << >> : FALSE
        OBVIOUS
      <4>2. NoRepeat(<< >>, logged)
        BY <4>1, Zenon DEF NoRepeat
      <4> QED BY <2>3, <4>2, Zenon DEF Carried
    <3> QED BY <3>1, StreamsAre, Zenon
  <2> QED BY <2>1, <2>2, <2>4, Zenon
<1>2. J /\ [Next]_vars => J'
  BY TypeStep, FreshStep, Zenon
<1>3. J => StreamsDoNotRepeat
  BY Zenon
<1> QED BY <1>1, <1>2, <1>3, PTL DEF Spec

-----------------------------------------------------------------------------
(* Webhook *)

HookCalls == [pc : {"new", "try", "wait", "done"}, retries : Int, attempt : Nat \ {0}]
Records == [of : Dispatches, attempt : Nat, outcome : Outcomes \cup {"skipped"}]

HookTypes ==
    /\ call \in [Dispatches -> HookCalls]
    /\ history \in Seq(Records)
    /\ received \in [Dispatches -> Nat]

Final(rec) == rec.outcome \in {"ok", "client error", "skipped"}

\* Follows and HistoryIsCoherent of any sequence of records.
NextOf(h, i, j) ==
    /\ i < j /\ h[i].of = h[j].of
    /\ \A k \in (i + 1)..(j - 1) : h[k].of # h[i].of

Coherent(h) ==
    \A i, j \in DOMAIN h : NextOf(h, i, j) => h[j].attempt = h[i].attempt + 1 /\ ~Final(h[i])

\* Record i is the last one of its dispatch.
IsLast(h, i) == \A k \in (i + 1)..Len(h) : h[k].of # h[i].of

\* What a dispatch's last record says of where the dispatch is.
Agrees(rec, c) ==
    /\ c.pc = "wait" => rec.attempt = c.attempt /\ ~Final(rec)
    /\ c.pc = "try" => rec.attempt + 1 = c.attempt /\ ~Final(rec)

Recorded(h, dispatches) ==
    \A i \in DOMAIN h : /\ dispatches[h[i].of].pc # "new"
                        /\ IsLast(h, i) => Agrees(h[i], dispatches[h[i].of])

SuccessesSeen(h, seen) == \A i \in DOMAIN h : h[i].outcome = "ok" => seen[h[i].of] > 0

\* How often the receiver can have seen a dispatch.
Counted(c, n) ==
    /\ c.pc = "new" => n = 0
    /\ c.pc = "try" => n < c.attempt /\ c.attempt <= c.retries + 1
    /\ c.pc = "wait" => n <= c.attempt /\ c.attempt <= c.retries
    /\ c.pc = "done" /\ c.retries >= 0 => n <= c.retries + 1
    /\ c.pc = "done" /\ c.retries < 0 => n = 0

\* The inductive invariant.
HookInv ==
    /\ HookTypes
    /\ Coherent(history)
    /\ Recorded(history, call)
    /\ SuccessesSeen(history, received)
    /\ \A d \in Dispatches : Counted(call[d], received[d])

\* The oldest record is dropped.
LEMMA TailKeeps ==
    ASSUME NEW h \in Seq(Records), h # << >>, NEW before, NEW seen,
           Coherent(h), Recorded(h, before), SuccessesSeen(h, seen)
    PROVE  Coherent(Tail(h)) /\ Recorded(Tail(h), before) /\ SuccessesSeen(Tail(h), seen)
<1> DEFINE t == Tail(h)
<1>1. /\ t \in Seq(Records) /\ Len(h) \in Nat \ {0} /\ Len(t) = Len(h) - 1
      /\ DOMAIN t = 1..(Len(h) - 1) /\ DOMAIN h = 1..Len(h)
      /\ \A i \in DOMAIN t : t[i] = h[i + 1]
  OBVIOUS
<1> HIDE DEF t
<1>2. ASSUME NEW i \in DOMAIN t, NEW j \in DOMAIN t, NextOf(t, i, j)
      PROVE  t[j].attempt = t[i].attempt + 1 /\ ~Final(t[i])
  <2>1. i + 1 \in DOMAIN h /\ j + 1 \in DOMAIN h /\ t[i] = h[i + 1] /\ t[j] = h[j + 1]
    BY <1>1
  <2>2. i + 1 < j + 1 /\ h[i + 1].of = h[j + 1].of
    BY <1>1, <1>2, <2>1 DEF NextOf
  <2>3. ASSUME NEW k \in ((i + 1) + 1)..((j + 1) - 1) PROVE h[k].of # h[i + 1].of
    <3>1. k - 1 \in (i + 1)..(j - 1) /\ k - 1 \in DOMAIN t /\ (k - 1) + 1 = k
      BY <1>1, <2>3
    <3>2. t[k - 1] = h[k]
      BY <1>1, <3>1, Zenon
    <3>3. t[k - 1].of # t[i].of
      BY <1>2, <3>1, Zenon DEF NextOf
    <3> QED BY <2>1, <3>2, <3>3, Zenon
  <2>4. NextOf(h, i + 1, j + 1)
    BY <2>2, <2>3, Zenon DEF NextOf
  <2> QED BY <2>1, <2>4, Zenon DEF Coherent
<1>3. ASSUME NEW i \in DOMAIN t, IsLast(t, i) PROVE IsLast(h, i + 1)
  <2>1. ASSUME NEW k \in ((i + 1) + 1)..Len(h) PROVE h[k].of # h[i + 1].of
    <3>1. k - 1 \in (i + 1)..Len(t) /\ k - 1 \in DOMAIN t /\ (k - 1) + 1 = k
      BY <1>1, <2>1
    <3>2. t[k - 1] = h[k] /\ t[i] = h[i + 1]
      BY <1>1, <3>1, Zenon
    <3>3. t[k - 1].of # t[i].of
      BY <1>3, <3>1, Zenon DEF IsLast
    <3> QED BY <3>2, <3>3, Zenon
  <2> QED BY <2>1, Zenon DEF IsLast
<1>4. \A i \in DOMAIN t : i + 1 \in DOMAIN h /\ t[i] = h[i + 1]
  BY <1>1
<1>5. Coherent(t)
  BY <1>2, Zenon DEF Coherent
<1>6. Recorded(t, before)
  BY <1>3, <1>4, Zenon DEF Recorded
<1>7. SuccessesSeen(t, seen)
  BY <1>4, Zenon DEF SuccessesSeen
<1> QED BY <1>5, <1>6, <1>7, Zenon DEF t

\* A record of dispatch d is added and d moves on.
LEMMA AppendKeeps ==
    ASSUME NEW h \in Seq(Records), NEW rec \in Records, NEW before, NEW after, NEW seen, NEW seen2,
           Coherent(h), Recorded(h, before), SuccessesSeen(h, seen),
           \A e \in Dispatches \ {rec.of} : after[e] = before[e],
           \A e \in Dispatches : seen[e] > 0 => seen2[e] > 0,
           \/ before[rec.of].pc = "new"
           \/ before[rec.of].pc = "try" /\ before[rec.of].attempt = rec.attempt,
           after[rec.of].pc # "new", Agrees(rec, after[rec.of]),
           rec.outcome = "ok" => seen2[rec.of] > 0
    PROVE  /\ Coherent(Append(h, rec)) /\ Recorded(Append(h, rec), after)
           /\ SuccessesSeen(Append(h, rec), seen2)
<1> DEFINE g == Append(h, rec)
           n == Len(h) + 1
<1>1. /\ g \in Seq(Records) /\ n \in Nat /\ Len(g) = n /\ Len(h) = n - 1
      /\ DOMAIN g = 1..n /\ DOMAIN h = 1..(n - 1) /\ g[n] = rec
      /\ \A i \in DOMAIN h : g[i] = h[i] /\ h[i] \in Records
  OBVIOUS
<1>2. rec.of \in Dispatches /\ \A i \in DOMAIN h : h[i].of \in Dispatches
  BY <1>1, Zenon DEF Records
<1> HIDE DEF g, n
<1>3. ASSUME NEW i \in DOMAIN g, NEW j \in DOMAIN g, NextOf(g, i, j)
      PROVE  g[j].attempt = g[i].attempt + 1 /\ ~Final(g[i])
  <2>1. i \in DOMAIN h /\ g[i] = h[i]
    BY <1>1, <1>3 DEF NextOf
  <2>2. \A k \in (i + 1)..(j - 1) : k \in DOMAIN h /\ g[k] = h[k]
    BY <1>1, <2>1
  <2>3. CASE j # n
    <3>1. j \in DOMAIN h /\ g[j] = h[j]
      BY <1>1, <2>3
    <3>2. NextOf(h, i, j)
      BY <1>3, <2>1, <2>2, <3>1, Zenon DEF NextOf
    <3> QED BY <2>1, <3>1, <3>2, Zenon DEF Coherent
  <2>4. CASE j = n
    <3>1. h[i].of = rec.of
      BY <1>1, <1>3, <2>1, <2>4, Zenon DEF NextOf
    <3>2. IsLast(h, i)
      BY <1>1, <1>3, <2>1, <2>2, <2>4, Zenon DEF NextOf, IsLast
    <3>3. before[rec.of].pc # "new" /\ Agrees(h[i], before[rec.of])
      BY <2>1, <3>1, <3>2, Zenon DEF Recorded
    <3>4. rec.attempt = h[i].attempt + 1 /\ ~Final(h[i])
      BY <3>3, Zenon DEF Agrees
    <3> QED BY <1>1, <2>1, <2>4, <3>4, Zenon
  <2> QED BY <2>3, <2>4, Zenon
<1>4. ASSUME NEW i \in DOMAIN g
      PROVE  after[g[i].of].pc # "new" /\ (IsLast(g, i) => Agrees(g[i], after[g[i].of]))
  <2>1. CASE i = n
    BY <1>1, <2>1, Zenon
  <2>2. CASE i # n
    <3>1. i \in DOMAIN h /\ g[i] = h[i] /\ h[i].of \in Dispatches
      BY <1>1, <1>2, <2>2
    <3>2. after[h[i].of].pc # "new"
      <4>1. CASE h[i].of = rec.of
        BY <4>1, Zenon
      <4>2. CASE h[i].of # rec.of
        BY <3>1, <4>2, Zenon DEF Recorded
      <4> QED BY <4>1, <4>2, Zenon
    <3>3. ASSUME IsLast(g, i) PROVE Agrees(h[i], after[h[i].of])
      <4>1. n \in (i + 1)..Len(g)
        BY <1>1, <3>1
      <4>2. h[i].of # rec.of
        BY <1>1, <3>1, <3>3, <4>1, Zenon DEF IsLast
      <4>3. IsLast(h, i)
        <5>1. ASSUME NEW k \in (i + 1)..Len(h) PROVE h[k].of # h[i].of
          <6>1. k \in (i + 1)..Len(g) /\ k \in DOMAIN h
            BY <1>1, <3>1
          <6> QED BY <1>1, <3>1, <3>3, <6>1, Zenon DEF IsLast
        <5> QED BY <5>1, Zenon DEF IsLast
      <4> QED BY <3>1, <4>2, <4>3, Zenon DEF Recorded
    <3> QED BY <3>1, <3>2, <3>3, Zenon
  <2> QED BY <2>1, <2>2, Zenon
<1>5. SuccessesSeen(g, seen2)
  <2>1. ASSUME NEW i \in DOMAIN g, g[i].outcome = "ok" PROVE seen2[g[i].of] > 0
    <3>1. CASE i = n
      BY <1>1, <2>1, <3>1, Zenon
    <3>2. CASE i # n
      <4>1. i \in DOMAIN h /\ g[i] = h[i] /\ h[i].of \in Dispatches
        BY <1>1, <1>2, <3>2
      <4> QED BY <2>1, <4>1, Zenon DEF SuccessesSeen
    <3> QED BY <3>1, <3>2, Zenon
  <2> QED BY <2>1, Zenon DEF SuccessesSeen
<1> QED BY <1>3, <1>4, <1>5, Zenon DEF Coherent, Recorded, g

\* Store.add keeps what the invariant says of the history.
LEMMA AddKeeps ==
    ASSUME HookInv, NEW rec \in Records, add(rec),
           \A e \in Dispatches \ {rec.of} : call'[e] = call[e],
           \A e \in Dispatches : received[e] > 0 => received'[e] > 0,
           \/ call[rec.of].pc = "new"
           \/ call[rec.of].pc = "try" /\ call[rec.of].attempt = rec.attempt,
           call'[rec.of].pc # "new", Agrees(rec, call'[rec.of]),
           rec.outcome = "ok" => received'[rec.of] > 0
    PROVE  /\ history' \in Seq(Records) /\ Coherent(history') /\ Recorded(history', call')
           /\ SuccessesSeen(history', received')
<1> DEFINE g == Append(history, rec)
<1>1. history \in Seq(Records) /\ g \in Seq(Records) /\ g # << >>
  <2>1. history \in Seq(Records)
    BY Zenon DEF HookInv, HookTypes
  <2>2. g \in Seq(Records) /\ Len(g) = Len(history) + 1 /\ Len(history) \in Nat
    BY <2>1, AppendProperties
  <2> QED BY <2>1, <2>2
<1>2. Coherent(g) /\ Recorded(g, call') /\ SuccessesSeen(g, received')
  BY <1>1, AppendKeeps, Zenon DEF HookInv
<1>3. history' = g \/ history' = Tail(g)
  BY Zenon DEF add
<1> HIDE DEF g
<1>4. CASE history' = g
  BY <1>1, <1>2, <1>4, Zenon
<1>5. CASE history' = Tail(g)
  <2>1. Tail(g) \in Seq(Records)
    BY <1>1
  <2>2. Coherent(Tail(g)) /\ Recorded(Tail(g), call') /\ SuccessesSeen(Tail(g), received')
    BY <1>1, <1>2, TailKeeps, Zenon
  <2> QED BY <1>5, <2>1, <2>2, Zenon
<1> QED BY <1>3, <1>4, <1>5, Zenon

\* A step of dispatch d that leaves the history alone.
LEMMA QuietKeeps ==
    ASSUME HookInv, NEW d \in Dispatches, history' = history, received' = received,
           \A e \in Dispatches \ {d} : call'[e] = call[e], call'[d].pc # "new",
           call[d].pc = "new" \/ \A rec \in Records : Agrees(rec, call[d]) => Agrees(rec, call'[d])
    PROVE  Recorded(history', call') /\ SuccessesSeen(history', received')
<1>1. ASSUME NEW i \in DOMAIN history
      PROVE  /\ call'[history[i].of].pc # "new"
             /\ IsLast(history, i) => Agrees(history[i], call'[history[i].of])
  <2>1. history[i] \in Records /\ history[i].of \in Dispatches
    <3>1. history[i] \in Records
      BY DEF HookInv, HookTypes
    <3> QED BY <3>1, Zenon DEF Records
  <2>2. /\ call[history[i].of].pc # "new"
        /\ IsLast(history, i) => Agrees(history[i], call[history[i].of])
    BY Zenon DEF HookInv, Recorded
  <2>3. CASE history[i].of = d
    BY <2>1, <2>2, <2>3, Zenon
  <2>4. CASE history[i].of # d
    BY <2>1, <2>2, <2>4, Zenon
  <2> QED BY <2>3, <2>4, Zenon
<1>2. Recorded(history', call')
  BY <1>1, Zenon DEF Recorded
<1> QED BY <1>2, Zenon DEF HookInv

LEMMA CallTyped ==
    ASSUME HookTypes, NEW d \in Dispatches
    PROVE  /\ call[d] \in HookCalls /\ call[d].retries \in Int /\ call[d].attempt \in Nat \ {0}
           /\ call[d].pc \in {"new", "try", "wait", "done"} /\ received[d] \in Nat
BY Zenon DEF HookTypes, HookCalls

\* A dispatch begins, or is skipped.
LEMMA DispatchKeeps ==
    ASSUME HookInv, NEW d \in Dispatches, Dispatch(d)
    PROVE  HookInv'
<1>1. /\ HookTypes /\ call[d].pc = "new" /\ received' = received /\ received[d] = 0
      /\ \A e \in Dispatches : Counted(call[e], received[e])
  <2>1. call[d].pc = "new" /\ received' = received /\ Counted(call[d], received[d])
    BY Zenon DEF HookInv, Dispatch
  <2> QED BY <2>1, Zenon DEF HookInv, Counted
<1>2. PICK n \in Retries, a \in {"try", "done"} :
        /\ call' = [call EXCEPT ![d] = [pc |-> a, retries |-> n, attempt |-> 1]]
        /\ a = "try" => n + 1 >= 1
        /\ \/ history' = history
           \/ a = "done" /\ add([of |-> d, attempt |-> 1, outcome |-> "skipped"])
  <2>1. PICK n \in Retries :
        \/ /\ call' = [call EXCEPT ![d] = [pc |-> IF n + 1 >= 1 THEN "try" ELSE "done", retries |-> n, attempt |-> 1]]
           /\ UNCHANGED history
        \/ /\ call' = [call EXCEPT ![d] = [pc |-> "done", retries |-> n, attempt |-> 1]]
           /\ add([of |-> d, attempt |-> 1, outcome |-> "skipped"])
    BY Zenon DEF Dispatch
  <2>2. CASE n + 1 >= 1
    BY <2>1, <2>2, Zenon
  <2>3. CASE ~(n + 1 >= 1)
    BY <2>1, <2>3, Zenon
  <2> QED BY <2>2, <2>3, Zenon
<1>3. n \in Int
  BY WebhookAssumption, Zenon
<1> DEFINE new == [pc |-> a, retries |-> n, attempt |-> 1]
<1>4. new \in HookCalls /\ new.pc = a /\ new.retries = n /\ new.attempt = 1
  BY <1>2, <1>3 DEF HookCalls
<1>5. /\ call' \in [Dispatches -> HookCalls] /\ call'[d] = new
      /\ \A e \in Dispatches \ {d} : call'[e] = call[e]
  <2>1. call' = [call EXCEPT ![d] = new]
    BY <1>2, Zenon
  <2> HIDE DEF new
  <2> QED BY <1>1, <1>4, <2>1, Zenon DEF HookTypes
<1> HIDE DEF new
<1>6. \A e \in Dispatches : Counted(call'[e], received'[e])
  <2>1. Counted(new, 0)
    BY <1>2, <1>3, <1>4 DEF Counted
  <2> QED BY <1>1, <1>5, <2>1, Zenon
<1>7. /\ history' \in Seq(Records) /\ Coherent(history') /\ Recorded(history', call')
      /\ SuccessesSeen(history', received')
  <2>1. CASE history' = history
    <3>1. Recorded(history', call') /\ SuccessesSeen(history', received')
      BY <1>1, <1>2, <1>4, <1>5, <2>1, QuietKeeps, Zenon
    <3> QED BY <2>1, <3>1, Zenon DEF HookInv, HookTypes
  <2>2. CASE a = "done" /\ add([of |-> d, attempt |-> 1, outcome |-> "skipped"])
    <3> DEFINE rec == [of |-> d, attempt |-> 1, outcome |-> "skipped"]
    <3>1. rec \in Records /\ rec.of = d /\ rec.attempt = 1 /\ rec.outcome = "skipped"
      BY Zenon DEF Records
    <3>2. add(rec)
      BY <2>2, Zenon
    <3> HIDE DEF rec
    <3>3. Agrees(rec, new)
      BY <1>4, <2>2, Zenon DEF Agrees
    <3> QED BY <1>1, <1>4, <1>5, <2>2, <3>1, <3>2, <3>3, AddKeeps, Zenon
  <2> QED BY <1>2, <2>1, <2>2, Zenon
<1> QED BY <1>1, <1>5, <1>6, <1>7, Zenon DEF HookInv, HookTypes

\* An attempt, and what follows it.
LEMMA AttemptKeeps ==
    ASSUME HookInv, NEW d \in Dispatches, Attempt(d)
    PROVE  HookInv'
<1>1. /\ HookTypes /\ call[d].pc = "try" /\ \A e \in Dispatches : Counted(call[e], received[e])
  BY Zenon DEF HookInv, Attempt
<1>2. PICK outcome \in Outcomes :
        /\ add([of |-> d, attempt |-> call[d].attempt, outcome |-> outcome])
        /\ call' = [call EXCEPT ![d] = After(d, outcome)]
        /\ received' = IF outcome = "refused" THEN received ELSE [received EXCEPT ![d] = @ + 1]
  BY Zenon DEF Attempt
<1>3. /\ call[d] \in HookCalls /\ call[d].retries \in Int /\ call[d].attempt \in Nat \ {0}
      /\ received[d] \in Nat
  BY <1>1, CallTyped, Zenon
<1>4. received[d] < call[d].attempt /\ call[d].attempt <= call[d].retries + 1
  BY <1>1, Zenon DEF Counted
<1>5. PICK new \in HookCalls :
        /\ new = After(d, outcome) /\ new.retries = call[d].retries /\ new.attempt = call[d].attempt
        /\ \/ new.pc = "done"
           \/ /\ new.pc = "wait" /\ ~Succeeded(outcome)
              /\ call[d].attempt # call[d].retries + 1
  <2>1. ASSUME NEW a \in {"done", "wait"}
        PROVE  /\ [call[d] EXCEPT !.pc = a] \in HookCalls
               /\ [call[d] EXCEPT !.pc = a].retries = call[d].retries
               /\ [call[d] EXCEPT !.pc = a].attempt = call[d].attempt
               /\ [call[d] EXCEPT !.pc = a].pc = a
    BY <1>3, Zenon DEF HookCalls
  <2>2. CASE Succeeded(outcome) \/ call[d].attempt = call[d].retries + 1
    <3>1. After(d, outcome) = [call[d] EXCEPT !.pc = "done"]
      BY <2>2, Zenon DEF After
    <3> QED BY <2>1, <3>1, Zenon
  <2>3. CASE ~(Succeeded(outcome) \/ call[d].attempt = call[d].retries + 1)
    <3>1. After(d, outcome) = [call[d] EXCEPT !.pc = "wait"]
      BY <2>3, Zenon DEF After
    <3> QED BY <2>1, <2>3, <3>1, Zenon
  <2> QED BY <2>2, <2>3, Zenon
<1>6. /\ call' \in [Dispatches -> HookCalls] /\ call'[d] = new
      /\ \A e \in Dispatches \ {d} : call'[e] = call[e]
  BY <1>1, <1>2, <1>5, Zenon DEF HookTypes
<1>7. /\ received' \in [Dispatches -> Nat] /\ received'[d] <= received[d] + 1
      /\ outcome # "refused" => received'[d] > 0
      /\ \A e \in Dispatches \ {d} : received'[e] = received[e]
      /\ \A e \in Dispatches : received[e] > 0 => received'[e] > 0
  <2>1. CASE outcome = "refused"
    BY <1>1, <1>2, <1>3, <2>1 DEF HookTypes
  <2>2. CASE outcome # "refused"
    BY <1>1, <1>2, <1>3, <2>2 DEF HookTypes
  <2> QED BY <2>1, <2>2, Zenon
<1>8. \A e \in Dispatches : Counted(call'[e], received'[e])
  <2>1. received'[d] \in Nat
    BY <1>7, Zenon
  <2>2. Counted(new, received'[d])
    BY <1>3, <1>4, <1>5, <1>7, <2>1 DEF Counted
  <2> QED BY <1>1, <1>6, <1>7, <2>2, Zenon
<1>9. /\ history' \in Seq(Records) /\ Coherent(history') /\ Recorded(history', call')
      /\ SuccessesSeen(history', received')
  <2> DEFINE rec == [of |-> d, attempt |-> call[d].attempt, outcome |-> outcome]
  <2>1. /\ rec \in Records /\ rec.of = d /\ rec.attempt = call[d].attempt /\ rec.outcome = outcome
        /\ add(rec)
    BY <1>2, <1>3, Zenon DEF Records
  <2> HIDE DEF rec
  <2>2. Agrees(rec, new)
    BY <1>2, <1>5, <2>1, Zenon DEF Agrees, Final, Succeeded, Outcomes
  <2>3. new.pc # "new" /\ (rec.outcome = "ok" => received'[d] > 0)
    BY <1>5, <1>7, <2>1, Zenon
  <2> QED BY <1>1, <1>6, <1>7, <2>1, <2>2, <2>3, AddKeeps, Zenon
<1> QED BY <1>6, <1>7, <1>8, <1>9, Zenon DEF HookInv, HookTypes

\* The pause before the next attempt.
LEMMA PauseKeeps ==
    ASSUME HookInv, NEW d \in Dispatches, Pause(d)
    PROVE  HookInv'
<1>1. /\ HookTypes /\ call[d].pc = "wait" /\ history' = history /\ received' = received
      /\ \A e \in Dispatches : Counted(call[e], received[e])
  BY Zenon DEF HookInv, Pause
<1>2. /\ call[d] \in HookCalls /\ call[d].retries \in Int /\ call[d].attempt \in Nat \ {0}
      /\ received[d] \in Nat
  BY <1>1, CallTyped, Zenon
<1>3. PICK new \in HookCalls :
        /\ call' = [call EXCEPT ![d] = new]
        /\ new.pc = "try" /\ new.retries = call[d].retries /\ new.attempt = call[d].attempt + 1
  <2>1. call' = [call EXCEPT ![d] = [call[d] EXCEPT !.pc = "try", !.attempt = call[d].attempt + 1]]
    BY <1>1, Zenon DEF Pause, HookTypes
  <2> DEFINE k == call[d].attempt + 1
  <2>2. k \in Nat \ {0}
    BY <1>2
  <2> HIDE DEF k
  <2>3. /\ [call[d] EXCEPT !.pc = "try", !.attempt = k] \in HookCalls
        /\ [call[d] EXCEPT !.pc = "try", !.attempt = k].pc = "try"
        /\ [call[d] EXCEPT !.pc = "try", !.attempt = k].retries = call[d].retries
        /\ [call[d] EXCEPT !.pc = "try", !.attempt = k].attempt = k
    BY <1>2, <2>2, Zenon DEF HookCalls
  <2> QED BY <2>1, <2>3, Zenon DEF k
<1>4. /\ call' \in [Dispatches -> HookCalls] /\ call'[d] = new
      /\ \A e \in Dispatches \ {d} : call'[e] = call[e]
  BY <1>1, <1>3, Zenon DEF HookTypes
<1>5. \A e \in Dispatches : Counted(call'[e], received'[e])
  <2>1. received[d] <= call[d].attempt /\ call[d].attempt <= call[d].retries
    BY <1>1, Zenon DEF Counted
  <2>2. Counted(new, received[d])
    BY <1>2, <1>3, <2>1 DEF Counted
  <2> QED BY <1>1, <1>4, <2>2, Zenon
<1>6. Recorded(history', call') /\ SuccessesSeen(history', received')
  <2>1. ASSUME NEW rec \in Records, Agrees(rec, call[d]) PROVE Agrees(rec, new)
    <3>1. rec.attempt = call[d].attempt /\ ~Final(rec)
      BY <1>1, <2>1, Zenon DEF Agrees
    <3> QED BY <1>3, <3>1, Zenon DEF Agrees
  <2> QED BY <1>1, <1>3, <1>4, <2>1, QuietKeeps, Zenon
<1> QED BY <1>1, <1>4, <1>5, <1>6, Zenon DEF HookInv, HookTypes

LEMMA InitHook == HookInit => HookInv
<1> SUFFICES ASSUME HookInit PROVE HookInv
  BY Zenon
<1>1. HookTypes
  BY DEF HookInit, HookTypes, NewCall, HookCalls
<1>2. DOMAIN history = {}
  BY DEF HookInit
<1>3. \A d \in Dispatches : Counted(call[d], received[d])
  <2>1. NewCall.pc = "new"
    BY Zenon DEF NewCall
  <2>2. Counted(NewCall, 0)
    BY <2>1, Zenon DEF Counted
  <2> QED BY <2>2, Zenon DEF HookInit
<1> QED BY <1>1, <1>2, <1>3, Zenon DEF HookInv, Coherent, Recorded, SuccessesSeen

LEMMA NextHook == HookInv /\ [HookNext]_hookVars => HookInv'
<1> SUFFICES ASSUME HookInv, [HookNext]_hookVars PROVE HookInv'
  BY Zenon
<1>1. CASE ClearHistory
  <2>1. history' \in Seq(Records) /\ DOMAIN history' = {} /\ call' = call /\ received' = received
    BY <1>1 DEF ClearHistory
  <2> QED BY <2>1, Zenon DEF HookInv, HookTypes, Coherent, Recorded, SuccessesSeen
<1>2. CASE UNCHANGED hookVars
  <2>1. history' = history /\ call' = call /\ received' = received
    BY <1>2, Zenon DEF hookVars
  <2> QED BY <2>1, Zenon DEF HookInv, HookTypes
<1> QED BY <1>1, <1>2, DispatchKeeps, AttemptKeeps, PauseKeeps, Zenon DEF HookNext, DispatchStep

LEMMA HookCoherent == HookInv => DispatchesAreCoherent
<1> SUFFICES ASSUME HookInv PROVE DispatchesAreCoherent
  BY Zenon
<1>1. HistoryIsCoherent
  BY Zenon DEF HookInv, Coherent, HistoryIsCoherent, Follows, NextOf, Final
<1>2. DeliveredWithinRetries
  <2>1. SUFFICES ASSUME NEW d \in Dispatches
        PROVE  /\ call[d].pc # "new" /\ call[d].retries >= 0 => received[d] <= call[d].retries + 1
               /\ \A i \in DOMAIN history : history[i].of = d /\ history[i].outcome = "ok" => received[d] > 0
    BY Zenon DEF DeliveredWithinRetries
  <2>2. Counted(call[d], received[d]) /\ HookTypes
    BY Zenon DEF HookInv
  <2>3. call[d].pc # "new" /\ call[d].retries >= 0 => received[d] <= call[d].retries + 1
    BY <2>2, CallTyped DEF Counted
  <2> QED BY <2>3, Zenon DEF HookInv, SuccessesSeen
<1> QED BY <1>1, <1>2, Zenon DEF DispatchesAreCoherent

\* Webhook: whatever other dispatches add and whenever the history is cleared,
\* it has a dispatch's attempts in order and none after a success, and the
\* receiver sees a callback at most retries + 1 times (Dispatch, Store.add).
THEOREM WebhooksAreCoherent == HookSpec => []DispatchesAreCoherent
<1>1. HookSpec => []HookInv
  BY InitHook, NextHook, PTL DEF HookSpec
<1> QED BY <1>1, HookCoherent, PTL

-----------------------------------------------------------------------------
(* The state store *)

\* The keys a call of setState has left to write, and its ttl.
Posts == [keys : SUBSET Keys, ttl : TTLs \cup {0}]

\* The inductive invariant: only keys once given a ttl can have an expiry, in
\* the store or in the hands of a Get; and the times that All calls have
\* taken are not in the future.
StateInv ==
    /\ StateTypeOK
    /\ \A k \in DOMAIN data : data[k] # Never => k \in timed
    /\ \A g \in Getters : got[g] # Idle /\ got[g].expiresAt # Never => got[g].key \in timed
    /\ \A l \in Listers : sweepTime[l] <= now
    /\ DOMAIN got = Getters

\* Storing a key keeps what the invariant says of the entries.
LEMMA PutEntries ==
    ASSUME StateInv, NEW k \in Keys, NEW ttl \in TTLs \cup {0}, data' = Put(k, ttl),
           timed' = IF ttl > 0 THEN timed \cup {k} ELSE timed
    PROVE  /\ DOMAIN data' \subseteq Keys
           /\ \A j \in DOMAIN data' : data'[j] \in Nat /\ (data'[j] # Never => j \in timed')
           /\ timed \subseteq timed' /\ timed' \subseteq Keys
<1>1. now \in Nat /\ ttl \in Int
  <2>1. now \in 1 .. MaxTime
    BY Zenon DEF StateInv, StateTypeOK
  <2>2. 1 .. MaxTime \subseteq Nat /\ 0 \in Int
    OBVIOUS
  <2> QED BY <2>1, <2>2, StateStoreAssumption, Zenon
<1>2. DOMAIN data' = DOMAIN data \cup {k}
  BY Zenon DEF Put
<1>3. \A j \in DOMAIN data' : data'[j] = IF j # k THEN data[j] ELSE IF ttl > 0 THEN now + ttl ELSE Never
  BY Zenon DEF Put
<1>4. timed \subseteq timed' /\ timed' \subseteq Keys
  BY Zenon DEF StateInv, StateTypeOK
<1>5. ASSUME NEW j \in DOMAIN data'
      PROVE  data'[j] \in Nat /\ (data'[j] # Never => j \in timed')
  <2>1. CASE j # k
    BY <1>2, <1>3, <1>4, <2>1, Zenon DEF StateInv, StateTypeOK
  <2>2. CASE j = k
    BY <1>1, <1>3, <2>2 DEF Never
  <2> QED BY <2>1, <2>2, Zenon
<1> QED BY <1>2, <1>4, <1>5, Zenon DEF StateInv, StateTypeOK

\* Removing keys keeps the other entries.
LEMMA RestrictEntries ==
    ASSUME StateInv, NEW S, data' = Restrict(data, S), S \subseteq DOMAIN data, timed' = timed
    PROVE  /\ DOMAIN data' = S /\ DOMAIN data' \subseteq Keys
           /\ \A j \in DOMAIN data' : data'[j] \in Nat /\ (data'[j] # Never => j \in timed')
BY Zenon DEF StateInv, StateTypeOK, Restrict

\* Every step keeps the invariant.
LEMMA NextState ==
    ASSUME StateInv, [StateNext]_stateVars
    PROVE  StateInv'
<1> USE DEF StateInv, StateTypeOK
<1>0. /\ \A l \in Listers : sweepTime[l] \in Nat
      /\ \A p \in Posters : posting[p] \in Posts /\ posting[p].ttl \in TTLs \cup {0}
      /\ posting \in [Posters -> Posts]
      /\ now \in Nat
  BY DEF Posts
<1>1. ASSUME NEW k \in Keys, NEW ttl \in TTLs, SetTTL(k, ttl) PROVE StateInv'
  <2>1. /\ data' = Put(k, ttl) /\ timed' = IF ttl > 0 THEN timed \cup {k} ELSE timed
        /\ UNCHANGED <<now, got, sweepTime, posting>>
    BY <1>1, Zenon DEF SetTTL
  <2>2. /\ DOMAIN data' \subseteq Keys
        /\ \A j \in DOMAIN data' : data'[j] \in Nat /\ (data'[j] # Never => j \in timed')
        /\ timed \subseteq timed' /\ timed' \subseteq Keys
    BY <2>1, PutEntries, Zenon
  <2> QED BY <2>1, <2>2, Zenon
<1>2. ASSUME NEW p \in Posters, NEW ks \in SUBSET Keys, NEW ttl \in TTLs,
             setStateBegin(p, ks, ttl)
      PROVE  StateInv'
  BY <1>2, Zenon DEF setStateBegin
<1>3. ASSUME NEW p \in Posters, NEW k \in Keys, setStateKey(p, k) PROVE StateInv'
  <2>1. /\ data' = Put(k, posting[p].ttl)
        /\ timed' = IF posting[p].ttl > 0 THEN timed \cup {k} ELSE timed
        /\ UNCHANGED <<now, got, sweepTime>>
    BY <1>3, Zenon DEF setStateKey
  <2>2. /\ DOMAIN data' \subseteq Keys
        /\ \A j \in DOMAIN data' : data'[j] \in Nat /\ (data'[j] # Never => j \in timed')
        /\ timed \subseteq timed' /\ timed' \subseteq Keys
    BY <1>0, <2>1, PutEntries, Zenon
  <2>3. posting' \in [Posters -> [keys : SUBSET Keys, ttl : TTLs \cup {0}]]
    BY <1>0, <1>3, Zenon DEF setStateKey, Posts
  <2> QED BY <2>1, <2>2, <2>3, Zenon
<1>4. ASSUME NEW g \in Getters, NEW k \in Keys, GetRead(g, k) PROVE StateInv'
  BY <1>4, Zenon DEF GetRead
<1>5. ASSUME NEW g \in Getters, GetReturn(g) PROVE StateInv'
  BY <1>5, Zenon DEF GetReturn
<1>6. ASSUME NEW l \in Listers, AllBegin(l) PROVE StateInv'
  BY <1>0, <1>6 DEF AllBegin
<1>7. ASSUME NEW g \in Getters, GetExpire(g) PROVE StateInv'
  <2>1. /\ DOMAIN data' \subseteq Keys
        /\ \A j \in DOMAIN data' : data'[j] \in Nat /\ (data'[j] # Never => j \in timed')
    <3> DEFINE S == DOMAIN data \ {got[g].key}
    <3>1. data' = Restrict(data, S) /\ S \subseteq DOMAIN data /\ timed' = timed
      BY <1>7, Zenon DEF GetExpire
    <3> QED BY <3>1, RestrictEntries, Zenon
  <2> QED BY <1>7, <2>1, Zenon DEF GetExpire
<1>8. ASSUME NEW l \in Listers, AllSweep(l) PROVE StateInv'
  <2>1. /\ DOMAIN data' \subseteq Keys
        /\ \A j \in DOMAIN data' : data'[j] \in Nat /\ (data'[j] # Never => j \in timed')
    <3> DEFINE S == {k \in DOMAIN data : ~expired(data[k], sweepTime[l])}
    <3>1. data' = Restrict(data, S) /\ S \subseteq DOMAIN data /\ timed' = timed
      BY <1>8, Zenon DEF AllSweep
    <3> HIDE DEF S
    <3> QED BY <3>1, RestrictEntries, Zenon
  <2> QED BY <1>0, <1>8, <2>1 DEF AllSweep
<1>9. ASSUME NEW ks \in SUBSET Keys, ResetPrefix(ks) \/ \E k \in ks : DeleteState(k)
      PROVE  StateInv'
  <2>1. /\ DOMAIN data' \subseteq Keys
        /\ \A j \in DOMAIN data' : data'[j] \in Nat /\ (data'[j] # Never => j \in timed')
    <3>1. PICK S \in SUBSET DOMAIN data : data' = Restrict(data, S) /\ timed' = timed
      BY <1>9, Zenon DEF ResetPrefix, DeleteState
    <3> QED BY <3>1, RestrictEntries, Zenon
  <2> QED BY <1>9, <2>1, Zenon DEF ResetPrefix, DeleteState
<1>10. CASE Tick
  <2>1. now' \in 1 .. MaxTime /\ now <= now' /\ now' \in Nat
    BY <1>0, <1>10, StateStoreAssumption DEF Tick
  <2>2. \A l \in Listers : sweepTime[l] <= now'
    BY <1>0, <2>1
  <2> QED BY <1>10, <2>1, <2>2, Zenon DEF Tick
<1>11. CASE UNCHANGED stateVars
  BY <1>11, Zenon DEF stateVars
<1>12. ASSUME NEW k \in Keys, DeleteState(k) PROVE StateInv'
  BY <1>9, <1>12, Zenon
<1>13. ASSUME NEW ks \in Prefixes, ResetPrefix(ks) PROVE StateInv'
  BY <1>9, <1>13, StateStoreAssumption, Zenon
<1> QED BY <1>1, <1>2, <1>3, <1>4, <1>5, <1>6, <1>7, <1>8, <1>10, <1>11, <1>12,
          <1>13, Zenon DEF StateNext, LazyRemoval

\* The store starts empty.
LEMMA InitState ==
    ASSUME StateInit
    PROVE  StateInv
BY StateStoreAssumption DEF StateInit, NewState, StateInv, StateTypeOK

\* THEOREM: lazy expiry, in Get and in All, removes only keys that some caller
\* once set with a ttl.
THEOREM UntimedStay == StateSpec => UntimedKeysStay
<1>1. StateInit => StateInv
  BY InitState, Zenon
<1>2. StateInv /\ [StateNext]_stateVars => StateInv'
  BY NextState, Zenon
<1>3. StateInv /\ [StateNext]_stateVars =>
        [LazyRemoval => DOMAIN data \ DOMAIN data' \subseteq timed]_stateVars
  <2> SUFFICES ASSUME StateInv, LazyRemoval, NEW k \in DOMAIN data \ DOMAIN data'
               PROVE  k \in timed
    BY Zenon
  <2>1. ASSUME NEW g \in Getters, GetExpire(g) PROVE k \in timed
    BY <2>1, Zenon DEF GetExpire, Restrict, expired, StateInv
  <2>2. ASSUME NEW l \in Listers, AllSweep(l) PROVE k \in timed
    BY <2>2, Zenon DEF AllSweep, Restrict, expired, StateInv
  <2> QED BY <2>1, <2>2, Zenon DEF LazyRemoval
<1> QED BY <1>1, <1>2, <1>3, PTL DEF StateSpec, UntimedKeysStay

\* THEOREM: All drops only entries that have expired, although it took the
\* time before it waited for the lock.
THEOREM SweepSafe == StateSpec => SweepDropsOnlyExpired
<1> DEFINE A == \A l \in Listers : AllSweep(l) =>
                  \A k \in DOMAIN data \ DOMAIN data' : expired(data[k], now)
<1>1. StateInit => StateInv
  BY InitState, Zenon
<1>2. StateInv /\ [StateNext]_stateVars => StateInv'
  BY NextState, Zenon
<1>3. StateInv /\ [StateNext]_stateVars => [A]_stateVars
  <2> SUFFICES ASSUME StateInv, NEW l \in Listers, AllSweep(l),
                      NEW k \in DOMAIN data \ DOMAIN data'
               PROVE  expired(data[k], now)
    BY Zenon
  <2>1. expired(data[k], sweepTime[l])
    BY Zenon DEF AllSweep, Restrict
  <2>2. data[k] \in Nat /\ sweepTime[l] \in Nat /\ now \in Nat /\ sweepTime[l] <= now
    BY DEF StateInv, StateTypeOK
  <2> QED BY <2>1, <2>2 DEF expired
<1> QED BY <1>1, <1>2, <1>3, PTL DEF StateSpec, SweepDropsOnlyExpired

\* THEOREM: no key disappears by itself that never had a ttl, in Get or in All,
\* and All drops no entry that is still valid.
THEOREM RemovalSafe == StateSpec => RemovalIsSafe
  BY UntimedStay, SweepSafe, Zenon DEF RemovalIsSafe

\* THEOREM: the store and the calls in progress keep their types.
THEOREM StateTypeCorrect == StateSpec => []StateTypeOK
<1>1. StateInit => StateInv
  BY InitState, Zenon
<1>2. StateInv /\ [StateNext]_stateVars => StateInv'
  BY NextState, Zenon
<1>3. StateInv => StateTypeOK
  BY Zenon DEF StateInv
<1> QED BY <1>1, <1>2, <1>3, PTL DEF StateSpec

=============================================================================
