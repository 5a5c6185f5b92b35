----------------------------- MODULE LiveProofs -----------------------------
(***************************************************************************)
(* For every number of streams, callers and calls and every buffer size:   *)
(*   SNMPServer  SetMocks never closes a restart channel twice;            *)
(*   Streams     clients see pushes in the order they were accepted and    *)
(*               events in the order of the mock, and the registry finds   *)
(*               the open streams and no ended one.                        *)
(* Each part has its inductive invariant, a lemma for each kind of step and *)
(* the theorems that follow.                                               *)
(***************************************************************************)
EXTENDS SNMPServer, Streams, ListLemmas, SequenceTheorems, TLAPS

\* A leaf that names no prover is tried with these, in this order.
USE SMT, Zenon, SMTT(30)

-----------------------------------------------------------------------------
(* SNMPServer *)

\* The inductive invariant: a channel is replaced before it is closed, so the
\* channels still to be closed are older than the current one, not closed
\* yet, and each in the hands of one caller.
AgentInv ==
    /\ TypeOK
    /\ restart = mocks
    /\ \A n \in 0 .. MaxSets : n >= restart => closes[n] = 0
    /\ \A c \in Callers : closing[c] # None =>
         /\ closing[c] < restart
         /\ closes[closing[c]] = 0
    /\ \A c, d \in Callers : c # d /\ closing[c] # None => closing[c] # closing[d]

\* Every step keeps the invariant.
LEMMA AgentStep ==
    ASSUME AgentInv, [Next]_vars
    PROVE  AgentInv'
<1> USE SNMPServerAssumption DEF AgentInv, TypeOK, None
<1>1. ASSUME NEW c \in Callers, SetMocks(c) PROVE AgentInv'
  <2>1. /\ mocks' = mocks + 1 /\ restart' = restart + 1
        /\ mocks < MaxSets
        /\ closing' = [closing EXCEPT ![c] = restart]
        /\ UNCHANGED <<closes, pc, built, restartCh, bound, serving>>
    BY <1>1, Zenon DEF SetMocks
  <2>2. TypeOK'
    BY <2>1
  <2>3. restart' = mocks' /\ \A n \in 0 .. MaxSets : n >= restart' => closes'[n] = 0
    BY <2>1
  <2>4. ASSUME NEW d \in Callers, closing'[d] # None
        PROVE  closing'[d] < restart' /\ closes'[closing'[d]] = 0
    BY <2>1, <2>4
  <2>5. ASSUME NEW d \in Callers, NEW e \in Callers, d # e, closing'[d] # None
        PROVE  closing'[d] # closing'[e]
    BY <2>1, <2>5
  <2> QED BY <2>2, <2>3, <2>4, <2>5, Zenon
<1>2. ASSUME NEW c \in Callers, SetMocksSignal(c) PROVE AgentInv'
  <2>1. /\ closing[c] \in 0 .. MaxSets /\ closing[c] < restart /\ closes[closing[c]] = 0
        /\ closes' = [closes EXCEPT ![closing[c]] = 1]
        /\ closing' = [closing EXCEPT ![c] = None]
        /\ UNCHANGED <<mocks, restart, pc, built, restartCh, bound, serving>>
    <3>1. closing[c] \in 0 .. MaxSets /\ closing[c] < restart /\ closes[closing[c]] = 0
      BY <1>2, Zenon DEF SetMocksSignal
    <3>2. closes' = [closes EXCEPT ![closing[c]] = closes[closing[c]] + 1]
      BY <1>2, Zenon DEF SetMocksSignal
    <3>3. closes' = [closes EXCEPT ![closing[c]] = 1]
      BY <3>1, <3>2
    <3> QED BY <1>2, <3>1, <3>3, Zenon DEF SetMocksSignal
  <2>2. TypeOK'
    BY <2>1
  <2>3. restart' = mocks' /\ \A n \in 0 .. MaxSets : n >= restart' => closes'[n] = 0
    BY <2>1
  <2>4. ASSUME NEW d \in Callers, closing'[d] # None
        PROVE  closing'[d] < restart' /\ closes'[closing'[d]] = 0
    BY <2>1, <2>4, Zenon
  <2>5. ASSUME NEW d \in Callers, NEW e \in Callers, d # e, closing'[d] # None
        PROVE  closing'[d] # closing'[e]
    BY <2>1, <2>5, Zenon
  <2> QED BY <2>2, <2>3, <2>4, <2>5, Zenon
<1>3. ASSUME Start \/ serveForeverFails
      PROVE  TypeOK' /\ UNCHANGED <<mocks, restart, closing, closes>>
  <2>1. UNCHANGED <<mocks, restart, closing, closes>>
    BY <1>3, Zenon DEF Start, buildAndListen, listenUDP, Capture, StartCancelled,
       StartRestart, StartServeError, serveForeverFails
  <2>2. bound' \in BOOLEAN
    BY <1>3, Zenon DEF Start, buildAndListen, listenUDP, Capture, StartCancelled,
       StartRestart, StartServeError, serveForeverFails
  <2>3. /\ pc' \in {"build", "listen", "capture", "select", "portTaken", "returned"}
        /\ built' \in 0 .. MaxSets \cup {None}
        /\ restartCh' \in 0 .. MaxSets \cup {None}
        /\ serving' \in {"no", "running", "failed"}
    BY <1>3, Zenon DEF Start, buildAndListen, listenUDP, Capture, StartCancelled,
       StartRestart, StartServeError, serveForeverFails
  <2> QED BY <2>1, <2>2, <2>3, Zenon
<1>4. CASE Start \/ serveForeverFails
  BY <1>3, <1>4
<1>5. CASE UNCHANGED vars
  BY <1>5, Zenon DEF vars
<1> QED BY <1>1, <1>2, <1>4, <1>5, Zenon DEF Next

\* THEOREM: the server keeps its types, and closes every restart channel at
\* most once, so overlapping SetMocks calls cannot panic.
THEOREM SNMPTypeCorrect == Spec => []TypeOK
<1>1. Init => AgentInv
  <2> SUFFICES ASSUME Init PROVE AgentInv
    BY Zenon
  <2>1. \A c \in Callers : closing[c] = None
    BY Zenon DEF Init
  <2>2. closes \in [0 .. MaxSets -> 0 .. 1] /\ \A n \in 0 .. MaxSets : closes[n] = 0
    BY DEF Init
  <2>3. closing \in [Callers -> 0 .. MaxSets \cup {None}]
    BY Zenon DEF Init
  <2>4. TypeOK
    <3>1. bound \in BOOLEAN
      BY Zenon DEF Init
    <3>2. mocks \in 0 .. MaxSets /\ restart \in 0 .. MaxSets
      BY SNMPServerAssumption DEF Init
    <3>3. /\ pc \in {"build", "listen", "capture", "select", "portTaken", "returned"}
          /\ built = None /\ restartCh = None /\ serving \in {"no", "running", "failed"}
      BY Zenon DEF Init
    <3> QED BY <2>2, <2>3, <3>1, <3>2, <3>3, Zenon DEF TypeOK
  <2> QED BY <2>1, <2>2, <2>4, Zenon DEF Init, AgentInv
<1>2. AgentInv /\ [Next]_vars => AgentInv'
  BY AgentStep, Zenon
<1>3. AgentInv => TypeOK
  BY Zenon DEF AgentInv
<1> QED BY <1>1, <1>2, <1>3, PTL DEF Spec

-----------------------------------------------------------------------------
(* Streams *)

Labels == {"idle", "plain", "starting", "loop", "ending", "cleanup", "ended"}

\* What the API may have asked for.
Calls == [op : {"push", "close", "abort"}, data : Nat, todo : SUBSET Streams]

StreamTypes ==
    /\ mockID \in [Streams -> Mocks \cup {NoMock}]
    /\ at \in [Streams -> Labels]
    /\ idx \in [Streams -> Nat]
    /\ timer \in [Streams -> {"off", "running", "fired"}]
    /\ pushCh \in [Streams -> Seq(Nat)]
    /\ closeCh \in [Streams -> Seq({0, 1})]
    /\ pushed \in [Streams -> Seq(Nat)]
    /\ events \in [Streams -> Seq(Nat)]
    /\ accepted \in [Streams -> Seq(Nat)]
    /\ apiCall \in [APICallers -> {NoCall} \cup Calls]
    /\ calls \in Nat

LengthOf(m) == IF m = NoMock THEN 0 ELSE Len(Events[m])

\* What holds of one stream: its mock, label, index and timer, its channels,
\* and what was written and accepted.
Sound(m, a, i, tm, pch, cch, ps, es, ac) ==
    /\ a = "idle" <=> m = NoMock
    /\ a \in {"idle", "starting"} =>
         i = 0 /\ pch = << >> /\ ps = << >> /\ es = << >> /\ ac = << >>
    /\ a \in {"starting", "cleanup"} => m # NoMock /\ Protocol[m] = "graphql"
    /\ tm # "off" => a = "loop" /\ i < LengthOf(m)
    /\ i <= LengthOf(m)
    /\ Len(pch) <= PushCap /\ Len(cch) <= 1
    /\ Len(ps) <= Len(ac) /\ \A j \in DOMAIN ps : ps[j] = ac[j]
    /\ a = "loop" => ac = ps \o pch
    /\ \A j \in DOMAIN es : es[j] = j
    /\ a \in {"plain", "loop"} => Len(es) = i

SoundStream(s) ==
    Sound(mockID[s], at[s], idx[s], timer[s], pushCh[s], closeCh[s],
          pushed[s], events[s], accepted[s])

\* The registry and the active subscriptions: their entries, the targets of API
\* calls, and the streams that can be found there, which are those that share
\* their id with no other.
OfGraphQL(m) == m # NoMock /\ Protocol[m] = "graphql"
ConnOf(m, s) == IF OfGraphQL(m) THEN 0 ELSE s
Holds(f, k, v) == k \in DOMAIN f /\ f[k] = v
Alone(ms, ls, s) ==
    \A t \in Streams \ {s} : ls[t] = "idle" \/ ConnOf(ms[t], t) # ConnOf(ms[s], s)

Registered ==
    /\ gone \in [Streams -> BOOLEAN]
    /\ \A id \in DOMAIN conns : /\ conns[id] \in Streams
                                /\ ConnOf(mockID[conns[id]], conns[id]) = id
                                /\ at[conns[id]] \in {"loop", "ending"}
    /\ \A id \in DOMAIN active : /\ active[id] \in Streams
                                 /\ ConnOf(mockID[active[id]], active[id]) = id
                                 /\ at[active[id]] # "idle"
    /\ \A c \in APICallers : \A s \in apiCall[c].todo :
         at[s] \in {"loop", "ending", "cleanup", "ended"}
    /\ \A s \in Streams : Alone(mockID, at, s) =>
         /\ at[s] = "loop" => Holds(conns, ConnOf(mockID[s], s), s)
         /\ (OfGraphQL(mockID[s]) /\ at[s] \in {"starting", "loop"} /\ ~gone[s])
              => Holds(active, ConnOf(mockID[s], s), s)

\* The inductive invariant.
StreamInv == StreamTypes /\ (\A s \in Streams : SoundStream(s)) /\ Registered

-----------------------------------------------------------------------------
\* A step gives stream s these values and leaves the other streams alone.
Becomes(s, a, i, tm, pch, cch, ps, es, ac) ==
    /\ mockID' = mockID
    /\ at' = [at EXCEPT ![s] = a]
    /\ idx' = [idx EXCEPT ![s] = i]
    /\ timer' = [timer EXCEPT ![s] = tm]
    /\ pushCh' = [pushCh EXCEPT ![s] = pch]
    /\ closeCh' = [closeCh EXCEPT ![s] = cch]
    /\ pushed' = [pushed EXCEPT ![s] = ps]
    /\ events' = [events EXCEPT ![s] = es]
    /\ accepted' = [accepted EXCEPT ![s] = ac]

Typed(a, i, tm, pch, cch, ps, es, ac) ==
    /\ a \in Labels /\ i \in Nat /\ tm \in {"off", "running", "fired"}
    /\ pch \in Seq(Nat) /\ cch \in Seq({0, 1})
    /\ ps \in Seq(Nat) /\ es \in Seq(Nat) /\ ac \in Seq(Nat)

LEMMA BecomesSound ==
    ASSUME StreamTypes, \A t \in Streams : SoundStream(t), NEW s \in Streams,
           NEW a, NEW i, NEW tm, NEW pch, NEW cch, NEW ps, NEW es, NEW ac,
           Becomes(s, a, i, tm, pch, cch, ps, es, ac),
           Typed(a, i, tm, pch, cch, ps, es, ac),
           Sound(mockID[s], a, i, tm, pch, cch, ps, es, ac),
           apiCall' \in [APICallers -> {NoCall} \cup Calls], calls' \in Nat
    PROVE  StreamTypes' /\ \A t \in Streams : SoundStream(t)'
<1>1. StreamTypes'
  BY Zenon DEF StreamTypes, Becomes, Typed
<1>2. ASSUME NEW t \in Streams PROVE SoundStream(t)'
  <2>1. CASE t = s
    <3>1. /\ mockID'[t] = mockID[s] /\ at'[t] = a /\ idx'[t] = i /\ timer'[t] = tm
          /\ pushCh'[t] = pch /\ closeCh'[t] = cch /\ pushed'[t] = ps
          /\ events'[t] = es /\ accepted'[t] = ac
      BY <2>1, Zenon DEF StreamTypes, Becomes
    <3> QED BY <3>1, Zenon DEF SoundStream
  <2>2. CASE t # s
    <3>1. /\ mockID'[t] = mockID[t] /\ at'[t] = at[t] /\ idx'[t] = idx[t]
          /\ timer'[t] = timer[t] /\ pushCh'[t] = pushCh[t] /\ closeCh'[t] = closeCh[t]
          /\ pushed'[t] = pushed[t] /\ events'[t] = events[t] /\ accepted'[t] = accepted[t]
      BY <2>2, Zenon DEF StreamTypes, Becomes
    <3> QED BY <3>1, Zenon DEF SoundStream
  <2> QED BY <2>1, <2>2, Zenon
<1> QED BY <1>1, <1>2, Zenon

\* A push is written: the head of the buffer goes to the client.
LEMMA WritesPush ==
    ASSUME NEW m, NEW i, NEW tm, NEW new, NEW pch \in Seq(Nat), NEW cch,
           NEW ps \in Seq(Nat), NEW es, NEW ac \in Seq(Nat), pch # << >>,
           Sound(m, "loop", i, tm, pch, cch, ps, es, ac),
           new # "off" => i < LengthOf(m)
    PROVE  Sound(m, "loop", i, new, Tail(pch), cch, Append(ps, Head(pch)), es, ac)
<1> DEFINE qs == Append(ps, Head(pch))
           rest == Tail(pch)
<1>1. /\ qs \in Seq(Nat) /\ rest \in Seq(Nat) /\ Len(rest) = Len(pch) - 1
      /\ Len(pch) \in Nat /\ PushCap \in Nat
  BY StreamsAssumption
<1>2. ac = qs \o rest
  BY MoveHead, Zenon DEF Sound
<1> HIDE DEF qs, rest
<1>3. Len(qs) <= Len(ac) /\ \A j \in DOMAIN qs : qs[j] = ac[j]
  <2>1. qs \in Seq(Nat) /\ rest \in Seq(Nat)
    BY <1>1, Zenon
  <2>2. Len(qs) <= Len(qs \o rest) /\ \A j \in DOMAIN qs : qs[j] = (qs \o rest)[j]
    BY ONLY <2>1
  <2> QED BY <1>2, <2>2, Zenon
<1>4. Len(rest) <= PushCap
  BY <1>1 DEF Sound
<1> QED BY <1>2, <1>3, <1>4, Zenon DEF Sound, qs, rest

LEMMA AppendToConcat ==
    \A a, b \in Seq(Nat) : \A e \in Nat : Append(a \o b, e) = a \o Append(b, e)
<1>1. SUFFICES ASSUME NEW a \in Seq(Nat), NEW b \in Seq(Nat), NEW e \in Nat
               PROVE  Append(a \o b, e) = a \o Append(b, e)
  BY Zenon
<1>2. a \o b \in Seq(Nat) /\ <<e>> \in Seq(Nat)
  OBVIOUS
<1>3. (a \o b) \o <<e>> = a \o (b \o <<e>>)
  BY <1>2, ConcatAssociative
<1> QED BY <1>2, <1>3, AppendIsConcat, Zenon

\* A push is accepted: it goes to the end of the buffer.
LEMMA AcceptsPush ==
    ASSUME NEW m, NEW a \in {"loop", "ending", "cleanup", "ended"}, NEW i, NEW tm,
           NEW pch \in Seq(Nat), NEW cch, NEW ps \in Seq(Nat), NEW es,
           NEW ac \in Seq(Nat), NEW d \in Nat, Len(pch) < PushCap,
           Sound(m, a, i, tm, pch, cch, ps, es, ac)
    PROVE  Sound(m, a, i, tm, Append(pch, d), cch, ps, es, Append(ac, d))
<1> DEFINE bc == Append(ac, d)
           qch == Append(pch, d)
<1>1. /\ bc \in Seq(Nat) /\ Len(bc) = Len(ac) + 1 /\ \A j \in 1 .. Len(ac) : bc[j] = ac[j]
      /\ qch \in Seq(Nat) /\ Len(qch) = Len(pch) + 1
      /\ Len(ps) \in Nat /\ Len(ac) \in Nat /\ Len(pch) \in Nat /\ PushCap \in Nat
  BY StreamsAssumption
<1>2. ac = ps \o pch => bc = ps \o qch
  <2>1. Append(ps \o pch, d) = ps \o Append(pch, d)
    BY AppendToConcat, Zenon
  <2> QED BY <2>1, Zenon
<1> HIDE DEF bc, qch
<1>3. Len(ps) <= Len(bc) /\ \A j \in DOMAIN ps : ps[j] = bc[j]
  <2>1. Len(ps) <= Len(ac) /\ \A j \in DOMAIN ps : ps[j] = ac[j]
    BY Zenon DEF Sound
  <2>2. DOMAIN ps = 1 .. Len(ps)
    OBVIOUS
  <2>3. Len(ps) <= Len(bc)
    BY <1>1, <2>1
  <2>4. ASSUME NEW j \in DOMAIN ps PROVE ps[j] = bc[j]
    <3>1. j \in 1 .. Len(ac)
      BY <1>1, <2>1, <2>2
    <3> QED BY <1>1, <2>1, <3>1, Zenon
  <2> QED BY <2>3, <2>4, Zenon
<1>4. Len(qch) <= PushCap
  BY <1>1
<1>5. a \notin {"idle", "starting"}
  BY Zenon
<1>6. Sound(m, a, i, tm, qch, cch, ps, es, bc)
  BY <1>2, <1>3, <1>4, <1>5, Zenon DEF Sound
<1> QED BY <1>6, Zenon DEF bc, qch

\* A configured event is written.
LEMMA WritesEvent ==
    ASSUME NEW m, NEW a \in {"plain", "loop"}, NEW i \in Nat, NEW tm, NEW new, NEW pch,
           NEW cch, NEW ps, NEW es \in Seq(Nat), NEW ac, i < LengthOf(m), LengthOf(m) \in Nat,
           Sound(m, a, i, tm, pch, cch, ps, es, ac),
           new # "off" => a = "loop" /\ i + 1 < LengthOf(m)
    PROVE  Sound(m, a, i + 1, new, pch, cch, ps, Append(es, i + 1), ac)
<1> DEFINE fs == Append(es, i + 1)
           k == i + 1
<1>1. Len(es) = i
  BY Zenon DEF Sound
<1>2. fs \in Seq(Nat) /\ Len(fs) = k /\ \A j \in DOMAIN fs : fs[j] = j
  BY <1>1 DEF Sound
<1>3. k <= LengthOf(m)
  OBVIOUS
<1> HIDE DEF fs, k
<1> QED BY <1>2, <1>3, Zenon DEF Sound, fs, k

\* A loop returns, with the buffers it leaves behind.
LEMMA LeavesLoop ==
    ASSUME NEW m, NEW i, NEW j, NEW tm, NEW pch, NEW qch, NEW cch, NEW dch, NEW ps, NEW es,
           NEW ac, Sound(m, "loop", i, tm, pch, cch, ps, es, ac),
           j <= LengthOf(m), Len(qch) <= PushCap, Len(dch) <= 1
    PROVE  Sound(m, "ending", j, "off", qch, dch, ps, es, ac)
BY Zenon DEF Sound

\* What every step needs of the stream it moves.
LEMMA Fields ==
    ASSUME StreamTypes, NEW s \in Streams
    PROVE  /\ Typed(at[s], idx[s], timer[s], pushCh[s], closeCh[s], pushed[s], events[s],
                    accepted[s])
           /\ mockID[s] \in Mocks \cup {NoMock} /\ LengthOf(mockID[s]) \in Nat
           /\ Length(s) = LengthOf(mockID[s])
           /\ idx[s] \in Nat
<1>1. Length(s) = LengthOf(mockID[s])
  BY Zenon DEF Length, LengthOf
<1>2. mockID[s] \in Mocks \cup {NoMock}
  BY Zenon DEF StreamTypes
<1>3. LengthOf(mockID[s]) \in Nat
  <2>1. CASE mockID[s] = NoMock
    BY <2>1, Zenon DEF LengthOf
  <2>2. CASE mockID[s] # NoMock
    <3>1. Events[mockID[s]] \in Seq({"ok", "bad", "unsendable"})
      BY <1>2, <2>2, StreamsAssumption, Zenon
    <3> QED BY <2>2, <3>1 DEF LengthOf
  <2> QED BY <2>1, <2>2, Zenon
<1>4. Typed(at[s], idx[s], timer[s], pushCh[s], closeCh[s], pushed[s], events[s], accepted[s])
  BY Zenon DEF StreamTypes, Typed
<1> QED BY <1>1, <1>2, <1>3, <1>4, Zenon DEF Typed

\* The stream s and what the loop leaves alone.
LEMMA SelfUpdates ==
    ASSUME StreamTypes, NEW s \in Streams
    PROVE  /\ at = [at EXCEPT ![s] = at[s]] /\ idx = [idx EXCEPT ![s] = idx[s]]
           /\ timer = [timer EXCEPT ![s] = timer[s]]
           /\ pushCh = [pushCh EXCEPT ![s] = pushCh[s]]
           /\ closeCh = [closeCh EXCEPT ![s] = closeCh[s]]
           /\ pushed = [pushed EXCEPT ![s] = pushed[s]]
           /\ events = [events EXCEPT ![s] = events[s]]
           /\ accepted = [accepted EXCEPT ![s] = accepted[s]]
BY Zenon DEF StreamTypes

\* The streams after a step that gives s sound values.
SoundAfter == StreamTypes' /\ \A t \in Streams : SoundStream(t)'

\* How far the step of one stream takes it.
Moves(s) ==
    /\ \A t \in Streams \ {s} : at'[t] = at[t]
    /\ \/ at'[s] = at[s]
       \/ at[s] = "loop" /\ at'[s] = "ending"
       \/ at[s] = "plain" /\ at'[s] = "ended"

\* The context is done, or a close is taken: the loop returns.
LEMMA ReturnSound ==
    ASSUME StreamTypes, \A t \in Streams : SoundStream(t), NEW s \in Streams, NEW e, NEW m,
           at[s] = "loop", mockID' = mockID, UNCHANGED api,
           CtxDone(s, e) \/ TakeClose(s, m, e)
    PROVE  SoundAfter /\ Moves(s)
<1>1. /\ Typed(at[s], idx[s], timer[s], pushCh[s], closeCh[s], pushed[s], events[s], accepted[s])
      /\ SoundStream(s)
  BY Fields, Zenon
<1>2. PICK cch \in {<< >>, closeCh[s]} :
        Becomes(s, "ending", idx[s], "off", pushCh[s], cch, pushed[s], events[s], accepted[s])
  <2>1. CASE CtxDone(s, e)
    <3>1. Becomes(s, "ending", idx[s], "off", pushCh[s], closeCh[s], pushed[s], events[s], accepted[s])
      BY <2>1, SelfUpdates, Zenon DEF CtxDone, LoopReturns, Goto, Becomes, chans, wire
    <3> QED BY <3>1, Zenon
  <2>2. CASE TakeClose(s, m, e)
    <3>1. Becomes(s, "ending", idx[s], "off", pushCh[s], << >>, pushed[s], events[s], accepted[s])
      BY <2>2, SelfUpdates, Zenon DEF TakeClose, LoopReturns, Goto, Becomes, WriteLast
    <3> QED BY <3>1, Zenon
  <2> QED BY <2>1, <2>2, Zenon
<1>3. cch \in Seq({0, 1}) /\ Len(cch) <= 1
  <2>1. closeCh[s] \in Seq({0, 1}) /\ Len(closeCh[s]) <= 1
    BY <1>1, Zenon DEF Typed, SoundStream, Sound
  <2>2. << >> \in Seq({0, 1}) /\ Len(<< >>) <= 1
    OBVIOUS
  <2> QED BY <1>2, <2>1, <2>2, Zenon
<1>4. Sound(mockID[s], "ending", idx[s], "off", pushCh[s], cch, pushed[s], events[s], accepted[s])
  BY <1>1, <1>3, Zenon DEF SoundStream, Sound
<1>5. Typed("ending", idx[s], "off", pushCh[s], cch, pushed[s], events[s], accepted[s])
  BY <1>1, <1>3, Zenon DEF Typed, Labels
<1>6. apiCall' \in [APICallers -> {NoCall} \cup Calls] /\ calls' \in Nat
  BY Zenon DEF api, StreamTypes
<1>7. SoundAfter
  BY <1>2, <1>4, <1>5, <1>6, BecomesSound, Zenon DEF SoundAfter
<1> QED BY <1>2, <1>7, Zenon DEF Becomes, Moves, StreamTypes

\* A step of one stream that leaves it sound.
LEMMA StepSound ==
    ASSUME StreamTypes, \A t \in Streams : SoundStream(t), NEW s \in Streams,
           NEW a, NEW i, NEW tm, NEW pch, NEW cch, NEW ps, NEW es, NEW ac,
           Becomes(s, a, i, tm, pch, cch, ps, es, ac),
           Typed(a, i, tm, pch, cch, ps, es, ac),
           Sound(mockID[s], a, i, tm, pch, cch, ps, es, ac), UNCHANGED api,
           \/ a = at[s]
           \/ at[s] = "loop" /\ a = "ending"
           \/ at[s] = "plain" /\ a = "ended"
    PROVE  SoundAfter /\ Moves(s)
<1>1. apiCall' \in [APICallers -> {NoCall} \cup Calls] /\ calls' \in Nat
  BY Zenon DEF api, StreamTypes
<1>2. SoundAfter
  BY <1>1, BecomesSound, Zenon DEF SoundAfter
<1>3. Moves(s)
  BY Zenon DEF Becomes, Moves, StreamTypes
<1> QED BY <1>2, <1>3, Zenon

\* A push is written, or the loop returns because the client left.
LEMMA TakePushSound ==
    ASSUME StreamTypes, \A t \in Streams : SoundStream(t), NEW s \in Streams,
           at[s] = "loop", mockID' = mockID, UNCHANGED api, TakePush(s)
    PROVE  SoundAfter /\ Moves(s)
<1>1. /\ Typed(at[s], idx[s], timer[s], pushCh[s], closeCh[s], pushed[s], events[s], accepted[s])
      /\ SoundStream(s) /\ Length(s) = LengthOf(mockID[s]) /\ LengthOf(mockID[s]) \in Nat
  BY Fields, Zenon
<1>2. pushCh[s] \in Seq(Nat) /\ pushCh[s] # << >> /\ pushed[s] \in Seq(Nat) /\ accepted[s] \in Seq(Nat)
  BY <1>1, Zenon DEF TakePush, Typed
<1>3. /\ Tail(pushCh[s]) \in Seq(Nat) /\ Len(Tail(pushCh[s])) <= PushCap
      /\ Append(pushed[s], Head(pushCh[s])) \in Seq(Nat)
  <2>1. Len(pushCh[s]) <= PushCap
    BY <1>1, Zenon DEF SoundStream, Sound
  <2>2. Len(pushCh[s]) \in Nat /\ Len(Tail(pushCh[s])) = Len(pushCh[s]) - 1 /\ PushCap \in Nat
    BY <1>2, StreamsAssumption
  <2>3. Tail(pushCh[s]) \in Seq(Nat) /\ Append(pushed[s], Head(pushCh[s])) \in Seq(Nat)
    BY <1>2
  <2> QED BY <2>1, <2>2, <2>3
<1>4. CASE SendFails(s)
  <2>1. Becomes(s, "ending", idx[s], "off", Tail(pushCh[s]), closeCh[s], pushed[s], events[s],
                accepted[s])
    BY <1>4, SelfUpdates, Zenon DEF TakePush, LoopReturns, Goto, Becomes, wire
  <2>2. Typed("ending", idx[s], "off", Tail(pushCh[s]), closeCh[s], pushed[s], events[s], accepted[s])
    BY <1>1, <1>3, Zenon DEF Typed, Labels
  <2>3. Sound(mockID[s], "ending", idx[s], "off", Tail(pushCh[s]), closeCh[s], pushed[s], events[s],
              accepted[s])
    <3>1. idx[s] <= LengthOf(mockID[s]) /\ Len(closeCh[s]) <= 1
      BY <1>1, Zenon DEF SoundStream, Sound
    <3>2. Sound(mockID[s], "loop", idx[s], timer[s], pushCh[s], closeCh[s], pushed[s], events[s],
                accepted[s])
      BY <1>1, Zenon DEF SoundStream
    <3> QED BY <1>3, <3>1, <3>2, LeavesLoop, Zenon
  <2> QED BY <2>1, <2>2, <2>3, StepSound, Zenon
<1>5. CASE ~SendFails(s)
  <2>1. PICK tm \in {"off", "running"} :
          /\ timer' = [timer EXCEPT ![s] = tm]
          /\ tm # "off" => idx[s] < Length(s)
    BY <1>5, Zenon DEF TakePush, Arm
  <2>2. Becomes(s, "loop", idx[s], tm, Tail(pushCh[s]), closeCh[s],
                Append(pushed[s], Head(pushCh[s])), events[s], accepted[s])
    BY <1>5, <2>1, SelfUpdates, Zenon DEF TakePush, WritePush, Becomes
  <2>3. Typed("loop", idx[s], tm, Tail(pushCh[s]), closeCh[s],
              Append(pushed[s], Head(pushCh[s])), events[s], accepted[s])
    BY <1>1, <1>3, <2>1, Zenon DEF Typed, Labels
  <2>4. Sound(mockID[s], "loop", idx[s], tm, Tail(pushCh[s]), closeCh[s],
              Append(pushed[s], Head(pushCh[s])), events[s], accepted[s])
    <3>1. Sound(mockID[s], "loop", idx[s], timer[s], pushCh[s], closeCh[s], pushed[s], events[s],
                accepted[s])
      BY <1>1, Zenon DEF SoundStream
    <3> QED BY <1>1, <1>2, <2>1, <3>1, WritesPush, Zenon
  <2> QED BY <2>2, <2>3, <2>4, StepSound, Zenon
<1> QED BY <1>4, <1>5, Zenon

\* A configured event has one of the three outcomes.
LEMMA EventOutcomes ==
    ASSUME StreamTypes, NEW s \in Streams, idx[s] < Length(s)
    PROVE  Outcome(s) \in {"ok", "bad", "unsendable"}
<1>1. mockID[s] \in Mocks /\ idx[s] < Len(Events[mockID[s]]) /\ idx[s] \in Nat
  BY Fields DEF Length
<1>2. Events[mockID[s]] \in Seq({"ok", "bad", "unsendable"})
  BY <1>1, StreamsAssumption, Zenon
<1>3. Events[mockID[s]][idx[s] + 1] \in {"ok", "bad", "unsendable"}
  <2>1. idx[s] + 1 \in 1 .. Len(Events[mockID[s]])
    BY <1>1, <1>2
  <2> QED BY <1>2, <2>1, ElementOfSeq, Zenon
<1> QED BY <1>3, Zenon DEF Outcome

\* An event of a kept-open stream is written or ends the stream.
LEMMA SendEventSound ==
    ASSUME StreamTypes, \A t \in Streams : SoundStream(t), NEW s \in Streams, NEW e,
           at[s] = "loop", mockID' = mockID, UNCHANGED api, idx[s] < Length(s),
           SendEvent(s, e)
    PROVE  SoundAfter /\ Moves(s)
<1>1. /\ Typed(at[s], idx[s], timer[s], pushCh[s], closeCh[s], pushed[s], events[s], accepted[s])
      /\ SoundStream(s) /\ Length(s) = LengthOf(mockID[s]) /\ LengthOf(mockID[s]) \in Nat
      /\ idx[s] \in Nat
  BY Fields, Zenon
<1>2. Outcome(s) \in {"ok", "bad", "unsendable"}
  BY EventOutcomes, Zenon
<1>3. Sound(mockID[s], "loop", idx[s], timer[s], pushCh[s], closeCh[s], pushed[s], events[s],
            accepted[s])
  BY <1>1, Zenon DEF SoundStream
<1>4. idx[s] + 1 \in Nat /\ idx[s] + 1 <= LengthOf(mockID[s]) /\ idx[s] < LengthOf(mockID[s])
  BY <1>1
<1>5. CASE Outcome(s) = "ok"
  <2>1. PICK tm \in {"off", "running"} :
          /\ timer' = [timer EXCEPT ![s] = tm]
          /\ tm # "off" => idx[s] + 1 < Length(s)
    BY <1>5, Zenon DEF SendEvent, Arm
  <2>2. Becomes(s, "loop", idx[s] + 1, tm, pushCh[s], closeCh[s], pushed[s],
                Append(events[s], idx[s] + 1), accepted[s])
    BY <1>5, <2>1, SelfUpdates, Zenon DEF SendEvent, WriteEvent, Becomes, chans
  <2>3. events[s] \in Seq(Nat) /\ Append(events[s], idx[s] + 1) \in Seq(Nat)
    BY <1>1, <1>4 DEF Typed
  <2>4. Typed("loop", idx[s] + 1, tm, pushCh[s], closeCh[s], pushed[s],
              Append(events[s], idx[s] + 1), accepted[s])
    BY <1>1, <1>4, <2>1, <2>3, Zenon DEF Typed, Labels
  <2>5. Sound(mockID[s], "loop", idx[s] + 1, tm, pushCh[s], closeCh[s], pushed[s],
              Append(events[s], idx[s] + 1), accepted[s])
    BY <1>1, <1>3, <1>4, <2>1, <2>3, WritesEvent, Zenon
  <2> QED BY <2>2, <2>4, <2>5, StepSound, Zenon
<1>6. CASE Outcome(s) # "ok"
  <2>1. Becomes(s, "ending", idx[s] + 1, "off", pushCh[s], closeCh[s], pushed[s], events[s],
                accepted[s])
    BY <1>2, <1>6, SelfUpdates, Zenon DEF SendEvent, WriteLast, LoopReturns, Goto, Becomes, chans, wire
  <2>2. Typed("ending", idx[s] + 1, "off", pushCh[s], closeCh[s], pushed[s], events[s], accepted[s])
    BY <1>1, <1>4, Zenon DEF Typed, Labels
  <2>3. Sound(mockID[s], "ending", idx[s] + 1, "off", pushCh[s], closeCh[s], pushed[s], events[s],
              accepted[s])
    <3>1. Len(pushCh[s]) <= PushCap /\ Len(closeCh[s]) <= 1
      BY <1>3, Zenon DEF Sound
    <3> QED BY <1>3, <1>4, <3>1, LeavesLoop, Zenon
  <2> QED BY <2>1, <2>2, <2>3, StepSound, Zenon
<1> QED BY <1>5, <1>6, Zenon

\* The events of a stream that is not kept open, and its end.
LEMMA PlainSound ==
    ASSUME StreamTypes, \A t \in Streams : SoundStream(t), NEW s \in Streams, NEW e,
           at[s] = "plain", mockID' = mockID, UNCHANGED api, UNCHANGED <<timer, chans>>,
           PlainSend(s, e) \/ PlainEnd(s, e)
    PROVE  SoundAfter /\ Moves(s)
<1>1. /\ Typed(at[s], idx[s], timer[s], pushCh[s], closeCh[s], pushed[s], events[s], accepted[s])
      /\ SoundStream(s) /\ Length(s) = LengthOf(mockID[s]) /\ LengthOf(mockID[s]) \in Nat
      /\ idx[s] \in Nat
  BY Fields, Zenon
<1>2. Sound(mockID[s], "plain", idx[s], timer[s], pushCh[s], closeCh[s], pushed[s], events[s],
            accepted[s])
  BY <1>1, Zenon DEF SoundStream
<1>3. CASE PlainSend(s, e)
  <2>1. Outcome(s) \in {"ok", "bad", "unsendable"}
    BY <1>3, EventOutcomes, Zenon DEF PlainSend
  <2>2. idx[s] + 1 \in Nat /\ idx[s] + 1 <= LengthOf(mockID[s]) /\ idx[s] < LengthOf(mockID[s])
    BY <1>1, <1>3 DEF PlainSend
  <2>5. timer[s] = "off"
    BY <1>2, Zenon DEF Sound
  <2>3. CASE Outcome(s) = "ok"
    <3>2. Becomes(s, "plain", idx[s] + 1, timer[s], pushCh[s], closeCh[s], pushed[s],
                  Append(events[s], idx[s] + 1), accepted[s])
      BY <1>3, <2>3, SelfUpdates, Zenon DEF PlainSend, WriteEvent, Becomes, chans
    <3>3. events[s] \in Seq(Nat) /\ Append(events[s], idx[s] + 1) \in Seq(Nat)
      BY <1>1, <2>2 DEF Typed
    <3>4. Typed("plain", idx[s] + 1, timer[s], pushCh[s], closeCh[s], pushed[s],
                Append(events[s], idx[s] + 1), accepted[s])
      BY <1>1, <2>2, <3>3, Zenon DEF Typed, Labels
    <3>5. Sound(mockID[s], "plain", idx[s] + 1, timer[s], pushCh[s], closeCh[s], pushed[s],
                Append(events[s], idx[s] + 1), accepted[s])
      BY <1>1, <1>2, <2>2, <2>5, <3>3, WritesEvent, Zenon
    <3> QED BY <3>2, <3>4, <3>5, StepSound, Zenon
  <2>4. CASE Outcome(s) # "ok"
    <3>1. Becomes(s, "ended", idx[s] + 1, timer[s], pushCh[s], closeCh[s], pushed[s], events[s],
                  accepted[s])
      BY <1>3, <2>1, <2>4, SelfUpdates, Zenon DEF PlainSend, WriteLast, Goto, Becomes, chans, wire
    <3>2. Typed("ended", idx[s] + 1, timer[s], pushCh[s], closeCh[s], pushed[s], events[s],
                accepted[s])
      BY <1>1, <2>2, Zenon DEF Typed, Labels
    <3>3. Sound(mockID[s], "ended", idx[s] + 1, timer[s], pushCh[s], closeCh[s], pushed[s],
                events[s], accepted[s])
      BY <1>2, <2>2, <2>5, Zenon DEF Sound
    <3> QED BY <3>1, <3>2, <3>3, StepSound, Zenon
  <2> QED BY <2>3, <2>4, Zenon
<1>4. CASE PlainEnd(s, e)
  <2>1. Becomes(s, "ended", idx[s], timer[s], pushCh[s], closeCh[s], pushed[s], events[s],
                accepted[s])
    BY <1>4, SelfUpdates, Zenon DEF PlainEnd, Goto, Becomes, chans, wire
  <2>2. Typed("ended", idx[s], timer[s], pushCh[s], closeCh[s], pushed[s], events[s], accepted[s])
    BY <1>1, Zenon DEF Typed, Labels
  <2>3. Sound(mockID[s], "ended", idx[s], timer[s], pushCh[s], closeCh[s], pushed[s], events[s],
              accepted[s])
    BY <1>2, Zenon DEF Sound
  <2> QED BY <2>1, <2>2, <2>3, StepSound, Zenon
<1> QED BY <1>3, <1>4, Zenon

-----------------------------------------------------------------------------
\* The targets of an API call are streams.
LEMMA TodoTyped ==
    ASSUME StreamTypes, NEW c \in APICallers
    PROVE  /\ apiCall[c].todo \subseteq Streams
           /\ apiCall[c].todo # {} => apiCall[c] \in Calls
<1>1. apiCall[c] = NoCall \/ apiCall[c] \in Calls
  BY Zenon DEF StreamTypes
<1>2. CASE apiCall[c] = NoCall
  <2>1. NoCall.todo = {}
    BY Zenon DEF NoCall
  <2> QED BY <1>2, <2>1, Zenon
<1>3. CASE apiCall[c] \in Calls
  BY <1>3, Zenon DEF Calls
<1> QED BY <1>1, <1>2, <1>3, Zenon

\* What a step that leaves both maps and the API's calls alone does to them.
LEMMA RegistryFrame ==
    ASSUME StreamTypes, Registered, NEW s \in Streams, Moves(s),
           UNCHANGED <<conns, active, mockID, apiCall>>, gone' \in [Streams -> BOOLEAN],
           \A t \in Streams : gone[t] => gone'[t]
    PROVE  Registered'
<1>2. ASSUME NEW t \in Streams
      PROVE  /\ at'[t] = "idle" <=> at[t] = "idle"
             /\ at'[t] \in {"starting", "loop"} => at'[t] = at[t]
             /\ at[t] \in {"loop", "ending"} => at'[t] \in {"loop", "ending"}
             /\ at[t] \in {"loop", "ending", "cleanup", "ended"}
                  => at'[t] \in {"loop", "ending", "cleanup", "ended"}
  BY Zenon DEF Moves
<1>3. ASSUME NEW t \in Streams, Alone(mockID, at', t) PROVE Alone(mockID, at, t)
  BY <1>2, <1>3, Zenon DEF Alone
<1>4. \A t \in Streams : Alone(mockID, at', t) =>
         /\ at'[t] = "loop" => Holds(conns, ConnOf(mockID[t], t), t)
         /\ (OfGraphQL(mockID[t]) /\ at'[t] \in {"starting", "loop"} /\ ~gone'[t])
              => Holds(active, ConnOf(mockID[t], t), t)
  BY <1>2, <1>3, Zenon DEF Registered
<1>5. \A id \in DOMAIN conns : conns[id] \in Streams /\ at'[conns[id]] \in {"loop", "ending"}
  BY <1>2, Zenon DEF Registered
<1>6. \A id \in DOMAIN active : active[id] \in Streams /\ at'[active[id]] # "idle"
  BY <1>2 DEF Registered
<1>7. \A c \in APICallers : \A t \in apiCall[c].todo :
         at'[t] \in {"loop", "ending", "cleanup", "ended"}
  <2>1. \A c \in APICallers : apiCall[c].todo \subseteq Streams
    BY TodoTyped, Zenon
  <2> QED BY <1>2, <2>1, Zenon DEF Registered
<1> QED BY <1>4, <1>5, <1>6, <1>7, Zenon DEF Registered

\* A step of a loop: the stream stays sound and the registry what it was.
LEMMA LoopSteps ==
    ASSUME StreamInv, NEW s \in Streams,
           \/ HTTPLoop(s) \/ GraphQLLoop(s) \/ ServerStreamLoop(s) \/ BidiLoop(s)
           \/ PlainHTTP(s) \/ PlainServerStream(s) \/ PlainBidi(s)
    PROVE  StreamInv'
<1>1. /\ StreamTypes /\ Registered /\ \A t \in Streams : SoundStream(t)
      /\ UNCHANGED <<conns, active, mockID, gone>> /\ UNCHANGED api
  BY Zenon DEF StreamInv, HTTPLoop, GraphQLLoop, ServerStreamLoop, BidiLoop, PlainHTTP,
     PlainServerStream, PlainBidi
<1>2. ASSUME at[s] = "loop", NEW e, TakeTimer(s, e) PROVE SoundAfter /\ Moves(s)
  <2>1. timer[s] # "off" /\ SendEvent(s, e)
    BY <1>2, Zenon DEF TakeTimer
  <2>2. idx[s] < Length(s)
    <3>1. idx[s] < LengthOf(mockID[s])
      BY <1>1, <2>1, Zenon DEF SoundStream, Sound
    <3> QED BY <1>1, <3>1, Fields, Zenon
  <2> QED BY <1>1, <1>2, <2>1, <2>2, SendEventSound, Zenon
<1>3. ASSUME at[s] \in {"loop", "plain"}, UNCHANGED <<idx, wire, at, timer, chans>>
      PROVE  SoundAfter /\ Moves(s)
  <2>1. Typed(at[s], idx[s], timer[s], pushCh[s], closeCh[s], pushed[s], events[s], accepted[s])
    BY <1>1, Fields, Zenon
  <2>2. Becomes(s, at[s], idx[s], timer[s], pushCh[s], closeCh[s], pushed[s], events[s], accepted[s])
    BY <1>1, <1>3, SelfUpdates, Zenon DEF Becomes, wire, chans
  <2>3. Sound(mockID[s], at[s], idx[s], timer[s], pushCh[s], closeCh[s], pushed[s], events[s], accepted[s])
    BY <1>1, Zenon DEF SoundStream
  <2> QED BY <1>1, <2>1, <2>2, <2>3, StepSound, Zenon
<1>4. ASSUME at[s] = "loop", TakeMessage(s) PROVE SoundAfter /\ Moves(s)
  <2>1. CASE recv[s] = "message" /\ idx[s] < Length(s)
    BY <1>1, <1>4, <2>1, SendEventSound, Zenon DEF TakeMessage
  <2>2. CASE ~(recv[s] = "message" /\ idx[s] < Length(s))
    BY <1>3, <1>4, <2>2, Zenon DEF TakeMessage
  <2> QED BY <2>1, <2>2, Zenon
<1>5. ASSUME at[s] = "loop", NEW e, NEW m,
             CtxDone(s, e) \/ TakeClose(s, m, e) \/ TakePush(s) \/ TakeTimer(s, e) \/ TakeMessage(s)
      PROVE  SoundAfter /\ Moves(s)
  BY <1>1, <1>2, <1>4, <1>5, ReturnSound, TakePushSound, Zenon
<1>6. SoundAfter /\ Moves(s)
  <2>1. CASE HTTPLoop(s)
    BY <1>5, <2>1, Zenon DEF HTTPLoop
  <2>2. CASE GraphQLLoop(s)
    BY <1>5, <2>2, Zenon DEF GraphQLLoop
  <2>3. CASE ServerStreamLoop(s)
    BY <1>5, <2>3, Zenon DEF ServerStreamLoop
  <2>4. CASE BidiLoop(s)
    BY <1>5, <2>4, Zenon DEF BidiLoop
  <2>5. CASE PlainHTTP(s)
    BY <1>1, <2>5, PlainSound, Zenon DEF PlainHTTP
  <2>6. CASE PlainServerStream(s)
    BY <1>1, <2>6, PlainSound, Zenon DEF PlainServerStream
  <2>7. CASE PlainBidi(s)
    BY <1>1, <1>3, <2>7, PlainSound, Zenon DEF PlainBidi
  <2> QED BY <2>1, <2>2, <2>3, <2>4, <2>5, <2>6, <2>7, Zenon
<1>7. Registered'
  <2>1. gone' \in [Streams -> BOOLEAN] /\ (\A t \in Streams : gone[t] => gone'[t])
        /\ UNCHANGED apiCall
    BY <1>1, Zenon DEF Registered, api
  <2> QED BY <1>1, <1>6, <2>1, RegistryFrame, Zenon
<1> QED BY <1>6, <1>7, Zenon DEF StreamInv, SoundAfter

\* The step moves a goroutine, and perhaps its timer, and nothing else of it.
LEMMA LabelSound ==
    ASSUME StreamTypes, \A t \in Streams : SoundStream(t), NEW s \in Streams, NEW a \in Labels,
           NEW tm \in {"off", "running", "fired"},
           at' = [at EXCEPT ![s] = a], timer' = [timer EXCEPT ![s] = tm],
           UNCHANGED <<mockID, idx, pushCh, closeCh, pushed, events, accepted>>,
           UNCHANGED api,
           Sound(mockID[s], a, idx[s], tm, pushCh[s], closeCh[s], pushed[s], events[s],
                 accepted[s])
    PROVE  SoundAfter
<1>1. Becomes(s, a, idx[s], tm, pushCh[s], closeCh[s], pushed[s], events[s], accepted[s])
  BY SelfUpdates, Zenon DEF Becomes
<1>2. Typed(a, idx[s], tm, pushCh[s], closeCh[s], pushed[s], events[s], accepted[s])
  BY Fields, Zenon DEF Typed
<1>3. apiCall' \in [APICallers -> {NoCall} \cup Calls] /\ calls' \in Nat
  BY Zenon DEF api, StreamTypes
<1> QED BY <1>1, <1>2, <1>3, BecomesSound, Zenon DEF SoundAfter

\* Timers, receivers and what clients send or end.
LEMMA QuietSteps ==
    ASSUME StreamInv, NEW s \in Streams,
           TimerFires(s) \/ Receiver(s) \/ Leave(s) \/ ClientSend(s)
    PROVE  StreamInv'
<1>1. /\ StreamTypes /\ Registered /\ \A t \in Streams : SoundStream(t)
      /\ UNCHANGED <<conns, active, mockID, at>> /\ UNCHANGED api
      /\ UNCHANGED <<mockID, idx, pushCh, closeCh, pushed, events, accepted>>
  BY Zenon DEF StreamInv, TimerFires, Receiver, Leave, ClientSend, chans, wire
<1>2. PICK tm \in {"off", "running", "fired"} :
        /\ timer' = [timer EXCEPT ![s] = tm]
        /\ tm # "off" => timer[s] # "off"
  <2>1. CASE TimerFires(s)
    BY <2>1, Zenon DEF TimerFires
  <2>2. CASE ~TimerFires(s)
    <3>1. timer' = timer /\ timer = [timer EXCEPT ![s] = timer[s]] /\ timer[s] \in {"off", "running", "fired"}
      BY <1>1, <2>2, SelfUpdates, Zenon DEF Receiver, Leave, ClientSend, StreamTypes
    <3> QED BY <3>1, Zenon
  <2> QED BY <2>1, <2>2, Zenon
<1>3. SoundAfter
  <2>1. at' = [at EXCEPT ![s] = at[s]] /\ at[s] \in Labels
    BY <1>1, SelfUpdates, Zenon DEF StreamTypes
  <2>2. Sound(mockID[s], at[s], idx[s], tm, pushCh[s], closeCh[s], pushed[s], events[s], accepted[s])
    BY <1>1, <1>2, Zenon DEF SoundStream, Sound
  <2> QED BY <1>1, <1>2, <2>1, <2>2, LabelSound, Zenon
<1>4. gone' \in [Streams -> BOOLEAN] /\ \A t \in Streams : gone[t] => gone'[t]
  BY <1>1, Zenon DEF Registered, TimerFires, Receiver, Leave, ClientSend
<1>5. Moves(s)
  BY <1>1, Zenon DEF Moves
<1>6. Registered'
  BY <1>1, <1>4, <1>5, RegistryFrame, Zenon DEF api
<1> QED BY <1>3, <1>6, Zenon DEF StreamInv, SoundAfter

\* A step moves stream s and changes no mock: what it does to the others.
LEMMA OthersKept ==
    ASSUME StreamTypes, NEW s \in Streams, NEW a, at[s] # "idle", a # "idle",
           at' = [at EXCEPT ![s] = a]
    PROVE  /\ \A t \in Streams \ {s} : at'[t] = at[t]
           /\ at'[s] = a
           /\ \A t \in Streams : Alone(mockID, at', t) => Alone(mockID, at, t)
           /\ \A t \in Streams \ {s} : Alone(mockID, at', t)
                => ConnOf(mockID[t], t) # ConnOf(mockID[s], s)
<1>1. (\A t \in Streams \ {s} : at'[t] = at[t]) /\ at'[s] = a
  BY Zenon DEF StreamTypes
<1>2. \A t \in Streams : Alone(mockID, at', t) => Alone(mockID, at, t)
  BY <1>1, Zenon DEF Alone
<1>3. \A t \in Streams \ {s} : Alone(mockID, at', t)
        => ConnOf(mockID[t], t) # ConnOf(mockID[s], s)
  BY <1>1, Zenon DEF Alone
<1> QED BY <1>1, <1>2, <1>3, Zenon

\* The targets of API calls stay past their registration.
LEMMA TargetsKept ==
    ASSUME StreamTypes, Registered, apiCall' = apiCall,
           \A t \in Streams : at[t] \in {"loop", "ending", "cleanup", "ended"}
                                => at'[t] \in {"loop", "ending", "cleanup", "ended"}
    PROVE  \A c \in APICallers : \A t \in apiCall'[c].todo :
              at'[t] \in {"loop", "ending", "cleanup", "ended"}
BY TodoTyped, Zenon DEF Registered

\* The loop has returned and the deferred unregister runs.
LEMMA UnregisterStep ==
    ASSUME StreamInv, NEW s \in Streams, Unregister(s)
    PROVE  StreamInv'
<1> DEFINE a == IF Is(s, "graphql") THEN "cleanup" ELSE "ended"
<1>1. /\ StreamTypes /\ Registered /\ \A t \in Streams : SoundStream(t)
      /\ at[s] = "ending" /\ conns' = Without(conns, ConnID(s)) /\ at' = [at EXCEPT ![s] = a]
      /\ UNCHANGED <<active, mockID, gone, timer>> /\ UNCHANGED api
      /\ UNCHANGED <<mockID, idx, pushCh, closeCh, pushed, events, accepted>>
  BY Zenon DEF StreamInv, Unregister, Goto, chans, wire
<1>2. a \in {"cleanup", "ended"} /\ (a = "cleanup" => mockID[s] # NoMock /\ Protocol[mockID[s]] = "graphql")
  BY Zenon DEF Is
<1> HIDE DEF a
<1>3. SoundAfter
  <2>1. Sound(mockID[s], a, idx[s], timer[s], pushCh[s], closeCh[s], pushed[s], events[s], accepted[s])
    <3>1. Sound(mockID[s], "ending", idx[s], timer[s], pushCh[s], closeCh[s], pushed[s], events[s], accepted[s])
      BY <1>1, Zenon DEF SoundStream
    <3> QED BY <1>2, <3>1, Zenon DEF Sound
  <2>2. a \in Labels /\ timer' = [timer EXCEPT ![s] = timer[s]] /\ timer[s] \in {"off", "running", "fired"}
    BY <1>1, <1>2, SelfUpdates, Zenon DEF Labels, StreamTypes
  <2> QED BY <1>1, <2>1, <2>2, LabelSound, Zenon
<1>4. /\ \A t \in Streams \ {s} : at'[t] = at[t]
      /\ at'[s] = a
      /\ \A t \in Streams : Alone(mockID, at', t) => Alone(mockID, at, t)
      /\ \A t \in Streams \ {s} : Alone(mockID, at', t)
           => ConnOf(mockID[t], t) # ConnOf(mockID[s], s)
  <2>1. a # "idle"
    BY <1>2, Zenon
  <2> QED BY <1>1, <2>1, OthersKept, Zenon
<1>5. /\ DOMAIN conns' = DOMAIN conns \ {ConnOf(mockID[s], s)}
      /\ \A id \in DOMAIN conns' : conns'[id] = conns[id]
  BY <1>1, Zenon DEF Without, ConnID, ConnOf, Is, OfGraphQL
<1>6. ASSUME NEW id \in DOMAIN conns'
      PROVE  /\ conns'[id] \in Streams /\ ConnOf(mockID[conns'[id]], conns'[id]) = id
             /\ at'[conns'[id]] \in {"loop", "ending"}
  BY <1>1, <1>4, <1>5, <1>6 DEF Registered
<1>7. \A id \in DOMAIN active : active[id] \in Streams /\ at'[active[id]] # "idle"
  BY <1>1, <1>2, <1>4, Zenon DEF Registered
<1>8. ASSUME NEW t \in Streams, Alone(mockID, at', t)
      PROVE  /\ at'[t] = "loop" => Holds(conns', ConnOf(mockID[t], t), t)
             /\ (OfGraphQL(mockID[t]) /\ at'[t] \in {"starting", "loop"} /\ ~gone[t])
                  => Holds(active, ConnOf(mockID[t], t), t)
  <2>1. CASE t = s
    BY <1>2, <1>4, <2>1, Zenon
  <2>2. CASE t # s
    <3>1. Alone(mockID, at, t) /\ at'[t] = at[t] /\ ConnOf(mockID[t], t) # ConnOf(mockID[s], s)
      BY <1>4, <1>8, <2>2, Zenon
    <3>2. at[t] = "loop" => Holds(conns, ConnOf(mockID[t], t), t)
      BY <1>1, <3>1, Zenon DEF Registered
    <3>3. at[t] = "loop" => Holds(conns', ConnOf(mockID[t], t), t)
      BY <1>5, <3>1, <3>2, Zenon DEF Holds
    <3> QED BY <1>1, <3>1, <3>3, Zenon DEF Registered
  <2> QED BY <2>1, <2>2, Zenon
<1>9. \A c \in APICallers : \A t \in apiCall'[c].todo : at'[t] \in {"loop", "ending", "cleanup", "ended"}
  BY <1>1, <1>2, <1>4, TargetsKept, Zenon DEF api
<1>10. Registered'
  <2>1. mockID' = mockID /\ active' = active /\ gone' = gone /\ gone \in [Streams -> BOOLEAN]
        /\ \A id \in DOMAIN active : ConnOf(mockID[active[id]], active[id]) = id
    BY <1>1, Zenon DEF Registered
  <2> QED BY <1>6, <1>7, <1>8, <1>9, <2>1, Zenon DEF Registered
<1> QED BY <1>3, <1>10, Zenon DEF StreamInv, SoundAfter

\* A subscription is registered, or ends before it is.
LEMMA StartStep ==
    ASSUME StreamInv, NEW s \in Streams, StartSubscription(s)
    PROVE  StreamInv'
<1>1. /\ StreamTypes /\ Registered /\ \A t \in Streams : SoundStream(t)
      /\ at[s] = "starting" /\ mockID' = mockID /\ active' = active /\ gone' = gone
      /\ UNCHANGED api
      /\ UNCHANGED <<mockID, idx, pushCh, closeCh, pushed, events, accepted>>
  BY Zenon DEF StreamInv, StartSubscription, Register, chans, wire, WriteLast
<1>2. PICK a \in {"cleanup", "loop"}, tm \in {"off", "running", "fired"} :
        /\ at' = [at EXCEPT ![s] = a] /\ timer' = [timer EXCEPT ![s] = tm]
        /\ a = "cleanup" => conns' = conns /\ tm = timer[s]
        /\ a = "loop" => conns' = With(conns, ConnID(s), s) /\ (tm # "off" => 0 < Length(s))
  <2>1. CASE Register(s)
    BY <2>1, Zenon DEF Register, Goto, Arm
  <2>2. CASE ~Register(s)
    <3>1. at' = [at EXCEPT ![s] = "cleanup"] /\ conns' = conns /\ timer' = timer
      BY <2>2, Zenon DEF StartSubscription, Goto
    <3>2. timer = [timer EXCEPT ![s] = timer[s]] /\ timer[s] \in {"off", "running", "fired"}
      BY <1>1, SelfUpdates, Zenon DEF StreamTypes
    <3> QED BY <3>1, <3>2, Zenon
  <2> QED BY <2>1, <2>2, Zenon
<1>3. Sound(mockID[s], "starting", idx[s], timer[s], pushCh[s], closeCh[s], pushed[s], events[s], accepted[s])
  BY <1>1, Zenon DEF SoundStream
<1>4. /\ idx[s] = 0 /\ pushCh[s] = << >> /\ pushed[s] = << >> /\ events[s] = << >> /\ accepted[s] = << >>
      /\ OfGraphQL(mockID[s]) /\ timer[s] = "off"
  BY <1>3, Zenon DEF Sound, OfGraphQL
<1>5. SoundAfter
  <2>1. tm # "off" => a = "loop" /\ idx[s] < LengthOf(mockID[s])
    BY <1>1, <1>2, <1>4, Fields, Zenon
  <2>2. accepted[s] = pushed[s] \o pushCh[s] /\ Len(events[s]) = idx[s]
    <3>1. << >> \o << >> = << >> /\ Len(<< >>) = 0
      OBVIOUS
    <3> QED BY <1>4, <3>1, Zenon
  <2>3. Sound(mockID[s], a, idx[s], tm, pushCh[s], closeCh[s], pushed[s], events[s], accepted[s])
    BY <1>2, <1>3, <1>4, <2>1, <2>2, Zenon DEF Sound, OfGraphQL
  <2>4. a \in Labels
    BY <1>2, Zenon DEF Labels
  <2> QED BY <1>1, <1>2, <2>3, <2>4, LabelSound, Zenon
<1>6. /\ \A t \in Streams \ {s} : at'[t] = at[t]
      /\ at'[s] = a
      /\ \A t \in Streams : Alone(mockID, at', t) => Alone(mockID, at, t)
      /\ \A t \in Streams \ {s} : Alone(mockID, at', t)
           => ConnOf(mockID[t], t) # ConnOf(mockID[s], s)
  <2>1. a # "idle" /\ at[s] # "idle"
    BY <1>1, <1>2, Zenon
  <2> QED BY <1>1, <1>2, <2>1, OthersKept, Zenon
<1>7. /\ a = "cleanup" => conns' = conns
      /\ a = "loop" =>
           /\ DOMAIN conns' = DOMAIN conns \cup {ConnOf(mockID[s], s)}
           /\ conns'[ConnOf(mockID[s], s)] = s
           /\ \A id \in DOMAIN conns \ {ConnOf(mockID[s], s)} : conns'[id] = conns[id]
  BY <1>2, Zenon DEF With, ConnID, ConnOf, Is, OfGraphQL
<1>8. ASSUME NEW id \in DOMAIN conns'
      PROVE  /\ conns'[id] \in Streams /\ ConnOf(mockID[conns'[id]], conns'[id]) = id
             /\ at'[conns'[id]] \in {"loop", "ending"}
  <2>1. CASE a = "loop" /\ id = ConnOf(mockID[s], s)
    BY <1>6, <1>7, <2>1, Zenon
  <2>2. CASE ~(a = "loop" /\ id = ConnOf(mockID[s], s))
    <3>1. id \in DOMAIN conns /\ conns'[id] = conns[id]
      BY <1>2, <1>7, <1>8, <2>2, Zenon
    <3> QED BY <1>1, <1>6, <3>1, Zenon DEF Registered
  <2> QED BY <2>1, <2>2, Zenon
<1>9. \A id \in DOMAIN active : active[id] \in Streams /\ at'[active[id]] # "idle"
  BY <1>1, <1>2, <1>6, Zenon DEF Registered
<1>10. ASSUME NEW t \in Streams, Alone(mockID, at', t)
       PROVE  /\ at'[t] = "loop" => Holds(conns', ConnOf(mockID[t], t), t)
              /\ (OfGraphQL(mockID[t]) /\ at'[t] \in {"starting", "loop"} /\ ~gone[t])
                   => Holds(active, ConnOf(mockID[t], t), t)
  <2>1. CASE t = s
    <3>1. at'[t] = "loop" => Holds(conns', ConnOf(mockID[t], t), t)
      BY <1>6, <1>7, <2>1, Zenon DEF Holds
    <3>2. ~gone[t] => Holds(active, ConnOf(mockID[t], t), t)
      BY <1>1, <1>4, <1>6, <1>10, <2>1, Zenon DEF Registered
    <3> QED BY <3>1, <3>2, Zenon
  <2>2. CASE t # s
    <3>1. Alone(mockID, at, t) /\ at'[t] = at[t] /\ ConnOf(mockID[t], t) # ConnOf(mockID[s], s)
      BY <1>6, <1>10, <2>2, Zenon
    <3>2. at[t] = "loop" => Holds(conns, ConnOf(mockID[t], t), t)
      BY <1>1, <3>1, Zenon DEF Registered
    <3>3. at[t] = "loop" => Holds(conns', ConnOf(mockID[t], t), t)
      BY <1>2, <1>7, <3>1, <3>2, Zenon DEF Holds
    <3> QED BY <1>1, <3>1, <3>3, Zenon DEF Registered
  <2> QED BY <2>1, <2>2, Zenon
<1>11. \A c \in APICallers : \A t \in apiCall'[c].todo : at'[t] \in {"loop", "ending", "cleanup", "ended"}
  BY <1>1, <1>2, <1>6, TargetsKept, Zenon DEF api
<1>12. Registered'
  <2>1. mockID' = mockID /\ active' = active /\ gone' = gone /\ gone \in [Streams -> BOOLEAN]
        /\ \A id \in DOMAIN active : ConnOf(mockID[active[id]], active[id]) = id
    BY <1>1, Zenon DEF Registered
  <2> QED BY <1>8, <1>9, <1>10, <1>11, <2>1, Zenon DEF Registered
<1> QED BY <1>5, <1>12, Zenon DEF StreamInv, SoundAfter

\* A subscription's goroutine ends: it gives up its id and its context.
LEMMA CleanupStep ==
    ASSUME StreamInv, NEW s \in Streams, Cleanup(s)
    PROVE  StreamInv'
<1>1. /\ StreamTypes /\ Registered /\ \A t \in Streams : SoundStream(t)
      /\ at[s] = "cleanup" /\ mockID' = mockID /\ conns' = conns /\ timer' = timer
      /\ active' = Without(active, ConnID(s)) /\ gone' = [gone EXCEPT ![s] = TRUE]
      /\ at' = [at EXCEPT ![s] = "ended"] /\ UNCHANGED api
      /\ UNCHANGED <<mockID, idx, pushCh, closeCh, pushed, events, accepted>>
  BY Zenon DEF StreamInv, Cleanup, Goto, chans, wire
<1>2. SoundAfter
  <2>1. Sound(mockID[s], "ended", idx[s], timer[s], pushCh[s], closeCh[s], pushed[s], events[s], accepted[s])
    <3>1. Sound(mockID[s], "cleanup", idx[s], timer[s], pushCh[s], closeCh[s], pushed[s], events[s], accepted[s])
      BY <1>1, Zenon DEF SoundStream
    <3> QED BY <3>1, Zenon DEF Sound
  <2>2. "ended" \in Labels /\ timer' = [timer EXCEPT ![s] = timer[s]] /\ timer[s] \in {"off", "running", "fired"}
    BY <1>1, SelfUpdates, Zenon DEF Labels, StreamTypes
  <2> QED BY <1>1, <2>1, <2>2, LabelSound, Zenon
<1>3. /\ \A t \in Streams \ {s} : at'[t] = at[t]
      /\ at'[s] = "ended"
      /\ \A t \in Streams : Alone(mockID, at', t) => Alone(mockID, at, t)
      /\ \A t \in Streams \ {s} : Alone(mockID, at', t)
           => ConnOf(mockID[t], t) # ConnOf(mockID[s], s)
  BY <1>1, OthersKept, Zenon
<1>4. /\ DOMAIN active' = DOMAIN active \ {ConnOf(mockID[s], s)}
      /\ \A id \in DOMAIN active' : active'[id] = active[id]
      /\ gone' \in [Streams -> BOOLEAN] /\ \A t \in Streams : gone[t] => gone'[t]
  BY <1>1 DEF Without, ConnID, ConnOf, Is, OfGraphQL, Registered
<1>5. \A id \in DOMAIN conns : conns[id] \in Streams /\ at'[conns[id]] \in {"loop", "ending"}
  BY <1>1, <1>3, Zenon DEF Registered
<1>6. ASSUME NEW id \in DOMAIN active'
      PROVE  /\ active'[id] \in Streams /\ ConnOf(mockID[active'[id]], active'[id]) = id
             /\ at'[active'[id]] # "idle"
  <2>1. id \in DOMAIN active /\ active'[id] = active[id]
    BY <1>4, <1>6, Zenon
  <2>2. active[id] \in Streams /\ ConnOf(mockID[active[id]], active[id]) = id
        /\ at[active[id]] # "idle"
    BY <1>1, <2>1, Zenon DEF Registered
  <2>3. at'[active[id]] # "idle"
    BY <1>3, <2>2, Zenon
  <2> QED BY <2>1, <2>2, <2>3, Zenon
<1>7. ASSUME NEW t \in Streams, Alone(mockID, at', t)
      PROVE  /\ at'[t] = "loop" => Holds(conns, ConnOf(mockID[t], t), t)
             /\ (OfGraphQL(mockID[t]) /\ at'[t] \in {"starting", "loop"} /\ ~gone'[t])
                  => Holds(active', ConnOf(mockID[t], t), t)
  <2>1. CASE t = s
    BY <1>3, <2>1, Zenon
  <2>2. CASE t # s
    <3>1. Alone(mockID, at, t) /\ at'[t] = at[t] /\ ConnOf(mockID[t], t) # ConnOf(mockID[s], s)
      BY <1>3, <1>7, <2>2, Zenon
    <3>2. at[t] = "loop" => Holds(conns, ConnOf(mockID[t], t), t)
      BY <1>1, <3>1, Zenon DEF Registered
    <3>3. ASSUME OfGraphQL(mockID[t]), at'[t] \in {"starting", "loop"}, ~gone'[t]
          PROVE  Holds(active', ConnOf(mockID[t], t), t)
      <4>1. Holds(active, ConnOf(mockID[t], t), t)
        BY <1>1, <1>4, <3>1, <3>3, Zenon DEF Registered
      <4> QED BY <1>4, <3>1, <4>1, Zenon DEF Holds
    <3> QED BY <3>1, <3>2, <3>3, Zenon
  <2> QED BY <2>1, <2>2, Zenon
<1>8. \A c \in APICallers : \A t \in apiCall'[c].todo : at'[t] \in {"loop", "ending", "cleanup", "ended"}
  BY <1>1, <1>3, TargetsKept, Zenon DEF api
<1>9. Registered'
  <2>1. mockID' = mockID /\ conns' = conns
        /\ \A id \in DOMAIN conns : ConnOf(mockID[conns[id]], conns[id]) = id
    BY <1>1, Zenon DEF Registered
  <2> QED BY <1>4, <1>5, <1>6, <1>7, <1>8, <2>1, Zenon DEF Registered
<1> QED BY <1>2, <1>9, Zenon DEF StreamInv, SoundAfter

\* A step that touches no stream.
LEMMA StreamsKept ==
    ASSUME StreamTypes, \A t \in Streams : SoundStream(t),
           UNCHANGED <<mockID, at, idx, timer, pushCh, closeCh, pushed, events, accepted>>,
           apiCall' \in [APICallers -> {NoCall} \cup Calls], calls' \in Nat
    PROVE  SoundAfter
<1>1. StreamTypes'
  BY Zenon DEF StreamTypes
<1>2. \A t \in Streams : SoundStream(t)'
  BY Zenon DEF SoundStream
<1> QED BY <1>1, <1>2, Zenon DEF SoundAfter

\* A client completes a subscription.
LEMMA CompleteStep ==
    ASSUME StreamInv, NEW id \in DOMAIN active, Complete(id)
    PROVE  StreamInv'
<1>1. /\ StreamTypes /\ Registered /\ \A t \in Streams : SoundStream(t)
      /\ mockID' = mockID /\ conns' = conns /\ at' = at /\ apiCall' = apiCall /\ calls' = calls
      /\ active' = Without(active, id) /\ gone' = [gone EXCEPT ![active[id]] = TRUE]
      /\ UNCHANGED <<mockID, at, idx, timer, pushCh, closeCh, pushed, events, accepted>>
  BY Zenon DEF StreamInv, Complete, chans, wire, api
<1>2. SoundAfter
  BY <1>1, StreamsKept, Zenon DEF StreamTypes
<1>3. /\ DOMAIN active' = DOMAIN active \ {id}
      /\ \A k \in DOMAIN active' : active'[k] = active[k]
      /\ active[id] \in Streams /\ gone' \in [Streams -> BOOLEAN] /\ gone'[active[id]]
      /\ \A t \in Streams : gone[t] => gone'[t]
  BY <1>1, Zenon DEF Without, Registered
<1>4. ASSUME NEW t \in Streams, Alone(mockID, at, t), OfGraphQL(mockID[t]),
             at[t] \in {"starting", "loop"}, ~gone'[t]
      PROVE  Holds(active', ConnOf(mockID[t], t), t)
  <2>1. Holds(active, ConnOf(mockID[t], t), t)
    BY <1>1, <1>3, <1>4, Zenon DEF Registered
  <2>2. t # active[id]
    BY <1>3, <1>4, Zenon
  <2> QED BY <1>3, <2>1, <2>2, Zenon DEF Holds
<1>5. ASSUME NEW k \in DOMAIN active'
      PROVE  /\ active'[k] \in Streams /\ ConnOf(mockID[active'[k]], active'[k]) = k
             /\ at[active'[k]] # "idle"
  <2>1. k \in DOMAIN active /\ active'[k] = active[k]
    BY <1>3, <1>5, Zenon
  <2> QED BY <1>1, <2>1, Zenon DEF Registered
<1>6. ASSUME NEW t \in Streams, Alone(mockID, at, t), at[t] = "loop"
      PROVE  Holds(conns, ConnOf(mockID[t], t), t)
  BY <1>1, <1>6, Zenon DEF Registered
<1>7. /\ \A k \in DOMAIN conns : /\ conns[k] \in Streams /\ ConnOf(mockID[conns[k]], conns[k]) = k
                                 /\ at[conns[k]] \in {"loop", "ending"}
      /\ \A c \in APICallers : \A t \in apiCall[c].todo : at[t] \in {"loop", "ending", "cleanup", "ended"}
  BY <1>1, Zenon DEF Registered
<1>8. Registered'
  <2>1. mockID' = mockID /\ conns' = conns /\ at' = at /\ apiCall' = apiCall
    BY <1>1, Zenon
  <2>2. gone' \in [Streams -> BOOLEAN]
    BY <1>3, Zenon
  <2> QED BY <1>4, <1>5, <1>6, <1>7, <2>1, <2>2, Zenon DEF Registered
<1> QED BY <1>2, <1>8, Zenon DEF StreamInv, SoundAfter

\* The WebSocket is closed.
LEMMA DisconnectStep ==
    ASSUME StreamInv, Disconnect
    PROVE  StreamInv'
<1>1. /\ StreamTypes /\ Registered /\ \A t \in Streams : SoundStream(t)
      /\ mockID' = mockID /\ conns' = conns /\ at' = at /\ apiCall' = apiCall /\ calls' = calls
      /\ active' = << >>
      /\ gone' = [s \in Streams |-> gone[s] \/ (Is(s, "graphql") /\ at[s] # "idle")]
      /\ UNCHANGED <<mockID, at, idx, timer, pushCh, closeCh, pushed, events, accepted>>
  BY Zenon DEF StreamInv, Disconnect, chans, wire, api
<1>2. SoundAfter
  BY <1>1, StreamsKept, Zenon DEF StreamTypes
<1>3. /\ DOMAIN active' = {}
      /\ gone' \in [Streams -> BOOLEAN]
  <2>1. DOMAIN active' = {}
    BY <1>1
  <2>2. \A s \in Streams : (gone[s] \/ (Is(s, "graphql") /\ at[s] # "idle")) \in BOOLEAN
    BY <1>1, Zenon DEF Registered, Is
  <2> QED BY <1>1, <2>1, <2>2, ZenonT(30)
<1>4. \A t \in Streams : OfGraphQL(mockID[t]) /\ at[t] \in {"starting", "loop"} => gone'[t]
  BY <1>1, Zenon DEF OfGraphQL, Is
<1>5. Registered'
  BY <1>1, <1>3, <1>4, Zenon DEF Registered
<1> QED BY <1>2, <1>5, Zenon DEF StreamInv, SoundAfter

\* A stream begins: it has its mock, and all the rest is as it was.
LEMMA BeginsSound ==
    ASSUME StreamTypes, \A t \in Streams : SoundStream(t), NEW s \in Streams, NEW m \in Mocks,
           NEW a \in {"plain", "starting", "loop"}, NEW tm \in {"off", "running"},
           at[s] = "idle", mockID' = [mockID EXCEPT ![s] = m], at' = [at EXCEPT ![s] = a],
           timer' = [timer EXCEPT ![s] = tm], a = "starting" => Protocol[m] = "graphql",
           tm # "off" => a = "loop" /\ 0 < LengthOf(m),
           UNCHANGED <<idx, pushCh, closeCh, pushed, events, accepted>>, UNCHANGED api
    PROVE  SoundAfter
<1>1. StreamTypes'
  BY Zenon DEF StreamTypes, api, Labels
<1>2. ASSUME NEW t \in Streams, t # s PROVE SoundStream(t)'
  <2>1. mockID'[t] = mockID[t] /\ at'[t] = at[t] /\ timer'[t] = timer[t]
    BY <1>2, Zenon DEF StreamTypes
  <2> QED BY <2>1, Zenon DEF SoundStream
<1>3. SoundStream(s)'
  <2>1. mockID'[s] = m /\ at'[s] = a /\ timer'[s] = tm
    BY Zenon DEF StreamTypes
  <2>2. Sound(mockID[s], "idle", idx[s], timer[s], pushCh[s], closeCh[s], pushed[s], events[s], accepted[s])
    BY Zenon DEF SoundStream
  <2>3. /\ idx[s] = 0 /\ pushCh[s] = << >> /\ pushed[s] = << >> /\ events[s] = << >>
        /\ accepted[s] = << >>
    BY <2>2, Zenon DEF Sound
  <2>4. accepted[s] = pushed[s] \o pushCh[s] /\ Len(events[s]) = idx[s]
    BY <2>3
  <2>5. m # NoMock /\ idx[s] <= LengthOf(m)
    <3>1. Events[m] \in Seq({"ok", "bad", "unsendable"}) /\ m # NoMock
      BY StreamsAssumption, Zenon
    <3> QED BY <2>3, <3>1 DEF LengthOf
  <2>6. Sound(m, a, idx[s], tm, pushCh[s], closeCh[s], pushed[s], events[s], accepted[s])
    BY <2>2, <2>3, <2>4, <2>5, Zenon DEF Sound
  <2> QED BY <2>1, <2>6, Zenon DEF SoundStream
<1> QED BY <1>1, <1>2, <1>3, Zenon DEF SoundAfter

\* What a stream that begins does to the others.
LEMMA OthersKeptByNew ==
    ASSUME StreamTypes, NEW s \in Streams, NEW m \in Mocks, NEW a, a # "idle", at[s] = "idle",
           mockID' = [mockID EXCEPT ![s] = m], at' = [at EXCEPT ![s] = a]
    PROVE  /\ \A t \in Streams \ {s} : at'[t] = at[t] /\ mockID'[t] = mockID[t]
           /\ at'[s] = a /\ mockID'[s] = m
           /\ \A t \in Streams \ {s} : Alone(mockID', at', t) =>
                Alone(mockID, at, t) /\ ConnOf(mockID[t], t) # ConnOf(m, s)
<1>1. (\A t \in Streams \ {s} : at'[t] = at[t] /\ mockID'[t] = mockID[t]) /\ at'[s] = a /\ mockID'[s] = m
  BY Zenon DEF StreamTypes
<1>2. ASSUME NEW t \in Streams \ {s}, Alone(mockID', at', t)
      PROVE  Alone(mockID, at, t) /\ ConnOf(mockID[t], t) # ConnOf(m, s)
  <2>1. ConnOf(mockID[t], t) # ConnOf(m, s)
    BY <1>1, <1>2, Zenon DEF Alone
  <2>2. Alone(mockID, at, t)
    BY <1>1, <1>2, Zenon DEF Alone
  <2> QED BY <2>1, <2>2, Zenon
<1> QED BY <1>1, <1>2, Zenon

\* A streamed response begins.
LEMMA OpenStep ==
    ASSUME StreamInv, NEW s \in Streams, NEW m \in Mocks, Open(s, m)
    PROVE  StreamInv'
<1>1. /\ StreamTypes /\ Registered /\ \A t \in Streams : SoundStream(t)
      /\ at[s] = "idle" /\ mockID' = [mockID EXCEPT ![s] = m] /\ Protocol[m] # "graphql"
      /\ active' = active /\ gone' = gone /\ UNCHANGED api
      /\ UNCHANGED <<idx, pushCh, closeCh, pushed, events, accepted>>
  BY Zenon DEF StreamInv, Open, Begins, chans, wire
<1>2. Events[m] \in Seq({"ok", "bad", "unsendable"}) /\ m # NoMock
  BY StreamsAssumption, Zenon
<1>3. PICK a \in {"plain", "loop"}, tm \in {"off", "running"} :
        /\ at' = [at EXCEPT ![s] = a] /\ timer' = [timer EXCEPT ![s] = tm]
        /\ a = "plain" => conns' = conns /\ tm = "off"
        /\ a = "loop" => conns' = With(conns, s, s)
        /\ tm # "off" => Events[m] # << >>
  <2>1. CASE KeepOpen[m]
    BY <2>1, Zenon DEF Open, Goto
  <2>2. CASE ~KeepOpen[m]
    <3>1. at' = [at EXCEPT ![s] = "plain"] /\ conns' = conns /\ timer' = timer
      BY <2>2, Zenon DEF Open, Goto
    <3>2. timer = [timer EXCEPT ![s] = timer[s]]
      BY <1>1, SelfUpdates, Zenon
    <3>3. timer[s] \in {"off", "running", "fired"} /\ SoundStream(s)
      BY <1>1, Zenon DEF StreamTypes
    <3>4. timer[s] = "off"
      BY <1>1, <3>3, Zenon DEF SoundStream, Sound
    <3> QED BY <3>1, <3>2, <3>4, Zenon
  <2> QED BY <2>1, <2>2, Zenon
<1>4. SoundAfter
  <2>1. tm # "off" => a = "loop" /\ 0 < LengthOf(m)
    BY <1>2, <1>3 DEF LengthOf
  <2>2. a \in {"plain", "starting", "loop"} /\ a # "starting"
    BY <1>3, Zenon
  <2> QED BY <1>1, <1>3, <2>1, <2>2, BeginsSound, Zenon
<1>5. /\ \A t \in Streams \ {s} : at'[t] = at[t] /\ mockID'[t] = mockID[t]
      /\ at'[s] = a /\ mockID'[s] = m
      /\ \A t \in Streams \ {s} : Alone(mockID', at', t) =>
           Alone(mockID, at, t) /\ ConnOf(mockID[t], t) # ConnOf(m, s)
  <2>1. a # "idle"
    BY <1>3, Zenon
  <2> QED BY <1>1, <1>3, <2>1, OthersKeptByNew, Zenon
<1>6. ConnOf(m, s) = s /\ ~OfGraphQL(m)
  BY <1>1, Zenon DEF ConnOf, OfGraphQL
<1>7. /\ a = "plain" => conns' = conns
      /\ a = "loop" => /\ DOMAIN conns' = DOMAIN conns \cup {s} /\ conns'[s] = s
                       /\ \A id \in DOMAIN conns \ {s} : conns'[id] = conns[id]
  BY <1>3, Zenon DEF With
<1>8. ASSUME NEW id \in DOMAIN conns'
      PROVE  /\ conns'[id] \in Streams /\ ConnOf(mockID'[conns'[id]], conns'[id]) = id
             /\ at'[conns'[id]] \in {"loop", "ending"}
  <2>1. CASE a = "loop" /\ id = s
    BY <1>5, <1>6, <1>7, <2>1, Zenon
  <2>2. CASE ~(a = "loop" /\ id = s)
    <3>1. id \in DOMAIN conns /\ conns'[id] = conns[id]
      BY <1>3, <1>7, <1>8, <2>2, Zenon
    <3>2. conns[id] \in Streams \ {s} /\ ConnOf(mockID[conns[id]], conns[id]) = id
          /\ at[conns[id]] \in {"loop", "ending"}
      BY <1>1, <3>1, Zenon DEF Registered
    <3> QED BY <1>5, <3>1, <3>2, Zenon
  <2> QED BY <2>1, <2>2, Zenon
<1>9. ASSUME NEW id \in DOMAIN active
      PROVE  /\ active[id] \in Streams /\ ConnOf(mockID'[active[id]], active[id]) = id
             /\ at'[active[id]] # "idle"
  <2>1. active[id] \in Streams \ {s} /\ ConnOf(mockID[active[id]], active[id]) = id
        /\ at[active[id]] # "idle"
    BY <1>1, Zenon DEF Registered
  <2> QED BY <1>5, <2>1, Zenon
<1>10. ASSUME NEW t \in Streams, Alone(mockID', at', t)
       PROVE  /\ at'[t] = "loop" => Holds(conns', ConnOf(mockID'[t], t), t)
              /\ (OfGraphQL(mockID'[t]) /\ at'[t] \in {"starting", "loop"} /\ ~gone[t])
                   => Holds(active, ConnOf(mockID'[t], t), t)
  <2>1. CASE t = s
    BY <1>5, <1>6, <1>7, <2>1, Zenon DEF Holds
  <2>2. CASE t # s
    <3>1. /\ Alone(mockID, at, t) /\ at'[t] = at[t] /\ mockID'[t] = mockID[t]
          /\ ConnOf(mockID[t], t) # s
      BY <1>5, <1>6, <1>10, <2>2, Zenon
    <3>2. at[t] = "loop" => Holds(conns, ConnOf(mockID[t], t), t)
      BY <1>1, <3>1, Zenon DEF Registered
    <3>3. at[t] = "loop" => Holds(conns', ConnOf(mockID[t], t), t)
      BY <1>3, <1>7, <3>1, <3>2, Zenon DEF Holds
    <3> QED BY <1>1, <3>1, <3>3, Zenon DEF Registered
  <2> QED BY <2>1, <2>2, Zenon
<1>11. \A c \in APICallers : \A t \in apiCall'[c].todo : at'[t] \in {"loop", "ending", "cleanup", "ended"}
  <2>1. \A t \in Streams : at[t] \in {"loop", "ending", "cleanup", "ended"} => at'[t] = at[t]
    BY <1>1, <1>5, Zenon
  <2> QED BY <1>1, <2>1, TargetsKept, Zenon DEF api
<1>12. Registered'
  <2>1. active' = active /\ gone' = gone /\ gone \in [Streams -> BOOLEAN]
    BY <1>1, Zenon DEF Registered
  <2> QED BY <1>8, <1>9, <1>10, <1>11, <2>1, Zenon DEF Registered
<1> QED BY <1>4, <1>12, Zenon DEF StreamInv, SoundAfter

\* A subscription begins.
LEMMA SubscribeStep ==
    ASSUME StreamInv, NEW s \in Streams, NEW m \in Mocks, Subscribe(s, m)
    PROVE  StreamInv'
<1>1. /\ StreamTypes /\ Registered /\ \A t \in Streams : SoundStream(t)
      /\ at[s] = "idle" /\ mockID' = [mockID EXCEPT ![s] = m] /\ Protocol[m] = "graphql"
      /\ active' = With(active, 0, s) /\ at' = [at EXCEPT ![s] = "starting"]
      /\ conns' = conns /\ gone' = gone /\ timer' = timer /\ UNCHANGED api
      /\ UNCHANGED <<idx, pushCh, closeCh, pushed, events, accepted>>
  BY Zenon DEF StreamInv, Subscribe, Begins, Goto, chans, wire
<1>2. SoundAfter
  <2>1. timer[s] \in {"off", "running", "fired"} /\ SoundStream(s) /\ timer = [timer EXCEPT ![s] = timer[s]]
    BY <1>1, SelfUpdates, Zenon DEF StreamTypes
  <2>2. timer[s] = "off"
    BY <1>1, <2>1, Zenon DEF SoundStream, Sound
  <2>3. timer' = [timer EXCEPT ![s] = "off"]
    BY <1>1, <2>1, <2>2, Zenon
  <2>4. "starting" \in {"plain", "starting", "loop"} /\ "off" \in {"off", "running"}
    BY Zenon
  <2> QED BY <1>1, <2>3, <2>4, BeginsSound, Zenon
<1>3. OfGraphQL(m) /\ ConnOf(m, s) = 0
  BY <1>1, StreamsAssumption, Zenon DEF ConnOf, OfGraphQL
<1>4. /\ \A t \in Streams \ {s} : at'[t] = at[t] /\ mockID'[t] = mockID[t]
      /\ at'[s] = "starting" /\ mockID'[s] = m
      /\ \A t \in Streams \ {s} : Alone(mockID', at', t) =>
           Alone(mockID, at, t) /\ ConnOf(mockID[t], t) # ConnOf(m, s)
  BY <1>1, OthersKeptByNew, Zenon
<1>5. /\ DOMAIN active' = DOMAIN active \cup {0} /\ active'[0] = s
      /\ \A id \in DOMAIN active \ {0} : active'[id] = active[id]
  BY <1>1, Zenon DEF With
<1>6. ASSUME NEW id \in DOMAIN active'
      PROVE  /\ active'[id] \in Streams /\ ConnOf(mockID'[active'[id]], active'[id]) = id
             /\ at'[active'[id]] # "idle"
  <2>1. CASE id = 0
    BY <1>3, <1>4, <1>5, <2>1, Zenon
  <2>2. CASE id # 0
    <3>1. id \in DOMAIN active /\ active'[id] = active[id]
      BY <1>5, <1>6, <2>2, Zenon
    <3>2. active[id] \in Streams \ {s} /\ ConnOf(mockID[active[id]], active[id]) = id
          /\ at[active[id]] # "idle"
      BY <1>1, <3>1, Zenon DEF Registered
    <3> QED BY <1>4, <3>1, <3>2, Zenon
  <2> QED BY <2>1, <2>2, Zenon
<1>7. ASSUME NEW id \in DOMAIN conns
      PROVE  /\ conns[id] \in Streams /\ ConnOf(mockID'[conns[id]], conns[id]) = id
             /\ at'[conns[id]] \in {"loop", "ending"}
  <2>1. conns[id] \in Streams \ {s} /\ ConnOf(mockID[conns[id]], conns[id]) = id
        /\ at[conns[id]] \in {"loop", "ending"}
    BY <1>1, Zenon DEF Registered
  <2> QED BY <1>4, <2>1, Zenon
<1>8. ASSUME NEW t \in Streams, Alone(mockID', at', t)
      PROVE  /\ at'[t] = "loop" => Holds(conns, ConnOf(mockID'[t], t), t)
             /\ (OfGraphQL(mockID'[t]) /\ at'[t] \in {"starting", "loop"} /\ ~gone[t])
                  => Holds(active', ConnOf(mockID'[t], t), t)
  <2>1. CASE t = s
    BY <1>3, <1>4, <1>5, <2>1, Zenon DEF Holds
  <2>2. CASE t # s
    <3>1. /\ Alone(mockID, at, t) /\ at'[t] = at[t] /\ mockID'[t] = mockID[t]
          /\ ConnOf(mockID[t], t) # 0
      BY <1>3, <1>4, <1>8, <2>2, Zenon
    <3>2. ~OfGraphQL(mockID'[t])
      BY <3>1, Zenon DEF ConnOf
    <3> QED BY <1>1, <3>1, <3>2, Zenon DEF Registered
  <2> QED BY <2>1, <2>2, Zenon
<1>9. \A c \in APICallers : \A t \in apiCall'[c].todo : at'[t] \in {"loop", "ending", "cleanup", "ended"}
  <2>1. \A t \in Streams : at[t] \in {"loop", "ending", "cleanup", "ended"} => at'[t] = at[t]
    BY <1>1, <1>4, Zenon
  <2> QED BY <1>1, <2>1, TargetsKept, Zenon DEF api
<1>10. Registered'
  <2>1. conns' = conns /\ gone' = gone /\ gone \in [Streams -> BOOLEAN]
    BY <1>1, Zenon DEF Registered
  <2> QED BY <1>6, <1>7, <1>8, <1>9, <2>1, Zenon DEF Registered
<1> QED BY <1>2, <1>10, Zenon DEF StreamInv, SoundAfter

\* An API call takes its snapshot of the targets.
LEMMA BeginCallStep ==
    ASSUME StreamInv, NEW c \in APICallers, BeginCall(c)
    PROVE  StreamInv'
<1>1. /\ StreamTypes /\ Registered /\ \A t \in Streams : SoundStream(t)
      /\ mockID' = mockID /\ conns' = conns /\ at' = at /\ active' = active /\ gone' = gone
      /\ calls' = calls + 1
      /\ UNCHANGED <<mockID, at, idx, timer, pushCh, closeCh, pushed, events, accepted>>
  BY Zenon DEF StreamInv, BeginCall, chans, wire
<1>2. PICK op, id, todo :
        /\ op \in {"push", "close", "abort"} /\ id \in DOMAIN conns
        /\ todo = find(id) \/ todo = byMock(mockID[conns[id]])
        /\ apiCall' = [apiCall EXCEPT ![c] =
             [op |-> op, data |-> IF op = "push" THEN calls + 1 ELSE 0, todo |-> todo]]
  BY Zenon DEF BeginCall
<1> DEFINE asked == [op |-> op, data |-> IF op = "push" THEN calls + 1 ELSE 0, todo |-> todo]
<1>3. todo \subseteq Streams /\ \A t \in todo : at[t] \in {"loop", "ending"}
  <2>1. \A k \in DOMAIN conns : conns[k] \in Streams /\ at[conns[k]] \in {"loop", "ending"}
    BY <1>1, Zenon DEF Registered
  <2>2. \A t \in todo : \E k \in DOMAIN conns : t = conns[k]
    BY <1>2, Zenon DEF find, byMock
  <2> QED BY <2>1, <2>2, Zenon
<1>4. asked \in Calls /\ asked.todo = todo
  BY <1>1, <1>2, <1>3 DEF StreamTypes, Calls
<1>5. apiCall' \in [APICallers -> {NoCall} \cup Calls] /\ calls' \in Nat
      /\ apiCall'[c] = asked /\ \A d \in APICallers \ {c} : apiCall'[d] = apiCall[d]
  <2>1. apiCall' = [apiCall EXCEPT ![c] = asked]
    BY <1>2, Zenon
  <2> HIDE DEF asked
  <2> QED BY <1>1, <1>4, <2>1 DEF StreamTypes
<1> HIDE DEF asked
<1>6. SoundAfter
  BY <1>1, <1>5, StreamsKept, Zenon
<1>7. \A d \in APICallers : \A t \in apiCall'[d].todo : at[t] \in {"loop", "ending", "cleanup", "ended"}
  BY <1>1, <1>3, <1>4, <1>5, Zenon DEF Registered
<1>8. Registered'
  BY <1>1, <1>7, Zenon DEF Registered
<1> QED BY <1>6, <1>8, Zenon DEF StreamInv, SoundAfter

\* A push or a close reaches one of the targets.
LEMMA DeliverStep ==
    ASSUME StreamInv, NEW c \in APICallers, NEW s \in Streams, Deliver(c, s)
    PROVE  StreamInv'
<1>1. /\ StreamTypes /\ Registered /\ \A t \in Streams : SoundStream(t)
      /\ mockID' = mockID /\ conns' = conns /\ at' = at /\ active' = active /\ gone' = gone
      /\ calls' = calls /\ s \in apiCall[c].todo
      /\ UNCHANGED <<mockID, at, idx, timer, pushed, events>>
  BY Zenon DEF StreamInv, Deliver, wire
<1>2. /\ apiCall[c] \in Calls /\ at[s] \in {"loop", "ending", "cleanup", "ended"}
      /\ apiCall[c].data \in Nat /\ apiCall[c].op \in {"push", "close", "abort"}
  BY <1>1, TodoTyped, Zenon DEF Registered, Calls
<1>3. /\ apiCall' \in [APICallers -> {NoCall} \cup Calls]
      /\ \A d \in APICallers : apiCall'[d].todo \subseteq apiCall[d].todo
  <2> DEFINE rest == [apiCall[c] EXCEPT !.todo = apiCall[c].todo \ {s}]
  <2>1. rest \in Calls /\ rest.todo = apiCall[c].todo \ {s}
    BY <1>2, Zenon DEF Calls
  <2>2. NoCall.todo = {}
    BY Zenon DEF NoCall
  <2>3. PICK new \in {NoCall, rest} : apiCall' = [apiCall EXCEPT ![c] = new]
    <3>1. CASE apiCall[c].todo \ {s} = {}
      <4>1. apiCall' = [apiCall EXCEPT ![c] = NoCall]
        BY <3>1, Zenon DEF Deliver
      <4> QED BY <4>1, Zenon
    <3>2. CASE apiCall[c].todo \ {s} # {}
      <4>1. apiCall' = [apiCall EXCEPT ![c] = rest]
        BY <3>2, Zenon DEF Deliver
      <4> QED BY <4>1, Zenon
    <3> QED BY <3>1, <3>2, Zenon
  <2> HIDE DEF rest
  <2>4. new \in {NoCall} \cup Calls /\ new.todo \subseteq apiCall[c].todo
    BY <2>1, <2>2, <2>3, Zenon
  <2> QED BY <1>1, <2>3, <2>4, Zenon DEF StreamTypes
<1>4. PICK pch, cch, ac :
        /\ pushCh' = [pushCh EXCEPT ![s] = pch] /\ closeCh' = [closeCh EXCEPT ![s] = cch]
        /\ accepted' = [accepted EXCEPT ![s] = ac]
        /\ pch \in Seq(Nat) /\ cch \in Seq({0, 1}) /\ ac \in Seq(Nat)
        /\ Sound(mockID[s], at[s], idx[s], timer[s], pch, cch, pushed[s], events[s], ac)
  <2>1. /\ Sound(mockID[s], at[s], idx[s], timer[s], pushCh[s], closeCh[s], pushed[s], events[s], accepted[s])
        /\ pushCh[s] \in Seq(Nat) /\ closeCh[s] \in Seq({0, 1}) /\ accepted[s] \in Seq(Nat)
        /\ pushed[s] \in Seq(Nat)
        /\ pushCh = [pushCh EXCEPT ![s] = pushCh[s]] /\ closeCh = [closeCh EXCEPT ![s] = closeCh[s]]
        /\ accepted = [accepted EXCEPT ![s] = accepted[s]]
    BY <1>1, SelfUpdates, Zenon DEF SoundStream, StreamTypes
  <2>2. CASE apiCall[c].op = "push" /\ Len(pushCh[s]) < PushCap
    <3> DEFINE d == apiCall[c].data
    <3>1. /\ pushCh' = [pushCh EXCEPT ![s] = Append(pushCh[s], d)]
          /\ accepted' = [accepted EXCEPT ![s] = Append(accepted[s], d)]
          /\ closeCh' = closeCh
      BY <2>2, Zenon DEF Deliver, PushTo
    <3>2. Append(pushCh[s], d) \in Seq(Nat) /\ Append(accepted[s], d) \in Seq(Nat) /\ d \in Nat
      BY <1>2, <2>1
    <3> HIDE DEF d
    <3>3. Sound(mockID[s], at[s], idx[s], timer[s], Append(pushCh[s], d), closeCh[s], pushed[s],
                events[s], Append(accepted[s], d))
      BY <1>2, <2>1, <2>2, <3>2, AcceptsPush, Zenon
    <3> QED BY <2>1, <3>1, <3>2, <3>3, Zenon
  <2>3. CASE apiCall[c].op = "push" /\ ~(Len(pushCh[s]) < PushCap)
    <3>1. pushCh' = pushCh /\ accepted' = accepted /\ closeCh' = closeCh
      BY <2>3, Zenon DEF Deliver, PushTo
    <3> QED BY <2>1, <3>1, Zenon
  <2>4. CASE apiCall[c].op # "push"
    <3>1. PICK err \in {0, 1} : CloseOf(s, err)
      BY <1>2, <2>4, Zenon DEF Deliver
    <3> DEFINE cch == IF closeCh[s] = << >> THEN <<err>> ELSE closeCh[s]
    <3>2. closeCh' = [closeCh EXCEPT ![s] = cch] /\ pushCh' = pushCh /\ accepted' = accepted
      BY <3>1, Zenon DEF CloseOf
    <3>3. cch \in Seq({0, 1}) /\ Len(cch) <= 1
      <4>1. Len(closeCh[s]) <= 1
        BY <2>1, Zenon DEF Sound
      <4>2. <<err>> \in Seq({0, 1}) /\ Len(<<err>>) = 1
        OBVIOUS
      <4>3. CASE closeCh[s] = << >>
        BY <4>2, <4>3
      <4>4. CASE closeCh[s] # << >>
        BY <2>1, <4>1, <4>4, Zenon
      <4> QED BY <4>3, <4>4, Zenon
    <3> HIDE DEF cch
    <3>4. Sound(mockID[s], at[s], idx[s], timer[s], pushCh[s], cch, pushed[s], events[s], accepted[s])
      BY <2>1, <3>3, Zenon DEF Sound
    <3> QED BY <2>1, <3>2, <3>3, <3>4, Zenon
  <2> QED BY <2>2, <2>3, <2>4, Zenon
<1>5. SoundAfter
  <2>1. Becomes(s, at[s], idx[s], timer[s], pch, cch, pushed[s], events[s], ac)
    BY <1>1, <1>4, SelfUpdates, Zenon DEF Becomes
  <2>2. Typed(at[s], idx[s], timer[s], pch, cch, pushed[s], events[s], ac)
    BY <1>1, <1>4, Fields, Zenon DEF Typed
  <2>3. calls' \in Nat
    BY <1>1, Zenon DEF StreamTypes
  <2> QED BY <1>1, <1>3, <1>4, <2>1, <2>2, <2>3, BecomesSound, Zenon DEF SoundAfter
<1>6. \A d \in APICallers : \A t \in apiCall'[d].todo : at[t] \in {"loop", "ending", "cleanup", "ended"}
  BY <1>1, <1>3, Zenon DEF Registered
<1>7. Registered'
  BY <1>1, <1>6, Zenon DEF Registered
<1> QED BY <1>5, <1>7, Zenon DEF StreamInv, SoundAfter

\* No stream is open at first.
LEMMA InitStreams == StreamInit => StreamInv
<1> SUFFICES ASSUME StreamInit PROVE StreamInv
  BY Zenon
<1>1. StreamTypes
  BY DEF StreamInit, StreamTypes, Labels
<1>2. ASSUME NEW s \in Streams PROVE SoundStream(s)
  <2>1. /\ mockID[s] = NoMock /\ at[s] = "idle" /\ idx[s] = 0 /\ timer[s] = "off"
        /\ pushCh[s] = << >> /\ closeCh[s] = << >> /\ pushed[s] = << >> /\ events[s] = << >>
        /\ accepted[s] = << >>
    BY Zenon DEF StreamInit
  <2>2. LengthOf(NoMock) = 0 /\ PushCap \in Nat
    BY StreamsAssumption, Zenon DEF LengthOf
  <2>3. Sound(NoMock, "idle", 0, "off", << >>, << >>, << >>, << >>, << >>)
    BY <2>2 DEF Sound
  <2> QED BY <2>1, <2>3, Zenon DEF SoundStream
<1>3. Registered
  <2>1. DOMAIN conns = {} /\ DOMAIN active = {} /\ gone \in [Streams -> BOOLEAN]
        /\ \A s \in Streams : at[s] = "idle"
    BY DEF StreamInit
  <2>2. \A c \in APICallers : apiCall[c].todo = {}
    BY Zenon DEF StreamInit, NoCall
  <2> QED BY <2>1, <2>2, Zenon DEF Registered
<1> QED BY <1>1, <1>2, <1>3, Zenon DEF StreamInv

LEMMA NextStreams == StreamInv /\ [StreamNext]_streamVars => StreamInv'
<1> SUFFICES ASSUME StreamInv, [StreamNext]_streamVars PROVE StreamInv'
  BY Zenon
<1>1. CASE StreamNext
  <2>1. ASSUME NEW s \in Streams, Serve(s) PROVE StreamInv'
    BY <2>1, LoopSteps, UnregisterStep, StartStep, CleanupStep, Zenon DEF Serve
  <2>2. ASSUME NEW s \in Streams, TimerFires(s) \/ Receiver(s) \/ Leave(s) \/ ClientSend(s)
        PROVE  StreamInv'
    BY <2>2, QuietSteps, Zenon
  <2>3. ASSUME NEW s \in Streams, NEW m \in Mocks, Open(s, m) \/ Subscribe(s, m) PROVE StreamInv'
    BY <2>3, OpenStep, SubscribeStep, Zenon
  <2>4. ASSUME NEW c \in APICallers, BeginCall(c) \/ \E s \in Streams : Deliver(c, s)
        PROVE  StreamInv'
    BY <2>4, BeginCallStep, DeliverStep, Zenon
  <2> QED BY <1>1, <2>1, <2>2, <2>3, <2>4, CompleteStep, DisconnectStep, Zenon DEF StreamNext
<1>2. CASE UNCHANGED streamVars
  <2>1. /\ StreamTypes /\ Registered /\ \A t \in Streams : SoundStream(t)
        /\ UNCHANGED <<mockID, at, idx, timer, pushCh, closeCh, pushed, events, accepted>>
        /\ UNCHANGED <<conns, active, gone, apiCall, calls>>
    BY <1>2, Zenon DEF StreamInv, streamVars, chans, wire, api
  <2>2. SoundAfter
    BY <2>1, StreamsKept, Zenon DEF StreamTypes
  <2>3. Registered'
    BY <2>1, Zenon DEF Registered
  <2> QED BY <2>2, <2>3, Zenon DEF StreamInv, SoundAfter
<1> QED BY <1>1, <1>2, Zenon

\* What the invariant says of the clients.
LEMMA StreamsInOrder == StreamInv => ClientsSeeStreamsInOrder
<1> SUFFICES ASSUME StreamInv PROVE ClientsSeeStreamsInOrder
  BY Zenon
<1>1. ASSUME NEW s \in Streams
      PROVE  Sound(mockID[s], at[s], idx[s], timer[s], pushCh[s], closeCh[s], pushed[s],
                   events[s], accepted[s])
  BY Zenon DEF StreamInv, SoundStream
<1>2. PushesInOrder
  BY <1>1, Zenon DEF PushesInOrder, Sound
<1>3. EventsInOrder
  BY <1>1, Zenon DEF EventsInOrder, Sound
<1> QED BY <1>2, <1>3, Zenon DEF ClientsSeeStreamsInOrder

\* What it says of the registry.
LEMMA StreamsRegistered == StreamInv => RegistryHasOpenStreams
<1> SUFFICES ASSUME StreamInv PROVE RegistryHasOpenStreams
  BY Zenon
<1>0. StreamTypes /\ Registered /\ \A s \in Streams : SoundStream(s)
  BY Zenon DEF StreamInv
<1>1. \A s : ConnID(s) = ConnOf(mockID[s], s) /\ (Is(s, "graphql") <=> OfGraphQL(mockID[s]))
  BY Zenon DEF ConnID, ConnOf, Is, OfGraphQL
<1>2. StreamsTypeOK
  <2>1. ASSUME NEW s \in Streams
        PROVE  Len(pushCh[s]) <= PushCap /\ Len(closeCh[s]) <= 1 /\ idx[s] <= Length(s)
    <3>1. Len(pushCh[s]) <= PushCap /\ Len(closeCh[s]) <= 1 /\ idx[s] <= LengthOf(mockID[s])
      BY <1>0, Zenon DEF SoundStream, Sound
    <3> QED BY <1>0, <3>1, Fields, Zenon
  <2>2. /\ \A id \in DOMAIN conns : conns[id] \in Streams /\ ConnID(conns[id]) = id
        /\ \A id \in DOMAIN active : active[id] \in Streams /\ ConnID(active[id]) = id
    BY <1>0, <1>1, Zenon DEF Registered
  <2> QED BY <1>0, <2>1, <2>2, Zenon DEF StreamsTypeOK, StreamTypes, Labels
<1>3. NoEndedStreamIsListed
  BY <1>0, Zenon DEF NoEndedStreamIsListed, Registered
<1>4. OpenStreamsAreReachable
  <2>1. SUFFICES ASSUME NEW s \in Streams, OtherOfSameID(s) = {}
        PROVE  /\ at[s] = "loop" => ConnID(s) \in DOMAIN conns /\ conns[ConnID(s)] = s
               /\ (Is(s, "graphql") /\ at[s] \in {"starting", "loop"} /\ ~gone[s]) =>
                      ConnID(s) \in DOMAIN active /\ active[ConnID(s)] = s
    BY Zenon DEF OpenStreamsAreReachable
  <2>2. Alone(mockID, at, s)
    BY <1>1, <2>1, Zenon DEF OtherOfSameID, Alone
  <2> QED BY <1>0, <1>1, <2>2, Zenon DEF Registered, Holds
<1> QED BY <1>2, <1>3, <1>4, Zenon DEF RegistryHasOpenStreams

\* Streams: a push its caller was told was sent is written in order unless the
\* stream ends first, and pushes displace no configured event (Connection.Push,
\* writeStream, runSubscription, serveServerStream, serveBidiStream).
THEOREM StreamsKeepOrder == StreamSpec => []ClientsSeeStreamsInOrder
<1>1. StreamSpec => []StreamInv
  BY InitStreams, NextStreams, PTL DEF StreamSpec
<1> QED BY <1>1, StreamsInOrder, PTL

\* Streams: the registry holds no stream that ended, and one that is open can be
\* found there unless its id was used again (Register, unregister, active).
THEOREM OpenStreamsAreFound == StreamSpec => []RegistryHasOpenStreams
<1>1. StreamSpec => []StreamInv
  BY InitStreams, NextStreams, PTL DEF StreamSpec
<1> QED BY <1>1, StreamsRegistered, PTL
=============================================================================
