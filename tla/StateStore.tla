----------------------------- MODULE StateStore -----------------------------
(***************************************************************************)
(* state.Store, the key-value store behind stateful mocks, with the        *)
(* management API's handlers and the template functions that write it.     *)
(* Only expiry matters here, so an entry is its expiry time; values are    *)
(* left out.  Get reads under the read lock, releases it, and deletes an   *)
(* expired key under the write lock afterwards; All takes the time before  *)
(* it takes the lock; setState writes its keys one by one.                 *)
(***************************************************************************)
EXTENDS Integers, FiniteSets, Functions

CONSTANTS
    Keys,
    Prefixes,       \* the sets of keys a prefix can select; Keys itself for ""
    TTLs,           \* ttls in ticks; a parsed duration may be zero or negative
    Getters,        \* concurrent calls of Get
    Listers,        \* concurrent calls of All
    Posters,        \* concurrent calls of setState
    MaxTime         \* bound: the clock stops here

ASSUME StateStoreAssumption ==
    /\ TTLs \subseteq Int
    /\ Prefixes \subseteq SUBSET Keys
    /\ MaxTime \in Nat \ {0}

VARIABLES
    now,            \* time.Now(), from 1
    data,           \* key -> expiresAt, for the keys that are present
    got,            \* getter -> [key, expiresAt] it has read, or Idle
    sweepTime,      \* lister -> the time it has taken, 0 when idle
    posting,        \* poster -> [keys left to write, ttl]
    timed           \* history: keys that were ever set with a ttl

stateVars == <<now, data, got, sweepTime, posting, timed>>

Never == 0          \* the zero time.Time: no expiry

Idle == [busy |-> 0]

NoPost(p) == posting[p].keys = {}

NewState == data = [k \in {} |-> Never]

-----------------------------------------------------------------------------

expired(expiresAt, t) == expiresAt # Never /\ t > expiresAt

\* The map after key k was assigned; ttl <= 0 means no expiry.
Put(k, ttl) ==
    [j \in DOMAIN data \cup {k} |->
        IF j # k THEN data[j] ELSE IF ttl > 0 THEN now + ttl ELSE Never]

\* SetTTL, and Set with ttl 0: also state_set and state_set_ttl in templates.
SetTTL(k, ttl) ==
    /\ data' = Put(k, ttl)
    /\ timed' = IF ttl > 0 THEN timed \cup {k} ELSE timed
    /\ UNCHANGED <<now, got, sweepTime, posting>>

\* setState decodes a JSON object and writes its keys in map order.
setStateBegin(p, ks, ttl) ==
    /\ NoPost(p)
    /\ posting' = [posting EXCEPT ![p] = [keys |-> ks, ttl |-> ttl]]
    /\ UNCHANGED <<now, data, got, sweepTime, timed>>

setStateKey(p, k) ==
    /\ k \in posting[p].keys
    /\ data' = Put(k, posting[p].ttl)
    /\ timed' = IF posting[p].ttl > 0 THEN timed \cup {k} ELSE timed
    /\ posting' = [posting EXCEPT ![p].keys = @ \ {k}]
    /\ UNCHANGED <<now, got, sweepTime>>

\* Get, under the read lock; an absent key returns at once.
GetRead(g, k) ==
    /\ got[g] = Idle
    /\ k \in DOMAIN data
    /\ got' = [got EXCEPT ![g] = [busy |-> 1, key |-> k, expiresAt |-> data[k]]]
    /\ UNCHANGED <<now, data, sweepTime, posting, timed>>

\* Get after it released the lock: the entry it holds has not expired.
GetReturn(g) ==
    /\ got[g] # Idle
    /\ ~expired(got[g].expiresAt, now)
    /\ got' = [got EXCEPT ![g] = Idle]
    /\ UNCHANGED <<now, data, sweepTime, posting, timed>>

\* It has expired: Get deletes the key, whatever is stored there by now.
GetExpire(g) ==
    /\ got[g] # Idle
    /\ expired(got[g].expiresAt, now)
    /\ data' = Restrict(data, DOMAIN data \ {got[g].key})
    /\ got' = [got EXCEPT ![g] = Idle]
    /\ UNCHANGED <<now, sweepTime, posting, timed>>

\* All takes the time, then the lock, and drops what had expired at that time.
AllBegin(l) ==
    /\ sweepTime[l] = 0
    /\ sweepTime' = [sweepTime EXCEPT ![l] = now]
    /\ UNCHANGED <<now, data, got, posting, timed>>

\* Broken variant of AllSweep: an entry expires one tick early.
AllSweepEarly(l) ==
    /\ sweepTime[l] # 0
    /\ data' = Restrict(data, {k \in DOMAIN data :
                                 data[k] = Never \/ sweepTime[l] < data[k]})
    /\ sweepTime' = [sweepTime EXCEPT ![l] = 0]
    /\ UNCHANGED <<now, got, posting, timed>>

AllSweep(l) ==
    /\ sweepTime[l] # 0
    /\ data' = Restrict(data, {k \in DOMAIN data : ~expired(data[k], sweepTime[l])})
    /\ sweepTime' = [sweepTime EXCEPT ![l] = 0]
    /\ UNCHANGED <<now, got, posting, timed>>

DeleteState(k) ==
    /\ data' = Restrict(data, DOMAIN data \ {k})
    /\ UNCHANGED <<now, got, sweepTime, posting, timed>>

\* ResetPrefix, and Reset for the empty prefix.
ResetPrefix(ks) ==
    /\ data' = Restrict(data, DOMAIN data \ ks)
    /\ UNCHANGED <<now, got, sweepTime, posting, timed>>

Tick ==
    /\ now < MaxTime
    /\ now' = now + 1
    /\ UNCHANGED <<data, got, sweepTime, posting, timed>>

StateInit ==
    /\ now = 1
    /\ NewState
    /\ got = [g \in Getters |-> Idle]
    /\ sweepTime = [l \in Listers |-> 0]
    /\ posting = [p \in Posters |-> [keys |-> {}, ttl |-> 0]]
    /\ timed = {}

LazyRemoval == \/ \E g \in Getters : GetExpire(g)
               \/ \E l \in Listers : AllSweep(l)

StateNext ==
    \/ \E k \in Keys, ttl \in TTLs : SetTTL(k, ttl)
    \/ \E p \in Posters, ks \in SUBSET Keys, ttl \in TTLs :
         setStateBegin(p, ks, ttl)
    \/ \E p \in Posters, k \in Keys : setStateKey(p, k)
    \/ \E g \in Getters, k \in Keys : GetRead(g, k)
    \/ \E g \in Getters : GetReturn(g)
    \/ \E l \in Listers : AllBegin(l)
    \/ LazyRemoval
    \/ \E k \in Keys : DeleteState(k)
    \/ \E ks \in Prefixes : ResetPrefix(ks)
    \/ Tick

StateSpec == StateInit /\ [][StateNext]_stateVars

-----------------------------------------------------------------------------
(* Properties *)

\* Type invariant.
StateTypeOK ==
    /\ now \in 1 .. MaxTime
    /\ DOMAIN data \subseteq Keys
    /\ \A k \in DOMAIN data : data[k] \in Nat
    /\ \A g \in Getters : got[g] # Idle => /\ got[g].key \in Keys
                                           /\ got[g].expiresAt \in Nat
    /\ sweepTime \in [Listers -> Nat]
    /\ posting \in [Posters -> [keys : SUBSET Keys, ttl : TTLs \cup {0}]]
    /\ timed \subseteq Keys

\* A key that was only ever set without a ttl never disappears by itself:
\* lazy expiry, in Get or in All and however the calls interleave, removes
\* only keys that some caller once gave a ttl.
UntimedKeysStay ==
    [][LazyRemoval => DOMAIN data \ DOMAIN data' \subseteq timed]_stateVars

\* All never drops an entry that is still valid, although it compares with a
\* time it took before it waited for the lock.
SweepDropsOnlyExpired ==
    [][\A l \in Listers : AllSweep(l) =>
         \A k \in DOMAIN data \ DOMAIN data' : expired(data[k], now)]_stateVars

\* Lazy expiry in Get and All removes no key that never had a ttl, and All no
\* entry that is still valid.
RemovalIsSafe == UntimedKeysStay /\ SweepDropsOnlyExpired

\* "An expired key is lazily removed from the store": Get removes a key only
\* when the entry stored under it has expired.
GetRemovesOnlyExpired ==
    [][\A g \in Getters : GetExpire(g) =>
         \A k \in DOMAIN data \ DOMAIN data' : expired(data[k], now)]_stateVars

=============================================================================
