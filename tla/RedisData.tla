----------------------------- MODULE RedisData -----------------------------
(* The stateful mode of the Redis server: the in-memory data store           *)
(* (redisserver/datastore.go) and the commands on it                         *)
(* (redisserver/command_stateful.go).  A command runs under the store's lock,*)
(* so it is one step; time passes between commands.                          *)
(*                                                                           *)
(* A string is [num, n, len]: whether ParseInt accepts it, its value then,   *)
(* and its length.  Numbers have the width MinInt..MaxInt instead of int64   *)
(* and wrap around as Go's do.  expiresAt is a time, 0 for never.            *)
EXTENDS Integers, Sequences, SequencesExt, FiniteSets, FiniteSetsExt

CONSTANTS
    RKeys, Fields,
    MaxInt,        \* largest number; the smallest is -MaxInt - 1
    MaxTime,       \* bound on the clock
    MaxLen         \* bound on the length of a list or string

MinInt == -MaxInt - 1

VARIABLES
    data,      \* [key -> entry]
    now,       \* the clock, from 1
    reply      \* ghost: the last command, its key and what it answered

redisVars == <<data, now, reply>>

Absent == [kind |-> "none", str |-> <<>>, hash |-> {}, list |-> <<>>, expiresAt |-> 0]

Str(num, n, len) == <<num, n, len>>

Number(n) == Str(TRUE, n, IF n < 0 THEN 2 ELSE 1)

Wrap(n) == ((n - MinInt) % (MaxInt - MinInt + 1)) + MinInt

expired(e) == e.expiresAt # 0 /\ now > e.expiresAt

\* getLocked: an entry that has expired is deleted and not found.
getLocked(k) == IF expired(data[k]) THEN Absent ELSE data[k]

Answer(cmd, k, val) == reply' = [cmd |-> cmd, key |-> k, val |-> val]

Put(k, e) == data' = [data EXCEPT ![k] = e]

\* A command finds an entry of its kind, or none; else it answers WRONGTYPE
\* (an expired entry it looked at is gone either way).
Typed(cmd, k, kind, Do(_)) ==
    LET e == getLocked(k)
    IN  IF e.kind \in {"none", kind} THEN Do(e)
        ELSE Put(k, e) /\ Answer(cmd, k, "WRONGTYPE")

----------------------------------------------------------------------------
(* Strings, counters, expiry.                                                *)

\* EX and PX give a lifetime; one that is not positive means none.
cmdSet(k, v, ttl) ==
    /\ Put(k, [Absent EXCEPT !.kind = "string", !.str = v, !.expiresAt = IF ttl > 0 THEN now + ttl ELSE 0])
    /\ Answer("SET", k, "OK")

cmdGet(k) ==
    LET found(e) == Put(k, e) /\ Answer("GET", k, IF e.kind = "none" THEN "nil" ELSE "value")
    IN  Typed("GET", k, "string", found)

cmdDel(k) == Put(k, Absent) /\ Answer("DEL", k, IF getLocked(k).kind = "none" THEN "0" ELSE "1")

cmdExists(k) == Put(k, getLocked(k)) /\ Answer("EXISTS", k, IF getLocked(k).kind = "none" THEN "0" ELSE "1")

\* A lifetime of zero or less puts the end at or before now; 0 is no time at
\* which anything happens here, so an end before the clock's start is time -1.
cmdExpire(k, secs) ==
    LET e == getLocked(k)
        end == IF now + secs <= 0 THEN -1 ELSE now + secs
    IN  IF e.kind = "none" THEN Put(k, e) /\ Answer("EXPIRE", k, "0")
        ELSE Put(k, [e EXCEPT !.expiresAt = end]) /\ Answer("EXPIRE", k, "1")

cmdTTL(k) ==
    LET e == getLocked(k)
    IN  /\ Put(k, e)
        /\ Answer("TTL", k, IF e.kind = "none" THEN "-2" ELSE IF e.expiresAt = 0 THEN "-1" ELSE "left")

cmdPersist(k) ==
    LET e == getLocked(k)
    IN  IF e.kind = "none" \/ e.expiresAt = 0 THEN Put(k, e) /\ Answer("PERSIST", k, "0")
        ELSE Put(k, [e EXCEPT !.expiresAt = 0]) /\ Answer("PERSIST", k, "1")

cmdIncrByAnew(k, delta) ==
    LET add(e) ==
            LET old == IF e.kind = "none" THEN Number(0) ELSE e.str
            IN  IF ~old[1] THEN Put(k, e) /\ Answer("INCRBY", k, "not an integer")
                ELSE /\ Put(k, [Absent EXCEPT !.kind = "string", !.str = Number(Wrap(old[2] + delta))])
                     /\ Answer("INCRBY", k, "value")
    IN  Typed("INCRBY", k, "string", add)

\* An absent key counts from 0; the sum wraps; the lifetime stays.
cmdIncrBy(k, delta) ==
    LET add(e) ==
            LET old == IF e.kind = "none" THEN Number(0) ELSE e.str
            IN  IF ~old[1] THEN Put(k, e) /\ Answer("INCRBY", k, "not an integer")
                ELSE /\ Put(k, [e EXCEPT !.kind = "string", !.str = Number(Wrap(old[2] + delta))])
                     /\ Answer("INCRBY", k, "value")
    IN  Typed("INCRBY", k, "string", add)

\* A letter is appended: the result is no number.
cmdAppend(k) ==
    LET append(e) ==
            /\ (IF e.kind = "none" THEN 0 ELSE e.str[3]) < MaxLen
            /\ Put(k, [e EXCEPT !.kind = "string",
                                !.str = Str(FALSE, 0, (IF e.kind = "none" THEN 0 ELSE e.str[3]) + 1)])
            /\ Answer("APPEND", k, "value")
    IN  Typed("APPEND", k, "string", append)

----------------------------------------------------------------------------
(* Hashes: the fields that are set.                                          *)

cmdHSet(k, f) ==
    LET set(e) == /\ Put(k, [e EXCEPT !.kind = "hash", !.hash = @ \cup {f}])
                  /\ Answer("HSET", k, IF f \in e.hash THEN "0" ELSE "1")
    IN  Typed("HSET", k, "hash", set)

cmdHGet(k, f) ==
    LET get(e) == Put(k, e) /\ Answer("HGET", k, IF f \in e.hash THEN "value" ELSE "nil")
    IN  Typed("HGET", k, "hash", get)

cmdHGetAll(k) ==
    LET all(e) == Put(k, e) /\ Answer("HGETALL", k, IF e.hash = {} THEN "nil" ELSE "value")
    IN  Typed("HGETALL", k, "hash", all)

\* The hash stays when its last field goes.
cmdHDel(k, f) ==
    LET del(e) == /\ Put(k, [e EXCEPT !.hash = @ \ {f}])
                  /\ Answer("HDEL", k, IF f \in e.hash THEN "1" ELSE "0")
    IN  Typed("HDEL", k, "hash", del)

cmdHExists(k, f) ==
    LET has(e) == Put(k, e) /\ Answer("HEXISTS", k, IF f \in e.hash THEN "1" ELSE "0")
    IN  Typed("HEXISTS", k, "hash", has)

----------------------------------------------------------------------------
(* Lists.                                                                    *)

\* LPUSH puts its arguments in front one after the other, RPUSH appends them.
push(k, left, vals) ==
    LET do(e) == /\ Len(e.list) + Len(vals) <= MaxLen
                 /\ Put(k, [e EXCEPT !.kind = "list",
                                     !.list = IF left THEN Reverse(vals) \o @ ELSE @ \o vals])
                 /\ Answer("PUSH", k, "value")
    IN  Typed("PUSH", k, "list", do)

normalizeListIndex(i, n) == IF i < 0 THEN i + n ELSE i

\* The elements asked for, or "panic" where make is given a negative length.
Slice(list, from, to) ==
    LET n == Len(list)
        start == normalizeListIndex(from, n)
        stop == Min({normalizeListIndex(to, n), n - 1})
        first == Max({start, 0})
    IN  IF start > normalizeListIndex(to, n) \/ start >= n \/ n = 0 THEN <<>>
        ELSE IF stop - first + 1 < 0 THEN <<"panic">>
        ELSE SubSeq(list, first + 1, stop + 1)

cmdLRange(k, from, to) ==
    LET range(e) == Put(k, e) /\ Answer("LRANGE", k, CASE Slice(e.list, from, to) = <<>> -> "nil"
                                                              [] Slice(e.list, from, to) = <<"panic">> -> "panic"
                                                              [] OTHER -> "value")
    IN  Typed("LRANGE", k, "list", range)

cmdLLen(k) ==
    LET len(e) == Put(k, e) /\ Answer("LLEN", k, IF e.list = <<>> THEN "nil" ELSE "value")
    IN  Typed("LLEN", k, "list", len)

----------------------------------------------------------------------------
\* FLUSHDB, FLUSHALL and POST /api/reset.
Flush == data' = [k \in RKeys |-> Absent] /\ Answer("FLUSH", "", "OK")

Tick == now < MaxTime /\ now' = now + 1 /\ UNCHANGED <<data, reply>>

Indexes == -(MaxLen + 2)..(MaxLen + 1)

\* wrongArgsErr and a number that does not parse end a command at once.
Malformed(k) == UNCHANGED data /\ Answer("SET", k, "not an integer")

handleStateful(k) ==
    \/ \E ttl \in {-1, 0, 1} : \E v \in {Number(MaxInt), Str(FALSE, 0, 1)} : cmdSet(k, v, ttl)
    \/ cmdGet(k) \/ cmdDel(k) \/ cmdExists(k) \/ cmdTTL(k) \/ cmdPersist(k) \/ cmdAppend(k)
    \/ \E secs \in {-1, 1} : cmdExpire(k, secs)
    \/ \E delta \in {-1, 1} : cmdIncrBy(k, delta)
    \/ \E f \in Fields : cmdHSet(k, f) \/ cmdHGet(k, f) \/ cmdHDel(k, f) \/ cmdHExists(k, f)
    \/ cmdHGetAll(k)
    \/ \E left \in BOOLEAN, vals \in {<<"a">>, <<"b", "c">>} : push(k, left, vals)
    \/ \E from, to \in Indexes : cmdLRange(k, from, to)
    \/ cmdLLen(k) \/ Malformed(k)

RedisInit == data = [k \in RKeys |-> Absent] /\ now = 1 /\ reply = [cmd |-> "", key |-> "", val |-> ""]

RedisNext == Tick \/ (UNCHANGED now /\ (Flush \/ \E k \in RKeys : handleStateful(k)))

RedisSpec == RedisInit /\ [][RedisNext]_redisVars

----------------------------------------------------------------------------
Live(k) == data[k].kind # "none" /\ ~(data[k].expiresAt # 0 /\ now > data[k].expiresAt)

\* A command that answers with data, or finds a key, does so only for a key that
\* was there and whose time had not run out (or that the command itself wrote).
ExpiredKeysAreGone ==
    [][reply'.val \in {"value", "1", "left"} /\ reply'.cmd \notin {"HSET", "PUSH", "INCRBY", "APPEND"}
       /\ now' = now => Live(reply'.key)]_redisVars

\* A command that fails leaves every key as a reader would find it.
FailuresChangeNothing ==
    [][reply'.val \in {"WRONGTYPE", "not an integer"} /\ now' = now =>
         \A k \in RKeys : Live(k)' = Live(k) /\ (Live(k) => data'[k] = data[k])]_redisVars

\* Only SET, EXPIRE, PERSIST and removal change when a key's time runs out:
\* counting, appending, pushing and setting fields keep it.
LifetimeIsKept ==
    [][reply'.cmd \notin {"SET", "DEL", "EXPIRE", "PERSIST", "FLUSH"} =>
         \A k \in RKeys : Live(k) => data'[k].expiresAt = data[k].expiresAt]_redisVars

LRangeReference(list, from, to) ==
    LET pos(i) == IF i < 0 THEN Len(list) + i ELSE i
        wanted == {i \in 0..(Len(list) - 1) : pos(from) <= i /\ i <= pos(to)}
    IN  IF wanted = {} THEN <<>> ELSE SubSeq(list, Min(wanted) + 1, Max(wanted) + 1)

\* What LRANGE answers is the elements whose position is between the two
\* indexes, a negative index counting from the end.
LRangeAnswersAreRight ==
    \A k \in RKeys : \A from, to \in Indexes :
        Slice(data[k].list, from, to) \in {LRangeReference(data[k].list, from, to), <<"panic">>}

\* LRANGE always has an answer, as it does in Redis.
LRangeIsRedis ==
    \A k \in RKeys : \A from, to \in Indexes :
        Slice(data[k].list, from, to) = LRangeReference(data[k].list, from, to)
=============================================================================
