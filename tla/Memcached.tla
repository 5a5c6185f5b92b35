----------------------------- MODULE Memcached -----------------------------
(***************************************************************************)
(* A connection of the memcached server (memcachedserver.handleConn): the  *)
(* client pipelines requests, and a storage command is a line followed by  *)
(* a data block.  What the model keeps is the framing: which piece of the  *)
(* input each read takes, and which request each answer belongs to.  The   *)
(* mock only decides the words of an answer and is left out.               *)
(***************************************************************************)
EXTENDS Naturals, Sequences, Functions

CONSTANT MaxRequests

\* Requests a client makes.  "set" stands for set, add and replace, "delete"
\* for delete, incr and decr, "get" also for version, stats and flush_all.
\* "bad" is a storage command with too few words or a refused length, "garbled"
\* one whose length is no number, and "cas" one that this server does not know
\* (cas, append, prepend).  Clients send a block after each of these.
Plain == {"get", "delete", "delete noreply", "unknown", "quit"}
Stores == {"set", "set noreply", "bad", "garbled", "cas"}

VARIABLES
    kinds,      \* the requests made, in order
    input,      \* sent and not yet read: <<"line" or "block", request>>
    owes,       \* the client has sent a storage command without its block
    eof,        \* the client has closed its side
    pc,         \* "read" a line, "block": in ReadFull, "closed"
    current,    \* the request being handled
    replies,    \* requests in the order of the answers to their lines
    refused,    \* requests answered with an error before their block was read
    misread     \* requests whose block was read as a line

memVars == <<kinds, input, owes, eof, pc, current, replies, refused, misread>>

MemInit ==
    /\ kinds = <<>> /\ input = <<>> /\ replies = <<>>
    /\ owes = FALSE /\ eof = FALSE
    /\ pc = "read" /\ current = 0
    /\ refused = {} /\ misread = {}

(***************************************************************************)
(* The client, external: a command line, then the block it announced.      *)
(***************************************************************************)
SendLine(k) ==
    /\ ~eof /\ ~owes /\ Len(kinds) < MaxRequests
    /\ kinds' = Append(kinds, k)
    /\ input' = Append(input, <<"line", Len(kinds) + 1>>)
    /\ owes' = (k \in Stores)
    /\ UNCHANGED <<eof, pc, current, replies, refused, misread>>

SendBlock ==
    /\ ~eof /\ owes
    /\ input' = Append(input, <<"block", Len(kinds)>>)
    /\ owes' = FALSE
    /\ UNCHANGED <<kinds, eof, pc, current, replies, refused, misread>>

Hangup ==
    /\ ~eof /\ eof' = TRUE
    /\ UNCHANGED <<kinds, input, owes, pc, current, replies, refused, misread>>

(***************************************************************************)
(* The server.                                                             *)
(***************************************************************************)
Answer(i) == replies' = Append(replies, i)

\* A handler that answers at once: the request has no block, or its block is
\* left in the input (a fault, too few words, a refused length).
Refuse(i) == Answer(i) /\ refused' = refused \cup {i} /\ pc' = "read"

StoreAnswersFirst(i) ==
    \/ Refuse(i)
    \/ /\ kinds[i] # "bad"
       /\ Answer(i) /\ pc' = "read" /\ UNCHANGED refused

\* handleStore, to the point where it has read the command's words.
handleStore(i) ==
    \/ Refuse(i)                                \* maybeInjectFault, len(parts) < 5
    \/ /\ kinds[i] # "bad"
       /\ pc' = "block" /\ UNCHANGED <<replies, refused>>

\* The rest of handleStore: ReadFull has the block, the status is written
\* unless the client said noreply.  A length that is no number is read as 0, so
\* that two bytes are taken: all of an empty block, or the beginning of another.
ReadBlock ==
    /\ pc = "block" /\ input # <<>>
    /\ \/ input' = Tail(input)
       \/ kinds[current] = "garbled" /\ input' = input
    /\ pc' = "read"
    /\ IF kinds[current] = "set noreply" THEN UNCHANGED replies ELSE Answer(current)
    /\ UNCHANGED <<kinds, owes, eof, current, refused, misread>>

handleSimpleMutation(i) ==
    \/ Refuse(i)                                \* maybeInjectFault
    \/ /\ pc' = "read" /\ UNCHANGED refused
       /\ IF kinds[i] = "delete noreply" THEN UNCHANGED replies ELSE Answer(i)

\* The loop of handleConn: a line is read and dispatched on its first word.
\* A block that was left in the input is such a line: blank, or no command.
ReadLine ==
    /\ pc = "read" /\ input # <<>>
    /\ input' = Tail(input)
    /\ LET i == Head(input)[2] IN
       IF Head(input)[1] = "block"
       THEN /\ misread' = misread \cup {i}
            /\ Answer(i) \/ UNCHANGED replies
            /\ UNCHANGED <<pc, current, refused>>
       ELSE /\ current' = i /\ UNCHANGED misread
            /\ CASE kinds[i] = "quit" -> pc' = "closed" /\ UNCHANGED <<replies, refused>>
                 [] kinds[i] \in {"get", "unknown"} -> Answer(i) /\ UNCHANGED <<pc, refused>>
                 [] kinds[i] = "cas" -> Refuse(i)
                 [] kinds[i] \in Stores \ {"cas"} -> handleStore(i)
                 [] OTHER -> handleSimpleMutation(i)
    /\ UNCHANGED <<kinds, owes, eof>>

\* A read of the drained, closed input fails; ReadFull then returns to the
\* loop, whose read fails too.
ReadFails ==
    /\ pc # "closed" /\ eof /\ input = <<>>
    /\ pc' = "closed"
    /\ UNCHANGED <<kinds, input, owes, eof, current, replies, refused, misread>>

MemNext ==
    \/ \E k \in Plain \cup Stores : SendLine(k)
    \/ SendBlock \/ Hangup \/ ReadLine \/ ReadBlock \/ ReadFails

MemSpec == MemInit /\ [][MemNext]_memVars

----------------------------------------------------------------------------
\* A data block is taken for a command line only when its command was refused
\* before the block was read (by a fault, by an error answer of handleStore, or
\* as an unknown command), or gave a length that is no number.
BlocksAreNotCommands == \A i \in misread : i \in refused \/ kinds[i] = "garbled"

Wanted == {"get", "delete", "unknown", "set", "garbled"}

\* As long as no block was taken for a line, the n-th answer belongs to the
\* n-th request that has one: answers keep the order of a pipelining client's
\* requests, and noreply requests are answered only by a fault.
AnswersArePaired ==
    pc # "closed" /\ misread = {} =>
        LET done == {i \in DOMAIN kinds : i < current \/ (i = current /\ pc = "read")} IN
        /\ Range(replies) = {i \in done : kinds[i] \in Wanted \/ i \in refused}
        /\ \A a, b \in DOMAIN replies : a < b => replies[a] < replies[b]

\* memcached: a data block is read as a command only after its command was
\* refused or gave no usable length, and as long as none was, answers come in
\* the order of the requests that have one (handleStore's early returns, and
\* the error of Atoi that it ignores).
FramingIsKept == BlocksAreNotCommands /\ AnswersArePaired
============================================================================
