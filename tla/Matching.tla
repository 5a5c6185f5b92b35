------------------------------ MODULE Matching ------------------------------
(***************************************************************************)
(* How mocks' patterns are matched against what a client sends: the path   *)
(* patterns of the HTTP engine, the topic filters of AMQP, MQTT and NATS   *)
(* and the one-star globs that seven servers share.  A path, topic or      *)
(* subject is the sequence of its segments and a key the sequence of its   *)
(* characters.  "probe" is one question put to the matchers; its answer is *)
(* a function of the probe alone.                                          *)
(***************************************************************************)
EXTENDS Naturals, Sequences, FiniteSets, SequencesExt

CONSTANTS
    Literals,   \* segments that stand for themselves
    Captures,   \* segments of the form {name}
    Letters,    \* the characters of keys
    MaxLength   \* bound: the segments or characters of a pattern and of a subject

VARIABLE probe

matchingVars == <<probe>>

UpTo(S) == UNION {[1..n -> S] : n \in 1..MaxLength}

MatchingInit == probe \in [pattern : UpTo(Literals \cup Captures \cup {"*", "#"}),
                           subject : UpTo(Literals)]
                   \cup [pattern : UpTo(Letters \cup {"*"}), subject : UpTo(Letters)]

----------------------------------------------------------------------------
\* A plausible bug: "#" takes at least one word.
topicMatchTakesOne(pattern, key) ==
    LET from[i \in 1..(Len(pattern) + 1), j \in 1..(Len(key) + 1)] ==
            IF i > Len(pattern) THEN j > Len(key)
            ELSE IF pattern[i] = "#"
            THEN i = Len(pattern) \/ \E k \in (j + 1)..(Len(key) + 1) : from[i + 1, k]
            ELSE /\ j <= Len(key)
                 /\ pattern[i] \in {"*", key[j]}
                 /\ from[i + 1, j + 1]
    IN  from[1, 1]

\* AMQP: "*" is one word, "#" any number of words, anywhere.
topicMatchSegments(pattern, key) ==
    LET from[i \in 1..(Len(pattern) + 1), j \in 1..(Len(key) + 1)] ==
            IF i > Len(pattern) THEN j > Len(key)
            ELSE IF pattern[i] = "#"
            THEN i = Len(pattern) \/ \E k \in j..(Len(key) + 1) : from[i + 1, k]
            ELSE /\ j <= Len(key)
                 /\ pattern[i] \in {"*", key[j]}
                 /\ from[i + 1, j + 1]
    IN  from[1, 1]

\* An exchange's type decides how a binding's pattern is read.
bindingMatches(exchangeType, pattern, routingKey) ==
    \/ exchangeType = "fanout" \/ pattern = <<>>
    \/ exchangeType = "topic" /\ topicMatchSegments(pattern, routingKey)
    \/ exchangeType = "direct" /\ pattern = routingKey

\* What a pattern's {name} segments hold; a later segment of the same name
\* overwrites an earlier one.
captured(pattern, subject, upto) ==
    [c \in Captures \cap {pattern[i] : i \in 1..upto} |->
        subject[CHOOSE i \in 1..upto : /\ pattern[i] = c
                                       /\ \A j \in (i + 1)..upto : pattern[j] # c]]

NoMatch == [ok |-> FALSE, params |-> [c \in {} |-> ""]]

\* matchMQTTTopic (one = "+", rest = "#") and matchNATSSubject (one = "*",
\* rest = ">") are the same loop over the segments.
matchLevels(pattern, subject, one, rest) ==
    LET stops == {i \in DOMAIN pattern : pattern[i] = rest}
        upto == IF stops = {} THEN Len(pattern)
                ELSE (CHOOSE i \in stops : \A j \in stops : i <= j) - 1
        fits == \A i \in 1..upto :
                    i <= Len(subject) /\ pattern[i] \in Captures \cup {one, subject[i]}
    IN  IF pattern = subject THEN [NoMatch EXCEPT !.ok = TRUE]
        ELSE IF fits /\ (stops # {} \/ Len(pattern) = Len(subject))
        THEN [ok |-> TRUE, params |-> captured(pattern, subject, upto)]
        ELSE NoMatch

\* HTTP: one segment of the pattern per segment of the path.
matchPathSegments(pattern, path) ==
    IF /\ Len(pattern) = Len(path)
       /\ \A i \in DOMAIN pattern : pattern[i] \in Captures \cup {"*", path[i]}
    THEN [ok |-> TRUE, params |-> captured(pattern, path, Len(path))]
    ELSE NoMatch

\* HTTP: a last "*" stands for any path under the prefix, which is compared
\* literally, wildcards and captures included.
matchPath(pattern, path) ==
    IF Last(pattern) = "*"
    THEN [NoMatch EXCEPT !.ok = IsPrefix(Front(pattern), path)]
    ELSE IF \E i \in DOMAIN pattern : pattern[i] \in Captures \cup {"*"}
    THEN matchPathSegments(pattern, path)
    ELSE [NoMatch EXCEPT !.ok = pattern = path]

\* strings.SplitN(pattern, "*", 2): what is before the first star must begin
\* the key and what is after it must end the key.
globMatch(pattern, key) ==
    LET stars == {i \in DOMAIN pattern : pattern[i] = "*"}
        star == CHOOSE i \in stars : \A j \in stars : i <= j
    IN  IF stars = {} THEN pattern = key
        ELSE /\ IsPrefix(SubSeq(pattern, 1, star - 1), key)
             /\ IsSuffix(SubSeq(pattern, star + 1, Len(pattern)), key)

----------------------------------------------------------------------------
\* The segments of the pattern, replaced by what they captured.
Substitute(pattern, params) ==
    [i \in DOMAIN pattern |->
        IF pattern[i] \in DOMAIN params THEN params[pattern[i]] ELSE pattern[i]]

Renamed(pattern, from, to) ==
    [i \in DOMAIN pattern |-> IF pattern[i] = from THEN to ELSE pattern[i]]

\* A topic matches an AMQP pattern exactly when its words can be shared out
\* among the pattern's segments in order: one word for a literal or "*", any
\* number, none included, for "#" (topicMatchSegments).
TopicsAreSharedOut ==
    LET p == probe.pattern
        k == probe.subject
        Shares == {cut \in [0..Len(p) -> 0..Len(k)] :
                      /\ cut[0] = 0 /\ cut[Len(p)] = Len(k)
                      /\ \A i \in DOMAIN p :
                            IF p[i] = "#" THEN cut[i] >= cut[i - 1]
                            ELSE cut[i] = cut[i - 1] + 1 /\ p[i] \in {"*", k[cut[i]]}}
    IN  bindingMatches("topic", p, k) <=> Shares # {}

\* Matchers that were written separately agree where they mean the same: with
\* a "#" only at the end, the levels of MQTT and of NATS (whose "#" is ">")
\* match what AMQP's topics match, and so does HTTP's trailing "/*" in the
\* place of the "#" after literals, the bare prefix included (matchMQTTTopic,
\* matchNATSSubject, matchPath, topicMatchSegments).
MatchersAgree ==
    LET p == probe.pattern
        s == probe.subject
    IN  /\ (\A i \in DOMAIN p : p[i] \notin Captures /\ (p[i] = "#" => i = Len(p))) =>
              /\ matchLevels(Renamed(p, "*", "+"), s, "+", "#").ok <=> topicMatchSegments(p, s)
              /\ matchLevels(Renamed(p, "#", ">"), s, "*", ">").ok <=> topicMatchSegments(p, s)
        /\ (Last(p) = "#" /\ Range(Front(p)) \subseteq Literals) =>
              (matchPath(Append(Front(p), "*"), s).ok <=> topicMatchSegments(p, s))

\* What a pattern of literals and distinct captures captured, put in the
\* captures' places, is the subject: templates see the real segments
\* (matchPathSegments, matchMQTTTopic, matchNATSSubject).
CapturesRebuildTheSubject ==
    LET p == probe.pattern
        Rebuilds(m) == m.ok => Substitute(p, m.params) = probe.subject
    IN  (IsInjective(p) /\ Range(p) \subseteq Literals \cup Captures) =>
            /\ Rebuilds(matchPath(p, probe.subject))
            /\ Rebuilds(matchLevels(p, probe.subject, "+", "#"))

\* A one-star glob matches a key exactly when something, or nothing, can
\* stand in the star's place, or when the text before the star ends with what
\* the text after it begins with and the key has that common part once: "a*a"
\* matches "a" (matchRedisKey and the six matchers like it).
GlobsAreRight ==
    LET p == probe.pattern
        k == probe.subject
        star == CHOOSE i \in DOMAIN p : p[i] = "*"
        head == SubSeq(p, 1, star - 1)
        tail == SubSeq(p, star + 1, Len(p))
    IN  Cardinality({i \in DOMAIN p : p[i] = "*"}) = 1 =>
            (globMatch(p, k) <=>
                \/ \E between \in {<<>>} \cup UpTo(Letters) : k = head \o between \o tail
                \/ \E n \in 1..Len(k) :
                      /\ n <= Len(head) /\ n <= Len(tail)
                      /\ SubSeq(head, Len(head) - n + 1, Len(head)) = SubSeq(tail, 1, n)
                      /\ k = head \o SubSeq(tail, n + 1, Len(tail)))
=============================================================================
