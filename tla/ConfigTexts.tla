---------------------------- MODULE ConfigTexts ----------------------------
(***************************************************************************)
(* What the configuration files of the models hold: the main file "m", the *)
(* file "a" that it may include, and the schema "s" that it may refer to,  *)
(* each in a directory of its own.                                         *)
(***************************************************************************)
EXTENDS ConfigFiles

M(id, path, ver) == [id |-> id, method |-> "GET", path |-> path, ver |-> ver, sound |-> TRUE,
                     listener |-> "", dir |-> <<>>]
Sec(ms) == [present |-> TRUE, mocks |-> ms, spec |-> "", listeners |-> <<>>, coherent |-> TRUE]
File(inc, http, rules) ==
    [fate |-> "parses", include |-> inc,
     sections |-> [p \in Protos |-> IF p = "http" THEN http ELSE IF p = "rules" THEN rules ELSE NoSection]]
Gone == [fate |-> "missing", include |-> <<>>, sections |-> EmptyConfig]
Broken == [fate |-> "broken", include |-> <<>>, sections |-> EmptyConfig]

X(v) == M(<<"x">>, <<"p">>, v)
Y(v) == M(<<"y">>, <<"q">>, v)
Bad == [Y(1) EXCEPT !.sound = FALSE]
Pages(files) == [X(1) EXCEPT !.dir = files]
Beside(method) == [M(<<"z">>, <<"p", "b">>, 1) EXCEPT !.method = method]

FileOrder == <<"a", "m", "s">>
Directories == [a |-> 2, m |-> 1, s |-> 3]

InitialFiles ==
    [m |-> File(<<>>, Sec(<<X(1)>>), Sec(<<X(1)>>)),
     a |-> File(<<>>, Sec(<<X(2), Y(1)>>), NoSection),
     s |-> File(<<>>, Sec(<<Y(3)>>), NoSection)]

\* With an include, with two that overlap, with a schema, with a directory of
\* pages beside a mock for any method at the path of one, with pages that
\* collide, broken, and removed.
FileTexts ==
    [m |-> {File(<<{"a"}>>, Sec(<<X(1), Y(2)>>), Sec(<<X(2)>>)),
            File(<<{"a", "m"}, {"a"}>>, Sec(<<X(1), X(2)>>), NoSection),
            File(<<>>, [Sec(<<X(4)>>) EXCEPT !.spec = "s"], Sec(<<Y(2)>>)),
            File(<<>>, Sec(<<Pages(<<<<"index.html">>, <<"b">>>>), Beside("*")>>), NoSection),
            File(<<>>, Sec(<<Pages(<<<<"b">>>>), Beside("get")>>), NoSection),
            Broken, Gone},
     a |-> {File(<<>>, Sec(<<Y(4), X(3)>>), NoSection), File(<<>>, Sec(<<Bad>>), NoSection), Gone},
     s |-> {File(<<>>, Sec(<<Y(6)>>), NoSection), Gone}]

\* The pages of a directory guide, and those below it.
PageTexts ==
    [m |-> {File(<<>>, Sec(<<Pages(<<<<"guide", "index.html">>, <<"guide", "intro.html">>>>)>>),
                 NoSection)},
     a |-> {}, s |-> {}]
=============================================================================
