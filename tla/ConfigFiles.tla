---------------------------- MODULE ConfigFiles ----------------------------
(* How a set of configuration files becomes one configuration: parsing a     *)
(* file and expanding its body.dir mocks (internal/config/httpbody.go),      *)
(* merging the included files (internal/config/config.go), layering          *)
(* hand-written mocks over those of a schema (internal/configgen) and        *)
(* validating the result (internal/config/validate.go).                      *)
(*                                                                           *)
(* A mock is [id, method, path, ver, sound, listener, dir]: `ver' stands for *)
(* all that its response says, `sound' for every regular expression and      *)
(* base64 field in it being well formed, `dir' is the list of files under    *)
(* its body.dir, and for a page generated from it the one file the page      *)
(* serves.  IDs and paths are sequences of segments; <<>> is the empty       *)
(* string.  Methods are as written in the file: "GET", "get" or "*" (any).   *)
(* A section is a record or NoSection (a nil pointer in the code); "rules"   *)
(* stands for the sections whose list is not called Mocks (SMTP, IMAP, FTP)  *)
(* and "services" for gRPC, whose services are appended.                     *)
EXTENDS Naturals, Sequences, SequencesExt, FiniteSets

Protos == {"http", "rules", "services"}

NoSection == [present |-> FALSE, mocks |-> <<>>, spec |-> "", listeners |-> <<>>, coherent |-> TRUE]

EmptyConfig == [p \in Protos |-> NoSection]

mergeByIDAppends(base, included) == base \o included

\* An entry whose ID is known replaces the (last) entry with that ID in place;
\* any other one is appended.
mergeByID(base, included) ==
    LET place(acc, m) ==
            LET at == {i \in DOMAIN acc : acc[i].id = m.id}
            IN  IF at = {} THEN Append(acc, m)
                ELSE [acc EXCEPT ![CHOOSE i \in at : \A j \in at : j <= i] = m]
    IN  FoldLeft(place, base, included)

\* A protocol the base does not configure is adopted whole; otherwise only the
\* entries of the included section are used.
mergeIncludedConfig(base, inc) ==
    [p \in Protos |->
        IF ~inc[p].present THEN base[p]
        ELSE IF ~base[p].present THEN inc[p]
        ELSE [base[p] EXCEPT !.mocks = IF p = "services" THEN @ \o inc[p].mocks
                                       ELSE mergeByID(@, inc[p].mocks)]]

\* What a generated mock's ID starts with, and the files found.
walkDirMock(m) ==
    [baseID |-> IF m.id # <<>> THEN m.id ELSE IF m.path # <<>> THEN m.path ELSE <<"page">>,
     relFiles |-> m.dir]

\* One mock for each file, and for an index.html a second one at the mock's own
\* path.
expandDirMock(m) ==
    LET baseID == walkDirMock(m).baseID
        page(rel) == [m EXCEPT !.id = baseID \o rel, !.method = "GET", !.path = m.path \o rel,
                               !.dir = <<rel>>]
        index(rel) == [page(rel) EXCEPT !.id = baseID, !.path = m.path]
        pages(rel) == IF Last(rel) = "index.html" THEN <<page(rel), index(rel)>> ELSE <<page(rel)>>
    IN  FlattenSeq([i \in DOMAIN m.dir |-> pages(walkDirMock(m).relFiles[i])])

expandHTTPMock(m) == IF m.dir = <<>> THEN <<m>> ELSE expandDirMock(m)

\* strings.ToUpper
ToUpper(method) == IF method = "get" THEN "GET" ELSE method

\* What the code's map is indexed by.
key(m) == <<ToUpper(m.method), m.path>>

\* Two mocks with one key are refused when a generated one is among them.  The
\* first owner of a key is the one compared with.  A hand-written mock for any
\* method has a key of its own and is not refused at the path of a page.
collides(mocks) ==
    LET out == FlattenSeq([i \in DOMAIN mocks |-> expandHTTPMock(mocks[i])])
        generated == FlattenSeq([i \in DOMAIN mocks |->
                        [k \in DOMAIN expandHTTPMock(mocks[i]) |-> mocks[i].dir # <<>>]])
        first(i) == CHOOSE k \in 1..i : key(out[k]) = key(out[i]) /\ \A j \in 1..(k - 1) : key(out[j]) # key(out[i])
    IN  \E i \in DOMAIN out : first(i) # i /\ (generated[first(i)] \/ generated[i])

ExpandHTTPMocks(mocks) == FlattenSeq([i \in DOMAIN mocks |-> expandHTTPMock(mocks[i])])

\* loadFile: a missing file is an empty configuration, one that does not parse
\* (or whose pages collide) an error.
loadFileFails(file) ==
    \/ file.fate = "broken"
    \/ /\ file.fate = "parses"
       /\ collides(file.sections["http"].mocks)

loadFile(file) ==
    IF file.fate = "missing" THEN EmptyConfig
    ELSE [file.sections EXCEPT !["http"].mocks = ExpandHTTPMocks(@)]

----------------------------------------------------------------------------
(* Validate: the checks whose outcome depends on more than one mock are      *)
(* written out; `sound' and `coherent' stand for the others.                 *)

\* Only lists called Mocks are looked at, and mocks without an ID are not
\* compared.
validateDuplicateIDs(cfg) ==
    \E i, j \in DOMAIN cfg["http"].mocks :
        i < j /\ cfg["http"].mocks[i].id = cfg["http"].mocks[j].id /\ cfg["http"].mocks[i].id # <<>>

\* validateRegexes and validateBase64Fields walk every field of every section.
walkRegexFields(cfg) == \E p \in Protos : \E i \in DOMAIN cfg[p].mocks : ~cfg[p].mocks[i].sound

\* TLS pairs, the record target, protocol versions and the AMQP topology: a
\* section's own settings agree with each other or do not.
validateSections(cfg) == \E p \in Protos : ~cfg[p].coherent

\* Listener names are set and unique, their ports are set and unique (the
\* section's own port is 1 here), and every mock's listener is declared.
validateHTTPListeners(cfg) ==
    LET ls == cfg["http"].listeners
        names == {ls[i].name : i \in DOMAIN ls}
    IN  /\ ls # <<>>
        /\ \/ \E i \in DOMAIN ls : ls[i].name = "" \/ ls[i].port \in {0, 1}
           \/ \E i, j \in DOMAIN ls : i < j /\ (ls[i].name = ls[j].name \/ ls[i].port = ls[j].port)
           \/ \E i \in DOMAIN cfg["http"].mocks : LET m == cfg["http"].mocks[i]
                                                  IN m.listener # "" /\ m.listener \notin names

Validate(cfg) ==
    ~(validateDuplicateIDs(cfg) \/ walkRegexFields(cfg) \/ validateSections(cfg) \/ validateHTTPListeners(cfg))
=============================================================================
