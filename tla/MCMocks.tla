------------------------------ MODULE MCMocks ------------------------------
(***************************************************************************)
(* Where the servers' mocks come from, for TLC: the handlers of the        *)
(* management API (MockAdmin), the configuration files and --watch         *)
(* (ConfigWatch), and the matching of HTTP requests with the mocks that    *)
(* are recorded meanwhile (Recording); and the store whose keys the mocks  *)
(* may ask for (StateStore).  A behaviour is one of one of them ("part")   *)
(* while the others stay as they were at first.                            *)
(***************************************************************************)
EXTENDS MCMockAdmin, MCStateStore, Recording

VARIABLES disk, watch, dirs, event, timer, rl, served, edits, muddled
VARIABLE part

Files == INSTANCE ConfigTexts

Watch == INSTANCE ConfigWatch
    WITH Main <- "m", Order <- Files!FileOrder, DirOf <- Files!Directories,
         Texts <- Files!FileTexts, Initial <- Files!InitialFiles,
         Reloads <- {1, 2}, MaxEdits <- 3

\* Two mocks that complement each other in what state they need, of which the
\* second names its request exactly; one that names a request exactly but wants
\* a header; and one that wants much.
MCConfigured == 101 .. 104
MCKinds == {"a", "b"}
MCRejects == [id \in MCConfigured |-> [k \in MCKinds |->
    CASE id = 101 -> IF k = "a" THEN {} ELSE {"path"}
      [] id = 102 -> IF k = "a" THEN {} ELSE {"method", "auth"}
      [] id = 103 -> {"headers"}
      [] id = 104 -> {"body_json", "auth"}]]
MCExact == [id \in MCConfigured |-> CASE id = 102 -> "a" [] id = 103 -> "b" [] OTHER -> ""]
MCWhen == [id \in MCConfigured |-> CASE id = 101 -> "on" [] id = 102 -> "off" [] OTHER -> ""]
MCLists == {<<Given(102)>>, <<Given(102), Given(101)>>, <<Given(103), Given(102), Given(104)>>}

adminVars == <<proto, mocks, cells, call, calls, touched>>
watchVars == <<disk, watch, dirs, event, timer, rl, served, edits, muddled>>
mcVars == <<adminVars, watchVars, recVars, stateVars, part>>

MCInit ==
    /\ part \in {"admin", "watch", "record", "state"}
    /\ Init /\ (part # "admin" => proto = "http")
    /\ Watch!WatchInit
    /\ StateInit
    /\ RecInit /\ store = "off" /\ (recorder <=> Len(live) = 1)
    /\ part # "record" => Len(live) = 2 /\ ~recorder

AdminStep == part = "admin" /\ Next /\ UNCHANGED <<watchVars, recVars, stateVars, part>>
WatchStep == part = "watch" /\ Watch!WatchNext /\ UNCHANGED <<adminVars, recVars, stateVars, part>>

\* While requests are recorded, 102 is the only mock of the configuration, the
\* state does not change and nobody asks for a diagnosis; when they are not, the
\* upstream and the API's edits are left out.
RecordStep ==
    /\ part = "record"
    /\ RecNext
    /\ recorder => /\ Range(live') \cap {Given(101), Given(103)} = {}
                   /\ UNCHANGED store
                   /\ \A c \in Clients : req'[c].near = <<>>
    /\ ~recorder => Len(live') # 1 /\ UNCHANGED <<upstream, copies>>
    /\ UNCHANGED <<adminVars, watchVars, stateVars, part>>

StateStep == part = "state" /\ StateNext /\ UNCHANGED <<adminVars, watchVars, recVars, part>>

MCNext == AdminStep \/ WatchStep \/ RecordStep \/ StateStep

MCSpec == MCInit /\ [][MCNext]_mcVars

----------------------------------------------------------------------------
\* Once the watcher has caught up, every id is served as the last file that
\* defines it says (watchConfig, config.Load).
SettledConfigIsServed == part = "watch" => Watch!SettledConfigIsServed

\* No server ever holds two mocks with one id, or one that does not validate,
\* and a page generated from a body.dir shares its path with no other GET mock
\* of its file (ExpandHTTPMocks, Validate).
LoadedConfigIsValid == part = "watch" => Watch!ServedConfigIsValid /\ Watch!PagesAreUnambiguous
=============================================================================
