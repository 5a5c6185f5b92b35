---------------------------- MODULE ConfigWatch ----------------------------
(* mockly start --watch: the configuration is loaded, the servers started    *)
(* (cmd/mockly/start.go), and from then on every change in a watched         *)
(* directory arms a timer whose expiry reloads the files and hands each      *)
(* running server its new mocks (cmd/mockly/watch.go).                       *)
(*                                                                           *)
(* A reload runs on the timer's own goroutine and reads one file at a time,  *)
(* so files may change under it, and Stop on the timer does not wait for a   *)
(* reload that has begun, so two reloads may run at once.  An editor changes *)
(* one file per step; fsnotify reports it if the directory is watched.       *)
EXTENDS ConfigFiles

CONSTANTS
    Main,        \* the main configuration file
    Order,       \* every file, in the order sort.Strings gives
    DirOf,       \* the directory a file is in
    Texts,       \* what an editor may save in a file: [file -> set of files' contents]
    Initial,     \* what the files hold when the program starts
    Reloads,     \* goroutines that may be reloading at one time
    MaxEdits     \* bound on the editor's changes

Names == {Order[i] : i \in DOMAIN Order}

Running == {p \in Protos : Initial[Main].sections[p].present}

VARIABLES
    disk,      \* what each file holds
    watch,     \* "no", "yes", "stopped": the watchConfig loop
    dirs,      \* watched directories
    event,     \* fsnotify has an event the loop has not taken
    timer,     \* the debounce timer is armed
    rl,        \* reload goroutines
    served,    \* the mocks each running server holds
    edits,
    muddled    \* ghost: two reloads overlapped, or a change may go unseen

watchVars == <<disk, watch, dirs, event, timer, rl, served, edits, muddled>>

Idle == [pc |-> "idle", cfg |-> EmptyConfig, todo |-> <<>>, queue |-> <<>>, seen |-> {}]

Existing(set) == SelectSeq(Order, LAMBDA f : f \in set /\ disk[f].fate # "missing")

----------------------------------------------------------------------------
(* One reload: Load, Resolve, Validate, apply, watch new directories.        *)

Give(r, rec) == rl' = [rl EXCEPT ![r] = rec] /\ UNCHANGED muddled

\* ResolvedFiles: the main file and whatever its patterns match now; a pattern
\* that matches nothing is no error here, and schemas are not among the files.
ResolvedFiles ==
    {Main} \cup (IF disk[Main].fate = "missing" THEN {}
                 ELSE UNION {ToSet(Existing(disk[Main].include[i])) : i \in DOMAIN disk[Main].include})

\* A reload that fails returns before it would watch new directories.
KeepPrevious(r) ==
    /\ rl' = [rl EXCEPT ![r] = Idle]
    /\ muddled' = (muddled \/ \E i \in DOMAIN disk[Main].include : \E f \in disk[Main].include[i] : DirOf[f] \notin dirs)

\* Load reads the main file, whose include patterns are then taken one by one.
ReadMain(r) ==
    /\ rl[r].pc = "main"
    /\ IF loadFileFails(disk[Main]) THEN KeepPrevious(r)
       ELSE Give(r, [rl[r] EXCEPT !.pc = "includes", !.cfg = loadFile(disk[Main]), !.seen = {Main},
                                  !.todo = IF disk[Main].fate = "missing" THEN <<>> ELSE disk[Main].include])
    /\ UNCHANGED <<disk, watch, dirs, event, timer, served, edits>>

\* A pattern that matches nothing is an error; a file merged before is skipped.
Glob(r) ==
    /\ rl[r].pc = "includes" /\ rl[r].queue = <<>> /\ rl[r].todo # <<>>
    /\ LET matches == Existing(Head(rl[r].todo))
       IN  IF matches = <<>> THEN KeepPrevious(r)
           ELSE Give(r, [rl[r] EXCEPT !.todo = Tail(@), !.seen = @ \cup ToSet(matches),
                                      !.queue = SelectSeq(matches, LAMBDA f : f \notin rl[r].seen)])
    /\ UNCHANGED <<disk, watch, dirs, event, timer, served, edits>>

ReadInclude(r) ==
    /\ rl[r].pc = "includes" /\ rl[r].queue # <<>>
    /\ LET file == disk[Head(rl[r].queue)]
       IN  IF loadFileFails(file) THEN KeepPrevious(r)
           ELSE Give(r, [rl[r] EXCEPT !.queue = Tail(@), !.cfg = mergeIncludedConfig(@, loadFile(file))])
    /\ UNCHANGED <<disk, watch, dirs, event, timer, served, edits>>

\* configgen.Resolve: the mocks of the schema come first, hand-written ones
\* over them; a schema that cannot be read is an error.
Resolve(r) ==
    /\ rl[r].pc = "includes" /\ rl[r].queue = <<>> /\ rl[r].todo = <<>>
    /\ LET http == rl[r].cfg["http"]
       IN  IF http.spec = "" THEN Give(r, [rl[r] EXCEPT !.pc = "validate"])
           ELSE IF disk[http.spec].fate # "parses" THEN KeepPrevious(r)
           ELSE Give(r, [rl[r] EXCEPT !.pc = "validate",
                                      !.cfg["http"].mocks = mergeByID(disk[http.spec].sections["http"].mocks, @)])
    /\ UNCHANGED <<disk, watch, dirs, event, timer, served, edits>>

ApplyUnchecked(r) ==
    /\ rl[r].pc = "validate"
    /\ Give(r, [rl[r] EXCEPT !.pc = "apply", !.todo = SetToSeq(Running)])
    /\ UNCHANGED <<disk, watch, dirs, event, timer, served, edits>>

ValidateLoaded(r) ==
    /\ rl[r].pc = "validate"
    /\ IF Validate(rl[r].cfg) THEN Give(r, [rl[r] EXCEPT !.pc = "apply", !.todo = SetToSeq(Running)])
       ELSE KeepPrevious(r)
    /\ UNCHANGED <<disk, watch, dirs, event, timer, served, edits>>

\* One reloader: a protocol the new configuration does not mention keeps its
\* mocks.  The reloaders run one after the other.
Reload(r) ==
    /\ rl[r].pc = "apply" /\ rl[r].todo # <<>>
    /\ LET p == Head(rl[r].todo)
       IN  served' = IF rl[r].cfg[p].present THEN [served EXCEPT ![p] = rl[r].cfg[p].mocks] ELSE served
    /\ Give(r, [rl[r] EXCEPT !.todo = Tail(@)])
    /\ UNCHANGED <<disk, watch, dirs, event, timer, edits>>

Rewatch(r) ==
    /\ rl[r].pc = "apply" /\ rl[r].todo = <<>>
    /\ dirs' = IF loadFileFails(disk[Main]) THEN dirs ELSE dirs \cup {DirOf[f] : f \in ResolvedFiles}
    /\ Give(r, Idle)
    /\ UNCHANGED <<disk, watch, event, timer, served, edits>>

ReloadStep(r) == ReadMain(r) \/ Glob(r) \/ ReadInclude(r) \/ Resolve(r) \/ ValidateLoaded(r) \/ Reload(r) \/ Rewatch(r)

----------------------------------------------------------------------------
(* The loop, and the world.                                                  *)

\* watchConfig begins some time after the first load; it gives up if the files
\* cannot be resolved.
StartWatching ==
    /\ watch = "no"
    /\ IF loadFileFails(disk[Main]) THEN watch' = "stopped" /\ UNCHANGED dirs
       ELSE watch' = "yes" /\ dirs' = {DirOf[f] : f \in ResolvedFiles}
    /\ UNCHANGED <<disk, event, timer, rl, served, edits, muddled>>

\* Each event stops the timer and arms it again, so a burst costs one reload.
TakeEvent ==
    /\ watch = "yes" /\ event
    /\ event' = FALSE /\ timer' = TRUE
    /\ UNCHANGED <<disk, watch, dirs, rl, served, edits, muddled>>

TimerFires(r) ==
    /\ timer /\ rl[r].pc = "idle"
    /\ timer' = FALSE
    /\ rl' = [rl EXCEPT ![r] = [Idle EXCEPT !.pc = "main"]]
    /\ muddled' = (muddled \/ \E q \in Reloads : rl[q].pc # "idle")
    /\ UNCHANGED <<disk, watch, dirs, event, served, edits>>

\* ctx is done: the timer is stopped; a reload that runs goes on.
StopWatching ==
    /\ watch = "yes"
    /\ watch' = "stopped" /\ timer' = FALSE
    /\ UNCHANGED <<disk, dirs, event, rl, served, edits, muddled>>

\* An edit the watcher cannot see counts as muddled while the watcher is not
\* yet up, while a reload is under way, and for a schema outside the watched
\* directories, which nothing ever watches.
Edit(f, text) ==
    /\ edits < MaxEdits /\ text # disk[f]
    /\ disk' = [disk EXCEPT ![f] = text]
    /\ event' = (event \/ (watch = "yes" /\ DirOf[f] \in dirs))
    /\ muddled' = (muddled \/ /\ DirOf[f] \notin dirs
                              /\ \/ watch # "yes"
                                 \/ \E r \in Reloads : rl[r].pc # "idle"
                                 \/ \E g \in Names : disk[g].sections["http"].spec = f)
    /\ edits' = edits + 1
    /\ UNCHANGED <<watch, dirs, timer, rl, served>>

WatchInit ==
    /\ disk = Initial
    /\ watch = "no" /\ dirs = {} /\ event = FALSE /\ timer = FALSE
    /\ rl = [r \in Reloads |-> Idle]
    /\ served = [p \in Running |-> loadFile(Initial[Main])[p].mocks]
    /\ edits = 0 /\ muddled = FALSE

WatchNext ==
    \/ StartWatching \/ TakeEvent \/ StopWatching
    \/ \E r \in Reloads : TimerFires(r) \/ ReloadStep(r)
    \/ \E f \in Names : \E text \in Texts[f] : Edit(f, text)

WatchSpec == WatchInit /\ [][WatchNext]_watchVars

----------------------------------------------------------------------------
\* The files the configuration on disk consists of, in the order they are
\* loaded; a declarative reading of Load, not its algorithm.
LoadOrder ==
    LET file(i) == IF disk[Main].fate = "missing" \/ i > Len(disk[Main].include) THEN {} ELSE disk[Main].include[i]
        rank(f) == IF f = Main THEN 0 ELSE CHOOSE i \in DOMAIN disk[Main].include :
                                               f \in file(i) /\ \A j \in 1..(i - 1) : f \notin file(j)
        before(f, g) == \/ rank(f) < rank(g)
                        \/ rank(f) = rank(g) /\ \E i, j \in DOMAIN Order : i < j /\ Order[i] = f /\ Order[j] = g
    IN  SetToSortSeq(ResolvedFiles, before)

\* It loads, and every file is valid by itself (which makes the whole valid as
\* long as only the main file declares listeners).
Loadable ==
    /\ \A f \in ResolvedFiles : LET spec == disk[f].sections["http"].spec IN
            /\ ~loadFileFails(disk[f]) /\ Validate(loadFile(disk[f]))
            /\ spec # "" => disk[spec].fate = "parses"
    /\ disk[Main].fate = "parses" =>
          \A i \in DOMAIN disk[Main].include : Existing(disk[Main].include[i]) # <<>>

\* The mocks named `id' that the last file to define one gives it.
LastWord(p, id) ==
    LET ids(f) == {m.id : m \in ToSet(loadFile(disk[f])[p].mocks)}
        having == SelectSeq(LoadOrder, LAMBDA f : id \in ids(f))
        list == SelectSeq(loadFile(disk[Last(having)])[p].mocks, LAMBDA m : m.id = id)
    IN  Last(list)

Quiet == watch = "yes" /\ ~event /\ ~timer /\ \A r \in Reloads : rl[r].pc = "idle"

\* Once the watcher has caught up, what is served under an ID is what the last
\* file that defines the ID says, for every file the main file includes.  The
\* configuration must load and be valid; two reloads must not have overlapped,
\* no edit may have come before the watcher or a reload watched its directory,
\* and no reload may have failed with directories still unwatched.
SettledConfigIsServed ==
    Quiet /\ ~muddled /\ Loadable =>
        \A p \in Running \ {"services"} : \A f \in ResolvedFiles :
            \A m \in ToSet(loadFile(disk[f])[p].mocks) : LastWord(p, m.id) \in ToSet(served[p])

\* Whatever the editor does to the files, and however reloads overlap, a server
\* holds no two mocks with one ID and none with a broken regular expression.
ServedConfigIsValid ==
    \A p \in Running : \A i, j \in DOMAIN served[p] :
        /\ served[p][i].sound
        /\ p = "http" /\ i # j /\ served[p][i].id # <<>> => served[p][i].id # served[p][j].id

\* Of the mocks one file gives, a page generated from a directory shares its
\* path with no other one for GET, however that is written, so which of these
\* answers never depends on their order.
PagesAreUnambiguous ==
    \A r \in Reloads : rl[r].pc = "validate" /\ rl[r].seen = {Main} /\ rl[r].cfg["http"].spec = "" =>
        LET ms == rl[r].cfg["http"].mocks
        IN  \A i, j \in DOMAIN ms : i # j /\ key(ms[i]) = key(ms[j]) => ms[i].dir = <<>>

\* An index.html found under a body.dir at any depth is also served at the path
\* of the directory it is in.
IndexIsServedAtItsDirectory ==
    \A m \in ToSet(served["http"]) : m.dir # <<>> /\ Last(m.path) = "index.html" =>
        \E k \in ToSet(served["http"]) : k.path = Front(m.path) /\ k.dir = m.dir
=============================================================================
