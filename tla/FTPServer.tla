----------------------------- MODULE FTPServer -----------------------------
(***************************************************************************)
(* The FTP server's sessions (ftpserver.Server.handleConn): login, the     *)
(* passive data listener, transfers and deletion, on several control       *)
(* connections while the management API replaces the files.                *)
(*                                                                         *)
(* A transfer waits in Accept for the client's data connection.  Nothing   *)
(* else ends that wait: the handler does not see that the control          *)
(* connection was closed meanwhile.  A command that changes nothing (SYST, *)
(* FEAT, TYPE, PWD, an unknown one) is left out, and so is the working     *)
(* directory: a request names the absolute path its argument stands for.   *)
(***************************************************************************)
EXTENDS Integers, FiniteSets

CONSTANTS
    FTPConns,       \* control connections
    FTPUsers,       \* users a configuration may have
    Allowed,        \* user -> ids of the files it may use; {}: all
    Paths, FileIDs,
    Catalogs,       \* what SetFiles may install: path -> id, partial
    PassivePorts    \* the configured range, naturals

ASSUME FTPAssumption == PassivePorts \subseteq Nat

None == "none"      \* no user, no path
NoPort == -1        \* no listener
OSPort == 0         \* a port the operating system chose

VARIABLES
    users,          \* cfg.Users
    files,          \* Server.files: path -> id
    sess,           \* connection -> handleConn's variables, and, for the
                    \* properties, the last user whose password was right
    listeners,      \* listeners that are open: connection -> set of ports
    here,           \* connection -> its client is connected
    overtaken,      \* connections whose DELE was overtaken by SetFiles
    granted         \* what the last successful command was about: the user,
                    \* the file, and whether SetFiles had put it there since
                    \* the command looked it up

ftpVars == <<users, files, sess, listeners, here, overtaken, granted>>

FTPInit ==
    /\ users \in {{}, FTPUsers}
    /\ files \in Catalogs
    /\ sess = [c \in FTPConns |->
                 [pc |-> "ready", pendingUser |-> None, authedUser |-> None,
                  authenticated |-> users = {}, passive |-> NoPort, path |-> None,
                  proved |-> None]]
    /\ listeners = [c \in FTPConns |-> {}]
    /\ here = [c \in FTPConns |-> TRUE]
    /\ overtaken = {} /\ granted = {}

SetSession(c, s) == sess' = [sess EXCEPT ![c] = s]

Ready(c) == here[c] /\ sess[c].pc = "ready"

\* requiresAuth: a command that needs a login is refused without one.
Authorized(c) == Ready(c) /\ sess[c].authenticated

Closed ==
    [pc |-> "closed", pendingUser |-> None, authedUser |-> None,
     authenticated |-> FALSE, passive |-> NoPort, path |-> None, proved |-> None]

\* The deferred function: the listener is closed, then the connection.
Return(c) ==
    /\ listeners' = [listeners EXCEPT ![c] = @ \ {sess[c].passive}]
    /\ SetSession(c, Closed)

(***************************************************************************)
(* Login.                                                                  *)
(***************************************************************************)
UserActsAtOnce(c, u) ==
    /\ Ready(c)
    /\ SetSession(c, [sess[c] EXCEPT !.pendingUser = u, !.authedUser = u])
    /\ UNCHANGED <<users, files, listeners, here, overtaken, granted>>

User(c, u) ==
    /\ Ready(c)
    /\ SetSession(c, [sess[c] EXCEPT !.pendingUser = u])
    /\ UNCHANGED <<users, files, listeners, here, overtaken, granted>>

\* findUser: the password is that of the user named last.
Pass(c, right) ==
    LET known == users = {} \/ (right /\ sess[c].pendingUser \in users) IN
    /\ Ready(c)
    /\ SetSession(c, IF known
              THEN [sess[c] EXCEPT !.authedUser = sess[c].pendingUser,
                                   !.proved = sess[c].pendingUser,
                                   !.authenticated = TRUE]
              ELSE [sess[c] EXCEPT !.authenticated = FALSE])
    /\ UNCHANGED <<users, files, listeners, here, overtaken, granted>>

(***************************************************************************)
(* PASV: the last listener is closed and the first free port of the range  *)
(* is taken, any other when all are in use; listening may also fail.       *)
(***************************************************************************)
InUse == UNION {listeners[d] : d \in FTPConns}

listenPassive(free) ==
    IF free = {} THEN {OSPort, NoPort}
                 ELSE {CHOOSE p \in free : \A q \in free : p <= q}

PasvKeepsListener(c) ==
    /\ Ready(c)
    /\ \E p \in listenPassive(PassivePorts \ InUse) :
          /\ SetSession(c, [sess[c] EXCEPT !.passive = p])
          /\ listeners' = [listeners EXCEPT ![c] = @ \cup ({p} \ {NoPort})]
    /\ UNCHANGED <<users, files, here, overtaken, granted>>

Pasv(c) ==
    /\ Ready(c)
    /\ \E p \in listenPassive(PassivePorts \ (InUse \ {sess[c].passive})) :
          /\ SetSession(c, [sess[c] EXCEPT !.passive = p])
          /\ listeners' = [listeners EXCEPT ![c] = (@ \ {sess[c].passive}) \cup ({p} \ {NoPort})]
    /\ UNCHANGED <<users, files, here, overtaken, granted>>

(***************************************************************************)
(* Files.                                                                  *)
(***************************************************************************)
allowedFiles(u) ==
    IF u \in users /\ Allowed[u] # {} THEN Allowed[u] ELSE FileIDs

findFile(p, u) == p \in DOMAIN files /\ files[p] \in allowedFiles(u)

Access(c, p, swapped) == [user |-> sess[c].proved, file |-> files[p], swapped |-> swapped]

Grant(c, p) == granted' = {Access(c, p, FALSE)}

\* maybeInjectFault: a fault that is in force may end the session.
Fault(c) ==
    /\ Authorized(c)
    /\ Return(c)
    /\ UNCHANGED <<users, files, here, overtaken, granted>>

\* Without PASV the command is answered 425, which changes nothing.
BeginTransfer(c, label) ==
    /\ Authorized(c) /\ sess[c].passive # NoPort
    /\ SetSession(c, [sess[c] EXCEPT !.pc = label])
    /\ UNCHANGED <<users, files, listeners, here, overtaken>>

\* LIST and NLST: what the user may see is read after Accept.
List(c) == BeginTransfer(c, "list") /\ UNCHANGED granted

\* RETR: the file is looked up before Accept; without it the listener stays.
Retr(c, p) ==
    /\ findFile(p, sess[c].authedUser)
    /\ BeginTransfer(c, "retr")
    /\ Grant(c, p)

Stor(c) == BeginTransfer(c, "stor") /\ UNCHANGED granted

\* Accept returns with the client's data connection or with an error; the
\* listener is closed in both cases.
Accept(c) ==
    /\ sess[c].pc \in {"list", "retr", "stor"}
    /\ listeners' = [listeners EXCEPT ![c] = @ \ {sess[c].passive}]
    /\ SetSession(c, [sess[c] EXCEPT !.pc = "ready", !.passive = NoPort])
    /\ granted' = IF sess[c].pc # "list" THEN granted
                  ELSE {Access(c, p, FALSE) :
                          p \in {p \in Paths : findFile(p, sess[c].authedUser)}}
    /\ UNCHANGED <<users, files, here, overtaken>>

\* SIZE
Size(c, p) ==
    /\ Authorized(c) /\ findFile(p, sess[c].authedUser)
    /\ Grant(c, p)
    /\ UNCHANGED <<users, files, sess, listeners, here, overtaken>>

\* DELE looks the file up, releases the lock, and deletes by path.
Dele(c, p) ==
    /\ Authorized(c) /\ findFile(p, sess[c].authedUser)
    /\ Grant(c, p)
    /\ SetSession(c, [sess[c] EXCEPT !.pc = "delete", !.path = p])
    /\ UNCHANGED <<users, files, listeners, here, overtaken>>

\* What is removed is the file that has the path now, if there is one.
deleteFile(c) ==
    /\ sess[c].pc = "delete"
    /\ files' = [p \in DOMAIN files \ {sess[c].path} |-> files[p]]
    /\ granted' = {Access(c, p, c \in overtaken) : p \in DOMAIN files \cap {sess[c].path}}
    /\ overtaken' = overtaken \ {c}
    /\ SetSession(c, [sess[c] EXCEPT !.pc = "ready", !.path = None])
    /\ UNCHANGED <<users, listeners, here>>

\* QUIT, or the control connection is found closed by the next read.
Quit(c) ==
    /\ sess[c].pc = "ready"
    /\ Return(c)
    /\ UNCHANGED <<users, files, here, overtaken, granted>>

ClientLeaves(c) ==
    /\ here[c] /\ sess[c].pc # "closed"
    /\ here' = [here EXCEPT ![c] = FALSE]
    /\ UNCHANGED <<users, files, sess, listeners, overtaken, granted>>

SetFiles(f) ==
    /\ files' = f
    /\ overtaken' = {c \in FTPConns : sess[c].pc = "delete"}
    /\ UNCHANGED <<users, sess, listeners, here, granted>>

FTPNext ==
    \/ \E c \in FTPConns :
          \/ \E u \in FTPUsers : User(c, u)
          \/ \E right \in BOOLEAN : Pass(c, right)
          \/ Pasv(c) \/ Fault(c) \/ List(c) \/ Stor(c) \/ Accept(c)
          \/ \E p \in Paths : Retr(c, p) \/ Size(c, p) \/ Dele(c, p)
          \/ deleteFile(c) \/ Quit(c) \/ ClientLeaves(c)
    \/ \E f \in Catalogs : SetFiles(f)

FTPSpec == FTPInit /\ [][FTPNext]_ftpVars

----------------------------------------------------------------------------
\* A file is listed, sent, measured or deleted only for a user who may use it
\* and was the last to give the right password: USER alone changes nothing, and
\* neither does a failed PASS (findFile and listing with allowedFiles).  The one
\* exception: deleteFile goes by the path, under a lock of its own, and removes
\* unseen what SetFiles put there since DELE looked the file up.
AccessIsAllowed ==
    users # {} => \A g \in granted :
        g.swapped \/ (g.user \in users /\ g.file \in allowedFiles(g.user))

\* A connection has at most the one listener its session knows of, and two
\* connections never share a port of the range: PASV, every transfer, faults
\* and the end of the session close what they replace.  A listener outlives
\* its client only in Accept, which nothing but a data connection ends.
NoListenerLeaks ==
    /\ \A c \in FTPConns :
          /\ listeners[c] = {sess[c].passive} \ {NoPort}
          /\ sess[c].pc = "closed" => listeners[c] = {}
    /\ \A c, d \in FTPConns : c # d => (listeners[c] \cap listeners[d]) \subseteq {OSPort}
=============================================================================
