--------------------------- MODULE SessionsProofs ---------------------------
(***************************************************************************)
(* The servers that keep a session per connection, for every number of     *)
(* connections, users, files, mailboxes, mocks and messages.               *)
(*                                                                         *)
(* FTP: files are used only by users who may, and no listener leaks.  Both *)
(* need to know more of a session than they say: that a session which is   *)
(* authenticated acts as the user whose password was right, also while it  *)
(* waits in Accept, and that the listener it knows of is its only one.     *)
(*                                                                         *)
(* IMAP: mail is shown after a LOGIN and as it was selected.  SMTP: a      *)
(* stored email has the envelope of its own transaction.  LDAP: a search   *)
(* answers with one state of the mocks.  Memcached: a data block is read   *)
(* as a command only after its command was refused, or its length garbled. *)
(***************************************************************************)
EXTENDS FTPServer, IMAPServer, LDAPServer, SMTPServer, Memcached,
        ListLemmas, SequenceTheorems, NaturalsInduction, TLAPS

\* A leaf that names no prover is tried with these, in this order.
USE SMT, Zenon, SMTT(30)

-----------------------------------------------------------------------------
(* FTP *)

Session ==
    [pc : {"ready", "list", "retr", "stor", "delete", "closed"},
     pendingUser : FTPUsers \cup {None}, authedUser : FTPUsers \cup {None},
     authenticated : BOOLEAN, passive : Nat \cup {NoPort}, path : Paths \cup {None},
     proved : FTPUsers \cup {None}]

FTPTypes ==
    /\ sess \in [FTPConns -> Session]
    /\ listeners \in [FTPConns -> SUBSET Nat]

Acting(s) == users # {} /\ s.authenticated = TRUE => s.proved \in users /\ s.authedUser = s.proved

Working == {"list", "retr", "stor", "delete"}

\* What DELE is about to remove, the acting user may use.
LookedUp(s) ==
    s.pc = "delete" /\ s.path \in DOMAIN files => files[s.path] \in allowedFiles(s.authedUser)

Rights ==
    \A c \in FTPConns :
        /\ Acting(sess[c])
        /\ sess[c].pc \in Working => sess[c].authenticated = TRUE
        /\ c \in overtaken \/ LookedUp(sess[c])

Owned ==
    /\ \A c \in FTPConns : /\ listeners[c] = {sess[c].passive} \ {NoPort}
                           /\ sess[c].pc = "closed" => sess[c].passive = NoPort
    /\ \A c, d \in FTPConns : c # d => (listeners[c] \cap listeners[d]) \subseteq {OSPort}

FTPInv == FTPTypes /\ Rights /\ AccessIsAllowed /\ Owned

\* The listeners of a session.
Own(s) == {s.passive} \ {NoPort}

\* A step of the session of c adds no file and forgets about no other session
\* that SetFiles overtook it.
Judges(c, s) ==
    /\ UNCHANGED users
    /\ \A p \in DOMAIN files' : p \in DOMAIN files /\ files'[p] = files[p]
    /\ overtaken \subseteq overtaken' \cup {c}
    /\ Acting(s) /\ LookedUp(s)
    /\ s.pc \in Working => s.authenticated = TRUE

\* A step that replaces the session of c by s, and its listeners accordingly.
LEMMA Update ==
    ASSUME FTPInv, NEW c \in FTPConns, NEW s \in Session,
           sess' = [sess EXCEPT ![c] = s],
           listeners' = [listeners EXCEPT ![c] = Own(s)],
           Judges(c, s),
           s.pc = "closed" => s.passive = NoPort,
           \A d \in FTPConns \ {c} : (Own(s) \cap listeners[d]) \subseteq {OSPort}
    PROVE  FTPTypes' /\ Rights' /\ Owned'
<1>1. Own(s) \in SUBSET Nat BY Zenon DEF Own, Session, NoPort
<1>2. FTPTypes' BY <1>1, Zenon DEF FTPInv, FTPTypes
<1>3. \A d \in FTPConns : /\ sess'[d] = IF d = c THEN s ELSE sess[d]
                          /\ listeners'[d] = IF d = c THEN Own(s) ELSE listeners[d]
  BY Zenon DEF FTPInv, FTPTypes
<1>4. \A u : allowedFiles(u)' = allowedFiles(u) BY Zenon DEF Judges, allowedFiles
<1>6. ASSUME NEW d \in FTPConns, d # c PROVE d \in overtaken' \/ LookedUp(sess[d])'
  <2>1. d \in overtaken \/ LookedUp(sess[d]) BY Zenon DEF FTPInv, Rights
  <2>2. sess'[d] = sess[d] BY <1>3, <1>6, Zenon
  <2>3. CASE d \in overtaken BY <1>6, <2>3, Zenon DEF Judges
  <2>4. CASE LookedUp(sess[d]) BY <1>4, <2>2, <2>4 DEF LookedUp, Judges
  <2> QED BY <2>1, <2>3, <2>4, Zenon
<1>7. LookedUp(sess[c])'
  <2>1. sess'[c] = s BY <1>3, Zenon
  <2> QED BY <1>4, <2>1 DEF LookedUp, Judges
<1>8. ASSUME NEW d \in FTPConns
      PROVE  Acting(sess[d])' /\ (sess'[d].pc \in Working => sess'[d].authenticated = TRUE)
  <2>1. CASE d = c
    <3>1. sess'[d] = s BY <1>3, <2>1, Zenon
    <3> QED BY <3>1 DEF Judges, Acting
  <2>2. CASE d # c
    <3>1. sess'[d] = sess[d] BY <1>3, <2>2, Zenon
    <3> QED BY <3>1 DEF Judges, Acting, FTPInv, Rights
  <2> QED BY <2>1, <2>2, Zenon
<1>9. Rights' BY <1>6, <1>7, <1>8, Zenon DEF Rights
<1>5. Owned' BY <1>3 DEF FTPInv, Owned, Own
<1> QED BY <1>2, <1>5, <1>9, Zenon

\* A step that leaves the listeners alone, and with them the session's own.
LEMMA SameListener ==
    ASSUME FTPInv, NEW c \in FTPConns, NEW s \in Session,
           sess' = [sess EXCEPT ![c] = s], UNCHANGED listeners,
           Judges(c, s), s.pc # "closed", s.passive = sess[c].passive
    PROVE  FTPTypes' /\ Rights' /\ Owned'
<1>1. listeners[c] = Own(s) BY Zenon DEF FTPInv, Owned, Own
<1>2. listeners' = [listeners EXCEPT ![c] = Own(s)] BY <1>1, Zenon DEF FTPInv, FTPTypes
<1>3. \A d \in FTPConns \ {c} : (Own(s) \cap listeners[d]) \subseteq {OSPort}
  BY <1>1, Zenon DEF FTPInv, Owned
<1> QED BY <1>2, <1>3, Update, Zenon

\* The session after a step that gives its listener up.
LEMMA NoListener ==
    ASSUME FTPInv, NEW c \in FTPConns, NEW s \in Session,
           sess' = [sess EXCEPT ![c] = s],
           listeners' = [listeners EXCEPT ![c] = @ \ {sess[c].passive}],
           Judges(c, s), s.passive = NoPort
    PROVE  FTPTypes' /\ Rights' /\ Owned'
<1>1. listeners[c] \ {sess[c].passive} = {} BY Zenon DEF FTPInv, Owned
<1>2. Own(s) = {} BY Zenon DEF Own
<1>3. listeners' = [listeners EXCEPT ![c] = Own(s)] BY <1>1, <1>2, Zenon
<1>4. \A d \in FTPConns \ {c} : (Own(s) \cap listeners[d]) \subseteq {OSPort} BY <1>2, Zenon
<1> HIDE DEF Own
<1> QED BY <1>3, <1>4, Update, Zenon

LEMMA SessionOf == ASSUME FTPInv, NEW c \in FTPConns PROVE
    /\ sess[c] \in Session /\ Acting(sess[c])
    /\ sess[c].pc \in Working => sess[c].authenticated = TRUE
BY Zenon DEF FTPInv, FTPTypes, Rights

\* A step that touches no file, of a session that deletes none.
LEMMA NoFileTouched ==
    ASSUME UNCHANGED <<users, files, overtaken>>, NEW c, NEW s, Acting(s), s.pc # "delete",
           s.pc \in Working => s.authenticated = TRUE
    PROVE  Judges(c, s)
BY Zenon DEF Judges, LookedUp

LEMMA InitFTP == FTPInit => FTPInv
<1> SUFFICES ASSUME FTPInit PROVE FTPInv BY Zenon
<1>1. FTPTypes BY Zenon DEF FTPInit, FTPTypes, Session, NoPort
<1>2. Rights BY Zenon DEF FTPInit, Rights, Acting, LookedUp, Working
<1>3. AccessIsAllowed BY Zenon DEF FTPInit, AccessIsAllowed
<1>4. Owned BY Zenon DEF FTPInit, Owned
<1> QED BY <1>1, <1>2, <1>3, <1>4, Zenon DEF FTPInv

\* Granting what the acting user may use keeps AccessIsAllowed.
LEMMA GrantAllowed ==
    ASSUME FTPInv, NEW c \in FTPConns, sess[c].authenticated = TRUE, UNCHANGED users,
           \A g \in granted' : \E p, b :
               /\ b = TRUE \/ files[p] \in allowedFiles(sess[c].authedUser)
               /\ g = Access(c, p, b)
    PROVE  AccessIsAllowed'
<1>1. users # {} => sess[c].proved \in users /\ sess[c].authedUser = sess[c].proved
  BY Zenon DEF FTPInv, Rights, Acting
<1>2. ASSUME users # {}, NEW g \in granted'
      PROVE  g.swapped \/ (g.user \in users /\ g.file \in allowedFiles(g.user))
  <2>1. PICK p, b : /\ b = TRUE \/ files[p] \in allowedFiles(sess[c].authedUser)
                    /\ g = Access(c, p, b)
    BY <1>2, Zenon
  <2>2. g.swapped = b /\ g.user = sess[c].proved /\ g.file = files[p]
    BY <2>1, Zenon DEF Access
  <2>3. CASE b = TRUE BY <2>2, <2>3, Zenon
  <2> QED BY <1>1, <1>2, <2>1, <2>2, <2>3, Zenon
<1> QED BY <1>2, Zenon DEF AccessIsAllowed, allowedFiles

LEMMA SameGrants ==
    ASSUME FTPInv, UNCHANGED <<users, granted>> PROVE AccessIsAllowed'
BY Zenon DEF FTPInv, AccessIsAllowed, allowedFiles

LEMMA LoginStep ==
    ASSUME FTPInv, NEW c \in FTPConns,
           (\E u \in FTPUsers : User(c, u)) \/ (\E right \in BOOLEAN : Pass(c, right))
    PROVE  FTPInv'
<1>1. ASSUME NEW u \in FTPUsers, User(c, u) PROVE FTPInv'
  <2> DEFINE s == [sess[c] EXCEPT !.pendingUser = u]
  <2>1. s \in Session /\ Acting(s) /\ s.pc = "ready" /\ s.passive = sess[c].passive
    BY <1>1, SessionOf, Zenon DEF User, Ready, Session, Acting
  <2>2. sess' = [sess EXCEPT ![c] = s] /\ UNCHANGED <<users, files, overtaken, listeners, granted>>
    BY <1>1, Zenon DEF User, SetSession
  <2> HIDE DEF s
  <2>3. Judges(c, s) BY <2>1, <2>2, NoFileTouched, Zenon DEF Working
  <2> QED BY <2>1, <2>2, <2>3, SameListener, SameGrants, Zenon DEF FTPInv
<1>2. ASSUME NEW right \in BOOLEAN, Pass(c, right) PROVE FTPInv'
  <2>1. PICK s \in {[sess[c] EXCEPT !.authedUser = sess[c].pendingUser,
                                    !.proved = sess[c].pendingUser,
                                    !.authenticated = TRUE],
                    [sess[c] EXCEPT !.authenticated = FALSE]} :
          /\ sess' = [sess EXCEPT ![c] = s]
          /\ users # {} /\ s.authenticated = TRUE => sess[c].pendingUser \in users
    BY <1>2, SessionOf, Zenon DEF Pass, SetSession, Session
  <2>2. sess[c].pc = "ready" /\ UNCHANGED <<users, files, overtaken, listeners, granted>>
    BY <1>2, Zenon DEF Pass, Ready
  <2>3. sess[c] \in Session BY SessionOf, Zenon
  <2>4. s \in Session /\ s.pc = sess[c].pc /\ s.passive = sess[c].passive
    BY <2>1, <2>3, Zenon DEF Session
  <2>5. s.authenticated = TRUE => s.proved = sess[c].pendingUser /\ s.authedUser = s.proved
    BY <2>1, <2>3, Zenon DEF Session
  <2>6. Acting(s) BY <2>1, <2>5, Zenon DEF Acting
  <2>7. Judges(c, s) BY <2>2, <2>4, <2>6, NoFileTouched, Zenon DEF Working
  <2> QED BY <2>1, <2>2, <2>4, <2>7, SameListener, SameGrants, Zenon DEF FTPInv
<1> QED BY <1>1, <1>2, Zenon

\* listenPassive gives a free port of the range, one of the operating
\* system's, or none.
LEMMA PassivePort ==
    ASSUME NEW free \in SUBSET Nat, NEW p \in listenPassive(free)
    PROVE  p \in Nat \cup {NoPort} /\ (p \in free \/ p \in {OSPort, NoPort})
<1>1. CASE free = {} BY <1>1 DEF listenPassive, OSPort
<1>2. CASE free # {}
  <2>1. \E x \in free : \A q \in free : x <= q BY <1>2, LeastElement, Zenon
  <2> QED BY <1>2, <2>1, Zenon DEF listenPassive
<1> QED BY <1>1, <1>2, Zenon

LEMMA PasvStep ==
    ASSUME FTPInv, NEW c \in FTPConns, Pasv(c)
    PROVE  FTPInv'
<1> DEFINE free == PassivePorts \ (InUse \ {sess[c].passive})
<1>1. PICK p \in listenPassive(free) :
        /\ sess' = [sess EXCEPT ![c] = [sess[c] EXCEPT !.passive = p]]
        /\ listeners' = [listeners EXCEPT ![c] = (@ \ {sess[c].passive}) \cup ({p} \ {NoPort})]
  BY Zenon DEF Pasv, SetSession
<1>2. sess[c].pc = "ready" /\ UNCHANGED <<users, files, overtaken, granted>>
  BY Zenon DEF Pasv, Ready
<1>3. free \in SUBSET Nat BY FTPAssumption, Zenon
<1>4. p \in Nat \cup {NoPort} /\ (p \in free \/ p \in {OSPort, NoPort})
  BY <1>3, PassivePort, Zenon
<1> DEFINE s == [sess[c] EXCEPT !.passive = p]
<1>5. s \in Session /\ Acting(s) /\ s.pc = "ready" /\ s.passive = p
  BY <1>2, <1>4, SessionOf, Zenon DEF Session, Acting
<1>6. sess' = [sess EXCEPT ![c] = s] BY <1>1, Zenon
<1> HIDE DEF s
<1>7. listeners' = [listeners EXCEPT ![c] = Own(s)]
  <2>1. listeners[c] \ {sess[c].passive} = {} BY Zenon DEF FTPInv, Owned
  <2> QED BY <1>1, <1>5, <2>1, Zenon DEF Own
<1>8. ASSUME NEW d \in FTPConns \ {c} PROVE (Own(s) \cap listeners[d]) \subseteq {OSPort}
  <2>1. CASE p \in {OSPort, NoPort} BY <1>5, <2>1, Zenon DEF Own
  <2>2. CASE p \in free /\ p \in listeners[d] /\ p # NoPort
    <3>1. p \in InUse BY <2>2, Zenon DEF InUse
    <3>2. p = sess[c].passive BY <2>2, <3>1, Zenon
    <3>3. p \in listeners[c] BY <2>2, <3>2, Zenon DEF FTPInv, Owned
    <3> QED BY <1>5, <2>2, <3>3, Zenon DEF FTPInv, Owned, Own
  <2>3. CASE p \notin listeners[d] BY <1>5, <2>3, Zenon DEF Own
  <2> QED BY <1>4, <2>1, <2>2, <2>3, Zenon
<1>9. Judges(c, s) BY <1>2, <1>5, NoFileTouched, Zenon DEF Working
<1>10. FTPTypes' /\ Rights' /\ Owned' BY <1>5, <1>6, <1>7, <1>8, <1>9, Update, Zenon
<1> QED BY <1>2, <1>10, SameGrants, Zenon DEF FTPInv

\* A fault, QUIT, or a control connection that was closed.
LEMMA ReturnStep ==
    ASSUME FTPInv, NEW c \in FTPConns, Fault(c) \/ Quit(c)
    PROVE  FTPInv'
<1>1. Closed \in Session /\ Acting(Closed) /\ Closed.pc = "closed" /\ Closed.passive = NoPort
  BY Zenon DEF Closed, Session, Acting
<1>2. /\ sess' = [sess EXCEPT ![c] = Closed] /\ UNCHANGED <<users, files, overtaken, granted>>
      /\ listeners' = [listeners EXCEPT ![c] = @ \ {sess[c].passive}]
  BY Zenon DEF Fault, Quit, Return, SetSession
<1>3. Judges(c, Closed) BY <1>1, <1>2, NoFileTouched, Zenon DEF Working
<1> QED BY <1>1, <1>2, <1>3, NoListener, SameGrants, Zenon DEF FTPInv

\* LIST, RETR and STOR, up to Accept.
LEMMA TransferStep ==
    ASSUME FTPInv, NEW c \in FTPConns,
           List(c) \/ Stor(c) \/ \E p \in Paths : Retr(c, p)
    PROVE  FTPInv'
<1>1. PICK label \in {"list", "retr", "stor"} :
        sess' = [sess EXCEPT ![c] = [sess[c] EXCEPT !.pc = label]]
  BY Zenon DEF List, Stor, Retr, BeginTransfer, SetSession
<1>2. sess[c].authenticated = TRUE /\ UNCHANGED <<users, files, overtaken, listeners>>
  BY SessionOf, Zenon DEF List, Stor, Retr, BeginTransfer, Authorized, Session
<1> DEFINE s == [sess[c] EXCEPT !.pc = label]
<1>3. s \in Session /\ Acting(s) /\ s.pc \notin {"closed", "delete"}
      /\ s.passive = sess[c].passive /\ s.authenticated = TRUE
  BY <1>2, SessionOf, Zenon DEF Session, Acting
<1>4. sess' = [sess EXCEPT ![c] = s] BY <1>1, Zenon
<1> HIDE DEF s
<1>7. Judges(c, s) BY <1>2, <1>3, NoFileTouched, Zenon
<1>5. FTPTypes' /\ Rights' /\ Owned' BY <1>2, <1>3, <1>4, <1>7, SameListener, Zenon
<1>6. AccessIsAllowed'
  <2>1. CASE List(c) \/ Stor(c) BY <1>2, <2>1, SameGrants, Zenon DEF List, Stor
  <2>2. CASE \E p \in Paths : Retr(c, p)
    BY <1>2, <2>2, GrantAllowed, Zenon DEF Retr, Grant, findFile
  <2> QED BY <2>1, <2>2, Zenon
<1> QED BY <1>5, <1>6, Zenon DEF FTPInv

LEMMA AcceptStep ==
    ASSUME FTPInv, NEW c \in FTPConns, Accept(c)
    PROVE  FTPInv'
<1> DEFINE s == [sess[c] EXCEPT !.pc = "ready", !.passive = NoPort]
<1>1. s \in Session /\ Acting(s) /\ s.pc = "ready" /\ s.passive = NoPort
  BY SessionOf, Zenon DEF Session, Acting
<1>2. /\ sess' = [sess EXCEPT ![c] = s] /\ UNCHANGED <<users, files, overtaken>>
      /\ listeners' = [listeners EXCEPT ![c] = @ \ {sess[c].passive}]
  BY Zenon DEF Accept, SetSession
<1>3. sess[c].authenticated = TRUE BY SessionOf, Zenon DEF Accept, Working
<1> HIDE DEF s
<1>6. Judges(c, s) BY <1>1, <1>2, NoFileTouched, Zenon DEF Working
<1>4. FTPTypes' /\ Rights' /\ Owned' BY <1>1, <1>2, <1>6, NoListener, Zenon
<1>5. AccessIsAllowed'
  <2>1. CASE sess[c].pc # "list" BY <1>2, <2>1, SameGrants, Zenon DEF Accept
  <2>2. CASE sess[c].pc = "list" BY <1>2, <1>3, <2>2, GrantAllowed, Zenon DEF Accept, findFile
  <2> QED BY <2>1, <2>2, Zenon
<1> QED BY <1>4, <1>5, Zenon DEF FTPInv

\* SIZE and DELE.
LEMMA FileStep ==
    ASSUME FTPInv, NEW c \in FTPConns, NEW p \in Paths, Size(c, p) \/ Dele(c, p)
    PROVE  FTPInv'
<1>1. sess[c].authenticated = TRUE /\ UNCHANGED <<users, files, overtaken, listeners>>
  BY SessionOf, Zenon DEF Size, Dele, Authorized, Session
<1>2. AccessIsAllowed' BY <1>1, GrantAllowed, Zenon DEF Size, Dele, Grant, findFile
<1>3. FTPTypes' /\ Rights' /\ Owned'
  <2>1. CASE Size(c, p)
    BY <2>1, Zenon DEF Size, FTPInv, FTPTypes, Rights, Acting, LookedUp, allowedFiles, Owned
  <2>2. CASE Dele(c, p)
    <3> DEFINE s == [sess[c] EXCEPT !.pc = "delete", !.path = p]
    <3>1. s \in Session /\ Acting(s) /\ s.pc = "delete" /\ s.path = p
          /\ s.passive = sess[c].passive /\ s.authenticated = sess[c].authenticated
          /\ s.authedUser = sess[c].authedUser
      BY SessionOf, Zenon DEF Session, Acting
    <3>2. sess' = [sess EXCEPT ![c] = s] BY <2>2, Zenon DEF Dele, SetSession
    <3> HIDE DEF s
    <3>3. LookedUp(s) BY <2>2, <3>1, Zenon DEF Dele, findFile, LookedUp
    <3>4. Judges(c, s) BY <1>1, <3>1, <3>3, Zenon DEF Judges
    <3> QED BY <1>1, <3>1, <3>2, <3>4, SameListener, Zenon
  <2> QED BY <2>1, <2>2, Zenon
<1> QED BY <1>2, <1>3, Zenon DEF FTPInv

LEMMA DeleteStep ==
    ASSUME FTPInv, NEW c \in FTPConns, deleteFile(c)
    PROVE  FTPInv'
<1> DEFINE s == [sess[c] EXCEPT !.pc = "ready", !.path = None]
<1>1. s \in Session /\ Acting(s) /\ s.pc = "ready" /\ s.passive = sess[c].passive
  BY SessionOf, Zenon DEF Session, Acting
<1>2. sess' = [sess EXCEPT ![c] = s] /\ UNCHANGED <<users, listeners>>
  BY Zenon DEF deleteFile, SetSession
<1> HIDE DEF s
<1>3. \A p \in DOMAIN files' : p \in DOMAIN files /\ files'[p] = files[p]
  BY Zenon DEF deleteFile
<1>4. overtaken \subseteq overtaken' \cup {c} BY Zenon DEF deleteFile
<1>5. Judges(c, s) BY <1>1, <1>2, <1>3, <1>4, Zenon DEF Judges, LookedUp, Working
<1>6. FTPTypes' /\ Rights' /\ Owned' BY <1>1, <1>2, <1>5, SameListener, Zenon
<1>7. sess[c].authenticated = TRUE /\ (c \in overtaken \/ LookedUp(sess[c])) /\ sess[c].pc = "delete"
  BY SessionOf, Zenon DEF deleteFile, Working, FTPInv, Rights
<1>8. ASSUME NEW g \in granted'
      PROVE  \E p, b : /\ b = TRUE \/ files[p] \in allowedFiles(sess[c].authedUser)
                       /\ g = Access(c, p, b)
  <2>1. PICK p \in DOMAIN files \cap {sess[c].path} : g = Access(c, p, c \in overtaken)
    BY <1>8, Zenon DEF deleteFile
  <2>2. (c \in overtaken) = TRUE \/ files[p] \in allowedFiles(sess[c].authedUser)
    BY <1>7, <2>1, Zenon DEF LookedUp
  <2> QED BY <2>1, <2>2, Zenon
<1>9. AccessIsAllowed' BY <1>2, <1>7, <1>8, GrantAllowed, Zenon
<1> QED BY <1>6, <1>9, Zenon DEF FTPInv

LEMMA NextFTP == FTPInv /\ [FTPNext]_ftpVars => FTPInv'
<1> SUFFICES ASSUME FTPInv, [FTPNext]_ftpVars PROVE FTPInv'
  BY Zenon
<1>1. ASSUME UNCHANGED <<users, files, overtaken, sess, listeners, granted>> PROVE FTPInv'
  BY <1>1, SameGrants, Zenon DEF FTPInv, FTPTypes, Rights, Acting, LookedUp, allowedFiles, Owned
<1>2. ASSUME NEW c \in FTPConns, ClientLeaves(c) PROVE FTPInv'
  BY <1>1, <1>2, Zenon DEF ClientLeaves
<1>3. ASSUME NEW f \in Catalogs, SetFiles(f) PROVE FTPInv'
  <2>1. UNCHANGED <<users, sess, listeners, granted>> BY <1>3, Zenon DEF SetFiles
  <2>2. ASSUME NEW c \in FTPConns PROVE c \in overtaken' \/ LookedUp(sess[c])'
    BY <1>3, <2>1, Zenon DEF SetFiles, LookedUp
  <2>3. Rights' BY <2>1, <2>2, Zenon DEF FTPInv, Rights, Acting
  <2> QED BY <2>1, <2>3, SameGrants, Zenon DEF FTPInv, FTPTypes, Owned
<1>4. CASE UNCHANGED ftpVars BY <1>1, <1>4, Zenon DEF ftpVars
<1> QED BY <1>2, <1>3, <1>4, LoginStep, PasvStep, ReturnStep, TransferStep, AcceptStep,
           FileStep, DeleteStep, Zenon DEF FTPNext

\* However logins, transfers, deletions and replaced catalogs interleave on
\* any number of connections, a command succeeds only for files of the user
\* who proved who they are; only a deletion that SetFiles overtook may hit
\* another.
THEOREM OnlyAllowedFiles == FTPSpec => []AccessIsAllowed
<1>1. FTPInv => AccessIsAllowed BY Zenon DEF FTPInv
<1> QED BY <1>1, InitFTP, NextFTP, PTL DEF FTPSpec

\* No passive listener is lost and no configured port is bound twice, however
\* many sessions compete for the range.
THEOREM ListenersAreOwned == FTPSpec => []NoListenerLeaks
<1>1. FTPInv => NoListenerLeaks BY Zenon DEF FTPInv, Owned, NoListenerLeaks
<1> QED BY <1>1, InitFTP, NextFTP, PTL DEF FTPSpec

-----------------------------------------------------------------------------
(* IMAP *)

\* Commands on mail are possible only after a LOGIN that succeeded, and the
\* copy that FETCH and SEARCH read is the one the last SELECT announced: no
\* command but SELECT changes it, not even a LOGIN that leaves the mailbox.
IMAPInv ==
    /\ state \in {"AUTHENTICATED", "SELECTED"} => login
    /\ state = "SELECTED" => selected = promised
    /\ MailNeedsLogin

LEMMA InitIMAP == IMAPInit => IMAPInv
BY Zenon DEF IMAPInit, IMAPInv, MailNeedsLogin

LEMMA NextIMAP == IMAPInv /\ [IMAPNext]_imapVars => IMAPInv'
<1> SUFFICES ASSUME IMAPInv, [IMAPNext]_imapVars PROVE IMAPInv'
  BY Zenon
<1> USE DEF IMAPInv, MailNeedsLogin
<1>1. ASSUME NEW right \in BOOLEAN, Login(right) PROVE IMAPInv'
  BY <1>1, Zenon DEF Login
<1>2. ASSUME NEW n \in Names, Select(n) PROVE IMAPInv'
  BY <1>2, Zenon DEF Select
<1>3. CASE Show
  BY <1>3, Zenon DEF Show
<1>4. CASE Logout
  BY <1>4, Zenon DEF Logout
<1>5. ASSUME NEW S \in SUBSET Names, SetMailboxes(S) PROVE IMAPInv'
  BY <1>5, Zenon DEF SetMailboxes
<1>6. CASE UNCHANGED imapVars
  BY <1>6, Zenon DEF imapVars
<1> QED BY <1>1, <1>2, <1>3, <1>4, <1>5, <1>6, Zenon DEF IMAPNext

\* Only FETCH and SEARCH show mail, and they show the selected copy.
LEMMA ShownAsPromised ==
    ASSUME IMAPInv, [IMAPNext]_imapVars, shown' # shown
    PROVE  shown' = promised
<1>1. Show
  BY Zenon DEF IMAPNext, imapVars, Login, Select, Logout, SetMailboxes
<1> QED BY <1>1, Zenon DEF Show, IMAPInv

\* IMAP's FETCH and SEARCH answer from what the last SELECT announced, and only
\* after a LOGIN that succeeded, however often the management API replaces the
\* mailboxes in between and for any mailboxes and users.
THEOREM MailAsSelected == IMAPSpec => MailIsAsSelected
<1>1. IMAPInit => IMAPInv
  BY InitIMAP, Zenon
<1>2. IMAPInv /\ [IMAPNext]_imapVars => IMAPInv'
  BY NextIMAP, Zenon
<1>3. IMAPInv => MailNeedsLogin
  BY Zenon DEF IMAPInv
<1>4. IMAPInv /\ [IMAPNext]_imapVars => [shown' # shown => shown' = promised]_imapVars
  BY ShownAsPromised, Zenon
<1> QED BY <1>1, <1>2, <1>3, <1>4, PTL DEF IMAPSpec, MailIsAsSelected, SelectionIsStable

-----------------------------------------------------------------------------
(* SMTP *)

Recipients == Seq(Addresses)

Envelope == [from : Senders \cup {NoSender}, to : Recipients]

Email == [email : Envelope, said : Envelope, accepted : Recipients]

SMTPTypes ==
    /\ envelope \in [Sessions -> Envelope] /\ begun \in [Sessions -> BOOLEAN]
    /\ stage \in [Sessions -> {"commands", "check", "store"}]
    /\ next \in [Sessions -> Nat]
    /\ verdicts \in [Sessions -> Recipients]
    /\ said \in [Sessions -> Envelope]
    /\ inbox \in Seq(Email)

\* v holds the first n - 1 of the recipients in to.
Judged(v, to, n) ==
    /\ n \in 1 .. Len(to) + 1
    /\ Len(v) = n - 1
    /\ \A i \in 1 .. n - 1 : v[i] = to[i]

\* An envelope is what the client said since the transaction began and empty
\* when none has;
\* while Data runs, the verdicts are about its recipients, in their order.
Sound(e, b, g, n, v, sd) ==
    /\ e = IF b = TRUE THEN sd ELSE Empty
    /\ g # "commands" => b = TRUE /\ Judged(v, e.to, n)
    /\ g = "check" => n <= Len(e.to)
    /\ g = "store" => n = Len(e.to) + 1

Transactions ==
    \A s \in Sessions : Sound(envelope[s], begun[s], stage[s], next[s], verdicts[s], said[s])

SMTPInv == SMTPTypes /\ Transactions /\ StoredMailIsOwn

LEMMA InitSMTP == SMTPInit => SMTPInv
BY DEF SMTPInit, SMTPInv, SMTPTypes, Transactions, Sound, Recipients, Envelope, Empty,
       StoredMailIsOwn, EnvelopeIsOwn, EveryRecipientWasAccepted

\* Recipients that were all judged, in order, are the recipients.
LEMMA AllJudged ==
    ASSUME NEW v \in Recipients, NEW to \in Recipients, Judged(v, to, Len(to) + 1)
    PROVE  v = to
<1>1. Len(v) = Len(to) /\ \A i \in 1 .. Len(v) : v[i] = to[i]
  BY DEF Judged, Recipients
<1> QED BY <1>1, SeqEqual, Zenon DEF Recipients

\* The next verdict.
LEMMA JudgedNext ==
    ASSUME NEW v \in Recipients, NEW to \in Recipients, NEW n \in Nat,
           Judged(v, to, n), n <= Len(to)
    PROVE  Append(v, to[n]) \in Recipients /\ Judged(Append(v, to[n]), to, n + 1)
<1>1. n \in 1 .. Len(to) /\ Len(to) \in Nat /\ Len(v) = n - 1 /\ to[n] \in Addresses
  BY DEF Judged, Recipients
<1>2. /\ Append(v, to[n]) \in Recipients
      /\ Len(Append(v, to[n])) = n
      /\ \A i \in 1 .. n : Append(v, to[n])[i] = IF i = n THEN to[n] ELSE v[i]
  BY <1>1 DEF Recipients
<1> QED BY <1>1, <1>2 DEF Judged

\* Session r is as it was.
SessionKept(r) ==
    /\ envelope'[r] = envelope[r] /\ begun'[r] = begun[r] /\ stage'[r] = stage[r]
    /\ next'[r] = next[r] /\ verdicts'[r] = verdicts[r] /\ said'[r] = said[r]

\* A step of session s: what it must establish of its own state.
LEMMA SessionStep ==
    ASSUME SMTPInv, NEW s \in Sessions,
           \A r \in Sessions \ {s} : SessionKept(r),
           Sound(envelope'[s], begun'[s], stage'[s], next'[s], verdicts'[s], said'[s])
    PROVE  Transactions'
<1>1. ASSUME NEW r \in Sessions, r # s
      PROVE  Sound(envelope'[r], begun'[r], stage'[r], next'[r], verdicts'[r], said'[r])
  <2>1. /\ envelope'[r] = envelope[r] /\ begun'[r] = begun[r] /\ stage'[r] = stage[r]
        /\ next'[r] = next[r] /\ verdicts'[r] = verdicts[r] /\ said'[r] = said[r]
    BY <1>1, Zenon DEF SessionKept
  <2> QED BY <2>1 DEF SMTPInv, Transactions
<1> QED BY <1>1, Zenon DEF Transactions

\* A session's own state.
LEMMA OwnState ==
    ASSUME SMTPInv, NEW s \in Sessions
    PROVE  /\ Sound(envelope[s], begun[s], stage[s], next[s], verdicts[s], said[s])
           /\ envelope[s] \in Envelope
           /\ envelope[s].to \in Recipients
           /\ said[s] \in Envelope /\ said[s].to \in Recipients /\ begun[s] \in BOOLEAN
           /\ next[s] \in Nat /\ verdicts[s] \in Recipients
BY Zenon DEF SMTPInv, SMTPTypes, Transactions, Envelope

\* The commands that build the envelope.
LEMMA EnvelopeStep ==
    ASSUME SMTPInv, NEW s \in Sessions,
           \/ \E from \in Senders : Mail(s, from)
           \/ Rset(s) \/ \E to \in Addresses : Rcpt(s, to)
    PROVE  SMTPTypes' /\ Transactions'
<1> DEFINE e == envelope[s]
<1>1. <<>> \in Recipients /\ Empty \in Envelope /\ Empty.to = <<>>
  BY DEF Recipients, Empty, Envelope
<1>2. ASSUME NEW from \in Senders, Mail(s, from) PROVE SMTPTypes' /\ Transactions'
  <2> DEFINE d == [e EXCEPT !.from = from]
             sd == [from |-> from, to |-> IF begun[s] THEN said[s].to ELSE <<>>]
  <2>1. d \in Envelope /\ sd \in Envelope
    BY <1>1, OwnState, Zenon DEF Envelope
  <2>2. d = sd
    <3>1. e = IF begun[s] = TRUE THEN said[s] ELSE Empty BY OwnState, Zenon DEF Sound
    <3>2. e.to = IF begun[s] THEN said[s].to ELSE <<>> BY <1>1, <3>1, OwnState, Zenon
    <3>3. e \in [from : Senders \cup {NoSender}, to : Recipients] BY OwnState, Zenon DEF Envelope
    <3> QED BY <3>2, <3>3
  <2>3. /\ envelope' = [envelope EXCEPT ![s] = d] /\ said' = [said EXCEPT ![s] = sd]
        /\ begun' = [begun EXCEPT ![s] = TRUE]
        /\ UNCHANGED <<stage, next, verdicts, inbox>> /\ stage[s] = "commands"
    BY <1>2, Zenon DEF Mail
  <2> HIDE DEF d, sd
  <2>4. SMTPTypes' /\ \A r \in Sessions \ {s} : SessionKept(r)
    BY <2>1, <2>3, Zenon DEF SMTPInv, SMTPTypes, SessionKept
  <2>5. /\ envelope'[s] = d /\ said'[s] = d /\ begun'[s] = TRUE /\ stage'[s] = "commands"
    BY <2>2, <2>3, Zenon DEF SMTPInv, SMTPTypes
  <2>6. Sound(envelope'[s], begun'[s], stage'[s], next'[s], verdicts'[s], said'[s])
    BY <2>5, Zenon DEF Sound
  <2> QED BY <2>4, <2>6, SessionStep, Zenon
<1>3. CASE Rset(s)
  <2>1. SMTPTypes' /\ \A r \in Sessions \ {s} : SessionKept(r)
    BY <1>1, <1>3, Zenon DEF Rset, Reset, SMTPInv, SMTPTypes, SessionKept
  <2>2. envelope'[s] = Empty /\ begun'[s] = FALSE /\ stage'[s] = "commands"
    BY <1>3, Zenon DEF Rset, Reset, SMTPInv, SMTPTypes
  <2>3. Sound(envelope'[s], begun'[s], stage'[s], next'[s], verdicts'[s], said'[s])
    BY <2>2, Zenon DEF Sound
  <2> QED BY <2>1, <2>3, SessionStep, Zenon
<1>4. ASSUME NEW to \in Addresses, Rcpt(s, to) PROVE SMTPTypes' /\ Transactions'
  <2> DEFINE d == [e EXCEPT !.to = Append(e.to, to)]
  <2>1. e = said[s] /\ begun[s] = TRUE BY <1>4, OwnState, Zenon DEF Rcpt, Sound
  <2>2. d \in Envelope
    <3>1. Append(e.to, to) \in Recipients BY OwnState DEF Recipients
    <3> QED BY <3>1, OwnState, Zenon DEF Envelope
  <2>3. /\ envelope' = [envelope EXCEPT ![s] = d] /\ said' = [said EXCEPT ![s] = d]
        /\ UNCHANGED <<begun, stage, next, verdicts, inbox>> /\ stage[s] = "commands"
    BY <1>4, <2>1, Zenon DEF Rcpt
  <2> HIDE DEF d
  <2>4. SMTPTypes' /\ \A r \in Sessions \ {s} : SessionKept(r)
    BY <2>2, <2>3, Zenon DEF SMTPInv, SMTPTypes, SessionKept
  <2>5. /\ envelope'[s] = d /\ said'[s] = d /\ begun'[s] = TRUE /\ stage'[s] = "commands"
    BY <2>1, <2>3, Zenon DEF SMTPInv, SMTPTypes
  <2>6. Sound(envelope'[s], begun'[s], stage'[s], next'[s], verdicts'[s], said'[s])
    BY <2>5, Zenon DEF Sound
  <2> QED BY <2>4, <2>6, SessionStep, Zenon
<1> QED BY <1>2, <1>3, <1>4, Zenon

\* Data: its beginning, the verdict on one recipient, and its refusals.
LEMMA DataStep ==
    ASSUME SMTPInv, NEW s \in Sessions, Data(s) \/ Faulted(s) \/ Check(s)
    PROVE  SMTPTypes' /\ Transactions'
<1> DEFINE e == envelope[s]
<1>1. <<>> \in Recipients /\ Empty \in Envelope
  BY DEF Recipients, Empty, Envelope
<1>2. CASE Data(s)
  <2>0. e = said[s] /\ begun[s] = TRUE
    BY <1>2, OwnState, Zenon DEF Data, Sound
  <2>1. Len(e.to) \in Nat \ {0}
    <3>1. e.to # <<>> BY <1>2, <2>0, Zenon DEF Data
    <3> QED BY <3>1, OwnState DEF Recipients
  <2>2. Judged(<<>>, e.to, 1)
    BY <2>1 DEF Judged
  <2>3. SMTPTypes' /\ \A r \in Sessions \ {s} : SessionKept(r)
    BY <1>1, <1>2 DEF Data, SMTPInv, SMTPTypes, SessionKept
  <2>4. /\ envelope'[s] = e /\ stage'[s] = "check" /\ next'[s] = 1
        /\ verdicts'[s] = <<>> /\ said'[s] = said[s] /\ begun'[s] = begun[s]
    BY <1>2, Zenon DEF Data, SMTPInv, SMTPTypes
  <2>5. Sound(envelope'[s], begun'[s], stage'[s], next'[s], verdicts'[s], said'[s])
    BY <2>0, <2>1, <2>2, <2>4 DEF Sound
  <2> QED BY <2>3, <2>5, SessionStep, Zenon
<1>3. CASE RefuseMail(s)
  <2>1. SMTPTypes' /\ \A r \in Sessions \ {s} : SessionKept(r)
    BY <1>1, <1>3 DEF RefuseMail, Reset, SMTPInv, SMTPTypes, SessionKept
  <2>2. envelope'[s] = Empty /\ begun'[s] = FALSE /\ stage'[s] = "commands"
    BY <1>3, Zenon DEF RefuseMail, Reset, SMTPInv, SMTPTypes
  <2>3. Sound(envelope'[s], begun'[s], stage'[s], next'[s], verdicts'[s], said'[s])
    BY <2>2, Zenon DEF Sound
  <2> QED BY <2>1, <2>3, SessionStep, Zenon
<1>4. CASE stage[s] = "check" /\ Accepted(s)
  <2> DEFINE v == Append(verdicts[s], e.to[next[s]])
  <2>1. /\ Judged(verdicts[s], e.to, next[s]) /\ next[s] <= Len(e.to)
        /\ begun[s] = TRUE /\ e = said[s]
    BY <1>4, OwnState, Zenon DEF Sound
  <2>2. v \in Recipients /\ Judged(v, e.to, next[s] + 1)
    BY <2>1, OwnState, JudgedNext, Zenon
  <2>3. Len(e.to) \in Nat /\ next[s] \in Nat
    BY OwnState DEF Recipients
  <2>4. SMTPTypes' /\ \A r \in Sessions \ {s} : SessionKept(r)
    BY <1>4, <2>2, <2>3 DEF Accepted, SMTPInv, SMTPTypes, SessionKept
  <2>5. /\ envelope'[s] = e /\ next'[s] = next[s] + 1 /\ verdicts'[s] = v
        /\ stage'[s] = (IF next[s] = Len(e.to) THEN "store" ELSE "check")
        /\ said'[s] = said[s] /\ begun'[s] = begun[s]
    BY <1>4 DEF Accepted, SMTPInv, SMTPTypes
  <2> HIDE DEF v
  <2>6. Sound(envelope'[s], begun'[s], stage'[s], next'[s], verdicts'[s], said'[s])
    BY <2>1, <2>2, <2>3, <2>5, OwnState DEF Sound
  <2> QED BY <2>4, <2>6, SessionStep, Zenon
<1> QED BY <1>2, <1>3, <1>4, Zenon DEF Faulted, Check

\* What StoreMail stores: every recipient was said in this transaction, and
\* every one was accepted.
LEMMA StoreStep ==
    ASSUME SMTPInv, NEW s \in Sessions, StoreMail(s)
    PROVE  SMTPInv'
<1> DEFINE e == envelope[s]
           m == [email |-> e, said |-> said[s], accepted |-> verdicts[s]]
<1>1. Empty \in Envelope
  BY DEF Recipients, Empty, Envelope
<1>2. e = said[s] /\ Judged(verdicts[s], e.to, Len(e.to) + 1)
  BY OwnState, Zenon DEF StoreMail, Sound
<1>3. verdicts[s] = e.to
  BY <1>2, OwnState, AllJudged, Zenon
<1>4. m \in Email /\ m.email = m.said /\ m.accepted = m.email.to
  BY <1>2, <1>3, OwnState, Zenon DEF Email
<1>5. inbox \in Seq(Email) /\ inbox' = Append(inbox, m)
  BY DEF StoreMail, SMTPInv, SMTPTypes
<1> HIDE DEF m
<1>6. /\ inbox' \in Seq(Email)
      /\ \A i \in DOMAIN inbox' : inbox'[i] = m \/ (i \in DOMAIN inbox /\ inbox'[i] = inbox[i])
  BY <1>4, <1>5
<1>7. StoredMailIsOwn'
  BY <1>4, <1>6 DEF SMTPInv, StoredMailIsOwn, EnvelopeIsOwn, EveryRecipientWasAccepted
<1>8. SMTPTypes' /\ \A r \in Sessions \ {s} : SessionKept(r)
  BY <1>1, <1>6 DEF StoreMail, Reset, SMTPInv, SMTPTypes, SessionKept
<1>9. envelope'[s] = Empty /\ begun'[s] = FALSE /\ stage'[s] = "commands"
  BY Zenon DEF StoreMail, Reset, SMTPInv, SMTPTypes
<1>10. Sound(envelope'[s], begun'[s], stage'[s], next'[s], verdicts'[s], said'[s])
  BY <1>9, Zenon DEF Sound
<1> QED BY <1>7, <1>8, <1>10, SessionStep DEF SMTPInv

LEMMA NextSMTP == SMTPInv /\ [SMTPNext]_smtpVars => SMTPInv'
<1> SUFFICES ASSUME SMTPInv, [SMTPNext]_smtpVars PROVE SMTPInv'
  BY Zenon
<1>1. ASSUME inbox' = inbox PROVE StoredMailIsOwn'
  BY <1>1 DEF SMTPInv, StoredMailIsOwn, EnvelopeIsOwn, EveryRecipientWasAccepted
<1>2. ASSUME NEW s \in Sessions,
             \/ \E from \in Senders : Mail(s, from)
             \/ Rset(s) \/ \E to \in Addresses : Rcpt(s, to)
      PROVE  SMTPInv'
  <2>1. inbox' = inbox
    BY <1>2, Zenon DEF Mail, Rset, Rcpt
  <2> QED BY <1>1, <1>2, <2>1, EnvelopeStep DEF SMTPInv
<1>3. ASSUME NEW s \in Sessions, Data(s) \/ Faulted(s) \/ Check(s) PROVE SMTPInv'
  <2>1. inbox' = inbox
    BY <1>3, Zenon DEF Data, Faulted, Check, RefuseMail, Accepted
  <2> QED BY <1>1, <1>3, <2>1, DataStep DEF SMTPInv
<1>4. ASSUME NEW s \in Sessions, StoreMail(s) PROVE SMTPInv'
  BY <1>4, StoreStep, Zenon
<1>5. ASSUME UNCHANGED <<envelope, begun, stage, next, verdicts, said, inbox>> PROVE SMTPInv'
  BY <1>1, <1>5 DEF SMTPInv, SMTPTypes, Transactions
<1>6. ASSUME NEW r \in RuleSets, SetRules(r) PROVE SMTPInv'
  BY <1>5, <1>6, Zenon DEF SetRules
<1>7. CASE UNCHANGED smtpVars
  BY <1>5, <1>7, Zenon DEF smtpVars
<1> QED BY <1>2, <1>3, <1>4, <1>6, <1>7 DEF SMTPNext

\* A stored email has the sender its client named last and the recipients its
\* own transaction named, each of them accepted by the rules in force when Data looked at it, for any number of
\* sessions and recipients and however often the rules are replaced.
THEOREM StoredMail == SMTPSpec => []StoredMailIsOwn
<1>1. SMTPInit => SMTPInv
  BY InitSMTP
<1>2. SMTPInv /\ [SMTPNext]_smtpVars => SMTPInv'
  BY NextSMTP
<1>3. SMTPInv => StoredMailIsOwn
  BY DEF SMTPInv
<1> QED BY <1>1, <1>2, <1>3, PTL DEF SMTPSpec

-----------------------------------------------------------------------------
(* LDAP *)

MockSeq == Seq(LDAPMocks)

LDAPTypes ==
    /\ ldapMocks \in MockSeq /\ pending \in MockSeq /\ entries \in MockSeq
    /\ snapshot \in MockSeq
    /\ boundAny \in BOOLEAN

\* What is written and what is not yet written make up the whole answer.
Split(written, rest, whole) == written \o rest = whole

\* The session acts as the user of its last bind; the answer of a search that
\* is under way is the mocks it met, all of them visible to that user.
LDAPInv ==
    /\ LDAPTypes
    /\ ldapUsers # {} => boundUser = binder /\ (boundAny => binder # NoOne)
    /\ phase = "entries" =>
          /\ Split(entries, pending, snapshot) /\ logged = entries
          /\ ldapUsers # {} => binder # NoOne /\ Range(snapshot) \subseteq Visible(binder)
    /\ phase = "read" => entries = snapshot /\ logged = entries

\* out is the loop of Matched up to index n.
Matches(out, ms, S, n) ==
    out = [i \in 0 .. n |->
             IF i = 0 THEN <<>>
             ELSE IF ms[i] \in S THEN Append(out[i - 1], ms[i])
             ELSE out[i - 1]]

\* The loop is defined, for a list of any length.
LEMMA MatchesExist ==
    ASSUME NEW ms, NEW S, NEW n \in Nat
    PROVE  \E out : Matches(out, ms, S, n)
<1> DEFINE T == {i \in Nat : \E out : Matches(out, ms, S, i)}
<1>1. 0 \in T
  <2>1. Matches([i \in 0 .. 0 |-> <<>>], ms, S, 0)
    BY DEF Matches
  <2> QED BY <2>1, Zenon
<1>2. ASSUME NEW k \in 0 .. n - 1, k \in T PROVE k + 1 \in T
  <2>1. PICK f : Matches(f, ms, S, k)
    BY <1>2, Zenon
  <2> DEFINE step(i, v) == IF ms[i] \in S THEN Append(v, ms[i]) ELSE v
             g == [i \in 0 .. k + 1 |-> IF i = k + 1 THEN step(i, f[k]) ELSE f[i]]
  <2>2. ASSUME NEW i \in 0 .. k + 1
        PROVE  g[i] = IF i = 0 THEN <<>> ELSE step(i, g[i - 1])
    <3>1. CASE i = k + 1
      BY <1>2, <3>1
    <3>2. CASE i = 0
      BY <1>2, <2>1, <3>2 DEF Matches
    <3>3. CASE i \in 1 .. k
      <4>1. f[i] = step(i, f[i - 1])
        <5>1. i \in 0 .. k /\ i # 0
          BY <1>2, <3>3
        <5> QED BY <2>1, <5>1, Zenon DEF Matches
      <4>2. g[i] = f[i] /\ g[i - 1] = f[i - 1]
        BY <1>2, <3>3
      <4> QED BY <3>3, <4>1, <4>2
    <3> QED BY <1>2, <3>1, <3>2, <3>3
  <2>3. g = [i \in 0 .. k + 1 |-> g[i]]
    BY Zenon
  <2> HIDE DEF g
  <2>4. Matches(g, ms, S, k + 1)
    BY <2>2, <2>3, Zenon DEF Matches
  <2> QED BY <1>2, <2>4
<1> HIDE DEF T
<1>3. 0 .. n \subseteq T
  BY <1>1, <1>2, InductionUpTo, Zenon
<1>4. n \in T
  BY <1>3
<1> QED BY <1>4, Zenon DEF T

\* What matchMocks returns are mocks, and only such as it was asked for.
LEMMA MatchedAre ==
    ASSUME NEW ms \in MockSeq, NEW S
    PROVE  Matched(ms, S) \in MockSeq /\ Range(Matched(ms, S)) \subseteq S
<1> DEFINE n == Len(ms)
           out == CHOOSE f : Matches(f, ms, S, n)
           T == {i \in 0 .. n : out[i] \in MockSeq /\ Range(out[i]) \subseteq S}
<1>1. n \in Nat
  BY DEF MockSeq
<1>2. Matches(out, ms, S, n)
  BY <1>1, MatchesExist, Zenon
<1>3. Matched(ms, S) = out[n]
  BY Zenon DEF Matched, Matches
<1> HIDE DEF out
<1>4. 0 \in T
  <2>1. out[0] = <<>>
    BY <1>1, <1>2 DEF Matches
  <2>2. <<>> \in MockSeq /\ DOMAIN <<>> = {}
    BY DEF MockSeq
  <2> QED BY <1>1, <2>1, <2>2 DEF Range
<1>5. ASSUME NEW k \in 0 .. n - 1, k \in T PROVE k + 1 \in T
  <2>1. k + 1 \in 0 .. n /\ k + 1 # 0 /\ (k + 1) - 1 = k /\ k + 1 \in 1 .. n
    BY <1>1, <1>5
  <2>2. out[k + 1] = IF ms[k + 1] \in S THEN Append(out[(k + 1) - 1], ms[k + 1])
                     ELSE out[(k + 1) - 1]
    BY <1>2, <2>1, Zenon DEF Matches
  <2>3. out[k + 1] = IF ms[k + 1] \in S THEN Append(out[k], ms[k + 1]) ELSE out[k]
    BY <2>1, <2>2, Zenon
  <2>4. out[k] \in MockSeq /\ Range(out[k]) \subseteq S /\ ms[k + 1] \in LDAPMocks
    BY <1>5, <2>1 DEF MockSeq
  <2>5. CASE ms[k + 1] \in S
    <3>1. Append(out[k], ms[k + 1]) \in MockSeq
      BY <2>4 DEF MockSeq
    <3>2. Range(Append(out[k], ms[k + 1])) \subseteq S
      BY <2>4, <2>5 DEF MockSeq, Range
    <3> QED BY <2>1, <2>3, <2>5, <3>1, <3>2, Zenon
  <2>6. CASE ms[k + 1] \notin S
    BY <2>1, <2>3, <2>4, <2>6, Zenon
  <2> QED BY <2>5, <2>6, Zenon
<1> HIDE DEF T
<1>6. 0 .. n \subseteq T
  BY <1>1, <1>4, <1>5, InductionUpTo, Zenon
<1>7. n \in T
  BY <1>1, <1>6
<1> QED BY <1>3, <1>7, Zenon DEF T

LEMMA InitLDAP == LDAPInit => LDAPInv
<1> SUFFICES ASSUME LDAPInit PROVE LDAPInv
  BY Zenon
<1>1. <<>> \in MockSeq /\ LDAPConfigs \subseteq MockSeq
  BY LDAPAssumption DEF MockSeq
<1>2. boundAny \in BOOLEAN /\ (ldapUsers # {} => ~boundAny)
  BY Zenon DEF LDAPInit
<1> QED BY <1>1, <1>2, Zenon DEF LDAPInit, LDAPInv, LDAPTypes

\* A search: what it answers from is what the user of the last bind may see.
LEMMA SearchStep ==
    ASSUME LDAPInv, NEW wanted \in SUBSET LDAPMocks, Search(wanted)
    PROVE  LDAPInv'
<1>1. wanted \cap Visible(boundUser) = wanted \cap Visible(binder)
  BY Zenon DEF LDAPInv, Visible
<1>2. pending' = snapshot' /\ snapshot' = Matched(ldapMocks, wanted \cap Visible(binder))
  BY <1>1, Zenon DEF Search, matchMocks
<1>3. snapshot' \in MockSeq /\ Range(snapshot') \subseteq Visible(binder)
  BY <1>2, MatchedAre, Zenon DEF LDAPInv, LDAPTypes
<1>4. Visible(binder)' = Visible(binder)
  BY Zenon DEF Search, Visible
<1>5. Split(<<>>, pending', snapshot')
  BY <1>2, <1>3 DEF Split, MockSeq
<1>6. LDAPTypes'
  BY <1>2, <1>3 DEF LDAPInv, LDAPTypes, Search, MockSeq
<1> QED BY <1>3, <1>4, <1>5, <1>6, Zenon DEF LDAPInv, Search

\* The next entry: what is written and what is not stay the same answer.
LEMMA WriteEntryStep ==
    ASSUME LDAPInv, WriteEntry
    PROVE  LDAPInv'
<1>1. pending \in MockSeq /\ entries \in MockSeq /\ pending # <<>>
  BY Zenon DEF LDAPInv, LDAPTypes, WriteEntry
<1>2. entries' \in MockSeq /\ pending' \in MockSeq
  BY <1>1 DEF WriteEntry, MockSeq
<1>3. Split(entries', pending', snapshot)
  BY <1>1, MoveHead, Zenon DEF WriteEntry, LDAPInv, Split, MockSeq
<1>4. Visible(binder)' = Visible(binder)
  BY Zenon DEF WriteEntry, Visible
<1> QED BY <1>2, <1>3, <1>4, Zenon DEF LDAPInv, LDAPTypes, WriteEntry

\* When nothing is left to write, all of the answer is written.
LEMMA SearchDoneStep ==
    ASSUME LDAPInv, SearchDone
    PROVE  LDAPInv'
<1>1. entries = snapshot
  <2>1. entries \o <<>> = entries
    BY DEF LDAPInv, LDAPTypes, MockSeq
  <2> QED BY <2>1, Zenon DEF LDAPInv, SearchDone, Split
<1> QED BY <1>1, Zenon DEF LDAPInv, LDAPTypes, SearchDone

LEMMA NextLDAP == LDAPInv /\ [LDAPNext]_ldapVars => LDAPInv'
<1> SUFFICES ASSUME LDAPInv, [LDAPNext]_ldapVars PROVE LDAPInv'
  BY Zenon
<1>1. ASSUME NEW u \in LDAPUsers, NEW right \in BOOLEAN, Bind(u, right) PROVE LDAPInv'
  BY <1>1, LDAPAssumption, Zenon DEF Bind, LDAPInv, LDAPTypes
<1>2. ASSUME NEW wanted \in SUBSET LDAPMocks, Search(wanted) PROVE LDAPInv'
  BY <1>2, SearchStep, Zenon
<1>3. CASE RefusedSearch
  BY <1>3 DEF RefusedSearch, LDAPInv, LDAPTypes, MockSeq
<1>4. CASE WriteEntry
  BY <1>4, WriteEntryStep, Zenon
<1>5. CASE SearchDone
  BY <1>5, SearchDoneStep, Zenon
<1>6. CASE Unbind
  BY <1>6, Zenon DEF Unbind, LDAPInv, LDAPTypes
<1>7. ASSUME NEW ms \in LDAPConfigs, LDAPSetMocks(ms) PROVE LDAPInv'
  <2>1. Visible(binder)' = Visible(binder)
    BY <1>7, Zenon DEF LDAPSetMocks, Visible
  <2> QED BY <1>7, <2>1, LDAPAssumption, Zenon DEF LDAPSetMocks, LDAPInv, LDAPTypes, MockSeq
<1>8. CASE UNCHANGED ldapVars
  <2>1. Visible(binder)' = Visible(binder)
    BY <1>8, Zenon DEF ldapVars, Visible
  <2> QED BY <1>8, <2>1, Zenon DEF ldapVars, LDAPInv, LDAPTypes
<1> QED BY <1>1, <1>2, <1>3, <1>4, <1>5, <1>6, <1>7, <1>8, Zenon DEF LDAPNext

\* An LDAP search answers, completely and in order, with one state of the mocks
\* as the user of the last bind may see it, and logs what it answered, for any
\* mocks and users and however often SetMocks comes between two entries.
THEOREM SearchesExact == LDAPSpec => []SearchesAreExact
<1>1. LDAPInit => LDAPInv
  BY InitLDAP, Zenon
<1>2. LDAPInv /\ [LDAPNext]_ldapVars => LDAPInv'
  BY NextLDAP, Zenon
<1>3. LDAPInv => SearchesAreExact
  <2> SUFFICES ASSUME LDAPInv PROVE SearchesAreExact
    BY Zenon
  <2>1. ASSUME phase = "entries" PROVE Range(entries) \subseteq Range(snapshot)
    <3>1. entries \in MockSeq /\ pending \in MockSeq /\ snapshot = entries \o pending
      BY <2>1, Zenon DEF LDAPInv, LDAPTypes, Split
    <3>2. \A i \in DOMAIN entries : i \in DOMAIN snapshot /\ snapshot[i] = entries[i]
      BY <3>1 DEF MockSeq
    <3> QED BY <3>2, Zenon DEF Range
  <2> QED BY <2>1, Zenon DEF LDAPInv, SearchesAreExact, EntriesNeedTheirBind, SearchIsOneSnapshot
<1> QED BY <1>1, <1>2, <1>3, PTL DEF LDAPSpec

-----------------------------------------------------------------------------
(* Memcached *)

Piece == {"line", "block"} \X Nat

MemTypes ==
    /\ kinds \in Seq(Plain \cup Stores)
    /\ input \in Seq(Piece)
    /\ owes \in BOOLEAN
    /\ pc \in {"read", "block", "closed"}
    /\ current \in 0 .. Len(kinds)
    /\ replies \in Seq(Nat)
    /\ refused \subseteq 1 .. current /\ misread \subseteq 1 .. current

\* The place of a piece in what the client sends: line i before block i.
Rank(p) == IF p[1] = "line" THEN 2 * p[2] ELSE 2 * p[2] + 1

InOrder(s) == \A a, b \in DOMAIN s : a < b => Rank(s[a]) < Rank(s[b])

\* The block of request i is still to be read.
BlockAhead(i) == <<"block", i>> \in Range(input) \/ (owes /\ i = Len(kinds))

\* The storage commands whose block ReadFull waits for.
Awaited == Stores \ {"bad", "cas"}

\* What is not yet read, in order: the lines after the current one and their
\* blocks.  The current request's block is among them only when ReadFull waits
\* for it, or when the request was refused before its block was read or gave a
\* length that is no number.
Framed ==
    /\ InOrder(input)
    /\ \A p \in Range(input) :
          /\ p[2] \in 1 .. Len(kinds) /\ p[2] >= current
          /\ IF p[1] = "line" THEN p[2] > current ELSE kinds[p[2]] \in Stores
    /\ \A i \in current + 1 .. Len(kinds) :
          <<"line", i>> \in Range(input) /\ (kinds[i] \in Stores => BlockAhead(i))
    /\ pc = "block" => /\ current # 0 /\ kinds[current] \in Awaited
                       /\ BlockAhead(current) /\ current \notin refused
    /\ pc = "read" /\ current # 0 /\ BlockAhead(current) =>
          current \in refused \/ kinds[current] = "garbled"
    /\ owes => /\ Len(kinds) # 0 /\ kinds[Len(kinds)] \in Stores
               /\ <<"block", Len(kinds)>> \notin Range(input)

MemInv ==
    /\ MemTypes
    /\ pc # "closed" => Framed
    /\ FramingIsKept

LEMMA InitMem == MemInit => MemInv
<1> SUFFICES ASSUME MemInit PROVE MemInv
  BY Zenon
<1>1. /\ <<>> \in Seq(Plain \cup Stores) /\ <<>> \in Seq(Piece) /\ <<>> \in Seq(Nat)
      /\ DOMAIN <<>> = {} /\ Len(<<>>) = 0
  OBVIOUS
<1>2. Range(<<>>) = {}
  BY <1>1, Zenon DEF Range
<1>3. MemTypes
  <2>1. /\ kinds \in Seq(Plain \cup Stores) /\ input \in Seq(Piece) /\ replies \in Seq(Nat)
        /\ Len(kinds) = 0
    BY <1>1, Zenon DEF MemInit
  <2>2. /\ current \in 0 .. Len(kinds) /\ refused \subseteq 1 .. current
        /\ misread \subseteq 1 .. current
    BY <2>1 DEF MemInit
  <2>3. owes \in BOOLEAN /\ pc \in {"read", "block", "closed"}
    BY Zenon DEF MemInit
  <2> QED BY <2>1, <2>2, <2>3, Zenon DEF MemTypes
<1>4. Framed
  BY <1>1, <1>2 DEF MemInit, Framed, InOrder, BlockAhead
<1>5. FramingIsKept
  BY <1>1, <1>2, Zenon DEF MemInit, FramingIsKept, BlocksAreNotCommands, AnswersArePaired
<1> QED BY <1>3, <1>4, <1>5, Zenon DEF MemInv

LEMMA RankType == \A p \in Piece : p[2] \in Nat /\ Rank(p) \in Nat
<1> SUFFICES ASSUME NEW p \in Piece PROVE p[2] \in Nat /\ Rank(p) \in Nat
  BY Zenon
<1>1. p[2] \in Nat
  BY Zenon DEF Piece
<1>2. CASE p[1] = "line"
  BY <1>1, <1>2 DEF Rank
<1>3. CASE p[1] # "line"
  BY <1>1, <1>3 DEF Rank
<1> QED BY <1>1, <1>2, <1>3, Zenon

\* Taking the first piece.
LEMMA TakePiece ==
    ASSUME NEW s \in Seq(Piece), s # <<>>, InOrder(s)
    PROVE  /\ Tail(s) \in Seq(Piece) /\ InOrder(Tail(s))
           /\ Head(s) \in Range(s) /\ Head(s) \in Piece
           /\ Range(Tail(s)) = Range(s) \ {Head(s)}
           /\ \A p \in Range(Tail(s)) : Rank(Head(s)) < Rank(p)
<1> DEFINE t == Tail(s)
           h == Head(s)
<1>1. /\ Len(s) \in Nat \ {0} /\ t \in Seq(Piece) /\ Len(t) = Len(s) - 1
      /\ h = s[1] /\ h \in Piece
      /\ DOMAIN s = 1 .. Len(s) /\ DOMAIN t = 1 .. Len(s) - 1
      /\ \A i \in 1 .. Len(s) - 1 : t[i] = s[i + 1]
  OBVIOUS
<1> HIDE DEF t, h
<1>2. \A i \in DOMAIN t : i + 1 \in DOMAIN s /\ 1 < i + 1 /\ t[i] = s[i + 1]
  BY <1>1
<1>3. \A i \in DOMAIN t : Rank(h) < Rank(t[i])
  BY <1>1, <1>2 DEF InOrder
<1>4. InOrder(t)
  <2> SUFFICES ASSUME NEW a \in DOMAIN t, NEW b \in DOMAIN t, a < b
               PROVE  Rank(t[a]) < Rank(t[b])
    BY Zenon DEF InOrder
  <2>1. a + 1 < b + 1
    BY <1>1
  <2> QED BY <1>2, <2>1, Zenon DEF InOrder
<1>5. \A i \in DOMAIN s : i = 1 \/ (i - 1 \in DOMAIN t /\ t[i - 1] = s[i])
  BY <1>1
<1>6. \A i \in DOMAIN t : t[i] # h
  <2> SUFFICES ASSUME NEW i \in DOMAIN t, t[i] = h PROVE FALSE
    BY Zenon
  <2>1. Rank(h) < Rank(h)
    BY <1>3, Zenon
  <2>2. Rank(h) \in Nat
    BY <1>1, RankType, Zenon
  <2> QED BY <2>1, <2>2
<1>7. 1 \in DOMAIN s
  BY <1>1
<1>8. Range(t) = Range(s) \ {h}
  <2>1. ASSUME NEW p \in Range(t) PROVE p \in Range(s) \ {h}
    BY <1>2, <1>6, <2>1, Zenon DEF Range
  <2>2. ASSUME NEW p \in Range(s) \ {h} PROVE p \in Range(t)
    BY <1>1, <1>5, <2>2 DEF Range
  <2> QED BY <2>1, <2>2, Zenon
<1>9. h \in Range(s)
  BY <1>1, <1>7, Zenon DEF Range
<1>10. \A p \in Range(t) : Rank(h) < Rank(p)
  BY <1>3, Zenon DEF Range
<1> QED BY <1>1, <1>4, <1>8, <1>9, <1>10, Zenon DEF t, h

\* Sending one more piece.
LEMMA AddPiece ==
    ASSUME NEW s \in Seq(Piece), InOrder(s), NEW x \in Piece,
           \A p \in Range(s) : Rank(p) < Rank(x)
    PROVE  /\ Append(s, x) \in Seq(Piece) /\ InOrder(Append(s, x))
           /\ Range(Append(s, x)) = Range(s) \cup {x}
<1> DEFINE t == Append(s, x)
<1>1. /\ Len(s) \in Nat /\ t \in Seq(Piece) /\ DOMAIN s = 1 .. Len(s)
      /\ DOMAIN t = 1 .. Len(s) + 1 /\ t[Len(s) + 1] = x
      /\ \A i \in 1 .. Len(s) : t[i] = s[i]
  OBVIOUS
<1> HIDE DEF t
<1>2. \A i \in DOMAIN t : (i \in DOMAIN s /\ t[i] = s[i]) \/ (i = Len(s) + 1 /\ t[i] = x)
  <2>1. \A i \in DOMAIN t : i \in 1 .. Len(s) \/ i = Len(s) + 1
    BY <1>1
  <2> QED BY <1>1, <2>1, Zenon
<1>3. \A i \in DOMAIN s : s[i] \in Range(s) /\ i \in DOMAIN t /\ i < Len(s) + 1
  BY <1>1 DEF Range
<1>4. InOrder(t)
  <2> SUFFICES ASSUME NEW a \in DOMAIN t, NEW b \in DOMAIN t, a < b
               PROVE  Rank(t[a]) < Rank(t[b])
    BY Zenon DEF InOrder
  <2>1. a \in DOMAIN s
    BY <1>1
  <2>2. CASE b \in DOMAIN s
    BY <1>1, <2>1, <2>2 DEF InOrder
  <2>3. CASE b = Len(s) + 1
    BY <1>1, <1>3, <2>1, <2>3, Zenon
  <2> QED BY <1>2, <2>2, <2>3, Zenon
<1>5. Range(t) = Range(s) \cup {x}
  <2>1. Len(s) + 1 \in DOMAIN t
    BY <1>1
  <2> QED BY <1>1, <1>2, <1>3, <2>1, Zenon DEF Range
<1> QED BY <1>1, <1>4, <1>5, Zenon DEF t

\* The next piece is the current request's block, or the next line.
LEMMA NextPiece ==
    ASSUME MemInv, pc # "closed", input # <<>>
    PROVE  \/ /\ Head(input) = <<"block", current>> /\ current # 0
              /\ kinds[current] \in Stores
           \/ /\ Head(input) = <<"line", current + 1>> /\ current + 1 \in 1 .. Len(kinds)
<1> DEFINE h == Head(input)
<1>1. MemTypes /\ Framed /\ input \in Seq(Piece) /\ current \in Nat /\ Len(kinds) \in Nat
  BY DEF MemInv, MemTypes
<1>2. /\ h \in Range(input) /\ h \in Piece
      /\ \A p \in Range(input) : p = h \/ Rank(h) < Rank(p)
  <2>1. InOrder(input)
    BY <1>1, Zenon DEF Framed
  <2>2. /\ h \in Range(input) /\ h \in Piece
        /\ Range(Tail(input)) = Range(input) \ {h}
        /\ \A p \in Range(Tail(input)) : Rank(h) < Rank(p)
    BY <1>1, <2>1, TakePiece, Zenon
  <2> QED BY <2>2, Zenon
<1>3. h = <<h[1], h[2]>> /\ h[1] \in {"line", "block"} /\ h[2] \in Nat
  BY <1>2 DEF Piece
<1>4. h[2] \in 1 .. Len(kinds) /\ h[2] >= current
  BY <1>1, <1>2, Zenon DEF Framed
<1> HIDE DEF h
<1>5. CASE h[1] = "line"
  <2>1. h[2] > current
    BY <1>1, <1>2, <1>5, Zenon DEF Framed
  <2>2. current + 1 \in current + 1 .. Len(kinds)
    BY <1>1, <1>4, <2>1
  <2>3. <<"line", current + 1>> \in Range(input)
    BY <1>1, <2>2, Zenon DEF Framed
  <2>4. Rank(h) = 2 * h[2] /\ Rank(<<"line", current + 1>>) = 2 * (current + 1)
    BY <1>5, Zenon DEF Rank
  <2>5. h = <<"line", current + 1>>
    BY <1>1, <1>2, <1>4, <2>1, <2>3, <2>4
  <2> QED BY <1>1, <1>4, <2>1, <2>2, <2>5 DEF h
<1>6. CASE h[1] = "block"
  <2>1. kinds[h[2]] \in Stores
    BY <1>1, <1>2, <1>6, Zenon DEF Framed
  <2>2. h[2] = current
    <3> SUFFICES ASSUME h[2] # current PROVE FALSE
      BY Zenon
    <3>1. h[2] \in current + 1 .. Len(kinds)
      BY <1>1, <1>4
    <3>2. <<"line", h[2]>> \in Range(input)
      BY <1>1, <3>1, Zenon DEF Framed
    <3>3. Rank(h) = 2 * h[2] + 1 /\ Rank(<<"line", h[2]>>) = 2 * h[2]
      BY <1>6, Zenon DEF Rank
    <3>4. <<"line", h[2]>> # h
      BY <1>6
    <3> QED BY <1>2, <1>4, <3>2, <3>3, <3>4
  <2>3. h = <<"block", current>> /\ current # 0
    BY <1>1, <1>3, <1>4, <1>6, <2>2
  <2> QED BY <2>1, <2>2, <2>3, Zenon DEF h
<1> QED BY <1>3, <1>5, <1>6, Zenon

\* What the client does changes nothing of what was answered.
LEMMA ClientAnswers ==
    ASSUME MemInv, UNCHANGED <<pc, current, replies, refused, misread>>,
           Len(kinds') \in Nat, Len(kinds) <= Len(kinds'), DOMAIN kinds' = 1 .. Len(kinds'),
           \A i \in 1 .. Len(kinds) : kinds'[i] = kinds[i]
    PROVE  FramingIsKept'
<1>1. /\ current \in Nat /\ Len(kinds) \in Nat /\ current <= Len(kinds)
      /\ DOMAIN kinds = 1 .. Len(kinds) /\ misread \subseteq 1 .. Len(kinds)
  BY DEF MemInv, MemTypes
<1>2. BlocksAreNotCommands'
  BY <1>1, Zenon DEF MemInv, FramingIsKept, BlocksAreNotCommands
<1>3. ASSUME pc # "closed", misread = {}
      PROVE  /\ Range(replies) = {i \in {i \in DOMAIN kinds' :
                                           i < current \/ (i = current /\ pc = "read")} :
                                    kinds'[i] \in Wanted \/ i \in refused}
             /\ \A a, b \in DOMAIN replies : a < b => replies[a] < replies[b]
  <2>2. /\ Range(replies) = {i \in {i \in DOMAIN kinds :
                                      i < current \/ (i = current /\ pc = "read")} :
                               kinds[i] \in Wanted \/ i \in refused}
        /\ \A a, b \in DOMAIN replies : a < b => replies[a] < replies[b]
    BY <1>3, Zenon DEF MemInv, FramingIsKept, AnswersArePaired
  <2>3. ASSUME NEW i
        PROVE  i \in DOMAIN kinds /\ (i < current \/ (i = current /\ pc = "read"))
                 <=> i \in DOMAIN kinds' /\ (i < current \/ (i = current /\ pc = "read"))
    BY <1>1
  <2>4. \A i \in DOMAIN kinds : kinds'[i] = kinds[i]
    BY <1>1, Zenon
  <2> QED BY <2>2, <2>3, <2>4, Zenon
<1>4. AnswersArePaired'
  BY <1>3, Zenon DEF AnswersArePaired
<1> QED BY <1>2, <1>4, Zenon DEF FramingIsKept

\* The client sends a command line.
LEMMA SendLineStep ==
    ASSUME MemInv, NEW k \in Plain \cup Stores, SendLine(k)
    PROVE  MemInv'
<1> DEFINE n == Len(kinds)
           x == <<"line", n + 1>>
<1>1. /\ kinds \in Seq(Plain \cup Stores) /\ n \in Nat /\ current \in 0 .. n
      /\ input \in Seq(Piece) /\ refused \subseteq 1 .. current
      /\ misread \subseteq 1 .. current
  BY DEF MemInv, MemTypes
<1>2. /\ kinds' \in Seq(Plain \cup Stores) /\ Len(kinds') = n + 1 /\ kinds'[n + 1] = k
      /\ DOMAIN kinds' = 1 .. n + 1
      /\ \A i \in 1 .. n : kinds'[i] = kinds[i]
  BY <1>1 DEF SendLine
<1>3. /\ input' = Append(input, x) /\ x \in Piece
      /\ UNCHANGED <<pc, current, replies, refused, misread>>
  BY <1>1 DEF SendLine, Piece
<1>7. ~owes /\ (owes' <=> k \in Stores) /\ owes' \in BOOLEAN
  <2>1. CASE k \in Stores
    BY <2>1, Zenon DEF SendLine
  <2>2. CASE k \notin Stores
    <3>1. (k \in Stores) = FALSE /\ owes' = (k \in Stores)
      BY <2>2 DEF SendLine
    <3> QED BY <2>2, <3>1, Zenon DEF SendLine
  <2> QED BY <2>1, <2>2, Zenon
<1> HIDE DEF n
<1>4. FramingIsKept'
  <2>1. Len(kinds') \in Nat /\ Len(kinds) <= Len(kinds') /\ DOMAIN kinds' = 1 .. Len(kinds')
        /\ \A i \in 1 .. Len(kinds) : kinds'[i] = kinds[i]
    BY <1>1, <1>2 DEF n
  <2> QED BY <1>3, <2>1, ClientAnswers, Zenon
<1>5. MemTypes'
  <2>1. input' \in Seq(Piece)
    BY <1>1, <1>3
  <2>2. /\ current' \in 0 .. Len(kinds') /\ refused' \subseteq 1 .. current'
        /\ misread' \subseteq 1 .. current'
    BY <1>1, <1>2, <1>3
  <2> QED BY <1>2, <1>3, <1>7, <2>1, <2>2, Zenon DEF MemInv, MemTypes
<1>6. ASSUME pc # "closed" PROVE Framed'
  <2>1. Framed
    BY <1>6, Zenon DEF MemInv
  <2>2. \A p \in Range(input) : p[2] \in 1 .. n /\ p[2] \in Nat /\ Rank(p) < Rank(x)
    <3>1. ASSUME NEW p \in Range(input) PROVE p[2] \in 1 .. n /\ p \in Piece
      BY <1>1, <2>1 DEF Framed, Range, n
    <3>2. Rank(x) = 2 * (n + 1)
      BY Zenon DEF Rank
    <3>3. ASSUME NEW p \in Range(input) PROVE Rank(p) = 2 * p[2] \/ Rank(p) = 2 * p[2] + 1
      BY Zenon DEF Rank
    <3> HIDE DEF x
    <3>4. ASSUME NEW p \in Range(input)
          PROVE  p[2] \in 1 .. n /\ p[2] \in Nat /\ Rank(p) < Rank(x)
      <4>1. p[2] \in 1 .. n /\ (Rank(p) = 2 * p[2] \/ Rank(p) = 2 * p[2] + 1)
        BY <3>1, <3>3, Zenon
      <4> QED BY <1>1, <3>2, <4>1
    <3> QED BY <3>4, Zenon
  <2>3. InOrder(input') /\ Range(input') = Range(input) \cup {x}
    BY <1>1, <1>3, <2>1, <2>2, AddPiece, Zenon DEF Framed
  <2>4. \A i \in 1 .. n : BlockAhead(i) => <<"block", i>> \in Range(input')
    BY <1>7, <2>3, Zenon DEF BlockAhead
  <2>5. ASSUME NEW p \in Range(input')
        PROVE  /\ p[2] \in 1 .. n + 1 /\ p[2] >= current
               /\ IF p[1] = "line" THEN p[2] > current ELSE kinds'[p[2]] \in Stores
    <3>1. CASE p = x
      <4>1. p[1] = "line" /\ p[2] = n + 1
        BY <3>1, Zenon
      <4>2. n + 1 \in 1 .. n + 1 /\ n + 1 >= current /\ n + 1 > current
        BY <1>1
      <4> QED BY <4>1, <4>2, Zenon
    <3>2. CASE p \in Range(input)
      <4>1. p[2] \in 1 .. n /\ p[2] >= current
            /\ IF p[1] = "line" THEN p[2] > current ELSE kinds[p[2]] \in Stores
        BY <2>1, <2>2, <3>2, Zenon DEF Framed
      <4>2. p[2] \in 1 .. n + 1 /\ kinds'[p[2]] = kinds[p[2]]
        BY <1>1, <1>2, <4>1
      <4> QED BY <4>1, <4>2, Zenon
    <3> QED BY <2>3, <3>1, <3>2, Zenon
  <2>6. ASSUME NEW i \in current + 1 .. n + 1
        PROVE  <<"line", i>> \in Range(input') /\ (kinds'[i] \in Stores => BlockAhead(i)')
    <3>1. CASE i = n + 1
      <4>1. kinds'[i] \in Stores => owes'
        BY <1>2, <1>7, <3>1, Zenon
      <4> QED BY <1>2, <2>3, <3>1, <4>1, Zenon DEF BlockAhead
    <3>2. CASE i \in current + 1 .. n
      <4>1. i \in 1 .. n /\ i \in current + 1 .. Len(kinds) /\ kinds'[i] = kinds[i]
        BY <1>1, <1>2, <3>2 DEF n
      <4> QED BY <2>1, <2>3, <2>4, <4>1, Zenon DEF Framed, BlockAhead
    <3> QED BY <1>1, <3>1, <3>2
  <2>7. current # 0 => current \in 1 .. n
    BY <1>1
  <2>8. pc' = "block" => /\ current' # 0 /\ kinds'[current'] \in Awaited
                         /\ BlockAhead(current)' /\ current' \notin refused'
    BY <1>2, <1>3, <2>1, <2>4, <2>7, Zenon DEF Framed, BlockAhead
  <2>9. ASSUME pc' = "read", current' # 0, BlockAhead(current)'
        PROVE  current' \in refused' \/ kinds'[current'] = "garbled"
    <3>1. current \in 1 .. n /\ current # n + 1 /\ <<"block", current>> # x
      BY <1>1, <1>3, <2>9
    <3>2. <<"block", current>> \in Range(input)
      BY <1>2, <1>3, <2>3, <2>9, <3>1, ZenonT(30) DEF BlockAhead
    <3>3. current \in refused \/ kinds[current] = "garbled"
      BY <1>3, <2>1, <2>9, <3>2, Zenon DEF Framed, BlockAhead
    <3> QED BY <1>2, <1>3, <3>1, <3>3, Zenon
  <2>10. owes' => /\ Len(kinds') # 0 /\ kinds'[Len(kinds')] \in Stores
                  /\ <<"block", Len(kinds')>> \notin Range(input')
    <3>1. <<"block", n + 1>> # x /\ <<"block", n + 1>>[2] = n + 1 /\ n + 1 \notin 1 .. n
      BY <1>1
    <3>2. <<"block", n + 1>> \notin Range(input')
      BY <2>2, <2>3, <3>1, Zenon
    <3>3. n \in Nat
      BY <1>1, Zenon
    <3>4. n + 1 # 0
      BY ONLY <3>3
    <3> QED BY <1>2, <1>7, <3>2, <3>4, Zenon
  <2> QED BY <1>2, <1>3, <2>3, <2>5, <2>6, <2>8, <2>9, <2>10, Zenon DEF Framed
<1> QED BY <1>3, <1>4, <1>5, <1>6, Zenon DEF MemInv

\* The client sends the block it owes.
LEMMA SendBlockStep ==
    ASSUME MemInv, SendBlock
    PROVE  MemInv'
<1> DEFINE n == Len(kinds)
           x == <<"block", n>>
<1>1. /\ n \in Nat /\ current \in 0 .. n /\ input \in Seq(Piece) /\ DOMAIN kinds = 1 .. n
  BY DEF MemInv, MemTypes
<1>2. /\ input' = Append(input, x) /\ x \in Piece /\ owes /\ owes' = FALSE
      /\ UNCHANGED <<kinds, pc, current, replies, refused, misread>>
  BY <1>1, Zenon DEF SendBlock, Piece
<1>3. FramingIsKept'
  BY <1>1, <1>2, ClientAnswers
<1>4. MemTypes'
  <2>1. input' \in Seq(Piece)
    BY <1>1, <1>2
  <2> QED BY <1>2, <2>1, Zenon DEF MemInv, MemTypes
<1>5. ASSUME pc # "closed" PROVE Framed'
  <2>1. Framed
    BY <1>5, Zenon DEF MemInv
  <2>2. x \notin Range(input) /\ n # 0 /\ kinds[n] \in Stores
    BY <1>2, <2>1, Zenon DEF Framed
  <2>3. \A p \in Range(input) : Rank(p) < Rank(x)
    <3> SUFFICES ASSUME NEW p \in Range(input) PROVE Rank(p) < Rank(x)
      BY Zenon
    <3>1. p[2] \in 1 .. n /\ p \in Piece
      BY <1>1, <2>1 DEF Framed, Range
    <3>2. CASE p[1] = "line"
      BY <1>1, <3>1, <3>2 DEF Rank
    <3>3. CASE p[1] = "block"
      <4>1. p = <<"block", p[2]>>
        BY <3>1, <3>3 DEF Piece
      <4>2. p[2] # n
        BY <2>2, <4>1, Zenon
      <4> QED BY <1>1, <3>1, <3>3, <4>2 DEF Rank
    <3> QED BY <3>1, <3>2, <3>3, Zenon DEF Piece
  <2>4. InOrder(input') /\ Range(input') = Range(input) \cup {x}
    BY <1>1, <1>2, <2>1, <2>3, AddPiece, Zenon DEF Framed
  <2>5. \A i : BlockAhead(i)' <=> BlockAhead(i)
    BY <1>2, <2>4, Zenon DEF BlockAhead
  <2>6. \A i : <<"line", i>> # x
    BY Zenon
  <2>7. ASSUME NEW p \in Range(input')
        PROVE  /\ p[2] \in 1 .. n /\ p[2] >= current
               /\ IF p[1] = "line" THEN p[2] > current ELSE kinds[p[2]] \in Stores
    <3>1. CASE p = x
      BY <1>1, <2>2, <3>1
    <3>2. CASE p \in Range(input)
      BY <2>1, <3>2, Zenon DEF Framed
    <3> QED BY <2>4, <3>1, <3>2, Zenon
  <2>8. \A i \in current + 1 .. n :
           <<"line", i>> \in Range(input') /\ (kinds[i] \in Stores => BlockAhead(i)')
    BY <2>1, <2>4, <2>5, Zenon DEF Framed
  <2>9. BlockAhead(current)' <=> BlockAhead(current)
    BY <1>2, <2>4, Zenon DEF BlockAhead
  <2> QED BY <1>2, <2>1, <2>4, <2>7, <2>8, <2>9, Zenon DEF Framed
<1> QED BY <1>2, <1>3, <1>4, <1>5, Zenon DEF MemInv

\* The connection's end, on either side.
LEMMA EndStep ==
    ASSUME MemInv, Hangup \/ ReadFails
    PROVE  MemInv'
<1>1. CASE Hangup
  BY <1>1, Zenon DEF Hangup, MemInv, MemTypes, Framed, BlockAhead, FramingIsKept,
              BlocksAreNotCommands, AnswersArePaired
<1>2. CASE ReadFails
  BY <1>2, Zenon DEF ReadFails, MemInv, MemTypes, FramingIsKept, BlocksAreNotCommands,
              AnswersArePaired
<1> QED BY <1>1, <1>2, Zenon

\* s holds, in order, the requests among the first c that have an answer.
Paired(s, ks, ref, c) ==
    /\ Range(s) = {i \in 1 .. c : ks[i] \in Wanted \/ i \in ref}
    /\ \A a, b \in DOMAIN s : a < b => s[a] < s[b]

\* One more answer.
LEMMA OneMoreAnswer ==
    ASSUME NEW s \in Seq(Nat), NEW ks, NEW ref, NEW ref2, NEW c \in Nat,
           Paired(s, ks, ref, c), ref2 = ref \/ ref2 = ref \cup {c + 1},
           ks[c + 1] \in Wanted \/ c + 1 \in ref2
    PROVE  Paired(Append(s, c + 1), ks, ref2, c + 1)
<1> DEFINE t == Append(s, c + 1)
<1>1. /\ Len(s) \in Nat /\ DOMAIN s = 1 .. Len(s) /\ DOMAIN t = 1 .. Len(s) + 1
      /\ t[Len(s) + 1] = c + 1 /\ \A a \in 1 .. Len(s) : t[a] = s[a]
  OBVIOUS
<1> HIDE DEF t
<1>2. \A a \in DOMAIN t : (a \in DOMAIN s /\ t[a] = s[a]) \/ (a = Len(s) + 1 /\ t[a] = c + 1)
  <2>1. \A a \in DOMAIN t : a \in 1 .. Len(s) \/ a = Len(s) + 1
    BY <1>1
  <2> QED BY <1>1, <2>1, Zenon
<1>3. \A a \in DOMAIN s : s[a] \in 1 .. c /\ s[a] < c + 1 /\ a < Len(s) + 1 /\ a \in DOMAIN t
  BY <1>1 DEF Paired, Range
<1>4. ASSUME NEW a \in DOMAIN t, NEW b \in DOMAIN t, a < b PROVE t[a] < t[b]
  <2>1. a \in DOMAIN s /\ t[a] = s[a]
    BY <1>1, <1>4
  <2>2. CASE b = Len(s) + 1
    BY <1>1, <1>3, <2>1, <2>2, Zenon
  <2>3. CASE b \in DOMAIN s
    BY <1>1, <1>4, <2>1, <2>3, Zenon DEF Paired
  <2> QED BY <1>2, <2>2, <2>3, Zenon
<1>5. Range(t) = Range(s) \cup {c + 1}
  <2>1. Len(s) + 1 \in DOMAIN t
    BY <1>1
  <2> QED BY <1>1, <1>2, <1>3, <2>1 DEF Range
<1>6. {i \in 1 .. c + 1 : ks[i] \in Wanted \/ i \in ref2}
        = {i \in 1 .. c : ks[i] \in Wanted \/ i \in ref} \cup {c + 1}
  <2>1. \A i : i \in 1 .. c + 1 <=> i \in 1 .. c \/ i = c + 1
    OBVIOUS
  <2>2. \A i \in 1 .. c : i # c + 1
    OBVIOUS
  <2> QED BY <2>1, <2>2, Zenon
<1> QED BY <1>4, <1>5, <1>6, Zenon DEF Paired, t

\* One more request without an answer.
LEMMA NoAnswer ==
    ASSUME NEW s, NEW ks, NEW ref, NEW c \in Nat, Paired(s, ks, ref, c),
           ks[c + 1] \notin Wanted, c + 1 \notin ref
    PROVE  Paired(s, ks, ref, c + 1)
<1>1. \A i : i \in 1 .. c + 1 <=> i \in 1 .. c \/ i = c + 1
  OBVIOUS
<1>2. {i \in 1 .. c + 1 : ks[i] \in Wanted \/ i \in ref}
        = {i \in 1 .. c : ks[i] \in Wanted \/ i \in ref}
  BY <1>1, Zenon
<1> QED BY <1>2, Zenon DEF Paired

\* The answers that are paired, in terms of the current request.
PairedSoFar ==
    pc # "closed" /\ misread = {} =>
       /\ pc = "read" => Paired(replies, kinds, refused, current)
       /\ pc = "block" => Paired(replies, kinds, refused, current - 1)

LEMMA PairedAnswers == MemTypes => (AnswersArePaired <=> PairedSoFar)
<1> SUFFICES ASSUME MemTypes PROVE AnswersArePaired <=> PairedSoFar
  BY Zenon
<1>1. /\ Len(kinds) \in Nat /\ current \in 0 .. Len(kinds) /\ DOMAIN kinds = 1 .. Len(kinds)
      /\ pc \in {"read", "block", "closed"}
  BY DEF MemTypes
<1> DEFINE done == {i \in DOMAIN kinds : i < current \/ (i = current /\ pc = "read")}
<1>2. pc = "read" => done = 1 .. current
  BY <1>1
<1>3. pc = "block" => done = 1 .. current - 1
  BY <1>1
<1> HIDE DEF done
<1>4. AnswersArePaired <=>
        (pc # "closed" /\ misread = {} =>
           /\ Range(replies) = {i \in done : kinds[i] \in Wanted \/ i \in refused}
           /\ \A a, b \in DOMAIN replies : a < b => replies[a] < replies[b])
  BY Zenon DEF AnswersArePaired, done
<1>5. CASE pc = "read"
  BY <1>2, <1>4, <1>5, Zenon DEF Paired, PairedSoFar
<1>6. CASE pc = "block"
  BY <1>3, <1>4, <1>6, Zenon DEF Paired, PairedSoFar
<1>7. CASE pc = "closed"
  BY <1>4, <1>7, Zenon DEF PairedSoFar
<1> QED BY <1>1, <1>5, <1>6, <1>7, Zenon

\* A block that was left in the input is read as a line.
LEMMA MisreadStep ==
    ASSUME MemInv, ReadLine, Head(input)[1] = "block"
    PROVE  MemInv'
<1>1. /\ input \in Seq(Piece) /\ input # <<>> /\ pc = "read" /\ pc # "closed" /\ Framed
      /\ current \in Nat /\ replies \in Seq(Nat) /\ MemTypes
  BY DEF MemInv, MemTypes, ReadLine
<1>2. Head(input) = <<"block", current>> /\ current # 0 /\ kinds[current] \in Stores
  BY <1>1, NextPiece
<1>3. /\ Tail(input) \in Seq(Piece) /\ InOrder(Tail(input)) /\ Head(input) \in Range(input)
      /\ Range(Tail(input)) = Range(input) \ {Head(input)}
  BY <1>1, TakePiece, Zenon DEF Framed
<1>4. /\ input' = Tail(input) /\ misread' = misread \cup {current}
      /\ replies' = Append(replies, current) \/ replies' = replies
      /\ UNCHANGED <<pc, current, refused, kinds, owes>>
  BY <1>2 DEF ReadLine, Answer
<1>5. current \in refused \/ kinds[current] = "garbled"
  BY <1>1, <1>2, <1>3, Zenon DEF Framed, BlockAhead
<1>6. MemTypes'
  <2>2. Append(replies, current) \in Seq(Nat)
    BY <1>1
  <2>3. current \in 1 .. current
    BY <1>1, <1>2
  <2>1. input' \in Seq(Piece) /\ replies' \in Seq(Nat) /\ current \in 1 .. current
    BY <1>1, <1>3, <1>4, <2>2, <2>3, Zenon
  <2> QED BY <1>1, <1>4, <2>1, Zenon DEF MemTypes
<1>7. FramingIsKept'
  <2>1. BlocksAreNotCommands'
    BY <1>4, <1>5, Zenon DEF MemInv, FramingIsKept, BlocksAreNotCommands
  <2>2. AnswersArePaired'
    BY <1>4, Zenon DEF AnswersArePaired
  <2> QED BY <2>1, <2>2, Zenon DEF FramingIsKept
<1>8. Framed'
  <2>1. InOrder(input') /\ Range(input') = Range(input) \ {<<"block", current>>}
    BY <1>2, <1>3, <1>4, Zenon
  <2>2. \A p \in Range(input') :
           /\ p[2] \in 1 .. Len(kinds) /\ p[2] >= current
           /\ IF p[1] = "line" THEN p[2] > current ELSE kinds[p[2]] \in Stores
    BY <1>1, <2>1, Zenon DEF Framed
  <2>3. ASSUME NEW i \in current + 1 .. Len(kinds)
        PROVE  <<"line", i>> \in Range(input') /\ (kinds[i] \in Stores => BlockAhead(i)')
    <3>1. i # current
      BY <1>1
    <3>2. <<"line", i>> # <<"block", current>> /\ <<"block", i>> # <<"block", current>>
      BY <3>1, Zenon
    <3>3. <<"line", i>> \in Range(input) /\ (kinds[i] \in Stores => BlockAhead(i))
      BY <1>1, Zenon DEF Framed
    <3> QED BY <1>4, <2>1, <3>2, <3>3, Zenon DEF BlockAhead
  <2>4. owes => /\ Len(kinds) # 0 /\ kinds[Len(kinds)] \in Stores
                /\ <<"block", Len(kinds)>> \notin Range(input')
    BY <1>1, <2>1, Zenon DEF Framed
  <2> QED BY <1>1, <1>4, <1>5, <2>1, <2>2, <2>3, <2>4, Zenon DEF Framed
<1> QED BY <1>6, <1>7, <1>8, Zenon DEF MemInv

\* What the dispatch on a command line comes to.
LEMMA LineOutcome ==
    ASSUME ReadLine, Head(input)[1] = "line", NEW i, i = Head(input)[2],
           kinds[i] \in Plain \cup Stores
    PROVE  /\ input' = Tail(input) /\ current' = i /\ UNCHANGED <<kinds, owes, misread>>
           /\ \/ /\ pc' = "read" /\ replies' = Append(replies, i)
                 /\ refused' = refused \cup {i}
              \/ /\ pc' = "read" /\ replies' = Append(replies, i)
                 /\ refused' = refused /\ kinds[i] \in Wanted \ Stores
              \/ /\ pc' = "read" /\ replies' = replies /\ refused' = refused
                 /\ kinds[i] = "delete noreply"
              \/ /\ pc' = "block" /\ replies' = replies /\ refused' = refused
                 /\ kinds[i] \in Awaited
              \/ /\ pc' = "closed" /\ replies' = replies /\ refused' = refused
<1>1. /\ input' = Tail(input) /\ current' = i /\ UNCHANGED <<kinds, owes, misread>>
      /\ pc = "read"
      /\ CASE kinds[i] = "quit" -> pc' = "closed" /\ UNCHANGED <<replies, refused>>
           [] kinds[i] \in {"get", "unknown"} -> Answer(i) /\ UNCHANGED <<pc, refused>>
           [] kinds[i] = "cas" -> Refuse(i)
           [] kinds[i] \in Stores \ {"cas"} -> handleStore(i)
           [] OTHER -> handleSimpleMutation(i)
  BY Zenon DEF ReadLine
<1>2. CASE kinds[i] = "quit"
  BY <1>1, <1>2, Zenon DEF Stores
<1>3. CASE kinds[i] \in {"get", "unknown"}
  BY <1>1, <1>3, Zenon DEF Stores, Answer, Wanted
<1>4. CASE kinds[i] \in Stores \ {"cas"}
  <2>1. handleStore(i)
    BY <1>1, <1>4, Zenon DEF Stores
  <2> QED BY <1>1, <1>4, <2>1, Zenon DEF handleStore, Refuse, Answer, Awaited
<1>6. CASE kinds[i] = "cas"
  <2>1. Refuse(i)
    BY <1>1, <1>6, Zenon DEF Stores
  <2> QED BY <1>1, <2>1, Zenon DEF Refuse, Answer
<1>5. CASE kinds[i] \in {"delete", "delete noreply"}
  <2>1. handleSimpleMutation(i)
    BY <1>1, <1>5, Zenon DEF Stores
  <2> QED BY <1>1, <1>5, <2>1, Zenon DEF handleSimpleMutation, Refuse, Answer, Wanted, Stores
<1> QED BY <1>2, <1>3, <1>4, <1>5, <1>6, Zenon DEF Plain

\* A command line is read.
LEMMA LineStep ==
    ASSUME MemInv, ReadLine, Head(input)[1] = "line"
    PROVE  MemInv'
<1> DEFINE i == current + 1
           n == Len(kinds)
<1>1. /\ input \in Seq(Piece) /\ input # <<>> /\ pc = "read" /\ pc # "closed" /\ Framed
      /\ current \in Nat /\ n \in Nat /\ replies \in Seq(Nat) /\ MemTypes
      /\ refused \subseteq 1 .. current /\ misread \subseteq 1 .. current
      /\ kinds \in Seq(Plain \cup Stores)
  BY DEF MemInv, MemTypes, ReadLine
<1>2. Head(input) = <<"line", i>> /\ i \in 1 .. n
  BY <1>1, NextPiece
<1>3. /\ Tail(input) \in Seq(Piece) /\ InOrder(Tail(input))
      /\ Range(Tail(input)) = Range(input) \ {Head(input)}
      /\ \A p \in Range(Tail(input)) : Rank(Head(input)) < Rank(p)
  BY <1>1, TakePiece, Zenon DEF Framed
<1>4. kinds[i] \in Plain \cup Stores
  BY <1>1, <1>2
<1>5. /\ input' = Tail(input) /\ current' = i /\ UNCHANGED <<kinds, owes, misread>>
      /\ \/ /\ pc' = "read" /\ replies' = Append(replies, i)
            /\ refused' = refused \cup {i}
         \/ /\ pc' = "read" /\ replies' = Append(replies, i)
            /\ refused' = refused /\ kinds[i] \in Wanted \ Stores
         \/ /\ pc' = "read" /\ replies' = replies /\ refused' = refused
            /\ kinds[i] = "delete noreply"
         \/ /\ pc' = "block" /\ replies' = replies /\ refused' = refused
            /\ kinds[i] \in Awaited
         \/ /\ pc' = "closed" /\ replies' = replies /\ refused' = refused
  <2>1. i = Head(input)[2]
    BY <1>2
  <2> QED BY <1>4, <2>1, LineOutcome, Zenon
<1>6. /\ refused' = refused \/ refused' = refused \cup {i}
      /\ replies' = replies \/ replies' = Append(replies, i)
      /\ pc' \in {"read", "block", "closed"}
  BY <1>5, Zenon
<1> HIDE DEF i, n
<1>7. i \in Nat /\ i = current + 1 /\ i \in 1 .. n /\ i > current
  BY <1>1, <1>2 DEF i
<1>8. MemTypes'
  <2>1. Append(replies, i) \in Seq(Nat)
    BY <1>1, <1>7
  <2>2. 1 .. current \subseteq 1 .. i /\ i \in 1 .. i /\ i \in 0 .. n
    BY <1>1, <1>7
  <2>3. input' \in Seq(Piece) /\ replies' \in Seq(Nat)
    BY <1>1, <1>3, <1>5, <1>6, <2>1, Zenon
  <2>4. /\ current' \in 0 .. Len(kinds') /\ refused' \subseteq 1 .. current'
        /\ misread' \subseteq 1 .. current'
    BY <1>1, <1>5, <1>6, <2>2, Zenon DEF n
  <2> QED BY <1>1, <1>5, <1>6, <2>3, <2>4, Zenon DEF MemTypes
<1>9. BlocksAreNotCommands'
  BY <1>5, <1>6, Zenon DEF MemInv, FramingIsKept, BlocksAreNotCommands
<1>10. AnswersArePaired'
  <2>0. (MemTypes => (AnswersArePaired <=> PairedSoFar))'
    BY PairedAnswers, PTL
  <2>1. SUFFICES ASSUME pc' # "closed", misread = {}
                 PROVE  /\ pc' = "read" => Paired(replies', kinds, refused', i)
                        /\ pc' = "block" => Paired(replies', kinds, refused', i - 1)
    BY <1>5, <1>8, <2>0, Zenon DEF PairedSoFar
  <2>3. Paired(replies, kinds, refused, current)
    BY <1>1, <2>1, PairedAnswers, Zenon DEF MemInv, FramingIsKept, PairedSoFar
  <2>4. i \notin refused /\ i - 1 = current
    BY <1>1, <1>7
  <2>5. ASSUME kinds[i] \in Wanted \/ i \in refused', replies' = Append(replies, i)
        PROVE  Paired(replies', kinds, refused', i)
    BY <1>1, <1>6, <1>7, <2>3, <2>5, OneMoreAnswer, Zenon
  <2>6. ASSUME kinds[i] = "delete noreply" PROVE Paired(replies, kinds, refused, i)
    BY <1>1, <1>7, <2>3, <2>4, <2>6, NoAnswer, Zenon DEF Wanted
  <2> QED BY <1>5, <2>1, <2>3, <2>4, <2>5, <2>6, Zenon
<1>11. ASSUME pc' # "closed" PROVE Framed'
  <2>1. InOrder(input') /\ Range(input') = Range(input) \ {<<"line", i>>}
    BY <1>2, <1>3, <1>5, Zenon DEF i
  <2>2. \A j : BlockAhead(j)' <=> BlockAhead(j)
    <3>1. \A j : <<"block", j>> # <<"line", i>>
      BY Zenon
    <3> QED BY <1>5, <2>1, <3>1, Zenon DEF BlockAhead
  <2>3. ASSUME NEW p \in Range(input')
        PROVE  /\ p[2] \in 1 .. n /\ p[2] >= i
               /\ IF p[1] = "line" THEN p[2] > i ELSE kinds[p[2]] \in Stores
    <3>1. /\ p[2] \in 1 .. n /\ (p[1] # "line" => kinds[p[2]] \in Stores)
      BY <1>1, <2>1, Zenon DEF Framed, n
    <3>2. Rank(<<"line", i>>) < Rank(p)
      BY <1>2, <1>3, <1>5, Zenon DEF i
    <3>3. Rank(<<"line", i>>) = 2 * i
      BY Zenon DEF Rank
    <3>4. CASE p[1] = "line"
      <4>1. Rank(p) = 2 * p[2]
        BY <3>4, Zenon DEF Rank
      <4> QED BY <1>7, <3>1, <3>2, <3>3, <3>4, <4>1
    <3>5. CASE p[1] # "line"
      <4>1. Rank(p) = 2 * p[2] + 1
        BY <3>5, Zenon DEF Rank
      <4> QED BY <1>7, <3>1, <3>2, <3>3, <3>5, <4>1
    <3> QED BY <3>4, <3>5, Zenon
  <2>4. ASSUME NEW j \in i + 1 .. n
        PROVE  <<"line", j>> \in Range(input') /\ (kinds[j] \in Stores => BlockAhead(j)')
    <3>1. j # i /\ j \in current + 1 .. Len(kinds)
      BY <1>1, <1>7 DEF n
    <3>2. <<"line", j>> # <<"line", i>>
      BY <3>1, Zenon
    <3> QED BY <1>1, <2>1, <2>2, <3>1, <3>2, Zenon DEF Framed
  <2>5. kinds[i] \in Stores => BlockAhead(i)
    <3>1. i \in current + 1 .. Len(kinds)
      BY <1>1, <1>7 DEF n
    <3> QED BY <1>1, <3>1, Zenon DEF Framed
  <2>6. BlockAhead(i) => kinds[i] \in Stores
    <3>1. <<"block", i>> \in Range(input) => kinds[i] \in Stores
      BY <1>1, Zenon DEF Framed
    <3> QED BY <1>1, <3>1, Zenon DEF Framed, BlockAhead
  <2>7. BlockAhead(current)' <=> BlockAhead(i)
    BY <1>5, <2>1, Zenon DEF BlockAhead
  <2>8. pc' = "block" => /\ current' # 0 /\ kinds'[current'] \in Awaited
                         /\ BlockAhead(current)' /\ current' \notin refused'
    <3>1. i # 0 /\ i \notin refused
      BY <1>1, <1>7
    <3>2. Awaited \subseteq Stores
      BY Zenon DEF Awaited
    <3> QED BY <1>5, <2>5, <2>7, <3>1, <3>2, Zenon
  <2>9. pc' = "read" /\ current' # 0 /\ BlockAhead(current)' =>
           current' \in refused' \/ kinds'[current'] = "garbled"
    <3>1. "delete noreply" \notin Stores
      BY Zenon DEF Stores
    <3> QED BY <1>5, <2>6, <2>7, <3>1, Zenon
  <2>10. owes => /\ n # 0 /\ kinds[n] \in Stores /\ <<"block", n>> \notin Range(input')
    BY <1>1, <2>1, Zenon DEF Framed, n
  <2> QED BY <1>5, <2>1, <2>3, <2>4, <2>8, <2>9, <2>10, Zenon DEF Framed, n
<1> QED BY <1>8, <1>9, <1>10, <1>11, Zenon DEF MemInv, FramingIsKept

\* ReadFull gets the block of the command that waits for it, and no other.
LEMMA BlockStep ==
    ASSUME MemInv, ReadBlock
    PROVE  MemInv'
<1> DEFINE n == Len(kinds)
<1>1. /\ input \in Seq(Piece) /\ input # <<>> /\ pc = "block" /\ pc # "closed" /\ Framed
      /\ current \in Nat /\ n \in Nat /\ replies \in Seq(Nat) /\ MemTypes
  <2>1. pc = "block" /\ input # <<>>
    BY Zenon DEF ReadBlock
  <2>2. Len(kinds) \in Nat /\ current \in Nat
    BY DEF MemInv, MemTypes
  <2> QED BY <2>1, <2>2, Zenon DEF MemInv, MemTypes
<1>9. /\ current # 0 /\ kinds[current] \in Awaited /\ BlockAhead(current)
      /\ current \notin refused
  BY <1>1, Zenon DEF Framed
<1>2. /\ Tail(input) \in Seq(Piece) /\ InOrder(Tail(input)) /\ Head(input) \in Range(input)
      /\ Range(Tail(input)) = Range(input) \ {Head(input)}
      /\ \A p \in Range(Tail(input)) : Rank(Head(input)) < Rank(p)
  BY <1>1, TakePiece, Zenon DEF Framed
<1>3. Head(input) = <<"block", current>>
  <2> SUFFICES ASSUME Head(input) = <<"line", current + 1>>, current + 1 \in 1 .. n
               PROVE  FALSE
    BY <1>1, NextPiece, Zenon
  <2>1. current # n /\ <<"block", current>> # Head(input)
    BY <1>1
  <2>2. <<"block", current>> \in Range(Tail(input))
    BY <1>1, <1>2, <1>9, <2>1, Zenon DEF BlockAhead, n
  <2>3. Rank(<<"line", current + 1>>) < Rank(<<"block", current>>)
    BY <1>2, <2>2, Zenon
  <2> QED BY <1>1, <2>3 DEF Rank
<1>4. /\ input' = Tail(input) \/ (input' = input /\ kinds[current] = "garbled")
      /\ pc' = "read"
      /\ IF kinds[current] = "set noreply" THEN replies' = replies
                                           ELSE replies' = Append(replies, current)
      /\ UNCHANGED <<kinds, owes, current, refused, misread>>
  BY Zenon DEF ReadBlock, Answer
<1>5. MemTypes'
  <2>2. Append(replies, current) \in Seq(Nat)
    BY <1>1
  <2>1. input' \in Seq(Piece) /\ replies' \in Seq(Nat)
    BY <1>1, <1>2, <1>4, <2>2, Zenon
  <2> QED BY <1>1, <1>4, <2>1, Zenon DEF MemTypes
<1>6. BlocksAreNotCommands'
  BY <1>4, Zenon DEF MemInv, FramingIsKept, BlocksAreNotCommands
<1>7. AnswersArePaired'
  <2>0. (MemTypes => (AnswersArePaired <=> PairedSoFar))'
    BY PairedAnswers, PTL
  <2>1. SUFFICES ASSUME misread = {}
                 PROVE  Paired(replies', kinds, refused, current)
    BY <1>4, <1>5, <2>0, Zenon DEF PairedSoFar
  <2> DEFINE c == current - 1
  <2>2. Paired(replies, kinds, refused, c)
    BY <1>1, <2>1, PairedAnswers, Zenon DEF MemInv, FramingIsKept, PairedSoFar
  <2>3. c \in Nat /\ c + 1 = current
    BY <1>1, <1>9
  <2> HIDE DEF c
  <2>5. CASE kinds[current] = "set noreply"
    BY <1>4, <1>9, <2>2, <2>3, <2>5, NoAnswer, Zenon DEF Wanted
  <2>6. CASE kinds[current] # "set noreply"
    <3>1. kinds[current] \in Wanted
      BY <1>9, <2>6, Zenon DEF Stores, Awaited, Wanted
    <3> QED BY <1>1, <1>4, <2>2, <2>3, <2>6, <3>1, OneMoreAnswer, Zenon
  <2> QED BY <2>5, <2>6, Zenon
<1>8. ASSUME input' = Tail(input) PROVE Framed'
  <2>1. InOrder(input') /\ Range(input') = Range(input) \ {<<"block", current>>}
    BY <1>2, <1>3, <1>8, Zenon
  <2>2. \A p \in Range(input') :
           /\ p[2] \in 1 .. Len(kinds) /\ p[2] >= current
           /\ IF p[1] = "line" THEN p[2] > current ELSE kinds[p[2]] \in Stores
    BY <1>1, <2>1, Zenon DEF Framed
  <2>3. ASSUME NEW i \in current + 1 .. Len(kinds)
        PROVE  <<"line", i>> \in Range(input') /\ (kinds[i] \in Stores => BlockAhead(i)')
    <3>1. i # current
      BY <1>1
    <3>2. <<"line", i>> # <<"block", current>> /\ <<"block", i>> # <<"block", current>>
      BY <3>1, Zenon
    <3>3. <<"line", i>> \in Range(input) /\ (kinds[i] \in Stores => BlockAhead(i))
      BY <1>1, Zenon DEF Framed
    <3> QED BY <1>4, <2>1, <3>2, <3>3, Zenon DEF BlockAhead
  <2>4. owes => /\ Len(kinds) # 0 /\ kinds[Len(kinds)] \in Stores
                /\ <<"block", Len(kinds)>> \notin Range(input)
    BY <1>1, Zenon DEF Framed
  <2>5. ~BlockAhead(current)'
    BY <1>2, <1>3, <1>4, <1>8, <2>1, <2>4, Zenon DEF BlockAhead
  <2> QED BY <1>4, <2>1, <2>2, <2>3, <2>4, <2>5, Zenon DEF Framed
<1>10. ASSUME input' = input, kinds[current] = "garbled" PROVE Framed'
  <2>1. UNCHANGED <<input, kinds, owes, current>> /\ pc' = "read"
    BY <1>4, <1>10, Zenon
  <2> QED BY <1>1, <1>10, <2>1, Zenon DEF Framed, BlockAhead
<1> QED BY <1>4, <1>5, <1>6, <1>7, <1>8, <1>10, Zenon DEF MemInv, FramingIsKept

LEMMA NextMem == MemInv /\ [MemNext]_memVars => MemInv'
<1> SUFFICES ASSUME MemInv, [MemNext]_memVars PROVE MemInv'
  BY Zenon
<1>1. ASSUME NEW k \in Plain \cup Stores, SendLine(k) PROVE MemInv'
  BY <1>1, SendLineStep, Zenon
<1>2. CASE SendBlock
  BY <1>2, SendBlockStep, Zenon
<1>3. CASE Hangup \/ ReadFails
  BY <1>3, EndStep, Zenon
<1>4. CASE ReadLine
  <2>1. Head(input)[1] = "block" \/ Head(input)[1] = "line"
    <3>1. input # <<>> /\ input \in Seq(Piece)
      BY <1>4, Zenon DEF ReadLine, MemInv, MemTypes
    <3>2. Head(input) \in Piece
      BY <3>1
    <3> QED BY <3>2, Zenon DEF Piece
  <2> QED BY <1>4, <2>1, MisreadStep, LineStep, Zenon
<1>5. CASE ReadBlock
  BY <1>5, BlockStep, Zenon
<1>6. CASE UNCHANGED memVars
  BY <1>6, Zenon DEF memVars, MemInv, MemTypes, Framed, BlockAhead, FramingIsKept,
              BlocksAreNotCommands, AnswersArePaired
<1> QED BY <1>1, <1>2, <1>3, <1>4, <1>5, <1>6, Zenon DEF MemNext

\* memcached: however a client pipelines its requests, a data block is read as
\* a command only after its command was refused or gave no usable length, and
\* until then the answers come in the order of the requests that have one
\* (handleConn, handleStore).
THEOREM FramingKept == MemSpec => []FramingIsKept
<1>1. MemInv => FramingIsKept
  BY Zenon DEF MemInv
<1> QED BY <1>1, InitMem, NextMem, PTL DEF MemSpec

=============================================================================
