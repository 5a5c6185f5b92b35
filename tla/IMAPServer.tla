----------------------------- MODULE IMAPServer ----------------------------
(***************************************************************************)
(* A session of the IMAP server (imapserver.handleConn) while the          *)
(* management API replaces the mailboxes.  A mailbox is its name and the   *)
(* version of its messages; SELECT keeps a copy of the mailbox, and FETCH  *)
(* and SEARCH read that copy.                                              *)
(***************************************************************************)
EXTENDS Naturals

CONSTANTS MailUsers, Names, MaxVersion

VARIABLES
    mailUsers,  \* cfg.Users
    mailboxes,  \* Server.mailboxes: name -> version of its messages
    version,    \* version the next SetMailboxes installs
    state,      \* NOT_AUTHENTICATED, AUTHENTICATED, SELECTED, LOGOUT
    selected,   \* the copy SELECT took: name and version, or None
    promised,   \* what the last SELECT that was answered OK announced
    shown,      \* what the last FETCH or SEARCH answered from
    login       \* the last LOGIN was right

imapVars == <<mailUsers, mailboxes, version, state, selected, promised, shown, login>>

NoBox == <<>>

IMAPInit ==
    /\ mailUsers \in {{}, MailUsers}
    /\ version = 1 /\ mailboxes = [n \in Names |-> 1]
    /\ state = "NOT_AUTHENTICATED"
    /\ selected = NoBox /\ promised = NoBox /\ shown = NoBox
    /\ login = FALSE

\* authenticate: without configured users any LOGIN is right.
Login(right) ==
    LET ok == mailUsers = {} \/ right IN
    /\ state # "LOGOUT"
    /\ state' = IF ok THEN "AUTHENTICATED" ELSE state
    /\ login' = (login \/ ok)
    /\ UNCHANGED <<mailUsers, mailboxes, version, selected, promised, shown>>

\* SELECT needs a login.  An unknown mailbox is refused and leaves the
\* selection as it was.
Select(n) ==
    /\ state \in {"AUTHENTICATED", "SELECTED"}
    /\ n \in DOMAIN mailboxes                   \* findMailbox
    /\ state' = "SELECTED"
    /\ selected' = <<n, mailboxes[n]>> /\ promised' = <<n, mailboxes[n]>>
    /\ UNCHANGED <<mailUsers, mailboxes, version, shown, login>>

ShowsCurrent ==
    /\ state = "SELECTED"
    /\ shown' = <<selected[1],
                  IF selected[1] \in DOMAIN mailboxes THEN mailboxes[selected[1]] ELSE 0>>
    /\ UNCHANGED <<mailUsers, mailboxes, version, state, selected, promised, login>>

\* FETCH and SEARCH, unless a fault answers them.
Show ==
    /\ state = "SELECTED"
    /\ shown' = selected
    /\ UNCHANGED <<mailUsers, mailboxes, version, state, selected, promised, login>>

Logout ==
    /\ state' = "LOGOUT" /\ state # "LOGOUT"
    /\ UNCHANGED <<mailUsers, mailboxes, version, selected, promised, shown, login>>

SetMailboxes(S) ==
    /\ version < MaxVersion
    /\ version' = version + 1
    /\ mailboxes' = [n \in S |-> version + 1]
    /\ UNCHANGED <<mailUsers, state, selected, promised, shown, login>>

IMAPNext ==
    \/ \E right \in BOOLEAN : Login(right)
    \/ \E n \in Names : Select(n)
    \/ Show \/ Logout
    \/ \E S \in SUBSET Names : SetMailboxes(S)

IMAPSpec == IMAPInit /\ [][IMAPNext]_imapVars

----------------------------------------------------------------------------
\* FETCH and SEARCH answer from the mailbox the client was told it selected,
\* with the messages whose number SELECT announced: mailboxes replaced in
\* between, a LOGIN in between and a SELECT that failed change nothing of it.
SelectionIsStable == [][shown' # shown => shown' = promised]_imapVars

\* Mail is shown only in a session in which a LOGIN succeeded before.
MailNeedsLogin == shown # NoBox => login

\* IMAP: mail is shown only after a LOGIN that succeeded, and FETCH and SEARCH
\* answer from what SELECT announced.
MailIsAsSelected == []MailNeedsLogin /\ SelectionIsStable
=============================================================================
