----------------------------- MODULE SMTPServer ----------------------------
(***************************************************************************)
(* The SMTP server's sessions (smtpserver.session): the envelope that MAIL *)
(* and RCPT build, the check of every recipient against the rules in Data, *)
(* and the inbox, while the management API replaces the rules.  The        *)
(* library that reads the commands is external: it lets RCPT through only  *)
(* after MAIL and DATA only with a recipient, does not mind a second MAIL, *)
(* and calls Reset after every DATA.                                       *)
(***************************************************************************)
EXTENDS Naturals, Sequences

CONSTANTS Sessions, Senders, Addresses, RuleSets, MaxMails, MaxTo

NoSender == "no sender"

VARIABLES
    rejected,       \* Server.rules: the senders and recipients they reject
    envelope,       \* session -> from and to
    begun,          \* session -> the library has seen a MAIL since Reset
    stage,          \* session -> "commands", "check" a recipient, "store"
    next,           \* session -> the recipient Data looks at next
    verdicts,       \* session -> recipients found acceptable, of this Data
    said,           \* session -> the sender the client gave last, and the
                    \* recipients it gave since the transaction opened
    inbox,          \* emails, oldest first, with what the client said
    mails           \* bounds the model: transactions begun

smtpVars == <<rejected, envelope, begun, stage, next, verdicts, said, inbox, mails>>

Empty == [from |-> NoSender, to |-> <<>>]

SMTPInit ==
    /\ rejected \in RuleSets
    /\ envelope = [s \in Sessions |-> Empty]
    /\ begun = [s \in Sessions |-> FALSE]
    /\ stage = [s \in Sessions |-> "commands"]
    /\ next = [s \in Sessions |-> 1]
    /\ verdicts = [s \in Sessions |-> <<>>]
    /\ said = [s \in Sessions |-> Empty]
    /\ inbox = <<>> /\ mails = 0

\* A second MAIL of one transaction replaces the sender and keeps the
\* recipients.
Mail(s, from) ==
    /\ stage[s] = "commands"
    /\ mails < MaxMails /\ mails' = mails + 1
    /\ envelope' = [envelope EXCEPT ![s].from = from]
    /\ begun' = [begun EXCEPT ![s] = TRUE]
    /\ said' = [said EXCEPT ![s] = [from |-> from, to |-> IF begun[s] THEN @.to ELSE <<>>]]
    /\ UNCHANGED <<rejected, stage, next, verdicts, inbox>>

Rcpt(s, to) ==
    /\ stage[s] = "commands" /\ begun[s]
    /\ Len(said[s].to) < MaxTo
    /\ envelope' = [envelope EXCEPT ![s].to = Append(@, to)]
    /\ said' = [said EXCEPT ![s].to = Append(@, to)]
    /\ UNCHANGED <<rejected, begun, stage, next, verdicts, inbox, mails>>

Reset(s) ==
    /\ envelope' = [envelope EXCEPT ![s] = Empty]
    /\ begun' = [begun EXCEPT ![s] = FALSE]

\* RSET, or a new greeting.
Rset(s) ==
    /\ stage[s] = "commands"
    /\ Reset(s)
    /\ UNCHANGED <<rejected, stage, next, verdicts, said, inbox, mails>>

\* DATA: the message is read; no fault answers it.
Data(s) ==
    /\ stage[s] = "commands" /\ begun[s] /\ said[s].to # <<>>
    /\ stage' = [stage EXCEPT ![s] = "check"]
    /\ next' = [next EXCEPT ![s] = 1]
    /\ verdicts' = [verdicts EXCEPT ![s] = <<>>]
    /\ UNCHANGED <<rejected, envelope, begun, said, inbox, mails>>

\* A fault, or a rule that rejects one recipient, ends Data with an error.
RefuseMail(s) ==
    /\ stage' = [stage EXCEPT ![s] = "commands"]
    /\ Reset(s)
    /\ UNCHANGED <<rejected, next, verdicts, said, inbox, mails>>

Faulted(s) == stage[s] = "check" /\ next[s] = 1 /\ RefuseMail(s)

\* matchRule for one recipient; each call takes the lock anew.
matchRule(from, to) == IF <<from, to>> \in rejected THEN "reject" ELSE "accept"

Accepted(s) ==
    /\ verdicts' = [verdicts EXCEPT ![s] = Append(@, envelope[s].to[next[s]])]
    /\ next' = [next EXCEPT ![s] = @ + 1]
    /\ stage' = [stage EXCEPT ![s] = IF next[s] = Len(envelope[s].to) THEN "store" ELSE "check"]
    /\ UNCHANGED <<rejected, envelope, begun, said, inbox, mails>>

\* One good recipient is enough.
CheckFirst(s) ==
    /\ stage[s] = "check"
    /\ IF matchRule(envelope[s].from, envelope[s].to[next[s]]) = "reject" THEN RefuseMail(s)
       ELSE /\ stage' = [stage EXCEPT ![s] = "store"]
            /\ verdicts' = [verdicts EXCEPT ![s] = Append(@, envelope[s].to[next[s]])]
            /\ UNCHANGED <<rejected, envelope, begun, next, said, inbox, mails>>

Check(s) ==
    /\ stage[s] = "check"
    /\ IF matchRule(envelope[s].from, envelope[s].to[next[s]]) = "reject"
       THEN RefuseMail(s) ELSE Accepted(s)

\* The email is stored and logged; the library then resets the session.
StoreMail(s) ==
    /\ stage[s] = "store"
    /\ inbox' = Append(inbox, [email |-> envelope[s], said |-> said[s], accepted |-> verdicts[s]])
    /\ stage' = [stage EXCEPT ![s] = "commands"]
    /\ Reset(s)
    /\ UNCHANGED <<rejected, next, verdicts, said, mails>>

SetRules(r) ==
    /\ rejected' = r
    /\ UNCHANGED <<envelope, begun, stage, next, verdicts, said, inbox, mails>>

SMTPNext ==
    \/ \E s \in Sessions :
          \/ \E from \in Senders : Mail(s, from)
          \/ Rset(s) \/ Data(s) \/ Faulted(s) \/ Check(s) \/ StoreMail(s)
          \/ \E to \in Addresses : Rcpt(s, to)
    \/ \E r \in RuleSets : SetRules(r)

SMTPSpec == SMTPInit /\ [][SMTPNext]_smtpVars

----------------------------------------------------------------------------
\* A stored email has the sender its client named last and the recipients its
\* own transaction named: nothing is left of an earlier one that was stored,
\* refused or reset.
EnvelopeIsOwn == \A i \in DOMAIN inbox : inbox[i].email = inbox[i].said

\* An email is stored only after matchRule accepted each of its recipients:
\* one rejected recipient refuses the whole message, whichever rules are in
\* force when the others are looked at.
EveryRecipientWasAccepted == \A i \in DOMAIN inbox : inbox[i].accepted = inbox[i].email.to

\* SMTP: a stored email has the sender and the recipients of its own
\* transaction, and each of the recipients was accepted by the rules.
StoredMailIsOwn == EnvelopeIsOwn /\ EveryRecipientWasAccepted
=============================================================================
