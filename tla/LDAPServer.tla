----------------------------- MODULE LDAPServer ----------------------------
(***************************************************************************)
(* A connection of the LDAP server (ldapserver.handleConn): bind, search   *)
(* and unbind, while the management API replaces the mocks.  The base      *)
(* object and the filter of a search select a subset of the mocks, which   *)
(* the model takes as the search's input.                                  *)
(***************************************************************************)
EXTENDS Naturals, Sequences, Functions

CONSTANTS
    LDAPUsers,
    LDAPMocks,      \* mock ids
    AllowedMockIDs, \* user -> mock ids; {}: all
    LDAPConfigs,    \* what SetMocks may install: sequences of mock ids
    MaxSearches

NoOne == "no one"

ASSUME LDAPAssumption ==
    /\ LDAPConfigs \subseteq Seq(LDAPMocks)
    /\ NoOne \notin LDAPUsers

VARIABLES
    ldapUsers,      \* cfg.Users
    ldapMocks,      \* Server.mocks
    boundUser, boundAny,
    binder,         \* user of the last bind, NoOne if it failed
    phase,          \* "read", "entries": writing a search's results, "closed"
    pending,        \* matched mocks not yet written
    entries,        \* mocks written for this search
    snapshot,       \* what the search's client may see of the mocks it met
    logged,         \* mocks logged for this search
    searches        \* bounds the model

ldapVars == <<ldapUsers, ldapMocks, boundUser, boundAny, binder, phase, pending,
              entries, snapshot, logged, searches>>

LDAPInit ==
    /\ ldapUsers \in {{}, LDAPUsers}
    /\ ldapMocks \in LDAPConfigs
    /\ boundUser = NoOne /\ boundAny = (ldapUsers = {}) /\ binder = NoOne
    /\ phase = "read" /\ searches = 0
    /\ pending = <<>> /\ entries = <<>> /\ snapshot = <<>> /\ logged = <<>>

\* A bind request: a failed one also ends the bind before it.
Bind(u, right) ==
    /\ phase = "read"
    /\ IF ldapUsers = {} THEN UNCHANGED <<boundUser, boundAny>>
       ELSE /\ boundUser' = IF right THEN u ELSE NoOne
            /\ boundAny' = right
    /\ binder' = IF right THEN u ELSE NoOne
    /\ UNCHANGED <<ldapUsers, ldapMocks, phase, pending, entries, snapshot, logged, searches>>

\* The mock ids a user may see (findUserByUsername, AllowedMockIDs).
Visible(u) ==
    IF ldapUsers # {} /\ u \in ldapUsers /\ AllowedMockIDs[u] # {}
    THEN AllowedMockIDs[u] ELSE LDAPMocks

\* The loop of matchMocks: the mocks of S, in their order.
Matched(ms, S) ==
    LET out[i \in 0 .. Len(ms)] ==
            IF i = 0 THEN <<>>
            ELSE IF ms[i] \in S THEN Append(out[i - 1], ms[i])
            ELSE out[i - 1]
    IN  out[Len(ms)]

\* matchMocks: one read of the mocks, under the lock.
matchMocks(wanted, u) == Matched(ldapMocks, wanted \cap Visible(u))

\* A search that is not refused (insufficient access) and that no fault
\* answers.
Search(wanted) ==
    /\ phase = "read" /\ boundAny
    /\ searches < MaxSearches /\ searches' = searches + 1
    /\ phase' = "entries"
    /\ pending' = matchMocks(wanted, boundUser)
    /\ snapshot' = Matched(ldapMocks, wanted \cap Visible(binder))
    /\ entries' = <<>> /\ logged' = <<>>
    /\ UNCHANGED <<ldapUsers, ldapMocks, boundUser, boundAny, binder>>

RefusedSearch ==
    /\ phase = "read" /\ ~boundAny
    /\ searches < MaxSearches /\ searches' = searches + 1
    /\ entries' = <<>> /\ logged' = <<>> /\ snapshot' = <<>>
    /\ UNCHANGED <<ldapUsers, ldapMocks, boundUser, boundAny, binder, phase, pending>>

\* The same, with the rest looked up again after the delay.
WriteEntryRereads ==
    /\ phase = "entries" /\ pending # <<>>
    /\ entries' = Append(entries, Head(pending))
    /\ logged' = Append(logged, Head(pending))
    /\ pending' = Matched(ldapMocks, Range(Tail(pending)))
    /\ UNCHANGED <<ldapUsers, ldapMocks, boundUser, boundAny, binder, phase, snapshot, searches>>

\* One entry is written, after the mock's delay, and logged.
WriteEntry ==
    /\ phase = "entries" /\ pending # <<>>
    /\ entries' = Append(entries, Head(pending))
    /\ logged' = Append(logged, Head(pending))
    /\ pending' = Tail(pending)
    /\ UNCHANGED <<ldapUsers, ldapMocks, boundUser, boundAny, binder, phase, snapshot, searches>>

SearchDone ==
    /\ phase = "entries" /\ pending = <<>>
    /\ phase' = "read"
    /\ UNCHANGED <<ldapUsers, ldapMocks, boundUser, boundAny, binder, pending, entries,
                   snapshot, logged, searches>>

Unbind ==
    /\ phase = "read" /\ phase' = "closed"
    /\ UNCHANGED <<ldapUsers, ldapMocks, boundUser, boundAny, binder, pending, entries,
                   snapshot, logged, searches>>

LDAPSetMocks(ms) ==
    /\ ldapMocks' = ms
    /\ UNCHANGED <<ldapUsers, boundUser, boundAny, binder, phase, pending, entries,
                   snapshot, logged, searches>>

LDAPNext ==
    \/ \E u \in LDAPUsers, right \in BOOLEAN : Bind(u, right)
    \/ \E wanted \in SUBSET LDAPMocks : Search(wanted)
    \/ RefusedSearch \/ WriteEntry \/ SearchDone \/ Unbind
    \/ \E ms \in LDAPConfigs : LDAPSetMocks(ms)

LDAPSpec == LDAPInit /\ [][LDAPNext]_ldapVars

----------------------------------------------------------------------------
\* Entries are shown only to a user whose last bind succeeded, and only the
\* mocks that user may see: a failed bind ends the rights of the one before.
EntriesNeedTheirBind ==
    ldapUsers # {} /\ phase = "entries" =>
        binder # NoOne /\ Range(entries) \subseteq Visible(binder)

\* A finished search answered with one state of the mocks, completely and in
\* order, and logged exactly what it answered, although the mocks may be
\* replaced between two entries (matchMocks copies under one lock).
SearchIsOneSnapshot ==
    phase = "read" => entries = snapshot /\ logged = entries

\* LDAP: a search answers with one state of the mocks, under the rights of the
\* last bind, and logs its answers.
SearchesAreExact == EntriesNeedTheirBind /\ SearchIsOneSnapshot
=============================================================================
