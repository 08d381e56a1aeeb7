----------------------------- MODULE PgSessions -----------------------------
(***************************************************************************)
(* Agent sessions, bindings, memory documents and channel accounts in the  *)
(* store over PostgreSQL, as PgAccounts: one transaction of statements of  *)
(* Repositories for a method, under an organization.                       *)
(***************************************************************************)
EXTENDS Integers, FiniteSets, Tables

CONSTANTS
    Ids, Orgs, Keys, Tries, Agents, Priorities, Pins, Paths, Channels, AccountKeys, Names, Subjects,
    Clients       \* requests whose transactions have two statements

VARIABLES db, answer, tx

vars == <<db, answer, tx>>

Rows == INSTANCE Repositories

NoTx == [op |-> "none"]

Init ==
    /\ db = [sessions |-> {}, events |-> {}, bindings |-> {}, jobs |-> {}, documents |-> {},
             chunks |-> {}, accounts |-> {}, secrets |-> {}, entries |-> {}, requests |-> {},
             notices |-> {}]
    /\ answer = None /\ tx = [c \in Clients |-> NoTx]

Answers(op, args, result) == answer' = <<op, args, result>>
Selects(op, args, result) == Answers(op, args, result) /\ UNCHANGED <<db, tx>>
Writes(op, args, table, statement, result) ==
    /\ statement.ok /\ Answers(op, args, result)
    /\ db' = [db EXCEPT ![table] = statement.rows] /\ UNCHANGED tx
Commits(op, args, table, statement) == Writes(op, args, table, statement, statement.row)
\* return Boolean(row)
Confirms(op, args, table, statement) == Writes(op, args, table, statement, statement.row # None)
\* Rows that other processes write.
Stores(table, statement) ==
    statement.ok /\ db' = [db EXCEPT ![table] = statement.rows] /\ UNCHANGED <<answer, tx>>
Fresh(table) == Ids \ IdsOf(db[table])

\* What the policies of an organization's tables let it see.
InOrg(table, org) == {r \in db[table] : r.org = org}

-----------------------------------------------------------------------------
createAgentSession(org, key) ==
    \E id \in Fresh("sessions") :
        Commits("createAgentSession", <<org, key>>, "sessions",
                Rows!createAgentSession(db.sessions, InOrg("sessions", org), id, org, Rows!Given(key, id)))

listAgentSessions(org, status) ==
    Selects("listAgentSessions", <<org, status>>, Rows!listAgentSessions(InOrg("sessions", org), org, status))

archiveAgentSession(org, id) ==
    Commits("archiveAgentSession", <<org, id>>, "sessions",
            Rows!archiveAgentSession(db.sessions, InOrg("sessions", org), org, id))

restoreAgentSession(org, id) ==
    Commits("restoreAgentSession", <<org, id>>, "sessions",
            Rows!restoreAgentSession(db.sessions, InOrg("sessions", org), org, id))

getAgentSessionById(org, id) ==
    Selects("getAgentSessionById", <<org, id>>, Rows!getAgentSessionById(InOrg("sessions", org), org, id))

setAgentSessionPinnedAgent(org, id, pin) ==
    Commits("setAgentSessionPinnedAgent", <<org, id, pin>>, "sessions",
            Rows!setAgentSessionPinnedAgent(db.sessions, InOrg("sessions", org), org, id, pin))

SessionsNext ==
    \E o \in Orgs :
        \/ \E k \in Keys \cup {None} : createAgentSession(o, k)
        \/ \E s \in {"active", "archived", "all"} : listAgentSessions(o, s)
        \/ \E id \in Ids :
             \/ archiveAgentSession(o, id) \/ restoreAgentSession(o, id) \/ getAgentSessionById(o, id)
             \/ \E p \in Pins \cup {None} : setAgentSessionPinnedAgent(o, id, p)

-----------------------------------------------------------------------------
\* The event of a repeated key is looked for before the session is locked.
appendReads(c, org, session, try) ==
    LET repeated == Rows!repeatedEvent(InOrg("events", org), org, session, try) IN
    /\ tx[c] = NoTx
    /\ \/ /\ repeated # None
          /\ Selects("appendAgentSessionEvent", <<org, session, try>>, repeated)
       \/ /\ repeated = None /\ UNCHANGED <<db, answer>>
          /\ tx' = [tx EXCEPT ![c] = [op |-> "append", args |-> <<org, session, try>>]]

\* Until it commits, nobody else has the session's row.
appendAgentSessionEvent(c) ==
    /\ tx[c].op = "append" /\ tx' = [tx EXCEPT ![c] = NoTx]
    /\ LET org == tx[c].args[1]
           session == tx[c].args[2]
           statement == Rows!appendAgentSessionEvent(db.events, InOrg("events", org), org, session,
                                                     tx[c].args[3]) IN
       /\ Rows!getAgentSessionById(InOrg("sessions", org), org, session) # None
       /\ statement.ok /\ db' = [db EXCEPT !.events = statement.rows]
       /\ Answers("appendAgentSessionEvent", tx[c].args, statement.row)

\* No such session, or an event of the same key by now.
appendFails(c) == tx[c].op = "append" /\ tx' = [tx EXCEPT ![c] = NoTx] /\ UNCHANGED <<db, answer>>

listAgentSessionEvents(org, session, cursor, limit) ==
    Selects("listAgentSessionEvents", <<org, session, cursor, limit>>,
            Rows!listAgentSessionEvents(InOrg("events", org), org, session, cursor, limit))

EventsNext ==
    \/ \E o \in Orgs :
         \/ createAgentSession(o, None)
         \/ \E id \in Ids :
              \/ \E c \in Clients, t \in Tries \cup {None} : appendReads(c, o, id, t)
              \/ \E after \in -1 .. 2, n \in 1 .. 2 : listAgentSessionEvents(o, id, after, n)
    \/ \E c \in Clients : appendAgentSessionEvent(c) \/ appendFails(c)

-----------------------------------------------------------------------------
createAgentBinding(org, agent, priority) ==
    \E id \in Fresh("bindings") :
        Commits("createAgentBinding", <<org, agent, priority>>, "bindings",
                Rows!createAgentBinding(db.bindings, id, org, agent, priority))

listAgentBindings(org) == Selects("listAgentBindings", org, Rows!listAgentBindings(InOrg("bindings", org), org))

patchAgentBinding(org, id, agent, priority) ==
    Commits("patchAgentBinding", <<org, id, agent, priority>>, "bindings",
            Rows!patchAgentBinding(db.bindings, InOrg("bindings", org), org, id, agent, priority))

deleteAgentBinding(org, id) ==
    Confirms("deleteAgentBinding", <<org, id>>, "bindings",
             Rows!deleteAgentBinding(db.bindings, InOrg("bindings", org), org, id))

BindingsNext ==
    \E o \in Orgs :
        \/ \E a \in Agents, p \in Priorities : createAgentBinding(o, a, p)
        \/ listAgentBindings(o)
        \/ \E id \in Ids : \/ deleteAgentBinding(o, id)
                           \/ \E a \in Agents \cup {None}, p \in Priorities \cup {None} :
                                patchAgentBinding(o, id, a, p)

-----------------------------------------------------------------------------
\* The indexer is not in the repository: these are the statements for it.
IndexesDocument(org, path) ==
    \E id \in Fresh("documents") :
        Stores("documents", Rows!createAgentMemoryDocument(db.documents, id, org, path))
IndexesChunks(document, indices) ==
    \E d \in ById(db.documents, document) :
        Stores("chunks", Rows!replaceAgentMemoryChunks(db.chunks, InOrg("chunks", d.org), d.org, document,
                                                       indices))

createAgentMemorySyncJob(org, session) ==
    \E id \in Fresh("jobs") :
        Commits("createAgentMemorySyncJob", <<org, session>>, "jobs",
                Rows!createAgentMemorySyncJob(db.jobs, db.sessions, id, org, session))

listAgentMemoryDocuments(org, path) ==
    Selects("listAgentMemoryDocuments", <<org, path>>,
            Rows!listAgentMemoryDocuments(InOrg("documents", org), org, path))

getAgentMemoryDocumentById(org, id) ==
    Selects("getAgentMemoryDocumentById", <<org, id>>,
            Rows!getAgentMemoryDocumentById(InOrg("documents", org), org, id))

listAgentMemoryChunksByDocument(org, document) ==
    Selects("listAgentMemoryChunksByDocument", <<org, document>>,
            Rows!listAgentMemoryChunksByDocument(InOrg("chunks", org), org, document))

MemoryNext ==
    \E o \in Orgs :
        \/ createAgentSession(o, None)
        \/ \E p \in Paths : IndexesDocument(o, p)
        \/ \E p \in Paths \cup {None} : listAgentMemoryDocuments(o, p)
        \/ \E id \in Ids :
             \/ \E is \in SUBSET {0, 1} : IndexesChunks(id, is)
             \/ createAgentMemorySyncJob(o, id) \/ getAgentMemoryDocumentById(o, id)
             \/ listAgentMemoryChunksByDocument(o, id)

-----------------------------------------------------------------------------
createChannelAccount(org, channel, key) ==
    \E id \in Fresh("accounts") :
        Commits("createChannelAccount", <<org, channel, key>>, "accounts",
                Rows!createChannelAccount(db.accounts, id, org, channel, key))

listChannelAccounts(org, channel) ==
    Selects("listChannelAccounts", <<org, channel>>,
            Rows!listChannelAccountsByOrg(InOrg("accounts", org), org, channel))

getChannelAccountById(org, id) ==
    Selects("getChannelAccountById", <<org, id>>, Rows!getChannelAccountById(InOrg("accounts", org), org, id))

updateChannelAccount(org, id, enabled, status) ==
    Commits("updateChannelAccount", <<org, id, enabled, status>>, "accounts",
            Rows!updateChannelAccount(db.accounts, InOrg("accounts", org), org, id, enabled, status))

\* The tables of an account lose its rows with it, on delete cascade.
deleteChannelAccount(org, id) ==
    LET deleted == Rows!deleteChannelAccount(db.accounts, InOrg("accounts", org), org, id)
        Left(rows) == {r \in rows : r.account \in IdsOf(deleted.rows)} IN
    /\ Answers("deleteChannelAccount", <<org, id>>, deleted.row # None) /\ UNCHANGED tx
    /\ db' = [db EXCEPT !.accounts = deleted.rows, !.secrets = Left(@), !.entries = Left(@),
                        !.requests = Left(@), !.notices = Left(@)]

createChannelAccountSecret(org, account, name) ==
    \E id \in Fresh("secrets") :
        Commits("createChannelAccountSecret", <<org, account, name>>, "secrets",
                Rows!createChannelAccountSecret(db.secrets, db.accounts, id, org, account, name))

listChannelAccountSecrets(org, account) ==
    Selects("listChannelAccountSecrets", <<org, account>>,
            Rows!listChannelAccountSecrets(InOrg("secrets", org), org, account))

listChannelAllowlistEntries(org, account, scope) ==
    Selects("listChannelAllowlistEntries", <<org, account, scope>>,
            Rows!listChannelAllowlistEntries(InOrg("entries", org), org, account, scope))

putChannelAllowlistEntry(org, account, scope, subject) ==
    \E id \in Fresh("entries") :
        Commits("putChannelAllowlistEntry", <<org, account, scope, subject>>, "entries",
                Rows!putChannelAllowlistEntry(db.entries, db.accounts, id, org, account, scope, subject))

deleteChannelAllowlistEntry(org, account, scope, subject) ==
    Confirms("deleteChannelAllowlistEntry", <<org, account, scope, subject>>, "entries",
             Rows!deleteChannelAllowlistEntry(db.entries, InOrg("entries", org), org, account, scope, subject))

listChannelEvents(org, account) ==
    Selects("listChannelEvents", <<org, account>>, Rows!listChannelEvents(InOrg("notices", org), org, account))

listChannelPairingRequests(org, account, status) ==
    Selects("listChannelPairingRequests", <<org, account, status>>,
            Rows!listChannelPairingRequests(InOrg("requests", org), org, account, status))

updateChannelPairingRequestStatus(org, id, status) ==
    Commits("updateChannelPairingRequestStatus", <<org, id, status>>, "requests",
            Rows!updateChannelPairingRequestStatus(db.requests, InOrg("requests", org), org, id, status))

\* The gateway writes these for an account that it has loaded.
appendChannelEvent(account) ==
    \E id \in Fresh("notices"), a \in ById(db.accounts, account) :
        Stores("notices", Rows!appendChannelEvent(db.notices, id, a.org, account))
createChannelPairingRequest(account) ==
    \E id \in Fresh("requests"), a \in ById(db.accounts, account) :
        Stores("requests", Rows!createChannelPairingRequest(db.requests, id, a.org, account))

AccountsNext ==
    \E o \in Orgs :
        \/ \E ch \in Channels, k \in AccountKeys : createChannelAccount(o, ch, k)
        \/ \E ch \in Channels \cup {None} : listChannelAccounts(o, ch)
        \/ \E a \in Ids :
             \/ getChannelAccountById(o, a) \/ deleteChannelAccount(o, a)
             \/ \E b \in {TRUE, FALSE, None}, s \in {"stopped", "running", None} :
                  updateChannelAccount(o, a, b, s)

\* Secrets and entries are asked for an account of the organization: only
\* the in-memory store looks for that.
ListsNext ==
    \/ \E a \in Ids : appendChannelEvent(a)
    \/ \E o \in Orgs :
         \/ \E ch \in Channels, k \in AccountKeys : createChannelAccount(o, ch, k)
         \/ \E a \in Ids :
              \/ deleteChannelAccount(o, a) \/ listChannelAccountSecrets(o, a) \/ listChannelEvents(o, a)
              \/ \E s \in {"dm", "group"} :
                   \/ listChannelAllowlistEntries(o, a, s) \/ listChannelAllowlistEntries(o, a, None)
                   \/ \E x \in Subjects : deleteChannelAllowlistEntry(o, a, s, x)
         \/ \E a \in IdsOf(InOrg("accounts", o)) :
              \/ \E n \in Names : createChannelAccountSecret(o, a, n)
              \/ \E s \in {"dm", "group"}, x \in Subjects : putChannelAllowlistEntry(o, a, s, x)

\* No account is deleted here: its requests go with it in the database only.
RequestsNext ==
    \/ \E a \in Ids : createChannelPairingRequest(a)
    \/ \E o \in Orgs :
         \/ \E ch \in Channels, k \in AccountKeys : createChannelAccount(o, ch, k)
         \/ \E a \in Ids \cup {None}, s \in {"pending", "approved", None} :
              listChannelPairingRequests(o, a, s)
         \/ \E id \in Ids, s \in {"approved", "rejected"} : updateChannelPairingRequestStatus(o, id, s)

Next == SessionsNext \/ EventsNext \/ BindingsNext \/ MemoryNext \/ AccountsNext \/ ListsNext \/ RequestsNext

Spec == Init /\ [][Next]_vars

-----------------------------------------------------------------------------
Memory == INSTANCE MemorySessions WITH tables <- db

\* createAgentSession with a key that a session of the organization has: the
\* database keeps the one row and answers it.
GivesKeyAgain ==
    /\ UNCHANGED db
    /\ \E org \in Orgs, key \in Keys :
          /\ \E s \in InOrg("sessions", org) : s.key = key
          /\ Answers("createAgentSession", <<org, key>>, One({s \in InOrg("sessions", org) : s.key = key}))

\* What the database answers about sessions, events, bindings, memory
\* documents and channel accounts, the in-memory store on which the API's
\* tests run answers too.  False: that store makes another row for a session key
\* it has (memory-store.ts:2491), and no other call modelled here is answered
\* differently.
ImplementsMemoryStore == Memory!Spec
=============================================================================
