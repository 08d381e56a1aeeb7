--------------------------- MODULE MemorySessions ---------------------------
(***************************************************************************)
(* Agent sessions with their events, bindings, memory documents and        *)
(* channel accounts in the in-memory store of the API, as MemoryAccounts.  *)
(* Titles, models, prompts, secrets' values and who wrote a row are left   *)
(* out, and pages: a list is the set of the rows on all of them.           *)
(***************************************************************************)
EXTENDS Integers, FiniteSets, Tables

CONSTANTS
    Ids, Orgs, Keys,      \* the session keys that callers choose
    Tries,                \* idempotency keys of events
    Agents, Priorities, Pins, Paths, Channels, AccountKeys, Names, Subjects

VARIABLES tables, answer

vars == <<tables, answer>>

Init ==
    /\ tables = [sessions |-> {}, events |-> {}, bindings |-> {}, jobs |-> {}, documents |-> {},
                 chunks |-> {}, accounts |-> {}, secrets |-> {}, entries |-> {}, requests |-> {},
                 notices |-> {}]
    /\ answer = None

Returns(op, args, result) ==
    /\ answer' # None /\ answer'[1] = op /\ answer'[2] = args /\ answer'[3] = result
Reads(op, args, result) == Returns(op, args, result) /\ UNCHANGED tables
Writes(op, args, result, table, rows) ==
    Returns(op, args, result) /\ tables' = [tables EXCEPT ![table] = rows]
Adds(op, args, table, row) == Writes(op, args, row, table, tables[table] \cup {row})
Changes(op, args, table, hit, New(_)) ==
    Writes(op, args, One({New(r) : r \in hit}), table, Updated(tables[table], hit, New))
Removes(op, args, table, hit) == Writes(op, args, hit # {}, table, tables[table] \ hit)
Fresh(table) == Ids \ IdsOf(tables[table])
InOrg(table, org) == {r \in tables[table] : r.org = org}
Row(table, org, id) == ById(InOrg(table, org), id)
OfAccount(table, org, account) == {r \in InOrg(table, org) : r.account = account}
Given(value, old) == IF value = None THEN old ELSE value

-----------------------------------------------------------------------------
(* Sessions and their events.                                              *)

createAgentSession(org, key) ==
    \E id \in Fresh("sessions") :
        Adds("createAgentSession", <<org, key>>, "sessions",
             [id |-> id, org |-> org, key |-> Given(key, id), status |-> "active", pin |-> None])

listAgentSessions(org, status) ==
    Reads("listAgentSessions", <<org, status>>,
          {s \in InOrg("sessions", org) : status = "all" \/ s.status = status})

ArchivesOrRestores(op, org, id, status) ==
    LET new(s) == [s EXCEPT !.status = status] IN
    Changes(op, <<org, id>>, "sessions", Row("sessions", org, id), new)
archiveAgentSession(org, id) == ArchivesOrRestores("archiveAgentSession", org, id, "archived")
restoreAgentSession(org, id) == ArchivesOrRestores("restoreAgentSession", org, id, "active")

getAgentSessionById(org, id) == Reads("getAgentSessionById", <<org, id>>, One(Row("sessions", org, id)))

setAgentSessionPinnedAgent(org, id, pin) ==
    LET new(s) == [s EXCEPT !.pin = pin] IN
    Changes("setAgentSessionPinnedAgent", <<org, id, pin>>, "sessions", Row("sessions", org, id), new)

EventsOf(session) == {e \in tables.events : e.session = session}

\* The event of a repeated idempotency key is answered again.
appendAgentSessionEvent(org, session, try) ==
    LET repeated == {e \in EventsOf(session) : try # None /\ e.try = try} IN
    /\ Row("sessions", org, session) # {}
    /\ \/ repeated # {} /\ Reads("appendAgentSessionEvent", <<org, session, try>>, One(repeated))
       \/ /\ repeated = {}
          /\ Adds("appendAgentSessionEvent", <<org, session, try>>, "events",
                  [org |-> org, session |-> session, seq |-> Cardinality(EventsOf(session)), try |-> try])

\* The events of one page begin after the cursor.
listAgentSessionEvents(org, session, cursor, limit) ==
    Reads("listAgentSessionEvents", <<org, session, cursor, limit>>,
          {e \in EventsOf(session) : /\ Row("sessions", org, session) # {}
                                     /\ e.seq > cursor /\ e.seq <= cursor + limit})

SessionsNext ==
    \E o \in Orgs :
        \/ \E k \in Keys \cup {None} : createAgentSession(o, k)
        \/ \E s \in {"active", "archived", "all"} : listAgentSessions(o, s)
        \/ \E id \in Ids :
             \/ archiveAgentSession(o, id) \/ restoreAgentSession(o, id) \/ getAgentSessionById(o, id)
             \/ \E p \in Pins \cup {None} : setAgentSessionPinnedAgent(o, id, p)

EventsNext ==
    \E o \in Orgs :
        \/ createAgentSession(o, None)
        \/ \E id \in Ids : \/ \E t \in Tries \cup {None} : appendAgentSessionEvent(o, id, t)
                           \/ \E c \in -1 .. 2, n \in 1 .. 2 : listAgentSessionEvents(o, id, c, n)

-----------------------------------------------------------------------------
(* Which agent answers whom.                                               *)

createAgentBinding(org, agent, priority) ==
    \E id \in Fresh("bindings") :
        Adds("createAgentBinding", <<org, agent, priority>>, "bindings",
             [id |-> id, org |-> org, agent |-> agent, priority |-> priority])

listAgentBindings(org) == Reads("listAgentBindings", org, InOrg("bindings", org))

patchAgentBinding(org, id, agent, priority) ==
    LET new(b) == [b EXCEPT !.agent = Given(agent, @), !.priority = Given(priority, @)] IN
    Changes("patchAgentBinding", <<org, id, agent, priority>>, "bindings", Row("bindings", org, id), new)

deleteAgentBinding(org, id) ==
    Removes("deleteAgentBinding", <<org, id>>, "bindings", Row("bindings", org, id))

BindingsNext ==
    \E o \in Orgs :
        \/ \E a \in Agents, p \in Priorities : createAgentBinding(o, a, p)
        \/ listAgentBindings(o)
        \/ \E id \in Ids : \/ deleteAgentBinding(o, id)
                           \/ \E a \in Agents \cup {None}, p \in Priorities \cup {None} :
                                patchAgentBinding(o, id, a, p)

-----------------------------------------------------------------------------
(* What agents remember.  Nothing in the repository writes the documents.  *)

\* Rows that come from elsewhere.
Arrives(table) ==
    /\ UNCHANGED answer
    /\ \E row \in tables'[table] :
         tables' = [tables EXCEPT ![table] = @ \cup {row}]

createAgentMemorySyncJob(org, session) ==
    \E id \in Fresh("jobs") :
        Adds("createAgentMemorySyncJob", <<org, session>>, "jobs", [id |-> id, org |-> org, session |-> session])

listAgentMemoryDocuments(org, path) ==
    Reads("listAgentMemoryDocuments", <<org, path>>,
          {d \in InOrg("documents", org) : path = None \/ d.path = path})

getAgentMemoryDocumentById(org, id) ==
    Reads("getAgentMemoryDocumentById", <<org, id>>, One(Row("documents", org, id)))

listAgentMemoryChunksByDocument(org, document) ==
    Reads("listAgentMemoryChunksByDocument", <<org, document>>,
          {c \in InOrg("chunks", org) : c.document = document})

Reindexed ==
    /\ UNCHANGED answer
    /\ \E document \in Ids :
         tables' = [tables EXCEPT !.chunks = {c \in @ : c.document # document} \cup
                                             {c \in tables'.chunks : c.document = document}]

MemoryNext ==
    \/ Arrives("documents") \/ Reindexed
    \/ \E o \in Orgs :
         \/ createAgentSession(o, None)
         \/ \E p \in Paths \cup {None} : listAgentMemoryDocuments(o, p)
         \/ \E id \in Ids :
              \/ createAgentMemorySyncJob(o, id) \/ getAgentMemoryDocumentById(o, id)
              \/ listAgentMemoryChunksByDocument(o, id)

-----------------------------------------------------------------------------
(* Channel accounts, their secrets, allowlists and pairing requests.       *)

createChannelAccount(org, channel, key) ==
    /\ \A a \in InOrg("accounts", org) : <<a.channel, a.key>> # <<channel, key>>
    /\ \E id \in Fresh("accounts") :
         Adds("createChannelAccount", <<org, channel, key>>, "accounts",
              [id |-> id, org |-> org, channel |-> channel, key |-> key, enabled |-> TRUE,
               status |-> "stopped"])

listChannelAccounts(org, channel) ==
    Reads("listChannelAccounts", <<org, channel>>,
          {a \in InOrg("accounts", org) : channel = None \/ a.channel = channel})

getChannelAccountById(org, id) == Reads("getChannelAccountById", <<org, id>>, One(Row("accounts", org, id)))

updateChannelAccount(org, id, enabled, status) ==
    LET new(a) == [a EXCEPT !.enabled = Given(enabled, @), !.status = Given(status, @)] IN
    Changes("updateChannelAccount", <<org, id, enabled, status>>, "accounts", Row("accounts", org, id), new)

\* Pairing requests stay.
deleteChannelAccount(org, id) ==
    LET Left(table) == IF Row("accounts", org, id) = {} THEN tables[table]
                       ELSE {r \in tables[table] : r.account # id} IN
    /\ Returns("deleteChannelAccount", <<org, id>>, Row("accounts", org, id) # {})
    /\ tables' = [tables EXCEPT !.accounts = @ \ Row("accounts", org, id), !.secrets = Left("secrets"),
                                !.entries = Left("entries"), !.notices = Left("notices")]

createChannelAccountSecret(org, account, name) ==
    /\ Row("accounts", org, account) # {}
    /\ \A s \in OfAccount("secrets", org, account) : s.name # name
    /\ \E id \in Fresh("secrets") :
         Adds("createChannelAccountSecret", <<org, account, name>>, "secrets",
              [id |-> id, org |-> org, account |-> account, name |-> name])

listChannelAccountSecrets(org, account) ==
    Reads("listChannelAccountSecrets", <<org, account>>, OfAccount("secrets", org, account))

Known(org, account, rows) == IF Row("accounts", org, account) = {} THEN {} ELSE rows

listChannelAllowlistEntries(org, account, scope) ==
    Reads("listChannelAllowlistEntries", <<org, account, scope>>,
          Known(org, account, {e \in OfAccount("entries", org, account) : scope = None \/ e.scope = scope}))

Entry(org, account, scope, subject) ==
    {e \in OfAccount("entries", org, account) : e.scope = scope /\ e.subject = subject}

putChannelAllowlistEntry(org, account, scope, subject) ==
    LET op == "putChannelAllowlistEntry"
        args == <<org, account, scope, subject>>
        existing == Entry(org, account, scope, subject) IN
    /\ Row("accounts", org, account) # {}
    /\ \/ existing # {} /\ Reads(op, args, One(existing))
       \/ /\ existing = {}
          /\ \E id \in Fresh("entries") :
               Adds(op, args, "entries", [id |-> id, org |-> org, account |-> account, scope |-> scope,
                                          subject |-> subject])

deleteChannelAllowlistEntry(org, account, scope, subject) ==
    Removes("deleteChannelAllowlistEntry", <<org, account, scope, subject>>, "entries",
            Known(org, account, Entry(org, account, scope, subject)))

listChannelEvents(org, account) ==
    Reads("listChannelEvents", <<org, account>>, Known(org, account, OfAccount("notices", org, account)))

listChannelPairingRequests(org, account, status) ==
    Reads("listChannelPairingRequests", <<org, account, status>>,
          {r \in InOrg("requests", org) : /\ account = None \/ r.account = account
                                          /\ status = None \/ r.status = status})

updateChannelPairingRequestStatus(org, id, status) ==
    LET new(r) == [r EXCEPT !.status = status] IN
    Changes("updateChannelPairingRequestStatus", <<org, id, status>>, "requests", Row("requests", org, id), new)

AccountsNext ==
    \E o \in Orgs :
        \/ \E ch \in Channels, k \in AccountKeys : createChannelAccount(o, ch, k)
        \/ \E ch \in Channels \cup {None} : listChannelAccounts(o, ch)
        \/ \E a \in Ids :
             \/ getChannelAccountById(o, a) \/ deleteChannelAccount(o, a)
             \/ \E b \in {TRUE, FALSE, None}, s \in {"stopped", "running", None} :
                  updateChannelAccount(o, a, b, s)

ListsNext ==
    \/ Arrives("notices")
    \/ \E o \in Orgs :
         \/ \E ch \in Channels, k \in AccountKeys : createChannelAccount(o, ch, k)
         \/ \E a \in Ids :
              \/ deleteChannelAccount(o, a) \/ listChannelAccountSecrets(o, a) \/ listChannelEvents(o, a)
              \/ \E n \in Names : createChannelAccountSecret(o, a, n)
              \/ \E s \in {"dm", "group"} :
                   \/ listChannelAllowlistEntries(o, a, s) \/ listChannelAllowlistEntries(o, a, None)
                   \/ \E x \in Subjects : \/ putChannelAllowlistEntry(o, a, s, x)
                                          \/ deleteChannelAllowlistEntry(o, a, s, x)

RequestsNext ==
    \/ Arrives("requests")
    \/ \E o \in Orgs :
         \/ \E ch \in Channels, k \in AccountKeys : createChannelAccount(o, ch, k)
         \/ \E a \in Ids \cup {None}, s \in {"pending", "approved", None} :
              listChannelPairingRequests(o, a, s)
         \/ \E id \in Ids, s \in {"approved", "rejected"} : updateChannelPairingRequestStatus(o, id, s)

Next == SessionsNext \/ EventsNext \/ BindingsNext \/ MemoryNext \/ AccountsNext \/ ListsNext \/ RequestsNext

Spec == Init /\ [][Next]_vars
=============================================================================
