------------------------------- MODULE PgExec -------------------------------
(***************************************************************************)
(* Secrets, agents, executors, toolsets and builder sessions in the store  *)
(* over PostgreSQL, as PgAccounts: one transaction of statements of        *)
(* Repositories for a method, under an organization.                       *)
(***************************************************************************)
EXTENDS Integers, FiniteSets, Tables

CONSTANTS Ids, Orgs, Connectors, Names, Values, Slugs, Labels, Components,
          Clients       \* requests whose transactions have two statements

VARIABLES db, expired, answer, tx

vars == <<db, expired, answer, tx>>

Rows == INSTANCE Repositories

NoTx == [op |-> "none"]

Init ==
    /\ db = [secrets |-> {}, agentTokens |-> {}, executorTokens |-> {}, agents |-> {},
             executors |-> {}, managed |-> {}, toolsets |-> {}, sessions |-> {}, turns |-> {}]
    /\ expired = {} /\ answer = None /\ tx = [c \in Clients |-> NoTx]

Answers(op, args, result) == answer' = <<op, args, result>>
Selects(op, args, result) == Answers(op, args, result) /\ UNCHANGED <<db, expired, tx>>
Writes(op, args, table, statement, result) ==
    /\ statement.ok /\ Answers(op, args, result)
    /\ db' = [db EXCEPT ![table] = statement.rows] /\ UNCHANGED <<expired, tx>>
Commits(op, args, table, statement) == Writes(op, args, table, statement, statement.row)
\* return Boolean(row)
Confirms(op, args, table, statement) == Writes(op, args, table, statement, statement.row # None)
Begins(c, state) == tx[c] = NoTx /\ tx' = [tx EXCEPT ![c] = state] /\ UNCHANGED <<db, expired, answer>>
Fresh(table) == Ids \ IdsOf(db[table])

InOrg(table, org) == {r \in db[table] : r.org = org}
\* Toolsets are read by anyone once they are public.
Public == {t \in db.toolsets : t.visibility = "public"}
ToolsetsOf(org) == InOrg("toolsets", org) \cup Public
\* A turn belongs to the organization of its session.
TurnsOf(org) == {t \in db.turns : t.session \in IdsOf(InOrg("sessions", org))}

-----------------------------------------------------------------------------
createConnectorSecret(org, connector, name, value) ==
    \E id \in Fresh("secrets") :
        Commits("createConnectorSecret", <<org, connector, name, value>>, "secrets",
                Rows!createConnectorSecret(db.secrets, id, org, connector, name, value))

listConnectorSecrets(org, connector) ==
    Selects("listConnectorSecrets", <<org, connector>>,
            Rows!listConnectorSecrets(InOrg("secrets", org), org, connector))

loadConnectorSecretValue(org, id) ==
    LET s == Rows!getConnectorSecretById(InOrg("secrets", org), org, id) IN
    s # None /\ Selects("loadConnectorSecretValue", <<org, id>>, s.value)

rotateConnectorSecret(org, id, value) ==
    Commits("rotateConnectorSecret", <<org, id, value>>, "secrets",
            Rows!updateConnectorSecretValue(db.secrets, InOrg("secrets", org), org, id, value))

deleteConnectorSecret(org, id) ==
    Confirms("deleteConnectorSecret", <<org, id>>, "secrets",
             Rows!deleteConnectorSecret(db.secrets, InOrg("secrets", org), org, id))

SecretsNext ==
    \E o \in Orgs :
        \/ \E k \in Connectors, n \in Names, v \in Values : createConnectorSecret(o, k, n, v)
        \/ \E k \in Connectors \cup {None} : listConnectorSecrets(o, k)
        \/ \E id \in Ids :
             \/ loadConnectorSecretValue(o, id) \/ deleteConnectorSecret(o, id)
             \/ \E v \in Values : rotateConnectorSecret(o, id, v)

-----------------------------------------------------------------------------
Hashes == Ids \ IdsOf(db.agentTokens \cup db.executorTokens)

createAgentPairingToken(org) ==
    \E h \in Hashes : Commits("createPairingToken", <<"agent", org>>, "agentTokens",
                              Rows!createAgentPairingToken(db.agentTokens, h, org))
createExecutorPairingToken(org) ==
    \E h \in Hashes : Commits("createPairingToken", <<"executor", org>>, "executorTokens",
                              Rows!createExecutorPairingToken(db.executorTokens, h, org))
getAgentPairingTokenByHash(org, hash) ==
    Selects("getPairingTokenByHash", <<"agent", org, hash>>,
            Rows!getAgentPairingTokenByHash(InOrg("agentTokens", org), org, hash))
getExecutorPairingTokenByHash(org, hash) ==
    Selects("getPairingTokenByHash", <<"executor", org, hash>>,
            Rows!getExecutorPairingTokenByHash(InOrg("executorTokens", org), org, hash))
consumeAgentPairingToken(org, hash) ==
    Commits("consumePairingToken", <<"agent", org, hash>>, "agentTokens",
            Rows!consumeAgentPairingToken(db.agentTokens, InOrg("agentTokens", org), org, hash, expired))
consumeExecutorPairingToken(org, hash) ==
    Commits("consumePairingToken", <<"executor", org, hash>>, "executorTokens",
            Rows!consumeExecutorPairingToken(db.executorTokens, InOrg("executorTokens", org), org, hash,
                                             expired))

createOrganizationAgent(org) ==
    \E id \in Fresh("agents") : Commits("createDevice", <<"agent", org>>, "agents",
                                        Rows!createOrganizationAgent(db.agents, id, org))
createOrganizationExecutor(org) ==
    \E id \in Fresh("executors") : Commits("createDevice", <<"executor", org>>, "executors",
                                           Rows!createOrganizationExecutor(db.executors, id, org))
listOrganizationAgents(org) ==
    Selects("listDevices", <<"agent", org>>, Rows!listOrganizationAgents(InOrg("agents", org), org))
listOrganizationExecutors(org) ==
    Selects("listDevices", <<"executor", org>>,
            Rows!listOrganizationExecutors(InOrg("executors", org), org))
setOrganizationAgentTags(org, id, tags) ==
    Commits("setLabels", <<"agent", org, id, tags>>, "agents",
            Rows!setOrganizationAgentTags(db.agents, InOrg("agents", org), org, id, tags))
setOrganizationExecutorLabels(org, id, labels) ==
    Commits("setLabels", <<"executor", org, id, labels>>, "executors",
            Rows!setOrganizationExecutorLabels(db.executors, InOrg("executors", org), org, id, labels))
revokeOrganizationAgent(org, id) ==
    Confirms("revokeDevice", <<"agent", org, id>>, "agents",
             Rows!revokeOrganizationAgent(db.agents, InOrg("agents", org), org, id))
revokeOrganizationExecutor(org, id) ==
    Confirms("revokeDevice", <<"executor", org, id>>, "executors",
             Rows!revokeOrganizationExecutor(db.executors, InOrg("executors", org), org, id))
deleteOrganizationExecutor(org, id) ==
    Confirms("deleteOrganizationExecutor", <<org, id>>, "executors",
             Rows!deleteOrganizationExecutor(db.executors, InOrg("executors", org), org, id))

\* Managed executors belong to no organization.
createManagedExecutor(labels) ==
    \E id \in Fresh("managed") :
        Commits("createManagedExecutor", labels, "managed",
                Rows!createManagedExecutor(db.managed, id, labels))
revokeManagedExecutor(id) ==
    Confirms("revokeManagedExecutor", id, "managed", Rows!revokeManagedExecutor(db.managed, id))

Expires(id) ==
    /\ id \in IdsOf(db.agentTokens \cup db.executorTokens) /\ expired' = expired \cup {id}
    /\ UNCHANGED <<db, answer, tx>>

PairingNext ==
    \/ \E id \in Ids : Expires(id)
    \/ \E o \in Orgs :
         \/ createAgentPairingToken(o) \/ createExecutorPairingToken(o)
         \/ \E h \in Ids :
              \/ getAgentPairingTokenByHash(o, h) \/ consumeAgentPairingToken(o, h)
              \/ getExecutorPairingTokenByHash(o, h) \/ consumeExecutorPairingToken(o, h)

DevicesNext ==
    \/ \E o \in Orgs :
         \/ createOrganizationAgent(o) \/ createOrganizationExecutor(o)
         \/ listOrganizationAgents(o) \/ listOrganizationExecutors(o)
         \/ \E id \in Ids :
              \/ revokeOrganizationAgent(o, id) \/ revokeOrganizationExecutor(o, id)
              \/ deleteOrganizationExecutor(o, id)
              \/ \E ls \in SUBSET Labels : \/ setOrganizationAgentTags(o, id, ls)
                                           \/ setOrganizationExecutorLabels(o, id, ls)
    \/ \E ls \in SUBSET Labels : createManagedExecutor(ls)
    \/ \E id \in Ids : revokeManagedExecutor(id)

-----------------------------------------------------------------------------
\* What the memory store's model keeps of a toolset.
Shown(t) == IF t.visibility = "public" THEN t ELSE [t EXCEPT !.slug = None]
ShowsToolset(t) == IF t = None THEN None ELSE Shown(t)
Shows(toolsets) == {Shown(t) : t \in toolsets}
CommitsToolset(op, args, statement) ==
    Writes(op, args, "toolsets", statement, ShowsToolset(statement.row))

listAgentToolsetsByOrg(org) ==
    Selects("listAgentToolsetsByOrg", org, Shows(Rows!listAgentToolsetsByOrg(ToolsetsOf(org), org)))

createAgentToolset(org, visibility) ==
    \E id \in Fresh("toolsets") :
        CommitsToolset("createAgentToolset", <<org, visibility>>,
                       Rows!createAgentToolset(db.toolsets, id, org, visibility, None, None))

getAgentToolsetById(org, id) ==
    Selects("getAgentToolsetById", <<org, id>>,
            ShowsToolset(Rows!getAgentToolsetById(ToolsetsOf(org), org, id)))

\* The slug is read, and written back with the edit.
updateReads(c, org, id, visibility) ==
    LET t == Rows!getAgentToolsetById(ToolsetsOf(org), org, id) IN
    /\ t # None
    /\ Begins(c, [op |-> "update", args |-> <<org, id, visibility>>, slug |-> t.slug])

updateAgentToolset(c) ==
    /\ tx[c].op = "update" /\ tx' = [tx EXCEPT ![c] = NoTx] /\ UNCHANGED expired
    /\ LET org == tx[c].args[1]
           id == tx[c].args[2]
           statement == Rows!updateAgentToolset(db.toolsets, InOrg("toolsets", org), org, id,
                                                tx[c].args[3], tx[c].slug) IN
       /\ statement.ok /\ db' = [db EXCEPT !.toolsets = statement.rows]
       /\ Answers("updateAgentToolset", tx[c].args, ShowsToolset(statement.row))

deleteAgentToolset(org, id) ==
    Confirms("deleteAgentToolset", <<org, id>>, "toolsets",
             Rows!deleteAgentToolset(db.toolsets, InOrg("toolsets", org), org, id))

publishAgentToolset(org, id, slug) ==
    CommitsToolset("publishAgentToolset", <<org, id, slug>>,
                   Rows!publishAgentToolset(db.toolsets, InOrg("toolsets", org), org, id, slug))

unpublishAgentToolset(org, id, visibility) ==
    CommitsToolset("unpublishAgentToolset", <<org, id, visibility>>,
                   Rows!unpublishAgentToolset(db.toolsets, InOrg("toolsets", org), org, id, visibility))

listPublicToolsetGallery ==
    Selects("listPublicToolsetGallery", "all", Rows!listPublicAgentToolsets(Public))

getPublicToolsetBySlug(slug) ==
    Selects("getPublicToolsetBySlug", slug, Rows!getPublicAgentToolsetBySlug(Public, slug))

adoptReads(c, org, slug) ==
    LET t == Rows!getPublicAgentToolsetBySlug(ToolsetsOf(org), slug) IN
    t # None /\ Begins(c, [op |-> "adopt", args |-> <<org, slug>>, source |-> <<t.id, slug>>])

adoptPublicToolset(c) ==
    /\ tx[c].op = "adopt" /\ tx' = [tx EXCEPT ![c] = NoTx] /\ UNCHANGED expired
    /\ \E id \in Fresh("toolsets") :
         LET inserted == Rows!createAgentToolset(db.toolsets, id, tx[c].args[1], "org", None, tx[c].source) IN
         /\ db' = [db EXCEPT !.toolsets = inserted.rows]
         /\ Answers("adoptPublicToolset", tx[c].args, inserted.row)

ToolsetsNext ==
    \/ \E o \in Orgs :
         \/ listAgentToolsetsByOrg(o)
         \/ \E v \in {"private", "org"} : createAgentToolset(o, v)
         \/ \E id \in Ids :
              \/ getAgentToolsetById(o, id) \/ deleteAgentToolset(o, id)
              \/ \E v \in {"private", "org"} : \/ unpublishAgentToolset(o, id, v)
                                               \/ \E c \in Clients : updateReads(c, o, id, v)
              \/ \E s \in Slugs : publishAgentToolset(o, id, s)
         \/ \E s \in Slugs, c \in Clients : adoptReads(c, o, s)
    \/ \E c \in Clients : updateAgentToolset(c) \/ adoptPublicToolset(c)
    \/ listPublicToolsetGallery \/ \E s \in Slugs : getPublicToolsetBySlug(s)

-----------------------------------------------------------------------------
createToolsetBuilderSession(org) ==
    \E id \in Fresh("sessions") :
        Commits("createToolsetBuilderSession", org, "sessions",
                Rows!createToolsetBuilderSession(db.sessions, id, org))

appendToolsetBuilderTurn(org, session, role) ==
    \E id \in Fresh("turns") :
        Commits("appendToolsetBuilderTurn", <<org, session, role>>, "turns",
                Rows!appendToolsetBuilderTurn(db.turns, InOrg("sessions", org), id, session, role))

\* The routes ask for a session that they have found.
listToolsetBuilderTurns(org, session) ==
    /\ session \in IdsOf(InOrg("sessions", org))
    /\ Selects("listToolsetBuilderTurns", <<org, session>>,
               Rows!listToolsetBuilderTurnsBySession(TurnsOf(org), session))

getToolsetBuilderSessionById(org, id) ==
    Selects("getToolsetBuilderSessionById", <<org, id>>,
            Rows!getToolsetBuilderSessionById(InOrg("sessions", org), org, id))

updateToolsetBuilderSessionSelection(org, id, components) ==
    Commits("updateToolsetBuilderSessionSelection", <<org, id, components>>, "sessions",
            Rows!updateToolsetBuilderSessionSelection(db.sessions, InOrg("sessions", org), org, id,
                                                      components))

finalizeToolsetBuilderSession(org, id, components) ==
    Commits("finalizeToolsetBuilderSession", <<org, id, components>>, "sessions",
            Rows!finalizeToolsetBuilderSession(db.sessions, InOrg("sessions", org), org, id, components))

BuilderNext ==
    \E o \in Orgs :
        \/ createToolsetBuilderSession(o)
        \/ \E id \in Ids :
             \/ \E r \in {"USER", "ASSISTANT"} : appendToolsetBuilderTurn(o, id, r)
             \/ listToolsetBuilderTurns(o, id) \/ getToolsetBuilderSessionById(o, id)
             \/ \E cs \in SUBSET Components : \/ updateToolsetBuilderSessionSelection(o, id, cs)
                                              \/ finalizeToolsetBuilderSession(o, id, cs)

Next == SecretsNext \/ PairingNext \/ DevicesNext \/ ToolsetsNext \/ BuilderNext

Spec == Init /\ [][Next]_vars

-----------------------------------------------------------------------------
Adopting == [c \in Clients |-> IF tx[c].op = "adopt" THEN tx[c].source ELSE None]

Memory == INSTANCE MemoryExec WITH
    tables <- [db EXCEPT !.toolsets = Shows(@)], expired <- expired, adopting <- Adopting

\* What the database answers about secrets, devices, toolsets and builder
\* sessions, the in-memory store on which the API's tests run answers too.
ImplementsMemoryStore == Memory!Spec
=============================================================================
