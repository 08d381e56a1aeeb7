----------------------------- MODULE MemoryExec -----------------------------
(***************************************************************************)
(* Secrets, agents and executors with their pairing tokens, toolsets and   *)
(* their builder in the in-memory store of the API, as MemoryAccounts.     *)
(* Who wrote a row, its name and its contents are left out where no method *)
(* looks at them.  A pairing token is identified by its hash.              *)
(***************************************************************************)
EXTENDS Integers, FiniteSets, Tables

CONSTANTS Ids, Orgs, Connectors, Names, Values, Slugs, Labels, Components,
          Clients       \* calls that may be under way

VARIABLES
    tables, expired, answer,
    adopting            \* the source that an adoption under way has looked up

vars == <<tables, expired, answer, adopting>>

Tokens == [agent |-> "agentTokens", executor |-> "executorTokens"]
Devices == [agent |-> "agents", executor |-> "executors"]

Init ==
    /\ tables = [secrets |-> {}, agentTokens |-> {}, executorTokens |-> {}, agents |-> {},
                 executors |-> {}, managed |-> {}, toolsets |-> {}, sessions |-> {}, turns |-> {}]
    /\ expired = {} /\ answer = None /\ adopting = [c \in Clients |-> None]

Returns(op, args, result) ==
    /\ answer' # None /\ answer'[1] = op /\ answer'[2] = args /\ answer'[3] = result
TimePasses ==
    \E late \in SUBSET IdsOf(tables.agentTokens \cup tables.executorTokens) : expired' = expired \cup late
Reads(op, args, result) == Returns(op, args, result) /\ UNCHANGED <<tables, adopting>> /\ TimePasses
Writes(op, args, result, table, rows) ==
    /\ Returns(op, args, result) /\ tables' = [tables EXCEPT ![table] = rows] /\ TimePasses
    /\ UNCHANGED adopting
Adds(op, args, table, row) == Writes(op, args, row, table, tables[table] \cup {row})
Changes(op, args, table, hit, New(_)) ==
    Writes(op, args, One({New(r) : r \in hit}), table, Updated(tables[table], hit, New))
\* The row is there or not, whatever it was before.
Marks(op, args, table, hit, New(_)) ==
    Writes(op, args, hit # {}, table, Updated(tables[table], hit, New))
Removes(op, args, table, hit) == Writes(op, args, hit # {}, table, tables[table] \ hit)
Fresh(table) == Ids \ IdsOf(tables[table])
InOrg(table, org) == {r \in tables[table] : r.org = org}
Row(table, org, id) == ById(InOrg(table, org), id)

-----------------------------------------------------------------------------
(* Secrets of connectors.                                                  *)

createConnectorSecret(org, connector, name, value) ==
    /\ \A s \in InOrg("secrets", org) : <<s.connector, s.name>> # <<connector, name>>
    /\ \E id \in Fresh("secrets") :
         Adds("createConnectorSecret", <<org, connector, name, value>>, "secrets",
              [id |-> id, org |-> org, connector |-> connector, name |-> name, value |-> value])

listConnectorSecrets(org, connector) ==
    Reads("listConnectorSecrets", <<org, connector>>,
          {s \in InOrg("secrets", org) : connector = None \/ s.connector = connector})

loadConnectorSecretValue(org, id) ==
    \E s \in Row("secrets", org, id) : Reads("loadConnectorSecretValue", <<org, id>>, s.value)

rotateConnectorSecret(org, id, value) ==
    LET new(s) == [s EXCEPT !.value = value] IN
    Changes("rotateConnectorSecret", <<org, id, value>>, "secrets", Row("secrets", org, id), new)

deleteConnectorSecret(org, id) ==
    Removes("deleteConnectorSecret", <<org, id>>, "secrets", Row("secrets", org, id))

SecretsNext ==
    \E o \in Orgs :
        \/ \E k \in Connectors, n \in Names, v \in Values : createConnectorSecret(o, k, n, v)
        \/ \E k \in Connectors \cup {None} : listConnectorSecrets(o, k)
        \/ \E id \in Ids :
             \/ loadConnectorSecretValue(o, id) \/ deleteConnectorSecret(o, id)
             \/ \E v \in Values : rotateConnectorSecret(o, id, v)

-----------------------------------------------------------------------------
(* Agents and executors pair with a token, once and in time.               *)

\* What the methods of the two kinds share.
CreatesToken(kind, org) ==
    \E id \in Ids \ IdsOf(tables.agentTokens \cup tables.executorTokens) :
        Adds("createPairingToken", <<kind, org>>, Tokens[kind], [id |-> id, org |-> org, used |-> FALSE])
GetsToken(kind, org, hash) ==
    Reads("getPairingTokenByHash", <<kind, org, hash>>, One(Row(Tokens[kind], org, hash)))
ConsumesToken(kind, org, hash) ==
    LET new(t) == [t EXCEPT !.used = TRUE] IN
    Changes("consumePairingToken", <<kind, org, hash>>, Tokens[kind],
            {t \in Row(Tokens[kind], org, hash) : ~t.used /\ t.id \notin expired}, new)
CreatesDevice(kind, org) ==
    \E id \in Fresh(Devices[kind]) :
        Adds("createDevice", <<kind, org>>, Devices[kind],
             [id |-> id, org |-> org, labels |-> {}, revoked |-> FALSE])
ListsDevices(kind, org) == Reads("listDevices", <<kind, org>>, InOrg(Devices[kind], org))
SetsLabels(kind, org, id, labels) ==
    LET new(d) == [d EXCEPT !.labels = labels] IN
    Changes("setLabels", <<kind, org, id, labels>>, Devices[kind], Row(Devices[kind], org, id), new)
Revoked(d) == [d EXCEPT !.revoked = TRUE]
RevokesDevice(kind, org, id) ==
    Marks("revokeDevice", <<kind, org, id>>, Devices[kind], Row(Devices[kind], org, id), Revoked)

createAgentPairingToken(org) == CreatesToken("agent", org)
createExecutorPairingToken(org) == CreatesToken("executor", org)
getAgentPairingTokenByHash(org, hash) == GetsToken("agent", org, hash)
getExecutorPairingTokenByHash(org, hash) == GetsToken("executor", org, hash)
consumeAgentPairingToken(org, hash) == ConsumesToken("agent", org, hash)
consumeExecutorPairingToken(org, hash) == ConsumesToken("executor", org, hash)
createOrganizationAgent(org) == CreatesDevice("agent", org)
createOrganizationExecutor(org) == CreatesDevice("executor", org)
listOrganizationAgents(org) == ListsDevices("agent", org)
listOrganizationExecutors(org) == ListsDevices("executor", org)
setOrganizationAgentTags(org, id, tags) == SetsLabels("agent", org, id, tags)
setOrganizationExecutorLabels(org, id, labels) == SetsLabels("executor", org, id, labels)
revokeOrganizationAgent(org, id) == RevokesDevice("agent", org, id)
revokeOrganizationExecutor(org, id) == RevokesDevice("executor", org, id)

deleteOrganizationExecutor(org, id) ==
    Removes("deleteOrganizationExecutor", <<org, id>>, "executors",
            {d \in Row("executors", org, id) : d.revoked})

createManagedExecutor(labels) ==
    \E id \in Fresh("managed") :
        Adds("createManagedExecutor", labels, "managed", [id |-> id, labels |-> labels, revoked |-> FALSE])

revokeManagedExecutor(id) == Marks("revokeManagedExecutor", id, "managed", ById(tables.managed, id), Revoked)

PairingNext ==
    \E o \in Orgs :
        \/ createAgentPairingToken(o) \/ createExecutorPairingToken(o)
        \/ \E h \in Ids :
             \/ getAgentPairingTokenByHash(o, h) \/ consumeAgentPairingToken(o, h)
             \/ getExecutorPairingTokenByHash(o, h) \/ consumeExecutorPairingToken(o, h)

DevicesNext ==
    \/ \E o \in Orgs :
         \/ createOrganizationAgent(o) \/ createOrganizationExecutor(o)
         \/ listOrganizationAgents(o) \/ listOrganizationExecutors(o)
         \/ \E id \in Ids :
              \/ revokeOrganizationAgent(o, id) \/ revokeOrganizationExecutor(o, id)
              \/ deleteOrganizationExecutor(o, id)
              \/ \E ls \in SUBSET Labels : \/ setOrganizationAgentTags(o, id, ls)
                                           \/ setOrganizationExecutorLabels(o, id, ls)
    \/ \E ls \in SUBSET Labels : createManagedExecutor(ls)
    \/ \E id \in Ids : revokeManagedExecutor(id)

-----------------------------------------------------------------------------
(* Toolsets.  The slug that one keeps when an edit makes it private again  *)
(* is left out: nothing here looks at the slug of a private one.           *)

Public == {t \in tables.toolsets : t.visibility = "public"}

listAgentToolsetsByOrg(org) == Reads("listAgentToolsetsByOrg", org, InOrg("toolsets", org))

createAgentToolset(org, visibility) ==
    \E id \in Fresh("toolsets") :
        Adds("createAgentToolset", <<org, visibility>>, "toolsets",
             [id |-> id, org |-> org, visibility |-> visibility, slug |-> None, from |-> None])

getAgentToolsetById(org, id) == Reads("getAgentToolsetById", <<org, id>>, One(Row("toolsets", org, id)))

updateAgentToolset(org, id, visibility) ==
    LET new(t) == [t EXCEPT !.visibility = visibility, !.slug = None] IN
    Changes("updateAgentToolset", <<org, id, visibility>>, "toolsets", Row("toolsets", org, id), new)

deleteAgentToolset(org, id) ==
    Removes("deleteAgentToolset", <<org, id>>, "toolsets", Row("toolsets", org, id))

publishAgentToolset(org, id, slug) ==
    LET new(t) == [t EXCEPT !.visibility = "public", !.slug = slug] IN
    /\ Row("toolsets", org, id) # {} => \A t \in Public : t.id # id => t.slug # slug
    /\ Changes("publishAgentToolset", <<org, id, slug>>, "toolsets", Row("toolsets", org, id), new)

unpublishAgentToolset(org, id, visibility) ==
    LET new(t) == [t EXCEPT !.visibility = visibility, !.slug = None] IN
    Changes("unpublishAgentToolset", <<org, id, visibility>>, "toolsets", Row("toolsets", org, id), new)

listPublicToolsetGallery == Reads("listPublicToolsetGallery", "all", Public)

getPublicToolsetBySlug(slug) ==
    Reads("getPublicToolsetBySlug", slug, One({t \in Public : t.slug = slug}))

\* adoptPublicToolset awaits the source and then adds a copy.
adoptLooksUp(c, slug) ==
    /\ adopting[c] = None
    /\ \E t \in Public : t.slug = slug /\ adopting' = [adopting EXCEPT ![c] = <<t.id, slug>>]
    /\ UNCHANGED <<tables, answer>> /\ TimePasses

adoptPublicToolset(c, org) ==
    /\ adopting[c] # None /\ adopting' = [adopting EXCEPT ![c] = None]
    /\ \E id \in Fresh("toolsets") :
         LET copy == [id |-> id, org |-> org, visibility |-> "org", slug |-> None, from |-> adopting[c]] IN
         /\ tables' = [tables EXCEPT !.toolsets = @ \cup {copy}]
         /\ Returns("adoptPublicToolset", <<org, adopting[c][2]>>, copy)
    /\ TimePasses

\* It finds nothing, or its insert fails.
adoptGivesUp(c) ==
    /\ adopting[c] # None /\ adopting' = [adopting EXCEPT ![c] = None]
    /\ UNCHANGED <<tables, answer>> /\ TimePasses

ToolsetsNext ==
    \/ \E o \in Orgs :
         \/ listAgentToolsetsByOrg(o)
         \/ \E v \in {"private", "org"} : createAgentToolset(o, v)
         \/ \E id \in Ids :
              \/ getAgentToolsetById(o, id) \/ deleteAgentToolset(o, id)
              \/ \E v \in {"private", "org"} : updateAgentToolset(o, id, v) \/ unpublishAgentToolset(o, id, v)
              \/ \E s \in Slugs : publishAgentToolset(o, id, s)
         \/ \E c \in Clients : adoptPublicToolset(c, o)
    \/ listPublicToolsetGallery
    \/ \E c \in Clients : adoptGivesUp(c) \/ \E s \in Slugs : adoptLooksUp(c, s)
    \/ \E s \in Slugs : getPublicToolsetBySlug(s)

-----------------------------------------------------------------------------
(* A builder session collects turns and components until it is finalized.  *)

createToolsetBuilderSession(org) ==
    \E id \in Fresh("sessions") :
        Adds("createToolsetBuilderSession", org, "sessions",
             [id |-> id, org |-> org, status |-> "ACTIVE", components |-> {}])

appendToolsetBuilderTurn(org, session, role) ==
    /\ Row("sessions", org, session) # {}
    /\ \E id \in Fresh("turns") :
         Adds("appendToolsetBuilderTurn", <<org, session, role>>, "turns",
              [id |-> id, session |-> session, role |-> role])

\* In no order, and as long as there are no more than the limit.
listToolsetBuilderTurns(org, session) ==
    /\ Row("sessions", org, session) # {}
    /\ Reads("listToolsetBuilderTurns", <<org, session>>, {t \in tables.turns : t.session = session})

getToolsetBuilderSessionById(org, id) ==
    Reads("getToolsetBuilderSessionById", <<org, id>>, One(Row("sessions", org, id)))

updateToolsetBuilderSessionSelection(org, id, components) ==
    LET new(s) == [s EXCEPT !.components = components] IN
    Changes("updateToolsetBuilderSessionSelection", <<org, id, components>>, "sessions",
            Row("sessions", org, id), new)

finalizeToolsetBuilderSession(org, id, components) ==
    LET new(s) == [s EXCEPT !.components = components, !.status = "FINALIZED"] IN
    Changes("finalizeToolsetBuilderSession", <<org, id, components>>, "sessions",
            Row("sessions", org, id), new)

BuilderNext ==
    \E o \in Orgs :
        \/ createToolsetBuilderSession(o)
        \/ \E id \in Ids :
             \/ \E r \in {"USER", "ASSISTANT"} : appendToolsetBuilderTurn(o, id, r)
             \/ listToolsetBuilderTurns(o, id) \/ getToolsetBuilderSessionById(o, id)
             \/ \E cs \in SUBSET Components : \/ updateToolsetBuilderSessionSelection(o, id, cs)
                                              \/ finalizeToolsetBuilderSession(o, id, cs)

Expires == TimePasses /\ UNCHANGED <<tables, answer, adopting>>

Next ==
    \/ SecretsNext \/ PairingNext \/ DevicesNext \/ ToolsetsNext \/ BuilderNext \/ Expires

Spec == Init /\ [][Next]_vars
=============================================================================
