--------------------------- MODULE Repositories ---------------------------
(***************************************************************************)
(* The statements of packages/db/src/repositories.ts.  A statement gets    *)
(* the rows of its table and, where row security applies, the rows its     *)
(* transaction sees; it looks only for the columns its own "where" names.  *)
(* It yields the table it leaves, the row it returns, and whether the      *)
(* indexes of packages/db/src/schema.ts allow it.                          *)
(***************************************************************************)
EXTENDS Integers, FiniteSets, Tables

Inserted(rows, row, collides) ==
    [ok |-> collides = {}, rows |-> rows \cup {row}, row |-> row]
Changed(rows, hit, New(_)) ==
    [ok |-> TRUE, rows |-> Updated(rows, hit, New), row |-> One({New(r) : r \in hit})]
Deleted(rows, hit) == [ok |-> TRUE, rows |-> rows \ hit, row |-> One(hit)]
Org(seen, org) == {r \in seen : r.org = org}
Row(seen, org, id) == ById(Org(seen, org), id)
Revoked(r) == [r EXCEPT !.revoked = TRUE]

-----------------------------------------------------------------------------
(* Accounts and organizations.                                             *)

createUser(users, id, email) ==
    Inserted(users, [id |-> id, email |-> email], {u \in users : u.email = email})
getUserByEmail(users, email) == One({u \in users : u.email = email})
getUserById(users, id) == Find(users, id)

createOrganizationWithOwner(organizations, id, slug) ==
    Inserted(organizations, [id |-> id, slug |-> slug, settings |-> None],
             {o \in organizations : o.slug = slug \/ o.id = id})
ownerMembership(memberships, org, owner) ==
    Inserted(memberships, [org |-> org, user |-> owner, role |-> "owner"],
             {m \in memberships : m.org = org /\ m.user = owner})

\* The inner join of both tables.
listOrganizationsForUser(memberships, organizations, user) ==
    {[organization |-> m.org, role |-> m.role] :
        m \in {m \in memberships : m.user = user /\ m.org \in IdsOf(organizations)}}

getOrganizationById(organizations, id) == Find(organizations, id)
updateOrganizationSettings(organizations, seen, id, value) ==
    LET new(o) == [o EXCEPT !.settings = value] IN Changed(organizations, ById(seen, id), new)

getMembership(seen, org, user) == One({m \in seen : m.org = org /\ m.user = user})
createMembership(memberships, org, user, role) ==
    Inserted(memberships, [org |-> org, user |-> user, role |-> role],
             {m \in memberships : m.org = org /\ m.user = user})
updateMembershipRole(memberships, seen, org, user, role) ==
    LET new(m) == [m EXCEPT !.role = role] IN
    Changed(memberships, {m \in seen : m.org = org /\ m.user = user}, new)

\* The index is of the organization, the email and the status.
InviteOrgEmail(invitations, i) ==
    {j \in invitations : j.id # i.id /\ j.org = i.org /\ j.email = i.email /\ j.status = i.status}
createInvitation(invitations, id, org, email, role) ==
    LET row == [id |-> id, org |-> org, email |-> email, role |-> role, status |-> "pending"] IN
    Inserted(invitations, row, InviteOrgEmail(invitations, row))
getInvitationByToken(seen, token) == Find(seen, token)
markInvitationAccepted(invitations, seen, id) ==
    LET new(i) == [i EXCEPT !.status = "accepted"]
        hit == ById(seen, id) IN
    [Changed(invitations, hit, new) EXCEPT
        !.ok = \A i \in hit : InviteOrgEmail(invitations, new(i)) = {}]

createAuthSession(sessions, id, user, hash) ==
    Inserted(sessions, [id |-> id, user |-> user, hash |-> hash, revoked |-> FALSE, used |-> FALSE],
             {s \in sessions : s.hash = hash \/ s.id = id})
getAuthSessionById(seen, id) == Find(seen, id)
touchAuthSession(sessions, seen, id) ==
    LET new(s) == [s EXCEPT !.used = TRUE] IN Changed(sessions, ById(seen, id), new)

\* Mutants: the rotation clears the revocation; a revoked session is revoked again.
rotateAuthSessionRefreshToken_Revives(sessions, seen, id, hash) ==
    LET new(s) == [s EXCEPT !.hash = hash, !.used = TRUE, !.revoked = FALSE] IN
    Changed(sessions, ById(seen, id), new)
revokeAuthSession_Again(sessions, seen, id) ==
    LET new(s) == [s EXCEPT !.revoked = TRUE] IN Changed(sessions, ById(seen, id), new)

rotateAuthSessionRefreshToken(sessions, seen, id, hash) ==
    LET new(s) == [s EXCEPT !.hash = hash, !.used = TRUE] IN
    [Changed(sessions, ById(seen, id), new) EXCEPT
        !.ok = \A s \in sessions : s.hash = hash => s.id = id]
revokeAuthSession(sessions, seen, id) ==
    LET new(s) == [s EXCEPT !.revoked = TRUE] IN
    Changed(sessions, {s \in ById(seen, id) : ~s.revoked}, new)
revokeAllUserAuthSessions(sessions, seen, user) ==
    LET new(s) == [s EXCEPT !.revoked = TRUE]
        hit == {s \in seen : s.user = user /\ ~s.revoked} IN
    [Changed(sessions, hit, new) EXCEPT !.row = Cardinality(hit)]

listPlatformUserRoles(roles, keys, users) == {r \in roles : r.key \in keys /\ r.user \in users}
insertPlatformUserRole(roles, user, key, by) ==
    Inserted(roles, [user |-> user, key |-> key, by |-> by],
             {r \in roles : r.user = user /\ r.key = key})
readPlatformUserRole(roles, user, key) == One({r \in roles : r.user = user /\ r.key = key})
deletePlatformUserRole(roles, user, key) ==
    LET hit == {r \in roles : r.user = user /\ r.key = key} IN
    [ok |-> TRUE, rows |-> roles \ hit, row |-> hit # {}]

\* On conflict with the key, the row is updated in place.
Upserted(rows, hit, row) == [ok |-> TRUE, rows |-> Replaced(rows, hit, row), row |-> row]

upsertPlatformSetting(settings, key, value, by) ==
    Upserted(settings, {s \in settings : s.key = key}, [key |-> key, value |-> value, by |-> by])
getPlatformSetting(settings, key) == One({s \in settings : s.key = key})
listPlatformSettings(settings) == settings

getOrganizationSubscription(seen, org) == One({s \in seen : s.org = org})
upsertOrganizationSubscription(subscriptions, org, value, by) ==
    Upserted(subscriptions, {s \in subscriptions : s.org = org},
             [org |-> org, value |-> value, by |-> by])

getOrganizationRunUsageMonthly(seen, org, month) == One({r \in seen : r.org = org /\ r.month = month})
\* run_count is raised inside the statement; a first row starts with the amount.
incrementOrganizationRunUsageMonthly(usage, org, month, amount) ==
    LET hit == {r \in usage : r.org = org /\ r.month = month}
        raised == IF amount < 0 THEN 0 ELSE amount IN
    Upserted(usage, hit, [org |-> org, month |-> month,
                          count |-> IF hit = {} THEN raised ELSE One(hit).count + raised])

createSupportTicket(tickets, id, requester, org) ==
    Inserted(tickets, [id |-> id, requester |-> requester, org |-> org, status |-> "open",
                       assignee |-> None], {})
listSupportTickets(tickets, statuses, orgs, requesters) ==
    {t \in tickets : t.status \in statuses /\ t.org \in orgs /\ t.requester \in requesters}
getSupportTicketById(tickets, id) == Find(tickets, id)
patchSupportTicket(tickets, id, status, assignee) ==
    LET new(t) == [t EXCEPT !.status = status, !.assignee = assignee] IN
    Changed(tickets, ById(tickets, id), new)
\* An event references its ticket.
appendSupportTicketEvent(events, tickets, id, ticket, type) ==
    [Inserted(events, [id |-> id, ticket |-> ticket, type |-> type], {}) EXCEPT
        !.ok = ticket \in IdsOf(tickets)]
listSupportTicketEvents(events, ticket) == {e \in events : e.ticket = ticket}
appendPlatformAuditLog(audit, id, actor, action) ==
    Inserted(audit, [id |-> id, actor |-> actor, action |-> action], {})
listPlatformAuditLogs(audit, actions) == {l \in audit : l.action \in actions}

-----------------------------------------------------------------------------
(* Workflows, runs and shares.                                             *)

Of(seen, org, workflow) == {r \in Org(seen, org) : r.workflow = workflow}
RunOf(seen, org, workflow, id) == ById(Of(seen, org, workflow), id)

createWorkflow(workflows, id, org, trigger) ==
    Inserted(workflows, [id |-> id, org |-> org, family |-> id, revision |-> 1, status |-> "draft",
                         trigger |-> trigger], {})
getWorkflowById(seen, org, id) == Find(Org(seen, org), id)
listWorkflows(seen, org) == Org(seen, org)
listWorkflowRevisions(seen, org, family) == {w \in Org(seen, org) : w.family = family}
\* max(revision) of the family.
maxRevision(seen, org, family) ==
    LET revisions == {w.revision : w \in listWorkflowRevisions(seen, org, family)} IN
    CHOOSE r \in revisions : \A q \in revisions : q <= r
createWorkflowDraftFromWorkflow(workflows, id, source, revision) ==
    Inserted(workflows, [source EXCEPT !.id = id, !.revision = revision, !.status = "draft"],
             {w \in listWorkflowRevisions(workflows, source.org, source.family) : w.revision = revision})
updateWorkflowDraft(seen, org, id) == One({w \in ById(Org(seen, org), id) : w.status = "draft"})
publishWorkflow(workflows, seen, org, id) ==
    LET new(w) == [w EXCEPT !.status = "published"] IN
    Changed(workflows, ById(Org(seen, org), id), new)

\* The delete statement of replaceWorkflowTriggerSubscriptions, and its insert.
deleteTriggers(seen, org, workflow) == IdsOf(Of(seen, org, workflow))
replaceWorkflowTriggerSubscriptions(triggers, gone, id, org, workflow, specs) ==
    LET kept == {t \in triggers : t.id \notin gone}
        new == {[id |-> id, org |-> org, workflow |-> workflow, type |-> t.type, hash |-> t.hash,
                 enabled |-> TRUE] : t \in specs} IN
    [ok |-> \A t \in kept, n \in new :
                /\ <<t.org, t.workflow, t.type>> # <<n.org, n.workflow, n.type>>
                /\ t.hash = None \/ t.hash # n.hash,
     rows |-> kept \cup new, row |-> new]
listWorkflowTriggerSubscriptions(seen, org, ids) == {t \in Org(seen, org) : t.workflow \in ids}
getWorkflowTriggerSubscriptionByWebhookTokenHash(seen, hash) ==
    One({t \in seen : t.type = "webhook" /\ t.hash = hash})
updateWorkflowTriggerSubscriptionEnabled(triggers, seen, org, id, enabled) ==
    LET new(t) == [t EXCEPT !.enabled = enabled] IN Changed(triggers, ById(Org(seen, org), id), new)

createWorkflowRun(runs, id, org, workflow, user, key) ==
    Inserted(runs, [id |-> id, org |-> org, workflow |-> workflow, user |-> user, key |-> key,
                    status |-> "queued", attempt |-> 0, blocked |-> None],
             {r \in Of(runs, org, workflow) : key # None /\ r.key = key})
listWorkflowRuns(seen, org, workflow) == Of(seen, org, workflow)
getWorkflowRunById(seen, org, workflow, id) == One(RunOf(seen, org, workflow, id))
getWorkflowRunByBlockedRequestId(seen, org, request) ==
    One({r \in Org(seen, org) : r.blocked = request /\ r.status = "running"})
countWorkflowRunsByStatuses(seen, org, statuses) ==
    Cardinality({r \in Org(seen, org) : r.status \in statuses})
clearWorkflowRunBlock(runs, seen, org, workflow, id, request) ==
    LET new(r) == [r EXCEPT !.blocked = None] IN
    Changed(runs, {r \in RunOf(seen, org, workflow, id) : r.blocked = request}, new)
markWorkflowRunFailed(runs, seen, org, workflow, id) ==
    LET new(r) == [r EXCEPT !.status = "failed"] IN Changed(runs, RunOf(seen, org, workflow, id), new)
deleteQueuedWorkflowRun(runs, seen, org, workflow, id) ==
    LET hit == {r \in RunOf(seen, org, workflow, id) : r.status = "queued" /\ r.attempt = 0} IN
    [ok |-> TRUE, rows |-> runs \ hit, row |-> hit # {}]
markWorkflowRunBlocked(runs, r, request) ==
    Replaced(runs, {r}, [r EXCEPT !.status = "running", !.attempt = @ + 1, !.blocked = request])

\* An event references its run.
appendWorkflowRunEvent(events, runs, id, org, workflow, run) ==
    [Inserted(events, [id |-> id, org |-> org, workflow |-> workflow, run |-> run], {}) EXCEPT
        !.ok = run \in IdsOf(runs)]
listWorkflowRunEvents(seen, org, workflow, run) == {e \in Of(seen, org, workflow) : e.run = run}

createWorkflowApprovalRequest(approvals, id, r) ==
    approvals \cup {[id |-> id, org |-> r.org, workflow |-> r.workflow, run |-> r.id,
                     status |-> "pending"]}
listWorkflowApprovalRequests(seen, org, statuses) == {a \in Org(seen, org) : a.status \in statuses}
getWorkflowApprovalRequestById(seen, org, id) == Find(Org(seen, org), id)

\* Mutant: an approval is decided twice.
decideWorkflowApprovalRequest_Again(approvals, seen, org, id, status) ==
    LET new(a) == [a EXCEPT !.status = status] IN Changed(approvals, ById(Org(seen, org), id), new)

decideWorkflowApprovalRequest(approvals, seen, org, id, status) ==
    LET new(a) == [a EXCEPT !.status = status] IN
    Changed(approvals, {a \in ById(Org(seen, org), id) : a.status = "pending"}, new)

createWorkflowShareInvitation(invitations, id, org, workflow, email) ==
    Inserted(invitations, [id |-> id, org |-> org, workflow |-> workflow, email |-> email,
                           status |-> "pending"],
             {i \in invitations : i.workflow = workflow /\ i.email = email /\ i.status = "pending"})
getWorkflowShareInvitationByToken(seen, org, token) == Find(Org(seen, org), token)
listWorkflowShareInvitations(seen, org, workflow, statuses) ==
    {i \in Of(seen, org, workflow) : i.status \in statuses}
markWorkflowShareInvitationAccepted(invitations, seen, org, id) ==
    LET new(i) == [i EXCEPT !.status = "accepted"] IN
    Changed(invitations, {i \in ById(Org(seen, org), id) : i.status = "pending"}, new)

revokeActiveWorkflowSharesForUser(shares, seen, org, workflow, user) ==
    Changed(shares, {s \in Of(seen, org, workflow) : s.user = user /\ ~s.revoked}, Revoked)
createWorkflowShare(shares, id, org, workflow, user) ==
    Inserted(shares, [id |-> id, org |-> org, workflow |-> workflow, user |-> user, revoked |-> FALSE],
             {s \in shares : s.workflow = workflow /\ s.user = user /\ ~s.revoked})
listWorkflowSharesByWorkflow(seen, org, workflow, all) ==
    {s \in Of(seen, org, workflow) : all \/ ~s.revoked}
revokeWorkflowShare(shares, seen, org, workflow, id) ==
    Changed(shares, {s \in ById(Of(seen, org, workflow), id) : ~s.revoked}, Revoked)

getActiveWorkflowShareByIdForUser(seen, id, user) ==
    {s \in ById(seen, id) : s.user = user /\ ~s.revoked}
\* The queries below join their tables with the share.
getSharedWorkflowByShareForUser(seen, workflows, id, user) ==
    One({<<s.id, w>> : <<s, w>> \in
        {<<s, w>> \in getActiveWorkflowShareByIdForUser(seen, id, user) \X workflows :
            w.org = s.org /\ w.id = s.workflow}})
listWorkflowRunsForShareUser(seen, runs, id, user) ==
    {r \in runs : r.user = user /\ \E s \in getActiveWorkflowShareByIdForUser(seen, id, user) :
                                      r.workflow = s.workflow /\ r.org = s.org}
getWorkflowRunByIdForShareUser(seen, runs, id, run, user) ==
    Find(listWorkflowRunsForShareUser(seen, runs, id, user), run)
listWorkflowRunEventsForShareUser(seen, runs, events, id, run, user) ==
    {e \in events : \E r \in ById(listWorkflowRunsForShareUser(seen, runs, id, user), run) :
                        e.run = r.id /\ e.workflow = r.workflow /\ e.org = r.org}

-----------------------------------------------------------------------------
(* Secrets, pairing tokens, agents, executors, toolsets and builder sessions. *)

createConnectorSecret(secrets, id, org, connector, name, value) ==
    Inserted(secrets, [id |-> id, org |-> org, connector |-> connector, name |-> name, value |-> value],
             {s \in Org(secrets, org) : s.connector = connector /\ s.name = name})
listConnectorSecrets(seen, org, connector) ==
    {s \in Org(seen, org) : connector = None \/ s.connector = connector}
getConnectorSecretById(seen, org, id) == One(Row(seen, org, id))
updateConnectorSecretValue(secrets, seen, org, id, value) ==
    LET new(s) == [s EXCEPT !.value = value] IN Changed(secrets, Row(seen, org, id), new)
deleteConnectorSecret(secrets, seen, org, id) == Deleted(secrets, Row(seen, org, id))

\* Two tables of the same shape for agents and for executors.
createToken(tokens, hash, org) ==
    Inserted(tokens, [id |-> hash, org |-> org, used |-> FALSE], ById(tokens, hash))
getToken(seen, org, hash) == One(Row(seen, org, hash))

\* Mutant: a pairing token pairs again.
consumeToken_Again(tokens, seen, org, hash, expired) ==
    LET new(t) == [t EXCEPT !.used = TRUE] IN
    Changed(tokens, {t \in Row(seen, org, hash) : t.id \notin expired}, new)

consumeToken(tokens, seen, org, hash, expired) ==
    LET new(t) == [t EXCEPT !.used = TRUE] IN
    Changed(tokens, {t \in Row(seen, org, hash) : ~t.used /\ t.id \notin expired}, new)

createDevice(devices, id, org) ==
    Inserted(devices, [id |-> id, org |-> org, labels |-> {}, revoked |-> FALSE], {})
listDevices(seen, org) == Org(seen, org)
setLabels(devices, seen, org, id, labels) ==
    LET new(d) == [d EXCEPT !.labels = labels] IN Changed(devices, Row(seen, org, id), new)
revokeDevice(devices, seen, org, id) == Changed(devices, Row(seen, org, id), Revoked)

createAgentPairingToken(tokens, hash, org) == createToken(tokens, hash, org)
createExecutorPairingToken(tokens, hash, org) == createToken(tokens, hash, org)
getAgentPairingTokenByHash(seen, org, hash) == getToken(seen, org, hash)
getExecutorPairingTokenByHash(seen, org, hash) == getToken(seen, org, hash)
consumeAgentPairingToken(tokens, seen, org, hash, expired) == consumeToken(tokens, seen, org, hash, expired)
consumeExecutorPairingToken(tokens, seen, org, hash, expired) ==
    consumeToken(tokens, seen, org, hash, expired)
createOrganizationAgent(agents, id, org) == createDevice(agents, id, org)
createOrganizationExecutor(executors, id, org) == createDevice(executors, id, org)
listOrganizationAgents(seen, org) == listDevices(seen, org)
listOrganizationExecutors(seen, org) == listDevices(seen, org)
setOrganizationAgentTags(agents, seen, org, id, tags) == setLabels(agents, seen, org, id, tags)
setOrganizationExecutorLabels(executors, seen, org, id, labels) ==
    setLabels(executors, seen, org, id, labels)
revokeOrganizationAgent(agents, seen, org, id) == revokeDevice(agents, seen, org, id)
revokeOrganizationExecutor(executors, seen, org, id) == revokeDevice(executors, seen, org, id)
deleteOrganizationExecutor(executors, seen, org, id) ==
    Deleted(executors, {d \in Row(seen, org, id) : d.revoked})

createManagedExecutor(managed, id, labels) ==
    Inserted(managed, [id |-> id, labels |-> labels, revoked |-> FALSE], {})
revokeManagedExecutor(managed, id) == Changed(managed, ById(managed, id), Revoked)

\* The slugs of public toolsets are unique.
Slugged(rows, row) ==
    [ok |-> row.visibility = "public" =>
                \A t \in rows : t.id # row.id /\ t.visibility = "public" => t.slug # row.slug,
     rows |-> Replaced(rows, ById(rows, row.id), row), row |-> row]
NoRow(rows) == [ok |-> TRUE, rows |-> rows, row |-> None]
UpdatedToolset(toolsets, hit, New(_)) ==
    IF hit = {} THEN NoRow(toolsets) ELSE Slugged(toolsets, New(One(hit)))

createAgentToolset(toolsets, id, org, visibility, slug, from) ==
    Slugged(toolsets, [id |-> id, org |-> org, visibility |-> visibility, slug |-> slug, from |-> from])
listAgentToolsetsByOrg(seen, org) == Org(seen, org)
getAgentToolsetById(seen, org, id) == One(Row(seen, org, id))

\* Mutant: an edit leaves a published toolset public.
updateAgentToolset_Public(toolsets, seen, org, id, visibility, slug) ==
    LET new(t) == [t EXCEPT !.visibility = IF slug = None THEN visibility ELSE "public", !.slug = slug] IN
    UpdatedToolset(toolsets, Row(seen, org, id), new)

updateAgentToolset(toolsets, seen, org, id, visibility, slug) ==
    LET new(t) == [t EXCEPT !.visibility = visibility, !.slug = slug] IN
    UpdatedToolset(toolsets, Row(seen, org, id), new)
deleteAgentToolset(toolsets, seen, org, id) == Deleted(toolsets, Row(seen, org, id))
publishAgentToolset(toolsets, seen, org, id, slug) ==
    LET new(t) == [t EXCEPT !.visibility = "public", !.slug = slug] IN
    UpdatedToolset(toolsets, Row(seen, org, id), new)
unpublishAgentToolset(toolsets, seen, org, id, visibility) ==
    LET new(t) == [t EXCEPT !.visibility = visibility, !.slug = None] IN
    UpdatedToolset(toolsets, Row(seen, org, id), new)
listPublicAgentToolsets(seen) == {t \in seen : t.visibility = "public"}
getPublicAgentToolsetBySlug(seen, slug) == One({t \in listPublicAgentToolsets(seen) : t.slug = slug})

createToolsetBuilderSession(sessions, id, org) ==
    Inserted(sessions, [id |-> id, org |-> org, status |-> "ACTIVE", components |-> {}], {})
getToolsetBuilderSessionById(seen, org, id) == One(Row(seen, org, id))
updateToolsetBuilderSessionSelection(sessions, seen, org, id, components) ==
    LET new(s) == [s EXCEPT !.components = components] IN Changed(sessions, Row(seen, org, id), new)
finalizeToolsetBuilderSession(sessions, seen, org, id, components) ==
    LET new(s) == [s EXCEPT !.components = components, !.status = "FINALIZED"] IN
    Changed(sessions, Row(seen, org, id), new)
\* The policy asks for a session of the organization.
appendToolsetBuilderTurn(turns, sessions, id, session, role) ==
    [ok |-> session \in IdsOf(sessions), rows |-> turns \cup {[id |-> id, session |-> session, role |-> role]},
     row |-> [id |-> id, session |-> session, role |-> role]]
listToolsetBuilderTurnsBySession(seen, session) == {t \in seen : t.session = session}

-----------------------------------------------------------------------------
(* Agent sessions, their events, bindings, memory documents and channels.  *)

OfAccount(seen, org, account) == {r \in Org(seen, org) : r.account = account}
Given(value, old) == IF value = None THEN old ELSE value

\* The row of a key that is taken is returned instead, on conflict do nothing.
createAgentSession(sessions, seen, id, org, key) ==
    LET row == [id |-> id, org |-> org, key |-> key, status |-> "active", pin |-> None]
        taken == {s \in Org(sessions, org) : s.key = key}
    IN [ok |-> TRUE, rows |-> IF taken = {} THEN sessions \cup {row} ELSE sessions,
        row |-> IF taken = {} THEN row ELSE One({s \in Org(seen, org) : s.key = key})]
getAgentSessionById(seen, org, id) == One(Row(seen, org, id))
listAgentSessions(seen, org, status) == {s \in Org(seen, org) : status = "all" \/ s.status = status}
archiveAgentSession(sessions, seen, org, id) ==
    LET new(s) == [s EXCEPT !.status = "archived"] IN Changed(sessions, Row(seen, org, id), new)
restoreAgentSession(sessions, seen, org, id) ==
    LET new(s) == [s EXCEPT !.status = "active"] IN Changed(sessions, Row(seen, org, id), new)
setAgentSessionPinnedAgent(sessions, seen, org, id, pin) ==
    LET new(s) == [s EXCEPT !.pin = pin] IN Changed(sessions, Row(seen, org, id), new)

EventsOf(seen, org, session) == {e \in Org(seen, org) : e.session = session}
repeatedEvent(seen, org, session, try) ==
    One({e \in EventsOf(seen, org, session) : try # None /\ e.try = try})

\* The last event's number, and one more.
nextSeq(seen, org, session) ==
    LET last == {e \in EventsOf(seen, org, session) :
                    \A f \in EventsOf(seen, org, session) : f.seq <= e.seq}
    IN IF last = {} THEN 0 ELSE One(last).seq + 1

\* Mutant: numbers begin with one.
appendAgentSessionEvent_FromOne(events, seen, org, session, try) ==
    Inserted(events, [org |-> org, session |-> session, seq |-> nextSeq(seen, org, session) + 1, try |-> try], {})

appendAgentSessionEvent(events, seen, org, session, try) ==
    LET seq == nextSeq(seen, org, session) IN
    Inserted(events, [org |-> org, session |-> session, seq |-> seq, try |-> try],
             {e \in events : \/ e.session = session /\ e.seq = seq
                             \/ try # None /\ <<e.org, e.session, e.try>> = <<org, session, try>>})
listAgentSessionEvents(seen, org, session, cursor, limit) ==
    LET after == {e \in EventsOf(seen, org, session) : e.seq > cursor}
        Before(e) == {f \in after : f.seq < e.seq}
    IN {e \in after : Cardinality(Before(e)) < limit}

createAgentBinding(bindings, id, org, agent, priority) ==
    Inserted(bindings, [id |-> id, org |-> org, agent |-> agent, priority |-> priority], {})
listAgentBindings(seen, org) == Org(seen, org)
patchAgentBinding(bindings, seen, org, id, agent, priority) ==
    LET new(b) == [b EXCEPT !.agent = Given(agent, @), !.priority = Given(priority, @)] IN
    Changed(bindings, Row(seen, org, id), new)
deleteAgentBinding(bindings, seen, org, id) == Deleted(bindings, Row(seen, org, id))

\* The session of a job is a session.
createAgentMemorySyncJob(jobs, sessions, id, org, session) ==
    [ok |-> ById(sessions, session) # {}, rows |-> jobs \cup {[id |-> id, org |-> org, session |-> session]},
     row |-> [id |-> id, org |-> org, session |-> session]]
createAgentMemoryDocument(documents, id, org, path) ==
    Inserted(documents, [id |-> id, org |-> org, path |-> path], {})
replaceAgentMemoryChunks(chunks, seen, org, document, indices) ==
    LET old == {c \in Org(seen, org) : c.document = document} IN
    [ok |-> TRUE, row |-> None,
     rows |-> (chunks \ old) \cup {[org |-> org, document |-> document, index |-> i] : i \in indices}]
listAgentMemoryDocuments(seen, org, path) == {d \in Org(seen, org) : path = None \/ d.path = path}
getAgentMemoryDocumentById(seen, org, id) == One(Row(seen, org, id))
listAgentMemoryChunksByDocument(seen, org, document) == {c \in Org(seen, org) : c.document = document}

createChannelAccount(accounts, id, org, channel, key) ==
    Inserted(accounts, [id |-> id, org |-> org, channel |-> channel, key |-> key, enabled |-> TRUE,
                        status |-> "stopped"],
             {a \in Org(accounts, org) : a.channel = channel /\ a.key = key})
listChannelAccountsByOrg(seen, org, channel) ==
    {a \in Org(seen, org) : channel = None \/ a.channel = channel}
getChannelAccountById(seen, org, id) == One(Row(seen, org, id))
updateChannelAccount(accounts, seen, org, id, enabled, status) ==
    LET new(a) == [a EXCEPT !.enabled = Given(enabled, @), !.status = Given(status, @)] IN
    Changed(accounts, Row(seen, org, id), new)
deleteChannelAccount(accounts, seen, org, id) == Deleted(accounts, Row(seen, org, id))

createChannelAccountSecret(secrets, accounts, id, org, account, name) ==
    LET row == [id |-> id, org |-> org, account |-> account, name |-> name] IN
    [ok |-> ById(accounts, account) # {} /\ \A s \in secrets : <<s.account, s.name>> # <<account, name>>,
     rows |-> secrets \cup {row}, row |-> row]
listChannelAccountSecrets(seen, org, account) == OfAccount(seen, org, account)

listChannelAllowlistEntries(seen, org, account, scope) ==
    {e \in OfAccount(seen, org, account) : scope = None \/ e.scope = scope}
\* The read after a collision fails with the transaction that it is in.
putChannelAllowlistEntry(entries, accounts, id, org, account, scope, subject) ==
    LET row == [id |-> id, org |-> org, account |-> account, scope |-> scope, subject |-> subject] IN
    [ok |-> /\ ById(accounts, account) # {}
            /\ \A e \in entries : <<e.account, e.scope, e.subject>> # <<account, scope, subject>>,
     rows |-> entries \cup {row}, row |-> row]
deleteChannelAllowlistEntry(entries, seen, org, account, scope, subject) ==
    Deleted(entries, {e \in OfAccount(seen, org, account) : e.scope = scope /\ e.subject = subject})

createChannelPairingRequest(requests, id, org, account) ==
    Inserted(requests, [id |-> id, org |-> org, account |-> account, status |-> "pending"], {})
listChannelPairingRequests(seen, org, account, status) ==
    {r \in Org(seen, org) : /\ account = None \/ r.account = account
                            /\ status = None \/ r.status = status}
updateChannelPairingRequestStatus(requests, seen, org, id, status) ==
    LET new(r) == [r EXCEPT !.status = status] IN Changed(requests, Row(seen, org, id), new)
appendChannelEvent(events, id, org, account) ==
    Inserted(events, [id |-> id, org |-> org, account |-> account], {})
listChannelEvents(seen, org, account) == OfAccount(seen, org, account)
=============================================================================
