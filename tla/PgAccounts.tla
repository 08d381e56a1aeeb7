----------------------------- MODULE PgAccounts -----------------------------
(***************************************************************************)
(* Accounts and organizations in the store over PostgreSQL                 *)
(* (apps/api/src/store/pg-store.ts).  A method runs the statements of      *)
(* Repositories in one transaction, under the organization or the user it  *)
(* sets first; the policies of the migrations decide which rows it sees.   *)
(* Transactions are read committed: between two statements of one, others  *)
(* commit.  A transaction that an index or a check stops is rolled back,   *)
(* its caller gets the error, and nothing changes.                         *)
(*                                                                         *)
(* ImplementsMemoryStore says that every call this store answers, however  *)
(* its transactions interleave, is one the in-memory store could have      *)
(* answered the same, one call at a time.                                  *)
(***************************************************************************)
EXTENDS Integers, FiniteSets, Tables

CONSTANTS Ids, Emails, Slugs, Hashes, Values, Keys, Months, Statuses, Roles, Granted, Amounts,
          MaxCount,
          Clients       \* requests whose transactions have more than one statement

VARIABLES
    db,             \* the tables
    expired,        \* ids of invitations whose expiresAt has passed
    answer,         \* the last call answered
    tx              \* transactions between two of their statements

vars == <<db, expired, answer, tx>>

Rows == INSTANCE Repositories

NoTx == [op |-> "none"]

Init ==
    /\ db = [users |-> {}, organizations |-> {}, memberships |-> {}, invitations |-> {},
             sessions |-> {}, platformUserRoles |-> {}, platformSettings |-> {},
             subscriptions |-> {}, usage |-> {}, tickets |-> {}, events |-> {}, audit |-> {}]
    /\ expired = {} /\ answer = None /\ tx = [c \in Clients |-> NoTx]

Answers(op, args, result) == answer' = <<op, args, result>>
Selects(op, args, result) == Answers(op, args, result) /\ UNCHANGED <<db, expired, tx>>
Commits(op, args, table, statement) ==
    /\ statement.ok /\ Answers(op, args, statement.row)
    /\ db' = [db EXCEPT ![table] = statement.rows] /\ UNCHANGED <<expired, tx>>
Fresh(table) == Ids \ IdsOf(db[table])
UserIds == IdsOf(db.users)
OrgIds == IdsOf(db.organizations)

\* The policies: rows of the transaction's organization, rows of its user.
InOrg(table, org) == {r \in db[table] : r.org = org}
OfUser(table, user) == {r \in db[table] : r.user = user}
\* Mutant: the table has no policy.
OfUser_All(table, user) == db[table]

\* An organization is seen from within, and by its members.
SeenOrgs(org, user) == {o \in db.organizations : o.id = org \/ \E m \in OfUser("memberships", user) : m.org = o.id}

-----------------------------------------------------------------------------
(* Users, organizations, memberships and invitations.                      *)

createUser(email) ==
    \E id \in Fresh("users") : Commits("createUser", email, "users", Rows!createUser(db.users, id, email))
getUserByEmail(email) == Selects("getUserByEmail", email, Rows!getUserByEmail(db.users, email))
getUserById(id) == Selects("getUserById", id, Rows!getUserById(db.users, id))

listOrganizationsForUser(user) ==
    Selects("listOrganizationsForUser", user,
            Rows!listOrganizationsForUser(OfUser("memberships", user), SeenOrgs(None, user), user))

createOrganizationWithOwner(slug, owner) ==
    \E id \in Fresh("organizations") :
        LET organization == Rows!createOrganizationWithOwner(db.organizations, id, slug)
            membership == Rows!ownerMembership(db.memberships, id, owner) IN
        /\ organization.ok /\ membership.ok
        /\ Answers("createOrganizationWithOwner", <<slug, owner>>, id)
        /\ db' = [db EXCEPT !.organizations = organization.rows, !.memberships = membership.rows]
        /\ UNCHANGED <<expired, tx>>

getOrganizationSettings(org) ==
    LET row == Rows!getOrganizationById(SeenOrgs(org, None), org) IN
    row # None /\ Selects("getOrganizationSettings", org, row.settings)

updateOrganizationSettings(org, value) ==
    LET statement == Rows!updateOrganizationSettings(db.organizations, SeenOrgs(org, None), org, value) IN
    /\ statement.row # None
    /\ Commits("updateOrganizationSettings", <<org, value>>, "organizations",
               [statement EXCEPT !.row = value])

getMembership(org, user) ==
    Selects("getMembership", <<org, user>>,
            Rows!getMembership(InOrg("memberships", org) \cup OfUser("memberships", user), org, user))

createInvitation(org, email, role) ==
    \E id \in Fresh("invitations") :
        Commits("createInvitation", <<org, email, role>>, "invitations",
                Rows!createInvitation(db.invitations, id, org, email, role))

\* Only the policy ties the token to the organization.
getInvitationByToken(org, token) ==
    Selects("getInvitationByToken", <<org, token>>,
            Rows!getInvitationByToken(InOrg("invitations", org), token))

\* The transaction has read the invitation and the membership, and compared
\* the email, the time and the status.
acceptInvitationReads(c, org, token, user, email) ==
    LET i == Rows!getInvitationByToken(InOrg("invitations", org), token) IN
    /\ tx[c] = NoTx /\ i # None
    /\ i.email = email /\ i.id \notin expired /\ i.status \in {"pending", "accepted"}
    /\ tx' = [tx EXCEPT ![c] = [op |-> "acceptInvitation", args |-> <<org, token, user, email>>,
                                invitation |-> i,
                                membership |-> Rows!getMembership(InOrg("memberships", org), org, user)]]
    /\ UNCHANGED <<db, expired, answer>>

acceptInvitation(c) ==
    /\ tx[c].op = "acceptInvitation" /\ tx' = [tx EXCEPT ![c] = NoTx]
    /\ LET i == tx[c].invitation
           user == tx[c].args[3]
           inserted == IF tx[c].membership # None
                       THEN [ok |-> TRUE, rows |-> db.memberships, row |-> tx[c].membership]
                       ELSE Rows!createMembership(db.memberships, i.org, user, i.role)
           marked == IF i.status = "pending"
                     THEN Rows!markInvitationAccepted(db.invitations, InOrg("invitations", i.org), i.id)
                     ELSE [ok |-> TRUE, rows |-> db.invitations, row |-> i] IN
       IF inserted.ok /\ marked.ok /\ marked.row # None
       THEN /\ db' = [db EXCEPT !.memberships = inserted.rows, !.invitations = marked.rows]
            /\ Answers("acceptInvitation", tx[c].args, <<i.org, user>>)
       ELSE UNCHANGED <<db, answer>>
    /\ UNCHANGED expired

updateMembershipRole(org, user, role) ==
    Commits("updateMembershipRole", <<org, user, role>>, "memberships",
            Rows!updateMembershipRole(db.memberships, InOrg("memberships", org), org, user, role))

Expires(id) ==
    /\ id \in IdsOf(db.invitations) /\ expired' = expired \cup {id} /\ UNCHANGED <<db, answer, tx>>

MembersNext ==
    \/ \E e \in Emails : createUser(e) \/ getUserByEmail(e)
    \/ \E id \in Ids : getUserById(id) \/ Expires(id)
    \/ \E u \in UserIds : \/ listOrganizationsForUser(u)
                          \/ \E s \in Slugs : createOrganizationWithOwner(s, u)
    \/ \E o \in OrgIds, u \in UserIds :
         \/ getMembership(o, u)
         \/ \E r \in Roles : updateMembershipRole(o, u, r)
    \/ \E o \in OrgIds, e \in Emails, r \in Granted : createInvitation(o, e, r)
    \/ \E o \in OrgIds, i \in Ids :
         \/ getInvitationByToken(o, i)
         \/ \E u \in db.users, c \in Clients : acceptInvitationReads(c, o, i, u.id, u.email)
    \/ \E c \in Clients : acceptInvitation(c)

-----------------------------------------------------------------------------
(* Sessions: the transaction sees those of its user.                       *)

createSession(user, hash) ==
    \E id \in Fresh("sessions") :
        Commits("createSession", <<user, hash>>, "sessions",
                Rows!createAuthSession(db.sessions, id, user, hash))

getSessionById(user, id) ==
    Selects("getSessionById", <<user, id>>, Rows!getAuthSessionById(OfUser("sessions", user), id))

rotateSessionRefreshToken(user, id, hash) ==
    Commits("rotateSessionRefreshToken", <<user, id, hash>>, "sessions",
            Rows!rotateAuthSessionRefreshToken(db.sessions, OfUser("sessions", user), id, hash))

revokeSession(user, id) ==
    LET statement == Rows!revokeAuthSession(db.sessions, OfUser("sessions", user), id) IN
    Commits("revokeSession", <<user, id>>, "sessions",
            [statement EXCEPT !.row = statement.row # None])

revokeAllSessionsForUser(user) ==
    Commits("revokeAllSessionsForUser", user, "sessions",
            Rows!revokeAllUserAuthSessions(db.sessions, OfUser("sessions", user), user))

touchSession(user, id) ==
    Commits("touchSession", <<user, id>>, "sessions",
            [Rows!touchAuthSession(db.sessions, OfUser("sessions", user), id) EXCEPT !.row = None])

SessionsNext ==
    \E u \in UserIds :
        \/ revokeAllSessionsForUser(u)
        \/ \E h \in Hashes : createSession(u, h)
        \/ \E id \in Ids :
             \/ getSessionById(u, id) \/ revokeSession(u, id) \/ touchSession(u, id)
             \/ \E h \in Hashes : rotateSessionRefreshToken(u, id, h)

-----------------------------------------------------------------------------
(* The platform's tables have no policy; those of an organization have.    *)

listPlatformUserRoles(keys, users) ==
    Selects("listPlatformUserRoles", <<keys, users>>,
            Rows!listPlatformUserRoles(db.platformUserRoles, keys, users))

\* insert ... on conflict do nothing: where there is a row, the transaction
\* has still to read it.
createPlatformUserRole(c, user, key, by) ==
    LET statement == Rows!insertPlatformUserRole(db.platformUserRoles, user, key, by) IN
    /\ tx[c] = NoTx
    /\ \/ Commits("createPlatformUserRole", <<user, key, by>>, "platformUserRoles", statement)
       \/ /\ ~statement.ok /\ UNCHANGED <<db, expired, answer>>
          /\ tx' = [tx EXCEPT ![c] = [op |-> "createPlatformUserRole", args |-> <<user, key, by>>]]

\* The row may be gone by now: then the call fails.
existingPlatformUserRole(c) ==
    /\ tx[c].op = "createPlatformUserRole" /\ tx' = [tx EXCEPT ![c] = NoTx]
    /\ LET row == Rows!readPlatformUserRole(db.platformUserRoles, tx[c].args[1], tx[c].args[2]) IN
       IF row = None THEN UNCHANGED answer ELSE Answers("createPlatformUserRole", tx[c].args, row)
    /\ UNCHANGED <<db, expired>>

deletePlatformUserRole(user, key) ==
    Commits("deletePlatformUserRole", <<user, key>>, "platformUserRoles",
            Rows!deletePlatformUserRole(db.platformUserRoles, user, key))

listPlatformSettings ==
    Selects("listPlatformSettings", <<>>, Rows!listPlatformSettings(db.platformSettings))
getPlatformSetting(key) ==
    Selects("getPlatformSetting", key, Rows!getPlatformSetting(db.platformSettings, key))
upsertPlatformSetting(key, value, by) ==
    Commits("upsertPlatformSetting", <<key, value, by>>, "platformSettings",
            Rows!upsertPlatformSetting(db.platformSettings, key, value, by))

getOrganizationSubscription(org) ==
    Selects("getOrganizationSubscription", org,
            Rows!getOrganizationSubscription(InOrg("subscriptions", org), org))
upsertOrganizationSubscription(org, value, by) ==
    Commits("upsertOrganizationSubscription", <<org, value, by>>, "subscriptions",
            Rows!upsertOrganizationSubscription(db.subscriptions, org, value, by))

getOrganizationRunUsageMonthly(org, month) ==
    Selects("getOrganizationRunUsageMonthly", <<org, month>>,
            Rows!getOrganizationRunUsageMonthly(InOrg("usage", org), org, month))
incrementOrganizationRunUsageMonthly(org, month, amount) ==
    LET statement == Rows!incrementOrganizationRunUsageMonthly(db.usage, org, month, amount) IN
    /\ statement.row.count <= MaxCount
    /\ Commits("incrementOrganizationRunUsageMonthly", <<org, month, amount>>, "usage", statement)

createSupportTicket(requester, org) ==
    \E id \in Fresh("tickets") :
        Commits("createSupportTicket", <<requester, org>>, "tickets",
                Rows!createSupportTicket(db.tickets, id, requester, org))
listSupportTickets(statuses, orgs, requesters) ==
    Selects("listSupportTickets", <<statuses, orgs, requesters>>,
            Rows!listSupportTickets(db.tickets, statuses, orgs, requesters))
getSupportTicketById(id) ==
    Selects("getSupportTicketById", id, Rows!getSupportTicketById(db.tickets, id))
patchSupportTicket(id, status, assignee) ==
    Commits("patchSupportTicket", <<id, status, assignee>>, "tickets",
            Rows!patchSupportTicket(db.tickets, id, status, assignee))
appendSupportTicketEvent(ticket, type) ==
    \E id \in Fresh("events") :
        Commits("appendSupportTicketEvent", <<ticket, type>>, "events",
                Rows!appendSupportTicketEvent(db.events, db.tickets, id, ticket, type))
listSupportTicketEvents(ticket) ==
    Selects("listSupportTicketEvents", ticket, Rows!listSupportTicketEvents(db.events, ticket))
appendPlatformAuditLog(actor, action) ==
    \E id \in Fresh("audit") :
        Commits("appendPlatformAuditLog", <<actor, action>>, "audit",
                Rows!appendPlatformAuditLog(db.audit, id, actor, action))
listPlatformAuditLogs(actions) ==
    Selects("listPlatformAuditLogs", actions, Rows!listPlatformAuditLogs(db.audit, actions))

Filters(S) == {{x} : x \in S} \cup {S \cup {None}}

RolesNext ==
    \/ \E ks \in Filters(Keys), us \in Filters(UserIds) : listPlatformUserRoles(ks, us)
    \/ \E u \in UserIds, k \in Keys :
         \/ deletePlatformUserRole(u, k)
         \/ \E by \in UserIds \cup {None}, c \in Clients : createPlatformUserRole(c, u, k, by)
    \/ \E c \in Clients : existingPlatformUserRole(c)

SettingsNext ==
    \/ listPlatformSettings
    \/ \E o \in Ids : \/ getOrganizationSettings(o)
                      \/ \E v \in Values : updateOrganizationSettings(o, v)
    \/ \E k \in Keys : \/ getPlatformSetting(k)
                       \/ \E v \in Values, by \in UserIds : upsertPlatformSetting(k, v, by)
    \/ \E o \in OrgIds :
         \/ getOrganizationSubscription(o)
         \/ \E v \in Values, by \in UserIds : upsertOrganizationSubscription(o, v, by)
         \/ \E mo \in Months : \/ getOrganizationRunUsageMonthly(o, mo)
                               \/ \E n \in Amounts : incrementOrganizationRunUsageMonthly(o, mo, n)

SupportNext ==
    \/ \E u \in UserIds \cup {None}, o \in OrgIds \cup {None} : createSupportTicket(u, o)
    \/ \E ss \in Filters(Statuses), os \in Filters(OrgIds), us \in Filters(UserIds) :
         listSupportTickets(ss, os, us)
    \/ \E id \in Ids : \/ getSupportTicketById(id) \/ listSupportTicketEvents(id)
                       \/ \E k \in Keys : appendSupportTicketEvent(id, k)
                       \/ \E s \in Statuses, u \in UserIds \cup {None} : patchSupportTicket(id, s, u)
    \/ \E u \in UserIds \cup {None}, k \in Keys : appendPlatformAuditLog(u, k)
    \/ \E ks \in Filters(Keys) : listPlatformAuditLogs(ks)

Next == MembersNext \/ SessionsNext \/ RolesNext \/ SettingsNext \/ SupportNext

Spec == Init /\ [][Next]_vars

-----------------------------------------------------------------------------
\* While a transaction that found an invitation in time is under way, the
\* in-memory store's clock has not passed the invitation yet.
Reading == {tx[c].args[2] : c \in {c \in Clients : tx[c].op = "acceptInvitation"}}

Memory == INSTANCE MemoryAccounts WITH tables <- db, expired <- expired \ Reading

\* The API's tests run on the in-memory store (store/index.ts): what the
\* database answers, under its policies and with its transactions interleaved,
\* the in-memory store answers too.
ImplementsMemoryStore == Memory!Spec
=============================================================================
