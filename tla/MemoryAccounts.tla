--------------------------- MODULE MemoryAccounts ---------------------------
(***************************************************************************)
(* Accounts and organizations in the in-memory store of the API            *)
(* (apps/api/src/store/memory-store.ts), on which the API's tests run:     *)
(* what the methods of the store promise.  A method is one step: it        *)
(* changes the maps and is answered.  A method that throws changes nothing *)
(* and is no step.  Time stamps, names and password hashes are left out.   *)
(***************************************************************************)
EXTENDS Integers, FiniteSets, Tables

CONSTANTS
    Ids,            \* ids a row may get
    Emails, Slugs, Hashes, Values, Keys, Months,
    Statuses,       \* of a support ticket
    Roles, Granted, \* of a membership; of an invitation
    Amounts,        \* by which a month's usage is raised
    MaxCount        \* bound: runs counted in a month

VARIABLES
    tables,         \* the maps of the store
    expired,        \* ids of invitations whose expiresAt has passed
    answer          \* the last method that returned: its name, input and result

vars == <<tables, expired, answer>>


Init ==
    /\ tables = [users |-> {}, organizations |-> {}, memberships |-> {}, invitations |-> {},
                 sessions |-> {}, platformUserRoles |-> {}, platformSettings |-> {},
                 subscriptions |-> {}, usage |-> {}, tickets |-> {}, events |-> {}, audit |-> {}]
    /\ expired = {} /\ answer = None

Returns(op, args, result) ==
    /\ answer' # None /\ answer'[1] = op /\ answer'[2] = args /\ answer'[3] = result
\* While a method runs, the clock may pass the expiresAt of an invitation.
TimePasses == \E late \in SUBSET IdsOf(tables.invitations) : expired' = expired \cup late
Reads(op, args, result) == Returns(op, args, result) /\ UNCHANGED tables /\ TimePasses
Writes(op, args, result, table, rows) ==
    /\ Returns(op, args, result) /\ tables' = [tables EXCEPT ![table] = rows]
    /\ TimePasses
Fresh(table) == Ids \ IdsOf(tables[table])

UserIds == IdsOf(tables.users)
OrgIds == IdsOf(tables.organizations)

-----------------------------------------------------------------------------
(* Users, organizations, memberships and invitations.                      *)

createUser(email) ==
    /\ \A u \in tables.users : u.email # email
    /\ \E id \in Fresh("users") : LET user == [id |-> id, email |-> email] IN
         Writes("createUser", email, user, "users", tables.users \cup {user})

getUserByEmail(email) ==
    Reads("getUserByEmail", email, One({u \in tables.users : u.email = email}))

getUserById(id) == Reads("getUserById", id, Find(tables.users, id))

OrgsOf(user) ==
    {[organization |-> o.id, role |-> m.role] : <<o, m>> \in
        {<<o, m>> \in tables.organizations \X tables.memberships :
            m.org = o.id /\ m.user = user}}

listOrganizationsForUser(user) == Reads("listOrganizationsForUser", user, OrgsOf(user))

createOrganizationWithOwner(slug, owner) ==
    /\ \A o \in tables.organizations : o.slug # slug
    /\ \E id \in Fresh("organizations") :
         /\ Returns("createOrganizationWithOwner", <<slug, owner>>, id)
         /\ tables' = [tables EXCEPT
              !.organizations = @ \cup {[id |-> id, slug |-> slug, settings |-> None]},
              !.memberships = @ \cup {[org |-> id, user |-> owner, role |-> "owner"]}]
    /\ TimePasses

getOrganizationSettings(org) ==
    \E o \in ById(tables.organizations, org) : Reads("getOrganizationSettings", org, o.settings)

updateOrganizationSettings(org, value) ==
    \E o \in ById(tables.organizations, org) :
        Writes("updateOrganizationSettings", <<org, value>>, value, "organizations",
               Replaced(tables.organizations, {o}, [o EXCEPT !.settings = value]))

MembershipOf(org, user) == {m \in tables.memberships : m.org = org /\ m.user = user}

getMembership(org, user) == Reads("getMembership", <<org, user>>, One(MembershipOf(org, user)))

createInvitation(org, email, role) ==
    \E id \in Fresh("invitations") :
        LET row == [id |-> id, org |-> org, email |-> email, role |-> role, status |-> "pending"] IN
        Writes("createInvitation", <<org, email, role>>, row, "invitations",
               tables.invitations \cup {row})

InvitationByToken(org, token) == {i \in ById(tables.invitations, token) : i.org = org}

getInvitationByToken(org, token) ==
    Reads("getInvitationByToken", <<org, token>>, One(InvitationByToken(org, token)))

attachMembership(org, user, role) == [org |-> org, user |-> user, role |-> role]

acceptInvitation(org, token, user, email) ==
    \E i \in InvitationByToken(org, token) :
        LET had == MembershipOf(org, user)
            membership == IF had = {} THEN attachMembership(org, user, i.role) ELSE One(had) IN
        /\ i.email = email /\ i.id \notin expired
        /\ i.status \in {"pending", "accepted"}
        /\ Returns("acceptInvitation", <<org, token, user, email>>, <<membership.org, membership.user>>)
        /\ tables' = [tables EXCEPT
             !.memberships = @ \cup {membership},
             !.invitations = Replaced(@, {i}, [i EXCEPT !.status = "accepted"])]
        /\ TimePasses

updateMembershipRole(org, user, role) ==
    LET new(m) == [m EXCEPT !.role = role]
        hit == MembershipOf(org, user) IN
    Writes("updateMembershipRole", <<org, user, role>>, One({new(m) : m \in hit}), "memberships",
           Updated(tables.memberships, hit, new))

Expires == TimePasses /\ UNCHANGED <<tables, answer>>

MembersNext ==
    \/ Expires
    \/ \E e \in Emails : createUser(e) \/ getUserByEmail(e)
    \/ \E id \in Ids : getUserById(id)
    \/ \E u \in UserIds : \/ listOrganizationsForUser(u)
                          \/ \E s \in Slugs : createOrganizationWithOwner(s, u)
    \/ \E o \in OrgIds, u \in UserIds :
         \/ getMembership(o, u)
         \/ \E r \in Roles : updateMembershipRole(o, u, r)
    \/ \E o \in OrgIds, e \in Emails, r \in Granted : createInvitation(o, e, r)
    \/ \E o \in OrgIds, i \in Ids :
         \/ getInvitationByToken(o, i)
         \/ \E u \in tables.users : acceptInvitation(o, i, u.id, u.email)

-----------------------------------------------------------------------------
(* Sessions of signed-in users: a map by id, looked up for one user.       *)

createSession(user, hash) ==
    \E id \in Fresh("sessions") :
        LET row == [id |-> id, user |-> user, hash |-> hash, revoked |-> FALSE, used |-> FALSE] IN
        Writes("createSession", <<user, hash>>, row, "sessions", tables.sessions \cup {row})

SessionById(user, id) == {s \in ById(tables.sessions, id) : s.user = user}

getSessionById(user, id) == Reads("getSessionById", <<user, id>>, One(SessionById(user, id)))

ChangesSessions(op, args, hit, New(_), result) ==
    Writes(op, args, result, "sessions", Updated(tables.sessions, hit, New))

rotateSessionRefreshToken(user, id, hash) ==
    LET new(s) == [s EXCEPT !.hash = hash, !.used = TRUE]
        hit == SessionById(user, id) IN
    ChangesSessions("rotateSessionRefreshToken", <<user, id, hash>>, hit, new,
                    One({new(s) : s \in hit}))

Revoked(s) == [s EXCEPT !.revoked = TRUE]

revokeSession(user, id) ==
    LET hit == {s \in SessionById(user, id) : ~s.revoked} IN
    ChangesSessions("revokeSession", <<user, id>>, hit, Revoked, hit # {})

revokeAllSessionsForUser(user) ==
    LET hit == {s \in tables.sessions : s.user = user /\ ~s.revoked} IN
    ChangesSessions("revokeAllSessionsForUser", user, hit, Revoked, Cardinality(hit))

touchSession(user, id) ==
    LET new(s) == [s EXCEPT !.used = TRUE] IN
    ChangesSessions("touchSession", <<user, id>>, SessionById(user, id), new, None)

SessionsNext ==
    \E u \in UserIds :
        \/ revokeAllSessionsForUser(u)
        \/ \E h \in Hashes : createSession(u, h)
        \/ \E id \in Ids :
             \/ getSessionById(u, id) \/ revokeSession(u, id) \/ touchSession(u, id)
             \/ \E h \in Hashes : rotateSessionRefreshToken(u, id, h)

-----------------------------------------------------------------------------
(* The platform: its administrators, settings, subscriptions, the runs     *)
(* counted in a month, support tickets and the audit log.                  *)

RoleOf(user, key) == {r \in tables.platformUserRoles : r.user = user /\ r.key = key}

listPlatformUserRoles(keys, users) ==
    Reads("listPlatformUserRoles", <<keys, users>>,
          {r \in tables.platformUserRoles : r.key \in keys /\ r.user \in users})

createPlatformUserRole(user, key, by) ==
    LET had == RoleOf(user, key)
        row == IF had = {} THEN [user |-> user, key |-> key, by |-> by] ELSE One(had) IN
    Writes("createPlatformUserRole", <<user, key, by>>, row, "platformUserRoles",
           tables.platformUserRoles \cup {row})

deletePlatformUserRole(user, key) ==
    Writes("deletePlatformUserRole", <<user, key>>, RoleOf(user, key) # {}, "platformUserRoles",
           tables.platformUserRoles \ RoleOf(user, key))

SettingOf(key) == {s \in tables.platformSettings : s.key = key}

listPlatformSettings == Reads("listPlatformSettings", <<>>, tables.platformSettings)

getPlatformSetting(key) == Reads("getPlatformSetting", key, One(SettingOf(key)))

upsertPlatformSetting(key, value, by) ==
    LET row == [key |-> key, value |-> value, by |-> by] IN
    Writes("upsertPlatformSetting", <<key, value, by>>, row, "platformSettings",
           Replaced(tables.platformSettings, SettingOf(key), row))

SubscriptionOf(org) == {s \in tables.subscriptions : s.org = org}

getOrganizationSubscription(org) ==
    Reads("getOrganizationSubscription", org, One(SubscriptionOf(org)))

upsertOrganizationSubscription(org, value, by) ==
    LET row == [org |-> org, value |-> value, by |-> by] IN
    Writes("upsertOrganizationSubscription", <<org, value, by>>, row, "subscriptions",
           Replaced(tables.subscriptions, SubscriptionOf(org), row))

UsageOf(org, month) == {r \in tables.usage : r.org = org /\ r.month = month}

getOrganizationRunUsageMonthly(org, month) ==
    Reads("getOrganizationRunUsageMonthly", <<org, month>>, One(UsageOf(org, month)))

\* Math.max(0, Math.floor(amount))
Raise(amount) == IF amount < 0 THEN 0 ELSE amount

incrementOrganizationRunUsageMonthly(org, month, amount) ==
    LET had == UsageOf(org, month)
        row == [org |-> org, month |-> month,
                count |-> Raise(amount) + IF had = {} THEN 0 ELSE One(had).count] IN
    /\ row.count <= MaxCount
    /\ Writes("incrementOrganizationRunUsageMonthly", <<org, month, amount>>, row, "usage",
              Replaced(tables.usage, had, row))

createSupportTicket(requester, org) ==
    \E id \in Fresh("tickets") :
        LET row == [id |-> id, requester |-> requester, org |-> org, status |-> "open",
                    assignee |-> None] IN
        Writes("createSupportTicket", <<requester, org>>, row, "tickets", tables.tickets \cup {row})

listSupportTickets(statuses, orgs, requesters) ==
    Reads("listSupportTickets", <<statuses, orgs, requesters>>,
          {t \in tables.tickets : /\ t.status \in statuses /\ t.org \in orgs
                                  /\ t.requester \in requesters})

getSupportTicketById(id) == Reads("getSupportTicketById", id, Find(tables.tickets, id))

patchSupportTicket(id, status, assignee) ==
    LET new(t) == [t EXCEPT !.status = status, !.assignee = assignee]
        hit == ById(tables.tickets, id) IN
    Writes("patchSupportTicket", <<id, status, assignee>>, One({new(t) : t \in hit}), "tickets",
           Updated(tables.tickets, hit, new))

\* Whether there is such a ticket is not looked at.
appendSupportTicketEvent(ticket, type) ==
    \E id \in Fresh("events") : LET row == [id |-> id, ticket |-> ticket, type |-> type] IN
        Writes("appendSupportTicketEvent", <<ticket, type>>, row, "events", tables.events \cup {row})

listSupportTicketEvents(ticket) ==
    Reads("listSupportTicketEvents", ticket, {e \in tables.events : e.ticket = ticket})

appendPlatformAuditLog(actor, action) ==
    \E id \in Fresh("audit") : LET row == [id |-> id, actor |-> actor, action |-> action] IN
        Writes("appendPlatformAuditLog", <<actor, action>>, row, "audit", tables.audit \cup {row})

listPlatformAuditLogs(actions) ==
    Reads("listPlatformAuditLogs", actions, {l \in tables.audit : l.action \in actions})

\* What a filter of a list admits: one value, or all of them if it is left out.
Filters(S) == {{x} : x \in S} \cup {S \cup {None}}

RolesNext ==
    \/ \E ks \in Filters(Keys), us \in Filters(UserIds) : listPlatformUserRoles(ks, us)
    \/ \E u \in UserIds, k \in Keys :
         \/ deletePlatformUserRole(u, k)
         \/ \E by \in UserIds \cup {None} : createPlatformUserRole(u, k, by)

SettingsNext ==
    \/ listPlatformSettings
    \/ \E o \in Ids : \/ getOrganizationSettings(o)
                      \/ \E v \in Values : updateOrganizationSettings(o, v)
    \/ \E k \in Keys : \/ getPlatformSetting(k)
                       \/ \E v \in Values, by \in UserIds : upsertPlatformSetting(k, v, by)
    \/ \E o \in OrgIds :
         \/ getOrganizationSubscription(o)
         \/ \E v \in Values, by \in UserIds : upsertOrganizationSubscription(o, v, by)
         \/ \E mo \in Months : \/ getOrganizationRunUsageMonthly(o, mo)
                               \/ \E n \in Amounts : incrementOrganizationRunUsageMonthly(o, mo, n)

SupportNext ==
    \/ \E u \in UserIds \cup {None}, o \in OrgIds \cup {None} : createSupportTicket(u, o)
    \/ \E ss \in Filters(Statuses), os \in Filters(OrgIds), us \in Filters(UserIds) :
         listSupportTickets(ss, os, us)
    \/ \E id \in Ids : \/ getSupportTicketById(id) \/ listSupportTicketEvents(id)
                       \/ \E k \in Keys : appendSupportTicketEvent(id, k)
                       \/ \E s \in Statuses, u \in UserIds \cup {None} : patchSupportTicket(id, s, u)
    \/ \E u \in UserIds \cup {None}, k \in Keys : appendPlatformAuditLog(u, k)
    \/ \E ks \in Filters(Keys) : listPlatformAuditLogs(ks)

Next == MembersNext \/ SessionsNext \/ RolesNext \/ SettingsNext \/ SupportNext

Spec == Init /\ [][Next]_vars
=============================================================================
