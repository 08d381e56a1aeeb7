---------------------------- MODULE Organizations ----------------------------
(***************************************************************************)
(* The governance of one organization and of the platform, as the API      *)
(* handles it (apps/api/src/server.ts over the store): invitations,        *)
(* memberships and their roles, the organization's settings and its        *)
(* subscription, support tickets, system administrators and the audit log. *)
(*                                                                         *)
(* A handler reads what it checks in one transaction and writes in         *)
(* another, so a request is a check, a write and, where there is one, a    *)
(* record of the write, with other requests between them.                  *)
(***************************************************************************)
EXTENDS Integers, FiniteSets, Sequences

CONSTANTS
    Users,
    Founder,        \* who created the organization
    Invites,        \* bound: rows of organization_invitations
    Bootstrap,      \* users on the allow list of system administrators
    Fields,         \* sections of the settings or the subscription a patch may name
    Requests,
    None,
    MaxWrites       \* bound: requests accepted in all

VARIABLES
    role,           \* memberships of the organization
    invites,        \* organization_invitations: email, role, status, in time
    doc,            \* organizations.settings and organization_subscriptions: for each
                    \* field the number of the request it comes from
    admins,         \* platform_user_roles with role system_admin
    ticket,         \* a support ticket's status: the number of its write; and its events
    audit,          \* platform_audit_logs: numbers of the requests recorded
    req,            \* the requests in flight
    writes,         \* requests accepted so far
    acked,          \* history: per field, the last write answered; answered grants
    overlapped      \* history: documents patched by two requests at once

vars == <<role, invites, doc, admins, ticket, audit, req, writes, acked, overlapped>>

Documents == {"settings", "subscription"}
Roles == {"none", "member", "admin", "owner"}
Managers == {u \in Users : role[u] \in {"owner", "admin"}}
NoInvite == [email |-> None, role |-> "none", status |-> "none", inTime |-> TRUE]
Idle == [pc |-> "idle", op |-> "none", u |-> None, as |-> "none", of |-> None, to |-> "none",
         n |-> 0, read |-> [f \in Fields |-> 0]]

Init ==
    /\ role = [u \in Users |-> IF u = Founder THEN "owner" ELSE "none"]
    /\ invites = [i \in Invites |-> NoInvite]
    /\ doc = [d \in Documents |-> [f \in Fields |-> 0]]
    /\ admins \in {{}, {Founder}}
    /\ ticket = [status |-> 0, events |-> <<>>]
    /\ audit = {} /\ req = [r \in Requests |-> Idle] /\ writes = 0
    /\ acked = [doc |-> [d \in Documents |-> [f \in Fields |-> 0]], roles |-> {}]
    /\ overlapped = {}

Begin(r, f) ==
    /\ req[r].pc = "idle" /\ writes < MaxWrites /\ writes' = writes + 1
    /\ req' = [req EXCEPT ![r] = [f EXCEPT !.n = writes + 1]]
Go(r, pc) == req' = [req EXCEPT ![r].pc = pc]
End(r) == req' = [req EXCEPT ![r] = Idle]

-----------------------------------------------------------------------------
(* Invitations, memberships and roles.                                     *)

\* requireOrgContext reads the membership; the handler checks its role.
requireOrgContext(r, u, op, of, to) ==
    /\ u \in Managers
    /\ Begin(r, [Idle EXCEPT !.pc = "write", !.op = op, !.u = u, !.as = role[u], !.of = of,
                             !.to = to])
    /\ UNCHANGED <<role, invites, doc, admins, ticket, audit, acked, overlapped>>

\* The index of (organization, email, status) refuses a second pending one,
\* in time or not: no code ever sets the status to expired.
createInvitation(r, i) ==
    /\ req[r].pc = "write" /\ req[r].op = "invite" /\ End(r)
    /\ invites[i].status = "none"
    /\ invites' = IF \E j \in Invites : invites[j].email = req[r].of /\ invites[j].status = "pending"
                  THEN invites
                  ELSE [invites EXCEPT ![i] = [email |-> req[r].of, role |-> req[r].to,
                                               status |-> "pending", inTime |-> TRUE]]
    /\ UNCHANGED <<role, doc, admins, ticket, audit, writes, acked, overlapped>>

InvitationExpires(i) ==
    /\ invites[i].status # "none" /\ invites[i].inTime
    /\ invites' = [invites EXCEPT ![i].inTime = FALSE]
    /\ UNCHANGED <<role, doc, admins, ticket, audit, req, writes, acked, overlapped>>

\* A user who is not a member yet becomes one with the invitation's role.
Joins(u, i) == role' = [role EXCEPT ![u] = IF @ = "none" THEN invites[i].role ELSE @]

\* The second accepted row for one email breaks the same index: the whole
\* transaction is rolled back.
MayMark(i) ==
    invites[i].status = "accepted" \/
    ~\E j \in Invites \ {i} : invites[j].email = invites[i].email
                              /\ invites[j].status = "accepted"

\* Mutants: the email is not compared; the membership is left out.
acceptInvitation_Anyone(u, i) ==
    /\ invites[i].status # "none" /\ invites[i].inTime
    /\ MayMark(i) /\ Joins(u, i)
    /\ invites' = [invites EXCEPT ![i].status = "accepted"]
    /\ UNCHANGED <<doc, admins, ticket, audit, req, writes, acked, overlapped>>
acceptInvitation_MarksOnly(u, i) ==
    /\ invites[i].email = u /\ invites[i].inTime /\ MayMark(i)
    /\ invites' = [invites EXCEPT ![i].status = "accepted"]
    /\ UNCHANGED <<role, doc, admins, ticket, audit, req, writes, acked, overlapped>>

\* One transaction: the email and the time, the membership, the status.
acceptInvitation(u, i) ==
    /\ invites[i].email = u /\ invites[i].inTime /\ MayMark(i) /\ Joins(u, i)
    /\ invites' = [invites EXCEPT ![i].status = "accepted"]
    /\ UNCHANGED <<doc, admins, ticket, audit, req, writes, acked, overlapped>>

\* Mutant: whoever may change roles may give any role.
updateMembershipRole_Any(r) ==
    /\ req[r].pc = "write" /\ req[r].op = "role" /\ End(r)
    /\ role' = [role EXCEPT ![req[r].of] = IF @ = "none" THEN @ ELSE req[r].to]
    /\ UNCHANGED <<invites, doc, admins, ticket, audit, writes, acked, overlapped>>

\* Only one who was an owner when its membership was read makes an owner;
\* whose role is changed, and whether it is the last owner, is not looked at.
updateMembershipRole(r) ==
    /\ req[r].pc = "write" /\ req[r].op = "role" /\ End(r)
    /\ role' = IF req[r].to = "owner" /\ req[r].as # "owner" THEN role
               ELSE [role EXCEPT ![req[r].of] = IF @ = "none" THEN @ ELSE req[r].to]
    /\ UNCHANGED <<invites, doc, admins, ticket, audit, writes, acked, overlapped>>

-----------------------------------------------------------------------------
(* Settings and subscription: read, merge, write the whole.                *)

PatchUnderWay(d) == \E q \in Requests : req[q].op = "patch" /\ req[q].of = d

Reads(r, u, d, f) ==
    /\ Begin(r, [Idle EXCEPT !.pc = "merge", !.op = "patch", !.u = u, !.of = d, !.to = f,
                             !.read = doc[d]])
    /\ overlapped' = IF PatchUnderWay(d) THEN overlapped \cup {d} ELSE overlapped
    /\ UNCHANGED <<role, invites, doc, admins, ticket, audit, acked>>

getOrganizationSettings(r, u, f) == u \in Managers /\ Reads(r, u, "settings", f)
getOrganizationSubscription(r, u, f) == u \in admins /\ Reads(r, u, "subscription", f)

Merges(r, d, fields) ==
    /\ req[r].pc = "merge" /\ req[r].of = d /\ doc' = [doc EXCEPT ![d] = fields]
    /\ UNCHANGED <<role, invites, admins, ticket, audit, writes, overlapped>>
Merged(r) == [req[r].read EXCEPT ![req[r].to] = req[r].n]
AckPatch(r) == acked' = [acked EXCEPT !.doc[req[r].of][req[r].to] = req[r].n]

\* Mutant: what the patch does not name is reset.
updateOrganizationSettings_Resets(r) ==
    /\ Merges(r, "settings", [f \in Fields |-> IF f = req[r].to THEN req[r].n ELSE 0])
    /\ End(r) /\ AckPatch(r)

\* What the patch does not name is written back as it was read.
updateOrganizationSettings(r) ==
    Merges(r, "settings", Merged(r)) /\ End(r) /\ AckPatch(r)

\* The same for the subscription, with an entry in the audit log to follow.
upsertOrganizationSubscription(r) ==
    Merges(r, "subscription", Merged(r)) /\ Go(r, "record") /\ UNCHANGED acked

-----------------------------------------------------------------------------
(* System administrators, tickets and the audit log.                       *)

\* requireSystemAdmin gives a listed user the role before it asks for it.
requireSystemAdmin(r, u, op, of) ==
    /\ u \in admins \cup Bootstrap /\ admins' = admins \cup ({u} \cap Bootstrap)
    /\ Begin(r, [Idle EXCEPT !.pc = "write", !.op = op, !.u = u, !.of = of])
    /\ UNCHANGED <<role, invites, doc, ticket, audit, acked, overlapped>>

createPlatformUserRole(r) ==
    /\ req[r].pc = "write" /\ req[r].op = "grant" /\ Go(r, "record")
    /\ admins' = admins \cup {req[r].of}
    /\ UNCHANGED <<role, invites, doc, ticket, audit, writes, acked, overlapped>>

\* Mutant: an administrator may remove itself.
deletePlatformUserRole_Own(r) ==
    /\ req[r].pc = "write" /\ req[r].op = "remove" /\ Go(r, "record")
    /\ admins' = admins \ {req[r].of}
    /\ UNCHANGED <<role, invites, doc, ticket, audit, writes, acked, overlapped>>

\* Nobody removes itself; that another administrator is left is not checked.
deletePlatformUserRole(r) ==
    /\ req[r].pc = "write" /\ req[r].op = "remove"
    /\ IF req[r].of = req[r].u THEN End(r) /\ UNCHANGED admins
       ELSE Go(r, "record") /\ admins' = admins \ {req[r].of}
    /\ UNCHANGED <<role, invites, doc, ticket, audit, writes, acked, overlapped>>

\* The ticket's row first, its event in a transaction of its own.
patchSupportTicket(r, u) ==
    /\ u \in Managers \cup admins
    /\ Begin(r, [Idle EXCEPT !.pc = "record", !.op = "ticket", !.u = u])
    /\ ticket' = [ticket EXCEPT !.status = writes + 1]
    /\ UNCHANGED <<role, invites, doc, admins, audit, acked, overlapped>>

Ack(r) == IF req[r].op = "patch" THEN AckPatch(r)
          ELSE acked' = [acked EXCEPT !.roles = @ \cup {req[r].n}]

\* Mutant: the log is not awaited.
appendPlatformAuditLog_Unawaited(r) ==
    /\ req[r].pc = "record" /\ req[r].op # "ticket" /\ End(r) /\ Ack(r)
    /\ UNCHANGED <<role, invites, doc, admins, ticket, audit, writes, overlapped>>

\* The log is written, then the request is answered.
appendPlatformAuditLog(r) ==
    /\ req[r].pc = "record" /\ req[r].op # "ticket" /\ End(r) /\ Ack(r)
    /\ audit' = audit \cup {req[r].n}
    /\ UNCHANGED <<role, invites, doc, admins, ticket, writes, overlapped>>

appendSupportTicketEvent(r) ==
    /\ req[r].pc = "record" /\ req[r].op = "ticket" /\ End(r)
    /\ ticket' = [ticket EXCEPT !.events = Append(@, req[r].n)]
    /\ UNCHANGED <<role, invites, doc, admins, audit, writes, acked, overlapped>>

\* A database error or the end of the process between two steps.
RequestFails(r) ==
    /\ req[r].pc # "idle" /\ End(r)
    /\ UNCHANGED <<role, invites, doc, admins, ticket, audit, writes, acked, overlapped>>

Next ==
    \/ \E r \in Requests, u, v \in Users :
        \/ \E to \in {"member", "admin"} : requireOrgContext(r, u, "invite", v, to)
        \/ \E to \in Roles \ {"none"} : requireOrgContext(r, u, "role", v, to)
        \/ \E op \in {"grant", "remove"} : requireSystemAdmin(r, u, op, v)
    \/ \E r \in Requests :
        \/ \E i \in Invites : createInvitation(r, i)
        \/ updateMembershipRole(r)
        \/ \E u \in Users, f \in Fields :
            getOrganizationSettings(r, u, f) \/ getOrganizationSubscription(r, u, f)
        \/ updateOrganizationSettings(r) \/ upsertOrganizationSubscription(r)
        \/ createPlatformUserRole(r) \/ deletePlatformUserRole(r)
        \/ \E u \in Users : patchSupportTicket(r, u)
        \/ appendPlatformAuditLog(r) \/ appendSupportTicketEvent(r) \/ RequestFails(r)
    \/ \E i \in Invites : InvitationExpires(i) \/ \E u \in Users : acceptInvitation(u, i)

Spec == Init /\ [][Next]_vars

-----------------------------------------------------------------------------
(* Properties.                                                             *)

TypeOK ==
    /\ role \in [Users -> Roles] /\ admins \subseteq Users
    /\ invites \in [Invites -> [email : Users \cup {None}, role : Roles, inTime : BOOLEAN,
                                status : {"none", "pending", "accepted"}]]
    /\ doc \in [Documents -> [Fields -> 0..MaxWrites]]
    /\ audit \subseteq 1..MaxWrites /\ writes \in 0..MaxWrites
    /\ overlapped \subseteq Documents

\* A member other than the founder was invited by email, and has accepted
\* (acceptInvitation is one transaction).
MembersWereInvited ==
    \A u \in Users \ {Founder} : role[u] # "none" =>
        \E i \in Invites : invites[i].email = u /\ invites[i].status = "accepted"

\* Whoever has accepted is a member, so the index never keeps out a person
\* who is not one: only a member can have an accepted row.
AcceptedAreMembers ==
    \A i \in Invites : invites[i].status = "accepted" => role[invites[i].email] # "none"

LastAdminGoes ==
    admins # {} /\ admins' = {} =>
        \E r \in Requests : req[r].pc = "write" /\ req[r].op = "remove" /\ req[r].u \notin admins

\* The last system administrator goes only when two removals were past their
\* check at once: one after another, administrators cannot remove themselves.
AdminsVanishOnlyInRace == [][LastAdminGoes]_vars

OwnerIsMade ==
    \A u \in Users : role'[u] = "owner" /\ role[u] # "owner" =>
        \E r \in Requests : req[r].of = u /\ req[r].as = "owner" /\ req[r].to = "owner"

\* An owner is made only by one who was an owner when its request was checked,
\* so an organization whose owner makes none never has another
\* (requireOrgContext and updateMembershipRole are two transactions).
OwnersMakeOwners == [][OwnerIsMade]_vars

\* A section that was patched and answered keeps its value, unless two patches
\* of its document were under way at once at some time.
PatchesKeepSections ==
    \A d \in Documents \ overlapped : \A f \in Fields : doc[d][f] >= acked.doc[d][f]

\* Whatever grant or removal of an administrator was answered is in the log.
AnsweredIsAudited == acked.roles \subseteq audit

\* The organization has an owner (violated: the last owner may be demoted, by
\* an administrator or by itself).
OwnerRemains == \E u \in Users : role[u] = "owner"

\* A person who is not a member and holds no invitation that is in time can be
\* invited (violated: an invitation that ran out stays pending for ever).
MayBeInvited ==
    \A u \in Users : role[u] = "none" /\ (\A i \in Invites : invites[i].email = u => ~invites[i].inTime)
        => ~\E i \in Invites : invites[i].email = u /\ invites[i].status = "pending"

\* Once nothing is under way, a ticket's last event tells of its last change
\* (violated: two patches may record their events the other way round).
TicketHistoryAgrees ==
    (ticket.events # <<>> /\ \A r \in Requests : req[r].pc = "idle") =>
        ticket.events[Len(ticket.events)] = ticket.status
=============================================================================
